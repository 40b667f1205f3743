------------------------ MODULE SessionBrokerProofs ------------------------
(***************************************************************************)
(* Safety of the session broker, for any number of attackers, sessions,     *)
(* decoy requests, containers and subnets, and whatever fails.              *)
(***************************************************************************)
EXTENDS SessionBroker, FiniteSetTheorems, TLAPS

(* One task at a time is past state.lock, and a broker that is down runs    *)
(* nothing: only bridged sessions are left.                                 *)
Locking ==
    /\ \A s \in Sessions : pc[s] \in SessionPc
    /\ \A p \in Planters : pc[p] \in PlanterPc
    /\ pc[Reaper] \in ReaperPc
    /\ \A t \in Sessions \cup {Reaper} : pc[t] \in LockedPc => lock = t
    /\ ~up => \A t \in Tasks : pc[t] \in {"idle", "open"}

(* What a session request knows at each of its awaits.                      *)
RequestInv(s) ==
    /\ pc[s] # "idle" => src[s] \in SrcIps
    /\ pc[s] \in {"remove", "detach", "adopt", "run"} => src[s] \notin Tracked
    /\ pc[s] \in {"adopt", "run", "attach", "store"} => subnet[src[s]] # Nobody
    /\ pc[s] = "network" /\ src[s] \in Tracked => cid[s] = backends[src[s]].container_id
    /\ pc[s] \in {"attach", "store", "open"} =>
         cid[s] \in ContainerIds /\ builtFor[cid[s]] = src[s]

(* What a decoy request holds after it has looked the backend up.           *)
PlanterInv(p) ==
    pc[p] = "write" =>
        src[p] \in SrcIps /\ cid[p] \in ContainerIds /\ builtFor[cid[p]] = src[p]

(* What Docker holds belongs to the key it is named after.                  *)
DockerInv ==
    /\ \A k \in SrcIps : entry[k] # Nobody => builtFor[entry[k]] = k /\ subnet[k] # Nobody
    /\ \A j, k \in SrcIps : j # k /\ subnet[j] = subnet[k] => subnet[j] = Nobody
    /\ \A c \in ContainerIds : decoys[c] \subseteq {builtFor[c]}

(* What the dict says of an attacker is what Docker holds for them.         *)
TrackedInv ==
    \A k \in Tracked :
        /\ builtFor[backends[k].container_id] = k
        /\ backends[k].address \in {subnet[k], NoAddress}

(* _destroy works on a key that has left the dict, and gives its network    *)
(* back only once it has no container.                                      *)
DestroyInv ==
    /\ \A t \in Sessions \cup {Reaper} :
         /\ pc[t] \in {"remove", "detach"} =>
              victim \in SrcIps \ Tracked /\ doomed \in ContainerIds
         /\ pc[t] = "detach" => entry[victim] = Nobody
    /\ pc[Reaper] \in {"sweep", "remove", "detach"} => stale \subseteq Tracked

IndInv ==
    /\ TypeOK
    /\ Locking
    /\ \A s \in Sessions : RequestInv(s)
    /\ \A p \in Planters : PlanterInv(p)
    /\ DockerInv
    /\ TrackedInv
    /\ DestroyInv

-----------------------------------------------------------------------------
(* The dict.                                                                *)

(* Storing a well-formed backend leaves the other entries as they were.     *)
LEMMA StoreDict ==
    ASSUME NEW d, Dict(d), NEW k \in SrcIps, NEW b \in Backend
    PROVE  /\ Dict(Store(d, k, b))
           /\ DOMAIN Store(d, k, b) = DOMAIN d \cup {k}
           /\ \A j \in DOMAIN Store(d, k, b) :
                Store(d, k, b)[j] = IF j = k THEN b ELSE d[j]
<1>1. PICK D \in SUBSET SrcIps : d \in [D -> Backend]
  BY DEF Dict
<1>2. Store(d, k, b) \in [D \cup {k} -> Backend]
  BY <1>1 DEF Store
<1>3. QED
  BY <1>1, <1>2 DEF Dict, Store

(* Popping a key leaves the other entries as they were.                     *)
LEMMA PopDict ==
    ASSUME NEW d, Dict(d), NEW k
    PROVE  /\ Dict(Pop(d, k))
           /\ DOMAIN Pop(d, k) = DOMAIN d \ {k}
           /\ \A j \in DOMAIN Pop(d, k) : Pop(d, k)[j] = d[j]
<1>1. PICK D \in SUBSET SrcIps : d \in [D -> Backend]
  BY DEF Dict
<1>2. Pop(d, k) \in [D \ {k} -> Backend]
  BY <1>1 DEF Pop, Restrict
<1>3. QED
  BY <1>1, <1>2 DEF Dict, Pop, Restrict

(* Touching a backend changes neither its container nor its address.        *)
LEMMA TouchDict ==
    ASSUME Dict(backends), clock \in Nat, NEW k \in Tracked
    PROVE  /\ Dict(Touched(k))
           /\ DOMAIN Touched(k) = Tracked
           /\ \A j \in Tracked : /\ Touched(k)[j].container_id = backends[j].container_id
                                 /\ Touched(k)[j].address = backends[j].address
                                 /\ Touched(k)[j].last_seen =
                                      IF j = k THEN clock ELSE backends[j].last_seen
<1>1. PICK D \in SUBSET SrcIps : backends \in [D -> Backend]
  BY DEF Dict
<1>2. Touched(k) \in [D -> Backend]
  BY <1>1 DEF Touched, Tracked, Backend
<1>3. QED
  BY <1>1, <1>2 DEF Dict, Touched, Tracked, Backend

(* The dict of a broker that has just started.                              *)
LEMMA EmptyDict ==
    ASSUME NEW v
    PROVE  Dict([k \in {} |-> v]) /\ DOMAIN [k \in {} |-> v] = {}
<1>1. [k \in {} |-> v] \in [{} -> Backend]
  OBVIOUS
<1>2. QED
  BY <1>1 DEF Dict

(* What is known of the entries of a dict.                                  *)
LEMMA DictEntries ==
    ASSUME NEW d, Dict(d)
    PROVE  /\ DOMAIN d \subseteq SrcIps
           /\ \A k \in DOMAIN d : /\ d[k].container_id \in ContainerIds
                                  /\ d[k].address \in Subnets \cup {NoAddress}
                                  /\ d[k].last_seen \in Nat
  BY DEF Dict, Backend

-----------------------------------------------------------------------------

USE DEF requestVars, taskVars, destroyVars, reaperVars, containerVars,
        networkVars, dockerVars, Tasks, Goto

(* The task that holds the lock is the only one between two of its awaits.  *)
LEMMA Exclusion ==
    ASSUME IndInv, NEW t \in Sessions \cup {Reaper}, pc[t] \in LockedPc
    PROVE  \A r \in (Sessions \cup {Reaper}) \ {t} : pc[r] \notin LockedPc
  BY DistinctAssumption DEF IndInv, Locking

(* What is known of the tracked backends.                                   *)
LEMMA TrackedEntries ==
    ASSUME IndInv
    PROVE  /\ Tracked \subseteq SrcIps
           /\ \A k \in Tracked : /\ backends[k].container_id \in ContainerIds
                                 /\ backends[k].address \in Subnets \cup {NoAddress}
                                 /\ backends[k].last_seen \in Nat
  BY DictEntries DEF IndInv, TypeOK, Tracked

(* Nothing is tracked, held or built when the broker first starts.          *)
LEMMA InitIndInv == Init => IndInv
<1> SUFFICES ASSUME Init PROVE IndInv
  OBVIOUS
<1>1. Dict(backends) /\ Tracked = {}
  BY EmptyDict DEF Init, Tracked
<1>2. TypeOK
  BY <1>1 DEF Init, TypeOK, Tasks, SessionPc
<1>3. QED
  BY <1>1, <1>2 DEF Init, IndInv, Locking, RequestInv, PlanterInv, DockerInv,
        TrackedInv, DestroyInv, Tasks, SessionPc, PlanterPc, ReaperPc, LockedPc

(* The request enters the lock when nobody is in it.                        *)
LEMMA AcquireStep == ASSUME IndInv, NEW s \in Sessions, AcquireSession(s) PROVE IndInv'
<1> USE DEF AcquireSession, Tracked, IndInv
<1>1. TypeOK'
  BY DistinctAssumption DEF TypeOK, SessionPc
<1>2. Locking'
  BY DistinctAssumption DEF TypeOK, Locking, SessionPc, LockedPc
<1>3. \A r \in Sessions : RequestInv(r)'
  BY DistinctAssumption DEF TypeOK, RequestInv, LockedPc, SessionPc
<1>4. (\A q \in Planters : PlanterInv(q))'
  BY DistinctAssumption DEF TypeOK, PlanterInv
<1>5. DockerInv'
  BY DistinctAssumption DEF TypeOK, DockerInv
<1>6. TrackedInv'
  BY DistinctAssumption DEF TypeOK, TrackedInv
<1>7. DestroyInv'
  BY DistinctAssumption DEF TypeOK, DestroyInv, LockedPc, SessionPc
<1>8. QED
  BY <1>1, <1>2, <1>3, <1>4, <1>5, <1>6, <1>7

(* The request gives the lock back and leaves the dict as it was.           *)
LEMMA CheckFailsStep == ASSUME IndInv, NEW s \in Sessions, CheckFails(s) PROVE IndInv'
<1> USE DEF CheckFails, Abort, Finish, Fault, Tracked, IndInv
<1>0. /\ pc[s] \in LockedPc /\ src[s] \in SrcIps
      /\ \A r \in (Sessions \cup {Reaper}) \ {s} : pc[r] \notin LockedPc
  BY Exclusion DEF LockedPc, SessionPc, RequestInv
<1>1. TypeOK'
  BY <1>0, DistinctAssumption DEF TypeOK, SessionPc
<1>2. Locking'
  BY <1>0, DistinctAssumption DEF TypeOK, Locking, SessionPc, LockedPc
<1>3. \A r \in Sessions : RequestInv(r)'
  BY <1>0, DistinctAssumption DEF TypeOK, RequestInv, LockedPc, SessionPc
<1>4. (\A q \in Planters : PlanterInv(q))'
  BY <1>0, DistinctAssumption DEF TypeOK, PlanterInv
<1>5. DockerInv'
  BY <1>0, DistinctAssumption DEF TypeOK, DockerInv
<1>6. TrackedInv'
  BY <1>0, DistinctAssumption DEF TypeOK, TrackedInv
<1>7. DestroyInv'
  BY <1>0, DistinctAssumption DEF TypeOK, DestroyInv, LockedPc, SessionPc
<1>8. QED
  BY <1>1, <1>2, <1>3, <1>4, <1>5, <1>6, <1>7

(* The new subnet is free, so it is the address of no tracked backend.      *)
LEMMA EnsureNetworkStep == ASSUME IndInv, NEW s \in Sessions, EnsureNetwork(s) PROVE IndInv'
<1> USE DEF EnsureNetwork, FreeSubnets, IndInv
<1>0. /\ pc[s] \in LockedPc /\ src[s] \in SrcIps
      /\ \A r \in (Sessions \cup {Reaper}) \ {s} : pc[r] \notin LockedPc
  BY Exclusion DEF LockedPc, SessionPc, RequestInv
<1>1. TypeOK'
  BY <1>0, DistinctAssumption DEF TypeOK, SessionPc
<1>2. Locking'
  BY <1>0, DistinctAssumption DEF TypeOK, Locking, SessionPc, LockedPc
<1>3. \A r \in Sessions : RequestInv(r)'
  BY <1>0, TrackedEntries, DistinctAssumption DEF TypeOK, RequestInv, LockedPc, SessionPc, TrackedInv, Tracked
<1>4. (\A q \in Planters : PlanterInv(q))'
  BY <1>0, DistinctAssumption DEF TypeOK, PlanterInv
<1>5. DockerInv'
  BY <1>0, DistinctAssumption DEF TypeOK, DockerInv
<1>6. TrackedInv'
  BY <1>0, TrackedEntries, DistinctAssumption DEF TypeOK, TrackedInv, Tracked
<1>7. DestroyInv'
  BY <1>0, DistinctAssumption DEF TypeOK, DestroyInv, LockedPc, SessionPc, Tracked
<1>8. QED
  BY <1>1, <1>2, <1>3, <1>4, <1>5, <1>6, <1>7

(* The request gives the lock back before anything was built.               *)
LEMMA EnsureNetworkFailsStep == ASSUME IndInv, NEW s \in Sessions, EnsureNetworkFails(s) PROVE IndInv'
<1> USE DEF EnsureNetworkFails, Abort, Finish, Fault, Tracked, IndInv
<1>0. /\ pc[s] \in LockedPc /\ src[s] \in SrcIps
      /\ \A r \in (Sessions \cup {Reaper}) \ {s} : pc[r] \notin LockedPc
  BY Exclusion DEF LockedPc, SessionPc, RequestInv
<1>1. TypeOK'
  BY <1>0, DistinctAssumption DEF TypeOK, SessionPc
<1>2. Locking'
  BY <1>0, DistinctAssumption DEF TypeOK, Locking, SessionPc, LockedPc
<1>3. \A r \in Sessions : RequestInv(r)'
  BY <1>0, DistinctAssumption DEF TypeOK, RequestInv, LockedPc, SessionPc
<1>4. (\A q \in Planters : PlanterInv(q))'
  BY <1>0, DistinctAssumption DEF TypeOK, PlanterInv
<1>5. DockerInv'
  BY <1>0, DistinctAssumption DEF TypeOK, DockerInv
<1>6. TrackedInv'
  BY <1>0, DistinctAssumption DEF TypeOK, TrackedInv
<1>7. DestroyInv'
  BY <1>0, DistinctAssumption DEF TypeOK, DestroyInv, LockedPc, SessionPc
<1>8. QED
  BY <1>1, <1>2, <1>3, <1>4, <1>5, <1>6, <1>7

(* The name finds the container that was built for this very key.           *)
LEMMA AdoptExistingStep == ASSUME IndInv, NEW s \in Sessions, AdoptExisting(s) PROVE IndInv'
<1> USE DEF AdoptExisting, Tracked, IndInv
<1>0. /\ pc[s] \in LockedPc /\ src[s] \in SrcIps
      /\ \A r \in (Sessions \cup {Reaper}) \ {s} : pc[r] \notin LockedPc
  BY Exclusion DEF LockedPc, SessionPc, RequestInv
<1>1. TypeOK'
  BY <1>0, DistinctAssumption DEF TypeOK, SessionPc
<1>2. Locking'
  BY <1>0, DistinctAssumption DEF TypeOK, Locking, SessionPc, LockedPc
<1>3. \A r \in Sessions : RequestInv(r)'
  BY <1>0, DistinctAssumption DEF TypeOK, RequestInv, LockedPc, SessionPc, DockerInv
<1>4. (\A q \in Planters : PlanterInv(q))'
  BY <1>0, DistinctAssumption DEF TypeOK, PlanterInv
<1>5. DockerInv'
  BY <1>0, DistinctAssumption DEF TypeOK, DockerInv
<1>6. TrackedInv'
  BY <1>0, DistinctAssumption DEF TypeOK, TrackedInv
<1>7. DestroyInv'
  BY <1>0, DistinctAssumption DEF TypeOK, DestroyInv, LockedPc, SessionPc
<1>8. QED
  BY <1>1, <1>2, <1>3, <1>4, <1>5, <1>6, <1>7

(* Only an untracked container is replaced: the request needs one.          *)
LEMMA AdoptReplacesStep == ASSUME IndInv, NEW s \in Sessions, AdoptReplaces(s) PROVE IndInv'
<1> USE DEF AdoptReplaces, Fault, Tracked, IndInv
<1>0. /\ pc[s] \in LockedPc /\ src[s] \in SrcIps
      /\ \A r \in (Sessions \cup {Reaper}) \ {s} : pc[r] \notin LockedPc
  BY Exclusion DEF LockedPc, SessionPc, RequestInv
<1>1. TypeOK'
  BY <1>0, DistinctAssumption DEF TypeOK, SessionPc
<1>2. Locking'
  BY <1>0, DistinctAssumption DEF TypeOK, Locking, SessionPc, LockedPc
<1>3. \A r \in Sessions : RequestInv(r)'
  BY <1>0, DistinctAssumption DEF TypeOK, RequestInv, LockedPc, SessionPc
<1>4. (\A q \in Planters : PlanterInv(q))'
  BY <1>0, DistinctAssumption DEF TypeOK, PlanterInv
<1>5. DockerInv'
  BY <1>0, DistinctAssumption DEF TypeOK, DockerInv
<1>6. TrackedInv'
  BY <1>0, DistinctAssumption DEF TypeOK, TrackedInv
<1>7. DestroyInv'
  BY <1>0, DistinctAssumption DEF TypeOK, DestroyInv, LockedPc, SessionPc
<1>8. QED
  BY <1>1, <1>2, <1>3, <1>4, <1>5, <1>6, <1>7

(* A container may be left running, but it is not tracked.                  *)
LEMMA AdoptFailsStep == ASSUME IndInv, NEW s \in Sessions, AdoptFails(s) PROVE IndInv'
<1> USE DEF AdoptFails, Abort, Finish, Fault, Tracked, IndInv
<1>0. /\ pc[s] \in LockedPc /\ src[s] \in SrcIps
      /\ \A r \in (Sessions \cup {Reaper}) \ {s} : pc[r] \notin LockedPc
  BY Exclusion DEF LockedPc, SessionPc, RequestInv
<1>1. TypeOK'
  BY <1>0, DistinctAssumption DEF TypeOK, SessionPc
<1>2. Locking'
  BY <1>0, DistinctAssumption DEF TypeOK, Locking, SessionPc, LockedPc
<1>3. \A r \in Sessions : RequestInv(r)'
  BY <1>0, DistinctAssumption DEF TypeOK, RequestInv, LockedPc, SessionPc
<1>4. (\A q \in Planters : PlanterInv(q))'
  BY <1>0, DistinctAssumption DEF TypeOK, PlanterInv
<1>5. DockerInv'
  BY <1>0, DistinctAssumption DEF TypeOK, DockerInv
<1>6. TrackedInv'
  BY <1>0, DistinctAssumption DEF TypeOK, TrackedInv
<1>7. DestroyInv'
  BY <1>0, DistinctAssumption DEF TypeOK, DestroyInv, LockedPc, SessionPc
<1>8. QED
  BY <1>1, <1>2, <1>3, <1>4, <1>5, <1>6, <1>7

(* Only the program counter moves.                                          *)
LEMMA NothingToAdoptStep == ASSUME IndInv, NEW s \in Sessions, NothingToAdopt(s) PROVE IndInv'
<1> USE DEF NothingToAdopt, Tracked, IndInv
<1>0. /\ pc[s] \in LockedPc /\ src[s] \in SrcIps
      /\ \A r \in (Sessions \cup {Reaper}) \ {s} : pc[r] \notin LockedPc
  BY Exclusion DEF LockedPc, SessionPc, RequestInv
<1>1. TypeOK'
  BY <1>0, DistinctAssumption DEF TypeOK, SessionPc
<1>2. Locking'
  BY <1>0, DistinctAssumption DEF TypeOK, Locking, SessionPc, LockedPc
<1>3. \A r \in Sessions : RequestInv(r)'
  BY <1>0, DistinctAssumption DEF TypeOK, RequestInv, LockedPc, SessionPc
<1>4. (\A q \in Planters : PlanterInv(q))'
  BY <1>0, DistinctAssumption DEF TypeOK, PlanterInv
<1>5. DockerInv'
  BY <1>0, DistinctAssumption DEF TypeOK, DockerInv
<1>6. TrackedInv'
  BY <1>0, DistinctAssumption DEF TypeOK, TrackedInv
<1>7. DestroyInv'
  BY <1>0, DistinctAssumption DEF TypeOK, DestroyInv, LockedPc, SessionPc
<1>8. QED
  BY <1>1, <1>2, <1>3, <1>4, <1>5, <1>6, <1>7

(* The new id is labelled with the key it is stored under.                  *)
LEMMA CreateContainerStep == ASSUME IndInv, NEW s \in Sessions, CreateContainer(s) PROVE IndInv'
<1> USE DEF CreateContainer, UnusedIds, Tracked, IndInv
<1>0. /\ pc[s] \in LockedPc /\ src[s] \in SrcIps
      /\ \A r \in (Sessions \cup {Reaper}) \ {s} : pc[r] \notin LockedPc
  BY Exclusion DEF LockedPc, SessionPc, RequestInv
<1>1. TypeOK'
  BY <1>0, DistinctAssumption DEF TypeOK, SessionPc
<1>2. Locking'
  BY <1>0, DistinctAssumption DEF TypeOK, Locking, SessionPc, LockedPc
<1>3. \A r \in Sessions : RequestInv(r)'
  BY <1>0, DistinctAssumption DEF TypeOK, RequestInv, LockedPc, SessionPc
<1>4. (\A q \in Planters : PlanterInv(q))'
  BY <1>0, DistinctAssumption DEF TypeOK, PlanterInv
<1>5. DockerInv'
  BY <1>0, DistinctAssumption DEF TypeOK, DockerInv, RequestInv
<1>6. TrackedInv'
  BY <1>0, TrackedEntries, DistinctAssumption DEF TypeOK, TrackedInv
<1>7. DestroyInv'
  BY <1>0, DistinctAssumption DEF TypeOK, DestroyInv, LockedPc, SessionPc
<1>8. QED
  BY <1>1, <1>2, <1>3, <1>4, <1>5, <1>6, <1>7

(* A container may be left behind with the label of its own key.            *)
LEMMA CreateFailsStep == ASSUME IndInv, NEW s \in Sessions, CreateFails(s) PROVE IndInv'
<1> USE DEF CreateFails, UnusedIds, Abort, Finish, Fault, Tracked, IndInv
<1>0. /\ pc[s] \in LockedPc /\ src[s] \in SrcIps
      /\ \A r \in (Sessions \cup {Reaper}) \ {s} : pc[r] \notin LockedPc
  BY Exclusion DEF LockedPc, SessionPc, RequestInv
<1>1. TypeOK'
  BY <1>0, DistinctAssumption DEF TypeOK, SessionPc
<1>2. Locking'
  BY <1>0, DistinctAssumption DEF TypeOK, Locking, SessionPc, LockedPc
<1>3. \A r \in Sessions : RequestInv(r)'
  BY <1>0, DistinctAssumption DEF TypeOK, RequestInv, LockedPc, SessionPc
<1>4. (\A q \in Planters : PlanterInv(q))'
  BY <1>0, DistinctAssumption DEF TypeOK, PlanterInv
<1>5. DockerInv'
  BY <1>0, DistinctAssumption DEF TypeOK, DockerInv, RequestInv
<1>6. TrackedInv'
  BY <1>0, TrackedEntries, DistinctAssumption DEF TypeOK, TrackedInv
<1>7. DestroyInv'
  BY <1>0, DistinctAssumption DEF TypeOK, DestroyInv, LockedPc, SessionPc
<1>8. QED
  BY <1>1, <1>2, <1>3, <1>4, <1>5, <1>6, <1>7

(* The proxy's attachments name no backend.                                 *)
LEMMA AttachProxyStep == ASSUME IndInv, NEW s \in Sessions, AttachProxy(s) PROVE IndInv'
<1> USE DEF AttachProxy, Fault, Tracked, IndInv
<1>0. /\ pc[s] \in LockedPc /\ src[s] \in SrcIps
      /\ \A r \in (Sessions \cup {Reaper}) \ {s} : pc[r] \notin LockedPc
  BY Exclusion DEF LockedPc, SessionPc, RequestInv
<1>1. TypeOK'
  BY <1>0, DistinctAssumption DEF TypeOK, SessionPc
<1>2. Locking'
  BY <1>0, DistinctAssumption DEF TypeOK, Locking, SessionPc, LockedPc
<1>3. \A r \in Sessions : RequestInv(r)'
  BY <1>0, DistinctAssumption DEF TypeOK, RequestInv, LockedPc, SessionPc
<1>4. (\A q \in Planters : PlanterInv(q))'
  BY <1>0, DistinctAssumption DEF TypeOK, PlanterInv
<1>5. DockerInv'
  BY <1>0, DistinctAssumption DEF TypeOK, DockerInv
<1>6. TrackedInv'
  BY <1>0, DistinctAssumption DEF TypeOK, TrackedInv
<1>7. DestroyInv'
  BY <1>0, DistinctAssumption DEF TypeOK, DestroyInv, LockedPc, SessionPc
<1>8. QED
  BY <1>1, <1>2, <1>3, <1>4, <1>5, <1>6, <1>7

(* The request gives the lock back; attachments name no backend.            *)
LEMMA AttachFailsStep == ASSUME IndInv, NEW s \in Sessions, AttachFails(s) PROVE IndInv'
<1> USE DEF AttachFails, Abort, Finish, Fault, Tracked, IndInv
<1>0. /\ pc[s] \in LockedPc /\ src[s] \in SrcIps
      /\ \A r \in (Sessions \cup {Reaper}) \ {s} : pc[r] \notin LockedPc
  BY Exclusion DEF LockedPc, SessionPc, RequestInv
<1>1. TypeOK'
  BY <1>0, DistinctAssumption DEF TypeOK, SessionPc
<1>2. Locking'
  BY <1>0, DistinctAssumption DEF TypeOK, Locking, SessionPc, LockedPc
<1>3. \A r \in Sessions : RequestInv(r)'
  BY <1>0, DistinctAssumption DEF TypeOK, RequestInv, LockedPc, SessionPc
<1>4. (\A q \in Planters : PlanterInv(q))'
  BY <1>0, DistinctAssumption DEF TypeOK, PlanterInv
<1>5. DockerInv'
  BY <1>0, DistinctAssumption DEF TypeOK, DockerInv
<1>6. TrackedInv'
  BY <1>0, DistinctAssumption DEF TypeOK, TrackedInv
<1>7. DestroyInv'
  BY <1>0, DistinctAssumption DEF TypeOK, DestroyInv, LockedPc, SessionPc
<1>8. QED
  BY <1>1, <1>2, <1>3, <1>4, <1>5, <1>6, <1>7

(* The container runs untracked; the lock is given back.                    *)
LEMMA ReplyFailsStep == ASSUME IndInv, NEW s \in Sessions, ReplyFails(s) PROVE IndInv'
<1> USE DEF ReplyFails, Abort, Finish, Fault, Tracked, IndInv
<1>0. /\ pc[s] \in LockedPc /\ src[s] \in SrcIps
      /\ \A r \in (Sessions \cup {Reaper}) \ {s} : pc[r] \notin LockedPc
  BY Exclusion DEF LockedPc, SessionPc, RequestInv
<1>1. TypeOK'
  BY <1>0, DistinctAssumption DEF TypeOK, SessionPc
<1>2. Locking'
  BY <1>0, DistinctAssumption DEF TypeOK, Locking, SessionPc, LockedPc
<1>3. \A r \in Sessions : RequestInv(r)'
  BY <1>0, DistinctAssumption DEF TypeOK, RequestInv, LockedPc, SessionPc
<1>4. (\A q \in Planters : PlanterInv(q))'
  BY <1>0, DistinctAssumption DEF TypeOK, PlanterInv
<1>5. DockerInv'
  BY <1>0, DistinctAssumption DEF TypeOK, DockerInv
<1>6. TrackedInv'
  BY <1>0, DistinctAssumption DEF TypeOK, TrackedInv
<1>7. DestroyInv'
  BY <1>0, DistinctAssumption DEF TypeOK, DestroyInv, LockedPc, SessionPc
<1>8. QED
  BY <1>1, <1>2, <1>3, <1>4, <1>5, <1>6, <1>7

(* A session ends without the broker hearing of it.                         *)
LEMMA LoseReleaseStep == ASSUME IndInv, NEW s \in Sessions, LoseRelease(s) PROVE IndInv'
<1> USE DEF LoseRelease, Finish, Tracked, IndInv
<1>1. TypeOK'
  BY DistinctAssumption DEF TypeOK, SessionPc
<1>2. Locking'
  BY DistinctAssumption DEF TypeOK, Locking, SessionPc, LockedPc
<1>3. \A r \in Sessions : RequestInv(r)'
  BY DistinctAssumption DEF TypeOK, RequestInv, LockedPc, SessionPc
<1>4. (\A q \in Planters : PlanterInv(q))'
  BY DistinctAssumption DEF TypeOK, PlanterInv
<1>5. DockerInv'
  BY DistinctAssumption DEF TypeOK, DockerInv
<1>6. TrackedInv'
  BY DistinctAssumption DEF TypeOK, TrackedInv
<1>7. DestroyInv'
  BY DistinctAssumption DEF TypeOK, DestroyInv, LockedPc, SessionPc
<1>8. QED
  BY <1>1, <1>2, <1>3, <1>4, <1>5, <1>6, <1>7

(* Only the set of deserted sessions grows.                                 *)
LEMMA GiveUpStep == ASSUME IndInv, NEW s \in Sessions, GiveUp(s) PROVE IndInv'
<1> USE DEF GiveUp, Fault, Tracked, IndInv
<1>1. TypeOK'
  BY DistinctAssumption DEF TypeOK, SessionPc
<1>2. Locking'
  BY DistinctAssumption DEF TypeOK, Locking, SessionPc, LockedPc
<1>3. \A r \in Sessions : RequestInv(r)'
  BY DistinctAssumption DEF TypeOK, RequestInv, LockedPc, SessionPc
<1>4. (\A q \in Planters : PlanterInv(q))'
  BY DistinctAssumption DEF TypeOK, PlanterInv
<1>5. DockerInv'
  BY DistinctAssumption DEF TypeOK, DockerInv
<1>6. TrackedInv'
  BY DistinctAssumption DEF TypeOK, TrackedInv
<1>7. DestroyInv'
  BY DistinctAssumption DEF TypeOK, DestroyInv, LockedPc, SessionPc
<1>8. QED
  BY <1>1, <1>2, <1>3, <1>4, <1>5, <1>6, <1>7

(* The session is given the container its own backend names.                *)
LEMMA ReuseStep == ASSUME IndInv, NEW s \in Sessions, ReuseBackend(s) PROVE IndInv'
<1> USE DEF ReuseBackend, IndInv
<1>0. /\ pc[s] \in LockedPc /\ src[s] \in SrcIps
      /\ \A r \in (Sessions \cup {Reaper}) \ {s} : pc[r] \notin LockedPc
  BY Exclusion DEF LockedPc, SessionPc, RequestInv
<1>a. /\ Dict(backends') /\ Tracked' = Tracked
      /\ \A k \in Tracked : /\ backends'[k].container_id = backends[k].container_id
                            /\ backends'[k].address = backends[k].address
  BY <1>0, TouchDict DEF TypeOK, Tracked
<1>1. TypeOK'
  BY <1>0, <1>a, TrackedEntries, DistinctAssumption DEF TypeOK, SessionPc
<1>2. Locking'
  BY <1>0, <1>a, DistinctAssumption DEF TypeOK, Locking, SessionPc, LockedPc
<1>3. \A r \in Sessions : RequestInv(r)'
  BY <1>0, <1>a, TrackedEntries, DistinctAssumption DEF TypeOK, RequestInv, LockedPc, SessionPc, TrackedInv
<1>4. (\A q \in Planters : PlanterInv(q))'
  BY <1>0, <1>a, DistinctAssumption DEF TypeOK, PlanterInv
<1>5. DockerInv'
  BY <1>0, <1>a, DistinctAssumption DEF TypeOK, DockerInv
<1>6. TrackedInv'
  BY <1>0, <1>a, DistinctAssumption DEF TypeOK, TrackedInv
<1>7. DestroyInv'
  BY <1>0, <1>a, DistinctAssumption DEF TypeOK, DestroyInv, LockedPc, SessionPc
<1>8. QED
  BY <1>1, <1>2, <1>3, <1>4, <1>5, <1>6, <1>7

(* Popping an entry keeps what is known of the others.                      *)
LEMMA MakeRoomStep == ASSUME IndInv, NEW s \in Sessions, MakeRoom(s) PROVE IndInv'
<1> USE DEF MakeRoom, IndInv
<1>0. /\ pc[s] \in LockedPc /\ src[s] \in SrcIps
      /\ \A r \in (Sessions \cup {Reaper}) \ {s} : pc[r] \notin LockedPc
  BY Exclusion DEF LockedPc, SessionPc, RequestInv
<1>a. /\ Dict(backends') /\ Tracked' = Tracked \ {src[s]}
      /\ \A k \in Tracked' : backends'[k] = backends[k]
  BY <1>0, PopDict DEF TypeOK, Tracked
<1>b. faults' \in Nat
  BY DEF NeedsContainer, Fault, TypeOK
<1>1. TypeOK'
  BY <1>0, <1>a, <1>b, DistinctAssumption DEF TypeOK, SessionPc
<1>2. Locking'
  BY <1>0, <1>a, DistinctAssumption DEF TypeOK, Locking, SessionPc, LockedPc
<1>3. \A r \in Sessions : RequestInv(r)'
  BY <1>0, <1>a, DistinctAssumption DEF TypeOK, RequestInv, LockedPc, SessionPc
<1>4. (\A q \in Planters : PlanterInv(q))'
  BY <1>0, <1>a, DistinctAssumption DEF TypeOK, PlanterInv
<1>5. DockerInv'
  BY <1>0, <1>a, DistinctAssumption DEF TypeOK, DockerInv
<1>6. TrackedInv'
  BY <1>0, <1>a, DistinctAssumption DEF TypeOK, TrackedInv
<1>7. DestroyInv'
  BY <1>0, <1>a, DistinctAssumption DEF TypeOK, DestroyInv, LockedPc, SessionPc
<1>8. QED
  BY <1>1, <1>2, <1>3, <1>4, <1>5, <1>6, <1>7

(* The victim is popped, and known to _destroy, in one step.                *)
LEMMA EvictStep == ASSUME IndInv, NEW s \in Sessions, EvictOldest(s) PROVE IndInv'
<1> USE DEF EvictOldest, BeginDestroy, IndInv
<1>0. /\ pc[s] \in LockedPc /\ src[s] \in SrcIps
      /\ \A r \in (Sessions \cup {Reaper}) \ {s} : pc[r] \notin LockedPc
  BY Exclusion DEF LockedPc, SessionPc, RequestInv
<1>a. PICK k \in Tracked \ {src[s]} :
        /\ Dict(backends') /\ Tracked' = Tracked \ {src[s], k}
        /\ \A j \in Tracked' : backends'[j] = backends[j]
        /\ victim' = k /\ doomed' = backends[k].container_id
  <2> DEFINE rest == Pop(backends, src[s])
  <2>1. /\ Dict(rest) /\ DOMAIN rest = Tracked \ {src[s]}
        /\ \A j \in DOMAIN rest : rest[j] = backends[j]
    BY PopDict DEF TypeOK, Tracked
  <2>2. PICK k \in DOMAIN rest : BeginDestroy(s, rest, k)
    BY DEF Oldest
  <2> HIDE DEF rest
  <2>3. /\ Dict(Pop(rest, k)) /\ DOMAIN Pop(rest, k) = DOMAIN rest \ {k}
        /\ \A j \in DOMAIN Pop(rest, k) : Pop(rest, k)[j] = rest[j]
    BY <2>1, PopDict
  <2>4. backends' = Pop(rest, k)
    BY <2>2
  <2>5. QED
    BY <2>1, <2>2, <2>3, <2>4 DEF Tracked
<1>b. faults' \in Nat
  BY DEF NeedsContainer, Fault, TypeOK
<1>1. TypeOK'
  BY <1>0, <1>a, <1>b, TrackedEntries, DistinctAssumption DEF TypeOK, SessionPc
<1>2. Locking'
  BY <1>0, <1>a, DistinctAssumption DEF TypeOK, Locking, SessionPc, LockedPc
<1>3. \A r \in Sessions : RequestInv(r)'
  BY <1>0, <1>a, DistinctAssumption DEF TypeOK, RequestInv, LockedPc, SessionPc
<1>4. (\A q \in Planters : PlanterInv(q))'
  BY <1>0, <1>a, DistinctAssumption DEF TypeOK, PlanterInv
<1>5. DockerInv'
  BY <1>0, <1>a, DistinctAssumption DEF TypeOK, DockerInv
<1>6. TrackedInv'
  BY <1>0, <1>a, DistinctAssumption DEF TypeOK, TrackedInv
<1>7. DestroyInv'
  BY <1>0, <1>a, TrackedEntries, DistinctAssumption DEF TypeOK, DestroyInv, LockedPc, SessionPc
<1>8. QED
  BY <1>1, <1>2, <1>3, <1>4, <1>5, <1>6, <1>7

(* The stored address is that of a network no other backend has.            *)
LEMMA ReplyStep == ASSUME IndInv, NEW s \in Sessions, ReplySession(s) PROVE IndInv'
<1> USE DEF ReplySession, Finish, IndInv
<1>0. /\ pc[s] \in LockedPc /\ src[s] \in SrcIps
      /\ \A r \in (Sessions \cup {Reaper}) \ {s} : pc[r] \notin LockedPc
  BY Exclusion DEF LockedPc, SessionPc, RequestInv
<1>a. /\ Dict(backends') /\ Tracked' = Tracked \cup {src[s]}
      /\ \A k \in Tracked : backends'[k] = backends[k]
      /\ src[s] \notin Tracked =>
           /\ backends'[src[s]].container_id = cid[s]
           /\ backends'[src[s]].address \in {subnet[src[s]], NoAddress}
  <2>1. CASE src[s] \in Tracked
    BY <2>1 DEF TypeOK, Tracked
  <2>2. CASE src[s] \notin Tracked
    <3>1. PICK b \in Backend : /\ b.container_id = cid[s]
                               /\ b.address \in {subnet[src[s]], NoAddress}
                               /\ backends' = Store(backends, src[s], b)
      <4>1. PICK a \in AddressesOf(src[s], cid[s]) :
              backends' = Store(backends, src[s],
                                [container_id |-> cid[s], address |-> a, last_seen |-> clock])
        BY <2>2
      <4>2. a \in {subnet[src[s]], NoAddress}
        BY <4>1 DEF AddressesOf
      <4>3. [container_id |-> cid[s], address |-> a, last_seen |-> clock] \in Backend
        BY <1>0, <4>2 DEF RequestInv, TypeOK, Backend
      <4>4. QED
        BY <4>1, <4>2, <4>3
    <3>2. Dict(backends)
      BY DEF TypeOK
    <3> HIDE DEF ReplySession, IndInv
    <3>3. /\ Dict(Store(backends, src[s], b))
          /\ DOMAIN Store(backends, src[s], b) = Tracked \cup {src[s]}
          /\ \A j \in DOMAIN Store(backends, src[s], b) :
               Store(backends, src[s], b)[j] = IF j = src[s] THEN b ELSE backends[j]
      BY <1>0, <3>2, StoreDict DEF Tracked
    <3>4. QED
      BY <2>2, <3>1, <3>3 DEF Tracked
  <2>3. QED
    BY <2>1, <2>2
<1>1. TypeOK'
  BY <1>0, <1>a, DistinctAssumption DEF TypeOK, SessionPc
<1>2. Locking'
  BY <1>0, <1>a, DistinctAssumption DEF TypeOK, Locking, SessionPc, LockedPc
<1>3. \A r \in Sessions : RequestInv(r)'
  BY <1>0, <1>a, DistinctAssumption DEF TypeOK, RequestInv, LockedPc, SessionPc, RequestInv
<1>4. (\A q \in Planters : PlanterInv(q))'
  BY <1>0, <1>a, DistinctAssumption DEF TypeOK, PlanterInv
<1>5. DockerInv'
  BY <1>0, <1>a, DistinctAssumption DEF TypeOK, DockerInv
<1>6. TrackedInv'
  <2>1. builtFor[cid[s]] = src[s]
    BY DEF RequestInv
  <2>2. TrackedInv /\ UNCHANGED <<builtFor, subnet>>
    OBVIOUS
  <2> HIDE DEF ReplySession, IndInv
  <2>3. QED
    <3> SUFFICES ASSUME NEW k \in Tracked'
                 PROVE  /\ builtFor[backends'[k].container_id] = k
                        /\ backends'[k].address \in {subnet[k], NoAddress}
      BY <2>2 DEF TrackedInv
    <3>1. CASE k \in Tracked
      BY <1>a, <2>2, <3>1 DEF TrackedInv
    <3>2. CASE k \notin Tracked
      BY <1>a, <2>1, <3>2
    <3>3. QED
      BY <3>1, <3>2
<1>7. DestroyInv'
  BY <1>0, <1>a, DistinctAssumption DEF TypeOK, DestroyInv, LockedPc, SessionPc
<1>8. QED
  BY <1>1, <1>2, <1>3, <1>4, <1>5, <1>6, <1>7

(* A touch changes no container id and no address.                          *)
LEMMA ReleaseStep == ASSUME IndInv, NEW s \in Sessions, ReleaseSession(s) PROVE IndInv'
<1> USE DEF ReleaseSession, Finish, IndInv
<1>a. /\ Dict(backends') /\ Tracked' = Tracked
      /\ \A k \in Tracked : /\ backends'[k].container_id = backends[k].container_id
                            /\ backends'[k].address = backends[k].address
  BY TouchDict DEF TypeOK, Tracked
<1>1. TypeOK'
  BY <1>a, DistinctAssumption DEF TypeOK, SessionPc
<1>2. Locking'
  BY <1>a, DistinctAssumption DEF TypeOK, Locking, SessionPc, LockedPc
<1>3. \A r \in Sessions : RequestInv(r)'
  BY <1>a, DistinctAssumption DEF TypeOK, RequestInv, LockedPc, SessionPc
<1>4. (\A q \in Planters : PlanterInv(q))'
  BY <1>a, DistinctAssumption DEF TypeOK, PlanterInv
<1>5. DockerInv'
  BY <1>a, DistinctAssumption DEF TypeOK, DockerInv
<1>6. TrackedInv'
  BY <1>a, DistinctAssumption DEF TypeOK, TrackedInv
<1>7. DestroyInv'
  BY <1>a, DistinctAssumption DEF TypeOK, DestroyInv, LockedPc, SessionPc
<1>8. QED
  BY <1>1, <1>2, <1>3, <1>4, <1>5, <1>6, <1>7

(* The container id is read together with its key.                          *)
LEMMA PlantStep == ASSUME IndInv, NEW p \in Planters, PlantDecoys(p) PROVE IndInv'
<1> USE DEF PlantDecoys, IndInv
<1>1. TypeOK'
  BY TrackedEntries, DistinctAssumption DEF TypeOK, SessionPc, PlanterPc
<1>2. Locking'
  BY DistinctAssumption DEF TypeOK, Locking, SessionPc, LockedPc, PlanterPc
<1>3. \A r \in Sessions : RequestInv(r)'
  BY DistinctAssumption DEF TypeOK, RequestInv, LockedPc, SessionPc, Tracked
<1>4. (\A q \in Planters : PlanterInv(q))'
  BY TrackedEntries, DistinctAssumption DEF TypeOK, PlanterInv, TrackedInv
<1>5. DockerInv'
  BY DistinctAssumption DEF TypeOK, DockerInv
<1>6. TrackedInv'
  BY DistinctAssumption DEF TypeOK, TrackedInv, Tracked
<1>7. DestroyInv'
  BY DistinctAssumption DEF TypeOK, DestroyInv, LockedPc, SessionPc, Tracked
<1>8. QED
  BY <1>1, <1>2, <1>3, <1>4, <1>5, <1>6, <1>7

(* The container written to was built for the key, stale or not.            *)
LEMMA WriteStep == ASSUME IndInv, NEW p \in Planters, WriteFiles(p) PROVE IndInv'
<1> USE DEF WriteFiles, Finish, IndInv
<1>a. /\ Dict(backends') /\ Tracked' = Tracked
      /\ \A k \in Tracked : /\ backends'[k].container_id = backends[k].container_id
                            /\ backends'[k].address = backends[k].address
  BY TouchDict DEF TypeOK, Tracked
<1>1. TypeOK'
  BY <1>a, DistinctAssumption DEF TypeOK, SessionPc, PlanterPc, PlanterInv
<1>2. Locking'
  BY <1>a, DistinctAssumption DEF TypeOK, Locking, SessionPc, LockedPc, PlanterPc
<1>3. \A r \in Sessions : RequestInv(r)'
  BY <1>a, DistinctAssumption DEF TypeOK, RequestInv, LockedPc, SessionPc
<1>4. (\A q \in Planters : PlanterInv(q))'
  BY <1>a, DistinctAssumption DEF TypeOK, PlanterInv
<1>5. DockerInv'
  BY <1>a, DistinctAssumption DEF TypeOK, DockerInv, PlanterInv
<1>6. TrackedInv'
  BY <1>a, DistinctAssumption DEF TypeOK, TrackedInv
<1>7. DestroyInv'
  BY <1>a, DistinctAssumption DEF TypeOK, DestroyInv, LockedPc, SessionPc
<1>8. QED
  BY <1>1, <1>2, <1>3, <1>4, <1>5, <1>6, <1>7

(* A half-finished write went to the container of the same key.             *)
LEMMA WriteFailsStep == ASSUME IndInv, NEW p \in Planters, WriteFails(p) PROVE IndInv'
<1> USE DEF WriteFails, Finish, Fault, IndInv
<1>1. TypeOK'
  BY DistinctAssumption DEF TypeOK, SessionPc, PlanterPc, PlanterInv
<1>2. Locking'
  BY DistinctAssumption DEF TypeOK, Locking, SessionPc, LockedPc, PlanterPc
<1>3. \A r \in Sessions : RequestInv(r)'
  BY DistinctAssumption DEF TypeOK, RequestInv, LockedPc, SessionPc, Tracked
<1>4. (\A q \in Planters : PlanterInv(q))'
  BY DistinctAssumption DEF TypeOK, PlanterInv
<1>5. DockerInv'
  BY DistinctAssumption DEF TypeOK, DockerInv, PlanterInv
<1>6. TrackedInv'
  BY DistinctAssumption DEF TypeOK, TrackedInv, Tracked
<1>7. DestroyInv'
  BY DistinctAssumption DEF TypeOK, DestroyInv, LockedPc, SessionPc, Tracked
<1>8. QED
  BY <1>1, <1>2, <1>3, <1>4, <1>5, <1>6, <1>7

(* The container removed is the one the victim was popped with.             *)
LEMMA ForceRemoveStep == ASSUME IndInv, NEW t \in Sessions \cup {Reaper}, ForceRemove(t) PROVE IndInv'
<1> USE DEF ForceRemove, IndInv
<1>0. /\ pc[t] \in LockedPc
      /\ \A r \in (Sessions \cup {Reaper}) \ {t} : pc[r] \notin LockedPc
  BY Exclusion DEF LockedPc, SessionPc
<1>1. TypeOK'
  BY <1>0, DistinctAssumption DEF TypeOK, SessionPc, DestroyInv, ReaperPc, PlanterPc
<1>2. Locking'
  BY <1>0, DistinctAssumption DEF TypeOK, Locking, SessionPc, LockedPc, ReaperPc
<1>3. \A r \in Sessions : RequestInv(r)'
  BY <1>0, DistinctAssumption DEF TypeOK, RequestInv, LockedPc, SessionPc, Tracked
<1>4. (\A q \in Planters : PlanterInv(q))'
  BY <1>0, DistinctAssumption DEF TypeOK, PlanterInv
<1>5. DockerInv'
  BY <1>0, DistinctAssumption DEF TypeOK, DockerInv
<1>6. TrackedInv'
  BY <1>0, DistinctAssumption DEF TypeOK, TrackedInv, Tracked
<1>7. DestroyInv'
  BY <1>0, DistinctAssumption DEF TypeOK, DestroyInv, LockedPc, SessionPc, Tracked
<1>8. QED
  BY <1>1, <1>2, <1>3, <1>4, <1>5, <1>6, <1>7

(* The container stays, untracked, and the caller goes on.                  *)
LEMMA RemoveFailsStep == ASSUME IndInv, NEW t \in Sessions \cup {Reaper}, RemoveFails(t) PROVE IndInv'
<1> USE DEF RemoveFails, Destroyed, Abort, Finish, Fault, IndInv
<1>0. /\ pc[t] \in LockedPc
      /\ \A r \in (Sessions \cup {Reaper}) \ {t} : pc[r] \notin LockedPc
  BY Exclusion DEF LockedPc, SessionPc
<1>1. TypeOK'
  BY <1>0, DistinctAssumption DEF TypeOK, SessionPc, DestroyInv, ReaperPc, PlanterPc
<1>2. Locking'
  BY <1>0, DistinctAssumption DEF TypeOK, Locking, SessionPc, LockedPc, ReaperPc
<1>3. \A r \in Sessions : RequestInv(r)'
  BY <1>0, DistinctAssumption DEF TypeOK, RequestInv, LockedPc, SessionPc, Tracked
<1>4. (\A q \in Planters : PlanterInv(q))'
  BY <1>0, DistinctAssumption DEF TypeOK, PlanterInv
<1>5. DockerInv'
  BY <1>0, DistinctAssumption DEF TypeOK, DockerInv
<1>6. TrackedInv'
  BY <1>0, DistinctAssumption DEF TypeOK, TrackedInv, Tracked
<1>7. DestroyInv'
  BY <1>0, DistinctAssumption DEF TypeOK, DestroyInv, LockedPc, SessionPc, Tracked
<1>8. QED
  BY <1>1, <1>2, <1>3, <1>4, <1>5, <1>6, <1>7

(* Request or reaper end, and the lock with them.                           *)
LEMMA CollectFailsStep == ASSUME IndInv, NEW t \in Sessions \cup {Reaper}, CollectFails(t) PROVE IndInv'
<1> USE DEF CollectFails, Finish, Fault, IndInv
<1>0. /\ pc[t] \in LockedPc
      /\ \A r \in (Sessions \cup {Reaper}) \ {t} : pc[r] \notin LockedPc
  BY Exclusion DEF LockedPc, SessionPc
<1>1. TypeOK'
  BY <1>0, DistinctAssumption DEF TypeOK, SessionPc, DestroyInv, ReaperPc, PlanterPc
<1>2. Locking'
  BY <1>0, DistinctAssumption DEF TypeOK, Locking, SessionPc, LockedPc, ReaperPc
<1>3. \A r \in Sessions : RequestInv(r)'
  BY <1>0, DistinctAssumption DEF TypeOK, RequestInv, LockedPc, SessionPc, Tracked
<1>4. (\A q \in Planters : PlanterInv(q))'
  BY <1>0, DistinctAssumption DEF TypeOK, PlanterInv
<1>5. DockerInv'
  BY <1>0, DistinctAssumption DEF TypeOK, DockerInv
<1>6. TrackedInv'
  BY <1>0, DistinctAssumption DEF TypeOK, TrackedInv, Tracked
<1>7. DestroyInv'
  BY <1>0, DistinctAssumption DEF TypeOK, DestroyInv, LockedPc, SessionPc, Tracked
<1>8. QED
  BY <1>1, <1>2, <1>3, <1>4, <1>5, <1>6, <1>7

(* The subnet given back is that of a key that is not tracked.              *)
LEMMA DetachStep == ASSUME IndInv, NEW t \in Sessions \cup {Reaper}, DetachProxy(t) PROVE IndInv'
<1> USE DEF DetachProxy, Destroyed, Abort, Finish, Fault, IndInv
<1>0. /\ pc[t] \in LockedPc
      /\ \A r \in (Sessions \cup {Reaper}) \ {t} : pc[r] \notin LockedPc
  BY Exclusion DEF LockedPc, SessionPc
<1>1. TypeOK'
  BY <1>0, DistinctAssumption DEF TypeOK, SessionPc, DestroyInv, ReaperPc, PlanterPc
<1>2. Locking'
  BY <1>0, DistinctAssumption DEF TypeOK, Locking, SessionPc, LockedPc, ReaperPc
<1>3. \A r \in Sessions : RequestInv(r)'
  BY <1>0, DistinctAssumption DEF TypeOK, RequestInv, LockedPc, SessionPc, Tracked, DestroyInv
<1>4. (\A q \in Planters : PlanterInv(q))'
  BY <1>0, DistinctAssumption DEF TypeOK, PlanterInv
<1>5. DockerInv'
  BY <1>0, DistinctAssumption DEF TypeOK, DockerInv, DestroyInv
<1>6. TrackedInv'
  BY <1>0, TrackedEntries, DistinctAssumption DEF TypeOK, TrackedInv, Tracked, DestroyInv
<1>7. DestroyInv'
  BY <1>0, DistinctAssumption DEF TypeOK, DestroyInv, LockedPc, SessionPc, Tracked
<1>8. QED
  BY <1>1, <1>2, <1>3, <1>4, <1>5, <1>6, <1>7

(* The reaper reads the clock before it waits for the lock.                 *)
LEMMA ReaperWakesStep == ASSUME IndInv, ReaperWakes PROVE IndInv'
<1> USE DEF ReaperWakes, IndInv
<1>1. TypeOK'
  BY DistinctAssumption DEF TypeOK, SessionPc, ReaperPc
<1>2. Locking'
  BY DistinctAssumption DEF TypeOK, Locking, SessionPc, LockedPc, ReaperPc
<1>3. \A r \in Sessions : RequestInv(r)'
  BY DistinctAssumption DEF TypeOK, RequestInv, LockedPc, SessionPc, Tracked
<1>4. (\A q \in Planters : PlanterInv(q))'
  BY DistinctAssumption DEF TypeOK, PlanterInv
<1>5. DockerInv'
  BY DistinctAssumption DEF TypeOK, DockerInv
<1>6. TrackedInv'
  BY DistinctAssumption DEF TypeOK, TrackedInv, Tracked
<1>7. DestroyInv'
  BY DistinctAssumption DEF TypeOK, DestroyInv, LockedPc, SessionPc, Tracked
<1>8. QED
  BY <1>1, <1>2, <1>3, <1>4, <1>5, <1>6, <1>7

(* The list of stale keys is made under the lock.                           *)
LEMMA ReaperLocksStep == ASSUME IndInv, ReaperLocks PROVE IndInv'
<1> USE DEF ReaperLocks, IndInv
<1>1. TypeOK'
  BY TrackedEntries, DistinctAssumption DEF TypeOK, SessionPc, ReaperPc
<1>2. Locking'
  BY DistinctAssumption DEF TypeOK, Locking, SessionPc, LockedPc, ReaperPc
<1>3. \A r \in Sessions : RequestInv(r)'
  BY DistinctAssumption DEF TypeOK, RequestInv, LockedPc, SessionPc, Tracked
<1>4. (\A q \in Planters : PlanterInv(q))'
  BY DistinctAssumption DEF TypeOK, PlanterInv
<1>5. DockerInv'
  BY DistinctAssumption DEF TypeOK, DockerInv
<1>6. TrackedInv'
  BY DistinctAssumption DEF TypeOK, TrackedInv, Tracked
<1>7. DestroyInv'
  BY DistinctAssumption DEF TypeOK, DestroyInv, LockedPc, SessionPc, Tracked
<1>8. QED
  BY <1>1, <1>2, <1>3, <1>4, <1>5, <1>6, <1>7

(* The next stale key is popped, and known to _destroy, in one step.        *)
LEMMA ReapNextStep == ASSUME IndInv, ReapNext PROVE IndInv'
<1> USE DEF ReapNext, BeginDestroy, IndInv
<1>0. /\ pc[Reaper] \in LockedPc
      /\ \A r \in (Sessions \cup {Reaper}) \ {Reaper} : pc[r] \notin LockedPc
  BY Exclusion DEF LockedPc, SessionPc
<1>a. PICK k \in stale :
        /\ k \in Tracked /\ stale' = stale \ {k}
        /\ Dict(backends') /\ Tracked' = Tracked \ {k}
        /\ \A j \in Tracked' : backends'[j] = backends[j]
        /\ victim' = k /\ doomed' = backends[k].container_id
  <2>1. PICK k \in stale : stale' = stale \ {k} /\ BeginDestroy(Reaper, backends, k)
    OBVIOUS
  <2>2. k \in Tracked
    BY DEF DestroyInv
  <2>3. /\ Dict(Pop(backends, k)) /\ DOMAIN Pop(backends, k) = Tracked \ {k}
        /\ \A j \in DOMAIN Pop(backends, k) : Pop(backends, k)[j] = backends[j]
    BY PopDict DEF TypeOK, Tracked
  <2>4. QED
    BY <2>1, <2>2, <2>3 DEF Tracked
<1>1. TypeOK'
  BY <1>0, <1>a, TrackedEntries, DistinctAssumption DEF TypeOK, SessionPc, ReaperPc
<1>2. Locking'
  BY <1>0, <1>a, DistinctAssumption DEF TypeOK, Locking, SessionPc, LockedPc, ReaperPc
<1>3. \A r \in Sessions : RequestInv(r)'
  BY <1>0, <1>a, DistinctAssumption DEF TypeOK, RequestInv, LockedPc, SessionPc
<1>4. (\A q \in Planters : PlanterInv(q))'
  BY <1>0, <1>a, DistinctAssumption DEF TypeOK, PlanterInv
<1>5. DockerInv'
  BY <1>0, <1>a, DistinctAssumption DEF TypeOK, DockerInv
<1>6. TrackedInv'
  BY <1>0, <1>a, DistinctAssumption DEF TypeOK, TrackedInv
<1>7. DestroyInv'
  BY <1>0, <1>a, TrackedEntries, DistinctAssumption DEF TypeOK, DestroyInv, LockedPc, SessionPc
<1>8. QED
  BY <1>1, <1>2, <1>3, <1>4, <1>5, <1>6, <1>7

(* The lock is given back after the sweep.                                  *)
LEMMA ReaperSleepsStep == ASSUME IndInv, ReaperSleeps PROVE IndInv'
<1> USE DEF ReaperSleeps, IndInv
<1>0. /\ pc[Reaper] \in LockedPc
      /\ \A r \in (Sessions \cup {Reaper}) \ {Reaper} : pc[r] \notin LockedPc
  BY Exclusion DEF LockedPc, SessionPc
<1>1. TypeOK'
  BY <1>0, DistinctAssumption DEF TypeOK, SessionPc, ReaperPc
<1>2. Locking'
  BY <1>0, DistinctAssumption DEF TypeOK, Locking, SessionPc, LockedPc, ReaperPc
<1>3. \A r \in Sessions : RequestInv(r)'
  BY <1>0, DistinctAssumption DEF TypeOK, RequestInv, LockedPc, SessionPc, Tracked
<1>4. (\A q \in Planters : PlanterInv(q))'
  BY <1>0, DistinctAssumption DEF TypeOK, PlanterInv
<1>5. DockerInv'
  BY <1>0, DistinctAssumption DEF TypeOK, DockerInv
<1>6. TrackedInv'
  BY <1>0, DistinctAssumption DEF TypeOK, TrackedInv, Tracked
<1>7. DestroyInv'
  BY <1>0, DistinctAssumption DEF TypeOK, DestroyInv, LockedPc, SessionPc, Tracked
<1>8. QED
  BY <1>1, <1>2, <1>3, <1>4, <1>5, <1>6, <1>7

(* Memory goes, and every claim about the lock with it.                     *)
LEMMA CrashStep == ASSUME IndInv, Crash PROVE IndInv'
<1> USE DEF Crash, Fault, IndInv
<1>a. Dict(backends') /\ Tracked' = {}
  BY EmptyDict DEF Tracked
<1>1. TypeOK'
  <2>1. pc' \in [Tasks -> SessionPc \cup PlanterPc \cup ReaperPc]
    BY DEF TypeOK, SessionPc
  <2>2. src' \in [Tasks -> SrcIps \cup {Nobody}] /\ cid' \in [Tasks -> ContainerIds \cup {Nobody}]
    BY DEF TypeOK
  <2>3. since' \in [Sessions -> Nat]
    BY DEF TypeOK
  <2>4. /\ lock' = Nobody /\ deserted' = {} /\ victim' = Nobody /\ doomed' = Nobody
        /\ stale' = {} /\ now' = 0 /\ up' = FALSE /\ faults' \in Nat
        /\ UNCHANGED <<dockerVars, clock>>
    BY DEF TypeOK
  <2> HIDE DEF Crash
  <2>5. QED
    BY <1>a, <2>1, <2>2, <2>3, <2>4 DEF TypeOK
<1>2. Locking'
  BY DistinctAssumption DEF TypeOK, Locking, SessionPc, PlanterPc, ReaperPc, LockedPc
<1>3. \A r \in Sessions : RequestInv(r)'
  BY <1>a, DistinctAssumption DEF TypeOK, RequestInv, LockedPc, SessionPc
<1>4. (\A q \in Planters : PlanterInv(q))'
  BY <1>a, DistinctAssumption DEF TypeOK, PlanterInv
<1>5. DockerInv'
  BY <1>a, DistinctAssumption DEF TypeOK, DockerInv
<1>6. TrackedInv'
  BY <1>a, DistinctAssumption DEF TypeOK, TrackedInv
<1>7. DestroyInv'
  BY <1>a, DistinctAssumption DEF TypeOK, DestroyInv, LockedPc, SessionPc
<1>8. QED
  BY <1>1, <1>2, <1>3, <1>4, <1>5, <1>6, <1>7

(* Each adopted container is filed under the key it was built for.          *)
LEMMA StartupStep == ASSUME IndInv, Startup PROVE IndInv'
<1> USE DEF Startup, Fault, IndInv
<1>a. /\ Dict(backends')
      /\ \A k \in Tracked' : /\ k \in SrcIps /\ entry[k] # Nobody
                             /\ backends'[k].container_id = entry[k]
                             /\ backends'[k].address = subnet[k]
  <2>1. PICK skipped \in SUBSET {k \in SrcIps : entry[k] # Nobody} :
          LET found == {k \in SrcIps : entry[k] # Nobody} \ skipped
          IN  backends' = [k \in found |-> [container_id |-> entry[k],
                                            address      |-> subnet[k],
                                            last_seen    |-> clock]]
    OBVIOUS
  <2> DEFINE found == {k \in SrcIps : entry[k] # Nobody} \ skipped
  <2>2. backends' \in [found -> Backend]
    <3>1. ASSUME NEW k \in found
          PROVE  [container_id |-> entry[k], address |-> subnet[k], last_seen |-> clock] \in Backend
      BY DEF TypeOK, DockerInv, Backend
    <3>2. QED
      BY <2>1, <3>1
  <2>3. QED
    BY <2>1, <2>2 DEF Dict, Tracked
<1>1. TypeOK'
  BY <1>a, DistinctAssumption DEF TypeOK, SessionPc
<1>2. Locking'
  BY <1>a, DistinctAssumption DEF TypeOK, Locking, SessionPc, LockedPc
<1>3. \A r \in Sessions : RequestInv(r)'
  BY <1>a, DistinctAssumption DEF TypeOK, RequestInv, LockedPc, SessionPc, Locking
<1>4. (\A q \in Planters : PlanterInv(q))'
  BY <1>a, DistinctAssumption DEF TypeOK, PlanterInv
<1>5. DockerInv'
  BY <1>a, DistinctAssumption DEF TypeOK, DockerInv
<1>6. TrackedInv'
  BY <1>a, DistinctAssumption DEF TypeOK, TrackedInv, DockerInv
<1>7. DestroyInv'
  BY <1>a, DistinctAssumption DEF TypeOK, DestroyInv, LockedPc, SessionPc, Locking
<1>8. QED
  BY <1>1, <1>2, <1>3, <1>4, <1>5, <1>6, <1>7

(* A container that dies keeps its name, label and network.                 *)
LEMMA DiesStep == ASSUME IndInv, ContainerDies PROVE IndInv'
<1> USE DEF ContainerDies, Fault, IndInv
<1>1. TypeOK'
  BY DistinctAssumption DEF TypeOK, SessionPc, ReaperPc
<1>2. Locking'
  BY DistinctAssumption DEF TypeOK, Locking, SessionPc, LockedPc, ReaperPc
<1>3. \A r \in Sessions : RequestInv(r)'
  BY DistinctAssumption DEF TypeOK, RequestInv, LockedPc, SessionPc, Tracked
<1>4. (\A q \in Planters : PlanterInv(q))'
  BY DistinctAssumption DEF TypeOK, PlanterInv
<1>5. DockerInv'
  BY DistinctAssumption DEF TypeOK, DockerInv
<1>6. TrackedInv'
  BY DistinctAssumption DEF TypeOK, TrackedInv, Tracked
<1>7. DestroyInv'
  BY DistinctAssumption DEF TypeOK, DestroyInv, LockedPc, SessionPc, Tracked
<1>8. QED
  BY <1>1, <1>2, <1>3, <1>4, <1>5, <1>6, <1>7

(* The proxy's sessions end; the broker's dict is untouched.                *)
LEMMA RecreatedStep == ASSUME IndInv, ProxyRecreated PROVE IndInv'
<1> USE DEF ProxyRecreated, Fault, IndInv
<1>1. TypeOK'
  BY DistinctAssumption DEF TypeOK, SessionPc, ReaperPc
<1>2. Locking'
  BY DistinctAssumption DEF TypeOK, Locking, SessionPc, LockedPc, PlanterPc, ReaperPc
<1>3. \A r \in Sessions : RequestInv(r)'
  BY DistinctAssumption DEF TypeOK, RequestInv, LockedPc, SessionPc, Tracked
<1>4. (\A q \in Planters : PlanterInv(q))'
  BY DistinctAssumption DEF TypeOK, PlanterInv
<1>5. DockerInv'
  BY DistinctAssumption DEF TypeOK, DockerInv
<1>6. TrackedInv'
  BY DistinctAssumption DEF TypeOK, TrackedInv, Tracked
<1>7. DestroyInv'
  BY DistinctAssumption DEF TypeOK, DestroyInv, LockedPc, SessionPc, Tracked
<1>8. QED
  BY <1>1, <1>2, <1>3, <1>4, <1>5, <1>6, <1>7

(* Only the clock moves.                                                    *)
LEMMA TickStep == ASSUME IndInv, Tick PROVE IndInv'
<1> USE DEF Tick, IndInv
<1>1. TypeOK'
  BY DistinctAssumption DEF TypeOK, SessionPc, ReaperPc
<1>2. Locking'
  BY DistinctAssumption DEF TypeOK, Locking, SessionPc, LockedPc, ReaperPc
<1>3. \A r \in Sessions : RequestInv(r)'
  BY DistinctAssumption DEF TypeOK, RequestInv, LockedPc, SessionPc, Tracked
<1>4. (\A q \in Planters : PlanterInv(q))'
  BY DistinctAssumption DEF TypeOK, PlanterInv
<1>5. DockerInv'
  BY DistinctAssumption DEF TypeOK, DockerInv
<1>6. TrackedInv'
  BY DistinctAssumption DEF TypeOK, TrackedInv, Tracked
<1>7. DestroyInv'
  BY DistinctAssumption DEF TypeOK, DestroyInv, LockedPc, SessionPc, Tracked
<1>8. QED
  BY <1>1, <1>2, <1>3, <1>4, <1>5, <1>6, <1>7

(* Every step of the broker and of its world preserves IndInv.              *)
LEMMA IndInvStep == IndInv /\ [Next]_vars => IndInv'
<1> SUFFICES ASSUME IndInv, [Next]_vars PROVE IndInv'
  OBVIOUS
<1>1. ASSUME NEW s \in Sessions, AcquireSession(s) \/ SessionStep(s) \/ ReleaseSession(s)
                                    \/ LoseRelease(s) \/ GiveUp(s)
      PROVE  IndInv'
  BY <1>1, AcquireStep, ReuseStep, MakeRoomStep, EvictStep, CheckFailsStep, EnsureNetworkStep,
     EnsureNetworkFailsStep, AdoptExistingStep, AdoptReplacesStep, AdoptFailsStep,
     NothingToAdoptStep, CreateContainerStep, CreateFailsStep, AttachProxyStep,
     AttachFailsStep, ReplyStep, ReplyFailsStep, ReleaseStep, LoseReleaseStep, GiveUpStep
     DEF SessionStep
<1>2. ASSUME NEW p \in Planters, PlantDecoys(p) \/ WriteFiles(p) \/ WriteFails(p)
      PROVE  IndInv'
  BY <1>2, PlantStep, WriteStep, WriteFailsStep
<1>3. ASSUME NEW t \in Sessions \cup {Reaper}, Destroying(t)
      PROVE  IndInv'
  BY <1>3, ForceRemoveStep, RemoveFailsStep, CollectFailsStep, DetachStep DEF Destroying
<1>4. CASE ReaperWakes \/ ReaperLocks \/ ReapNext \/ ReaperSleeps
  BY <1>4, ReaperWakesStep, ReaperLocksStep, ReapNextStep, ReaperSleepsStep
<1>5. CASE Startup \/ Crash \/ ContainerDies \/ ProxyRecreated \/ Tick
  BY <1>5, StartupStep, CrashStep, DiesStep, RecreatedStep, TickStep
<1>6. CASE UNCHANGED vars
  <2>1. TypeOK' /\ Locking'
    BY <1>6 DEF IndInv, TypeOK, Locking, vars
  <2>2. (\A s \in Sessions : RequestInv(s))' /\ (\A q \in Planters : PlanterInv(q))'
    BY <1>6 DEF IndInv, RequestInv, PlanterInv, Tracked, vars
  <2>3. DockerInv' /\ TrackedInv' /\ DestroyInv'
    BY <1>6 DEF IndInv, DockerInv, TrackedInv, DestroyInv, Tracked, vars
  <2>4. QED
    BY <2>1, <2>2, <2>3 DEF IndInv
<1>7. QED
  BY <1>1, <1>2, <1>3, <1>4, <1>5, <1>6 DEF Next, Broker, World

-----------------------------------------------------------------------------
(* The theorems.                                                            *)

(* The strengthened invariant holds in every reachable state of the broker  *)
(* of broker.py, including those after crashes and Docker failures.         *)
THEOREM Invariance == Spec => []IndInv
  BY InitIndInv, IndInvStep, PTL DEF Spec

(* Every value of the broker's state has the type the code gives it: in     *)
(* particular a tracked Backend always has a container id, and an address   *)
(* that Docker handed out or an empty one, never None.                      *)
THEOREM TypeCorrect == Spec => []TypeOK
<1>1. IndInv => TypeOK
  BY DEF IndInv
<1>2. QED
  BY <1>1, Invariance, PTL

(* acquire_session, _reconcile and plant_decoys only ever give an attacker  *)
(* a container that was built for that attacker.                            *)
THEOREM Isolation == Spec => []EnvironmentIsolation
<1>1. IndInv => EnvironmentIsolation
  BY DEF IndInv, EnvironmentIsolation, TrackedInv, RequestInv, DockerInv
<1>2. QED
  BY <1>1, Invariance, PTL

(* No two tracked backends have the same address, so the comparison that    *)
(* acquire_peer makes has at most one answer.                               *)
THEOREM AddressesUnique == Spec => []AddressNamesOwner
<1>1. IndInv => AddressNamesOwner
  <2> SUFFICES ASSUME IndInv PROVE AddressNamesOwner
    OBVIOUS
  <2>1. \A k \in Tracked : /\ k \in SrcIps
                           /\ backends[k].address \in Subnets \cup {NoAddress}
                           /\ backends[k].address \in {subnet[k], NoAddress}
    BY TrackedEntries DEF IndInv, TrackedInv
  <2>2. \A j, k \in SrcIps : j # k /\ subnet[j] = subnet[k] => subnet[j] \notin Subnets
    BY DistinctAssumption DEF IndInv, DockerInv
  <2>3. QED
    BY <2>1, <2>2 DEF AddressNamesOwner
<1>2. QED
  BY <1>1, Invariance, PTL

(* _destroy and _adopt_existing only remove containers of attackers whose   *)
(* key has left the dict, and the key does not come back in the same step.  *)
THEOREM RemovedAreUntracked == Spec => TrackedNeverRemoved
<1>1. IndInv /\ [Next]_vars =>
        [\A k \in SrcIps :
            entry[k] # Nobody /\ entry'[k] = Nobody => k \notin Tracked \cup Tracked']_vars
  <2> SUFFICES ASSUME IndInv, Next,
                      NEW k \in SrcIps, entry[k] # Nobody, entry'[k] = Nobody
               PROVE  k \notin Tracked \cup Tracked'
    OBVIOUS
  <2> USE DEF IndInv, TypeOK
  <2>1. ASSUME NEW s \in Sessions, AcquireSession(s) \/ SessionStep(s) \/ ReleaseSession(s)
                                      \/ LoseRelease(s) \/ GiveUp(s)
        PROVE  k \notin Tracked \cup Tracked'
    <3>1. AdoptReplaces(s)
      BY <2>1, DistinctAssumption DEF SessionStep, AcquireSession, ReuseBackend, MakeRoom,
         EvictOldest, CheckFails, EnsureNetwork, EnsureNetworkFails, AdoptExisting, AdoptFails,
         NothingToAdopt, CreateContainer, CreateFails, UnusedIds, AttachProxy, AttachFails,
         ReplySession, ReplyFails, ReleaseSession, LoseRelease, GiveUp
    <3>2. QED
      BY <3>1 DEF AdoptReplaces, RequestInv, Tracked
  <2>2. ASSUME NEW p \in Planters, PlantDecoys(p) \/ WriteFiles(p) \/ WriteFails(p)
        PROVE  FALSE
    BY <2>2 DEF PlantDecoys, WriteFiles, WriteFails
  <2>3. ASSUME NEW t \in Sessions \cup {Reaper}, Destroying(t)
        PROVE  k \notin Tracked \cup Tracked'
    BY <2>3 DEF Destroying, ForceRemove, RemoveFails, CollectFails, DetachProxy, DestroyInv, Tracked
  <2>4. ~(ReaperWakes \/ ReaperLocks \/ ReapNext \/ ReaperSleeps)
    BY DEF ReaperWakes, ReaperLocks, ReapNext, ReaperSleeps
  <2>5. ~(Startup \/ Crash \/ ContainerDies \/ ProxyRecreated \/ Tick)
    BY DEF Startup, Crash, ContainerDies, ProxyRecreated, Tick
  <2>6. QED
    BY <2>1, <2>2, <2>3, <2>4, <2>5 DEF Next, Broker, World
<1>2. QED
  BY <1>1, Invariance, PTL DEF Spec, TrackedNeverRemoved

-----------------------------------------------------------------------------
(* The reaper and the sessions that are still bridged: a proof about time. *)

(* No session was let in in the future, and the reaper's clock is not ahead.*)
ClockInv ==
    /\ now <= clock
    /\ \A s \in Sessions : pc[s] # "idle" => since[s] <= clock

(* A session that has its container was let in before that container was    *)
(* last seen.                                                               *)
SeenInv ==
    \A s \in Sessions :
        /\ pc[s] \in {"network", "attach", "store", "open"}
        /\ src[s] \in Tracked
        /\ backends[src[s]].container_id = cid[s]
        => since[s] <= backends[src[s]].last_seen

(* A session that was let in within the TTL.                                *)
Recent(s) == pc[s] = "open" /\ clock <= since[s] + IdleTtl

(* What the reaper has listed, and what it is removing, has no such session.*)
SparedInv ==
    \A s \in Sessions : Recent(s) =>
        /\ pc[Reaper] \in {"sweep", "remove", "detach"} =>
             \A k \in stale : backends[k].container_id # cid[s]
        /\ pc[Reaper] = "remove" => doomed # cid[s]

TimeInv == ClockInv /\ SeenInv /\ SparedInv

USE DEF requestVars, taskVars, destroyVars, reaperVars, containerVars,
        networkVars, dockerVars, Tasks, Goto

-----------------------------------------------------------------------------
(* A new request is let in at the present time.                             *)
LEMMA AcquireTime == ASSUME IndInv, TimeInv, NEW s \in Sessions, AcquireSession(s) PROVE TimeInv'
<1> USE DEF AcquireSession, IndInv, TimeInv
<1>1. ClockInv'
  BY ConstantsAssumption, DistinctAssumption DEF TypeOK, ClockInv
<1>2. SeenInv'
  BY DistinctAssumption DEF TypeOK, SeenInv, ClockInv, Tracked
<1>3. SparedInv'
  BY DistinctAssumption DEF TypeOK, SparedInv, Recent, LockedPc, Tracked
<1>4. QED
  BY <1>1, <1>2, <1>3

(* The reused container is seen at the present time.                        *)
LEMMA ReuseTime == ASSUME IndInv, TimeInv, NEW s \in Sessions, ReuseBackend(s) PROVE TimeInv'
<1> USE DEF ReuseBackend, IndInv, TimeInv
<1>0. \A r \in (Sessions \cup {Reaper}) \ {s} : pc[r] \notin LockedPc
  BY Exclusion DEF LockedPc, SessionPc
<1>a. /\ Tracked' = Tracked
      /\ \A k \in Tracked : /\ backends'[k].container_id = backends[k].container_id
                            /\ backends'[k].last_seen \in {clock, backends[k].last_seen}
      /\ backends'[src[s]].last_seen = clock
  BY <1>0, TouchDict DEF TypeOK, Tracked
<1>1. ClockInv'
  BY <1>0, <1>a, ConstantsAssumption, DistinctAssumption DEF TypeOK, ClockInv
<1>2. SeenInv'
  BY <1>0, <1>a, DistinctAssumption DEF TypeOK, SeenInv, ClockInv
<1>3. SparedInv'
  BY <1>0, <1>a, DistinctAssumption DEF TypeOK, SparedInv, Recent, LockedPc, SessionPc, DestroyInv
<1>4. QED
  BY <1>1, <1>2, <1>3

(* The key of the request has left the dict.                                *)
LEMMA MakeRoomTime == ASSUME IndInv, TimeInv, NEW s \in Sessions, MakeRoom(s) PROVE TimeInv'
<1> USE DEF MakeRoom, IndInv, TimeInv
<1>0. \A r \in (Sessions \cup {Reaper}) \ {s} : pc[r] \notin LockedPc
  BY Exclusion DEF LockedPc, SessionPc
<1>a. /\ Tracked' = Tracked \ {src[s]}
      /\ \A k \in Tracked' : backends'[k] = backends[k]
  BY <1>0, PopDict DEF TypeOK, Tracked
<1>1. ClockInv'
  BY <1>0, <1>a, ConstantsAssumption, DistinctAssumption DEF TypeOK, ClockInv
<1>2. SeenInv'
  BY <1>0, <1>a, DistinctAssumption DEF TypeOK, SeenInv, ClockInv
<1>3. SparedInv'
  BY <1>0, <1>a, DistinctAssumption DEF TypeOK, SparedInv, Recent, LockedPc, SessionPc
<1>4. QED
  BY <1>1, <1>2, <1>3

(* An eviction does not involve the reaper.                                 *)
LEMMA EvictTime == ASSUME IndInv, TimeInv, NEW s \in Sessions, EvictOldest(s) PROVE TimeInv'
<1> USE DEF EvictOldest, BeginDestroy, IndInv, TimeInv
<1>0. \A r \in (Sessions \cup {Reaper}) \ {s} : pc[r] \notin LockedPc
  BY Exclusion DEF LockedPc, SessionPc
<1>a. /\ Tracked' \subseteq Tracked
      /\ \A k \in Tracked' : backends'[k] = backends[k]
  <2> DEFINE rest == Pop(backends, src[s])
  <2>1. /\ Dict(rest) /\ DOMAIN rest = Tracked \ {src[s]}
        /\ \A j \in DOMAIN rest : rest[j] = backends[j]
    BY PopDict DEF TypeOK, Tracked
  <2>2. PICK k \in DOMAIN rest : BeginDestroy(s, rest, k)
    BY DEF Oldest
  <2> HIDE DEF rest
  <2>3. /\ DOMAIN Pop(rest, k) = DOMAIN rest \ {k}
        /\ \A j \in DOMAIN Pop(rest, k) : Pop(rest, k)[j] = rest[j]
    BY <2>1, PopDict
  <2>4. QED
    BY <2>1, <2>2, <2>3 DEF Tracked
<1>1. ClockInv'
  BY <1>0, <1>a, ConstantsAssumption, DistinctAssumption DEF TypeOK, ClockInv
<1>2. SeenInv'
  BY <1>0, <1>a, DistinctAssumption DEF TypeOK, SeenInv, ClockInv
<1>3. SparedInv'
  BY <1>0, <1>a, DistinctAssumption DEF TypeOK, SparedInv, Recent, LockedPc, SessionPc
<1>4. QED
  BY <1>1, <1>2, <1>3

(* A request that fails is over.                                            *)
LEMMA CheckFailsTime == ASSUME IndInv, TimeInv, NEW s \in Sessions, CheckFails(s) PROVE TimeInv'
<1> USE DEF CheckFails, Abort, Finish, Fault, IndInv, TimeInv
<1>0. \A r \in (Sessions \cup {Reaper}) \ {s} : pc[r] \notin LockedPc
  BY Exclusion DEF LockedPc, SessionPc
<1>1. ClockInv'
  BY <1>0, ConstantsAssumption, DistinctAssumption DEF TypeOK, ClockInv
<1>2. SeenInv'
  BY <1>0, DistinctAssumption DEF TypeOK, SeenInv, ClockInv, Tracked, RequestInv
<1>3. SparedInv'
  BY <1>0, DistinctAssumption DEF TypeOK, SparedInv, Recent, LockedPc, Tracked
<1>4. QED
  BY <1>1, <1>2, <1>3

(* The network does not matter here.                                        *)
LEMMA EnsureNetworkTime == ASSUME IndInv, TimeInv, NEW s \in Sessions, EnsureNetwork(s) PROVE TimeInv'
<1> USE DEF EnsureNetwork, IndInv, TimeInv
<1>0. \A r \in (Sessions \cup {Reaper}) \ {s} : pc[r] \notin LockedPc
  BY Exclusion DEF LockedPc, SessionPc
<1>1. ClockInv'
  BY <1>0, ConstantsAssumption, DistinctAssumption DEF TypeOK, ClockInv
<1>2. SeenInv'
  BY <1>0, DistinctAssumption DEF TypeOK, SeenInv, ClockInv, Tracked, RequestInv
<1>3. SparedInv'
  BY <1>0, DistinctAssumption DEF TypeOK, SparedInv, Recent, LockedPc, Tracked
<1>4. QED
  BY <1>1, <1>2, <1>3

(* A request that fails is over.                                            *)
LEMMA EnsureNetworkFailsTime == ASSUME IndInv, TimeInv, NEW s \in Sessions, EnsureNetworkFails(s) PROVE TimeInv'
<1> USE DEF EnsureNetworkFails, Abort, Finish, Fault, IndInv, TimeInv
<1>0. \A r \in (Sessions \cup {Reaper}) \ {s} : pc[r] \notin LockedPc
  BY Exclusion DEF LockedPc, SessionPc
<1>1. ClockInv'
  BY <1>0, ConstantsAssumption, DistinctAssumption DEF TypeOK, ClockInv
<1>2. SeenInv'
  BY <1>0, DistinctAssumption DEF TypeOK, SeenInv, ClockInv, Tracked, RequestInv
<1>3. SparedInv'
  BY <1>0, DistinctAssumption DEF TypeOK, SparedInv, Recent, LockedPc, Tracked
<1>4. QED
  BY <1>1, <1>2, <1>3

(* The request has no backend in the dict yet.                              *)
LEMMA AdoptExistingTime == ASSUME IndInv, TimeInv, NEW s \in Sessions, AdoptExisting(s) PROVE TimeInv'
<1> USE DEF AdoptExisting, IndInv, TimeInv
<1>0. \A r \in (Sessions \cup {Reaper}) \ {s} : pc[r] \notin LockedPc
  BY Exclusion DEF LockedPc, SessionPc
<1>1. ClockInv'
  BY <1>0, ConstantsAssumption, DistinctAssumption DEF TypeOK, ClockInv
<1>2. SeenInv'
  BY <1>0, DistinctAssumption DEF TypeOK, SeenInv, ClockInv, Tracked, RequestInv
<1>3. SparedInv'
  BY <1>0, DistinctAssumption DEF TypeOK, SparedInv, Recent, LockedPc, Tracked
<1>4. QED
  BY <1>1, <1>2, <1>3

(* The request has no backend in the dict yet.                              *)
LEMMA AdoptReplacesTime == ASSUME IndInv, TimeInv, NEW s \in Sessions, AdoptReplaces(s) PROVE TimeInv'
<1> USE DEF AdoptReplaces, Fault, IndInv, TimeInv
<1>0. \A r \in (Sessions \cup {Reaper}) \ {s} : pc[r] \notin LockedPc
  BY Exclusion DEF LockedPc, SessionPc
<1>1. ClockInv'
  BY <1>0, ConstantsAssumption, DistinctAssumption DEF TypeOK, ClockInv
<1>2. SeenInv'
  BY <1>0, DistinctAssumption DEF TypeOK, SeenInv, ClockInv, Tracked, RequestInv
<1>3. SparedInv'
  BY <1>0, DistinctAssumption DEF TypeOK, SparedInv, Recent, LockedPc, Tracked
<1>4. QED
  BY <1>1, <1>2, <1>3

(* A request that fails is over.                                            *)
LEMMA AdoptFailsTime == ASSUME IndInv, TimeInv, NEW s \in Sessions, AdoptFails(s) PROVE TimeInv'
<1> USE DEF AdoptFails, Abort, Finish, Fault, IndInv, TimeInv
<1>0. \A r \in (Sessions \cup {Reaper}) \ {s} : pc[r] \notin LockedPc
  BY Exclusion DEF LockedPc, SessionPc
<1>1. ClockInv'
  BY <1>0, ConstantsAssumption, DistinctAssumption DEF TypeOK, ClockInv
<1>2. SeenInv'
  BY <1>0, DistinctAssumption DEF TypeOK, SeenInv, ClockInv, Tracked, RequestInv
<1>3. SparedInv'
  BY <1>0, DistinctAssumption DEF TypeOK, SparedInv, Recent, LockedPc, Tracked
<1>4. QED
  BY <1>1, <1>2, <1>3

(* The request has no backend in the dict yet.                              *)
LEMMA NothingToAdoptTime == ASSUME IndInv, TimeInv, NEW s \in Sessions, NothingToAdopt(s) PROVE TimeInv'
<1> USE DEF NothingToAdopt, IndInv, TimeInv
<1>0. \A r \in (Sessions \cup {Reaper}) \ {s} : pc[r] \notin LockedPc
  BY Exclusion DEF LockedPc, SessionPc
<1>1. ClockInv'
  BY <1>0, ConstantsAssumption, DistinctAssumption DEF TypeOK, ClockInv
<1>2. SeenInv'
  BY <1>0, DistinctAssumption DEF TypeOK, SeenInv, ClockInv, Tracked, RequestInv
<1>3. SparedInv'
  BY <1>0, DistinctAssumption DEF TypeOK, SparedInv, Recent, LockedPc, Tracked
<1>4. QED
  BY <1>1, <1>2, <1>3

(* The request has no backend in the dict yet.                              *)
LEMMA CreateContainerTime == ASSUME IndInv, TimeInv, NEW s \in Sessions, CreateContainer(s) PROVE TimeInv'
<1> USE DEF CreateContainer, IndInv, TimeInv
<1>0. \A r \in (Sessions \cup {Reaper}) \ {s} : pc[r] \notin LockedPc
  BY Exclusion DEF LockedPc, SessionPc
<1>1. ClockInv'
  BY <1>0, ConstantsAssumption, DistinctAssumption DEF TypeOK, ClockInv
<1>2. SeenInv'
  BY <1>0, DistinctAssumption DEF TypeOK, SeenInv, ClockInv, Tracked, RequestInv
<1>3. SparedInv'
  BY <1>0, DistinctAssumption DEF TypeOK, SparedInv, Recent, LockedPc, Tracked
<1>4. QED
  BY <1>1, <1>2, <1>3

(* A request that fails is over.                                            *)
LEMMA CreateFailsTime == ASSUME IndInv, TimeInv, NEW s \in Sessions, CreateFails(s) PROVE TimeInv'
<1> USE DEF CreateFails, Abort, Finish, Fault, IndInv, TimeInv
<1>0. \A r \in (Sessions \cup {Reaper}) \ {s} : pc[r] \notin LockedPc
  BY Exclusion DEF LockedPc, SessionPc
<1>1. ClockInv'
  BY <1>0, ConstantsAssumption, DistinctAssumption DEF TypeOK, ClockInv
<1>2. SeenInv'
  BY <1>0, DistinctAssumption DEF TypeOK, SeenInv, ClockInv, Tracked, RequestInv
<1>3. SparedInv'
  BY <1>0, DistinctAssumption DEF TypeOK, SparedInv, Recent, LockedPc, Tracked
<1>4. QED
  BY <1>1, <1>2, <1>3

(* Attaching the proxy does not matter here.                                *)
LEMMA AttachProxyTime == ASSUME IndInv, TimeInv, NEW s \in Sessions, AttachProxy(s) PROVE TimeInv'
<1> USE DEF AttachProxy, Fault, IndInv, TimeInv
<1>0. \A r \in (Sessions \cup {Reaper}) \ {s} : pc[r] \notin LockedPc
  BY Exclusion DEF LockedPc, SessionPc
<1>1. ClockInv'
  BY <1>0, ConstantsAssumption, DistinctAssumption DEF TypeOK, ClockInv
<1>2. SeenInv'
  BY <1>0, DistinctAssumption DEF TypeOK, SeenInv, ClockInv, Tracked, RequestInv
<1>3. SparedInv'
  BY <1>0, DistinctAssumption DEF TypeOK, SparedInv, Recent, LockedPc, Tracked
<1>4. QED
  BY <1>1, <1>2, <1>3

(* A request that fails is over.                                            *)
LEMMA AttachFailsTime == ASSUME IndInv, TimeInv, NEW s \in Sessions, AttachFails(s) PROVE TimeInv'
<1> USE DEF AttachFails, Abort, Finish, Fault, IndInv, TimeInv
<1>0. \A r \in (Sessions \cup {Reaper}) \ {s} : pc[r] \notin LockedPc
  BY Exclusion DEF LockedPc, SessionPc
<1>1. ClockInv'
  BY <1>0, ConstantsAssumption, DistinctAssumption DEF TypeOK, ClockInv
<1>2. SeenInv'
  BY <1>0, DistinctAssumption DEF TypeOK, SeenInv, ClockInv, Tracked, RequestInv
<1>3. SparedInv'
  BY <1>0, DistinctAssumption DEF TypeOK, SparedInv, Recent, LockedPc, Tracked
<1>4. QED
  BY <1>1, <1>2, <1>3

(* A request that fails is over.                                            *)
LEMMA ReplyFailsTime == ASSUME IndInv, TimeInv, NEW s \in Sessions, ReplyFails(s) PROVE TimeInv'
<1> USE DEF ReplyFails, Abort, Finish, Fault, IndInv, TimeInv
<1>0. \A r \in (Sessions \cup {Reaper}) \ {s} : pc[r] \notin LockedPc
  BY Exclusion DEF LockedPc, SessionPc
<1>1. ClockInv'
  BY <1>0, ConstantsAssumption, DistinctAssumption DEF TypeOK, ClockInv
<1>2. SeenInv'
  BY <1>0, DistinctAssumption DEF TypeOK, SeenInv, ClockInv, Tracked, RequestInv
<1>3. SparedInv'
  BY <1>0, DistinctAssumption DEF TypeOK, SparedInv, Recent, LockedPc, Tracked
<1>4. QED
  BY <1>1, <1>2, <1>3

(* A session that ends no longer counts.                                    *)
LEMMA LoseReleaseTime == ASSUME IndInv, TimeInv, NEW s \in Sessions, LoseRelease(s) PROVE TimeInv'
<1> USE DEF LoseRelease, Finish, IndInv, TimeInv
<1>1. ClockInv'
  BY ConstantsAssumption, DistinctAssumption DEF TypeOK, ClockInv
<1>2. SeenInv'
  BY DistinctAssumption DEF TypeOK, SeenInv, ClockInv, Tracked, RequestInv
<1>3. SparedInv'
  BY DistinctAssumption DEF TypeOK, SparedInv, Recent, LockedPc, Tracked
<1>4. QED
  BY <1>1, <1>2, <1>3

(* A proxy that gives up changes no time.                                   *)
LEMMA GiveUpTime == ASSUME IndInv, TimeInv, NEW s \in Sessions, GiveUp(s) PROVE TimeInv'
<1> USE DEF GiveUp, Fault, IndInv, TimeInv
<1>1. ClockInv'
  BY ConstantsAssumption, DistinctAssumption DEF TypeOK, ClockInv
<1>2. SeenInv'
  BY DistinctAssumption DEF TypeOK, SeenInv, ClockInv, Tracked, RequestInv
<1>3. SparedInv'
  BY DistinctAssumption DEF TypeOK, SparedInv, Recent, LockedPc, Tracked
<1>4. QED
  BY <1>1, <1>2, <1>3

(* A new backend is seen at the present time.                               *)
LEMMA ReplyTime == ASSUME IndInv, TimeInv, NEW s \in Sessions, ReplySession(s) PROVE TimeInv'
<1> USE DEF ReplySession, Finish, IndInv, TimeInv
<1>0. \A r \in (Sessions \cup {Reaper}) \ {s} : pc[r] \notin LockedPc
  BY Exclusion DEF LockedPc, SessionPc
<1>a. \A k \in Tracked' : \/ backends'[k].last_seen = clock
                          \/ k \in Tracked /\ backends'[k] = backends[k]
  <2>1. CASE src[s] \in Tracked
    BY <2>1 DEF Tracked
  <2>2. CASE src[s] \notin Tracked
    <3>1. PICK b : /\ b.last_seen = clock
                   /\ backends' = Store(backends, src[s], b)
      BY <2>2
    <3> HIDE DEF ReplySession, IndInv, TimeInv
    <3>2. /\ Tracked' = Tracked \cup {src[s]}
          /\ backends'[src[s]] = b
          /\ \A k \in Tracked \ {src[s]} : backends'[k] = backends[k]
      BY <3>1 DEF Store, Tracked
    <3>3. QED
      BY <3>1, <3>2
  <2>3. QED
    BY <2>1, <2>2
<1>1. ClockInv'
  BY <1>0, <1>a, ConstantsAssumption, DistinctAssumption DEF TypeOK, ClockInv
<1>2. SeenInv'
  BY <1>0, <1>a, DistinctAssumption DEF TypeOK, SeenInv, ClockInv, RequestInv
<1>3. SparedInv'
  BY <1>0, <1>a, DistinctAssumption DEF TypeOK, SparedInv, Recent, LockedPc, SessionPc
<1>4. QED
  BY <1>1, <1>2, <1>3

(* A release touches the backend.                                           *)
LEMMA ReleaseTime == ASSUME IndInv, TimeInv, NEW s \in Sessions, ReleaseSession(s) PROVE TimeInv'
<1> USE DEF ReleaseSession, Finish, IndInv, TimeInv
<1>a. /\ Tracked' = Tracked
      /\ \A k \in Tracked : /\ backends'[k].container_id = backends[k].container_id
                            /\ backends'[k].last_seen \in {clock, backends[k].last_seen}
  BY TouchDict DEF TypeOK, Tracked
<1>1. ClockInv'
  BY <1>a, ConstantsAssumption, DistinctAssumption DEF TypeOK, ClockInv
<1>2. SeenInv'
  BY <1>a, DistinctAssumption DEF TypeOK, SeenInv, ClockInv
<1>3. SparedInv'
  BY <1>a, DistinctAssumption DEF TypeOK, SparedInv, Recent, LockedPc, SessionPc, Locking
<1>4. QED
  BY <1>1, <1>2, <1>3

(* Looking a backend up changes no time.                                    *)
LEMMA PlantTime == ASSUME IndInv, TimeInv, NEW p \in Planters, PlantDecoys(p) PROVE TimeInv'
<1> USE DEF PlantDecoys, IndInv, TimeInv
<1>1. ClockInv'
  BY ConstantsAssumption, DistinctAssumption DEF TypeOK, ClockInv
<1>2. SeenInv'
  BY DistinctAssumption DEF TypeOK, SeenInv, ClockInv, Tracked
<1>3. SparedInv'
  BY DistinctAssumption DEF TypeOK, SparedInv, Recent, LockedPc, Tracked
<1>4. QED
  BY <1>1, <1>2, <1>3

(* Planting decoys touches the backend.                                     *)
LEMMA WriteTime == ASSUME IndInv, TimeInv, NEW p \in Planters, WriteFiles(p) PROVE TimeInv'
<1> USE DEF WriteFiles, Finish, IndInv, TimeInv
<1>a. /\ Tracked' = Tracked
      /\ \A k \in Tracked : /\ backends'[k].container_id = backends[k].container_id
                            /\ backends'[k].last_seen \in {clock, backends[k].last_seen}
  BY TouchDict DEF TypeOK, Tracked
<1>1. ClockInv'
  BY <1>a, ConstantsAssumption, DistinctAssumption DEF TypeOK, ClockInv
<1>2. SeenInv'
  BY <1>a, DistinctAssumption DEF TypeOK, SeenInv, ClockInv
<1>3. SparedInv'
  BY <1>a, DistinctAssumption DEF TypeOK, SparedInv, Recent, LockedPc, DestroyInv
<1>4. QED
  BY <1>1, <1>2, <1>3

(* A failed decoy request changes no time.                                  *)
LEMMA WriteFailsTime == ASSUME IndInv, TimeInv, NEW p \in Planters, WriteFails(p) PROVE TimeInv'
<1> USE DEF WriteFails, Finish, Fault, IndInv, TimeInv
<1>1. ClockInv'
  BY ConstantsAssumption, DistinctAssumption DEF TypeOK, ClockInv
<1>2. SeenInv'
  BY DistinctAssumption DEF TypeOK, SeenInv, ClockInv, Tracked
<1>3. SparedInv'
  BY DistinctAssumption DEF TypeOK, SparedInv, Recent, LockedPc, Tracked
<1>4. QED
  BY <1>1, <1>2, <1>3

(* The container goes, the dict has forgotten it.                           *)
LEMMA ForceRemoveTime == ASSUME IndInv, TimeInv, NEW t \in Sessions \cup {Reaper}, ForceRemove(t) PROVE TimeInv'
<1> USE DEF ForceRemove, IndInv, TimeInv
<1>0. \A r \in (Sessions \cup {Reaper}) \ {t} : pc[r] \notin LockedPc
  BY Exclusion DEF LockedPc, SessionPc
<1>1. ClockInv'
  BY <1>0, ConstantsAssumption, DistinctAssumption DEF TypeOK, ClockInv
<1>2. SeenInv'
  BY <1>0, DistinctAssumption DEF TypeOK, SeenInv, ClockInv, Tracked, RequestInv
<1>3. SparedInv'
  BY <1>0, DistinctAssumption DEF TypeOK, SparedInv, Recent, LockedPc, Tracked
<1>4. QED
  BY <1>1, <1>2, <1>3

(* The caller of _destroy goes on.                                          *)
LEMMA RemoveFailsTime == ASSUME IndInv, TimeInv, NEW t \in Sessions \cup {Reaper}, RemoveFails(t) PROVE TimeInv'
<1> USE DEF RemoveFails, Destroyed, Abort, Finish, Fault, IndInv, TimeInv
<1>0. \A r \in (Sessions \cup {Reaper}) \ {t} : pc[r] \notin LockedPc
  BY Exclusion DEF LockedPc, SessionPc
<1>1. ClockInv'
  BY <1>0, ConstantsAssumption, DistinctAssumption DEF TypeOK, ClockInv
<1>2. SeenInv'
  BY <1>0, DistinctAssumption DEF TypeOK, SeenInv, ClockInv, Tracked, RequestInv
<1>3. SparedInv'
  BY <1>0, DistinctAssumption DEF TypeOK, SparedInv, Recent, LockedPc, SessionPc, Tracked
<1>4. QED
  BY <1>1, <1>2, <1>3

(* The caller of _destroy is over.                                          *)
LEMMA CollectFailsTime == ASSUME IndInv, TimeInv, NEW t \in Sessions \cup {Reaper}, CollectFails(t) PROVE TimeInv'
<1> USE DEF CollectFails, Finish, Fault, IndInv, TimeInv
<1>0. \A r \in (Sessions \cup {Reaper}) \ {t} : pc[r] \notin LockedPc
  BY Exclusion DEF LockedPc, SessionPc
<1>1. ClockInv'
  BY <1>0, ConstantsAssumption, DistinctAssumption DEF TypeOK, ClockInv
<1>2. SeenInv'
  BY <1>0, DistinctAssumption DEF TypeOK, SeenInv, ClockInv, Tracked, RequestInv
<1>3. SparedInv'
  BY <1>0, DistinctAssumption DEF TypeOK, SparedInv, Recent, LockedPc, SessionPc, Tracked
<1>4. QED
  BY <1>1, <1>2, <1>3

(* The caller of _destroy goes on.                                          *)
LEMMA DetachTime == ASSUME IndInv, TimeInv, NEW t \in Sessions \cup {Reaper}, DetachProxy(t) PROVE TimeInv'
<1> USE DEF DetachProxy, Destroyed, Abort, Finish, Fault, IndInv, TimeInv
<1>0. \A r \in (Sessions \cup {Reaper}) \ {t} : pc[r] \notin LockedPc
  BY Exclusion DEF LockedPc, SessionPc
<1>1. ClockInv'
  BY <1>0, ConstantsAssumption, DistinctAssumption DEF TypeOK, ClockInv
<1>2. SeenInv'
  BY <1>0, DistinctAssumption DEF TypeOK, SeenInv, ClockInv, Tracked, RequestInv
<1>3. SparedInv'
  BY <1>0, DistinctAssumption DEF TypeOK, SparedInv, Recent, LockedPc, SessionPc, Tracked
<1>4. QED
  BY <1>1, <1>2, <1>3

(* The reaper reads the present time.                                       *)
LEMMA ReaperWakesTime == ASSUME IndInv, TimeInv, ReaperWakes PROVE TimeInv'
<1> USE DEF ReaperWakes, IndInv, TimeInv
<1>1. ClockInv'
  BY ConstantsAssumption, DistinctAssumption DEF TypeOK, ClockInv
<1>2. SeenInv'
  BY DistinctAssumption DEF TypeOK, SeenInv, ClockInv, Tracked
<1>3. SparedInv'
  BY DistinctAssumption DEF TypeOK, SparedInv, Recent, LockedPc, Tracked
<1>4. QED
  BY <1>1, <1>2, <1>3

(* The container of a session let in within the TTL was seen within it.     *)
LEMMA ReaperLocksTime == ASSUME IndInv, TimeInv, ReaperLocks PROVE TimeInv'
<1> USE DEF ReaperLocks, IndInv, TimeInv
<1>1. ClockInv'
  BY DistinctAssumption DEF TypeOK, ClockInv
<1>2. SeenInv'
  BY DistinctAssumption DEF TypeOK, SeenInv, Tracked
<1>3. ASSUME NEW s \in Sessions, Recent(s), NEW k \in stale'
      PROVE  backends[k].container_id # cid[s]
  <2>1. /\ k \in Tracked /\ now > backends[k].last_seen + IdleTtl
        /\ backends[k].last_seen \in Nat
    BY TrackedEntries
  <2>2. SUFFICES ASSUME backends[k].container_id = cid[s] PROVE FALSE
    OBVIOUS
  <2>3. src[s] = k
    BY <1>3, <2>1, <2>2 DEF RequestInv, TrackedInv, Recent
  <2>4. since[s] <= backends[k].last_seen /\ clock <= since[s] + IdleTtl
    BY <1>3, <2>1, <2>2, <2>3 DEF SeenInv, Recent
  <2>5. now <= clock /\ now \in Nat /\ clock \in Nat /\ since[s] \in Nat
    BY DEF ClockInv, TypeOK
  <2>6. QED
    BY <2>1, <2>4, <2>5, ConstantsAssumption
<1>4. SparedInv'
  BY <1>3, DistinctAssumption DEF TypeOK, SparedInv, Recent
<1>5. QED
  BY <1>1, <1>2, <1>4

(* What the reaper takes from its list has no session.                      *)
LEMMA ReapNextTime == ASSUME IndInv, TimeInv, ReapNext PROVE TimeInv'
<1> USE DEF ReapNext, BeginDestroy, IndInv, TimeInv
<1>0. \A r \in (Sessions \cup {Reaper}) \ {Reaper} : pc[r] \notin LockedPc
  BY Exclusion DEF LockedPc, SessionPc
<1>a. PICK k \in stale :
        /\ k \in Tracked /\ stale' = stale \ {k} /\ stale \subseteq Tracked
        /\ Tracked' = Tracked \ {k}
        /\ \A j \in Tracked' : backends'[j] = backends[j]
        /\ doomed' = backends[k].container_id
  <2>1. PICK k \in stale : stale' = stale \ {k} /\ BeginDestroy(Reaper, backends, k)
    OBVIOUS
  <2>2. k \in Tracked /\ stale \subseteq Tracked
    BY DEF DestroyInv
  <2>3. /\ DOMAIN Pop(backends, k) = Tracked \ {k}
        /\ \A j \in DOMAIN Pop(backends, k) : Pop(backends, k)[j] = backends[j]
    BY PopDict DEF TypeOK, Tracked
  <2>4. QED
    BY <2>1, <2>2, <2>3 DEF Tracked
<1>1. ClockInv'
  BY <1>0, <1>a, ConstantsAssumption, DistinctAssumption DEF TypeOK, ClockInv
<1>2. SeenInv'
  BY <1>0, <1>a, DistinctAssumption DEF TypeOK, SeenInv, ClockInv
<1>3. SparedInv'
  BY <1>0, <1>a, DistinctAssumption DEF TypeOK, SparedInv, Recent, LockedPc
<1>4. QED
  BY <1>1, <1>2, <1>3

(* The reaper has nothing listed.                                           *)
LEMMA ReaperSleepsTime == ASSUME IndInv, TimeInv, ReaperSleeps PROVE TimeInv'
<1> USE DEF ReaperSleeps, IndInv, TimeInv
<1>1. ClockInv'
  BY ConstantsAssumption, DistinctAssumption DEF TypeOK, ClockInv
<1>2. SeenInv'
  BY DistinctAssumption DEF TypeOK, SeenInv, ClockInv, Tracked
<1>3. SparedInv'
  BY DistinctAssumption DEF TypeOK, SparedInv, Recent, LockedPc, Tracked
<1>4. QED
  BY <1>1, <1>2, <1>3

(* Bridged sessions go on, the dict is empty.                               *)
LEMMA CrashTime == ASSUME IndInv, TimeInv, Crash PROVE TimeInv'
<1> USE DEF Crash, Fault, IndInv, TimeInv
<1>a. Tracked' = {} /\ pc'[Reaper] = "idle"
  BY EmptyDict, DistinctAssumption DEF TypeOK, Locking, ReaperPc, Tracked
<1>1. ClockInv'
  BY <1>a, ConstantsAssumption, DistinctAssumption DEF TypeOK, ClockInv
<1>2. SeenInv'
  BY <1>a, DistinctAssumption DEF TypeOK, SeenInv, ClockInv
<1>3. SparedInv'
  BY <1>a, DistinctAssumption DEF TypeOK, SparedInv, Recent, LockedPc
<1>4. QED
  BY <1>1, <1>2, <1>3

(* What is adopted is seen at the present time.                             *)
LEMMA StartupTime == ASSUME IndInv, TimeInv, Startup PROVE TimeInv'
<1> USE DEF Startup, Fault, IndInv, TimeInv
<1>a. \A k \in Tracked' : backends'[k].last_seen = clock
  BY DEF Tracked
<1>1. ClockInv'
  BY <1>a, ConstantsAssumption, DistinctAssumption DEF TypeOK, ClockInv
<1>2. SeenInv'
  <2>1. /\ UNCHANGED <<pc, src, since, clock>>
        /\ \A s \in Sessions : pc[s] # "idle" => since[s] <= clock
    BY DEF ClockInv
  <2> HIDE DEF Startup, IndInv, TimeInv
  <2>2. QED
    BY <1>a, <2>1 DEF SeenInv
<1>3. SparedInv'
  BY <1>a, DistinctAssumption DEF TypeOK, SparedInv, Recent, LockedPc, Locking
<1>4. QED
  BY <1>1, <1>2, <1>3

(* A container that dies changes no time.                                   *)
LEMMA DiesTime == ASSUME IndInv, TimeInv, ContainerDies PROVE TimeInv'
<1> USE DEF ContainerDies, Fault, IndInv, TimeInv
<1>1. ClockInv'
  BY ConstantsAssumption, DistinctAssumption DEF TypeOK, ClockInv
<1>2. SeenInv'
  BY DistinctAssumption DEF TypeOK, SeenInv, ClockInv, Tracked
<1>3. SparedInv'
  BY DistinctAssumption DEF TypeOK, SparedInv, Recent, LockedPc, Tracked
<1>4. QED
  BY <1>1, <1>2, <1>3

(* All bridged sessions end.                                                *)
LEMMA RecreatedTime == ASSUME IndInv, TimeInv, ProxyRecreated PROVE TimeInv'
<1> USE DEF ProxyRecreated, Fault, IndInv, TimeInv
<1>1. ClockInv'
  BY ConstantsAssumption, DistinctAssumption DEF TypeOK, ClockInv
<1>2. SeenInv'
  BY DistinctAssumption DEF TypeOK, SeenInv, ClockInv, Tracked
<1>3. SparedInv'
  BY DistinctAssumption DEF TypeOK, SparedInv, Recent, LockedPc, Tracked
<1>4. QED
  BY <1>1, <1>2, <1>3

(* Time passes only as far as every session may last.                       *)
LEMMA TickTime == ASSUME IndInv, TimeInv, Tick PROVE TimeInv'
<1> USE DEF Tick, IndInv, TimeInv
<1>1. ClockInv'
  BY ConstantsAssumption, DistinctAssumption DEF TypeOK, ClockInv
<1>2. SeenInv'
  BY DistinctAssumption DEF TypeOK, SeenInv, ClockInv, Tracked
<1>3. SparedInv'
  <2>1. ASSUME NEW s \in Sessions, Recent(s)' PROVE Recent(s)
    <3>1. clock \in Nat /\ clock' = clock + 1 /\ since'[s] = since[s] /\ since[s] \in Nat
      BY DEF TypeOK
    <3>2. QED
      BY <2>1, <3>1, ConstantsAssumption DEF Recent
  <2>2. QED
    BY <2>1 DEF SparedInv
<1>4. QED
  BY <1>1, <1>2, <1>3

-----------------------------------------------------------------------------

(* Before the first request there is nothing to be late.                    *)
LEMMA InitTimeInv == Init => TimeInv
  BY ConstantsAssumption DEF Init, TimeInv, ClockInv, SeenInv, SparedInv

(* One case per kind of step, and per action the lemma above.               *)
LEMMA TimeInvStep == IndInv /\ TimeInv /\ [Next]_vars => TimeInv'
<1> SUFFICES ASSUME IndInv, TimeInv, [Next]_vars PROVE TimeInv'
  OBVIOUS
<1>1. ASSUME NEW s \in Sessions, AcquireSession(s) \/ SessionStep(s) \/ ReleaseSession(s)
                                    \/ LoseRelease(s) \/ GiveUp(s)
      PROVE  TimeInv'
  BY <1>1, AcquireTime, ReuseTime, MakeRoomTime, EvictTime, CheckFailsTime, EnsureNetworkTime,
     EnsureNetworkFailsTime, AdoptExistingTime, AdoptReplacesTime, AdoptFailsTime,
     NothingToAdoptTime, CreateContainerTime, CreateFailsTime, AttachProxyTime,
     AttachFailsTime, ReplyTime, ReplyFailsTime, ReleaseTime, LoseReleaseTime, GiveUpTime
     DEF SessionStep
<1>2. ASSUME NEW p \in Planters, PlantDecoys(p) \/ WriteFiles(p) \/ WriteFails(p)
      PROVE  TimeInv'
  BY <1>2, PlantTime, WriteTime, WriteFailsTime
<1>3. ASSUME NEW t \in Sessions \cup {Reaper}, Destroying(t)
      PROVE  TimeInv'
  BY <1>3, ForceRemoveTime, RemoveFailsTime, CollectFailsTime, DetachTime DEF Destroying
<1>4. CASE ReaperWakes \/ ReaperLocks \/ ReapNext \/ ReaperSleeps
  BY <1>4, ReaperWakesTime, ReaperLocksTime, ReapNextTime, ReaperSleepsTime
<1>5. CASE Startup \/ Crash \/ ContainerDies \/ ProxyRecreated \/ Tick
  BY <1>5, StartupTime, CrashTime, DiesTime, RecreatedTime, TickTime
<1>6. CASE UNCHANGED vars
  BY <1>6 DEF TimeInv, ClockInv, SeenInv, SparedInv, Recent, Tracked, vars
<1>7. QED
  BY <1>1, <1>2, <1>3, <1>4, <1>5, <1>6 DEF Next, Broker, World

(* However long sessions may last, whatever time the reaper read before it  *)
(* waited for the lock, and however long it works on its list: _reaper      *)
(* never removes the container of a bridged session that was let in within  *)
(* the TTL.  (An older session is not spared: nothing tells the reaper of   *)
(* it.)                                                                     *)
THEOREM ReaperSpares == Spec => []ReaperSparesRecentSessions
<1>1. IndInv /\ TimeInv => ReaperSparesRecentSessions
  <2>1. SUFFICES ASSUME IndInv, TimeInv, pc[Reaper] = "remove", NEW s \in Sessions,
                        pc[s] = "open", cid[s] = doomed
                 PROVE  clock > since[s] + IdleTtl
    BY DEF ReaperSparesRecentSessions
  <2>2. ~Recent(s)
    BY <2>1 DEF TimeInv, SparedInv
  <2>3. clock \in Nat /\ since[s] \in Nat
    BY <2>1 DEF IndInv, TypeOK
  <2>4. QED
    BY <2>1, <2>2, <2>3, ConstantsAssumption DEF Recent
<1>2. QED
  BY <1>1, TimeInvStep, Invariance, InitTimeInv, PTL DEF Spec

-----------------------------------------------------------------------------
(* The environments promised; attachments, networks and standing containers.*)

(* The broker tracks the container that stands under the attacker's name,   *)
(* a request answers with that one, and a broker that is down tracks none.  *)
EntryInv ==
    /\ \A k \in Tracked : entry[k] = backends[k].container_id
    /\ \A s \in Sessions : pc[s] \in {"attach", "store"} => entry[src[s]] = cid[s]
    /\ ~up => Tracked = {}

(* The dict serves the same attackers from the same containers.             *)
DictSame ==
    /\ Tracked' = Tracked
    /\ \A k \in Tracked : backends'[k].container_id = backends[k].container_id

(* The same sessions are bridged to the same containers.                    *)
SessionsSame ==
    \A s \in Sessions :
        /\ pc'[s] = "open" <=> pc[s] = "open"
        /\ pc[s] = "open" => src'[s] = src[s] /\ cid'[s] = cid[s]

(* A request that is about to answer was there before, with its container.  *)
AnswersSame ==
    \A s \in Sessions : pc'[s] \in {"attach", "store"} =>
        pc[s] \in {"attach", "store"} /\ src'[s] = src[s] /\ cid'[s] = cid[s]

USE DEF requestVars, taskVars, destroyVars, reaperVars, containerVars,
        networkVars, dockerVars, Tasks, Goto

-----------------------------------------------------------------------------
(* Steps that change nothing AttackerEnvironments can see, or nothing the   *)
(* invariant speaks of.                                                     *)

(* Nothing tracked, built, bridged or planted changes.                      *)
LEMMA Stutters ==
    ASSUME DictSame, SessionsSame, UNCHANGED <<entry, builtFor, decoys>>
    PROVE  UNCHANGED Environments!vars
<1>1. UNCHANGED EnvironmentOf
  BY DEF DictSame, EnvironmentOf
<1>2. UNCHANGED BridgedTo
  BY DEF SessionsSame, BridgedTo
<1>3. UNCHANGED StandingContainers
  BY DEF StandingContainers
<1>4. QED
  BY <1>1, <1>2, <1>3 DEF Environments!vars

(* The invariant only speaks of the dict, the entries and the answers.      *)
LEMMA Keeps ==
    ASSUME EntryInv, DictSame, AnswersSame, UNCHANGED <<entry, up>>
    PROVE  EntryInv'
  BY DEF EntryInv, DictSame, AnswersSame

(* A step of a request that neither stores, creates nor replies.            *)
LEMMA RequestQuiet ==
    ASSUME IndInv, EntryInv, NEW s \in Sessions,
           \/ AcquireSession(s) \/ ReuseBackend(s) \/ CheckFails(s) \/ EnsureNetworkFails(s)
           \/ NothingToAdopt(s) \/ AdoptFails(s) \/ AttachProxy(s) \/ AttachFails(s)
           \/ ReplyFails(s) \/ GiveUp(s)
    PROVE  DictSame /\ SessionsSame /\ AnswersSame /\ UNCHANGED <<entry, builtFor, decoys, up>>
<1> USE DEF IndInv, SessionsSame, AnswersSame
<1>1. CASE AcquireSession(s)
  BY <1>1, DistinctAssumption DEF AcquireSession, TypeOK, DictSame, Tracked
<1>2. CASE ReuseBackend(s)
  <2>1. DictSame
    BY <1>2, TouchDict DEF ReuseBackend, TypeOK, DictSame, Tracked
  <2>2. QED
    BY <1>2, <2>1, DistinctAssumption DEF ReuseBackend, TypeOK
<1>3. CASE CheckFails(s) \/ EnsureNetworkFails(s) \/ AdoptFails(s) \/ AttachFails(s) \/ ReplyFails(s)
  <2>1. /\ Finish(s)
        /\ pc[s] \in {"check", "network", "adopt", "attach", "store"}
        /\ UNCHANGED <<backends, entry, builtFor, decoys, up>>
    BY <1>3 DEF CheckFails, EnsureNetworkFails, AdoptFails, AttachFails, ReplyFails, Abort
  <2>2. QED
    BY <2>1, DistinctAssumption DEF Finish, TypeOK, DictSame, Tracked
<1>4. CASE NothingToAdopt(s)
  BY <1>4, DistinctAssumption DEF NothingToAdopt, TypeOK, DictSame, Tracked
<1>5. CASE AttachProxy(s)
  BY <1>5, DistinctAssumption DEF AttachProxy, TypeOK, DictSame, Tracked
<1>6. CASE GiveUp(s)
  BY <1>6 DEF GiveUp, DictSame, Tracked
<1>7. QED
  BY <1>1, <1>2, <1>3, <1>4, <1>5, <1>6

(* A step of _destroy that removes no container.                            *)
LEMMA DestroyQuiet ==
    ASSUME IndInv, EntryInv, NEW t \in Sessions \cup {Reaper},
           RemoveFails(t) \/ CollectFails(t) \/ DetachProxy(t)
    PROVE  DictSame /\ SessionsSame /\ AnswersSame /\ UNCHANGED <<entry, builtFor, decoys, up>>
<1>1. /\ pc[t] \in {"remove", "detach"}
      /\ UNCHANGED <<backends, entry, builtFor, decoys, up>>
  BY DEF RemoveFails, CollectFails, DetachProxy
<1>2. \/ pc' = [pc EXCEPT ![t] = "sweep"] /\ UNCHANGED <<src, cid>>
      \/ pc' = [pc EXCEPT ![t] = "network"] /\ UNCHANGED <<src, cid>>
      \/ pc' = [pc EXCEPT ![t] = "dead"] /\ UNCHANGED <<src, cid>>
      \/ Finish(t)
  BY DEF RemoveFails, CollectFails, DetachProxy, Destroyed, Abort
<1>3. DictSame
  BY <1>1 DEF DictSame, Tracked
<1>4. SessionsSame /\ AnswersSame
  BY <1>1, <1>2, DistinctAssumption DEF Finish, SessionsSame, AnswersSame, IndInv, TypeOK
<1>5. QED
  BY <1>1, <1>3, <1>4

(* The reaper, outside of _destroy, and what happens around the broker.     *)
LEMMA WorldQuiet ==
    ASSUME IndInv, EntryInv,
           \/ ReaperWakes \/ ReaperLocks \/ ReaperSleeps \/ ContainerDies \/ Tick \/ UNCHANGED vars
    PROVE  DictSame /\ SessionsSame /\ AnswersSame /\ UNCHANGED <<entry, builtFor, decoys, up>>
<1>1. CASE ReaperWakes \/ ReaperLocks \/ ReaperSleeps
  BY <1>1, DistinctAssumption DEF ReaperWakes, ReaperLocks, ReaperSleeps, IndInv, TypeOK,
     DictSame, SessionsSame, AnswersSame, Tracked
<1>2. CASE ContainerDies \/ Tick \/ UNCHANGED vars
  BY <1>2 DEF ContainerDies, Tick, vars, DictSame, SessionsSame, AnswersSame, Tracked
<1>3. QED
  BY <1>1, <1>2

(* A decoy request that looks its backend up.                               *)
LEMMA PlantQuiet ==
    ASSUME IndInv, EntryInv, NEW p \in Planters, PlantDecoys(p)
    PROVE  DictSame /\ SessionsSame /\ AnswersSame /\ UNCHANGED <<entry, builtFor, decoys, up>>
  BY DistinctAssumption DEF PlantDecoys, IndInv, TypeOK, DictSame, SessionsSame, AnswersSame, Tracked

(* A request that finds the container it will answer with.                  *)
LEMMA FoundQuiet ==
    ASSUME IndInv, EntryInv, NEW s \in Sessions, EnsureNetwork(s) \/ AdoptExisting(s)
    PROVE  /\ DictSame /\ SessionsSame /\ UNCHANGED <<entry, builtFor, decoys, up>>
           /\ EntryInv'
<1> USE DEF IndInv, TypeOK
<1>0. pc[s] \in {"network", "adopt"} /\ src[s] \in SrcIps
  BY DEF EnsureNetwork, AdoptExisting, RequestInv
<1>1. DictSame /\ UNCHANGED <<entry, builtFor, decoys, up, src>>
  BY DEF EnsureNetwork, AdoptExisting, DictSame, Tracked
<1>2. SessionsSame
  BY <1>0, DistinctAssumption DEF EnsureNetwork, AdoptExisting, SessionsSame
<1>3. ASSUME NEW r \in Sessions, pc'[r] \in {"attach", "store"}
      PROVE  entry[src[r]] = cid'[r]
  <2>1. CASE r # s
    BY <1>3, <2>1, DistinctAssumption DEF EnsureNetwork, AdoptExisting, EntryInv
  <2>2. CASE r = s /\ EnsureNetwork(s)
    BY <1>3, <2>2, DistinctAssumption DEF EnsureNetwork, EntryInv, RequestInv
  <2>3. CASE r = s /\ AdoptExisting(s)
    BY <1>3, <2>3, DistinctAssumption DEF AdoptExisting
  <2>4. QED
    BY <2>1, <2>2, <2>3
<1>4. EntryInv'
  BY <1>1, <1>3 DEF EntryInv, DictSame
<1>5. QED
  BY <1>1, <1>2, <1>4

-----------------------------------------------------------------------------
(* Steps that AttackerEnvironments can see.                                 *)

(* Popping the attacker's backend, if any, retires the environment.         *)
LEMMA MakeRoomRetires ==
    ASSUME IndInv, EntryInv, NEW s \in Sessions, MakeRoom(s)
    PROVE  Environments!Retire({src[s]}) /\ EntryInv'
<1> USE DEF IndInv, TypeOK
<1>1. /\ Tracked' = Tracked \ {src[s]}
      /\ \A k \in Tracked' : backends'[k] = backends[k]
  BY PopDict DEF MakeRoom, Tracked
<1>2. EnvironmentOf' = [k \in SrcIps |-> IF k \in {src[s]} THEN Nobody ELSE EnvironmentOf[k]]
  BY <1>1 DEF EnvironmentOf
<1>3. UNCHANGED <<builtFor, decoys, entry, StandingContainers>>
  BY DEF MakeRoom, StandingContainers
<1>4. UNCHANGED BridgedTo
  BY DistinctAssumption DEF MakeRoom, BridgedTo
<1>5. EntryInv'
  BY <1>1, DistinctAssumption DEF MakeRoom, EntryInv
<1>6. QED
  BY <1>2, <1>3, <1>4, <1>5 DEF Environments!Retire

(* An eviction retires the attacker's environment and another.              *)
LEMMA EvictRetires ==
    ASSUME IndInv, EntryInv, NEW s \in Sessions, EvictOldest(s)
    PROVE  \E A \in SUBSET SrcIps : Environments!Retire(A) /\ EntryInv'
<1> USE DEF IndInv, TypeOK
<1> DEFINE rest == Pop(backends, src[s])
<1>1. /\ Dict(rest) /\ DOMAIN rest = Tracked \ {src[s]}
      /\ \A j \in DOMAIN rest : rest[j] = backends[j]
  BY PopDict DEF Tracked
<1>2. PICK v \in DOMAIN rest : BeginDestroy(s, rest, v)
  BY DEF EvictOldest, Oldest
<1> HIDE DEF rest
<1>3. /\ DOMAIN Pop(rest, v) = DOMAIN rest \ {v}
      /\ \A j \in DOMAIN Pop(rest, v) : Pop(rest, v)[j] = rest[j]
  BY <1>1, PopDict
<1> DEFINE A == {src[s], v} \cap SrcIps
<1>4. /\ Tracked' = Tracked \ {src[s], v}
      /\ \A k \in Tracked' : backends'[k] = backends[k]
  BY <1>1, <1>2, <1>3 DEF BeginDestroy, Tracked
<1>5. EnvironmentOf' = [k \in SrcIps |-> IF k \in A THEN Nobody ELSE EnvironmentOf[k]]
  BY <1>4 DEF EnvironmentOf
<1>6. UNCHANGED <<builtFor, decoys, entry, up, src, cid, StandingContainers>>
  BY DEF EvictOldest, StandingContainers
<1>7. pc' = [pc EXCEPT ![s] = "remove"] /\ pc[s] = "check"
  BY <1>2 DEF BeginDestroy, EvictOldest
<1>8. UNCHANGED BridgedTo
  BY <1>6, <1>7, DistinctAssumption DEF BridgedTo
<1>9. EntryInv'
  BY <1>4, <1>6, <1>7, DistinctAssumption DEF EntryInv
<1>10. Environments!Retire(A)
  BY <1>5, <1>6, <1>8 DEF Environments!Retire
<1>11. A \in SUBSET SrcIps
  OBVIOUS
<1> HIDE DEF A
<1>12. QED
  BY <1>9, <1>10, <1>11

(* The reaper retires one environment at a time.                            *)
LEMMA ReapRetires ==
    ASSUME IndInv, EntryInv, ReapNext
    PROVE  \E A \in SUBSET SrcIps : Environments!Retire(A) /\ EntryInv'
<1> USE DEF IndInv, TypeOK
<1>1. PICK v \in SrcIps : BeginDestroy(Reaper, backends, v)
  BY DEF ReapNext
<1>2. /\ Tracked' = Tracked \ {v}
      /\ \A k \in Tracked' : backends'[k] = backends[k]
  BY <1>1, PopDict DEF BeginDestroy, Tracked
<1>3. EnvironmentOf' = [k \in SrcIps |-> IF k \in {v} THEN Nobody ELSE EnvironmentOf[k]]
  BY <1>2 DEF EnvironmentOf
<1>4. UNCHANGED <<builtFor, decoys, entry, up, src, cid, StandingContainers>>
  BY DEF ReapNext, StandingContainers
<1>5. \A s \in Sessions : pc'[s] = pc[s]
  BY <1>1, DistinctAssumption DEF BeginDestroy
<1>6. UNCHANGED BridgedTo
  BY <1>4, <1>5 DEF BridgedTo
<1>7. EntryInv'
  BY <1>2, <1>4, <1>5 DEF EntryInv
<1>8. Environments!Retire({v})
  BY <1>3, <1>4, <1>6 DEF Environments!Retire
<1>9. QED
  BY <1>7, <1>8

(* A broker that dies serves nobody; bridged sessions go on.                *)
LEMMA CrashRetires ==
    ASSUME IndInv, EntryInv, Crash
    PROVE  Environments!Retire(SrcIps) /\ EntryInv'
<1> USE DEF IndInv, TypeOK
<1>1. Tracked' = {}
  BY EmptyDict DEF Crash, Tracked
<1>2. EnvironmentOf' = [k \in SrcIps |-> IF k \in SrcIps THEN Nobody ELSE EnvironmentOf[k]]
  BY <1>1 DEF EnvironmentOf
<1>3. UNCHANGED <<builtFor, decoys, StandingContainers>>
  BY DEF Crash, StandingContainers
<1>4. UNCHANGED BridgedTo
  BY DistinctAssumption DEF Crash, BridgedTo
<1>5. EntryInv'
  BY <1>1, DistinctAssumption DEF Crash, EntryInv
<1>6. QED
  BY <1>2, <1>3, <1>4, <1>5 DEF Environments!Retire

(* A container is created for an attacker who has none.                     *)
LEMMA CreateBuilds ==
    ASSUME IndInv, EntryInv, NEW s \in Sessions, CreateContainer(s)
    PROVE  \E c \in ContainerIds : Environments!Build(src[s], c) /\ EntryInv'
<1> USE DEF IndInv, TypeOK
<1>1. PICK c \in UnusedIds :
        /\ entry' = [entry EXCEPT ![src[s]] = c]
        /\ builtFor' = [builtFor EXCEPT ![c] = src[s]]
        /\ cid' = [cid EXCEPT ![s] = c]
  BY DEF CreateContainer
<1>2. /\ pc[s] = "run" /\ pc' = [pc EXCEPT ![s] = "attach"]
      /\ src[s] \in SrcIps \ Tracked /\ entry[src[s]] = Nobody
      /\ UNCHANGED <<backends, decoys, src, up>>
  BY DEF CreateContainer, RequestInv
<1>3. c \in ContainerIds /\ builtFor[c] = Nobody /\ c # Nobody
  BY <1>1, DistinctAssumption DEF UnusedIds
<1>4. StandingContainers' = StandingContainers \cup {c}
  BY <1>1, <1>2, <1>3 DEF StandingContainers
<1>5. \A d \in StandingContainers : builtFor[d] # src[s]
  BY <1>2 DEF StandingContainers, DockerInv
<1>6. UNCHANGED EnvironmentOf
  BY <1>2 DEF EnvironmentOf, Tracked
<1>7. UNCHANGED BridgedTo
  BY <1>1, <1>2, DistinctAssumption DEF BridgedTo
<1>8. \A r \in Sessions : r # s /\ pc'[r] \in {"attach", "store"} => FALSE
  BY <1>2, Exclusion, DistinctAssumption DEF LockedPc, SessionPc
<1>9. EntryInv'
  BY <1>1, <1>2, <1>8, DistinctAssumption DEF EntryInv, Tracked
<1>10. Environments!Build(src[s], c)
  BY <1>1, <1>2, <1>3, <1>4, <1>5, <1>6, <1>7 DEF Environments!Build
<1>11. QED
  BY <1>3, <1>9, <1>10

(* A creation that fails may leave a container behind.                      *)
LEMMA CreateFailsBuilds ==
    ASSUME IndInv, EntryInv, NEW s \in Sessions, CreateFails(s)
    PROVE  /\ \/ UNCHANGED Environments!vars
              \/ \E c \in ContainerIds : Environments!Build(src[s], c)
           /\ EntryInv'
<1> USE DEF IndInv, TypeOK
<1>1. /\ pc[s] = "run" /\ src[s] \in SrcIps \ Tracked
      /\ Finish(s)
      /\ UNCHANGED <<backends, decoys, up>>
  BY DEF CreateFails, Abort, RequestInv
<1>2. DictSame /\ SessionsSame /\ AnswersSame
  BY <1>1, DistinctAssumption DEF Finish, DictSame, SessionsSame, AnswersSame, Tracked
<1>3. CASE UNCHANGED <<entry, builtFor>>
  BY <1>1, <1>2, <1>3, Stutters, Keeps
<1>4. CASE /\ entry[src[s]] = Nobody
           /\ \E c \in UnusedIds : /\ entry' = [entry EXCEPT ![src[s]] = c]
                                   /\ builtFor' = [builtFor EXCEPT ![c] = src[s]]
  <2>1. PICK c \in UnusedIds : /\ entry' = [entry EXCEPT ![src[s]] = c]
                               /\ builtFor' = [builtFor EXCEPT ![c] = src[s]]
    BY <1>4
  <2>2. c \in ContainerIds /\ builtFor[c] = Nobody /\ c # Nobody
    BY <2>1, DistinctAssumption DEF UnusedIds
  <2>3. StandingContainers' = StandingContainers \cup {c}
    BY <1>1, <1>4, <2>1, <2>2 DEF StandingContainers
  <2>4. \A d \in StandingContainers : builtFor[d] # src[s]
    BY <1>1, <1>4 DEF StandingContainers, DockerInv
  <2>5. UNCHANGED <<EnvironmentOf, BridgedTo>>
    BY <1>2 DEF DictSame, SessionsSame, EnvironmentOf, BridgedTo
  <2>6. \A r \in Sessions : pc'[r] \in {"attach", "store"} => FALSE
    BY <1>1, Exclusion, DistinctAssumption DEF Finish, LockedPc, SessionPc
  <2>7. EntryInv'
    BY <1>1, <2>1, <2>6, DistinctAssumption DEF EntryInv, Tracked
  <2>8. Environments!Build(src[s], c)
    BY <1>1, <2>1, <2>2, <2>3, <2>4, <2>5 DEF Environments!Build
  <2>9. QED
    BY <2>2, <2>7, <2>8
<1>5. QED
  BY <1>3, <1>4 DEF CreateFails

(* The reply serves the attacker from the container that stands.            *)
LEMMA ReplyServes ==
    ASSUME IndInv, EntryInv, NEW s \in Sessions, ReplySession(s)
    PROVE  \E k \in SrcIps, c \in ContainerIds : Environments!Serve(k, c) /\ EntryInv'
<1> USE DEF IndInv, TypeOK
<1> DEFINE k == src[s]
           c == cid[s]
<1>1. /\ pc[s] = "store" /\ k \in SrcIps /\ c \in ContainerIds
      /\ builtFor[c] = k /\ entry[k] = c /\ c # Nobody
      /\ UNCHANGED <<entry, builtFor, decoys, up>>
  BY DistinctAssumption DEF ReplySession, RequestInv, EntryInv
<1>2. \/ k \in Tracked /\ backends' = backends
      \/ /\ k \notin Tracked
         /\ \E b \in Backend : b.container_id = c /\ backends' = Store(backends, k, b)
  <2>1. CASE k \in Tracked
    BY <2>1 DEF ReplySession
  <2>2. CASE k \notin Tracked
    <3>1. PICK a \in AddressesOf(k, c) :
            backends' = Store(backends, k,
                              [container_id |-> c, address |-> a, last_seen |-> clock])
      BY <2>2 DEF ReplySession
    <3>2. a \in Subnets \cup {NoAddress}
      BY <1>1, DistinctAssumption DEF AddressesOf, RequestInv
    <3>3. QED
      BY <1>1, <2>2, <3>1, <3>2 DEF Backend
  <2>3. QED
    BY <2>1, <2>2
<1>3. /\ Tracked' = Tracked \cup {k}
      /\ \A j \in Tracked' :
           backends'[j].container_id = IF j = k THEN c ELSE backends[j].container_id
  <2>1. CASE k \in Tracked /\ backends' = backends
    BY <1>1, <2>1 DEF Tracked, EntryInv
  <2>2. CASE k \notin Tracked /\ \E b \in Backend : /\ b.container_id = c
                                                   /\ backends' = Store(backends, k, b)
    <3>1. PICK b \in Backend : b.container_id = c /\ backends' = Store(backends, k, b)
      BY <2>2
    <3>0. Dict(backends) /\ k \in SrcIps
      BY <1>1
    <3> HIDE DEF k, c, IndInv, TypeOK
    <3>2. /\ DOMAIN Store(backends, k, b) = DOMAIN backends \cup {k}
          /\ \A j \in DOMAIN Store(backends, k, b) :
               Store(backends, k, b)[j] = IF j = k THEN b ELSE backends[j]
      BY <3>0, StoreDict
    <3>3. QED
      BY <3>1, <3>2 DEF Tracked
  <2>3. QED
    BY <1>2, <2>1, <2>2
<1>4. /\ EnvironmentOf' = [EnvironmentOf EXCEPT ![k] = c]
      /\ EnvironmentOf[k] \in {Nobody, c}
  BY <1>1, <1>3 DEF EnvironmentOf, EntryInv
<1>5. \/ pc' = [pc EXCEPT ![s] = "open"] /\ UNCHANGED <<src, cid>>
      \/ Finish(s)
  BY DEF ReplySession
<1>6. \/ UNCHANGED BridgedTo
      \/ BridgedTo[s] = Nobody /\ BridgedTo' = [BridgedTo EXCEPT ![s] = <<k, c>>]
  <2>1. CASE pc' = [pc EXCEPT ![s] = "open"] /\ UNCHANGED <<src, cid>>
    <3>1. BridgedTo[s] = Nobody
      BY <1>1 DEF BridgedTo
    <3>2. BridgedTo' = [BridgedTo EXCEPT ![s] = <<src[s], cid[s]>>]
      BY <2>1 DEF BridgedTo
    <3>3. QED
      BY <3>1, <3>2
  <2>2. CASE Finish(s)
    BY <1>1, <2>2, DistinctAssumption DEF Finish, BridgedTo
  <2>3. QED
    BY <1>5, <2>1, <2>2
<1>7. UNCHANGED StandingContainers /\ c \in StandingContainers
  BY <1>1 DEF StandingContainers
<1>8. AnswersSame
  BY <1>1, <1>5, DistinctAssumption DEF Finish, AnswersSame
<1>9. EntryInv'
  BY <1>1, <1>3, <1>8, DistinctAssumption DEF EntryInv, AnswersSame, Locking
<1> HIDE DEF k, c
<1>10. Environments!Serve(k, c)
  BY <1>1, <1>4, <1>6, <1>7 DEF Environments!Serve
<1>11. QED
  BY <1>1, <1>9, <1>10

(* Only a container whose attacker has left the dict is removed.            *)
LEMMA ForceRemoves ==
    ASSUME IndInv, EntryInv, NEW t \in Sessions \cup {Reaper}, ForceRemove(t)
    PROVE  (\E c \in ContainerIds : Environments!Remove(c)) /\ EntryInv'
<1> USE DEF IndInv, TypeOK
<1>1. /\ pc[t] = "remove" /\ victim \in SrcIps \ Tracked /\ doomed \in ContainerIds
      /\ entry[victim] = doomed
      /\ entry' = [entry EXCEPT ![victim] = Nobody]
      /\ pc' = [pc EXCEPT ![t] = "detach"]
      /\ UNCHANGED <<backends, builtFor, decoys, src, cid, up>>
  BY DEF ForceRemove, DestroyInv
<1>2. doomed # Nobody /\ \A k \in SrcIps \ {victim} : entry[k] # doomed
  BY <1>1, DistinctAssumption DEF DockerInv
<1>3. StandingContainers' = StandingContainers \ {doomed} /\ doomed \in StandingContainers
  BY <1>1, <1>2 DEF StandingContainers
<1>4. \A k \in SrcIps : EnvironmentOf[k] # doomed
  BY <1>1, <1>2 DEF EnvironmentOf, EntryInv
<1>5. UNCHANGED EnvironmentOf
  BY <1>1 DEF EnvironmentOf, Tracked
<1>6. UNCHANGED BridgedTo
  BY <1>1, DistinctAssumption DEF BridgedTo
<1>7. \A r \in Sessions : pc'[r] \notin {"attach", "store"}
  BY <1>1, Exclusion, DistinctAssumption DEF LockedPc, SessionPc
<1>8. EntryInv'
  BY <1>1, <1>7 DEF EntryInv, Tracked
<1>9. Environments!Remove(doomed)
  BY <1>1, <1>3, <1>4, <1>5, <1>6 DEF Environments!Remove
<1>10. QED
  BY <1>1, <1>8, <1>9

(* A stopped container that will not start is removed, or left.             *)
LEMMA AdoptRemoves ==
    ASSUME IndInv, EntryInv, NEW s \in Sessions, AdoptReplaces(s)
    PROVE  /\ \/ UNCHANGED Environments!vars
              \/ \E c \in ContainerIds : Environments!Remove(c)
           /\ EntryInv'
<1> USE DEF IndInv, TypeOK
<1> DEFINE c == entry[src[s]]
<1>1. /\ pc[s] = "adopt" /\ src[s] \in SrcIps \ Tracked /\ c \in ContainerIds /\ c # Nobody
      /\ pc' = [pc EXCEPT ![s] = "run"]
      /\ UNCHANGED <<backends, builtFor, decoys, src, cid, up>>
  BY DEF AdoptReplaces, RequestInv
<1>2. DictSame /\ SessionsSame /\ AnswersSame
  BY <1>1, DistinctAssumption DEF DictSame, SessionsSame, AnswersSame, Tracked
<1>3. CASE entry' = entry
  BY <1>1, <1>2, <1>3, Stutters, Keeps
<1>4. CASE entry' = [entry EXCEPT ![src[s]] = Nobody]
  <2>1. \A k \in SrcIps \ {src[s]} : entry[k] # c
    BY <1>1, DistinctAssumption DEF DockerInv
  <2>2. StandingContainers' = StandingContainers \ {c} /\ c \in StandingContainers
    BY <1>1, <1>4, <2>1 DEF StandingContainers
  <2>3. \A k \in SrcIps : EnvironmentOf[k] # c
    BY <1>1, <2>1 DEF EnvironmentOf, EntryInv
  <2>4. UNCHANGED <<EnvironmentOf, BridgedTo>>
    BY <1>2 DEF DictSame, SessionsSame, EnvironmentOf, BridgedTo
  <2>5. \A r \in Sessions : pc'[r] \notin {"attach", "store"}
    BY <1>1, Exclusion, DistinctAssumption DEF LockedPc, SessionPc
  <2>6. EntryInv'
    BY <1>1, <1>4, <2>5 DEF EntryInv, Tracked
  <2> HIDE DEF c
  <2>7. Environments!Remove(c)
    BY <1>1, <2>2, <2>3, <2>4 DEF Environments!Remove
  <2>8. QED
    BY <1>1, <2>6, <2>7
<1>5. QED
  BY <1>3, <1>4 DEF AdoptReplaces

(* A session that is released, or whose release is lost, leaves.            *)
LEMMA ReleaseLeaves ==
    ASSUME IndInv, EntryInv, NEW s \in Sessions, ReleaseSession(s) \/ LoseRelease(s)
    PROVE  Environments!Leave({s}) /\ EntryInv'
<1> USE DEF IndInv, TypeOK
<1>1. /\ pc[s] = "open" /\ Finish(s)
      /\ UNCHANGED <<entry, builtFor, decoys, up>>
  BY DEF ReleaseSession, LoseRelease
<1>2. DictSame
  BY TouchDict DEF ReleaseSession, LoseRelease, DictSame, Tracked
<1>3. BridgedTo' = [r \in Sessions |-> IF r \in {s} THEN Nobody ELSE BridgedTo[r]]
  BY <1>1, DistinctAssumption DEF Finish, BridgedTo
<1>4. UNCHANGED <<EnvironmentOf, StandingContainers>>
  BY <1>1, <1>2 DEF DictSame, EnvironmentOf, StandingContainers
<1>5. AnswersSame
  BY <1>1, DistinctAssumption DEF Finish, AnswersSame
<1>6. QED
  BY <1>1, <1>2, <1>3, <1>4, <1>5, Keeps DEF Environments!Leave

(* A new proxy has no sessions.                                             *)
LEMMA RecreatedLeaves ==
    ASSUME IndInv, EntryInv, ProxyRecreated
    PROVE  Environments!Leave(Sessions) /\ EntryInv'
<1> USE DEF IndInv, TypeOK
<1>1. DictSame /\ AnswersSame /\ UNCHANGED <<entry, builtFor, decoys, up>>
  BY DEF ProxyRecreated, DictSame, AnswersSame, Tracked
<1>2. BridgedTo' = [r \in Sessions |-> IF r \in Sessions THEN Nobody ELSE BridgedTo[r]]
  BY DEF ProxyRecreated, BridgedTo
<1>3. UNCHANGED <<EnvironmentOf, StandingContainers>>
  BY <1>1 DEF DictSame, EnvironmentOf, StandingContainers
<1>4. QED
  BY <1>1, <1>2, <1>3, Keeps DEF Environments!Leave

(* The files go to the container the request read with its key.             *)
LEMMA WritePlants ==
    ASSUME IndInv, EntryInv, NEW p \in Planters, WriteFiles(p) \/ WriteFails(p)
    PROVE  /\ \/ UNCHANGED Environments!vars
              \/ \E c \in ContainerIds : Environments!Plant(c)
           /\ EntryInv'
<1> USE DEF IndInv, TypeOK
<1>1. /\ pc[p] = "write" /\ cid[p] \in ContainerIds
      /\ builtFor[cid[p]] = src[p] /\ src[p] \in SrcIps /\ src[p] # Nobody
      /\ Finish(p)
      /\ UNCHANGED <<entry, builtFor, up>>
  BY DistinctAssumption DEF WriteFiles, WriteFails, PlanterInv
<1>2. DictSame
  BY TouchDict DEF WriteFiles, WriteFails, DictSame, Tracked
<1>3. SessionsSame /\ AnswersSame
  BY <1>1, DistinctAssumption DEF Finish, SessionsSame, AnswersSame
<1>4. UNCHANGED <<EnvironmentOf, BridgedTo, StandingContainers>>
  BY <1>1, <1>2, <1>3 DEF DictSame, SessionsSame, EnvironmentOf, BridgedTo, StandingContainers
<1>5. \/ decoys' = decoys
      \/ decoys' = [decoys EXCEPT ![cid[p]] = @ \cup {src[p]}]
  BY DEF WriteFiles, WriteFails
<1>6. CASE decoys' = decoys
  BY <1>1, <1>2, <1>3, <1>6, Stutters, Keeps
<1>7. CASE decoys' = [decoys EXCEPT ![cid[p]] = @ \cup {src[p]}]
  <2>1. Environments!Plant(cid[p])
    BY <1>1, <1>4, <1>7 DEF Environments!Plant
  <2>2. EntryInv'
    BY <1>1, <1>2, <1>3, Keeps
  <2>3. QED
    BY <1>1, <2>1, <2>2
<1>8. QED
  BY <1>5, <1>6, <1>7

(* _reconcile serves the owners of what it found.                           *)
LEMMA StartupRecovers ==
    ASSUME IndInv, EntryInv, Startup
    PROVE  /\ \E found \in SUBSET StandingContainers : Environments!Recover(found)
           /\ EntryInv'
<1> USE DEF IndInv, TypeOK
<1>1. PICK K \in SUBSET {k \in SrcIps : entry[k] # Nobody} :
        backends' = [k \in K |-> [container_id |-> entry[k],
                                  address      |-> subnet[k],
                                  last_seen    |-> clock]]
  BY DEF Startup
<1>2. /\ ~up /\ up' = TRUE
      /\ UNCHANGED <<pc, src, cid, entry, builtFor, decoys>>
  BY DEF Startup
<1>3. Tracked' = K /\ \A k \in K : backends'[k].container_id = entry[k]
  BY <1>1 DEF Tracked
<1> DEFINE found == {entry[k] : k \in K}
<1>4. found \subseteq StandingContainers
  BY DEF StandingContainers
<1>5. \A k \in K : builtFor[entry[k]] = k /\ entry[k] \in ContainerIds
  BY DistinctAssumption DEF DockerInv
<1>6. EnvironmentOf = [a \in SrcIps |-> Nobody]
  BY <1>2 DEF EnvironmentOf, EntryInv
<1>7. EnvironmentOf' = [a \in SrcIps |-> IF a \in K THEN entry[a] ELSE Nobody]
  BY <1>3 DEF EnvironmentOf
<1>8. /\ EnvironmentOf' \in [SrcIps -> found \cup {Nobody}]
      /\ \A a \in SrcIps : EnvironmentOf'[a] # Nobody => builtFor[EnvironmentOf'[a]] = a
      /\ \A c \in found : EnvironmentOf'[builtFor[c]] = c
  BY <1>5, <1>7
<1>9. UNCHANGED <<StandingContainers, BridgedTo>>
  BY <1>2 DEF StandingContainers, BridgedTo
<1>10. EntryInv'
  BY <1>2, <1>3 DEF EntryInv
<1> HIDE DEF found
<1>11. Environments!Recover(found)
  BY <1>2, <1>4, <1>6, <1>8, <1>9 DEF Environments!Recover
<1>12. QED
  BY <1>4, <1>10, <1>11

-----------------------------------------------------------------------------
(* The theorem.                                                             *)

(* Nothing is tracked, standing or bridged at first.                        *)
LEMMA InitImplements == Init => Environments!Init /\ EntryInv
<1> SUFFICES ASSUME Init PROVE Environments!Init /\ EntryInv
  OBVIOUS
<1>1. Tracked = {}
  BY EmptyDict DEF Init, Tracked
<1>2. EnvironmentOf = [k \in SrcIps |-> Nobody] /\ StandingContainers = {}
  BY <1>1 DEF Init, EnvironmentOf, StandingContainers
<1>3. BridgedTo = [s \in Sessions |-> Nobody]
  BY DEF Init, BridgedTo
<1>4. QED
  BY <1>1, <1>2, <1>3 DEF Init, Environments!Init, EntryInv

(* One case per kind of step, and per action the lemma above.               *)
LEMMA StepImplements ==
    IndInv /\ EntryInv /\ [Next]_vars => [Environments!Next]_Environments!vars /\ EntryInv'
<1> SUFFICES ASSUME IndInv, EntryInv, [Next]_vars
             PROVE  [Environments!Next]_Environments!vars /\ EntryInv'
  OBVIOUS
<1>1. ASSUME NEW s \in Sessions, AcquireSession(s) \/ SessionStep(s) \/ GiveUp(s)
      PROVE  [Environments!Next]_Environments!vars /\ EntryInv'
  <2>1. CASE \/ AcquireSession(s) \/ ReuseBackend(s) \/ CheckFails(s) \/ EnsureNetworkFails(s)
             \/ NothingToAdopt(s) \/ AdoptFails(s) \/ AttachProxy(s) \/ AttachFails(s)
             \/ ReplyFails(s) \/ GiveUp(s)
    BY <2>1, RequestQuiet, Stutters, Keeps
  <2>2. CASE EnsureNetwork(s) \/ AdoptExisting(s)
    BY <2>2, FoundQuiet, Stutters
  <2>3. CASE MakeRoom(s)
    <3>1. src[s] \in SrcIps
      BY <2>3 DEF MakeRoom, IndInv, RequestInv
    <3>2. QED
      BY <2>3, <3>1, MakeRoomRetires DEF Environments!Next
  <2>4. CASE EvictOldest(s)
    BY <2>4, EvictRetires DEF Environments!Next
  <2>5. CASE CreateContainer(s) \/ CreateFails(s)
    <3>1. src[s] \in SrcIps
      BY <2>5 DEF CreateContainer, CreateFails, IndInv, RequestInv
    <3>2. QED
      BY <2>5, <3>1, CreateBuilds, CreateFailsBuilds DEF Environments!Next
  <2>6. CASE ReplySession(s)
    BY <2>6, ReplyServes DEF Environments!Next
  <2>7. CASE AdoptReplaces(s)
    BY <2>7, AdoptRemoves DEF Environments!Next
  <2>8. QED
    BY <1>1, <2>1, <2>2, <2>3, <2>4, <2>5, <2>6, <2>7 DEF SessionStep
<1>2. ASSUME NEW s \in Sessions, ReleaseSession(s) \/ LoseRelease(s)
      PROVE  [Environments!Next]_Environments!vars /\ EntryInv'
  BY <1>2, ReleaseLeaves DEF Environments!Next
<1>3. ASSUME NEW p \in Planters, PlantDecoys(p) \/ WriteFiles(p) \/ WriteFails(p)
      PROVE  [Environments!Next]_Environments!vars /\ EntryInv'
  BY <1>3, PlantQuiet, Stutters, Keeps, WritePlants DEF Environments!Next
<1>4. ASSUME NEW t \in Sessions \cup {Reaper}, Destroying(t)
      PROVE  [Environments!Next]_Environments!vars /\ EntryInv'
  <2>1. CASE ForceRemove(t)
    BY <2>1, ForceRemoves DEF Environments!Next
  <2>2. CASE RemoveFails(t) \/ CollectFails(t) \/ DetachProxy(t)
    BY <2>2, DestroyQuiet, Stutters, Keeps
  <2>3. QED
    BY <1>4, <2>1, <2>2 DEF Destroying
<1>5. CASE ReaperWakes \/ ReaperLocks \/ ReaperSleeps \/ ContainerDies \/ Tick \/ UNCHANGED vars
  BY <1>5, WorldQuiet, Stutters, Keeps
<1>6. CASE ReapNext \/ Crash
  BY <1>6, ReapRetires, CrashRetires DEF Environments!Next
<1>7. CASE Startup \/ ProxyRecreated
  BY <1>7, StartupRecovers, RecreatedLeaves DEF Environments!Next
<1>8. QED
  BY <1>1, <1>2, <1>3, <1>4, <1>5, <1>6, <1>7 DEF Next, Broker, World

(* The broker of broker.py keeps its promise to every attacker: each step   *)
(* of its coroutines, of Docker and of the proxy is one of the few steps of *)
(* AttackerEnvironments, or changes nothing an attacker could tell.         *)
THEOREM BrokerImplementsEnvironments == Spec => ImplementsEnvironments
  BY InitImplements, StepImplements, Invariance, PTL
     DEF Spec, ImplementsEnvironments, Environments!Spec

-----------------------------------------------------------------------------
(* Who moves when, for the invariants below.                                *)

(* A step of a request that holds the lock leaves every other task alone.   *)
LEMMA OthersStay ==
    ASSUME IndInv, NEW s \in Sessions, SessionStep(s)
    PROVE  /\ pc[s] \in LockedPc /\ src[s] \in SrcIps
           /\ \A r \in (Sessions \cup {Reaper}) \ {s} : pc[r] \notin LockedPc
           /\ \A r \in Tasks \ {s} : pc'[r] = pc[r] /\ src'[r] = src[r] /\ cid'[r] = cid[r]
           /\ deserted' \ {s} = deserted \ {s}
           /\ src'[s] \in {src[s], Nobody}
           /\ up' = up
<1> USE DEF IndInv, TypeOK
<1>1. pc[s] \in LockedPc
  BY DEF SessionStep, ReuseBackend, MakeRoom, EvictOldest, CheckFails, EnsureNetwork,
     EnsureNetworkFails, AdoptExisting, AdoptReplaces, AdoptFails, NothingToAdopt,
     CreateContainer, CreateFails, AttachProxy, AttachFails, ReplySession, ReplyFails,
     LockedPc, SessionPc
<1>2. src[s] \in SrcIps
  BY <1>1 DEF RequestInv, LockedPc
<1>3. \A r \in Tasks \ {s} : pc'[r] = pc[r] /\ src'[r] = src[r] /\ cid'[r] = cid[r]
  BY DEF SessionStep, ReuseBackend, MakeRoom, EvictOldest, BeginDestroy, CheckFails, EnsureNetwork, EnsureNetworkFails,
     AdoptExisting, AdoptReplaces, AdoptFails, NothingToAdopt, CreateContainer, CreateFails,
     AttachProxy, AttachFails, ReplySession, ReplyFails, Abort, Finish
<1>4. deserted' \ {s} = deserted \ {s} /\ src'[s] \in {src[s], Nobody} /\ up' = up
  BY DEF SessionStep, ReuseBackend, MakeRoom, EvictOldest, BeginDestroy, CheckFails, EnsureNetwork, EnsureNetworkFails,
     AdoptExisting, AdoptReplaces, AdoptFails, NothingToAdopt, CreateContainer, CreateFails,
     AttachProxy, AttachFails, ReplySession, ReplyFails, Abort, Finish
<1>5. QED
  BY <1>1, <1>2, <1>3, <1>4, Exclusion

(* A step of _destroy likewise.                                             *)
LEMMA OthersStayDestroy ==
    ASSUME IndInv, NEW t \in Sessions \cup {Reaper}, Destroying(t)
    PROVE  /\ pc[t] \in {"remove", "detach"}
           /\ \A r \in (Sessions \cup {Reaper}) \ {t} : pc[r] \notin LockedPc
           /\ \A r \in Tasks \ {t} : pc'[r] = pc[r] /\ src'[r] = src[r] /\ cid'[r] = cid[r]
           /\ pc'[t] \in {"detach", "sweep", "network", "idle", "dead"}
           /\ deserted' \ {t} = deserted \ {t}
           /\ src'[t] \in {src[t], Nobody}
           /\ up' = up /\ Tracked' = Tracked
<1> USE DEF IndInv, TypeOK
<1>1. pc[t] \in {"remove", "detach"} /\ up' = up /\ Tracked' = Tracked
  BY DEF Destroying, ForceRemove, RemoveFails, CollectFails, DetachProxy, Tracked
<1>2. /\ \A r \in Tasks \ {t} : pc'[r] = pc[r] /\ src'[r] = src[r] /\ cid'[r] = cid[r]
      /\ deserted' \ {t} = deserted \ {t}
      /\ src'[t] \in {src[t], Nobody}
      /\ pc'[t] \in {"detach", "sweep", "network", "idle", "dead"}
  BY DistinctAssumption DEF Destroying, ForceRemove, RemoveFails, CollectFails, DetachProxy, Destroyed, Abort, Finish
<1>3. QED
  BY <1>1, <1>2, Exclusion DEF LockedPc, SessionPc

(* The container that _destroy is removing is still the one its key names.  *)
RemoveInv ==
    \A t \in Sessions \cup {Reaper} : pc[t] = "remove" => entry[victim] = doomed

(* _destroy takes the id from the backend it pops, and nothing else touches *)
(* that key's container while it holds the lock.                            *)
LEMMA RemoveInvStep == IndInv /\ EntryInv /\ RemoveInv /\ [Next]_vars => RemoveInv'
<1> SUFFICES ASSUME IndInv, EntryInv, RemoveInv, [Next]_vars PROVE RemoveInv'
  OBVIOUS
<1> USE DEF IndInv, TypeOK
<1>1. ASSUME NEW s \in Sessions, EvictOldest(s) PROVE RemoveInv'
  <2> DEFINE rest == Pop(backends, src[s])
  <2>1. DOMAIN rest = Tracked \ {src[s]} /\ \A j \in DOMAIN rest : rest[j] = backends[j]
    BY PopDict DEF Tracked
  <2>2. PICK v \in DOMAIN rest : BeginDestroy(s, rest, v)
    BY <1>1 DEF EvictOldest, Oldest
  <2> HIDE DEF rest
  <2>3. /\ pc[s] = "check" /\ pc' = [pc EXCEPT ![s] = "remove"]
        /\ victim' = v /\ doomed' = entry[v] /\ entry' = entry
    BY <1>1, <2>1, <2>2 DEF EvictOldest, BeginDestroy, EntryInv
  <2>4. \A r \in (Sessions \cup {Reaper}) \ {s} : pc[r] # "remove"
    BY <2>3, Exclusion DEF LockedPc, SessionPc
  <2>5. QED
    BY <2>3, <2>4 DEF RemoveInv
<1>2. ASSUME NEW s \in Sessions, SessionStep(s), ~EvictOldest(s) PROVE RemoveInv'
  <2>1. pc'[s] # "remove"
    BY <1>2 DEF SessionStep, ReuseBackend, MakeRoom, CheckFails, EnsureNetwork,
       EnsureNetworkFails, AdoptExisting, AdoptReplaces, AdoptFails, NothingToAdopt,
       CreateContainer, CreateFails, AttachProxy, AttachFails, ReplySession, ReplyFails,
       Abort, Finish
  <2>2. QED
    BY <1>2, <2>1, OthersStay DEF RemoveInv, LockedPc, SessionPc
<1>3. ASSUME NEW s \in Sessions,
             AcquireSession(s) \/ ReleaseSession(s) \/ LoseRelease(s) \/ GiveUp(s)
      PROVE  RemoveInv'
  BY <1>3, DistinctAssumption DEF AcquireSession, ReleaseSession, LoseRelease, GiveUp, Finish,
     RemoveInv
<1>4. ASSUME NEW p \in Planters, PlantDecoys(p) \/ WriteFiles(p) \/ WriteFails(p)
      PROVE  RemoveInv'
  BY <1>4, DistinctAssumption DEF PlantDecoys, WriteFiles, WriteFails, Finish, RemoveInv
<1>5. ASSUME NEW t \in Sessions \cup {Reaper}, Destroying(t) PROVE RemoveInv'
  BY <1>5, OthersStayDestroy DEF RemoveInv, LockedPc, SessionPc
<1>6. CASE ReapNext
  <2>1. PICK v \in stale : BeginDestroy(Reaper, backends, v)
    BY <1>6 DEF ReapNext
  <2>2. /\ pc[Reaper] = "sweep" /\ pc' = [pc EXCEPT ![Reaper] = "remove"]
        /\ victim' = v /\ doomed' = entry[v] /\ entry' = entry
    BY <1>6, <2>1 DEF ReapNext, BeginDestroy, EntryInv, DestroyInv
  <2>3. \A r \in Sessions : pc[r] # "remove"
    BY <2>2, Exclusion, DistinctAssumption DEF LockedPc, SessionPc
  <2>4. QED
    BY <2>2, <2>3, DistinctAssumption DEF RemoveInv
<1>7. CASE ReaperWakes \/ ReaperLocks \/ ReaperSleeps
  BY <1>7, DistinctAssumption DEF ReaperWakes, ReaperLocks, ReaperSleeps, RemoveInv
<1>8. CASE Startup \/ Crash \/ ContainerDies \/ ProxyRecreated \/ Tick \/ UNCHANGED vars
  BY <1>8 DEF Startup, Crash, ContainerDies, ProxyRecreated, Tick, vars, RemoveInv
<1>9. QED
  BY <1>1, <1>2, <1>3, <1>4, <1>5, <1>6, <1>7, <1>8 DEF Next, Broker, World

-----------------------------------------------------------------------------
(* Bridged sessions and the proxy's attachments.                            *)

(* A request about to reply to a proxy that still waits has attached it,    *)
(* and a bridged session whose container still stands is still attached.    *)
RouteInv ==
    \A s \in Sessions :
        /\ pc[s] = "store" /\ s \notin deserted => src[s] \in attached \cap claimed
        /\ pc[s] = "open" /\ entry[src[s]] = cid[s] => src[s] \in attached \cap claimed

(* An attachment goes only when its container has gone, or with the proxy,  *)
(* and then no session is bridged and no reply is waited for.               *)
LEMMA RouteInvStep ==
    ASSUME "docker" \notin FaultKinds
    PROVE  IndInv /\ RouteInv /\ [Next]_vars => RouteInv'
<1> SUFFICES ASSUME IndInv, RouteInv, [Next]_vars PROVE RouteInv'
  OBVIOUS
<1> USE DEF IndInv, TypeOK, Fault
<1>1. ASSUME NEW s \in Sessions, SessionStep(s) PROVE RouteInv'
  <2>1. attached \subseteq attached' /\ claimed \subseteq claimed'
    BY <1>1 DEF SessionStep, ReuseBackend, MakeRoom, EvictOldest, BeginDestroy, CheckFails,
       EnsureNetwork, EnsureNetworkFails, AdoptExisting, AdoptReplaces, AdoptFails,
       NothingToAdopt, CreateContainer, CreateFails, AttachProxy, AttachFails, ReplySession,
       ReplyFails
  <2>2. ASSUME NEW r \in Sessions \ {s}, pc[r] = "open", entry'[src[r]] = cid[r]
        PROVE  entry[src[r]] = cid[r]
    <3>1. \/ entry' = entry
          \/ \E c \in UnusedIds : entry' = [entry EXCEPT ![src[s]] = c]
      BY <1>1 DEF SessionStep, ReuseBackend, MakeRoom, EvictOldest, BeginDestroy, CheckFails,
         EnsureNetwork, EnsureNetworkFails, AdoptExisting, AdoptReplaces, AdoptFails,
         NothingToAdopt, CreateContainer, CreateFails, AttachProxy, AttachFails, ReplySession,
         ReplyFails
    <3>2. cid[r] \notin UnusedIds /\ src[r] \in SrcIps
      BY <2>2, DistinctAssumption DEF RequestInv, UnusedIds
    <3>3. QED
      BY <2>2, <3>1, <3>2
  <2>3. pc'[s] = "store" => src[s] \in attached' \cap claimed' /\ src'[s] = src[s]
    BY <1>1 DEF SessionStep, ReuseBackend, MakeRoom, EvictOldest, BeginDestroy, CheckFails,
       EnsureNetwork, EnsureNetworkFails, AdoptExisting, AdoptReplaces, AdoptFails,
       NothingToAdopt, CreateContainer, CreateFails, AttachProxy, AttachFails, ReplySession,
       ReplyFails, Abort, Finish
  <2>4. pc'[s] = "open" => pc[s] = "store" /\ s \notin deserted /\ src'[s] = src[s]
    BY <1>1 DEF SessionStep, ReuseBackend, MakeRoom, EvictOldest, BeginDestroy, CheckFails,
       EnsureNetwork, EnsureNetworkFails, AdoptExisting, AdoptReplaces, AdoptFails,
       NothingToAdopt, CreateContainer, CreateFails, AttachProxy, AttachFails, ReplySession,
       ReplyFails, Abort, Finish
  <2>5. QED
    BY <1>1, <2>1, <2>2, <2>3, <2>4, OthersStay DEF RouteInv
<1>2. ASSUME NEW s \in Sessions,
             AcquireSession(s) \/ ReleaseSession(s) \/ LoseRelease(s) \/ GiveUp(s)
      PROVE  RouteInv'
  BY <1>2, DistinctAssumption DEF AcquireSession, ReleaseSession, LoseRelease, GiveUp, Finish,
     RouteInv
<1>3. ASSUME NEW p \in Planters, PlantDecoys(p) \/ WriteFiles(p) \/ WriteFails(p)
      PROVE  RouteInv'
  BY <1>3, DistinctAssumption DEF PlantDecoys, WriteFiles, WriteFails, Finish, RouteInv
<1>4. ASSUME NEW t \in Sessions \cup {Reaper}, Destroying(t) PROVE RouteInv'
  <2>1. pc'[t] \notin {"store", "open"}
    BY <1>4, OthersStayDestroy
  <2>2. \A r \in Sessions \ {t} : pc[r] # "store"
    BY <1>4, OthersStayDestroy DEF LockedPc, SessionPc
  <2>3. ASSUME NEW r \in Sessions \ {t}, pc[r] = "open", entry'[src[r]] = cid[r]
        PROVE  /\ entry[src[r]] = cid[r]
               /\ src[r] \in attached \cap claimed => src[r] \in attached' \cap claimed'
    BY <1>4, <2>3, DistinctAssumption DEF Destroying, ForceRemove, RemoveFails, CollectFails,
       DetachProxy, DestroyInv, RequestInv
  <2>4. QED
    BY <1>4, <2>1, <2>2, <2>3, OthersStayDestroy DEF RouteInv
<1>5. CASE ReaperWakes \/ ReaperLocks \/ ReapNext \/ ReaperSleeps
  BY <1>5, DistinctAssumption DEF ReaperWakes, ReaperLocks, ReapNext, BeginDestroy, ReaperSleeps,
     RouteInv
<1>6. CASE ProxyRecreated
  <2>1. \A r \in Sessions : pc'[r] # "open" /\ (pc'[r] = "store" => r \in deserted')
    BY <1>6 DEF ProxyRecreated
  <2>2. QED
    BY <2>1 DEF RouteInv
<1>7. CASE Crash
  <2>1. \A r \in Sessions :
          /\ pc'[r] # "store"
          /\ pc'[r] = "open" => pc[r] = "open" /\ src'[r] = src[r] /\ cid'[r] = cid[r]
    BY <1>7 DEF Crash
  <2>2. UNCHANGED <<entry, attached, claimed>>
    BY <1>7 DEF Crash
  <2>3. QED
    BY <2>1, <2>2 DEF RouteInv
<1>8. CASE Startup \/ ContainerDies \/ Tick \/ UNCHANGED vars
  BY <1>8 DEF Startup, ContainerDies, Tick, vars, RouteInv
<1>9. QED
  BY <1>1, <1>2, <1>3, <1>4, <1>5, <1>6, <1>7, <1>8 DEF Next, Broker, World

-----------------------------------------------------------------------------
(* Networks and standing containers are somebody's.                         *)

(* The requests that may have a network or a container without a backend.   *)
Building == {"network", "adopt", "run", "attach", "store"}

(* A request is building the environment of k, or it is being destroyed.    *)
InWork(k) ==
    \/ \E s \in Sessions : pc[s] \in Building /\ src[s] = k
    \/ \E t \in Sessions \cup {Reaper} : pc[t] \in {"remove", "detach"} /\ victim = k

(* Until something fails, what Docker holds is tracked or in work, and runs *)
(* for as long as it is tracked.                                            *)
FreshInv ==
    faults = 0 =>
        /\ up
        /\ \A k \in SrcIps : subnet[k] # Nobody => k \in Tracked \/ InWork(k)
        /\ \A k \in Tracked : entry[k] \in running
        /\ \A s \in Sessions : pc[s] \in {"attach", "store"} => cid[s] \in running
        /\ \A s \in Sessions : pc[s] = "run" => entry[src[s]] = Nobody

(* A fault is counted.                                                      *)
LEMMA FaultsGrow == IndInv /\ [Next]_vars => faults' \in {faults, faults + 1}
<1> SUFFICES ASSUME IndInv, [Next]_vars PROVE faults' \in {faults, faults + 1}
  OBVIOUS
<1> USE DEF Fault
<1>1. ASSUME NEW s \in Sessions, AcquireSession(s) \/ SessionStep(s) \/ ReleaseSession(s)
                                   \/ LoseRelease(s) \/ GiveUp(s)
      PROVE  faults' \in {faults, faults + 1}
  BY <1>1 DEF SessionStep, AcquireSession, ReuseBackend, NeedsContainer, MakeRoom, EvictOldest,
     CheckFails, EnsureNetwork, EnsureNetworkFails, AdoptExisting, AdoptReplaces, AdoptFails,
     NothingToAdopt, CreateContainer, CreateFails, AttachProxy, AttachFails, ReplySession,
     ReplyFails, ReleaseSession, LoseRelease, GiveUp
<1>2. ASSUME NEW p \in Planters, PlantDecoys(p) \/ WriteFiles(p) \/ WriteFails(p)
      PROVE  faults' \in {faults, faults + 1}
  BY <1>2 DEF PlantDecoys, WriteFiles, WriteFails
<1>3. ASSUME NEW t \in Sessions \cup {Reaper}, Destroying(t)
      PROVE  faults' \in {faults, faults + 1}
  BY <1>3 DEF Destroying, ForceRemove, RemoveFails, CollectFails, DetachProxy
<1>4. CASE ReaperWakes \/ ReaperLocks \/ ReapNext \/ ReaperSleeps
  BY <1>4 DEF ReaperWakes, ReaperLocks, ReapNext, ReaperSleeps
<1>5. CASE Startup \/ Crash \/ ContainerDies \/ ProxyRecreated \/ Tick \/ UNCHANGED vars
  BY <1>5 DEF Startup, Crash, ContainerDies, ProxyRecreated, Tick, vars
<1>6. QED
  BY <1>1, <1>2, <1>3, <1>4, <1>5 DEF Next, Broker, World

(* What a request that holds the lock may count on.                         *)
LEMMA FreshSession ==
    ASSUME IndInv, EntryInv, FreshInv, faults = 0, faults' = 0,
           NEW s \in Sessions, SessionStep(s)
    PROVE  FreshInv'
<1> USE DEF IndInv, TypeOK, Fault
<1>1. /\ pc[s] \in LockedPc /\ src[s] \in SrcIps
      /\ \A r \in (Sessions \cup {Reaper}) \ {s} : pc[r] \notin LockedPc
      /\ \A r \in Tasks \ {s} : pc'[r] = pc[r] /\ src'[r] = src[r] /\ cid'[r] = cid[r]
      /\ up' = up
  BY OthersStay
<1>2. /\ up
      /\ \A k \in SrcIps : subnet[k] # Nobody => k \in Tracked \/ InWork(k)
      /\ \A k \in Tracked : entry[k] \in running
      /\ pc[s] \in {"attach", "store"} => cid[s] \in running
      /\ pc[s] = "run" => entry[src[s]] = Nobody
  BY DEF FreshInv
<1>3. \A k \in SrcIps : InWork(k) => \/ pc[s] \in Building /\ src[s] = k
                                     \/ pc[s] \in {"remove", "detach"} /\ victim = k
  <2>1. Building \cup {"remove", "detach"} \subseteq LockedPc
    BY DEF Building, LockedPc, SessionPc
  <2>2. QED
    BY <1>1, <2>1 DEF InWork
<1> DEFINE Owned == \A k \in SrcIps : subnet'[k] # Nobody => k \in Tracked' \/ InWork(k)'
           Runs  == \A k \in Tracked' : entry'[k] \in running'
           Mine  == /\ pc'[s] \in {"attach", "store"} => cid'[s] \in running'
                    /\ pc'[s] = "run" => entry'[src'[s]] = Nobody
<1>4. SUFFICES Owned /\ Runs /\ Mine
  <2>1. \A r \in Sessions \ {s} : pc'[r] \notin {"attach", "store", "run"}
    BY <1>1 DEF LockedPc, SessionPc
  <2>2. QED
    BY <1>1, <1>2, <2>1 DEF FreshInv
<1>5. pc'[s] \in Building => \A k \in SrcIps : src'[s] = k => InWork(k)'
  BY DEF InWork
<1>6. CASE ReuseBackend(s)
  <2>1. Tracked' = Tracked /\ UNCHANGED <<entry, running, subnet>>
    BY <1>6, TouchDict DEF ReuseBackend, Tracked
  <2>2. pc[s] = "check" /\ pc'[s] = "network"
    BY <1>6 DEF ReuseBackend
  <2>3. QED
    BY <1>2, <1>3, <2>1, <2>2 DEF Building
<1>7. CASE MakeRoom(s)
  <2>1. Tracked' = Tracked \ {src[s]} /\ UNCHANGED <<entry, running, subnet, src>>
    BY <1>7, PopDict DEF MakeRoom, Tracked
  <2>2. pc[s] = "check" /\ pc'[s] = "network"
    BY <1>7 DEF MakeRoom
  <2>3. QED
    BY <1>1, <1>2, <1>3, <1>5, <2>1, <2>2 DEF Building
<1>8. CASE EvictOldest(s)
  <2> DEFINE rest == Pop(backends, src[s])
  <2>1. Dict(rest) /\ DOMAIN rest = Tracked \ {src[s]}
    BY PopDict DEF Tracked
  <2>2. PICK v \in DOMAIN rest : BeginDestroy(s, rest, v)
    BY <1>8 DEF EvictOldest, Oldest
  <2> HIDE DEF rest
  <2>3. Tracked' = Tracked \ {src[s], v}
    <3>1. DOMAIN Pop(rest, v) = DOMAIN rest \ {v}
      BY <2>1, PopDict
    <3>2. QED
      BY <2>1, <2>2, <3>1 DEF BeginDestroy, Tracked
  <2>4. src[s] \notin Tracked
    BY <1>2, <1>8 DEF EvictOldest, NeedsContainer, Alive, EntryInv
  <2>5. /\ pc[s] = "check" /\ pc'[s] = "remove" /\ victim' = v
        /\ UNCHANGED <<entry, running, subnet>>
    BY <1>8, <2>2 DEF EvictOldest, BeginDestroy
  <2>6. InWork(v)'
    BY <2>5 DEF InWork
  <2>7. QED
    BY <1>2, <1>3, <2>3, <2>4, <2>5, <2>6 DEF Building
<1>9. CASE EnsureNetwork(s)
  <2>1. pc[s] = "network" /\ pc'[s] \in {"attach", "adopt"} /\ UNCHANGED <<backends, entry, running, src, cid>>
    BY <1>9 DEF EnsureNetwork
  <2>2. \A k \in SrcIps \ {src[s]} : subnet'[k] = subnet[k]
    BY <1>9 DEF EnsureNetwork
  <2>3. pc'[s] = "attach" => src[s] \in Tracked /\ cid[s] = entry[src[s]]
    BY <1>9 DEF EnsureNetwork, RequestInv, EntryInv
  <2>4. QED
    BY <1>1, <1>2, <1>3, <1>5, <2>1, <2>2, <2>3 DEF Building, Tracked
<1>10. CASE EnsureNetworkFails(s)
  <2>1. /\ pc[s] = "network" /\ pc'[s] = "idle" /\ subnet[src[s]] = Nobody
        /\ UNCHANGED <<backends, entry, running, subnet>>
    BY <1>10 DEF EnsureNetworkFails, Abort, Finish
  <2>2. QED
    BY <1>2, <1>3, <2>1 DEF Tracked
<1>11. CASE AdoptExisting(s)
  <2>1. /\ pc[s] = "adopt" /\ pc'[s] = "attach"
        /\ running \subseteq running' /\ cid'[s] \in running'
        /\ UNCHANGED <<backends, entry, subnet, src>>
    BY <1>11 DEF AdoptExisting
  <2>2. QED
    BY <1>1, <1>2, <1>3, <1>5, <2>1 DEF Building, Tracked
<1>12. CASE NothingToAdopt(s)
  <2>1. /\ pc[s] = "adopt" /\ pc'[s] = "run" /\ entry[src[s]] = Nobody
        /\ UNCHANGED <<backends, entry, running, subnet, src>>
    BY <1>12 DEF NothingToAdopt
  <2>2. QED
    BY <1>1, <1>2, <1>3, <1>5, <2>1 DEF Building, Tracked
<1>13. CASE CreateContainer(s)
  <2>1. /\ pc[s] = "run" /\ pc'[s] = "attach" /\ src[s] \notin Tracked
        /\ running \subseteq running' /\ cid'[s] \in running'
        /\ \A k \in SrcIps \ {src[s]} : entry'[k] = entry[k]
        /\ UNCHANGED <<backends, subnet, src>>
    BY <1>13 DEF CreateContainer, UnusedIds, RequestInv
  <2>2. Tracked \subseteq SrcIps
    BY TrackedEntries
  <2>3. QED
    BY <1>1, <1>2, <1>3, <1>5, <2>1, <2>2 DEF Building, Tracked
<1>14. CASE AttachProxy(s)
  <2>1. /\ pc[s] = "attach" /\ pc'[s] = "store"
        /\ UNCHANGED <<backends, entry, running, subnet, src, cid>>
    BY <1>14 DEF AttachProxy
  <2>2. QED
    BY <1>1, <1>2, <1>3, <1>5, <2>1 DEF Building, Tracked
<1>15. CASE ReplySession(s)
  <2>1. /\ pc[s] = "store" /\ pc'[s] \in {"idle", "open"}
        /\ UNCHANGED <<entry, running, subnet>>
    BY <1>15 DEF ReplySession, Finish
  <2>2. Tracked' = Tracked \cup {src[s]}
    BY <1>15 DEF ReplySession, Tracked, Store
  <2>3. entry[src[s]] = cid[s]
    BY <2>1 DEF EntryInv
  <2>4. QED
    BY <1>2, <1>3, <2>1, <2>2, <2>3 DEF Building
<1>16. CASE CheckFails(s) \/ AdoptReplaces(s) \/ AdoptFails(s) \/ AttachFails(s) \/ ReplyFails(s)
  BY <1>16 DEF CheckFails, AdoptReplaces, AdoptFails, AttachFails, ReplyFails
<1>17. CASE CreateFails(s)
  BY <1>2, <1>17 DEF CreateFails
<1>18. QED
  BY <1>6, <1>7, <1>8, <1>9, <1>10, <1>11, <1>12, <1>13, <1>14, <1>15, <1>16, <1>17
     DEF SessionStep

(* Without a fault _destroy removes the container and then its network.     *)
LEMMA FreshDestroy ==
    ASSUME IndInv, EntryInv, RemoveInv, FreshInv, faults = 0, faults' = 0,
           NEW t \in Sessions \cup {Reaper}, Destroying(t)
    PROVE  FreshInv'
<1> USE DEF IndInv, TypeOK, Fault
<1>1. /\ pc[t] \in {"remove", "detach"} /\ victim \in SrcIps \ Tracked
      /\ \A r \in (Sessions \cup {Reaper}) \ {t} : pc[r] \notin LockedPc
      /\ \A r \in Tasks \ {t} : pc'[r] = pc[r] /\ src'[r] = src[r] /\ cid'[r] = cid[r]
      /\ pc'[t] \in {"detach", "sweep", "network", "idle", "dead"}
      /\ up' = up /\ Tracked' = Tracked
  BY OthersStayDestroy DEF DestroyInv
<1>2. /\ up
      /\ \A k \in SrcIps : subnet[k] # Nobody => k \in Tracked \/ InWork(k)
      /\ \A k \in Tracked : entry[k] \in running
  BY DEF FreshInv
<1>3. \A k \in SrcIps : InWork(k) => victim = k
  BY <1>1 DEF InWork, Building, LockedPc, SessionPc
<1>4. \A r \in Sessions : pc'[r] \notin {"attach", "store", "run"}
  BY <1>1 DEF LockedPc, SessionPc
<1>5. CASE ForceRemove(t)
  <2>1. /\ pc[t] = "remove" /\ pc'[t] = "detach"
        /\ entry' = [entry EXCEPT ![victim] = Nobody] /\ running' = running \ {doomed}
        /\ entry[victim] = doomed /\ UNCHANGED <<subnet, victim>>
    BY <1>5 DEF ForceRemove
  <2>2. \A k \in Tracked : entry[k] # doomed
    <3>1. Tracked \subseteq SrcIps
      BY TrackedEntries
    <3>2. doomed # Nobody
      BY <1>1, DistinctAssumption DEF DestroyInv
    <3>3. QED
      BY <1>1, <2>1, <3>1, <3>2 DEF DockerInv
  <2>3. \A k \in Tracked : entry'[k] \in running'
    BY <1>1, <1>2, <2>1, <2>2, TrackedEntries
  <2>4. InWork(victim)'
    BY <2>1 DEF InWork
  <2>5. QED
    BY <1>1, <1>2, <1>3, <1>4, <2>1, <2>3, <2>4 DEF FreshInv
<1>6. CASE DetachProxy(t)
  <2>1. subnet' = [subnet EXCEPT ![victim] = Nobody] /\ UNCHANGED <<entry, running>>
    BY <1>6 DEF DetachProxy
  <2>2. QED
    BY <1>1, <1>2, <1>3, <1>4, <2>1 DEF FreshInv
<1>7. CASE RemoveFails(t) \/ CollectFails(t)
  BY <1>7 DEF RemoveFails, CollectFails, RemoveInv
<1>8. QED
  BY <1>5, <1>6, <1>7 DEF Destroying

(* Every step but a fault keeps what Docker holds in somebody's hands.      *)
LEMMA FreshInvStep ==
    IndInv /\ EntryInv /\ RemoveInv /\ FreshInv /\ [Next]_vars => FreshInv'
<1> SUFFICES ASSUME IndInv, EntryInv, RemoveInv, FreshInv, [Next]_vars, faults' = 0
             PROVE  FreshInv'
  BY DEF FreshInv
<1> USE DEF IndInv, TypeOK, Fault
<1>1. faults = 0
  BY FaultsGrow
<1>2. ASSUME Tracked' = Tracked, UNCHANGED <<entry, running, subnet, up, victim>>,
             \A s \in Sessions : pc'[s] \in Building <=> pc[s] \in Building,
             \A s \in Sessions : pc[s] \in Building =>
                pc'[s] = pc[s] /\ src'[s] = src[s] /\ cid'[s] = cid[s],
             \A t \in Sessions \cup {Reaper} :
                pc[t] \in {"remove", "detach"} => pc'[t] = pc[t]
      PROVE  FreshInv'
  <2>1. \A k \in SrcIps : InWork(k) => InWork(k)'
    BY <1>2 DEF InWork
  <2>2. \A s \in Sessions : pc'[s] \in {"attach", "store", "run"} =>
           pc'[s] = pc[s] /\ src'[s] = src[s] /\ cid'[s] = cid[s]
    BY <1>2 DEF Building
  <2>3. QED
    BY <1>1, <1>2, <2>1, <2>2 DEF FreshInv
<1>3. ASSUME NEW s \in Sessions, SessionStep(s) PROVE FreshInv'
  BY <1>1, <1>3, FreshSession
<1>4. ASSUME NEW s \in Sessions, AcquireSession(s) \/ ReleaseSession(s) \/ LoseRelease(s)
      PROVE  FreshInv'
  <2>1. Tracked' = Tracked
    BY <1>4, TouchDict DEF AcquireSession, ReleaseSession, LoseRelease, Tracked
  <2>2. QED
    BY <1>2, <1>4, <2>1, DistinctAssumption
       DEF AcquireSession, ReleaseSession, LoseRelease, Finish, Building
<1>5. ASSUME NEW p \in Planters, PlantDecoys(p) \/ WriteFiles(p) \/ WriteFails(p)
      PROVE  FreshInv'
  <2>1. Tracked' = Tracked
    BY <1>5, TouchDict DEF PlantDecoys, WriteFiles, WriteFails, Tracked
  <2>2. QED
    BY <1>2, <1>5, <2>1, DistinctAssumption
       DEF PlantDecoys, WriteFiles, WriteFails, Finish, Building
<1>6. ASSUME NEW t \in Sessions \cup {Reaper}, Destroying(t) PROVE FreshInv'
  BY <1>1, <1>6, FreshDestroy
<1>7. CASE ReaperWakes \/ ReaperLocks \/ ReaperSleeps
  BY <1>2, <1>7, DistinctAssumption DEF ReaperWakes, ReaperLocks, ReaperSleeps, Tracked, Building
<1>8. CASE ReapNext
  <2>1. PICK v \in stale : BeginDestroy(Reaper, backends, v)
    BY <1>8 DEF ReapNext
  <2>2. /\ Tracked' = Tracked \ {v} /\ pc[Reaper] = "sweep"
        /\ pc' = [pc EXCEPT ![Reaper] = "remove"]
        /\ victim' = v /\ UNCHANGED <<entry, running, subnet, up, src, cid>>
    BY <1>8, <2>1, PopDict DEF ReapNext, BeginDestroy, Tracked
  <2>3. \A k \in SrcIps : ~InWork(k)
    BY <2>2, Exclusion, DistinctAssumption DEF InWork, Building, LockedPc, SessionPc
  <2>4. InWork(v)' /\ v \in SrcIps
    BY <1>8, <2>2 DEF InWork
  <2>5. \A s \in Sessions : pc'[s] \notin {"attach", "store", "run"}
    BY <2>2, Exclusion, DistinctAssumption DEF LockedPc, SessionPc
  <2>6. QED
    BY <1>1, <2>2, <2>3, <2>4, <2>5 DEF FreshInv
<1>9. CASE Tick \/ UNCHANGED vars
  BY <1>2, <1>9 DEF Tick, vars, Tracked, Building
<1>10. CASE Crash \/ ContainerDies \/ ProxyRecreated \/ \E s \in Sessions : GiveUp(s)
  BY <1>1, <1>10 DEF Crash, ContainerDies, ProxyRecreated, GiveUp
<1>11. ~Startup
  BY <1>1 DEF Startup, FreshInv
<1>12. QED
  BY <1>3, <1>4, <1>5, <1>6, <1>7, <1>8, <1>9, <1>10, <1>11 DEF Next, Broker, World

-----------------------------------------------------------------------------
(* The ceiling.                                                             *)

Standing == {k \in SrcIps : entry[k] # Nobody}

(* Every container that stands is tracked or in work, and a request builds  *)
(* one more only after it has found room for it in the dict.                *)
CeilingInv ==
    /\ Cardinality(Standing) <= MaxContainers
    /\ up => \A k \in Standing : k \in Tracked \/ InWork(k)
    /\ \A s \in Sessions :
         /\ pc[s] \in Building /\ src[s] \notin Tracked => Cardinality(Tracked) < MaxContainers
         /\ pc[s] = "run" => entry[src[s]] = Nobody

(* The keys are finitely many, and so are those with a container.           *)
LEMMA FiniteStanding ==
    ASSUME NEW S \in SUBSET SrcIps
    PROVE  /\ IsFiniteSet(S) /\ Cardinality(S) \in Nat
           /\ \A k \in SrcIps \ S : Cardinality(S \cup {k}) = Cardinality(S) + 1
           /\ \A R \in SUBSET S : Cardinality(R) \in Nat /\ Cardinality(R) <= Cardinality(S)
<1>1. IsFiniteSet(S)
  BY FS_Subset, ConstantsAssumption
<1>2. Cardinality(S) \in Nat
  BY <1>1, FS_CardinalityType
<1>3. \A k \in SrcIps \ S : Cardinality(S \cup {k}) = Cardinality(S) + 1
  BY <1>1, FS_AddElement
<1>4. ASSUME NEW R \in SUBSET S
      PROVE  Cardinality(R) \in Nat /\ Cardinality(R) <= Cardinality(S)
  BY <1>1, <1>4, FS_Subset, FS_CardinalityType
<1>5. QED
  BY <1>1, <1>2, <1>3, <1>4

(* A request that holds the lock makes room before it builds.               *)
LEMMA CeilingSession ==
    ASSUME "docker" \notin FaultKinds, "wedge" \notin FaultKinds,
           IndInv, EntryInv, CeilingInv, NEW s \in Sessions, SessionStep(s)
    PROVE  CeilingInv'
<1> USE DEF IndInv, TypeOK, Fault
<1>1. /\ pc[s] \in LockedPc /\ src[s] \in SrcIps
      /\ \A r \in (Sessions \cup {Reaper}) \ {s} : pc[r] \notin LockedPc
      /\ \A r \in Tasks \ {s} : pc'[r] = pc[r] /\ src'[r] = src[r] /\ cid'[r] = cid[r]
      /\ up' = up
  BY OthersStay
<1>2. /\ Cardinality(Standing) <= MaxContainers
      /\ Cardinality(Standing) \in Nat /\ Cardinality(Tracked) \in Nat
      /\ Tracked \subseteq Standing
      /\ MaxContainers \in Nat
  <2>1. Tracked \subseteq Standing
    BY TrackedEntries, DistinctAssumption DEF EntryInv, Standing
  <2>2. QED
    BY <2>1, FiniteStanding, ConstantsAssumption DEF CeilingInv, Standing
<1>3. up
  BY <1>1, DistinctAssumption DEF Locking, LockedPc
<1>4. \A k \in Standing : \/ k \in Tracked
                          \/ pc[s] \in Building /\ src[s] = k
                          \/ pc[s] \in {"remove", "detach"} /\ victim = k
  <2>1. Building \cup {"remove", "detach"} \subseteq LockedPc
    BY DEF Building, LockedPc, SessionPc
  <2>2. QED
    BY <1>1, <1>3, <2>1 DEF InWork, CeilingInv
<1>5. /\ pc[s] \in Building /\ src[s] \notin Tracked => Cardinality(Tracked) < MaxContainers
      /\ pc[s] = "run" => entry[src[s]] = Nobody
  BY DEF CeilingInv
<1> DEFINE Bounded == Cardinality(Standing') <= MaxContainers
           Owned   == \A k \in Standing' : k \in Tracked' \/ InWork(k)'
           Room    == pc'[s] \in Building /\ src'[s] \notin Tracked' =>
                        Cardinality(Tracked') < MaxContainers
           Mine    == pc'[s] = "run" => entry'[src'[s]] = Nobody
<1>6. SUFFICES Bounded /\ Owned /\ Room /\ Mine
  <2>1. \A r \in Sessions \ {s} : pc'[r] \notin Building /\ pc'[r] # "run"
    BY <1>1 DEF LockedPc, SessionPc, Building
  <2>2. QED
    BY <2>1 DEF CeilingInv
<1>7. pc'[s] \in Building => \A k \in SrcIps : src'[s] = k => InWork(k)'
  BY DEF InWork
<1>8. CASE ReuseBackend(s)
  <2>1. Tracked' = Tracked /\ UNCHANGED <<entry, src>>
    BY <1>8, TouchDict DEF ReuseBackend, Tracked
  <2>2. pc[s] = "check" /\ pc'[s] = "network" /\ src[s] \in Tracked
    BY <1>8 DEF ReuseBackend
  <2>3. QED
    BY <1>2, <1>4, <2>1, <2>2 DEF Building, Standing
<1>9. CASE MakeRoom(s)
  <2>1. Tracked' = Tracked \ {src[s]} /\ UNCHANGED <<entry, src>>
    BY <1>9, PopDict DEF MakeRoom, Tracked
  <2>2. pc[s] = "check" /\ pc'[s] = "network" /\ Cardinality(Tracked') < MaxContainers
    BY <1>9, <2>1 DEF MakeRoom
  <2>3. QED
    BY <1>1, <1>2, <1>4, <1>7, <2>1, <2>2 DEF Building, Standing
<1>10. CASE EvictOldest(s)
  <2> DEFINE rest == Pop(backends, src[s])
  <2>1. Dict(rest) /\ DOMAIN rest = Tracked \ {src[s]}
    BY PopDict DEF Tracked
  <2>2. PICK v \in DOMAIN rest : BeginDestroy(s, rest, v)
    BY <1>10 DEF EvictOldest, Oldest
  <2> HIDE DEF rest
  <2>3. Tracked' = Tracked \ {src[s], v}
    <3>1. DOMAIN Pop(rest, v) = DOMAIN rest \ {v}
      BY <2>1, PopDict
    <3>2. QED
      BY <2>1, <2>2, <3>1 DEF BeginDestroy, Tracked
  <2>4. src[s] \notin Tracked
    <3>1. SUFFICES ASSUME src[s] \in Tracked PROVE FALSE
      OBVIOUS
    <3>2. Cardinality(Tracked \ {src[s]}) >= MaxContainers
      BY <1>10 DEF EvictOldest
    <3>3. Tracked = (Tracked \ {src[s]}) \cup {src[s]} /\ Tracked \ {src[s]} \in SUBSET SrcIps
      BY <3>1, TrackedEntries
    <3>4. Cardinality(Tracked) = Cardinality(Tracked \ {src[s]}) + 1
      BY <1>1, <3>3, FiniteStanding
    <3>5. Cardinality(Tracked) <= Cardinality(Standing)
      BY <1>2, FiniteStanding DEF Standing
    <3>6. Cardinality(Tracked \ {src[s]}) \in Nat
      BY <3>3, FiniteStanding
    <3>7. QED
      BY <1>2, <3>2, <3>4, <3>5, <3>6
  <2>5. /\ pc[s] = "check" /\ pc'[s] = "remove" /\ victim' = v /\ entry' = entry
    BY <1>10, <2>2 DEF EvictOldest, BeginDestroy
  <2>6. InWork(v)'
    BY <2>5 DEF InWork
  <2>7. QED
    BY <1>2, <1>4, <2>3, <2>4, <2>5, <2>6 DEF Building, Standing
<1>11. CASE EnsureNetwork(s)
  <2>1. pc[s] = "network" /\ pc'[s] \in {"attach", "adopt"} /\ UNCHANGED <<backends, entry, src>>
    BY <1>11 DEF EnsureNetwork
  <2>2. QED
    BY <1>1, <1>2, <1>4, <1>5, <1>7, <2>1 DEF Building, Tracked, Standing
<1>12. CASE EnsureNetworkFails(s)
  <2>1. /\ pc[s] = "network" /\ pc'[s] = "idle" /\ subnet[src[s]] = Nobody
        /\ UNCHANGED <<backends, entry>>
    BY <1>12 DEF EnsureNetworkFails, Abort, Finish
  <2>2. src[s] \notin Standing
    BY <1>1, <2>1 DEF DockerInv, Standing
  <2>3. QED
    BY <1>2, <1>4, <2>1, <2>2 DEF Tracked, Standing, Building
<1>13. CASE AdoptExisting(s)
  <2>1. pc[s] = "adopt" /\ pc'[s] = "attach" /\ UNCHANGED <<backends, entry, src>>
    BY <1>13 DEF AdoptExisting
  <2>2. QED
    BY <1>1, <1>2, <1>4, <1>5, <1>7, <2>1 DEF Building, Tracked, Standing
<1>14. CASE NothingToAdopt(s)
  <2>1. /\ pc[s] = "adopt" /\ pc'[s] = "run" /\ entry[src[s]] = Nobody
        /\ UNCHANGED <<backends, entry, src>>
    BY <1>14 DEF NothingToAdopt
  <2>2. QED
    BY <1>1, <1>2, <1>4, <1>5, <1>7, <2>1 DEF Building, Tracked, Standing
<1>15. CASE CreateContainer(s)
  <2>1. /\ pc[s] = "run" /\ pc'[s] = "attach" /\ src[s] \notin Tracked /\ entry[src[s]] = Nobody
        /\ \A k \in SrcIps \ {src[s]} : entry'[k] = entry[k]
        /\ UNCHANGED <<backends, src>>
    BY <1>15 DEF CreateContainer, UnusedIds, RequestInv
  <2>2. Standing' \subseteq Tracked \cup {src[s]}
    BY <1>4, <2>1 DEF Standing, Building
  <2>3. Cardinality(Tracked \cup {src[s]}) = Cardinality(Tracked) + 1
    BY <1>1, <2>1, TrackedEntries, FiniteStanding
  <2>4. Tracked \cup {src[s]} \in SUBSET SrcIps
    BY <1>1, TrackedEntries
  <2>5. /\ Cardinality(Standing') <= Cardinality(Tracked \cup {src[s]})
        /\ Cardinality(Standing') \in Nat
    BY <2>2, <2>4, FiniteStanding
  <2>6. Cardinality(Tracked) < MaxContainers
    BY <1>5, <2>1 DEF Building
  <2>7. QED
    BY <1>1, <1>2, <1>7, <2>1, <2>2, <2>3, <2>5, <2>6 DEF Building, Tracked
<1>16. CASE AttachProxy(s)
  <2>1. pc[s] = "attach" /\ pc'[s] = "store" /\ UNCHANGED <<backends, entry, src>>
    BY <1>16 DEF AttachProxy
  <2>2. QED
    BY <1>1, <1>2, <1>4, <1>5, <1>7, <2>1 DEF Building, Tracked, Standing
<1>17. CASE ReplySession(s)
  <2>1. pc[s] = "store" /\ pc'[s] \in {"idle", "open"} /\ UNCHANGED entry
    BY <1>17 DEF ReplySession, Finish
  <2>2. Tracked' = Tracked \cup {src[s]}
    BY <1>17 DEF ReplySession, Tracked, Store
  <2>3. QED
    BY <1>2, <1>4, <2>1, <2>2 DEF Building, Standing
<1>18. CASE CheckFails(s) \/ AdoptReplaces(s) \/ AdoptFails(s) \/ AttachFails(s) \/ ReplyFails(s)
  BY <1>18 DEF CheckFails, AdoptReplaces, AdoptFails, AttachFails, ReplyFails
<1>19. CASE CreateFails(s)
  BY <1>5, <1>19 DEF CreateFails
<1>20. QED
  BY <1>8, <1>9, <1>10, <1>11, <1>12, <1>13, <1>14, <1>15, <1>16, <1>17, <1>18, <1>19
     DEF SessionStep

(* The caller of _destroy goes on to build only if there is room.           *)
LEMMA CeilingDestroy ==
    ASSUME "docker" \notin FaultKinds, "wedge" \notin FaultKinds,
           IndInv, EntryInv, RemoveInv, CeilingInv,
           NEW t \in Sessions \cup {Reaper}, Destroying(t)
    PROVE  CeilingInv'
<1> USE DEF IndInv, TypeOK, Fault
<1>1. /\ pc[t] \in {"remove", "detach"} /\ victim \in SrcIps \ Tracked
      /\ \A r \in (Sessions \cup {Reaper}) \ {t} : pc[r] \notin LockedPc
      /\ \A r \in Tasks \ {t} : pc'[r] = pc[r] /\ src'[r] = src[r] /\ cid'[r] = cid[r]
      /\ pc'[t] \in {"detach", "sweep", "network", "idle", "dead"}
      /\ up' = up /\ Tracked' = Tracked
  BY OthersStayDestroy DEF DestroyInv
<1>2. /\ Cardinality(Standing) <= MaxContainers /\ Cardinality(Standing) \in Nat
      /\ MaxContainers \in Nat
  BY FiniteStanding, ConstantsAssumption DEF CeilingInv, Standing
<1>3. \A k \in Standing : up => k \in Tracked \/ victim = k
  <2>1. Building \cup {"remove", "detach"} \subseteq LockedPc
    BY DEF Building, LockedPc, SessionPc
  <2>2. \A k \in SrcIps : InWork(k) => victim = k
    BY <1>1, <2>1 DEF InWork, Building
  <2>3. QED
    BY <2>2 DEF CeilingInv, Standing
<1>4. \A r \in Sessions \ {t} : pc'[r] \notin Building /\ pc'[r] # "run"
  BY <1>1 DEF LockedPc, SessionPc, Building
<1>5. CASE ForceRemove(t)
  <2>1. /\ pc'[t] = "detach" /\ entry' = [entry EXCEPT ![victim] = Nobody]
    BY <1>5 DEF ForceRemove
  <2>2. Standing' = Standing \ {victim}
    BY <1>1, <2>1 DEF Standing
  <2>3. Cardinality(Standing') \in Nat /\ Cardinality(Standing') <= Cardinality(Standing)
    BY <2>2, FiniteStanding DEF Standing
  <2>4. QED
    BY <1>1, <1>2, <1>3, <1>4, <2>1, <2>2, <2>3 DEF CeilingInv, Building
<1>6. CASE DetachProxy(t)
  <2>1. pc[t] = "detach" /\ entry' = entry /\ victim \notin Standing
    BY <1>6 DEF DetachProxy, DestroyInv, Standing
  <2>2. pc'[t] = "network" /\ t \in Sessions => Cardinality(Tracked) < MaxContainers
    BY <1>6, DistinctAssumption DEF DetachProxy, Destroyed, Abort, Finish
  <2>3. t \in Sessions => pc'[t] # "run"
    BY <1>1
  <2>4. QED
    BY <1>1, <1>2, <1>3, <1>4, <2>1, <2>2, <2>3 DEF CeilingInv, Building, Standing
<1>7. CASE RemoveFails(t) \/ CollectFails(t)
  BY <1>7 DEF RemoveFails, CollectFails, RemoveInv
<1>8. QED
  BY <1>5, <1>6, <1>7 DEF Destroying

(* A crash leaves what stands in Docker's hands; _reconcile tracks it all.  *)
LEMMA CeilingInvStep ==
    ASSUME "docker" \notin FaultKinds, "wedge" \notin FaultKinds
    PROVE  IndInv /\ EntryInv /\ RemoveInv /\ CeilingInv /\ [Next]_vars => CeilingInv'
<1> SUFFICES ASSUME IndInv, EntryInv, RemoveInv, CeilingInv, [Next]_vars PROVE CeilingInv'
  OBVIOUS
<1> USE DEF IndInv, TypeOK, Fault
<1>1. ASSUME Tracked' = Tracked, UNCHANGED <<entry, up, victim>>,
             \A s \in Sessions : pc'[s] \in Building <=> pc[s] \in Building,
             \A s \in Sessions : pc[s] \in Building => pc'[s] = pc[s] /\ src'[s] = src[s],
             \A t \in Sessions \cup {Reaper} :
                pc[t] \in {"remove", "detach"} => pc'[t] = pc[t]
      PROVE  CeilingInv'
  <2>1. \A k \in SrcIps : InWork(k) => InWork(k)'
    BY <1>1 DEF InWork
  <2>2. \A s \in Sessions : pc'[s] = "run" => pc[s] = "run" /\ src'[s] = src[s]
    BY <1>1 DEF Building
  <2>3. QED
    BY <1>1, <2>1, <2>2 DEF CeilingInv, Standing
<1>2. ASSUME NEW s \in Sessions, SessionStep(s) PROVE CeilingInv'
  BY <1>2, CeilingSession
<1>3. ASSUME NEW s \in Sessions,
             AcquireSession(s) \/ ReleaseSession(s) \/ LoseRelease(s) \/ GiveUp(s)
      PROVE  CeilingInv'
  <2>1. Tracked' = Tracked
    BY <1>3, TouchDict DEF AcquireSession, ReleaseSession, LoseRelease, GiveUp, Tracked
  <2>2. QED
    BY <1>1, <1>3, <2>1, DistinctAssumption
       DEF AcquireSession, ReleaseSession, LoseRelease, GiveUp, Finish, Building
<1>4. ASSUME NEW p \in Planters, PlantDecoys(p) \/ WriteFiles(p) \/ WriteFails(p)
      PROVE  CeilingInv'
  <2>1. Tracked' = Tracked
    BY <1>4, TouchDict DEF PlantDecoys, WriteFiles, WriteFails, Tracked
  <2>2. QED
    BY <1>1, <1>4, <2>1, DistinctAssumption
       DEF PlantDecoys, WriteFiles, WriteFails, Finish, Building
<1>5. ASSUME NEW t \in Sessions \cup {Reaper}, Destroying(t) PROVE CeilingInv'
  BY <1>5, CeilingDestroy
<1>6. CASE ReaperWakes \/ ReaperLocks \/ ReaperSleeps
  BY <1>1, <1>6, DistinctAssumption DEF ReaperWakes, ReaperLocks, ReaperSleeps, Tracked, Building
<1>7. CASE ReapNext
  <2>1. PICK v \in stale : BeginDestroy(Reaper, backends, v)
    BY <1>7 DEF ReapNext
  <2>2. /\ Tracked' = Tracked \ {v} /\ pc[Reaper] = "sweep"
        /\ pc' = [pc EXCEPT ![Reaper] = "remove"]
        /\ victim' = v /\ UNCHANGED <<entry, up, src>>
    BY <1>7, <2>1, PopDict DEF ReapNext, BeginDestroy, Tracked
  <2>3. \A s \in Sessions : pc'[s] \notin Building /\ pc'[s] # "run"
    BY <2>2, Exclusion, DistinctAssumption DEF LockedPc, SessionPc, Building
  <2>4. \A k \in SrcIps : ~InWork(k)
    BY <2>2, Exclusion, DistinctAssumption DEF InWork, Building, LockedPc, SessionPc
  <2>5. InWork(v)'
    BY <2>2 DEF InWork
  <2>6. QED
    BY <2>2, <2>3, <2>4, <2>5 DEF CeilingInv, Standing
<1>8. CASE Tick \/ ContainerDies \/ UNCHANGED vars
  BY <1>1, <1>8 DEF Tick, ContainerDies, vars, Tracked, Building
<1>9. CASE ProxyRecreated
  BY <1>1, <1>9 DEF ProxyRecreated, Tracked, Building
<1>10. CASE Crash
  <2>1. ~up' /\ entry' = entry /\ \A s \in Sessions : pc'[s] \in {"open", "idle"}
    BY <1>10 DEF Crash
  <2>2. QED
    BY <2>1 DEF CeilingInv, Standing, Building
<1>11. CASE Startup
  <2>1. /\ UNCHANGED <<entry, pc>> /\ ~up /\ Tracked' = Standing
    BY <1>11 DEF Startup, Tracked, Standing
  <2>2. \A s \in Sessions : pc[s] \in {"idle", "open"}
    BY <2>1 DEF Locking
  <2>3. QED
    BY <2>1, <2>2 DEF CeilingInv, Standing, Building
<1>12. QED
  BY <1>2, <1>3, <1>4, <1>5, <1>6, <1>7, <1>8, <1>9, <1>10, <1>11 DEF Next, Broker, World

-----------------------------------------------------------------------------
(* The lock is given back.                                                  *)

(* Whoever holds the lock is in the section it guards.                      *)
HeldInv == \A t \in Sessions \cup {Reaper} : lock = t => pc[t] \in LockedPc

(* A step that leaves the section gives the lock back: by a reply, by an    *)
(* error, at the end of a sweep or in a crash.                              *)
LEMMA HeldInvStep == IndInv /\ HeldInv /\ [Next]_vars => HeldInv'
<1> SUFFICES ASSUME IndInv, HeldInv, [Next]_vars PROVE HeldInv'
  OBVIOUS
<1> USE DEF HeldInv, LockedPc, SessionPc
<1>1. /\ \A t \in Sessions \cup {Reaper} : t # Nobody
      /\ pc \in [Tasks -> SessionPc \cup PlanterPc \cup ReaperPc]
      /\ \A t \in Sessions \cup {Reaper} : pc[t] \in LockedPc => lock = t
      /\ pc[Reaper] \in ReaperPc
      /\ Reaper \notin Sessions
  BY DistinctAssumption DEF IndInv, TypeOK, Locking
<1>2. ASSUME NEW s \in Sessions, AcquireSession(s)
      PROVE  HeldInv'
  BY <1>1, <1>2 DEF AcquireSession
<1>3. ASSUME NEW s \in Sessions, pc[s] \in LockedPc, Finish(s), lock' = Nobody
      PROVE  HeldInv'
  BY <1>1, <1>3
<1>4. ASSUME NEW s \in Sessions, NEW label \in LockedPc,
             pc' = [pc EXCEPT ![s] = label], lock' = lock
      PROVE  HeldInv'
  BY <1>1, <1>4
<1>5. ASSUME NEW s \in Sessions, SessionStep(s)
      PROVE  HeldInv'
  <2>1. CASE ReuseBackend(s) \/ MakeRoom(s)
    BY <1>4, <2>1 DEF ReuseBackend, MakeRoom
  <2>2. CASE EvictOldest(s)
    BY <1>4, <2>2 DEF EvictOldest, BeginDestroy
  <2>3. CASE EnsureNetwork(s)
    BY <1>4, <2>3 DEF EnsureNetwork
  <2>4. CASE AdoptExisting(s) \/ AdoptReplaces(s) \/ NothingToAdopt(s)
    BY <1>4, <2>4 DEF AdoptExisting, AdoptReplaces, NothingToAdopt
  <2>5. CASE CreateContainer(s) \/ AttachProxy(s)
    BY <1>4, <2>5 DEF CreateContainer, AttachProxy
  <2>6. CASE CheckFails(s) \/ EnsureNetworkFails(s) \/ AdoptFails(s)
    BY <1>3, <2>6 DEF CheckFails, EnsureNetworkFails, AdoptFails, Abort
  <2>7. CASE CreateFails(s) \/ AttachFails(s) \/ ReplyFails(s)
    BY <1>3, <2>7 DEF CreateFails, AttachFails, ReplyFails, Abort
  <2>8. CASE ReplySession(s)
    BY <1>1, <2>8 DEF ReplySession
  <2>9. QED
    BY <1>5, <2>1, <2>2, <2>3, <2>4, <2>5, <2>6, <2>7, <2>8 DEF SessionStep
<1>6. ASSUME NEW s \in Sessions, ReleaseSession(s) \/ LoseRelease(s)
      PROVE  HeldInv'
  <2>1. pc[s] = "open" /\ Finish(s) /\ lock' = lock
    BY <1>6 DEF ReleaseSession, LoseRelease
  <2>2. lock # s
    BY <2>1
  <2>3. QED
    BY <1>1, <2>1, <2>2 DEF Finish
<1>7. ASSUME NEW p \in Planters, PlantDecoys(p) \/ WriteFiles(p) \/ WriteFails(p)
      PROVE  HeldInv'
  <2>1. /\ lock' = lock
        /\ pc' = [pc EXCEPT ![p] = "write"] \/ pc' = [pc EXCEPT ![p] = "idle"]
    BY <1>7 DEF PlantDecoys, WriteFiles, WriteFails, Finish
  <2>2. p \notin Sessions \cup {Reaper}
    BY DistinctAssumption
  <2>3. QED
    BY <1>1, <2>1, <2>2
<1>8. ASSUME NEW t \in Sessions \cup {Reaper}, Destroying(t)
      PROVE  HeldInv'
  <2>1. CASE ForceRemove(t)
    BY <1>1, <2>1 DEF ForceRemove
  <2>2. CASE CollectFails(t)
    BY <1>1, <2>2 DEF CollectFails
  <2>3. CASE RemoveFails(t) \/ DetachProxy(t)
    <3>1. pc[t] \in {"remove", "detach"} /\ Destroyed(t)
      BY <2>3 DEF RemoveFails, DetachProxy
    <3>2. \/ pc' = [pc EXCEPT ![t] = "sweep"] /\ lock' = lock
          \/ pc' = [pc EXCEPT ![t] = "network"] /\ lock' = lock
          \/ lock' = Nobody
      BY <3>1 DEF Destroyed, Abort
    <3>3. QED
      BY <1>1, <3>2
  <2>4. QED
    BY <1>8, <2>1, <2>2, <2>3 DEF Destroying
<1>9. CASE ReaperWakes
  BY <1>1, <1>9 DEF ReaperWakes
<1>10. CASE ReaperLocks \/ ReaperSleeps
  BY <1>1, <1>10 DEF ReaperLocks, ReaperSleeps
<1>11. CASE ReapNext
  BY <1>1, <1>11 DEF ReapNext, BeginDestroy
<1>12. CASE Startup \/ ContainerDies \/ Tick \/ UNCHANGED vars
  BY <1>12 DEF Startup, ContainerDies, Tick, vars
<1>13. CASE Crash
  BY <1>1, <1>13 DEF Crash
<1>14. CASE ProxyRecreated
  BY <1>1, <1>14 DEF ProxyRecreated
<1>15. ASSUME NEW s \in Sessions, GiveUp(s)
       PROVE  HeldInv'
  BY <1>15 DEF GiveUp
<1>16. QED
  BY <1>2, <1>5, <1>6, <1>7, <1>8, <1>9, <1>10, <1>11, <1>12, <1>13, <1>14, <1>15
     DEF Next, Broker, World

-----------------------------------------------------------------------------
(* The theorems.                                                            *)

(* The broker tracks, answers with and removes the container that stands    *)
(* under the attacker's name.                                               *)
THEOREM EntriesAgree == Spec => [](EntryInv /\ RemoveInv)
<1>1. Init => RemoveInv
  BY DEF Init, RemoveInv
<1>2. QED
  BY <1>1, InitImplements, StepImplements, RemoveInvStep, Invariance, PTL DEF Spec

(* Whatever fails in a request, an eviction or a sweep, state.lock is held  *)
(* by exactly the task that is in the section it guards.                    *)
THEOREM LockIsGivenBack == Spec => []LockGuardsSection
<1>1. Init => HeldInv
  BY DistinctAssumption DEF Init, HeldInv
<1>2. IndInv /\ HeldInv => LockGuardsSection
  BY DEF IndInv, Locking, HeldInv, LockGuardsSection
<1>3. QED
  BY <1>1, <1>2, HeldInvStep, Invariance, PTL DEF Spec

(* While Docker does not refuse to attach the proxy, a bridged session can  *)
(* be routed for as long as its container is the tracked one.               *)
THEOREM BridgedStayReachable ==
    ASSUME "docker" \notin FaultKinds
    PROVE  Spec => []BridgedSessionsReachable
<1>1. Init => RouteInv
  BY DEF Init, RouteInv
<1>2. IndInv /\ EntryInv /\ RouteInv => BridgedSessionsReachable
  <2> SUFFICES ASSUME IndInv, EntryInv, RouteInv,
                      NEW s \in Sessions, pc[s] = "open", src[s] \in Tracked,
                      backends[src[s]].container_id = cid[s]
               PROVE  src[s] \in attached \cap claimed /\ subnet[src[s]] # Nobody
    BY DEF BridgedSessionsReachable
  <2>1. entry[src[s]] = cid[s] /\ src[s] \in SrcIps /\ cid[s] # Nobody
    BY DistinctAssumption DEF EntryInv, IndInv, RequestInv
  <2>2. QED
    BY <2>1 DEF RouteInv, IndInv, DockerInv
<1>3. QED
  BY <1>1, <1>2, RouteInvStep, EntriesAgree, Invariance, PTL DEF Spec

(* As long as nothing has failed, between two requests every front network  *)
(* belongs to a tracked attacker: _detach_proxy and the error paths of      *)
(* acquire_session leave none behind.                                       *)
THEOREM NetworksGoWithContainers == Spec => []NoFrontNetworkLeft
<1>1. Init => FreshInv
  <2> SUFFICES ASSUME Init PROVE FreshInv
    OBVIOUS
  <2>1. Tracked = {}
    BY EmptyDict DEF Init, Tracked
  <2>2. QED
    BY <2>1 DEF Init, FreshInv
<1>2. IndInv /\ FreshInv => NoFrontNetworkLeft
  <2> SUFFICES ASSUME IndInv, FreshInv, faults = 0, lock = Nobody,
                      NEW k \in SrcIps, subnet[k] # Nobody
               PROVE  k \in Tracked
    BY DEF NoFrontNetworkLeft
  <2>1. ~InWork(k)
    BY DistinctAssumption DEF IndInv, Locking, InWork, Building, LockedPc, SessionPc
  <2>2. QED
    BY <2>1 DEF FreshInv
<1>3. QED
  BY <1>1, <1>2, FreshInvStep, EntriesAgree, Invariance, PTL DEF Spec

(* While Docker does not fail, no order of requests, evictions, sweeps,     *)
(* crashes and restarts leaves more entry containers than MAX_CONTAINERS.   *)
THEOREM CeilingHolds ==
    ASSUME "docker" \notin FaultKinds, "wedge" \notin FaultKinds
    PROVE  Spec => []EntryCeiling
<1>1. Init => CeilingInv
  <2> SUFFICES ASSUME Init PROVE CeilingInv
    OBVIOUS
  <2>1. Standing = {}
    BY DEF Init, Standing
  <2>2. QED
    BY <2>1, FS_EmptySet, ConstantsAssumption DEF Init, CeilingInv, Building
<1>2. CeilingInv => EntryCeiling
  BY DEF CeilingInv, EntryCeiling, Standing
<1>3. QED
  BY <1>1, <1>2, CeilingInvStep, EntriesAgree, Invariance, PTL DEF Spec
=============================================================================
