------------------------ MODULE AttackerEnvironments ------------------------
(***************************************************************************)
(* What the session broker promises, without lock, network or coroutine:   *)
(* every attacker has at most one environment, a container built for them  *)
(* and for nobody else; a session is only ever let into it; a container is *)
(* only removed once it is nobody's environment.  SessionBroker implements *)
(* this module.                                                            *)
(***************************************************************************)
CONSTANTS
    Attackers,
    Containers,
    Sessions,
    Nobody

VARIABLES
    env,        \* the container an attacker is served from, or Nobody
    owner,      \* the attacker a container was built for, or Nobody
    standing,   \* the containers that exist
    session,    \* a bridged session: the attacker and the container, or Nobody
    planted     \* the attackers whose decoys a container was given

vars == <<env, owner, standing, session, planted>>

Init ==
    /\ env = [a \in Attackers |-> Nobody]
    /\ owner = [c \in Containers |-> Nobody]
    /\ standing = {}
    /\ session = [s \in Sessions |-> Nobody]
    /\ planted = [c \in Containers |-> {}]

-----------------------------------------------------------------------------

(* A container is built for an attacker who has none.                      *)
Build(a, c) ==
    /\ owner[c] = Nobody
    /\ \A d \in standing : owner[d] # a
    /\ owner' = [owner EXCEPT ![c] = a]
    /\ standing' = standing \cup {c}
    /\ UNCHANGED <<env, session, planted>>

(* The attacker's container becomes, or stays, their environment, and the  *)
(* session is let in, if its proxy still waits.                            *)
Serve(a, c) ==
    /\ c \in standing
    /\ owner[c] = a
    /\ env[a] \in {Nobody, c}
    /\ env' = [env EXCEPT ![a] = c]
    /\ \/ UNCHANGED session
       \/ \E s \in Sessions : /\ session[s] = Nobody
                              /\ session' = [session EXCEPT ![s] = <<a, c>>]
    /\ UNCHANGED <<owner, standing, planted>>

(* Some attackers are no longer served: idle, evicted, or forgotten by a   *)
(* broker that died.  Their sessions may go on.                            *)
Retire(A) ==
    /\ env' = [a \in Attackers |-> IF a \in A THEN Nobody ELSE env[a]]
    /\ UNCHANGED <<owner, standing, session, planted>>

(* A container that is nobody's environment is removed.                    *)
Remove(c) ==
    /\ c \in standing
    /\ \A a \in Attackers : env[a] # c
    /\ standing' = standing \ {c}
    /\ UNCHANGED <<env, owner, session, planted>>

(* A new broker finds containers that stand and serves their owners again. *)
Recover(found) ==
    /\ found \subseteq standing
    /\ env = [a \in Attackers |-> Nobody]
    /\ env' \in [Attackers -> found \cup {Nobody}]
    /\ \A a \in Attackers : env'[a] # Nobody => owner[env'[a]] = a
    /\ \A c \in found : env'[owner[c]] = c
    /\ UNCHANGED <<owner, standing, session, planted>>

(* Sessions end.                                                           *)
Leave(S) ==
    /\ session' = [s \in Sessions |-> IF s \in S THEN Nobody ELSE session[s]]
    /\ UNCHANGED <<env, owner, standing, planted>>

(* A container is given decoys, always those of its owner.                 *)
Plant(c) ==
    /\ owner[c] # Nobody
    /\ planted' = [planted EXCEPT ![c] = @ \cup {owner[c]}]
    /\ UNCHANGED <<env, owner, standing, session>>

Next ==
    \/ \E a \in Attackers, c \in Containers : Build(a, c) \/ Serve(a, c)
    \/ \E c \in Containers : Remove(c) \/ Plant(c)
    \/ \E A \in SUBSET Attackers : Retire(A)
    \/ \E found \in SUBSET standing : Recover(found)
    \/ \E S \in SUBSET Sessions : Leave(S)

Spec == Init /\ [][Next]_vars

=============================================================================
