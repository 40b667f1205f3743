---------------------------- MODULE SessionEvents ----------------------------
(***************************************************************************)
(* The SSH sessions of the estate and the events they put on record.       *)
(*                                                                         *)
(* Models the listeners of proxy.py (the perimeter) and peer_gateway.py    *)
(* (the pivots), the factory of cowrie_events.py that stamps the events,   *)
(* and credentials.py.  A pivot's peer is our own jump host: whose session *)
(* it is the broker says, some time after the connection is there.         *)
(*                                                                         *)
(* An event is logged where the code builds it; the emitter's lock hands   *)
(* the lines on in that order, and what can go wrong with the file is      *)
(* modelled in Shipper.                                                    *)
(***************************************************************************)
EXTENDS Integers, Sequences, FiniteSets

CONSTANTS
    Sessions,       \* SSH connections
    Pivots,         \* those made to a peer from inside another session
    Attackers,      \* source addresses of people
    Owner,          \* session -> who is at its keyboard
    Host,           \* session -> sensor of the node it reaches
    JumpHost,       \* the address a pivot comes from
    Control,        \* attackers that fall in a control bucket
    MaxAuthTries,   \* MAX_AUTH_TRIES
    MaxCommands,    \* bound: commands of one session
    MaxClock        \* bound: time

ASSUME SessionsAssumption ==
    /\ Pivots \subseteq Sessions
    /\ Owner \in [Sessions -> Attackers]
    /\ DOMAIN Host = Sessions
    /\ JumpHost \notin Attackers
    /\ Control \subseteq Attackers
    /\ {MaxAuthTries, MaxCommands, MaxClock} \subseteq Nat

VARIABLES
    clock,      \* minutes
    conn,       \* the TCP connection: "none", "open" or "lost"
    stamp,      \* SessionEventFactory: what the next event carries
    tries,      \* auth_failures
    resolve,    \* a pivot's _resolve: "none", "asked", "found" or "refused"
    process,    \* the session handler
    commands,   \* bound: commands submitted
    pending,    \* CommandReconstructor holds a command that was not echoed
    log         \* the events, in the order they were emitted

sessionVars == <<clock, conn, stamp, tries, resolve, process, commands, pending, log>>

Kinds == {"connect", "version", "kex", "login_failed", "login_success", "command",
          "direct_tcpip", "closed"}

Peer(s) == IF s \in Pivots THEN JumpHost ELSE Owner[s]

(* is_adaptive: a pure function of the address.                            *)
IsAdaptive(attacker) == attacker \notin Control

Event == [session : Sessions, kind : Kinds, at : Nat, src : Attackers \cup {JumpHost},
          attacker : Attackers \cup {JumpHost}, adaptive : BOOLEAN,
          hassh : BOOLEAN, user : BOOLEAN]

SessionsTypeOK ==
    /\ clock \in 0..MaxClock
    /\ conn \in [Sessions -> {"none", "open", "lost"}]
    /\ stamp \in [Sessions -> [attacker : Attackers \cup {JumpHost},
                               adaptive : BOOLEAN, hassh : BOOLEAN]]
    /\ tries \in [Sessions -> 0..MaxAuthTries]
    /\ resolve \in [Sessions -> {"none", "asked", "found", "refused"}]
    /\ process \in [Sessions -> {"none", "started", "bridged", "done"}]
    /\ commands \in [Sessions -> 0..MaxCommands]
    /\ pending \in [Sessions -> BOOLEAN]
    /\ log \in Seq(Event)

(* The factory's defaults: the attacker is the peer, the arm is adaptive.  *)
NewStamp(s) == [attacker |-> Peer(s), adaptive |-> TRUE, hassh |-> FALSE]

SessionsInit ==
    /\ clock = 0
    /\ conn = [s \in Sessions |-> "none"]
    /\ stamp = [s \in Sessions |-> NewStamp(s)]
    /\ tries = [s \in Sessions |-> 0]
    /\ resolve = [s \in Sessions |-> "none"]
    /\ process = [s \in Sessions |-> "none"]
    /\ commands = [s \in Sessions |-> 0]
    /\ pending = [s \in Sessions |-> FALSE]
    /\ log = <<>>

(* _base, and the fields the builder of this kind adds.                    *)
Build(s, kind, by) ==
    [session |-> s, kind |-> kind, at |-> clock, src |-> Peer(s),
     attacker |-> by.attacker, adaptive |-> by.adaptive, hassh |-> by.hassh,
     user |-> kind \in {"login_failed", "login_success", "command"}]
EmitAs(s, kind, by) == log' = Append(log, Build(s, kind, by))
Emit(s, kind) == EmitAs(s, kind, stamp[s])

-----------------------------------------------------------------------------
(* Connections.                                                            *)

Stamped(s, with) == stamp' = [stamp EXCEPT ![s] = with]

(* HoneypotServer.connection_made.                                         *)
Connect(s) ==
    /\ s \notin Pivots
    /\ conn[s] = "none"
    /\ conn' = [conn EXCEPT ![s] = "open"]
    /\ LET known == [NewStamp(s) EXCEPT !.adaptive = IsAdaptive(Peer(s))] IN
         /\ Stamped(s, known)
         /\ EmitAs(s, "connect", known)
    /\ UNCHANGED <<clock, tries, resolve, process, commands, pending>>

(* PeerServer.connection_made: connect is emitted and _resolve is started. *)
ConnectPivot(s) ==
    /\ s \in Pivots
    /\ conn[s] = "none"
    /\ \E e \in Sessions \ Pivots : Owner[e] = Owner[s] /\ process[e] = "bridged"
    /\ conn' = [conn EXCEPT ![s] = "open"]
    /\ Emit(s, "connect")
    /\ resolve' = [resolve EXCEPT ![s] = "asked"]
    /\ UNCHANGED <<clock, stamp, tries, process, commands, pending>>

(* _resolve: the broker names the owner, and the factory is corrected, in  *)
(* the node's name too, which becomes the one of Host.                     *)
ResolveOwner(s) ==
    /\ resolve[s] = "asked"
    /\ resolve' = [resolve EXCEPT ![s] = "found"]
    /\ Stamped(s, [stamp[s] EXCEPT !.attacker = Owner[s],
                                   !.adaptive = IsAdaptive(Owner[s])])
    /\ UNCHANGED <<clock, conn, tries, process, commands, pending, log>>

(* resolve: a 404, or the broker could not be asked.                       *)
ResolveRefused(s) ==
    /\ resolve[s] = "asked"
    /\ resolve' = [resolve EXCEPT ![s] = "refused"]
    /\ UNCHANGED <<clock, conn, stamp, tries, process, commands, pending, log>>

(* connection_lost, whoever ended it.  The handler notices later.          *)
Disconnect(s) ==
    /\ conn[s] = "open"
    /\ conn' = [conn EXCEPT ![s] = "lost"]
    /\ Emit(s, "closed")
    /\ process' = [process EXCEPT ![s] = IF @ = "none" THEN "done" ELSE @]
    /\ UNCHANGED <<clock, stamp, tries, resolve, commands, pending>>

-----------------------------------------------------------------------------
(* Logging in.                                                             *)

(* sshd's limit: at MAX_AUTH_TRIES the connection can only be dropped.  A  *)
(* pivot has no such limit; MaxAuthTries bounds it in the model.           *)
MayTry(s) == conn[s] = "open" /\ process[s] = "none" /\ tries[s] < MaxAuthTries

(* _emit_client_fingerprint: once, if the handshake could be read, and then *)
(* all of it: the client's version and its HASSH.                          *)
Fingerprint(s) ==
    /\ s \notin Pivots
    /\ MayTry(s)
    /\ ~stamp[s].hassh
    /\ LET known == [stamp[s] EXCEPT !.hassh = TRUE] IN
         /\ Stamped(s, known)
         /\ log' = log \o <<Build(s, "version", stamp[s]), Build(s, "kex", known)>>
    /\ UNCHANGED <<clock, conn, tries, resolve, process, commands, pending>>

LoginFails(s) ==
    /\ MayTry(s)
    /\ tries' = [tries EXCEPT ![s] = @ + 1]
    /\ Emit(s, "login_failed")
    /\ UNCHANGED <<clock, conn, stamp, resolve, process, commands, pending>>

(* validate_password or validate_public_key; the client then asks for a    *)
(* session, and the handler is started.                                    *)
LoginSucceeds(s) ==
    /\ MayTry(s)
    /\ process' = [process EXCEPT ![s] = "started"]
    /\ Emit(s, "login_success")
    /\ UNCHANGED <<clock, conn, stamp, tries, resolve, commands, pending>>

-----------------------------------------------------------------------------
(* The session handler.                                                    *)

SetProcess(s, to) == process' = [process EXCEPT ![s] = to]

(* The backend is there: from the broker, or named by the awaited _resolve.*)
Bridge(s) ==
    /\ process[s] = "started"
    /\ s \in Pivots => resolve[s] = "found"
    /\ SetProcess(s, "bridged")
    /\ UNCHANGED <<clock, conn, stamp, tries, resolve, commands, pending, log>>

(* `ssh host command`: the command is recorded before the node is reached. *)
OneShot(s) ==
    /\ process[s] = "started"
    /\ s \in Pivots => resolve[s] = "found"
    /\ commands[s] < MaxCommands
    /\ commands' = [commands EXCEPT ![s] = @ + 1]
    /\ SetProcess(s, "bridged")
    /\ Emit(s, "command")
    /\ UNCHANGED <<clock, conn, stamp, tries, resolve, pending>>

(* No backend, or no such host.                                            *)
Refuse(s) ==
    /\ process[s] = "started"
    /\ s \in Pivots => resolve[s] = "refused"
    /\ SetProcess(s, "done")
    /\ UNCHANGED <<clock, conn, stamp, tries, resolve, commands, pending, log>>

(* attacker_to_shell: Enter.                                               *)
Submit(s) ==
    /\ process[s] = "bridged" /\ conn[s] = "open"
    /\ commands[s] < MaxCommands
    /\ ~pending[s]
    /\ commands' = [commands EXCEPT ![s] = @ + 1]
    /\ pending' = [pending EXCEPT ![s] = TRUE]
    /\ UNCHANGED <<clock, conn, stamp, tries, resolve, process, log>>

(* shell_to_attacker: the echo completes the command; or, when the process *)
(* ends, flush gives up waiting for it.                                    *)
Echo(s) ==
    /\ process[s] = "bridged"
    /\ pending[s]
    /\ pending' = [pending EXCEPT ![s] = FALSE]
    /\ Emit(s, "command")
    /\ UNCHANGED <<clock, conn, stamp, tries, resolve, process, commands>>

(* The shell exits, or _pump sees that the connection is gone.             *)
ProcessEnds(s) ==
    /\ process[s] = "bridged"
    /\ SetProcess(s, "done")
    /\ pending' = [pending EXCEPT ![s] = FALSE]
    /\ IF pending[s] THEN Emit(s, "command") ELSE UNCHANGED log
    /\ UNCHANGED <<clock, conn, stamp, tries, resolve, commands>>

(* connection_requested: recorded, and refused.                            *)
Forward(s) ==
    /\ s \notin Pivots
    /\ conn[s] = "open" /\ process[s] = "bridged"
    /\ \A n \in DOMAIN log : log[n].session = s => log[n].kind # "direct_tcpip"
    /\ Emit(s, "direct_tcpip")
    /\ UNCHANGED <<clock, conn, stamp, tries, resolve, process, commands, pending>>

Tick ==
    /\ clock < MaxClock
    /\ clock' = clock + 1
    /\ UNCHANGED <<conn, stamp, tries, resolve, process, commands, pending, log>>

SessionStep(s) ==
    \/ Connect(s) \/ ConnectPivot(s) \/ Disconnect(s)
    \/ ResolveOwner(s) \/ ResolveRefused(s)
    \/ Fingerprint(s) \/ LoginFails(s) \/ LoginSucceeds(s)
    \/ Bridge(s) \/ OneShot(s) \/ Refuse(s)
    \/ Submit(s) \/ Echo(s) \/ ProcessEnds(s) \/ Forward(s)
=============================================================================
