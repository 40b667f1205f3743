------------------------------- MODULE Shipper -------------------------------
(***************************************************************************)
(* The sidecar's shipper: from the proxy's event file to the hub.          *)
(*                                                                         *)
(* Models shipper.py, the write end of emitter.py, and the hub's /ingest/  *)
(* as the shipper sees it.  The proxy appends one line per event to a      *)
(* file; the sidecar tails it and posts the lines one at a time.  A line   *)
(* the hub does not accept goes to a spool directory that is retried at    *)
(* the start of every pass.  The read position and the spool survive a     *)
(* restart of the sidecar, the batch it is working through does not.       *)
(*                                                                         *)
(* A request is several steps: the hub may have processed a line whose     *)
(* reply is lost, late or an error, and may process a request long after   *)
(* the sidecar stopped waiting for it.                                     *)
(***************************************************************************)
EXTENDS Naturals, Sequences, FiniteSets, Functions

CONSTANTS
    Sessions,       \* attacker sessions that emit events
    PerSession,     \* bound: events per session; the first is session.connect
    Garbled,        \* a line that is not the JSON of one event
    NoLine,         \* Python's None
    MaxFaults,      \* bound: how many faults a behaviour may contain
    FaultKinds      \* which faults may happen

Events == Sessions \X (1..PerSession)
Lines == Events \cup {Garbled}

ASSUME ShipperAssumption ==
    /\ PerSession \in Nat
    /\ MaxFaults \in Nat
    /\ Garbled \notin Events
    /\ NoLine \notin Lines

VARIABLES
    emitted,    \* the proxy: events each session has emitted so far
    file,       \* every line ever appended, oldest first
    base,       \* the lines before it are of files that are gone
    torn,       \* does the file end in half a line?
    inode,      \* the inode of the event file
    seen,       \* position.inode
    offset,     \* position.offset, in lines
    saved,      \* the state file: inode and offset
    pc,         \* where the sidecar's loop is
    todo,       \* drain_spool: spooled lines of this pass still to retry
    batch,      \* the lines read in this pass and not yet dealt with
    spool,      \* the spool directory, sorted by name
    recent,     \* how many of its last files are of this millisecond
    request,    \* the line posted to the hub
    reply,      \* what came back for it
    abandoned,  \* requests the hub still works on but nobody waits for
    processed,  \* the hub: how often each event went through process_event
    faults,     \* how many faults have happened
    struck      \* has a fault hit that the design does not claim to survive?

proxyVars == <<emitted, file, base, torn, inode>>
positionVars == <<seen, offset, saved>>
spoolVars == <<spool, recent>>
requestVars == <<request, reply>>
hubVars == <<abandoned, processed>>
vars == <<proxyVars, positionVars, pc, todo, batch, spoolVars, requestVars,
          hubVars, faults, struck>>

TypeOK ==
    /\ emitted \in [Sessions -> 0..PerSession]
    /\ file \in Seq(Lines)
    /\ base \in Nat /\ inode \in Nat /\ seen \in Nat /\ offset \in Nat
    /\ torn \in BOOLEAN
    /\ saved \in [inode : Nat, offset : Nat]
    /\ pc \in {"top", "drain", "read", "ship", "down"}
    /\ todo \in Seq(Lines)
    /\ batch \in Seq(Lines)
    /\ spool \in Seq(Lines)
    /\ recent \in Nat
    /\ request \in Lines \cup {NoLine}
    /\ reply \in {"none", "accepted", "refused"}
    /\ abandoned \in [Events -> Nat]
    /\ processed \in [Events -> Nat]
    /\ faults \in Nat
    /\ struck \in BOOLEAN

Init ==
    /\ emitted = [s \in Sessions |-> 0]
    /\ file = <<>>
    /\ base = 0
    /\ torn = FALSE
    /\ inode = 1
    /\ seen = 0
    /\ offset = 0
    /\ saved = [inode |-> 0, offset |-> 0]
    /\ pc = "top"
    /\ todo = <<>>
    /\ batch = <<>>
    /\ spool = <<>>
    /\ recent = 0
    /\ request = NoLine
    /\ reply = "none"
    /\ abandoned = [e \in Events |-> 0]
    /\ processed = [e \in Events |-> 0]
    /\ faults = 0
    /\ struck = FALSE

Fault(kind) ==
    /\ kind \in FaultKinds
    /\ faults < MaxFaults
    /\ faults' = faults + 1

(* The lines of the present file, and how many of them read_new_lines      *)
(* takes as read: none if the inode is new or the file has become shorter. *)
Size == Len(file) - base
StartAt == IF seen # inode \/ Size < offset THEN 0 ELSE offset
Unread == SubSeq(file, base + StartAt + 1, Len(file))

-----------------------------------------------------------------------------
(* The proxy's EventEmitter: one append at a time, under a lock.           *)

(* A line appended to half a line makes one line of both.                  *)
Emit(s) ==
    /\ emitted[s] < PerSession
    /\ emitted' = [emitted EXCEPT ![s] = @ + 1]
    /\ file' = Append(file, IF torn THEN Garbled ELSE <<s, emitted[s] + 1>>)
    /\ torn' = FALSE
    /\ UNCHANGED <<base, inode, positionVars, pc, todo, batch, spoolVars,
                   requestVars, hubVars, faults, struck>>

(* The write raises and the event is given up, perhaps half written; or    *)
(* the proxy dies in the middle of it.                                     *)
EmitFails(s) ==
    /\ emitted[s] < PerSession
    /\ Fault("emit")
    /\ emitted' = [emitted EXCEPT ![s] = @ + 1]
    /\ torn' \in {torn, TRUE}
    /\ UNCHANGED <<file, base, inode, positionVars, pc, todo, batch, spoolVars,
                   requestVars, hubVars, struck>>

(* Somebody recreates the event file.  What was not read is gone with it.  *)
Recreate ==
    /\ Fault("recreate")
    /\ base' = Len(file)
    /\ inode' = inode + 1
    /\ torn' = FALSE
    /\ struck' = (struck \/ Unread # <<>>)
    /\ UNCHANGED <<emitted, file, positionVars, pc, todo, batch, spoolVars,
                   requestVars, hubVars>>

(* Somebody truncates it.  Only its size gives that away, so lines that    *)
(* are appended before the next pass may hide it.                          *)
Truncate ==
    /\ Fault("truncate")
    /\ base' = Len(file)
    /\ torn' = FALSE
    /\ struck' = TRUE
    /\ UNCHANGED <<emitted, file, inode, positionVars, pc, todo, batch,
                   spoolVars, requestVars, hubVars>>

-----------------------------------------------------------------------------
(* The hub's side of one POST to /ingest/.                                 *)

Asked == request # NoLine /\ reply = "none"

(* process_event runs to its end and the reply arrives.                    *)
HubAccepts ==
    /\ Asked
    /\ request \in Events
    /\ processed' = [processed EXCEPT ![request] = @ + 1]
    /\ reply' = "accepted"
    /\ UNCHANGED <<proxyVars, positionVars, pc, todo, batch, spoolVars, request,
                   abandoned, faults, struck>>

(* HTTP 400: the body is not JSON.                                         *)
HubRejects ==
    /\ Asked
    /\ request = Garbled
    /\ reply' = "refused"
    /\ UNCHANGED <<proxyVars, positionVars, pc, todo, batch, spoolVars, request,
                   hubVars, faults, struck>>

(* Unreachable, a redirect, a 401, or an error before or after the event   *)
(* was stored.                                                             *)
HubFails ==
    /\ Asked
    /\ Fault("hub")
    /\ reply' = "refused"
    /\ \/ UNCHANGED processed
       \/ /\ request \in Events
          /\ processed' = [processed EXCEPT ![request] = @ + 1]
    /\ UNCHANGED <<proxyVars, positionVars, pc, todo, batch, spoolVars, request,
                   abandoned, struck>>

(* REQUEST_TIMEOUT passes while the hub is still at work.                  *)
TimesOut ==
    /\ Asked
    /\ request \in Events
    /\ Fault("timeout")
    /\ reply' = "refused"
    /\ abandoned' = [abandoned EXCEPT ![request] = @ + 1]
    /\ UNCHANGED <<proxyVars, positionVars, pc, todo, batch, spoolVars, request,
                   processed, struck>>

(* The hub finishes a request nobody waits for, or never does.             *)
HubIsLate(e) ==
    /\ abandoned[e] > 0
    /\ abandoned' = [abandoned EXCEPT ![e] = @ - 1]
    /\ processed' \in {processed, [processed EXCEPT ![e] = @ + 1]}
    /\ UNCHANGED <<proxyVars, positionVars, pc, todo, batch, spoolVars,
                   requestVars, faults, struck>>

-----------------------------------------------------------------------------
(* drain_spool.                                                            *)

(* Mutant: the spool is not looked at again.                               *)
StartPassWithoutSpool ==
    /\ pc = "top"
    /\ pc' = "drain"
    /\ todo' = <<>>
    /\ recent' = 0
    /\ UNCHANGED <<proxyVars, positionVars, batch, spool, requestVars, hubVars,
                   faults, struck>>

(* A pass begins with the list of what is spooled, oldest first.           *)
StartPass ==
    /\ pc = "top"
    /\ pc' = "drain"
    /\ todo' = spool
    /\ recent' = 0
    /\ UNCHANGED <<proxyVars, positionVars, batch, spool, requestVars, hubVars,
                   faults, struck>>

Post(line) ==
    /\ request = NoLine
    /\ request' = line
    /\ UNCHANGED <<proxyVars, positionVars, pc, todo, batch, spoolVars, reply,
                   hubVars, faults, struck>>

PostSpooled == pc = "drain" /\ todo # <<>> /\ Post(Head(todo))

Answered(r) == reply = r /\ request' = NoLine /\ reply' = "none"

(* Mutant: the delivered file stays in the directory.                      *)
SpooledKept ==
    /\ pc = "drain"
    /\ Answered("accepted")
    /\ todo' = Tail(todo)
    /\ UNCHANGED <<proxyVars, positionVars, pc, batch, spoolVars, hubVars, faults, struck>>

(* Delivered: unlink the file.  Nothing is added to the directory during a *)
(* drain, so the list is always an end of it.                              *)
SpooledDelivered ==
    /\ pc = "drain"
    /\ Answered("accepted")
    /\ todo' = Tail(todo)
    /\ LET skipped == Len(spool) - Len(todo)
       IN  spool' = SubSeq(spool, 1, skipped) \o Tail(todo)
    /\ UNCHANGED <<proxyVars, positionVars, pc, batch, recent, hubVars, faults,
                   struck>>

(* A file that cannot be read is passed over, until the next pass.         *)
SpooledUnreadable ==
    /\ pc = "drain"
    /\ todo # <<>>
    /\ request = NoLine
    /\ Fault("disk")
    /\ todo' = Tail(todo)
    /\ UNCHANGED <<proxyVars, positionVars, pc, batch, spoolVars, requestVars,
                   hubVars, struck>>

(* Unlinking raises: the pass is over, and the line will be posted again.  *)
UnlinkFails ==
    /\ pc = "drain"
    /\ Answered("accepted")
    /\ Fault("disk")
    /\ pc' = "top"
    /\ todo' = <<>>
    /\ UNCHANGED <<proxyVars, positionVars, batch, spoolVars, hubVars, struck>>

(* Refused: stop at the first failure, and go on to the new lines.         *)
SpooledRefused ==
    /\ pc = "drain"
    /\ Answered("refused")
    /\ pc' = "read"
    /\ todo' = <<>>
    /\ UNCHANGED <<proxyVars, positionVars, batch, spoolVars, hubVars, faults,
                   struck>>

SpoolDrained ==
    /\ pc = "drain"
    /\ todo = <<>>
    /\ pc' = "read"
    /\ UNCHANGED <<proxyVars, positionVars, todo, batch, spoolVars, requestVars,
                   hubVars, faults, struck>>

-----------------------------------------------------------------------------
(* read_new_lines.  It has no await, and is one step.                      *)

(* Mutant: only the size of the file is looked at, not its inode.          *)
ReadWithoutInode ==
    /\ pc = "read"
    /\ Size > offset
    /\ seen' = inode
    /\ batch' = SubSeq(file, base + offset + 1, Len(file))
    /\ offset' = Size
    /\ saved' = [inode |-> inode, offset |-> Size]
    /\ pc' = "ship"
    /\ UNCHANGED <<proxyVars, todo, spoolVars, requestVars, hubVars, faults, struck>>

(* Mutant: the batch is shipped newest line first.                         *)
ReadNewestFirst ==
    /\ pc = "read"
    /\ Unread # <<>>
    /\ seen' = inode
    /\ offset' = Size
    /\ saved' = [inode |-> inode, offset |-> Size]
    /\ batch' = [i \in 1..Len(Unread) |-> Unread[Len(Unread) + 1 - i]]
    /\ pc' = "ship"
    /\ UNCHANGED <<proxyVars, todo, spoolVars, requestVars, hubVars, faults, struck>>

(* New lines: the position is saved before the first of them is posted.    *)
ReadNewLines ==
    /\ pc = "read"
    /\ Unread # <<>>
    /\ seen' = inode
    /\ offset' = Size
    /\ saved' = [inode |-> inode, offset |-> Size]
    /\ batch' = Unread
    /\ pc' = "ship"
    /\ UNCHANGED <<proxyVars, todo, spoolVars, requestVars, hubVars, faults,
                   struck>>

(* No new line: the position is brought up to date in memory only, and the *)
(* watcher waits for the file to change or for FLUSH_INTERVAL to pass.     *)
NothingNew ==
    /\ pc = "read"
    /\ Unread = <<>>
    /\ seen' = inode
    /\ offset' = StartAt
    /\ pc' = "top"
    /\ UNCHANGED <<proxyVars, saved, todo, batch, spoolVars, requestVars,
                   hubVars, faults, struck>>

(* position.save raises: the lines are dropped, and the position in memory *)
(* is already behind them.                                                 *)
SaveFails ==
    /\ pc = "read"
    /\ Unread # <<>>
    /\ Fault("disk")
    /\ seen' = inode
    /\ offset' = Size
    /\ pc' = "top"
    /\ struck' = TRUE
    /\ UNCHANGED <<proxyVars, saved, todo, batch, spoolVars, requestVars,
                   hubVars>>

-----------------------------------------------------------------------------
(* The rest of the loop: one line after the other, refused or not.         *)

PostLine == pc = "ship" /\ batch # <<>> /\ Post(Head(batch))

LineDelivered ==
    /\ pc = "ship"
    /\ Answered("accepted")
    /\ batch' = Tail(batch)
    /\ UNCHANGED <<proxyVars, positionVars, pc, todo, spoolVars, hubVars, faults,
                   struck>>

(* Put line before the last k files of the spool.                          *)
InsertBefore(k, line) ==
    LET n == Len(spool) - k
    IN  SubSeq(spool, 1, n) \o <<line>> \o SubSeq(spool, n + 1, Len(spool))

(* Mutant: the line is spooled after the variable was reset.               *)
SpoolAfterReset ==
    /\ pc = "ship"
    /\ Answered("refused")
    /\ spool' = Append(spool, request')
    /\ recent' = 1
    /\ batch' = Tail(batch)
    /\ UNCHANGED <<proxyVars, positionVars, pc, todo, hubVars, faults, struck>>

(* Spool.add: files are named by the millisecond and a random part, so     *)
(* those of one millisecond sort at random.                                *)
SpoolLine ==
    /\ pc = "ship"
    /\ Answered("refused")
    /\ \/ spool' = InsertBefore(0, request) /\ recent' = 1
       \/ \E k \in 0..recent : spool' = InsertBefore(k, request) /\ recent' = recent + 1
    /\ batch' = Tail(batch)
    /\ UNCHANGED <<proxyVars, positionVars, pc, todo, hubVars, faults, struck>>

(* Spool.add raises, perhaps leaving part of a file: the rest of the batch *)
(* is dropped.                                                             *)
SpoolFails ==
    /\ pc = "ship"
    /\ Answered("refused")
    /\ Fault("disk")
    /\ spool' \in {spool, Append(spool, Garbled)}
    /\ recent' = 0
    /\ batch' = <<>>
    /\ pc' = "top"
    /\ struck' = TRUE
    /\ UNCHANGED <<proxyVars, positionVars, todo, hubVars>>

(* The batch is done; back off for a while if something is spooled.        *)
BatchDone ==
    /\ pc = "ship"
    /\ batch = <<>>
    /\ pc' = "top"
    /\ UNCHANGED <<proxyVars, positionVars, todo, batch, spoolVars, requestVars,
                   hubVars, faults, struck>>

-----------------------------------------------------------------------------
(* The sidecar dies: what is in memory goes, the hub may still be working  *)
(* on the line it was sent.                                                *)

Crash ==
    /\ pc # "down"
    /\ Fault("crash")
    /\ pc' = "down"
    /\ todo' = <<>>
    /\ batch' = <<>>
    /\ recent' = 0
    /\ request' = NoLine
    /\ reply' = "none"
    /\ abandoned' = [e \in Events |-> abandoned[e] + IF Asked /\ request = e THEN 1 ELSE 0]
    /\ struck' = (struck \/ batch # <<>>)
    /\ UNCHANGED <<proxyVars, positionVars, spool, processed>>

(* ReadPosition._load.                                                     *)
Restart ==
    /\ pc = "down"
    /\ pc' = "top"
    /\ seen' = saved.inode
    /\ offset' = saved.offset
    /\ UNCHANGED <<proxyVars, saved, todo, batch, spoolVars, requestVars,
                   hubVars, faults, struck>>

-----------------------------------------------------------------------------

Drain == \/ StartPass \/ PostSpooled \/ SpooledDelivered \/ SpooledUnreadable
         \/ UnlinkFails \/ SpooledRefused \/ SpoolDrained

Ship == \/ ReadNewLines \/ NothingNew \/ SaveFails
        \/ PostLine \/ LineDelivered \/ SpoolLine \/ SpoolFails \/ BatchDone

Hub == \/ HubAccepts \/ HubRejects \/ HubFails \/ TimesOut
       \/ \E e \in Events : HubIsLate(e)

Proxy == \/ \E s \in Sessions : Emit(s) \/ EmitFails(s)
         \/ Recreate \/ Truncate

Next == Drain \/ Ship \/ Hub \/ Proxy \/ Crash \/ Restart

Spec == Init /\ [][Next]_vars

(* Fairness.  The loop never ends by itself and each of its steps is a     *)
(* coroutine that runs on; a hub that is asked answers, by accepting an    *)
(* event unless a fault is spent on it; Docker restarts the sidecar.       *)
Fairness ==
    /\ WF_vars(Drain) /\ WF_vars(Ship) /\ WF_vars(Restart)
    /\ WF_vars(HubAccepts \/ HubRejects)

FairSpec == Spec /\ Fairness

-----------------------------------------------------------------------------
(* Properties.                                                             *)

Elements(q) == {q[i] : i \in 1..Len(q)}
Logged == Elements(file) \cap Events

(* An event the sidecar still has, or is yet to read.                      *)
Held(e) ==
    LET ahead == IF pc # "down" THEN Unread
                 ELSE SubSeq(file, base + (IF saved.inode = inode THEN saved.offset ELSE 0) + 1,
                             Len(file))
    IN  e \in Elements(spool) \cup Elements(batch) \cup Elements(ahead)

Accounted(e) == processed[e] > 0 \/ Held(e)

(* "An unreachable hub must cost latency and nothing else": an event that  *)
(* was logged has reached the hub, or is in the spool, in the batch or     *)
(* ahead of the read position.  Outages, lost and late replies, restarts   *)
(* between batches and a recreated file are all survived; what is not is a *)
(* crash inside a batch, a full disk, or a file cut before it was read.    *)
NothingLost == ~struck => \A e \in Logged : Accounted(e)

(* Every time the hub sees an event again, some fault has had a part in    *)
(* it: the retries alone never deliver an accepted event twice.            *)
DuplicatesNeedFaults == \A e \in Events : processed[e] <= 1 + faults

(* "Ordering is preserved by sending sequentially": as long as the hub     *)
(* takes every line at once.                                               *)
OrderedWithoutFaults ==
    faults = 0 => \A s \in Sessions : \A m, n \in 1..PerSession :
        m < n /\ processed[<<s, n>>] > 0 => processed[<<s, m>>] > 0

(* At least once: whatever is logged reaches the hub, however often it     *)
(* was refused; unless something struck, or a line the hub can never       *)
(* accept is in the spool, where drain_spool stops at it forever.          *)
Hopeless == struck \/ Garbled \in Elements(spool)
EveryEventArrives ==
    \A e \in Events : e \in Logged ~> processed[e] > 0 \/ Hopeless

(* "Read offsets are persisted, so a sidecar restart does not replay or    *)
(* skip": after a restart, too, each logged event is accounted for.        *)
RestartDoesNotSkip == \A e \in Logged : Accounted(e)

=============================================================================
