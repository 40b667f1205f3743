---------------------------- MODULE BrainCourier ----------------------------
(***************************************************************************)
(* The sidecar's second branch: from the event queue to decoys, and back   *)
(* from what the attacker did to the reward of the decoy shown.            *)
(*                                                                         *)
(* Models brain_courier.py composed with the brain of BrainStore and with  *)
(* the answers of the broker's plant_decoys.  The courier is one coroutine *)
(* that handles one event after the other; each of its HTTP requests is a  *)
(* step, and the attackers, the generation tasks and the brain's workers   *)
(* go on in between.  A request whose reply is late is given up by the     *)
(* courier and not by the worker that serves it.                           *)
(***************************************************************************)
EXTENDS BrainStore

CONSTANTS
    Bundle,         \* action -> the tokens in its static bundle, BUNDLE_TOKENS
    ClassifyEvery,  \* CLASSIFY_EVERY
    MinInterval,    \* MIN_CLASSIFY_INTERVAL
    Grace,          \* OBSERVATION_GRACE
    Ttl,            \* SESSION_TTL
    QueueSize,      \* maxsize of the queue
    MaxCommands,    \* bound: commands of all sessions
    MaxClock,       \* bound: seconds
    MaxFaults,      \* bound: faults in a behaviour
    FaultKinds      \* which faults may happen

ASSUME CourierAssumption ==
    /\ DOMAIN Bundle = Actions
    /\ \A a \in Actions : Bundle[a] \subseteq Tokens
    /\ Workers \cap {"none", "lost"} = {}
    /\ {ClassifyEvery, MinInterval, Grace, Ttl, QueueSize, MaxCommands,
        MaxClock, MaxFaults} \subseteq Nat

VARIABLES
    typed,      \* how many commands the proxy has reported for each session
    ended,      \* sessions whose session.closed was emitted
    adaptive,   \* the experimental arm each session's events carry
    queue,      \* the courier's queue
    sessions,   \* session id -> SessionState, for the sessions tracked
    pc,         \* where the courier's coroutine is
    cur,        \* the session it works on
    act,        \* the action it deploys
    todo,       \* token values still to be reported or declared
    ending,     \* popped states that are still to be resolved
    call,       \* the worker that serves the courier's request, NoCall or Lost
    tasks,      \* _generate_and_plant tasks, and whether their state is tracked
    planted,    \* ghost: sessions whose generated credential is in the container
    proven,     \* ghost: decisions pending when their session used a token
    unseen,     \* ghost: decisions left pending because nobody saw the decoy
    renewed,    \* ghost: sessions whose state was created more than once
    faults,     \* how many faults have happened
    hurt        \* ghost: sessions on whose behalf a request failed

attackerVars == <<typed, ended, adaptive>>
loopVars == <<pc, cur, act, todo, ending, call>>
ghosts == <<planted, proven, unseen, renewed>>
faultVars == <<faults, hurt>>
vars == <<clock, storeVars, attackerVars, queue, sessions, loopVars, tasks,
          ghosts, faultVars>>

NoCall == "none"
Lost == "lost"
Nobody == NoToken

(* What a command holds of the credentials there are.                      *)
Event == [kind : {"command", "closed"}, session : Sessions, uses : SUBSET Values]

(* SessionState.  pending is 0 for None; since is pending_since, classified*)
(* is last_classified, both 0 where the code has 0.0.                      *)
State == [session : Sessions, unclassified : Nat, classified : Nat, seen : Nat,
          pending : Nat, since : Nat, deployed : SUBSET Actions,
          tripped : SUBSET Values, extra : SUBSET Values]

NewState(s) == [session |-> s, unclassified |-> 0, classified |-> 0, seen |-> clock,
                pending |-> 0, since |-> 0, deployed |-> {}, tripped |-> {}, extra |-> {}]

Tracked == DOMAIN sessions
StateOf(s) == IF s \in Tracked THEN sessions[s] ELSE NewState(s)
Put(s, st) == [t \in Tracked \cup {s} |-> IF t = s THEN st ELSE sessions[t]]

TypeOK ==
    /\ StoreTypeOK
    /\ typed \in [Sessions -> Nat]
    /\ ended \subseteq Sessions
    /\ adaptive \in [Sessions -> BOOLEAN]
    /\ queue \in Seq(Event) /\ Len(queue) <= QueueSize
    /\ Tracked \subseteq Sessions
    /\ \A s \in Tracked : sessions[s].session = s
    /\ \A st \in Range(sessions) \cup ending :
           /\ DOMAIN st = DOMAIN NewState(st.session)
           /\ st.session \in Sessions
           /\ st.pending \in 0..Len(decisions)
           /\ st.seen <= clock /\ st.since <= clock /\ st.classified <= clock
           /\ st.deployed \subseteq Actions
           /\ st.tripped \cup st.extra \subseteq Values
    /\ pc \in {"get", "trip", "check", "hit", "classify", "plant", "declare", "close", "idle"}
    /\ cur \in Sessions \cup {Nobody}
    /\ act \in Actions \cup {Nobody}
    /\ todo \subseteq Values
    /\ call \in Workers \cup {NoCall, Lost}
    /\ tasks \subseteq [session : Sessions, tracked : BOOLEAN, stage : {"generate", "plant"}]
    /\ faults \in 0..MaxFaults

Init ==
    /\ StoreInit
    /\ typed = [s \in Sessions |-> 0]
    /\ ended = {}
    /\ adaptive \in [Sessions -> BOOLEAN]
    /\ queue = <<>>
    /\ sessions = [s \in {} |-> 0]
    /\ pc = "get"
    /\ cur = Nobody
    /\ act = Nobody
    /\ todo = {}
    /\ ending = {}
    /\ call = NoCall
    /\ tasks = {}
    /\ planted = {}
    /\ proven = {}
    /\ unseen = {}
    /\ renewed = {}
    /\ faults = 0
    /\ hurt = {}

Fault(kind) ==
    /\ kind \in FaultKinds
    /\ faults < MaxFaults
    /\ faults' = faults + 1

-----------------------------------------------------------------------------
(* The world: time, attackers, and the queue's producer.                   *)

(* Others run in the sidecar only while the courier awaits something: an   *)
(* event, or the broker's or the brain's answer.  Nothing they touch       *)
(* matters to the worker that serves a request, so of the time it takes    *)
(* only its end is looked at; and for the clock, which the handlers read   *)
(* when they write, also its beginning.                                    *)
Awaiting ==
    \/ (pc = "get" /\ queue = <<>>)
    \/ pc = "plant"
    \/ call = Lost
    \/ (call \in Workers /\ ~Serving(call))

Tick ==
    /\ clock < MaxClock
    /\ Awaiting \/ (call \in Workers /\ work[call].step \in {"look", "find"})
    /\ clock' = clock + 1
    /\ UNCHANGED <<storeVars, attackerVars, queue, sessions, loopVars, tasks,
                   ghosts, faultVars>>

(* Mutant: the queue has no bound.                                         *)
OfferUnbounded(event) == queue' = Append(queue, event)

(* offer never blocks: an event that finds the queue full is dropped.      *)
Offer(event) ==
    queue' = IF Len(queue) < QueueSize THEN Append(queue, event) ELSE queue

(* Every attacker can come across the static credentials, which are the    *)
(* same for all; a generated one only where it was planted.                *)
Known(s) == Tokens \cup {t \in planted : Honeypot[t] = Honeypot[s]}

(* One command is one event, and may use several credentials.  Commands    *)
(* that were still in the recorder when the session closed are reported    *)
(* after it.                                                               *)
Type(s, uses) ==
    /\ MapThenSumSet(LAMBDA t : typed[t], Sessions) < MaxCommands
    /\ uses \subseteq Known(s)
    /\ typed' = [typed EXCEPT ![s] = @ + 1]
    /\ Offer([kind |-> "command", session |-> s, uses |-> uses])
    /\ IF s \in ended THEN Fault("late") ELSE UNCHANGED faults
    /\ UNCHANGED <<clock, storeVars, ended, adaptive, sessions, loopVars, tasks,
                   ghosts, hurt>>

Leave(s) ==
    /\ s \notin ended
    /\ ended' = ended \cup {s}
    /\ Offer([kind |-> "closed", session |-> s, uses |-> {}])
    /\ UNCHANGED <<clock, storeVars, typed, adaptive, sessions, loopVars, tasks,
                   ghosts, faultVars>>

-----------------------------------------------------------------------------
(* The end of an event: `finally: _expire_sessions()`.                     *)

Stale(tracked) == {s \in DOMAIN tracked : tracked[s].seen + Ttl < clock}
Without(f, S) == [s \in DOMAIN f \ S |-> f[s]]

Forget(S) == tasks' = {IF t.session \in S THEN [t EXCEPT !.tracked = FALSE] ELSE t : t \in tasks}

(* Mutant: stale states are popped and not handed back.                    *)
EndEventForgetting(tracked) ==
    /\ sessions' = Without(tracked, Stale(tracked))
    /\ ending' = {} /\ pc' = "get"
    /\ cur' = Nobody /\ act' = Nobody /\ todo' = {}

(* The coroutine is done with an event that leaves `tracked` behind.       *)
EndEvent(tracked) ==
    /\ sessions' = Without(tracked, Stale(tracked))
    /\ ending' = {tracked[s] : s \in Stale(tracked)}
    /\ pc' = IF Stale(tracked) = {} THEN "get" ELSE "idle"
    /\ cur' = Nobody /\ act' = Nobody /\ todo' = {}

Stay(next, tracked) ==
    /\ pc' = next
    /\ sessions' = tracked
    /\ UNCHANGED <<cur, act, todo, ending>>

(* The rest of _handle after the tripwire: the cadence.                    *)
DueForClassify(st) ==
    st.unclassified >= ClassifyEvery /\ clock - st.classified >= MinInterval

AfterTripwire(s, st) ==
    IF DueForClassify(st)
    THEN /\ pc' = "classify"
         /\ sessions' = Put(s, st)
         /\ cur' = s /\ todo' = {}
         /\ UNCHANGED <<act, ending>>
    ELSE EndEvent(Put(s, st))

(* Requests.  A request goes to an idle worker, or to nobody; the courier  *)
(* may also come to wait in vain for a worker that goes on.  The reply is  *)
(* `ok` or `error`.                                                        *)
Post(request) ==
    /\ call = NoCall
    /\ \/ \E w \in Workers : Serve(w, request) /\ call' = w /\ UNCHANGED faults
       \/ Fault("refuse") /\ call' = Lost /\ UNCHANGED <<work, overlapped>>

GiveUp ==
    /\ call \in Workers /\ Serving(call)
    /\ Fault("timeout")
    /\ call' = Lost
    /\ UNCHANGED <<clock, storeVars, attackerVars, queue, sessions, pc, cur, act,
                   todo, ending, tasks, ghosts, hurt>>

Replied(outcome) ==
    /\ call \in Workers
    /\ work[call].step = outcome
    /\ work' = [work EXCEPT ![call] = Idle]
    /\ call' = NoCall
    /\ UNCHANGED overlapped

(* Mutant: the client has no timeout.                                      *)
NeverRaises == FALSE

RaisesException == call = Lost /\ call' = NoCall /\ UNCHANGED <<work, overlapped>>

RequestFails == RaisesException \/ Replied("error")

(* A worker finds that nobody waits for its answer.                        *)
DropReply(w) ==
    /\ w # call /\ work[w].step \in {"ok", "error"}
    /\ work' = [work EXCEPT ![w] = Idle]
    /\ UNCHANGED <<clock, tables, overlapped, attackerVars, queue, sessions,
                   loopVars, tasks, ghosts, faultVars>>
-----------------------------------------------------------------------------
(* _handle: take the next event off the queue.                             *)

TakeClosed ==
    /\ pc = "get" /\ queue # <<>>
    /\ Head(queue).kind = "closed"
    /\ queue' = Tail(queue)
    /\ LET s == Head(queue).session IN
           /\ IF s \in Tracked
              THEN /\ sessions' = Without(sessions, {s})
                   /\ ending' = {sessions[s]}
                   /\ pc' = "close"
                   /\ UNCHANGED <<cur, act, todo>>
              ELSE EndEvent(sessions)
           /\ Forget({s} \cup (Tracked \ DOMAIN sessions'))
    /\ UNCHANGED <<clock, storeVars, attackerVars, call, ghosts, faultVars>>

(* Mutant: the arm is only known of a session that is already tracked.     *)
ControlOnceTracked == {s \in Tracked : ~adaptive[s]}

(* state.adaptive is false for the sessions in the control arm.            *)
Control == {s \in Sessions : ~adaptive[s]}

(* An attacker of the control arm is tracked, and nothing else.            *)
TakeControlCommand ==
    /\ pc = "get" /\ queue # <<>>
    /\ Head(queue).kind = "command" /\ Head(queue).session \in Control
    /\ queue' = Tail(queue)
    /\ LET s == Head(queue).session IN EndEvent(Put(s, [StateOf(s) EXCEPT !.seen = clock]))
    /\ Forget(Tracked \ DOMAIN sessions')
    /\ UNCHANGED <<clock, storeVars, attackerVars, call, ghosts, faultVars>>

(* The command is noted, and tested for credentials of this session that   *)
(* it has not been caught using before.                                    *)
TakeCommand ==
    /\ pc = "get" /\ queue # <<>>
    /\ Head(queue).kind = "command" /\ Head(queue).session \notin Control
    /\ queue' = Tail(queue)
    /\ LET s == Head(queue).session
           st == [StateOf(s) EXCEPT !.unclassified = @ + 1, !.seen = clock]
           hits == (Head(queue).uses \cap (Tokens \cup st.extra)) \ st.tripped
       IN  /\ IF hits # {}
              THEN /\ pc' = "trip" /\ cur' = s /\ todo' = hits
                   /\ sessions' = Put(s, [st EXCEPT !.tripped = @ \cup hits])
                   /\ UNCHANGED <<act, ending>>
              ELSE AfterTripwire(s, st)
           /\ proven' = IF hits # {} /\ st.pending # 0 THEN proven \cup {st.pending} ELSE proven
           /\ renewed' = IF s \notin Tracked /\ typed[s] > 1 THEN renewed \cup {s} ELSE renewed
    /\ Forget(Tracked \ DOMAIN sessions')
    /\ UNCHANGED <<clock, storeVars, attackerVars, call, planted, unseen, faultVars>>

-----------------------------------------------------------------------------
(* The tripwire: register each credential, record its use, then score.     *)

AnyIntent == CHOOSE i \in Intents : TRUE
TokenRequest(op, s, v) == Request(op, s, AnyIntent, 0, v)
Feedback(s, signal) == Request("feedback", s, AnyIntent, SignalReward(signal), NoToken)

TheToken == CHOOSE v \in todo : TRUE

PostTrip ==
    /\ pc \in {"trip", "check"}
    /\ Post(TokenRequest(IF pc = "trip" THEN "register" ELSE "check", cur, TheToken))
    /\ UNCHANGED <<clock, tables, attackerVars, queue, sessions, pc, cur, act, todo,
                   ending, tasks, ghosts, hurt>>

(* Mutant: a hit is left for the next classification to find.              *)
ScoreHitLater == AfterTripwire(cur, sessions[cur])

(* _resolve_hit has nothing to score without a pending decision.           *)
ScoreHit ==
    IF sessions[cur].pending # 0 THEN Stay("hit", sessions)
    ELSE AfterTripwire(cur, sessions[cur])

(* The next hit of the command, or the end of the loop over them.          *)
NextHit ==
    IF todo = {TheToken} THEN ScoreHit
    ELSE /\ pc' = "trip" /\ todo' = todo \ {TheToken}
         /\ UNCHANGED <<sessions, cur, act, ending>>

(* The status of the two answers is not looked at.                         *)
TripReplied ==
    /\ pc \in {"trip", "check"}
    /\ Replied("ok") \/ Replied("error")
    /\ IF pc = "trip" THEN Stay("check", sessions) ELSE NextHit
    /\ Forget(Tracked \ DOMAIN sessions')
    /\ UNCHANGED <<clock, tables, attackerVars, queue, ghosts, faultVars>>

TripFails ==
    /\ pc \in {"trip", "check"}
    /\ RaisesException
    /\ NextHit
    /\ hurt' = hurt \cup {cur}
    /\ Forget(Tracked \ DOMAIN sessions')
    /\ UNCHANGED <<clock, tables, attackerVars, queue, ghosts, faults>>

PostHit ==
    /\ pc = "hit"
    /\ Post(Feedback(cur, "honeytoken_triggered"))
    /\ UNCHANGED <<clock, tables, attackerVars, queue, sessions, pc, cur, act, todo,
                   ending, tasks, ghosts, hurt>>

HitReplied ==
    /\ pc = "hit"
    /\ Replied("ok")
    /\ AfterTripwire(cur, [sessions[cur] EXCEPT !.pending = 0])
    /\ Forget(Tracked \ DOMAIN sessions')
    /\ UNCHANGED <<clock, tables, attackerVars, queue, ghosts, faultVars>>

(* The decision stays pending, to be scored by whatever comes next.        *)
HitFails ==
    /\ pc = "hit"
    /\ RequestFails
    /\ AfterTripwire(cur, sessions[cur])
    /\ hurt' = hurt \cup {cur}
    /\ Forget(Tracked \ DOMAIN sessions')
    /\ UNCHANGED <<clock, tables, attackerVars, queue, ghosts, faults>>

-----------------------------------------------------------------------------
(* _classify_and_adapt.  The classifier may answer any intent.             *)

PostClassify ==
    /\ pc = "classify"
    /\ \E i \in Intents : Post(Request("classify", cur, i, 0, NoToken))
    /\ UNCHANGED <<clock, tables, attackerVars, queue, sessions, pc, cur, act, todo,
                   ending, tasks, ghosts, hurt>>

ClassifyReplied ==
    /\ pc = "classify"
    /\ Replied("ok")
    /\ LET d == work[call].dec
           a == decisions[d].action
           st == [sessions[cur] EXCEPT !.unclassified = 0, !.classified = clock,
                                       !.pending = d, !.since = clock]
       IN  IF a \in st.deployed THEN EndEvent(Put(cur, st))
           ELSE /\ pc' = "plant" /\ act' = a
                /\ sessions' = Put(cur, st)
                /\ UNCHANGED <<cur, todo, ending>>
    /\ Forget(Tracked \ DOMAIN sessions')
    /\ UNCHANGED <<clock, tables, attackerVars, queue, ghosts, faultVars>>

ClassifyFails ==
    /\ pc = "classify"
    /\ RequestFails
    /\ EndEvent(sessions)
    /\ hurt' = hurt \cup {cur}
    /\ Forget(Tracked \ DOMAIN sessions')
    /\ UNCHANGED <<clock, tables, attackerVars, queue, ghosts, faults>>

-----------------------------------------------------------------------------
(* _deploy: the bundle goes in now, generated content in the background.   *)

Deployed == Put(cur, [sessions[cur] EXCEPT !.deployed = @ \cup {act}])
Generate(s) == [session |-> s, tracked |-> TRUE, stage |-> "generate"]

(* The end of _deploy and the line after it, with the task of _spawn.      *)
FinishDeploy(spawned) ==
    /\ EndEvent(Deployed)
    /\ LET gone == Tracked \ DOMAIN sessions' IN
           tasks' = {IF t.session \in gone THEN [t EXCEPT !.tracked = FALSE] ELSE t :
                        t \in tasks \cup spawned}

(* The broker answers 200.  It has placed the files, or has no environment *)
(* for the attacker any more: the courier does not look which.             *)
BrokerAnswers ==
    /\ pc = "plant"
    /\ IF Bundle[act] = {} THEN FinishDeploy({Generate(cur)})
       ELSE /\ pc' = "declare" /\ todo' = Bundle[act]
            /\ tasks' = tasks \cup {Generate(cur)}
            /\ UNCHANGED <<sessions, cur, act, ending>>
    /\ UNCHANGED <<clock, storeVars, attackerVars, queue, call, ghosts, faultVars>>

(* It cannot be reached, fails, or answers too late: nothing is declared,  *)
(* and the action counts as deployed.                                      *)
BrokerFails ==
    /\ pc = "plant"
    /\ Fault("broker")
    /\ FinishDeploy({Generate(cur)})
    /\ UNCHANGED <<clock, storeVars, attackerVars, queue, call, ghosts, hurt>>

(* _register_tokens declares the bundle's credentials one by one, and goes *)
(* on whatever becomes of each request.                                    *)
PostDeclare ==
    /\ pc = "declare"
    /\ Post(TokenRequest("register", cur, TheToken))
    /\ UNCHANGED <<clock, tables, attackerVars, queue, sessions, pc, cur, act, todo,
                   ending, tasks, ghosts, hurt>>

DeclareDone ==
    /\ pc = "declare"
    /\ \/ Replied("ok") /\ UNCHANGED hurt
       \/ RequestFails /\ hurt' = hurt \cup {cur}
    /\ IF todo = {TheToken} THEN FinishDeploy({})
       ELSE /\ todo' = todo \ {TheToken}
            /\ UNCHANGED <<sessions, pc, cur, act, ending, tasks>>
    /\ UNCHANGED <<clock, tables, attackerVars, queue, ghosts, faults>>

(* Mutant: the generated credentials are planted and not watched for.      *)
GenerationUnwatched(t) ==
    /\ Awaiting
    /\ t.stage = "generate"
    /\ \/ tasks' = tasks \ {t}
       \/ tasks' = (tasks \ {t}) \cup {[t EXCEPT !.stage = "plant"]}
    /\ UNCHANGED <<clock, storeVars, attackerVars, queue, sessions, loopVars, ghosts,
                   faultVars>>

(* _generate_and_plant.  The brain may produce nothing, with or without a  *)
(* fault.  Its credentials join the tripwire of the state that asked,      *)
(* tracked or not, before the files are sent to the broker.  If they do    *)
(* not get there, nobody can come across them.  (Values of fewer than ten  *)
(* characters are passed over; every type generated is longer.)            *)
GenerationReturns(t) ==
    /\ Awaiting
    /\ t.stage = "generate"
    /\ \/ /\ tasks' = tasks \ {t}
          /\ UNCHANGED sessions
       \/ /\ tasks' = (tasks \ {t}) \cup {[t EXCEPT !.stage = "plant"]}
          /\ sessions' = IF t.tracked THEN Put(t.session,
                 [sessions[t.session] EXCEPT !.extra = @ \cup {t.session}]) ELSE sessions
    /\ UNCHANGED <<clock, storeVars, attackerVars, queue, loopVars, ghosts, faultVars>>

GeneratedPlanted(t) ==
    /\ Awaiting
    /\ t.stage = "plant"
    /\ tasks' = tasks \ {t}
    /\ planted' = planted \cup {t.session}
    /\ UNCHANGED <<clock, storeVars, attackerVars, queue, sessions, loopVars,
                   proven, unseen, renewed, faultVars>>

-----------------------------------------------------------------------------
(* _resolve_on_close, for a session that closed or states that expired.    *)

Engaged(st) == st.unclassified > 0
Unobserved(st) == ~Engaged(st) /\ st.since # 0 /\ clock - st.since < Grace

(* `st` is dealt with: the next one, or the end of the event.              *)
Resolved(st) ==
    IF ending # {st}
    THEN /\ ending' = ending \ {st} /\ cur' = Nobody
         /\ UNCHANGED <<sessions, pc, act, todo>>
    ELSE IF pc = "close" THEN EndEvent(sessions)
    ELSE /\ ending' = {} /\ cur' = Nobody /\ pc' = "get"
         /\ UNCHANGED <<sessions, act, todo>>

(* Nothing is pending, or nothing was observed.                            *)
LeaveUnresolved ==
    /\ pc \in {"close", "idle"} /\ call = NoCall
    /\ \E st \in ending :
           /\ st.pending = 0 \/ Unobserved(st)
           /\ Resolved(st)
           /\ unseen' = IF st.pending # 0 THEN unseen \cup {st.pending} ELSE unseen
    /\ Forget(Tracked \ DOMAIN sessions')
    /\ UNCHANGED <<clock, storeVars, attackerVars, queue, call, planted,
                   proven, renewed, faultVars>>

PostResolution ==
    /\ pc \in {"close", "idle"}
    /\ \E st \in ending :
           /\ st.pending # 0 /\ ~Unobserved(st)
           /\ cur' = st.session
           /\ Post(Feedback(st.session,
                  IF Engaged(st) THEN "session_continued" ELSE "session_terminated"))
    /\ UNCHANGED <<clock, tables, attackerVars, queue, sessions, pc, act, todo,
                   ending, tasks, ghosts, hurt>>

StateInHand == CHOOSE st \in ending : st.session = cur

ResolutionReplied ==
    /\ pc \in {"close", "idle"}
    /\ Replied("ok")
    /\ Resolved(StateInHand)
    /\ Forget(Tracked \ DOMAIN sessions')
    /\ UNCHANGED <<clock, tables, attackerVars, queue, ghosts, faultVars>>

ResolutionFails ==
    /\ pc \in {"close", "idle"}
    /\ RequestFails
    /\ Resolved(StateInHand)
    /\ hurt' = hurt \cup {cur}
    /\ Forget(Tracked \ DOMAIN sessions')
    /\ UNCHANGED <<clock, tables, attackerVars, queue, ghosts, faults>>

-----------------------------------------------------------------------------
(* The brain's side                                                        *)

BrainStep(w) ==
    /\ Handle(w)
    /\ UNCHANGED <<clock, attackerVars, queue, sessions, loopVars, tasks, ghosts,
                   faultVars>>

(* A write waits five seconds for the lock and gives up, and the request   *)
(* fails; a reward is then computed without the tokens.                    *)
DatabaseFails(w) ==
    /\ Fault("database")
    /\ \/ /\ work[w].step \in {"apply", "store", "write"}
          /\ GoTo(w, "error")
          /\ UNCHANGED <<tables, overlapped>>
       \/ JudgeBlindly(w)
    /\ UNCHANGED <<clock, attackerVars, queue, sessions, loopVars,
                   tasks, ghosts, hurt>>

AnalystDeactivates ==
    /\ Fault("analyst")
    /\ \E r \in DOMAIN tokens : Deactivate(r)
    /\ UNCHANGED <<clock, attackerVars, queue, sessions, loopVars, tasks, ghosts, hurt>>

CourierStep ==
    \/ TakeClosed \/ TakeControlCommand \/ TakeCommand
    \/ PostTrip \/ TripReplied \/ PostHit \/ HitReplied
    \/ PostClassify \/ ClassifyReplied
    \/ BrokerAnswers \/ PostDeclare \/ DeclareDone
    \/ LeaveUnresolved \/ PostResolution \/ ResolutionReplied

Failures == TripFails \/ HitFails \/ ClassifyFails \/ BrokerFails \/ ResolutionFails

Attacker ==
    /\ Awaiting
    /\ \E s \in Sessions : Leave(s) \/ \E uses \in SUBSET Values : Type(s, uses)
Background == \E t \in tasks : GenerationReturns(t) \/ GeneratedPlanted(t)
Brain == \E w \in Workers : BrainStep(w) \/ DropReply(w)
Trouble == GiveUp \/ AnalystDeactivates \/ \E w \in Workers : DatabaseFails(w)

Next == Tick \/ Attacker \/ CourierStep \/ Failures \/ Background \/ Brain \/ Trouble

Spec == Init /\ [][Next]_vars

(* The event loop resumes the courier and its tasks when what they await   *)
(* is there, and a worker finishes what it serves.  Nothing is assumed of  *)
(* attackers, time or faults.                                              *)
FairSpec ==
    /\ Spec
    /\ WF_vars(CourierStep \/ Failures)
    /\ WF_vars(Brain)
-----------------------------------------------------------------------------
(* Properties                                                              *)

DecisionsOf(m) == {d \in DOMAIN decisions : ArmOf(d) = m}
Earned(ds) == MapThenSumSet(LAMBDA d : decisions[d].reward, ds)

(* An arm's posterior is its prior and the rewards of its resolved         *)
(* decisions, each counted once, and it was chosen as often as there are   *)
(* decisions for it: select_action and resolve_decision write different    *)
(* columns of the row, from reads of different transactions.  Two requests *)
(* in service at once can break it, as both may find a decision unresolved.*)
ArmsMatchDecisions ==
    overlapped \/ \A m \in Arms :
        LET row == Row(m)
            chosen == DecisionsOf(m)
            resolved == {d \in chosen : decisions[d].resolved}
        IN  /\ row.total = Earned(resolved)
            /\ row.alpha = 10 + row.total
            /\ row.alpha + row.beta = 20 + FullReward * Cardinality(resolved)
            /\ row.picked = Cardinality(chosen)

(* register_honeytoken: every registration of a value converges on one     *)
(* row, or check_honeytoken raises for that value from then on.            *)
OneRowPerToken ==
    overlapped \/ \A v \in Values : Cardinality(RowsOf(v)) <= 1

(* The note in _resolve_on_close: a credential used while a decision was   *)
(* pending wins over every weaker signal, in whatever order the tripwire,  *)
(* the next classification, the close and the expiry come.                 *)
StrongestEvidenceWins ==
    \A d \in proven :
        decisions[d].resolved /\ decisions[d].session \notin hurt
            => decisions[d].reward = FullReward

InService(s) == pc = "classify" /\ cur = s /\ call # NoCall

(* A decision is scored, or the courier still holds the state that will    *)
(* score it, or nobody saw the decoy; unless a request failed.  Nothing    *)
(* else would ever resolve it: not the close of a session that a late      *)
(* command opens again, nor its expiry.                                    *)
NoDecisionForgotten ==
    \A d \in DOMAIN decisions :
        \/ decisions[d].resolved
        \/ d \in unseen
        \/ \E st \in Range(sessions) \cup ending : st.pending = d
        \/ InService(decisions[d].session)
        \/ decisions[d].session \in hurt

(* A session whose commands carry adaptive=False gets a static honeypot:   *)
(* nothing is decided, registered, generated or planted on its account,    *)
(* also when its state is dropped and made again.                          *)
ControlArmIsStatic ==
    /\ \A d \in DOMAIN decisions : adaptive[decisions[d].session]
    /\ \A t \in tasks : adaptive[t.session]
    /\ \A s \in planted : adaptive[s]
    /\ \A r \in DOMAIN tokens : \E s \in Sessions :
           adaptive[s] /\ Honeypot[s] = tokens[r].honeypot

(* A generated credential that reached the attacker's container is in the  *)
(* tripwire of the session it was generated for, as long as that session's *)
(* state was not dropped in between.                                       *)
GeneratedBaitIsWatched ==
    \A s \in Tracked \ renewed :
        s \in planted => s \in sessions[s].extra

IsClosing(s) == \E k \in DOMAIN queue : queue[k].kind = "closed" /\ queue[k].session = s

(* The close of a session settles what it has pending, whatever the brain  *)
(* does: a request that fails or hangs never holds up the queue.           *)
CloseSettles ==
    \A s \in Sessions :
        IsClosing(s) ~> (Unresolved(s) \subseteq unseen \/ s \in hurt)
=============================================================================
