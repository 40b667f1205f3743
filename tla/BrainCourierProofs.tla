-------------------------- MODULE BrainCourierProofs --------------------------
(***************************************************************************)
(* What the courier and the brain's tables keep of each other, for any     *)
(* number of sessions, workers, commands and faults.                       *)
(***************************************************************************)
EXTENDS BrainCourier, FoldProofs, FiniteSetTheorems, SequenceTheorems,
        WellFoundedInduction, TLAPS

-----------------------------------------------------------------------------
(* The inductive invariant, part by part.                                  *)

(* A request in service, as far as its handler has come.                   *)
Counts == UNION {[S -> Nat] : S \in SUBSET Actions}
Job == [op : {"classify", "feedback", "register", "check"}, step : Steps \ {"idle"},
        session : Sessions, intent : Intents, pay : 0..FullReward,
        value : Values \cup {NoToken}, dec : Nat, seen : Counts, row : Nat]

StoreInv ==
    /\ clock \in Nat
    /\ decisions \in Seq(Decision)
    /\ \A d \in DOMAIN decisions : ArmOf(d) \in Arms
    /\ DOMAIN arms \subseteq Arms /\ \A m \in DOMAIN arms : arms[m] \in Arm
    /\ tokens \in Seq(TokenRow)
    /\ work \in [Workers -> Job \cup {Idle}]

(* What a handler has in hand at each of its steps.                        *)
StepsOf(op) ==
    CASE op = "classify" -> {"look", "judge", "check", "apply", "pick", "store", "ok", "error"}
      [] op = "feedback" -> {"look", "check", "apply", "ok", "error"}
      [] OTHER -> {"find", "write", "ok", "error"}

Knows(j) == j.step \in {"judge", "check", "apply"} \/ (j.step = "ok" /\ j.op = "classify")

JobFits(j) ==
    /\ j.step \in StepsOf(j.op)
    /\ j.op \in {"register", "check"} => j.value \in Values
    /\ j.row \in 0..Len(tokens)
    /\ j.step = "write" /\ j.op = "check" => j.row # 0
    /\ Knows(j) => j.dec \in DOMAIN decisions /\ decisions[j.dec].session = j.session
    /\ j.dec \in 0..Len(decisions)

JobsInv == \A w \in Workers : work[w] # Idle => JobFits(work[w])

WorldInv ==
    /\ typed \in [Sessions -> Nat]
    /\ ended \subseteq Sessions
    /\ queue \in Seq(Event) /\ Len(queue) <= QueueSize
    /\ faults \in 0..MaxFaults

(* A state is its session's, and its decision too.                         *)
Fits(st) ==
    /\ st \in State
    /\ st.seen <= clock /\ st.since <= clock /\ st.classified <= clock
    /\ st.pending # 0 => /\ st.pending \in DOMAIN decisions
                         /\ decisions[st.pending].session = st.session

Whole(tracked) ==
    /\ DOMAIN tracked \subseteq Sessions
    /\ tracked = [s \in DOMAIN tracked |-> tracked[s]]
    /\ \A s \in DOMAIN tracked : tracked[s].session = s /\ Fits(tracked[s])

StatesInv ==
    /\ Whole(sessions)
    /\ \A st \in ending : Fits(st) /\ st.session \notin Tracked
    /\ \A st, ot \in ending : st.session = ot.session => st = ot

(* Where the coroutine is, what it has in hand, and what it has asked for. *)
InEvent == {"trip", "check", "hit", "classify", "plant", "declare"}
OpOf(where) ==
    CASE where \in {"trip", "declare"} -> "register"
      [] where = "check" -> "check"
      [] where = "classify" -> "classify"
      [] where \in {"hit", "close", "idle"} -> "feedback"

LoopInv ==
    /\ pc \in InEvent \cup {"get", "close", "idle"}
    /\ call \in Workers \cup {NoCall, Lost}
    /\ todo \subseteq Values
    /\ act \in Actions \cup {Nobody}
    /\ pc = "get" => cur = Nobody
    /\ pc \in InEvent => cur \in Tracked
    /\ pc \in {"close", "idle"} <=> ending # {}
    /\ pc \in {"close", "idle"} =>
           IF call = NoCall THEN cur = Nobody ELSE \E st \in ending : st.session = cur
    /\ pc \in {"get", "plant"} => call = NoCall
    /\ pc \in {"trip", "check", "declare"} => todo # {}
    /\ pc \in {"plant", "declare"} => act \in Actions
    /\ call \in Workers =>
           /\ work[call] # Idle
           /\ work[call].session = cur
           /\ work[call].op = OpOf(pc)

TaskInv ==
    /\ tasks \subseteq [session : Sessions, tracked : BOOLEAN, stage : {"generate", "plant"}]
    /\ \A t \in tasks : t.tracked => t.session \in Tracked

BaseInv == StoreInv /\ JobsInv /\ WorldInv /\ StatesInv /\ LoopInv /\ TaskInv

(* The control arm: whatever could lead to a write is an adaptive session's.*)
ArmInv ==
    /\ ControlArmIsStatic
    /\ pc \in InEvent => adaptive[cur]
    /\ \A w \in Workers :
           work[w] # Idle /\ work[w].op \in {"classify", "register"} => adaptive[work[w].session]

(* Two registrations at once are needed for a second row.                  *)
UniqueInv ==
    overlapped \/
        /\ \A v, w \in Workers : Serving(v) /\ Serving(w) => v = w
        /\ \A r, q \in DOMAIN tokens : tokens[r].value = tokens[q].value => r = q
        /\ \A w \in Workers :
               work[w].step = "write" /\ work[w].op = "register" /\ work[w].row = 0 =>
                   \A r \in DOMAIN tokens : tokens[r].value # work[w].value

(* A session is looked after while none of its requests failed.  Then only *)
(* one request at a time is at its decisions, the one the courier awaits or*)
(* has just given up; one decision at most is unresolved; and a handler    *)
(* that has looked knows which.                                            *)
OnDecisions(w) == work[w] # Idle /\ work[w].op \in {"classify", "feedback"}
Sound(w) == OnDecisions(w) /\ work[w].session \notin hurt

Attended(w) ==
    /\ w = call \/ call = Lost
    /\ work[w].session = cur
    /\ work[w].op = OpOf(pc)
    /\ pc = "hit" => work[w].pay = FullReward

ExclusiveInv ==
    /\ \A w \in Workers : Sound(w) => Attended(w)
    /\ \A v, w \in Workers : Sound(v) /\ Sound(w) /\ work[v].session = work[w].session => v = w

OneOpen(s) == \A d, e \in Unresolved(s) : d = e
Ready(w, s) ==
    /\ work[w].step \in {"judge", "check", "apply"} => work[w].dec \in Unresolved(s)
    /\ work[w].step \in {"pick", "store"} => Unresolved(s) = {}
    /\ work[w].step = "ok" /\ work[w].op = "classify" => work[w].dec \in Unresolved(s)
    /\ work[w].step = "ok" /\ work[w].op = "feedback" => Unresolved(s) = {}

OpenInv ==
    \A s \in Sessions \ hurt :
        /\ OneOpen(s)
        /\ \A w \in Workers : OnDecisions(w) /\ work[w].session = s => Ready(w, s)

(* The states the courier holds, tracked or to be resolved, by what is     *)
(* pending in them.  A pending decision is unresolved, but while a request *)
(* settles it; and no unresolved decision is without a holder.             *)
Holds(s, p) == \E st \in Range(sessions) \cup ending : st.session = s /\ st.pending = p
Settles == call # NoCall /\ pc \in {"classify", "hit", "close", "idle"}

PendingInv ==
    \A s \in Sessions \ hurt : \A p \in Nat \ {0} :
        Holds(s, p) => ~decisions[p].resolved \/ (Settles /\ cur = s)

CaredBy(d, s) == d \in unseen \/ Holds(s, d) \/ InService(s) \/ s \in hurt
Cared(d) ==
    decisions[d].resolved \/ \E s \in Sessions : s = decisions[d].session /\ CaredBy(d, s)

CareInv == ExclusiveInv /\ OpenInv /\ PendingInv /\ \A d \in DOMAIN decisions : Cared(d)

(* A use of a credential is on its way to the decision it proves.          *)
Proving(d, s) == pc \in {"trip", "check", "hit"} /\ cur = s /\ Holds(s, d)
ProvenInv ==
    \A d \in proven :
        /\ d \in DOMAIN decisions
        /\ \E s \in Sessions :
               /\ s = decisions[d].session
               /\ \/ s \in hurt
                  \/ decisions[d].resolved /\ decisions[d].reward = FullReward
                  \/ ~decisions[d].resolved /\ Proving(d, s)

(* Who ever had a task has typed a command, and is renewed when made again.*)
Met(s) == s \in Tracked \/ s \in planted \/ \E t \in tasks : t.session = s
CommandOf(k, s) == k \in DOMAIN queue /\ queue[k].kind = "command" /\ queue[k].session = s

TypedInv ==
    \A s \in Sessions :
        /\ Met(s) => typed[s] >= 1
        /\ \A k \in Nat : CommandOf(k, s) => typed[s] >= (IF Met(s) THEN 2 ELSE 1)
        /\ \A k, l \in Nat : CommandOf(k, s) /\ CommandOf(l, s) /\ l # k => typed[s] >= 2

BaitInv ==
    /\ GeneratedBaitIsWatched
    /\ \A t \in tasks : t.session \in Tracked \ renewed =>
           /\ t.tracked
           /\ t.stage = "plant" => t.session \in sessions[t.session].extra

-----------------------------------------------------------------------------
(* Facts about the operators.                                              *)

LEMMA IdleIsNoJob == Idle \notin Job /\ \A j \in Job : j # Idle
BY DEF Idle, Job, Steps

LEMMA NoTokenIsNoSession == Nobody \notin Sessions /\ Nobody \notin Values
BY StoreAssumption DEF Nobody, Values

(* A request as it is made fits.                                           *)
LEMMA RequestFits ==
    ASSUME NEW op \in {"classify", "feedback", "register", "check"}, NEW s \in Sessions,
           NEW i \in Intents, NEW p \in 0..FullReward, NEW v \in Values \cup {NoToken},
           op \in {"register", "check"} => v \in Values,
           tokens \in Seq(TokenRow), decisions \in Seq(Decision)
    PROVE  /\ Request(op, s, i, p, v) \in Job
           /\ JobFits(Request(op, s, i, p, v))
           /\ Request(op, s, i, p, v).step \in {"look", "find"}
           /\ Request(op, s, i, p, v).op = op
           /\ Request(op, s, i, p, v).session = s
           /\ Request(op, s, i, p, v).pay = p
           /\ Request(op, s, i, p, v).value = v
           /\ Request(op, s, i, p, v).row = 0
<1> DEFINE r == Request(op, s, i, p, v)
<1>1. NoArms \in Counts
  <2>1. NoArms \in [{} -> Nat]
    BY DEF NoArms
  <2> QED BY <2>1 DEF Counts
<1>2. r \in Job
  BY <1>1 DEF Request, Job, Steps
<1>3. Len(tokens) \in Nat /\ Len(decisions) \in Nat
  OBVIOUS
<1>4. JobFits(r)
  BY <1>3 DEF JobFits, Request, StepsOf, Knows
<1> QED BY <1>2, <1>4 DEF Request

LEMMA AnIntent == AnyIntent \in Intents
BY StoreAssumption DEF AnyIntent

(* A function with one value changed.                                      *)
LEMMA WorkChanged ==
    ASSUME NEW w \in Workers, NEW j \in Job \cup {Idle},
           work \in [Workers -> Job \cup {Idle}],
           work' = [work EXCEPT ![w] = j]
    PROVE  /\ work' \in [Workers -> Job \cup {Idle}]
           /\ work'[w] = j
           /\ \A v \in Workers \ {w} : work'[v] = work[v]
OBVIOUS

(* What a handler does leaves its request as it was.                       *)
SameRequest(w) ==
    /\ work'[w] \in Job
    /\ work'[w].op = work[w].op
    /\ work'[w].session = work[w].session
    /\ work'[w].intent = work[w].intent
    /\ work'[w].value = work[w].value
    /\ \A v \in Workers \ {w} : work'[v] = work[v]

LEMMA StepSet ==
    ASSUME NEW w \in Workers, NEW step \in Steps \ {"idle"},
           work \in [Workers -> Job \cup {Idle}], work[w] \in Job,
           GoTo(w, step)
    PROVE  /\ work' \in [Workers -> Job \cup {Idle}]
           /\ SameRequest(w)
           /\ work'[w].step = step
           /\ work'[w].dec = work[w].dec /\ work'[w].row = work[w].row
           /\ work'[w].pay = work[w].pay
<1> DEFINE j == [work[w] EXCEPT !.step = step]
<1>1. j \in Job /\ j.op = work[w].op /\ j.session = work[w].session /\ j.intent = work[w].intent
      /\ j.value = work[w].value /\ j.step = step /\ j.dec = work[w].dec /\ j.row = work[w].row
      /\ j.pay = work[w].pay
  BY DEF Job
<1>2. work' = [work EXCEPT ![w] = j]
  BY DEF GoTo, Continue
<1> HIDE DEF j
<1>3. work' \in [Workers -> Job \cup {Idle}] /\ work'[w] = j
      /\ \A v \in Workers \ {w} : work'[v] = work[v]
  BY <1>1, <1>2
<1> QED BY <1>1, <1>3 DEF SameRequest

(* The tables grow, and no row changes hands.                              *)
Grows ==
    /\ decisions' \in Seq(Decision) /\ tokens' \in Seq(TokenRow)
    /\ Len(decisions') >= Len(decisions) /\ Len(tokens') >= Len(tokens)
    /\ \A d \in DOMAIN decisions :
           d \in DOMAIN decisions' /\ decisions'[d].session = decisions[d].session

LEMMA UnchangedGrows ==
    ASSUME StoreInv, UNCHANGED <<decisions, tokens>> PROVE Grows
BY DEF Grows, StoreInv

(* A request that nobody is at fits as it did.                             *)
LEMMA FitsStill ==
    ASSUME StoreInv, NEW j \in Job, JobFits(j), Grows
    PROVE  JobFits(j)'
<1>1. Len(tokens) \in Nat /\ Len(decisions) \in Nat /\ Len(tokens') \in Nat /\ Len(decisions') \in Nat
  BY DEF StoreInv, Grows
<1> QED BY <1>1 DEF JobFits, Grows, Knows

LEMMA DomainIsRange == ASSUME NEW S, NEW q \in Seq(S)
                       PROVE DOMAIN q = 1..Len(q) /\ Len(q) \in Nat /\ \A k \in 1..Len(q) : q[k] \in S
OBVIOUS

-----------------------------------------------------------------------------
(* The brain's handlers.                                                   *)

(* What every step of a handler does.                                      *)
Handled(w) ==
    /\ work' \in [Workers -> Job \cup {Idle}]
    /\ SameRequest(w)
    /\ JobFits(work[w])'
    /\ Grows
    /\ \A d \in DOMAIN decisions' : ArmOf(d)' \in Arms
    /\ DOMAIN arms' \subseteq Arms /\ \A m \in DOMAIN arms' : arms'[m] \in Arm

LEMMA AtWork ==
    ASSUME StoreInv, JobsInv, NEW w \in Workers, work[w].step # "idle"
    PROVE  work[w] \in Job /\ work[w] # Idle /\ JobFits(work[w])
<1>1. work[w] # Idle
  BY DEF Idle
<1> QED BY <1>1 DEF StoreInv, JobsInv

LEMMA Looks == ASSUME StoreInv, JobsInv, NEW w \in Workers, LookForPending(w) PROVE Handled(w)
<1> DEFINE j == work[w]
<1>1. j \in Job /\ JobFits(j) /\ j.step = "look" /\ j.op \in {"classify", "feedback"}
  <2>1. j \in Job /\ JobFits(j) /\ j.step = "look"
    BY AtWork DEF LookForPending
  <2> QED BY <2>1 DEF JobFits, StepsOf, Job
<1>2. Grows
  BY UnchangedGrows DEF LookForPending, tables
<1>3. decisions' = decisions /\ tokens' = tokens /\ arms' = arms
  BY DEF LookForPending, tables
<1>4. CASE Unresolved(j.session) = {}
  <2>1. GoTo(w, IF j.op = "classify" THEN "pick" ELSE "ok")
    BY <1>4 DEF LookForPending
  <2>2. work' \in [Workers -> Job \cup {Idle}] /\ SameRequest(w)
        /\ work'[w].step = (IF j.op = "classify" THEN "pick" ELSE "ok")
        /\ work'[w].dec = j.dec /\ work'[w].row = j.row
    BY <1>1, <2>1, StepSet DEF Steps, StoreInv
  <2>3. JobFits(work[w])'
    BY <1>1, <1>3, <2>2 DEF JobFits, SameRequest, StepsOf, Knows
  <2> QED BY <1>2, <1>3, <2>2, <2>3 DEF Handled, StoreInv, ArmOf
<1>5. CASE Unresolved(j.session) # {}
  <2>1. PICK d \in Latest(Unresolved(j.session)) :
            work' = [work EXCEPT ![w] = [j EXCEPT !.dec = d,
                         !.step = IF j.op = "classify" THEN "judge" ELSE "check"]]
    BY <1>5 DEF LookForPending, Continue
  <2>2. d \in DOMAIN decisions /\ decisions[d].session = j.session /\ d \in Nat
    BY DEF Latest, Unresolved, StoreInv
  <2> DEFINE k == [j EXCEPT !.dec = d, !.step = IF j.op = "classify" THEN "judge" ELSE "check"]
  <2>3. k \in Job /\ k.op = j.op /\ k.session = j.session /\ k.intent = j.intent /\ k.value = j.value
        /\ k.dec = d /\ k.row = j.row /\ k.step = (IF j.op = "classify" THEN "judge" ELSE "check")
    BY <1>1, <2>2 DEF Job, Steps
  <2>4. work' = [work EXCEPT ![w] = k]
    BY <2>1
  <2> HIDE DEF k
  <2>5. work' \in [Workers -> Job \cup {Idle}] /\ SameRequest(w) /\ work'[w] = k
    BY <2>3, <2>4, WorkChanged DEF SameRequest, StoreInv
  <2>6. d \in 0..Len(decisions)
    BY <2>2 DEF StoreInv
  <2>7. JobFits(work[w])'
    BY <1>1, <1>3, <2>2, <2>3, <2>5, <2>6 DEF JobFits, StepsOf, Knows
  <2> QED BY <1>2, <1>3, <2>5, <2>7 DEF Handled, StoreInv, ArmOf
<1> QED BY <1>4, <1>5

LEMMA RewardsAreRewards ==
    ASSUME StoreInv, NEW s \in Sessions, NEW d \in DOMAIN decisions, NEW i \in Intents
    PROVE  /\ ComputeReward(s, d, i) \in 0..FullReward
           /\ ProgressionReward(decisions[d].intent, i) \in 0..FullReward
<1>1. decisions[d].intent \in Nat /\ i \in Nat
  <2>1. decisions[d] \in Decision
    BY DEF StoreInv
  <2>2. decisions[d].intent \in Intents
    BY <2>1 DEF Decision
  <2> QED BY <2>2, StoreAssumption
<1> QED BY <1>1 DEF ComputeReward, ProgressionReward, FullReward

(* With the tokens or without them.                                        *)
LEMMA Judges ==
    ASSUME StoreInv, JobsInv, NEW w \in Workers, JudgeOutcome(w) \/ JudgeBlindly(w)
    PROVE  /\ Handled(w) /\ work'[w].step = "check" /\ work'[w].dec = work[w].dec
           /\ work[w].step = "judge" /\ UNCHANGED <<tables, overlapped>>
<1> DEFINE j == work[w]
<1>1. j \in Job /\ JobFits(j) /\ j.step = "judge"
  BY AtWork DEF JudgeOutcome, JudgeBlindly
<1>2. PICK pay \in 0..FullReward : work' = [work EXCEPT ![w] = [j EXCEPT !.step = "check", !.pay = pay]]
  <2>1. /\ ComputeReward(j.session, j.dec, j.intent) \in 0..FullReward
        /\ ProgressionReward(decisions[j.dec].intent, j.intent) \in 0..FullReward
    BY <1>1, RewardsAreRewards DEF Job, JobFits, Knows
  <2> QED BY <2>1 DEF JudgeOutcome, JudgeBlindly, Continue
<1> DEFINE k == [j EXCEPT !.step = "check", !.pay = pay]
<1>3. work' = [work EXCEPT ![w] = k]
  BY <1>2
<1>a. decisions' = decisions /\ tokens' = tokens /\ arms' = arms /\ overlapped' = overlapped
  BY DEF JudgeOutcome, JudgeBlindly, tables
<1>4. k \in Job /\ k.op = j.op /\ k.session = j.session /\ k.intent = j.intent /\ k.value = j.value
      /\ k.dec = j.dec /\ k.row = j.row /\ k.step = "check"
  BY <1>1, <1>2 DEF Job, Steps
<1> HIDE DEF k
<1>5. work' \in [Workers -> Job \cup {Idle}] /\ SameRequest(w) /\ work'[w] = k
  BY <1>3, <1>4, WorkChanged DEF SameRequest, StoreInv
<1>6. JobFits(work[w])'
  <2>1. j.op = "classify"
    BY <1>1 DEF JobFits, StepsOf, Job
  <2>2. work'[w].step \in StepsOf(work'[w].op)
    BY <1>4, <1>5, <2>1 DEF StepsOf
  <2>3. j.dec \in DOMAIN decisions /\ decisions[j.dec].session = j.session
    BY <1>1 DEF JobFits, Knows
  <2>4. j.row \in 0..Len(tokens) /\ j.dec \in 0..Len(decisions)
    BY <1>1 DEF JobFits
  <2> HIDE DEF j
  <2> QED BY <1>a, <1>4, <1>5, <2>1, <2>2, <2>3, <2>4 DEF JobFits
<1>7. Grows
  BY <1>a, UnchangedGrows
<1>8. work[w].step = "judge" /\ work'[w].step = "check" /\ work'[w].dec = work[w].dec
  BY <1>1, <1>4, <1>5
<1>9. UNCHANGED <<tables, overlapped>>
  BY <1>a DEF tables
<1> QED BY <1>a, <1>5, <1>6, <1>7, <1>8, <1>9 DEF Handled, StoreInv, ArmOf

LEMMA Checks == ASSUME StoreInv, JobsInv, NEW w \in Workers, CheckUnresolved(w) PROVE Handled(w)
<1> DEFINE j == work[w]
           next == IF ~decisions[j.dec].resolved THEN "apply"
                   ELSE IF j.op = "classify" THEN "pick" ELSE "ok"
<1>1. j \in Job /\ JobFits(j) /\ j.step = "check"
  BY AtWork DEF CheckUnresolved
<1>2. j.op \in {"classify", "feedback"}
  BY <1>1 DEF JobFits, StepsOf, Job
<1>3. decisions' = decisions /\ tokens' = tokens /\ arms' = arms /\ GoTo(w, next)
  BY DEF CheckUnresolved, tables
<1>4. next \in {"apply", "pick", "ok"} /\ (next = "pick" => j.op = "classify")
      /\ (next = "ok" => j.op # "classify")
  OBVIOUS
<1> HIDE DEF next
<1>5. work' \in [Workers -> Job \cup {Idle}] /\ SameRequest(w) /\ work'[w].step = next
      /\ work'[w].dec = j.dec /\ work'[w].row = j.row
  BY <1>1, <1>3, <1>4, StepSet DEF Steps, StoreInv
<1>6. JobFits(work[w])'
  BY <1>1, <1>2, <1>3, <1>4, <1>5 DEF JobFits, SameRequest, StepsOf, Knows
<1>7. Grows
  BY <1>3, UnchangedGrows
<1> QED BY <1>3, <1>5, <1>6, <1>7 DEF Handled, StoreInv, ArmOf

LEMMA RowIsArm == ASSUME StoreInv, NEW m PROVE Row(m) \in Arm
BY DEF StoreInv, Row, NewArm, Arm

LEMMA Rewarded ==
    ASSUME NEW a \in Arm, NEW pay \in 0..FullReward
    PROVE  [a EXCEPT !.alpha = @ + pay, !.beta = @ + (FullReward - pay), !.total = @ + pay] \in Arm
<1> DEFINE q == FullReward - pay
<1>1. q \in Nat /\ pay \in Nat
  BY DEF FullReward
<1>2. a.alpha \in Nat /\ a.beta \in Nat /\ a.total \in Nat /\ a.picked \in Nat
  BY DEF Arm
<1> HIDE DEF q
<1>3. a.alpha + pay \in Nat /\ a.beta + q \in Nat /\ a.total + pay \in Nat
  BY <1>1, <1>2
<1>4. [a EXCEPT !.alpha = @ + pay, !.beta = @ + q, !.total = @ + pay] \in Arm
  BY <1>3 DEF Arm
<1> QED BY <1>4 DEF q

LEMMA Applies == ASSUME StoreInv, JobsInv, NEW w \in Workers, ApplyReward(w) PROVE Handled(w)
<1> DEFINE j == work[w]  d == j.dec  pay == j.pay  m == ArmOf(d)
           r == [Row(m) EXCEPT !.alpha = @ + pay, !.beta = @ + (FullReward - pay), !.total = @ + pay]
           next == AfterResolve(j.op)
<1>1. j \in Job /\ JobFits(j) /\ j.step = "apply"
  BY AtWork DEF ApplyReward
<1>2. j.op \in {"classify", "feedback"}
  BY <1>1 DEF JobFits, StepsOf, Job
<1>3. d \in DOMAIN decisions /\ pay \in 0..FullReward /\ decisions \in Seq(Decision)
  BY <1>1 DEF JobFits, Knows, Job, StoreInv
<1>4. decisions' = [decisions EXCEPT ![d].resolved = TRUE, ![d].reward = pay]
  BY DEF ApplyReward
<1>5. decisions' \in Seq(Decision) /\ Len(decisions') = Len(decisions)
      /\ \A e \in DOMAIN decisions : e \in DOMAIN decisions' /\ decisions'[e].session = decisions[e].session
  <2> DEFINE x == [decisions[d] EXCEPT !.resolved = TRUE, !.reward = pay]
  <2>1. x \in Decision /\ x.session = decisions[d].session
    <3>1. decisions[d] \in Decision
      BY <1>3
    <3> QED BY <1>3, <3>1 DEF Decision
  <2>2. decisions' = [decisions EXCEPT ![d] = x]
    BY <1>3, <1>4
  <2> HIDE DEF x
  <2> QED BY <2>1, <2>2, <1>3
<1>6. tokens' = tokens /\ GoTo(w, next)
  BY DEF ApplyReward
<1>7. Grows
  BY <1>5, <1>6 DEF Grows, StoreInv
<1>8. m \in Arms /\ \A e \in DOMAIN decisions' : ArmOf(e)' \in Arms
  <2>1. \A e \in DOMAIN decisions : ArmOf(e)' = ArmOf(e)
    BY <1>3, <1>4 DEF ArmOf
  <2>2. DOMAIN decisions' = DOMAIN decisions
    BY <1>4
  <2>3. \A e \in DOMAIN decisions : ArmOf(e) \in Arms
    BY DEF StoreInv
  <2> QED BY <2>1, <2>2, <2>3, <1>3
<1>9. DOMAIN arms' \subseteq Arms /\ \A n \in DOMAIN arms' : arms'[n] \in Arm
  <2>1. r \in Arm
    BY <1>3, RowIsArm, Rewarded
  <2> HIDE DEF r
  <2>2. arms' = [n \in DOMAIN arms \cup {m} |-> IF n # m THEN arms[n] ELSE r]
    BY DEF ApplyReward, r
  <2> HIDE DEF m
  <2> QED BY <2>1, <2>2, <1>8 DEF StoreInv
<1>10. next \in {"pick", "look"} /\ (next = "pick" => j.op = "classify")
  BY <1>2 DEF AfterResolve
<1> HIDE DEF next
<1>11. work' \in [Workers -> Job \cup {Idle}] /\ SameRequest(w) /\ work'[w].step = next
      /\ work'[w].dec = j.dec /\ work'[w].row = j.row
  BY <1>1, <1>6, <1>10, StepSet DEF Steps, StoreInv
<1>12. JobFits(work[w])'
  BY <1>1, <1>2, <1>5, <1>6, <1>10, <1>11 DEF JobFits, SameRequest, StepsOf, Knows
<1> QED BY <1>7, <1>8, <1>9, <1>11, <1>12 DEF Handled

(* What select_action has read of the candidates' arms.                    *)
LEMMA ReadsArms == ASSUME StoreInv, JobsInv, NEW w \in Workers, ReadArms(w) PROVE Handled(w)
<1> DEFINE j == work[w]
           known == {a \in Catalog[j.intent] : <<j.intent, a>> \in DOMAIN arms}
           seen == [a \in known |-> arms[<<j.intent, a>>].picked]
           k == [j EXCEPT !.step = "store", !.seen = seen]
<1>1. j \in Job /\ JobFits(j) /\ j.step = "pick"
  BY AtWork DEF ReadArms
<1>2. seen \in Counts
  <2>1. Catalog[j.intent] \subseteq Actions
    BY <1>1 DEF Job, Actions, Intents, Range
  <2>2. known \in SUBSET Actions
    BY <2>1
  <2>3. \A a \in known : arms[<<j.intent, a>>].picked \in Nat
    BY DEF StoreInv, Arm
  <2> HIDE DEF known
  <2>4. seen \in [known -> Nat]
    BY <2>3
  <2> QED BY <2>2, <2>4 DEF Counts
<1>3. work' = [work EXCEPT ![w] = k]
  BY DEF ReadArms, Continue
<1>a. decisions' = decisions /\ tokens' = tokens /\ arms' = arms
  BY DEF ReadArms, tables
<1> HIDE DEF seen
<1>4. k \in Job /\ k.op = j.op /\ k.session = j.session /\ k.intent = j.intent /\ k.value = j.value
      /\ k.dec = j.dec /\ k.row = j.row /\ k.step = "store"
  BY <1>1, <1>2 DEF Job, Steps
<1> HIDE DEF k
<1>5. work' \in [Workers -> Job \cup {Idle}] /\ SameRequest(w) /\ work'[w] = k
  BY <1>3, <1>4, WorkChanged DEF SameRequest, StoreInv
<1>6. JobFits(work[w])'
  <2>1. k.op = "classify"
    BY <1>1, <1>4 DEF JobFits, StepsOf, Job
  <2> QED BY <1>1, <1>a, <1>4, <1>5, <2>1 DEF JobFits, StepsOf, Knows
<1>7. Grows
  BY <1>a, UnchangedGrows
<1> QED BY <1>a, <1>5, <1>6, <1>7 DEF Handled, StoreInv, ArmOf

LEMMA Appended ==
    ASSUME NEW S, NEW q \in Seq(S), NEW x \in S
    PROVE  /\ Append(q, x) \in Seq(S)
           /\ Len(Append(q, x)) = Len(q) + 1
           /\ DOMAIN Append(q, x) = DOMAIN q \cup {Len(q) + 1}
           /\ Append(q, x)[Len(q) + 1] = x
           /\ \A i \in DOMAIN q : Append(q, x)[i] = q[i]
           /\ Len(q) + 1 \notin DOMAIN q
OBVIOUS

LEMMA Stores == ASSUME StoreInv, JobsInv, NEW w \in Workers, StoreDecision(w) PROVE Handled(w)
<1> DEFINE j == work[w]  i == j.intent
<1>1. j \in Job /\ JobFits(j) /\ j.step = "store"
  BY AtWork DEF StoreDecision
<1>2. j.op = "classify" /\ i \in Intents /\ j.session \in Sessions /\ j.seen \in Counts
  BY <1>1 DEF JobFits, StepsOf, Job
<1>3. PICK a \in Catalog[i] :
          /\ decisions' = Append(decisions, [session |-> j.session, intent |-> i, action |-> a,
                 at |-> clock, resolved |-> FALSE, reward |-> 0])
          /\ arms' = [m \in DOMAIN arms \cup {<<i, b>> : b \in Catalog[i]} |->
                 IF m = <<i, a>>
                 THEN [Row(m) EXCEPT !.picked = IF a \in DOMAIN j.seen THEN j.seen[a] + 1 ELSE 1]
                 ELSE Row(m)]
  BY DEF StoreDecision
<1> DEFINE new == [session |-> j.session, intent |-> i, action |-> a,
                   at |-> clock, resolved |-> FALSE, reward |-> 0]
           count == IF a \in DOMAIN j.seen THEN j.seen[a] + 1 ELSE 1
           n == Len(decisions) + 1
           k == [j EXCEPT !.step = "ok", !.dec = n]
<1>4. a \in Actions /\ \A b \in Catalog[i] : <<i, b>> \in Arms
  BY <1>2 DEF Actions, Intents, Range, Arms
<1>5. new \in Decision
  BY <1>2, <1>4 DEF Decision, FullReward, StoreInv
<1>6. decisions \in Seq(Decision) /\ decisions' = Append(decisions, new) /\ tokens' = tokens
  BY <1>3 DEF StoreInv, StoreDecision
<1>7. new.session = j.session /\ <<new.intent, new.action>> = <<i, a>>
  OBVIOUS
<1> HIDE DEF new
<1>8. /\ decisions' \in Seq(Decision) /\ Len(decisions') = Len(decisions) + 1 /\ Len(decisions) \in Nat
      /\ DOMAIN decisions' = DOMAIN decisions \cup {Len(decisions) + 1}
      /\ decisions'[Len(decisions) + 1] = new
      /\ \A e \in DOMAIN decisions : decisions'[e] = decisions[e]
  BY <1>5, <1>6, Appended
<1>9. Grows
  BY <1>6, <1>8 DEF Grows, StoreInv
<1>10. \A e \in DOMAIN decisions' : ArmOf(e)' \in Arms
  <2>1. ASSUME NEW e \in DOMAIN decisions PROVE ArmOf(e)' \in Arms
    BY <1>8 DEF ArmOf, StoreInv
  <2>2. ASSUME NEW e, e = Len(decisions) + 1 PROVE ArmOf(e)' \in Arms
    <3>1. decisions'[e] = new
      BY <2>2, <1>8
    <3> QED BY <3>1, <1>4, <1>7 DEF ArmOf
  <2> QED BY <2>1, <2>2, <1>8
<1>11. DOMAIN arms' \subseteq Arms /\ \A m \in DOMAIN arms' : arms'[m] \in Arm
  <2>1. count \in Nat
    BY <1>2 DEF Counts
  <2>2. \A m : [Row(m) EXCEPT !.picked = count] \in Arm
    BY <2>1, RowIsArm DEF Arm
  <2>3. arms' = [m \in DOMAIN arms \cup {<<i, b>> : b \in Catalog[i]} |->
                    IF m = <<i, a>> THEN [Row(m) EXCEPT !.picked = count] ELSE Row(m)]
    BY <1>3
  <2> HIDE DEF count
  <2>4. DOMAIN arms' = DOMAIN arms \cup {<<i, b>> : b \in Catalog[i]}
    BY <2>3
  <2>5. \A m \in DOMAIN arms' : arms'[m] = [Row(m) EXCEPT !.picked = count] \/ arms'[m] = Row(m)
    BY <2>3
  <2> QED BY <2>2, <2>4, <2>5, <1>4, RowIsArm DEF StoreInv
<1>12. k \in Job /\ k.op = j.op /\ k.session = j.session /\ k.intent = j.intent /\ k.value = j.value
      /\ k.dec = Len(decisions) + 1 /\ k.row = j.row /\ k.step = "ok"
  <2>1. n \in Nat
    BY <1>8
  <2> HIDE DEF n
  <2>2. k \in Job /\ k.op = j.op /\ k.session = j.session /\ k.intent = j.intent /\ k.value = j.value
        /\ k.dec = n /\ k.row = j.row /\ k.step = "ok"
    BY <1>1, <2>1 DEF Job, Steps
  <2> QED BY <2>2 DEF n
<1>13. work' = [work EXCEPT ![w] = k]
  BY DEF StoreDecision, Continue
<1> HIDE DEF k
<1>14. work' \in [Workers -> Job \cup {Idle}] /\ SameRequest(w) /\ work'[w] = k
  BY <1>12, <1>13, WorkChanged DEF SameRequest, StoreInv
<1>15. JobFits(work[w])'
  BY <1>1, <1>2, <1>6, <1>7, <1>8, <1>12, <1>14 DEF JobFits, StepsOf, Knows
<1> QED BY <1>9, <1>10, <1>11, <1>14, <1>15 DEF Handled

LEMMA Conflicts == ASSUME StoreInv, JobsInv, NEW w \in Workers, StoreConflicts(w) PROVE Handled(w)
<1>1. work[w] \in Job /\ JobFits(work[w]) /\ work[w].step = "store"
  BY AtWork DEF StoreConflicts
<1>2. decisions' = decisions /\ tokens' = tokens /\ arms' = arms /\ GoTo(w, "error")
  BY DEF StoreConflicts, tables
<1>3. work' \in [Workers -> Job \cup {Idle}] /\ SameRequest(w) /\ work'[w].step = "error"
      /\ work'[w].dec = work[w].dec /\ work'[w].row = work[w].row
  BY <1>1, <1>2, StepSet DEF Steps, StoreInv
<1>4. JobFits(work[w])'
  BY <1>1, <1>2, <1>3 DEF JobFits, SameRequest, StepsOf, Knows, Job
<1>5. Grows
  BY <1>2, UnchangedGrows
<1> QED BY <1>2, <1>3, <1>4, <1>5 DEF Handled, StoreInv, ArmOf

LEMMA DatabaseGivesUp ==
    ASSUME StoreInv, JobsInv, NEW w \in Workers, DatabaseFails(w), ~JudgeBlindly(w)
    PROVE  Handled(w) /\ work'[w].step = "error"
<1>1. work[w] \in Job /\ JobFits(work[w]) /\ work[w].step \in {"apply", "store", "write"}
  BY AtWork DEF DatabaseFails
<1>2. decisions' = decisions /\ tokens' = tokens /\ arms' = arms /\ GoTo(w, "error")
  BY DEF DatabaseFails, tables
<1>3. work' \in [Workers -> Job \cup {Idle}] /\ SameRequest(w) /\ work'[w].step = "error"
      /\ work'[w].dec = work[w].dec /\ work'[w].row = work[w].row
  BY <1>1, <1>2, StepSet DEF Steps, StoreInv
<1>4. JobFits(work[w])'
  BY <1>1, <1>2, <1>3 DEF JobFits, SameRequest, StepsOf, Knows, Job
<1>5. Grows
  BY <1>2, UnchangedGrows
<1> QED BY <1>2, <1>3, <1>4, <1>5 DEF Handled, StoreInv, ArmOf

(* The first of the rows found is one of them.                             *)
LEMMA MinIsFound ==
    ASSUME NEW S, S # {}, S \subseteq Nat
    PROVE  Min(S) \in S
<1>1. PICK x \in S : \A y \in S : ~(<<y, x>> \in OpToRel(<, Nat))
  BY NatLessThanWellFounded, WFMin
<1>2. ASSUME NEW y \in S PROVE x <= y
  <2>1. x \in Nat /\ y \in Nat
    OBVIOUS
  <2>2. <<y, x>> \in OpToRel(<, Nat) <=> y < x
    BY <2>1 DEF OpToRel
  <2>3. ~(y < x)
    BY <1>1, <2>2
  <2> QED BY <2>1, <2>3
<1> QED BY <1>2 DEF Min

(* What FindToken finds: one of the rows that bear the value, or none.     *)
LEMMA Finds == ASSUME StoreInv, JobsInv, NEW w \in Workers, FindToken(w)
               PROVE  /\ Handled(w)
                      /\ UNCHANGED <<decisions, arms, tokens>>
                      /\ work[w].op \in {"register", "check"}
                      /\ work'[w].step \in {"ok", "write", "error"}
                      /\ work[w].op = "register" /\ work'[w].row = 0 =>
                             \A r \in DOMAIN tokens : tokens[r].value # work[w].value
<1> DEFINE j == work[w]
           found == IF j.op = "register" THEN RowsOf(j.value) ELSE ActiveRowsOf(j.value)
           first == IF found = {} THEN 0 ELSE Min(found)
           next == IF j.op = "register"
                   THEN IF first # 0 /\ tokens[first].active THEN "ok" ELSE "write"
                   ELSE IF found = {} THEN "ok"
                   ELSE IF Cardinality(found) > 1 THEN "error" ELSE "write"
           k == [j EXCEPT !.row = first, !.step = next]
<1>1. j \in Job /\ JobFits(j) /\ j.step = "find"
  BY AtWork DEF FindToken
<1>2. j.op \in {"register", "check"}
  BY <1>1 DEF JobFits, StepsOf, Job
<1>3. decisions' = decisions /\ tokens' = tokens /\ arms' = arms
  BY DEF FindToken, tables
<1>4. tokens \in Seq(TokenRow) /\ Len(tokens) \in Nat /\ DOMAIN tokens = 1..Len(tokens)
  BY DEF StoreInv
<1>5. found \subseteq DOMAIN tokens
  BY DEF RowsOf, ActiveRowsOf
<1>6. found = {} \/ first \in found
  BY <1>4, <1>5, MinIsFound
<1>7. first \in 0..Len(tokens) /\ (first = 0 <=> found = {})
  BY <1>4, <1>5, <1>6
<1>8. j.op = "register" /\ first = 0 => \A r \in DOMAIN tokens : tokens[r].value # j.value
  BY <1>7 DEF RowsOf
<1>9. next \in {"ok", "write", "error"} /\ (next = "write" /\ j.op = "check" => first # 0)
  BY <1>2, <1>7
<1>10. work' = [work EXCEPT ![w] = k]
  BY DEF FindToken, Continue
<1> HIDE DEF first, next, found
<1>11. k \in Job /\ k.op = j.op /\ k.session = j.session /\ k.intent = j.intent /\ k.value = j.value
      /\ k.dec = j.dec /\ k.row = first /\ k.step = next
  <2>1. first \in Nat /\ next \in Steps \ {"idle"}
    BY <1>4, <1>7, <1>9 DEF Steps
  <2> QED BY <1>1, <2>1 DEF Job
<1> HIDE DEF k
<1>12. work' \in [Workers -> Job \cup {Idle}] /\ SameRequest(w) /\ work'[w] = k
  BY <1>10, <1>11, WorkChanged DEF SameRequest, StoreInv
<1>13. JobFits(work[w])'
  BY <1>1, <1>2, <1>3, <1>7, <1>9, <1>11, <1>12 DEF JobFits, StepsOf, Knows
<1>14. Grows
  BY <1>3, UnchangedGrows
<1>15. Handled(w)
  BY <1>3, <1>12, <1>13, <1>14 DEF Handled, StoreInv, ArmOf
<1> QED BY <1>2, <1>3, <1>8, <1>9, <1>11, <1>12, <1>15

(* Whatever a handler writes to the tokens, the rest is as for a failure.  *)
LEMMA Written ==
    ASSUME StoreInv, JobsInv, NEW w \in Workers, work[w].step = "write", GoTo(w, "ok"),
           UNCHANGED <<decisions, arms>>,
           tokens' \in Seq(TokenRow), Len(tokens') >= Len(tokens)
    PROVE  Handled(w) /\ work'[w].step = "ok"
<1>1. work[w] \in Job /\ JobFits(work[w])
  BY AtWork
<1>2. work[w].op \in {"register", "check"}
  BY <1>1 DEF JobFits, StepsOf, Job
<1>3. work' \in [Workers -> Job \cup {Idle}] /\ SameRequest(w) /\ work'[w].step = "ok"
      /\ work'[w].dec = work[w].dec /\ work'[w].row = work[w].row
  BY <1>1, StepSet DEF Steps, StoreInv
<1>4. Len(tokens) \in Nat /\ Len(tokens') \in Nat
  BY DEF StoreInv
<1>5. JobFits(work[w])'
  BY <1>1, <1>2, <1>3, <1>4 DEF JobFits, SameRequest, StepsOf, Knows
<1>6. Grows
  BY DEF Grows, StoreInv
<1> QED BY <1>3, <1>5, <1>6 DEF Handled, StoreInv, ArmOf

LEMMA Inserts ==
    ASSUME StoreInv, JobsInv, NEW w \in Workers, InsertToken(w)
    PROVE  /\ Handled(w) /\ work'[w].step = "ok"
           /\ DOMAIN tokens' = DOMAIN tokens \cup {Len(tokens) + 1}
           /\ Len(tokens) + 1 \notin DOMAIN tokens
           /\ tokens'[Len(tokens) + 1].value = work[w].value
           /\ tokens'[Len(tokens) + 1].honeypot = Honeypot[work[w].session]
           /\ \A r \in DOMAIN tokens : tokens'[r] = tokens[r]
<1> DEFINE j == work[w]
           new == [value |-> j.value, active |-> TRUE, honeypot |-> Honeypot[j.session], accessed |-> Never]
<1>1. j \in Job /\ JobFits(j)
  BY AtWork DEF InsertToken
<1>2. j.value \in Values /\ j.session \in Sessions
  BY <1>1 DEF JobFits, InsertToken, Job
<1>3. Honeypot[j.session] \in Range(Honeypot)
  BY <1>2, StoreAssumption DEF Range
<1>4. new \in TokenRow
  BY <1>2, <1>3 DEF TokenRow
<1>5. tokens' = Append(tokens, new) /\ tokens \in Seq(TokenRow)
  BY DEF InsertToken, StoreInv
<1>6. new.value = j.value /\ new.honeypot = Honeypot[j.session]
  OBVIOUS
<1> HIDE DEF new
<1>7. /\ tokens' \in Seq(TokenRow) /\ Len(tokens') = Len(tokens) + 1
      /\ DOMAIN tokens' = DOMAIN tokens \cup {Len(tokens) + 1}
      /\ tokens'[Len(tokens) + 1] = new
      /\ \A r \in DOMAIN tokens : tokens'[r] = tokens[r]
      /\ Len(tokens) + 1 \notin DOMAIN tokens
  BY <1>4, <1>5, Appended
<1>8. Len(tokens') >= Len(tokens)
  BY <1>5, <1>7
<1>9. Handled(w) /\ work'[w].step = "ok"
  BY <1>7, <1>8, Written DEF InsertToken
<1> QED BY <1>6, <1>7, <1>9

(* The other writes change a row and keep its value and its owner.         *)
KeepsRows ==
    /\ tokens' \in Seq(TokenRow) /\ Len(tokens') = Len(tokens)
    /\ DOMAIN tokens' = DOMAIN tokens
    /\ \A r \in DOMAIN tokens :
           tokens'[r].value = tokens[r].value /\ tokens'[r].honeypot = tokens[r].honeypot

LEMMA FlagKeepsRows ==
    ASSUME StoreInv, NEW r \in DOMAIN tokens, NEW b \in BOOLEAN,
           tokens' = [tokens EXCEPT ![r].active = b]
    PROVE  KeepsRows
<1> DEFINE x == [tokens[r] EXCEPT !.active = b]
<1>1. tokens \in Seq(TokenRow) /\ tokens[r] \in TokenRow
  BY DEF StoreInv
<1>2. x \in TokenRow /\ x.value = tokens[r].value /\ x.honeypot = tokens[r].honeypot
  BY <1>1 DEF TokenRow
<1>3. tokens' = [tokens EXCEPT ![r] = x]
  BY <1>1
<1> HIDE DEF x
<1> QED BY <1>1, <1>2, <1>3 DEF KeepsRows

LEMMA Rearms ==
    ASSUME StoreInv, JobsInv, NEW w \in Workers, RearmToken(w)
    PROVE  Handled(w) /\ work'[w].step = "ok" /\ KeepsRows
<1>1. work[w] \in Job /\ JobFits(work[w])
  BY AtWork DEF RearmToken
<1>2. work[w].row \in DOMAIN tokens
  BY <1>1 DEF JobFits, RearmToken, StoreInv
<1>3. KeepsRows
  BY <1>2, FlagKeepsRows DEF RearmToken
<1>4. Len(tokens) \in Nat
  BY DEF StoreInv
<1>5. UNCHANGED <<decisions, arms>> /\ GoTo(w, "ok") /\ work[w].step = "write"
  BY DEF RearmToken
<1>6. tokens' \in Seq(TokenRow) /\ Len(tokens') >= Len(tokens)
  BY <1>3, <1>4 DEF KeepsRows
<1> QED BY <1>3, <1>5, <1>6, Written

LEMMA Records ==
    ASSUME StoreInv, JobsInv, NEW w \in Workers, RecordAccess(w)
    PROVE  Handled(w) /\ work'[w].step = "ok" /\ KeepsRows
<1> DEFINE r == work[w].row  x == [tokens[r] EXCEPT !.accessed = clock]
<1>1. work[w] \in Job /\ JobFits(work[w])
  BY AtWork DEF RecordAccess
<1>2. tokens \in Seq(TokenRow) /\ r \in DOMAIN tokens /\ tokens[r] \in TokenRow
  BY <1>1 DEF JobFits, RecordAccess, StoreInv
<1>3. x \in TokenRow /\ x.value = tokens[r].value /\ x.honeypot = tokens[r].honeypot
  BY <1>2 DEF TokenRow, StoreInv
<1>4. tokens' = [tokens EXCEPT ![r] = x]
  BY <1>2 DEF RecordAccess
<1> HIDE DEF x
<1>5. KeepsRows
  BY <1>2, <1>3, <1>4 DEF KeepsRows
<1>6. Len(tokens) \in Nat
  BY DEF StoreInv
<1> QED BY <1>5, <1>6, Written DEF RecordAccess, KeepsRows

LEMMA Handlers ==
    ASSUME StoreInv, JobsInv, NEW w \in Workers, Handle(w)
    PROVE  Handled(w) /\ work[w] # Idle /\ Serving(w)
<1>1. Handled(w)
  BY Looks, Judges, Checks, Applies, ReadsArms, Stores, Conflicts, Finds, Inserts, Rearms, Records
     DEF Handle
<1>2. work[w].step \notin {"idle", "ok", "error"}
  BY DEF Handle, LookForPending, JudgeOutcome, CheckUnresolved, ApplyReward, ReadArms,
         StoreDecision, StoreConflicts, FindToken, InsertToken, RearmToken, RecordAccess
<1>3. work[w] # Idle
  BY <1>2 DEF Idle
<1> QED BY <1>1, <1>2, <1>3 DEF Serving

-----------------------------------------------------------------------------
(* Requests and their answers, seen from the tables.                       *)

LEMMA JobsStay ==
    ASSUME StoreInv, JobsInv, Grows, NEW w \in Workers,
           work' \in [Workers -> Job \cup {Idle}],
           \A v \in Workers \ {w} : work'[v] = work[v],
           work'[w] # Idle => JobFits(work[w])'
    PROVE  JobsInv'
<1> SUFFICES ASSUME NEW v \in Workers, work'[v] # Idle PROVE JobFits(work[v])'
  BY DEF JobsInv
<1>1. CASE v = w
  BY <1>1
<1>2. CASE v # w
  <2>1. work'[v] = work[v] /\ work[v] \in Job /\ JobFits(work[v])
    BY <1>2 DEF JobsInv, StoreInv
  <2>2. ASSUME NEW j \in Job, JobFits(j), j = work'[v] PROVE JobFits(work[v])'
    <3>1. JobFits(j)'
      BY <2>2, FitsStill
    <3> QED BY <2>2, <3>1 DEF JobFits, Knows
  <2> QED BY <2>1, <2>2
<1> QED BY <1>1, <1>2

LEMMA HandledKeeps ==
    ASSUME StoreInv, JobsInv, NEW w \in Workers, Handled(w), clock' = clock
    PROVE  StoreInv' /\ JobsInv'
<1>1. StoreInv'
  BY DEF StoreInv, Handled, Grows
<1>2. JobsInv'
  BY JobsStay DEF Handled, SameRequest
<1> QED BY <1>1, <1>2

LEMMA TablesStay ==
    ASSUME StoreInv, UNCHANGED tables, clock' \in Nat,
           work' \in [Workers -> Job \cup {Idle}]
    PROVE  StoreInv' /\ Grows
BY UnchangedGrows DEF StoreInv, tables, ArmOf

LEMMA WorkStays ==
    ASSUME StoreInv, JobsInv, UNCHANGED <<tables, work>>, clock' \in Nat
    PROVE  StoreInv' /\ JobsInv'
<1>1. StoreInv' /\ Grows
  BY TablesStay DEF StoreInv
<1>2. JobsInv'
  BY DEF JobsInv, JobFits, Knows, tables
<1> QED BY <1>1, <1>2

(* A request is taken up by a worker, or by nobody.                        *)
Posted(r) ==
    /\ call = NoCall
    /\ \A v \in Workers : v # call' => work'[v] = work[v]
    /\ \/ call' \in Workers /\ work[call'] = Idle /\ work'[call'] = r
       \/ call' = Lost

LEMMA Posts ==
    ASSUME StoreInv, JobsInv, NEW r \in Job, JobFits(r), Post(r), UNCHANGED <<clock, tables>>
    PROVE  StoreInv' /\ JobsInv' /\ Posted(r)
<1>1. call = NoCall /\ Lost \notin Workers /\ Idle \notin Job
  BY CourierAssumption, IdleIsNoJob DEF Post, Lost
<1>2. CASE \E w \in Workers : Serve(w, r) /\ call' = w
  <2>1. PICK w \in Workers : Serve(w, r) /\ call' = w
    BY <1>2
  <2>2. work' \in [Workers -> Job \cup {Idle}] /\ work'[w] = r /\ \A v \in Workers \ {w} : work'[v] = work[v]
    BY <2>1, WorkChanged DEF Serve, StoreInv
  <2>3. StoreInv' /\ Grows
    BY <2>2, TablesStay DEF StoreInv
  <2>4. JobFits(work[w])'
    BY <2>2 DEF JobFits, Knows, tables
  <2>5. JobsInv'
    BY <2>2, <2>3, <2>4, JobsStay
  <2> QED BY <1>1, <2>1, <2>2, <2>3, <2>5 DEF Posted, Serve
<1>3. CASE call' = Lost /\ work' = work
  <2>1. StoreInv' /\ JobsInv'
    BY <1>3, WorkStays DEF StoreInv
  <2> QED BY <1>1, <1>3, <2>1 DEF Posted
<1> QED BY <1>2, <1>3 DEF Post

(* The courier has its answer, or an exception.                            *)
Answered ==
    /\ call' = NoCall
    /\ \A v \in Workers : v # call => work'[v] = work[v]
    /\ (call \in Workers /\ work'[call] = Idle) \/ call = Lost

LEMMA AnswersKeep ==
    ASSUME StoreInv, JobsInv, RequestFails \/ Replied("ok"), UNCHANGED <<clock, tables>>
    PROVE  StoreInv' /\ JobsInv' /\ Answered
<1>1. CASE RaisesException
  <2>1. StoreInv' /\ JobsInv'
    BY <1>1, WorkStays DEF StoreInv, RaisesException
  <2> QED BY <1>1, <2>1 DEF Answered, RaisesException
<1>2. CASE call \in Workers /\ work' = [work EXCEPT ![call] = Idle] /\ call' = NoCall
  <2>1. work' \in [Workers -> Job \cup {Idle}] /\ work'[call] = Idle /\ \A v \in Workers \ {call} : work'[v] = work[v]
    BY <1>2 DEF StoreInv
  <2>2. StoreInv' /\ Grows
    BY <2>1, TablesStay DEF StoreInv
  <2>3. JobsInv'
    BY <1>2, <2>1, <2>2, JobsStay
  <2> QED BY <1>2, <2>1, <2>2, <2>3 DEF Answered
<1> QED BY <1>1, <1>2 DEF RequestFails, Replied

-----------------------------------------------------------------------------
(* The courier's states.                                                   *)

LEMMA FitsKept ==
    ASSUME StoreInv, NEW st, Fits(st), Grows, clock' \in Nat, clock' >= clock
    PROVE  Fits(st)'
BY DEF Fits, State, Grows, StoreInv

LEMMA WholeKept ==
    ASSUME StoreInv, NEW tr, Whole(tr), Grows, clock' \in Nat, clock' >= clock
    PROVE  Whole(tr)'
BY FitsKept DEF Whole

LEMMA StatesKept ==
    ASSUME StoreInv, StatesInv, Grows, clock' \in Nat, clock' >= clock, UNCHANGED <<sessions, ending>>
    PROVE  StatesInv'
<1>1. Whole(sessions)'
  <2>1. ASSUME NEW tr, tr = sessions PROVE Whole(sessions)'
    <3>1. Whole(tr)'
      BY <2>1, WholeKept DEF StatesInv
    <3> QED BY <2>1, <3>1 DEF Whole, Fits
  <2> QED BY <2>1
<1>2. \A st \in ending : Fits(st)'
  BY FitsKept DEF StatesInv
<1> QED BY <1>1, <1>2 DEF StatesInv, Tracked

LEMMA PutKeeps ==
    ASSUME NEW s \in Sessions, NEW st, Whole(sessions), Fits(st), st.session = s
    PROVE  /\ Whole(Put(s, st))
           /\ DOMAIN Put(s, st) = Tracked \cup {s}
           /\ Put(s, st)[s] = st
           /\ \A t \in Tracked \ {s} : Put(s, st)[t] = sessions[t]
BY DEF Whole, Put, Tracked

LEMMA PutSame ==
    ASSUME NEW s \in Tracked, Whole(sessions)
    PROVE  Put(s, sessions[s]) = sessions
<1>1. Put(s, sessions[s]) = [t \in Tracked |-> sessions[t]]
  BY DEF Put
<1> QED BY <1>1 DEF Whole, Tracked

LEMMA StateFits ==
    ASSUME NEW s \in Sessions, StatesInv, StoreInv
    PROVE  /\ Fits(StateOf(s)) /\ StateOf(s).session = s /\ StateOf(s) \in State
           /\ s \in Tracked => StateOf(s) = sessions[s]
           /\ s \notin Tracked => StateOf(s).pending = 0 /\ StateOf(s).extra = {}
<1>1. CASE s \in Tracked
  BY <1>1 DEF StateOf, StatesInv, Whole, Tracked, Fits
<1>2. CASE s \notin Tracked
  <2>1. clock \in Nat
    BY DEF StoreInv
  <2>2. NewState(s) \in State
    BY <2>1 DEF NewState, State
  <2> QED BY <1>2, <2>1, <2>2 DEF StateOf, NewState, Fits
<1> QED BY <1>1, <1>2

(* The end of an event divides the states among tracked and ending.        *)
LEMMA EventEnds ==
    ASSUME NEW tr, Whole(tr), EndEvent(tr), UNCHANGED <<clock, decisions>>
    PROVE  /\ StatesInv'
           /\ DOMAIN sessions' \subseteq DOMAIN tr
           /\ \A s \in DOMAIN sessions' : sessions'[s] = tr[s]
           /\ Range(sessions') \cup ending' = Range(tr)
           /\ pc' \in {"get", "idle"} /\ (pc' = "idle" <=> ending' # {})
           /\ cur' = Nobody /\ act' = Nobody /\ todo' = {}
<1> DEFINE S == Stale(tr)
<1>1. S \subseteq DOMAIN tr
  BY DEF Stale
<1>2. /\ sessions' = [s \in DOMAIN tr \ S |-> tr[s]]
      /\ ending' = {tr[s] : s \in S}
      /\ pc' = (IF S = {} THEN "get" ELSE "idle")
      /\ cur' = Nobody /\ act' = Nobody /\ todo' = {}
  BY DEF EndEvent, Without
<1> HIDE DEF S
<1>3. DOMAIN sessions' = DOMAIN tr \ S /\ \A s \in DOMAIN sessions' : sessions'[s] = tr[s]
  BY <1>2
<1>4. \A st : Fits(st)' <=> Fits(st)
  BY DEF Fits
<1>5. Whole(sessions)'
  BY <1>2, <1>3, <1>4 DEF Whole
<1>6. \A st \in ending' : Fits(st)' /\ st.session \notin DOMAIN sessions'
  BY <1>1, <1>2, <1>3, <1>4 DEF Whole
<1>7. \A st, ot \in ending' : st.session = ot.session => st = ot
  BY <1>1, <1>2 DEF Whole
<1>8. Range(sessions') \cup ending' = Range(tr)
  BY <1>1, <1>2, <1>3 DEF Range
<1>9. pc' \in {"get", "idle"} /\ (pc' = "idle" <=> ending' # {})
  BY <1>2
<1> QED BY <1>2, <1>3, <1>5, <1>6, <1>7, <1>8, <1>9 DEF StatesInv, Tracked

-----------------------------------------------------------------------------
(* The coroutine goes on in the event of s, or ends it, and leaves st.     *)
Onward(s, st) ==
    \/ EndEvent(Put(s, st))
    \/ pc' \in InEvent /\ cur' = s /\ sessions' = Put(s, st) /\ ending' = {}

Goes(s, st) ==
    /\ s \in Sessions
    /\ Fits(st) /\ st.session = s /\ st.extra = StateOf(s).extra
    /\ Onward(s, st)

(* What Onward makes of the states and of the place in the loop.           *)
Leaves(s, st) ==
    /\ StatesInv'
    /\ Tracked' \subseteq Tracked \cup {s}
    /\ \A t \in Tracked' : sessions'[t] = IF t = s THEN st ELSE sessions[t]
    /\ Range(sessions') \cup ending' = {st} \cup {sessions[t] : t \in Tracked \ {s}}
    /\ pc' \in InEvent \cup {"get", "idle"}
    /\ pc' \in InEvent => cur' = s /\ s \in Tracked' /\ ending' = {}
    /\ pc' \notin InEvent =>
           cur' = Nobody /\ todo' = {} /\ act' = Nobody /\ (pc' = "idle" <=> ending' # {})

LEMMA OnwardLeaves ==
    ASSUME StatesInv, NEW s, NEW st, Goes(s, st), UNCHANGED <<clock, decisions>>
    PROVE  Leaves(s, st)
<1> DEFINE tr == Put(s, st)
<1>1. s \in Sessions /\ Fits(st) /\ st.session = s /\ Whole(sessions)
  BY DEF Goes, StatesInv
<1>2. /\ Whole(tr) /\ DOMAIN tr = Tracked \cup {s} /\ tr[s] = st
      /\ \A t \in Tracked \ {s} : tr[t] = sessions[t]
  BY <1>1, PutKeeps
<1> HIDE DEF tr
<1>3. Range(tr) = {st} \cup {sessions[t] : t \in Tracked \ {s}}
  BY <1>2 DEF Range
<1>4. CASE EndEvent(tr)
  <2>1. /\ StatesInv'
        /\ DOMAIN sessions' \subseteq DOMAIN tr
        /\ \A t \in DOMAIN sessions' : sessions'[t] = tr[t]
        /\ Range(sessions') \cup ending' = Range(tr)
        /\ pc' \in {"get", "idle"} /\ (pc' = "idle" <=> ending' # {})
        /\ cur' = Nobody /\ act' = Nobody /\ todo' = {}
    BY <1>2, <1>4, EventEnds
  <2>2. pc' \notin InEvent
    BY <2>1 DEF InEvent
  <2> QED BY <1>2, <1>3, <2>1, <2>2 DEF Leaves, Tracked
<1>5. CASE pc' \in InEvent /\ cur' = s /\ sessions' = tr /\ ending' = {}
  <2>1. \A x : Fits(x)' <=> Fits(x)
    BY DEF Fits
  <2>2. Whole(sessions)'
    BY <1>2, <1>5, <2>1 DEF Whole
  <2>3. StatesInv'
    BY <1>5, <2>2 DEF StatesInv
  <2> QED BY <1>2, <1>3, <1>5, <2>3 DEF Leaves, Tracked
<1> QED BY <1>4, <1>5 DEF Goes, Onward, tr

(* Background tasks, when their state is dropped and when one is spawned.  *)
Follows(gone, spawned) ==
    tasks' = {IF t.session \in gone THEN [t EXCEPT !.tracked = FALSE] ELSE t :
                 t \in tasks \cup spawned}

Spawns(spawned) == spawned = {} \/ spawned = {Generate(cur)}

LEMMA ForgetFollows == ASSUME NEW S, Forget(S) PROVE Follows(S, {})
BY DEF Forget, Follows

(* Where every task comes from, and what became of it.                     *)
TasksFrom(gone, spawned) ==
    \A u \in tasks' : \E t \in tasks \cup spawned :
        /\ u.session = t.session /\ u.stage = t.stage
        /\ u.tracked = (t.tracked /\ t.session \notin gone)

LEMMA TasksFollow ==
    ASSUME TaskInv, NEW gone, NEW spawned, Follows(gone, spawned), Spawns(spawned),
           spawned # {} => cur \in Sessions /\ cur \in Tracked' \cup gone,
           Tracked \subseteq Tracked' \cup gone
    PROVE  TaskInv' /\ TasksFrom(gone, spawned)
<1> DEFINE Task == [session : Sessions, tracked : BOOLEAN, stage : {"generate", "plant"}]
<1>1. \A t \in tasks \cup spawned : t \in Task /\ (t.tracked => t.session \in Tracked' \cup gone)
  <2>1. CASE spawned = {}
    BY <2>1 DEF TaskInv
  <2>2. CASE spawned = {Generate(cur)}
    <3>1. cur \in Sessions /\ cur \in Tracked' \cup gone
      BY <2>2
    <3>2. Generate(cur) \in Task /\ Generate(cur).session = cur
      BY <3>1 DEF Generate
    <3> QED BY <2>2, <3>1, <3>2 DEF TaskInv
  <2> QED BY <2>1, <2>2 DEF Spawns
<1>2. ASSUME NEW u \in tasks'
      PROVE  u \in Task /\ (u.tracked => u.session \in Tracked') /\ \E t \in tasks \cup spawned :
                 /\ u.session = t.session /\ u.stage = t.stage
                 /\ u.tracked = (t.tracked /\ t.session \notin gone)
  <2>1. PICK t \in tasks \cup spawned :
            u = IF t.session \in gone THEN [t EXCEPT !.tracked = FALSE] ELSE t
    BY DEF Follows
  <2>2. t \in Task /\ (t.tracked => t.session \in Tracked' \cup gone)
    BY <1>1
  <2>3. CASE t.session \in gone
    <3>1. u = [t EXCEPT !.tracked = FALSE]
      BY <2>1, <2>3
    <3>2. u \in Task /\ u.session = t.session /\ u.stage = t.stage /\ u.tracked = FALSE
      BY <2>2, <3>1
    <3> QED BY <2>3, <3>2
  <2>4. CASE t.session \notin gone
    <3>1. u = t /\ t.tracked \in BOOLEAN
      BY <2>1, <2>2, <2>4
    <3> QED BY <2>2, <2>4, <3>1
  <2> QED BY <2>3, <2>4
<1> QED BY <1>2 DEF TaskInv, TasksFrom

(* The place in the loop after a step of an event.                         *)
LEMMA LoopOnward ==
    ASSUME NEW s, NEW st, Leaves(s, st), call' = NoCall,
           pc' \in InEvent => /\ todo' \subseteq Values
                              /\ act' \in Actions \cup {Nobody}
                              /\ pc' \in {"trip", "check", "declare"} => todo' # {}
                              /\ pc' \in {"plant", "declare"} => act' \in Actions
    PROVE  LoopInv'
<1>1. NoCall \notin Workers
  BY CourierAssumption DEF NoCall
<1>2. CASE pc' \in InEvent
  <2>1. pc' \notin {"get", "close", "idle"}
    BY <1>2 DEF InEvent
  <2> QED BY <1>1, <1>2, <2>1 DEF LoopInv, Leaves
<1>3. CASE pc' \notin InEvent
  <2>1. pc' \notin {"trip", "check", "declare", "plant"} /\ pc' # "close"
    BY <1>3 DEF InEvent, Leaves
  <2> QED BY <1>1, <1>3, <2>1 DEF LoopInv, Leaves
<1> QED BY <1>2, <1>3

(* The cadence: classification is due, or the event is over.               *)
LEMMA Cadence ==
    ASSUME NEW s, NEW st, ending = {}, AfterTripwire(s, st)
    PROVE  /\ Onward(s, st)
           /\ pc' \in InEvent => pc' = "classify" /\ todo' = {} /\ act' = act
<1>1. CASE DueForClassify(st)
  BY <1>1 DEF AfterTripwire, Onward, InEvent
<1>2. CASE ~DueForClassify(st)
  <2>1. EndEvent(Put(s, st))
    BY <1>2 DEF AfterTripwire
  <2>2. pc' \notin InEvent
    BY <2>1 DEF EndEvent, InEvent
  <2> QED BY <2>1, <2>2 DEF Onward
<1> QED BY <1>1, <1>2

-----------------------------------------------------------------------------
(* The steps of an event.                                                  *)

(* What the courier writes into a state.                                   *)
LEMMA SeenState ==
    ASSUME StoreInv, NEW st, Fits(st), NEW n \in Nat
    PROVE  LET new == [st EXCEPT !.unclassified = n, !.seen = clock] IN
               Fits(new) /\ new.session = st.session /\ new.pending = st.pending
               /\ new.extra = st.extra /\ new.tripped = st.tripped
<1> DEFINE new == [st EXCEPT !.unclassified = n, !.seen = clock]
<1>1. st \in State /\ clock \in Nat
  BY DEF Fits, StoreInv
<1>2. /\ new \in State /\ new.session = st.session /\ new.pending = st.pending
      /\ new.extra = st.extra /\ new.tripped = st.tripped
      /\ new.seen = clock /\ new.since = st.since /\ new.classified = st.classified
  BY <1>1 DEF State
<1> HIDE DEF new
<1>3. Fits(new)
  BY <1>1, <1>2 DEF Fits
<1> QED BY <1>2, <1>3 DEF new

LEMMA SeenOnly ==
    ASSUME StoreInv, NEW st, Fits(st)
    PROVE  LET new == [st EXCEPT !.seen = clock] IN
               Fits(new) /\ new.session = st.session /\ new.pending = st.pending
               /\ new.extra = st.extra
<1>1. st \in State /\ clock \in Nat
  BY DEF Fits, StoreInv
<1> QED BY <1>1 DEF Fits, State

LEMMA TrippedState ==
    ASSUME NEW st, Fits(st), NEW hits \in SUBSET Values
    PROVE  LET new == [st EXCEPT !.tripped = @ \cup hits] IN
               Fits(new) /\ new.session = st.session /\ new.pending = st.pending
               /\ new.extra = st.extra
<1>1. st \in State
  BY DEF Fits
<1> QED BY <1>1 DEF Fits, State

LEMMA SettledState ==
    ASSUME NEW st, Fits(st)
    PROVE  LET new == [st EXCEPT !.pending = 0] IN
               Fits(new) /\ new.session = st.session /\ new.pending = 0 /\ new.extra = st.extra
<1>1. st \in State
  BY DEF Fits
<1> QED BY <1>1 DEF Fits, State

LEMMA DecidedState ==
    ASSUME StoreInv, NEW st, Fits(st), NEW d \in DOMAIN decisions,
           decisions[d].session = st.session
    PROVE  LET new == [st EXCEPT !.unclassified = 0, !.classified = clock,
                                 !.pending = d, !.since = clock] IN
               Fits(new) /\ new.session = st.session /\ new.pending = d /\ new.extra = st.extra
<1> DEFINE new == [st EXCEPT !.unclassified = 0, !.classified = clock,
                              !.pending = d, !.since = clock]
<1>1. st \in State /\ clock \in Nat /\ d \in Nat
  BY DEF Fits, StoreInv
<1>2. /\ new \in State /\ new.session = st.session /\ new.pending = d /\ new.extra = st.extra
      /\ new.seen = st.seen /\ new.since = clock /\ new.classified = clock
  BY <1>1 DEF State
<1> HIDE DEF new
<1>3. Fits(new)
  BY <1>1, <1>2 DEF Fits
<1> QED BY <1>2, <1>3 DEF new

LEMMA DeployedState ==
    ASSUME NEW st, Fits(st), NEW a \in Actions
    PROVE  LET new == [st EXCEPT !.deployed = @ \cup {a}] IN
               Fits(new) /\ new.session = st.session /\ new.pending = st.pending /\ new.extra = st.extra
<1>1. st \in State
  BY DEF Fits
<1> QED BY <1>1 DEF Fits, State

LEMMA WatchedState ==
    ASSUME NEW st, Fits(st), NEW v \in Values
    PROVE  LET new == [st EXCEPT !.extra = @ \cup {v}] IN
               Fits(new) /\ new.session = st.session /\ new.pending = st.pending
               /\ new.extra = st.extra \cup {v}
<1>1. st \in State
  BY DEF Fits
<1> QED BY <1>1 DEF Fits, State

(* A step of the event of s that leaves the decision p pending.            *)
EventStep(s, p, spawned) ==
    /\ \E st : Goes(s, st) /\ st.pending = p /\ Leaves(s, st)
    /\ TasksFrom(Tracked \ Tracked', spawned)

(* How an action is shown to be one.                                       *)
LEMMA StepsOn ==
    ASSUME StoreInv, StatesInv, TaskInv, NEW s \in Sessions, NEW st,
           Fits(st), st.session = s, st.extra = StateOf(s).extra, Onward(s, st),
           NEW spawned, Follows(Tracked \ DOMAIN sessions', spawned), Spawns(spawned),
           spawned # {} => s = cur /\ cur \in Tracked,
           UNCHANGED <<clock, decisions>>, call' = NoCall,
           pc' \in InEvent => /\ todo' \subseteq Values
                              /\ act' \in Actions \cup {Nobody}
                              /\ pc' \in {"trip", "check", "declare"} => todo' # {}
                              /\ pc' \in {"plant", "declare"} => act' \in Actions
    PROVE  EventStep(s, st.pending, spawned) /\ StatesInv' /\ LoopInv' /\ TaskInv'
<1>1. Goes(s, st)
  BY DEF Goes
<1>2. Leaves(s, st)
  BY <1>1, OnwardLeaves
<1>3. LoopInv'
  BY <1>2, LoopOnward
<1>4. TaskInv' /\ TasksFrom(Tracked \ Tracked', spawned)
  <2>1. Follows(Tracked \ Tracked', spawned)
    BY DEF Tracked
  <2>2. spawned # {} => cur \in Sessions /\ cur \in Tracked' \cup (Tracked \ Tracked')
    OBVIOUS
  <2>3. Tracked \subseteq Tracked' \cup (Tracked \ Tracked')
    OBVIOUS
  <2> QED BY <2>1, <2>2, <2>3, TasksFollow
<1> QED BY <1>1, <1>2, <1>3, <1>4 DEF EventStep, Leaves

(* The coroutine has an event to take.                                     *)
LEMMA Taken ==
    ASSUME WorldInv, StatesInv, LoopInv, pc = "get", queue # <<>>
    PROVE  /\ Head(queue) \in Event /\ Head(queue).session \in Sessions
           /\ Head(queue).uses \subseteq Values
           /\ ending = {} /\ cur = Nobody /\ call = NoCall
           /\ Tail(queue) \in Seq(Event) /\ Len(Tail(queue)) <= QueueSize
           /\ \A k \in DOMAIN Tail(queue) : k + 1 \in DOMAIN queue /\ Tail(queue)[k] = queue[k + 1]
           /\ 1 \in DOMAIN queue /\ queue[1] = Head(queue)
<1>1. queue \in Seq(Event) /\ Len(queue) <= QueueSize /\ QueueSize \in Nat
  BY CourierAssumption DEF WorldInv
<1>2. Head(queue) \in Event /\ Tail(queue) \in Seq(Event) /\ Len(Tail(queue)) = Len(queue) - 1
  BY <1>1
<1>3. \A k \in DOMAIN Tail(queue) : k + 1 \in DOMAIN queue /\ Tail(queue)[k] = queue[k + 1]
  BY <1>1
<1>4. 1 \in DOMAIN queue /\ queue[1] = Head(queue)
  BY <1>1
<1>5. ending = {} /\ cur = Nobody /\ call = NoCall
  BY DEF LoopInv
<1>6. Len(Tail(queue)) <= QueueSize
  <2>1. Len(queue) \in Nat
    BY <1>1
  <2> QED BY <1>1, <1>2, <2>1
<1> QED BY <1>2, <1>3, <1>4, <1>5, <1>6 DEF Event

LEMMA ControlSteps ==
    ASSUME BaseInv, TakeControlCommand
    PROVE  LET s == Head(queue).session IN
               /\ EventStep(s, StateOf(s).pending, {})
               /\ StatesInv' /\ LoopInv' /\ TaskInv'
               /\ pc' \notin InEvent
<1> DEFINE s == Head(queue).session
           st == [StateOf(s) EXCEPT !.seen = clock]
<1> USE DEF BaseInv
<1>1. s \in Sessions /\ ending = {} /\ cur = Nobody /\ call = NoCall
  BY Taken DEF TakeControlCommand
<1>2. Fits(StateOf(s)) /\ StateOf(s).session = s
  BY <1>1, StateFits
<1>3. Fits(st) /\ st.session = s /\ st.pending = StateOf(s).pending /\ st.extra = StateOf(s).extra
  BY <1>2, SeenOnly
<1>4. EndEvent(Put(s, st)) /\ Forget(Tracked \ DOMAIN sessions') /\ UNCHANGED <<clock, decisions>> /\ call' = call
  BY DEF TakeControlCommand, storeVars, tables
<1> HIDE DEF st, s
<1>5. Onward(s, st) /\ pc' \notin InEvent
  BY <1>4 DEF Onward, EndEvent, InEvent
<1>6. Follows(Tracked \ DOMAIN sessions', {}) /\ Spawns({})
  BY <1>4, ForgetFollows DEF Spawns
<1>7. EventStep(s, st.pending, {}) /\ StatesInv' /\ LoopInv' /\ TaskInv'
  BY <1>1, <1>3, <1>4, <1>5, <1>6, StepsOn
<1> QED BY <1>3, <1>5, <1>7 DEF s

LEMMA CommandSteps ==
    ASSUME BaseInv, TakeCommand
    PROVE  LET s == Head(queue).session IN
               /\ EventStep(s, StateOf(s).pending, {})
               /\ StatesInv' /\ LoopInv' /\ TaskInv'
               /\ pc' \in InEvent => pc' \in {"trip", "classify"}
               /\ \/ pc' = "trip" /\ proven' = proven \cup ({StateOf(s).pending} \ {0})
                  \/ proven' = proven
<1> DEFINE s == Head(queue).session
           old == StateOf(s)
           st == [old EXCEPT !.unclassified = @ + 1, !.seen = clock]
           hits == (Head(queue).uses \cap (Tokens \cup st.extra)) \ st.tripped
           tr == [st EXCEPT !.tripped = @ \cup hits]
<1> USE DEF BaseInv
<1>1. s \in Sessions /\ ending = {} /\ cur = Nobody /\ call = NoCall
  BY Taken DEF TakeCommand
<1>2. Fits(old) /\ old.session = s /\ old \in State
  BY <1>1, StateFits
<1>3. Fits(st) /\ st.session = s /\ st.pending = old.pending /\ st.extra = old.extra
      /\ st.tripped = old.tripped
  <2>1. old.unclassified + 1 \in Nat
    BY <1>2 DEF State
  <2>2. st = [old EXCEPT !.unclassified = old.unclassified + 1, !.seen = clock]
    BY <1>2 DEF State
  <2> HIDE DEF st, old
  <2> QED BY <2>1, <2>2, <1>2, SeenState
<1>4. /\ IF hits # {} THEN /\ pc' = "trip" /\ cur' = s /\ todo' = hits
                           /\ sessions' = Put(s, tr)
                           /\ UNCHANGED <<act, ending>>
         ELSE AfterTripwire(s, st)
      /\ proven' = IF hits # {} /\ st.pending # 0 THEN proven \cup {st.pending} ELSE proven
      /\ Forget(Tracked \ DOMAIN sessions') /\ UNCHANGED <<clock, decisions>> /\ call' = call
  BY DEF TakeCommand, storeVars, tables
<1>5. act \in Actions \cup {Nobody}
  BY DEF LoopInv
<1>6. Follows(Tracked \ DOMAIN sessions', {}) /\ Spawns({})
  BY <1>4, ForgetFollows DEF Spawns
<1>7. CASE hits # {}
  <2>1. hits \subseteq Values
    <3>1. st.extra \subseteq Values
      BY <1>3 DEF Fits, State
    <3> QED BY <3>1 DEF Values
  <2>2. Fits(tr) /\ tr.session = s /\ tr.pending = old.pending /\ tr.extra = old.extra
    <3> HIDE DEF st, hits
    <3> QED BY <2>1, <1>3, TrippedState
  <2>3. pc' = "trip" /\ cur' = s /\ todo' = hits /\ sessions' = Put(s, tr) /\ ending' = {} /\ act' = act
    BY <1>1, <1>4, <1>7
  <2>4. proven' = proven \cup ({old.pending} \ {0})
    BY <1>3, <1>4, <1>7
  <2> HIDE DEF tr, s, hits
  <2>5. Onward(s, tr)
    BY <2>3 DEF Onward, InEvent
  <2>6. EventStep(s, tr.pending, {}) /\ StatesInv' /\ LoopInv' /\ TaskInv'
    BY <1>1, <2>2, <1>4, <1>5, <1>6, <1>7, <2>1, <2>3, <2>5, StepsOn
  <2> QED BY <2>2, <2>3, <2>4, <2>6 DEF s
<1>8. CASE hits = {}
  <2>1. AfterTripwire(s, st) /\ proven' = proven
    BY <1>4, <1>8
  <2> HIDE DEF s, hits, st
  <2>2. Onward(s, st) /\ (pc' \in InEvent => pc' = "classify" /\ todo' = {} /\ act' = act)
    BY <2>1, <1>1, Cadence
  <2>3. EventStep(s, st.pending, {}) /\ StatesInv' /\ LoopInv' /\ TaskInv'
    BY <1>1, <1>3, <1>4, <1>5, <1>6, <2>2, StepsOn
  <2> QED BY <1>3, <2>1, <2>2, <2>3 DEF s
<1> QED BY <1>7, <1>8

(* The session in hand, while an event is worked on.                       *)
LEMMA InHand ==
    ASSUME StoreInv, StatesInv, LoopInv, pc \in InEvent
    PROVE  /\ cur \in Tracked /\ cur \in Sessions /\ ending = {}
           /\ Fits(sessions[cur]) /\ sessions[cur].session = cur
           /\ StateOf(cur) = sessions[cur]
           /\ Put(cur, sessions[cur]) = sessions
           /\ act \in Actions \cup {Nobody} /\ todo \subseteq Values
<1>1. cur \in Tracked
  BY DEF LoopInv
<1>2. ending = {}
  BY DEF LoopInv, InEvent
<1> QED BY <1>1, <1>2, PutSame DEF StatesInv, Whole, Tracked, StateOf, LoopInv

LEMMA Staying ==
    ASSUME StoreInv, StatesInv, LoopInv, pc \in InEvent, pc' \in InEvent,
           UNCHANGED <<sessions, cur, ending>>
    PROVE  Onward(cur, sessions[cur])
BY InHand DEF Onward

LEMMA NothingGone == ASSUME UNCHANGED <<sessions, tasks>>
                     PROVE  Follows(Tracked \ DOMAIN sessions', {})
BY DEF Follows, Tracked

LEMMA TripSteps ==
    ASSUME BaseInv, TripReplied \/ TripFails
    PROVE  /\ EventStep(cur, sessions[cur].pending, {})
           /\ StatesInv' /\ LoopInv' /\ TaskInv' /\ StoreInv' /\ JobsInv' /\ Answered
           /\ pc' \in InEvent => pc' \in {"trip", "check", "hit", "classify"}
           /\ pc' \in {"trip", "check", "hit"} \/ sessions[cur].pending = 0
<1> DEFINE st == sessions[cur]
<1> USE DEF BaseInv
<1>1. pc \in {"trip", "check"} /\ pc \in InEvent
  BY DEF TripReplied, TripFails, InEvent
<1>2. UNCHANGED <<clock, tables>> /\ Forget(Tracked \ DOMAIN sessions')
      /\ (RequestFails \/ Replied("ok"))
  BY DEF TripReplied, TripFails, RequestFails
<1>3. StoreInv' /\ JobsInv' /\ Answered
  BY <1>2, AnswersKeep
<1>4. call' = NoCall
  BY <1>3 DEF Answered
<1>5. Follows(Tracked \ DOMAIN sessions', {}) /\ Spawns({})
  BY <1>2, ForgetFollows DEF Spawns
<1>6. Stay("check", sessions) \/ NextHit
  BY DEF TripReplied, TripFails
<1>7. /\ Onward(cur, st)
      /\ pc' \in InEvent => /\ pc' \in {"trip", "check", "hit", "classify"}
                            /\ todo' \subseteq Values /\ act' \in Actions \cup {Nobody}
                            /\ pc' \in {"trip", "check"} => todo' # {}
      /\ pc' \in {"trip", "check", "hit"} \/ st.pending = 0
  <2>1. CASE Stay("check", sessions)
    <3>1. todo # {}
      BY <1>1 DEF LoopInv
    <3> QED BY <2>1, <3>1, <1>1, Staying, InHand DEF Stay, InEvent
  <2>2. CASE Stay("hit", sessions)
    BY <2>2, <1>1, Staying, InHand DEF Stay, InEvent
  <2>3. CASE st.pending = 0 /\ AfterTripwire(cur, st)
    <3>1. Onward(cur, st) /\ (pc' \in InEvent => pc' = "classify" /\ todo' = {} /\ act' = act)
      BY <2>3, <1>1, InHand, Cadence
    <3> QED BY <2>3, <3>1, <1>1, InHand
  <2>4. CASE /\ todo # {TheToken} /\ todo' = todo \ {TheToken} /\ pc' = "trip"
             /\ UNCHANGED <<sessions, cur, act, ending>>
    <3>1. todo # {} /\ pc' \in InEvent
      BY <1>1, <2>4 DEF LoopInv, InEvent
    <3>2. todo' # {}
      BY <2>4, <3>1 DEF TheToken
    <3> QED BY <2>4, <3>1, <3>2, <1>1, Staying, InHand
  <2> QED BY <1>6, <2>1, <2>2, <2>3, <2>4 DEF NextHit, ScoreHit
<1>8. cur \in Sessions /\ Fits(st) /\ st.session = cur /\ st.extra = StateOf(cur).extra
  BY <1>1, InHand
<1>9. UNCHANGED <<clock, decisions>>
  BY <1>2 DEF tables
<1>10. EventStep(cur, st.pending, {}) /\ StatesInv' /\ LoopInv' /\ TaskInv'
  BY <1>4, <1>5, <1>7, <1>8, <1>9, StepsOn
<1> QED BY <1>3, <1>7, <1>10

LEMMA HitSteps ==
    ASSUME BaseInv, HitReplied \/ HitFails
    PROVE  /\ \/ HitReplied /\ EventStep(cur, 0, {})
              \/ HitFails /\ EventStep(cur, sessions[cur].pending, {})
           /\ StatesInv' /\ LoopInv' /\ TaskInv' /\ StoreInv' /\ JobsInv' /\ Answered
           /\ pc' \in InEvent => pc' = "classify"
<1> DEFINE old == sessions[cur]
           new == [old EXCEPT !.pending = 0]
<1> USE DEF BaseInv
<1>1. pc = "hit" /\ pc \in InEvent
  BY DEF HitReplied, HitFails, InEvent
<1>2. UNCHANGED <<clock, tables>> /\ Forget(Tracked \ DOMAIN sessions')
      /\ (RequestFails \/ Replied("ok"))
  BY DEF HitReplied, HitFails
<1>3. StoreInv' /\ JobsInv' /\ Answered
  BY <1>2, AnswersKeep
<1>4. call' = NoCall /\ UNCHANGED <<clock, decisions>>
  BY <1>2, <1>3 DEF Answered, tables
<1>5. Follows(Tracked \ DOMAIN sessions', {}) /\ Spawns({})
  BY <1>2, ForgetFollows DEF Spawns
<1>6. cur \in Sessions /\ Fits(old) /\ old.session = cur /\ old.extra = StateOf(cur).extra /\ ending = {}
  BY <1>1, InHand
<1>7. ASSUME NEW st, AfterTripwire(cur, st), Fits(st), st.session = cur, st.extra = old.extra
      PROVE  /\ EventStep(cur, st.pending, {}) /\ StatesInv' /\ LoopInv' /\ TaskInv'
             /\ pc' \in InEvent => pc' = "classify"
  <2>1. Onward(cur, st) /\ (pc' \in InEvent => pc' = "classify" /\ todo' = {} /\ act' = act)
    BY <1>6, <1>7, Cadence
  <2>2. act \in Actions \cup {Nobody}
    BY DEF LoopInv
  <2> QED BY <1>4, <1>5, <1>6, <1>7, <2>1, <2>2, StepsOn
<1>8. CASE HitReplied
  <2>1. Fits(new) /\ new.session = cur /\ new.pending = 0 /\ new.extra = old.extra
    BY <1>6, SettledState
  <2>2. AfterTripwire(cur, new)
    BY <1>8 DEF HitReplied
  <2> HIDE DEF new
  <2>3. EventStep(cur, new.pending, {}) /\ StatesInv' /\ LoopInv' /\ TaskInv' /\ (pc' \in InEvent => pc' = "classify")
    BY <2>1, <2>2, <1>7
  <2> QED BY <1>3, <1>8, <2>1, <2>3
<1>9. CASE HitFails
  <2>1. AfterTripwire(cur, old)
    BY <1>9 DEF HitFails
  <2> QED BY <1>3, <1>6, <1>7, <1>9, <2>1
<1> QED BY <1>8, <1>9

LEMMA ClassifySteps ==
    ASSUME BaseInv, ClassifyReplied
    PROVE  /\ work[call].dec \in DOMAIN decisions /\ decisions[work[call].dec].session = cur
           /\ EventStep(cur, work[call].dec, {})
           /\ StatesInv' /\ LoopInv' /\ TaskInv' /\ StoreInv' /\ JobsInv' /\ Answered
           /\ pc' \in InEvent => pc' = "plant"
<1> DEFINE d == work[call].dec  a == decisions[d].action
           old == sessions[cur]
           st == [old EXCEPT !.unclassified = 0, !.classified = clock, !.pending = d, !.since = clock]
<1> USE DEF BaseInv
<1>1. pc = "classify" /\ pc \in InEvent
  BY DEF ClassifyReplied, InEvent
<1>2. UNCHANGED <<clock, tables>> /\ Forget(Tracked \ DOMAIN sessions') /\ Replied("ok")
  BY DEF ClassifyReplied
<1>3. StoreInv' /\ JobsInv' /\ Answered
  BY <1>2, AnswersKeep
<1>4. call' = NoCall /\ UNCHANGED <<clock, decisions>>
  BY <1>2, <1>3 DEF Answered, tables
<1>5. Follows(Tracked \ DOMAIN sessions', {}) /\ Spawns({})
  BY <1>2, ForgetFollows DEF Spawns
<1>6. cur \in Sessions /\ Fits(old) /\ old.session = cur /\ old.extra = StateOf(cur).extra /\ ending = {}
  BY <1>1, InHand
<1>7. d \in DOMAIN decisions /\ decisions[d].session = cur
  <2>1. call \in Workers /\ work[call].step = "ok"
    BY <1>2 DEF Replied
  <2>2. work[call] # Idle /\ work[call].session = cur /\ work[call].op = "classify"
    BY <2>1, <1>1 DEF LoopInv, OpOf
  <2>3. JobFits(work[call])
    BY <2>1, <2>2 DEF JobsInv
  <2> QED BY <2>1, <2>2, <2>3 DEF JobFits, Knows
<1>8. a \in Actions
  <2>1. decisions[d] \in Decision
    BY <1>7 DEF StoreInv
  <2> QED BY <2>1 DEF Decision
<1>9. Fits(st) /\ st.session = cur /\ st.pending = d /\ st.extra = old.extra
  <2>1. Fits(old) /\ decisions[d].session = old.session /\ d \in DOMAIN decisions
    BY <1>6, <1>7
  <2> HIDE DEF old, d
  <2>2. Fits(st) /\ st.session = old.session /\ st.pending = d /\ st.extra = old.extra
    BY <2>1, DecidedState
  <2> QED BY <1>6, <2>2
<1>10. \/ EndEvent(Put(cur, st))
       \/ /\ pc' = "plant" /\ act' = a
          /\ sessions' = Put(cur, st)
          /\ UNCHANGED <<cur, todo, ending>>
  BY DEF ClassifyReplied
<1> HIDE DEF st, a
<1>11. /\ Onward(cur, st)
       /\ pc' \in InEvent => pc' = "plant" /\ act' = a /\ todo' = todo
  BY <1>6, <1>10 DEF Onward, InEvent, EndEvent
<1>12. todo \subseteq Values
  BY <1>1, InHand
<1>13. EventStep(cur, st.pending, {}) /\ StatesInv' /\ LoopInv' /\ TaskInv'
  BY <1>4, <1>5, <1>6, <1>8, <1>9, <1>11, <1>12, StepsOn
<1> QED BY <1>3, <1>7, <1>9, <1>11, <1>13

LEMMA ClassifyGivesUp ==
    ASSUME BaseInv, ClassifyFails
    PROVE  /\ EventStep(cur, sessions[cur].pending, {})
           /\ StatesInv' /\ LoopInv' /\ TaskInv' /\ StoreInv' /\ JobsInv' /\ Answered
           /\ pc' \notin InEvent
<1> DEFINE st == sessions[cur]
<1> USE DEF BaseInv
<1>1. pc = "classify" /\ pc \in InEvent
  BY DEF ClassifyFails, InEvent
<1>2. UNCHANGED <<clock, tables>> /\ Forget(Tracked \ DOMAIN sessions') /\ RequestFails
  BY DEF ClassifyFails
<1>3. StoreInv' /\ JobsInv' /\ Answered
  BY <1>2, AnswersKeep
<1>4. call' = NoCall /\ UNCHANGED <<clock, decisions>>
  BY <1>2, <1>3 DEF Answered, tables
<1>5. Follows(Tracked \ DOMAIN sessions', {}) /\ Spawns({})
  BY <1>2, ForgetFollows DEF Spawns
<1>6. cur \in Sessions /\ Fits(st) /\ st.session = cur /\ st.extra = StateOf(cur).extra
      /\ Put(cur, st) = sessions
  BY <1>1, InHand
<1>7. Onward(cur, st) /\ pc' \notin InEvent
  BY <1>6 DEF ClassifyFails, Onward, EndEvent, InEvent
<1>8. EventStep(cur, st.pending, {}) /\ StatesInv' /\ LoopInv' /\ TaskInv'
  BY <1>4, <1>5, <1>6, <1>7, StepsOn
<1> QED BY <1>3, <1>7, <1>8

LEMMA NoAnswerInPlant == ASSUME LoopInv, pc = "plant" PROVE call = NoCall /\ act \in Actions
BY DEF LoopInv

LEMMA DeployFinishes ==
    ASSUME StoreInv, StatesInv, LoopInv, TaskInv, pc \in {"plant", "declare"},
           NEW spawned, Spawns(spawned), FinishDeploy(spawned),
           call' = NoCall, UNCHANGED <<clock, decisions>>
    PROVE  /\ EventStep(cur, sessions[cur].pending, spawned)
           /\ StatesInv' /\ LoopInv' /\ TaskInv'
           /\ pc' \notin InEvent
<1> DEFINE old == sessions[cur]
           st == [old EXCEPT !.deployed = @ \cup {act}]
<1>1. pc \in InEvent /\ act \in Actions
  BY DEF InEvent, LoopInv
<1>2. cur \in Tracked /\ cur \in Sessions /\ Fits(old) /\ old.session = cur /\ old.extra = StateOf(cur).extra
  BY <1>1, InHand
<1>3. Fits(st) /\ st.session = cur /\ st.pending = old.pending /\ st.extra = old.extra
  <2> HIDE DEF old
  <2> QED BY <1>1, <1>2, DeployedState
<1>4. EndEvent(Put(cur, st)) /\ Follows(Tracked \ DOMAIN sessions', spawned)
  BY DEF FinishDeploy, Deployed, Follows
<1> HIDE DEF st
<1>5. Onward(cur, st) /\ pc' \notin InEvent
  BY <1>4 DEF Onward, EndEvent, InEvent
<1>6. EventStep(cur, st.pending, spawned) /\ StatesInv' /\ LoopInv' /\ TaskInv'
  BY <1>2, <1>3, <1>4, <1>5, StepsOn
<1> QED BY <1>3, <1>5, <1>6

LEMMA PlantSteps ==
    ASSUME BaseInv, BrokerAnswers \/ BrokerFails
    PROVE  /\ EventStep(cur, sessions[cur].pending, {Generate(cur)})
           /\ StatesInv' /\ LoopInv' /\ TaskInv'
           /\ pc' \in InEvent => pc' = "declare"
           /\ call' = call
<1> DEFINE st == sessions[cur]
<1> USE DEF BaseInv
<1>1. pc = "plant" /\ pc \in InEvent /\ call' = call /\ UNCHANGED <<clock, decisions>>
  BY DEF BrokerAnswers, BrokerFails, InEvent, storeVars, tables
<1>2. call' = NoCall /\ act \in Actions
  BY <1>1, NoAnswerInPlant
<1>3. Spawns({Generate(cur)})
  BY DEF Spawns
<1>4. CASE FinishDeploy({Generate(cur)})
  BY <1>1, <1>2, <1>3, <1>4, DeployFinishes
<1>5. CASE /\ Bundle[act] # {} /\ pc' = "declare" /\ todo' = Bundle[act]
           /\ tasks' = tasks \cup {Generate(cur)}
           /\ UNCHANGED <<sessions, cur, act, ending>>
  <2>1. todo' \subseteq Values /\ todo' # {}
    BY <1>2, <1>5, CourierAssumption DEF Values
  <2>2. Follows(Tracked \ DOMAIN sessions', {Generate(cur)})
    BY <1>5 DEF Follows, Tracked
  <2>3. Onward(cur, st)
    BY <1>1, <1>5, Staying DEF InEvent
  <2>4. cur \in Tracked /\ cur \in Sessions /\ Fits(st) /\ st.session = cur /\ st.extra = StateOf(cur).extra
    BY <1>1, InHand
  <2>5. EventStep(cur, st.pending, {Generate(cur)}) /\ StatesInv' /\ LoopInv' /\ TaskInv'
    BY <1>1, <1>2, <1>3, <1>5, <2>1, <2>2, <2>3, <2>4, StepsOn
  <2> QED BY <1>1, <1>5, <2>5
<1> QED BY <1>4, <1>5 DEF BrokerAnswers, BrokerFails

LEMMA DeclareSteps ==
    ASSUME BaseInv, DeclareDone
    PROVE  /\ EventStep(cur, sessions[cur].pending, {})
           /\ StatesInv' /\ LoopInv' /\ TaskInv' /\ StoreInv' /\ JobsInv' /\ Answered
           /\ pc' \in InEvent => pc' = "declare"
<1> DEFINE st == sessions[cur]
<1> USE DEF BaseInv
<1>1. pc = "declare" /\ pc \in InEvent
  BY DEF DeclareDone, InEvent
<1>2. UNCHANGED <<clock, tables>> /\ (RequestFails \/ Replied("ok"))
  BY DEF DeclareDone
<1>3. StoreInv' /\ JobsInv' /\ Answered
  BY <1>2, AnswersKeep
<1>4. call' = NoCall /\ UNCHANGED <<clock, decisions>>
  BY <1>2, <1>3 DEF Answered, tables
<1>5. Spawns({})
  BY DEF Spawns
<1>6. CASE FinishDeploy({})
  <2>1. EventStep(cur, st.pending, {}) /\ StatesInv' /\ LoopInv' /\ TaskInv' /\ pc' \notin InEvent
    BY <1>1, <1>4, <1>5, <1>6, DeployFinishes
  <2> QED BY <1>3, <2>1
<1>7. CASE /\ todo # {TheToken} /\ todo' = todo \ {TheToken}
           /\ UNCHANGED <<sessions, pc, cur, act, ending, tasks>>
  <2>1. todo' \subseteq Values /\ todo' # {}
    BY <1>1, <1>7 DEF LoopInv
  <2>2. Follows(Tracked \ DOMAIN sessions', {})
    BY <1>7, NothingGone
  <2>3. Onward(cur, st)
    BY <1>1, <1>7, Staying
  <2>4. cur \in Sessions /\ Fits(st) /\ st.session = cur /\ st.extra = StateOf(cur).extra
    BY <1>1, InHand
  <2>5. act \in Actions
    BY <1>1 DEF LoopInv
  <2>6. EventStep(cur, st.pending, {}) /\ StatesInv' /\ LoopInv' /\ TaskInv'
    BY <1>4, <1>5, <1>7, <2>1, <2>2, <2>3, <2>4, <2>5, StepsOn
  <2> QED BY <1>1, <1>3, <1>7, <2>6
<1> QED BY <1>6, <1>7 DEF DeclareDone

-----------------------------------------------------------------------------
(* States that are popped and resolved.                                    *)

(* The states in hand are those of before, but for those let go.           *)
KeepsBut(gone) ==
    /\ StatesInv'
    /\ Tracked' \subseteq Tracked /\ \A t \in Tracked' : sessions'[t] = sessions[t]
    /\ Range(sessions') \cup ending' = (Range(sessions) \cup ending) \ gone
    /\ pc' \in {"get", "close", "idle"}
    /\ cur' = Nobody

LEMMA NothingInHand ==
    ASSUME pc' \in {"get", "close", "idle"}, cur' = Nobody, call' = NoCall,
           pc' \in {"close", "idle"} <=> ending' # {},
           todo' \subseteq Values, act' \in Actions \cup {Nobody}
    PROVE  LoopInv'
<1>1. NoCall \notin Workers
  BY CourierAssumption DEF NoCall
<1>2. pc' \notin InEvent
  BY DEF InEvent
<1> QED BY <1>1, <1>2 DEF LoopInv

LEMMA ResolvedKeeps ==
    ASSUME StoreInv, StatesInv, LoopInv, TaskInv, NEW st \in ending, Resolved(st),
           pc \in {"close", "idle"}, Forget(Tracked \ DOMAIN sessions'),
           UNCHANGED <<clock, decisions>>, call' = NoCall
    PROVE  KeepsBut({st}) /\ LoopInv' /\ TaskInv' /\ TasksFrom(Tracked \ Tracked', {})
<1>0. todo \subseteq Values /\ act \in Actions \cup {Nobody}
  BY DEF LoopInv
<1>1. st \notin Range(sessions)
  BY DEF StatesInv, Whole, Range, Tracked
<1>2. KeepsBut({st}) /\ LoopInv'
  <2>1. CASE /\ ending # {st} /\ ending' = ending \ {st} /\ cur' = Nobody
             /\ UNCHANGED <<sessions, pc, act, todo>>
    <3>1. \A x : Fits(x)' <=> Fits(x)
      BY DEF Fits
    <3>2. Whole(sessions)'
      BY <2>1, <3>1 DEF StatesInv, Whole
    <3>3. StatesInv'
      BY <2>1, <3>1, <3>2 DEF StatesInv, Tracked
    <3>4. ending' # {}
      BY <2>1
    <3>5. LoopInv'
      BY <1>0, <2>1, <3>4, NothingInHand
    <3> QED BY <1>1, <2>1, <3>3, <3>5 DEF KeepsBut, Tracked
  <2>2. CASE ending = {st} /\ EndEvent(sessions)
    <3>1. /\ StatesInv'
          /\ DOMAIN sessions' \subseteq DOMAIN sessions
          /\ \A s \in DOMAIN sessions' : sessions'[s] = sessions[s]
          /\ Range(sessions') \cup ending' = Range(sessions)
          /\ pc' \in {"get", "idle"} /\ (pc' = "idle" <=> ending' # {})
          /\ cur' = Nobody /\ act' = Nobody /\ todo' = {}
      BY <2>2, EventEnds DEF StatesInv
    <3>2. LoopInv'
      BY <3>1, NothingInHand
    <3> QED BY <1>1, <2>2, <3>1, <3>2 DEF KeepsBut, Tracked
  <2>3. CASE /\ ending = {st} /\ ending' = {} /\ cur' = Nobody /\ pc' = "get"
             /\ UNCHANGED <<sessions, act, todo>>
    <3>1. \A x : Fits(x)' <=> Fits(x)
      BY DEF Fits
    <3>2. Whole(sessions)'
      BY <2>3, <3>1 DEF StatesInv, Whole
    <3>3. StatesInv'
      BY <2>3, <3>1, <3>2 DEF StatesInv, Tracked
    <3>4. LoopInv'
      BY <1>0, <2>3, NothingInHand
    <3> QED BY <1>1, <2>3, <3>3, <3>4 DEF KeepsBut, Tracked
  <2> QED BY <2>1, <2>2, <2>3 DEF Resolved
<1>3. Follows(Tracked \ Tracked', {}) /\ Spawns({})
  BY ForgetFollows DEF Spawns, Tracked
<1>4. TaskInv' /\ TasksFrom(Tracked \ Tracked', {})
  <2>1. Tracked \subseteq Tracked' \cup (Tracked \ Tracked')
    OBVIOUS
  <2> QED BY <1>3, <2>1, TasksFollow
<1> QED BY <1>2, <1>4

LEMMA LeaveSteps ==
    ASSUME BaseInv, LeaveUnresolved
    PROVE  /\ \E st \in ending :
                  /\ KeepsBut({st})
                  /\ st.pending # 0 => st.pending \in unseen'
           /\ unseen \subseteq unseen'
           /\ LoopInv' /\ TaskInv' /\ TasksFrom(Tracked \ Tracked', {})
           /\ call' = call /\ call = NoCall
<1> USE DEF BaseInv
<1>1. PICK st \in ending : /\ Resolved(st)
                           /\ unseen' = IF st.pending # 0 THEN unseen \cup {st.pending} ELSE unseen
  BY DEF LeaveUnresolved
<1>2. /\ pc \in {"close", "idle"} /\ call = NoCall /\ call' = call
      /\ Forget(Tracked \ DOMAIN sessions') /\ UNCHANGED <<clock, decisions>>
  BY DEF LeaveUnresolved, storeVars, tables
<1>3. KeepsBut({st}) /\ LoopInv' /\ TaskInv' /\ TasksFrom(Tracked \ Tracked', {})
  BY <1>1, <1>2, ResolvedKeeps
<1> QED BY <1>1, <1>2, <1>3

LEMMA ResolutionSteps ==
    ASSUME BaseInv, ResolutionReplied \/ ResolutionFails
    PROVE  /\ \E st \in ending : KeepsBut({st}) /\ st.session = cur
           /\ LoopInv' /\ TaskInv' /\ TasksFrom(Tracked \ Tracked', {})
           /\ StoreInv' /\ JobsInv' /\ Answered
<1> USE DEF BaseInv
<1>1. /\ pc \in {"close", "idle"} /\ Resolved(StateInHand)
      /\ UNCHANGED <<clock, tables>> /\ Forget(Tracked \ DOMAIN sessions')
      /\ (RequestFails \/ Replied("ok"))
  BY DEF ResolutionReplied, ResolutionFails
<1>2. StoreInv' /\ JobsInv' /\ Answered
  BY <1>1, AnswersKeep
<1>3. call # NoCall /\ call' = NoCall /\ UNCHANGED <<clock, decisions>>
  BY <1>1, <1>2, CourierAssumption DEF Answered, tables, NoCall, Lost
<1>4. StateInHand \in ending /\ StateInHand.session = cur
  BY <1>1, <1>3 DEF LoopInv, StateInHand
<1>5. KeepsBut({StateInHand}) /\ LoopInv' /\ TaskInv' /\ TasksFrom(Tracked \ Tracked', {})
  BY <1>1, <1>3, <1>4, ResolvedKeeps
<1> QED BY <1>2, <1>4, <1>5

LEMMA ClosedSteps ==
    ASSUME BaseInv, TakeClosed
    PROVE  /\ KeepsBut({}) /\ LoopInv' /\ TaskInv'
           /\ \E s \in Sessions \ Tracked' : TasksFrom({s} \cup (Tracked \ Tracked'), {})
           /\ call' = call /\ pc = "get"
<1> DEFINE s == Head(queue).session
<1> USE DEF BaseInv
<1>1. s \in Sessions /\ ending = {} /\ cur = Nobody /\ call = NoCall
  BY Taken DEF TakeClosed
<1>2. /\ IF s \in Tracked
         THEN /\ sessions' = Without(sessions, {s})
              /\ ending' = {sessions[s]}
              /\ pc' = "close"
              /\ UNCHANGED <<cur, act, todo>>
         ELSE EndEvent(sessions)
      /\ Forget({s} \cup (Tracked \ DOMAIN sessions'))
      /\ UNCHANGED <<clock, decisions>> /\ call' = call
  BY DEF TakeClosed, storeVars, tables
<1>3. todo \subseteq Values /\ act \in Actions \cup {Nobody}
  BY DEF LoopInv
<1> HIDE DEF s
<1>4. KeepsBut({}) /\ LoopInv' /\ s \notin Tracked'
  <2>1. CASE s \in Tracked
    <3>1. \A x : Fits(x)' <=> Fits(x)
      BY <1>2 DEF Fits
    <3>2. sessions' = [t \in Tracked \ {s} |-> sessions[t]] /\ ending' = {sessions[s]} /\ pc' = "close"
          /\ UNCHANGED <<cur, act, todo>>
      BY <1>2, <2>1 DEF Without, Tracked
    <3>3. Tracked' = Tracked \ {s} /\ \A t \in Tracked' : sessions'[t] = sessions[t]
      BY <3>2 DEF Tracked
    <3>4. Whole(sessions)'
      BY <3>1, <3>2, <3>3 DEF StatesInv, Whole, Tracked
    <3>5. StatesInv'
      BY <2>1, <3>1, <3>2, <3>3, <3>4 DEF StatesInv, Whole, Tracked
    <3>6. Range(sessions') \cup ending' = (Range(sessions) \cup ending) \ {}
      BY <1>1, <2>1, <3>2, <3>3 DEF Range, Tracked
    <3>7. LoopInv'
      BY <1>1, <1>2, <1>3, <3>2, NothingInHand
    <3> QED BY <1>1, <3>2, <3>3, <3>5, <3>6, <3>7 DEF KeepsBut
  <2>2. CASE s \notin Tracked
    <3>1. /\ StatesInv'
          /\ DOMAIN sessions' \subseteq DOMAIN sessions
          /\ \A t \in DOMAIN sessions' : sessions'[t] = sessions[t]
          /\ Range(sessions') \cup ending' = Range(sessions)
          /\ pc' \in {"get", "idle"} /\ (pc' = "idle" <=> ending' # {})
          /\ cur' = Nobody /\ act' = Nobody /\ todo' = {}
      BY <1>2, <2>2, EventEnds DEF StatesInv
    <3>2. LoopInv'
      BY <1>1, <1>2, <3>1, NothingInHand
    <3> QED BY <1>1, <2>2, <3>1, <3>2 DEF KeepsBut, Tracked
  <2> QED BY <2>1, <2>2
<1>5. Follows({s} \cup (Tracked \ Tracked'), {}) /\ Spawns({})
  BY <1>2, ForgetFollows DEF Spawns, Tracked
<1>6. TaskInv' /\ TasksFrom({s} \cup (Tracked \ Tracked'), {})
  <2>1. Tracked \subseteq Tracked' \cup ({s} \cup (Tracked \ Tracked'))
    OBVIOUS
  <2> QED BY <1>5, <2>1, TasksFollow
<1>7. pc = "get"
  BY DEF TakeClosed
<1> QED BY <1>1, <1>2, <1>4, <1>6, <1>7

-----------------------------------------------------------------------------
(* Requests.                                                               *)
Asks(r) ==
    /\ r \in Job /\ JobFits(r) /\ r.step \in {"look", "find"}
    /\ r.op = OpOf(pc) /\ r.session = cur'
    /\ pc = "hit" => r.pay = FullReward
    /\ pc \in {"trip", "check", "hit", "classify", "declare", "close", "idle"}
    /\ Post(r)
    /\ UNCHANGED <<clock, tables, attackerVars, queue, sessions, pc, act, todo,
                   ending, tasks, ghosts, hurt>>
    /\ \/ pc \in InEvent /\ cur' = cur
       \/ pc \in {"close", "idle"} /\ \E st \in ending : st.session = cur' /\ st.pending # 0

Post1 == PostTrip \/ PostHit \/ PostClassify \/ PostDeclare \/ PostResolution

LEMMA PostAsks == ASSUME BaseInv, Post1 PROVE \E r : Asks(r)
<1> USE DEF BaseInv
<1>1. tokens \in Seq(TokenRow) /\ decisions \in Seq(Decision) /\ AnyIntent \in Intents
  BY AnIntent DEF StoreInv
<1>2. pc \in {"trip", "check", "declare"} => TheToken \in Values
  BY DEF LoopInv, TheToken
<1>3. pc \in InEvent => cur \in Sessions
  BY InHand
<1>4. 0 \in 0..FullReward /\ 10 \in 0..FullReward /\ 4 \in 0..FullReward
  BY DEF FullReward
<1>5. CASE PostTrip
  <2> DEFINE r == Request(OpOf(pc), cur, AnyIntent, 0, TheToken)
  <2>1. pc \in {"trip", "check"} /\ pc \in InEvent
    BY <1>5 DEF PostTrip, InEvent
  <2>2. OpOf(pc) \in {"register", "check"} /\ OpOf(pc) = (IF pc = "trip" THEN "register" ELSE "check")
    BY <2>1 DEF OpOf
  <2>3. r \in Job /\ JobFits(r) /\ r.step \in {"look", "find"} /\ r.op = OpOf(pc) /\ r.session = cur
    BY <1>1, <1>2, <1>3, <1>4, <2>1, <2>2, RequestFits
  <2>4. Post(r)
    BY <1>5, <2>2 DEF PostTrip, TokenRequest
  <2> QED BY <1>5, <2>1, <2>3, <2>4 DEF PostTrip, Asks
<1>6. CASE PostDeclare
  <2> DEFINE r == Request("register", cur, AnyIntent, 0, TheToken)
  <2>1. pc = "declare" /\ pc \in InEvent /\ OpOf(pc) = "register"
    BY <1>6 DEF PostDeclare, InEvent, OpOf
  <2>2. r \in Job /\ JobFits(r) /\ r.step \in {"look", "find"} /\ r.op = OpOf(pc) /\ r.session = cur
    BY <1>1, <1>2, <1>3, <1>4, <2>1, RequestFits
  <2>3. Post(r)
    BY <1>6 DEF PostDeclare, TokenRequest
  <2> QED BY <1>6, <2>1, <2>2, <2>3 DEF PostDeclare, Asks
<1>7. CASE PostHit
  <2> DEFINE r == Request("feedback", cur, AnyIntent, FullReward, NoToken)
  <2>1. pc = "hit" /\ pc \in InEvent /\ OpOf(pc) = "feedback"
    BY <1>7 DEF PostHit, InEvent, OpOf
  <2>2. FullReward \in 0..FullReward
    BY DEF FullReward
  <2>3. r \in Job /\ JobFits(r) /\ r.step \in {"look", "find"} /\ r.op = OpOf(pc) /\ r.session = cur
        /\ r.pay = FullReward
    BY <1>1, <1>3, <2>1, <2>2, RequestFits
  <2>4. Post(r)
    BY <1>7 DEF PostHit, Feedback, SignalReward
  <2> QED BY <1>7, <2>1, <2>3, <2>4 DEF PostHit, Asks
<1>8. CASE PostClassify
  <2>1. pc = "classify" /\ pc \in InEvent /\ OpOf(pc) = "classify"
    BY <1>8 DEF PostClassify, InEvent, OpOf
  <2>2. PICK i \in Intents : Post(Request("classify", cur, i, 0, NoToken))
    BY <1>8 DEF PostClassify
  <2> DEFINE r == Request("classify", cur, i, 0, NoToken)
  <2>3. r \in Job /\ JobFits(r) /\ r.step \in {"look", "find"} /\ r.op = OpOf(pc) /\ r.session = cur
    BY <1>1, <1>3, <1>4, <2>1, RequestFits
  <2> QED BY <1>8, <2>1, <2>2, <2>3 DEF PostClassify, Asks
<1>9. CASE PostResolution
  <2>1. pc \in {"close", "idle"} /\ OpOf(pc) = "feedback"
    BY <1>9 DEF PostResolution, OpOf
  <2>2. PICK st \in ending :
            /\ st.pending # 0 /\ cur' = st.session
            /\ Post(Feedback(st.session,
                    IF Engaged(st) THEN "session_continued" ELSE "session_terminated"))
    BY <1>9 DEF PostResolution
  <2>3. \E p \in 0..FullReward : Post(Request("feedback", cur', AnyIntent, p, NoToken))
    BY <1>4, <2>2 DEF Feedback, SignalReward
  <2>4. PICK p \in 0..FullReward : Post(Request("feedback", cur', AnyIntent, p, NoToken))
    BY <2>3
  <2> DEFINE r == Request("feedback", cur', AnyIntent, p, NoToken)
  <2>5. cur' \in Sessions
    BY <2>2 DEF StatesInv, Fits, State
  <2>6. r \in Job /\ JobFits(r) /\ r.step \in {"look", "find"} /\ r.op = OpOf(pc) /\ r.session = cur'
    BY <1>1, <2>1, <2>5, RequestFits
  <2>7. pc \notin InEvent /\ pc # "hit"
    BY <2>1 DEF InEvent
  <2> QED BY <1>9, <2>1, <2>2, <2>4, <2>6, <2>7 DEF PostResolution, Asks
<1> QED BY <1>5, <1>6, <1>7, <1>8, <1>9 DEF Post1

LEMMA AskKeeps ==
    ASSUME BaseInv, NEW r, Asks(r)
    PROVE  Posted(r) /\ StoreInv' /\ JobsInv' /\ StatesInv' /\ LoopInv' /\ TaskInv'
<1> USE DEF BaseInv
<1>1. Posted(r) /\ StoreInv' /\ JobsInv'
  BY Posts DEF Asks
<1>2. StatesInv' /\ TaskInv'
  <2>1. Grows /\ clock' \in Nat /\ clock' >= clock
    BY UnchangedGrows DEF Asks, tables, StoreInv
  <2>2. StatesInv'
    BY <2>1, StatesKept DEF Asks
  <2> QED BY <2>2 DEF TaskInv, Asks, Tracked
<1>3. LoopInv'
  <2>1. call' \in Workers \cup {NoCall, Lost} /\ call' # NoCall /\ Idle \notin Job /\ Lost \notin Workers
    BY <1>1, CourierAssumption, IdleIsNoJob DEF Posted, Lost, NoCall
  <2>2. call' \in Workers => work'[call'] = r /\ r # Idle
    BY <1>1, <2>1 DEF Posted, Asks
  <2>3. pc \in InEvent => cur' = cur
    BY DEF Asks, InEvent
  <2>4. pc' = pc /\ act' = act /\ todo' = todo /\ ending' = ending /\ sessions' = sessions
    BY DEF Asks
  <2>5. pc \in {"close", "idle"} => \E st \in ending : st.session = cur'
    BY DEF Asks, InEvent
  <2>6. pc \notin {"get", "plant"}
    BY DEF Asks
  <2> QED BY <2>1, <2>2, <2>3, <2>4, <2>5, <2>6 DEF LoopInv, Asks, Tracked
<1> QED BY <1>1, <1>2, <1>3

-----------------------------------------------------------------------------
(* What others do while the coroutine waits.                               *)

LEMMA LoopKept ==
    ASSUME LoopInv, UNCHANGED <<pc, cur, act, todo, ending, call, sessions>>,
           call \in Workers => work'[call] # Idle /\ work'[call].session = work[call].session
                               /\ work'[call].op = work[call].op
    PROVE  LoopInv'
BY DEF LoopInv, Tracked

LEMMA LoopSpared ==
    ASSUME LoopInv, UNCHANGED <<pc, cur, act, todo, ending, call, sessions, work>>
    PROVE  LoopInv'
BY LoopKept DEF LoopInv

(* A brain that works at a request leaves it the courier's.                *)
LEMMA BrainSteps ==
    ASSUME BaseInv, NEW w \in Workers, BrainStep(w) \/ DatabaseFails(w)
    PROVE  Handled(w) /\ work[w] # Idle /\ Serving(w)
           /\ StoreInv' /\ JobsInv' /\ StatesInv' /\ LoopInv' /\ TaskInv'
<1> USE DEF BaseInv
<1>1. Handled(w) /\ work[w] # Idle /\ Serving(w)
  <2>1. CASE BrainStep(w)
    BY <2>1, Handlers DEF BrainStep
  <2>2. CASE DatabaseFails(w)
    <3>1. work[w].step \in {"apply", "store", "write", "judge"}
      BY <2>2 DEF DatabaseFails, JudgeBlindly
    <3> QED BY <2>2, <3>1, DatabaseGivesUp, Judges, AtWork DEF Serving
  <2> QED BY <2>1, <2>2
<1>2. UNCHANGED <<clock, queue, sessions, pc, cur, act, todo, ending, call, tasks>>
  BY DEF BrainStep, DatabaseFails, JudgeBlindly, loopVars
<1>3. StoreInv' /\ JobsInv'
  BY <1>1, <1>2, HandledKeeps
<1>4. StatesInv'
  BY <1>1, <1>2, StatesKept DEF Handled, StoreInv
<1>5. LoopInv'
  <2>1. ASSUME call \in Workers
        PROVE  work'[call] # Idle /\ work'[call].session = work[call].session
               /\ work'[call].op = work[call].op
    BY <1>1, <2>1, IdleIsNoJob DEF Handled, SameRequest, LoopInv
  <2> QED BY <1>2, <2>1, LoopKept
<1>6. TaskInv'
  BY <1>2 DEF TaskInv, Tracked
<1> QED BY <1>1, <1>3, <1>4, <1>5, <1>6

LEMMA DropSteps ==
    ASSUME BaseInv, NEW w \in Workers, DropReply(w)
    PROVE  /\ StoreInv' /\ JobsInv' /\ StatesInv' /\ LoopInv' /\ TaskInv'
           /\ w # call /\ work'[w] = Idle /\ \A v \in Workers \ {w} : work'[v] = work[v]
<1> USE DEF BaseInv
<1>1. /\ work' \in [Workers -> Job \cup {Idle}] /\ work'[w] = Idle
      /\ \A v \in Workers \ {w} : work'[v] = work[v]
  BY DEF DropReply, StoreInv
<1>2. UNCHANGED <<clock, tables, sessions, pc, cur, act, todo, ending, call, tasks>> /\ w # call
  BY DEF DropReply, loopVars
<1>3. StoreInv' /\ Grows
  BY <1>1, <1>2, TablesStay DEF StoreInv
<1>4. JobsInv'
  BY <1>1, <1>3, JobsStay
<1>5. StatesInv'
  BY <1>2, <1>3, StatesKept DEF StoreInv
<1>6. LoopInv'
  BY <1>1, <1>2, LoopKept DEF LoopInv
<1>7. TaskInv'
  BY <1>2 DEF TaskInv, Tracked
<1> QED BY <1>1, <1>2, <1>3, <1>4, <1>5, <1>6, <1>7

LEMMA GiveUpSteps ==
    ASSUME BaseInv, GiveUp
    PROVE  StoreInv' /\ JobsInv' /\ StatesInv' /\ LoopInv' /\ TaskInv'
<1> USE DEF BaseInv
<1>1. UNCHANGED <<clock, tables, work, sessions, pc, cur, act, todo, ending, tasks>>
      /\ call \in Workers /\ call' = Lost
  BY DEF GiveUp, storeVars
<1>2. StoreInv' /\ JobsInv'
  BY <1>1, WorkStays DEF StoreInv
<1>3. Grows /\ clock' \in Nat /\ clock' >= clock
  BY <1>1, UnchangedGrows DEF tables, StoreInv
<1>4. StatesInv'
  BY <1>1, <1>3, StatesKept
<1>5. Lost \notin Workers /\ Lost # NoCall /\ call # NoCall
  BY <1>1, CourierAssumption DEF Lost, NoCall
<1>6. LoopInv'
  BY <1>1, <1>5 DEF LoopInv, Tracked
<1>7. TaskInv'
  BY <1>1 DEF TaskInv, Tracked
<1> QED BY <1>2, <1>4, <1>6, <1>7

LEMMA AnalystSteps ==
    ASSUME BaseInv, AnalystDeactivates
    PROVE  KeepsRows /\ StoreInv' /\ JobsInv' /\ StatesInv' /\ LoopInv' /\ TaskInv'
<1> USE DEF BaseInv
<1>1. PICK r \in DOMAIN tokens : Deactivate(r)
  BY DEF AnalystDeactivates
<1>2. UNCHANGED <<clock, decisions, arms, work, sessions, pc, cur, act, todo, ending, call, tasks>>
  BY <1>1 DEF AnalystDeactivates, Deactivate, loopVars
<1>3. KeepsRows
  BY <1>1, FlagKeepsRows DEF Deactivate
<1>4. StoreInv'
  BY <1>2, <1>3 DEF StoreInv, KeepsRows, ArmOf
<1>5. JobsInv'
  BY <1>2, <1>3 DEF JobsInv, JobFits, Knows, KeepsRows
<1>6. Grows
  BY <1>2, <1>3 DEF Grows, KeepsRows, StoreInv
<1>7. StatesInv'
  BY <1>2, <1>6, StatesKept DEF StoreInv
<1>8. LoopInv'
  BY <1>2, LoopSpared
<1>9. TaskInv'
  BY <1>2 DEF TaskInv, Tracked
<1> QED BY <1>3, <1>4, <1>5, <1>7, <1>8, <1>9

(* A state's tripwire may grow; what is pending and whose it is stays.     *)
Watching ==
    /\ Tracked' = Tracked
    /\ \A s \in Tracked :
        /\ sessions'[s].session = sessions[s].session
        /\ sessions'[s].pending = sessions[s].pending
        /\ sessions[s].extra \subseteq sessions'[s].extra

LEMMA GenerationSteps ==
    ASSUME BaseInv, NEW t \in tasks, GenerationReturns(t)
    PROVE  /\ StoreInv' /\ JobsInv' /\ StatesInv' /\ LoopInv' /\ TaskInv'
           /\ Watching
           /\ \/ tasks' = tasks \ {t}
              \/ /\ tasks' = (tasks \ {t}) \cup {[t EXCEPT !.stage = "plant"]}
                 /\ t.tracked => t.session \in sessions'[t.session].extra
<1> USE DEF BaseInv
<1>1. UNCHANGED <<clock, tables, work, pc, cur, act, todo, ending, call>>
  BY DEF GenerationReturns, storeVars, loopVars
<1>2. StoreInv' /\ JobsInv'
  BY <1>1, WorkStays DEF StoreInv
<1>3. t.session \in Sessions /\ t.tracked \in BOOLEAN /\ (t.tracked => t.session \in Tracked)
  BY DEF TaskInv
<1>4. Whole(sessions)
  BY DEF StatesInv
<1>5. \A x : Fits(x)' <=> Fits(x)
  BY <1>1 DEF Fits, tables
<1>6. CASE tasks' = tasks \ {t} /\ sessions' = sessions
  <2>1. Grows /\ clock' \in Nat /\ clock' >= clock
    BY <1>1, UnchangedGrows DEF tables, StoreInv
  <2>2. StatesInv'
    BY <1>1, <1>6, <2>1, StatesKept
  <2>3. LoopInv'
    BY <1>1, <1>6, LoopSpared DEF tables
  <2>4. TaskInv'
    BY <1>6 DEF TaskInv, Tracked
  <2> QED BY <1>2, <1>6, <2>2, <2>3, <2>4 DEF Watching, Tracked
<1>7. CASE /\ tasks' = (tasks \ {t}) \cup {[t EXCEPT !.stage = "plant"]}
           /\ sessions' = IF t.tracked
                  THEN Put(t.session, [sessions[t.session] EXCEPT !.extra = @ \cup {t.session}])
                  ELSE sessions
  <2> DEFINE s == t.session  old == sessions[s]  st == [old EXCEPT !.extra = @ \cup {s}]
  <2>1. Whole(sessions') /\ Watching /\ (t.tracked => s \in sessions'[s].extra)
    <3>1. CASE t.tracked
      <4>1. s \in Tracked /\ s \in Values /\ Fits(old) /\ old.session = s
        BY <1>3, <1>4, <3>1 DEF Whole, Tracked, Values
      <4>2. Fits(st) /\ st.session = s /\ st.pending = old.pending /\ st.extra = old.extra \cup {s}
        <5> HIDE DEF old, s
        <5>1. Fits(st) /\ st.session = old.session /\ st.pending = old.pending /\ st.extra = old.extra \cup {s}
          BY <4>1, WatchedState
        <5> QED BY <4>1, <5>1
      <4>3. sessions' = Put(s, st)
        BY <1>7, <3>1
      <4> HIDE DEF st
      <4>4. /\ Whole(Put(s, st)) /\ DOMAIN Put(s, st) = Tracked \cup {s} /\ Put(s, st)[s] = st
            /\ \A u \in Tracked \ {s} : Put(s, st)[u] = sessions[u]
        BY <1>3, <1>4, <4>2, PutKeeps
      <4>5. Tracked' = Tracked
        BY <4>1, <4>3, <4>4 DEF Tracked
      <4> QED BY <4>1, <4>2, <4>3, <4>4, <4>5 DEF Watching
    <3>2. CASE ~t.tracked
      BY <1>4, <1>7, <3>2 DEF Watching, Tracked
    <3> QED BY <3>1, <3>2
  <2>2. StatesInv'
    <3>1. Whole(sessions)'
      BY <2>1, <1>5 DEF Whole
    <3> QED BY <1>1, <1>5, <2>1, <3>1 DEF StatesInv, Watching
  <2>3. LoopInv'
    BY <1>1, <2>1 DEF LoopInv, Watching
  <2>4. TaskInv'
    <3> DEFINE u == [t EXCEPT !.stage = "plant"]
    <3>1. u \in [session : Sessions, tracked : BOOLEAN, stage : {"generate", "plant"}]
          /\ u.session = t.session /\ u.tracked = t.tracked
      BY DEF TaskInv
    <3> HIDE DEF u
    <3>2. tasks' = (tasks \ {t}) \cup {u}
      BY <1>7 DEF u
    <3> QED BY <1>3, <2>1, <3>1, <3>2 DEF TaskInv, Watching
  <2> QED BY <1>2, <1>7, <2>1, <2>2, <2>3, <2>4
<1> QED BY <1>6, <1>7 DEF GenerationReturns

LEMMA PlantedSteps ==
    ASSUME BaseInv, NEW t \in tasks, GeneratedPlanted(t)
    PROVE  StoreInv' /\ JobsInv' /\ StatesInv' /\ LoopInv' /\ TaskInv'
<1> USE DEF BaseInv
<1>1. UNCHANGED <<clock, tables, work, sessions, pc, cur, act, todo, ending, call>> /\ tasks' = tasks \ {t}
  BY DEF GeneratedPlanted, storeVars, loopVars
<1>2. StoreInv' /\ JobsInv'
  BY <1>1, WorkStays DEF StoreInv
<1>3. Grows /\ clock' \in Nat /\ clock' >= clock
  BY <1>1, UnchangedGrows DEF tables, StoreInv
<1>4. StatesInv'
  BY <1>1, <1>3, StatesKept
<1>5. LoopInv'
  BY <1>1, LoopSpared DEF tables
<1>6. TaskInv'
  BY <1>1 DEF TaskInv, Tracked
<1> QED BY <1>2, <1>4, <1>5, <1>6

(* Time and attackers.                                                     *)
World == Tick \/ Attacker \/ UNCHANGED vars

LEMMA WorldSteps ==
    ASSUME BaseInv, World
    PROVE  /\ StoreInv' /\ JobsInv' /\ StatesInv' /\ LoopInv' /\ TaskInv'
           /\ UNCHANGED <<tables, work, overlapped, adaptive, sessions, loopVars, tasks, ghosts, hurt>>
<1> USE DEF BaseInv
<1>1. /\ UNCHANGED <<tables, work, overlapped, adaptive, sessions, loopVars, tasks, ghosts, hurt>>
      /\ clock' \in {clock, clock + 1}
  BY DEF World, Tick, Attacker, Type, Leave, vars, storeVars, attackerVars, faultVars
<1>2. clock' \in Nat /\ clock' >= clock
  BY <1>1 DEF StoreInv
<1>3. StoreInv' /\ JobsInv'
  BY <1>1, <1>2, WorkStays
<1>4. Grows
  BY <1>1, UnchangedGrows DEF tables
<1>5. StatesInv'
  BY <1>1, <1>2, <1>4, StatesKept DEF loopVars
<1>6. LoopInv'
  BY <1>1, LoopSpared DEF loopVars
<1>7. TaskInv'
  BY <1>1 DEF TaskInv, Tracked
<1> QED BY <1>1, <1>3, <1>5, <1>6, <1>7

(* The steps of the coroutine that leave the tables alone.                 *)
LEMMA CourierWrites ==
    ASSUME BaseInv, TakeClosed \/ TakeControlCommand \/ TakeCommand \/ BrokerAnswers \/ BrokerFails
                    \/ LeaveUnresolved
    PROVE  /\ StoreInv' /\ JobsInv' /\ UNCHANGED <<clock, tables, work, overlapped, adaptive, call>>
           /\ call = NoCall
<1>1. UNCHANGED <<clock, tables, work, overlapped, adaptive, call>> /\ pc \in {"get", "plant", "close", "idle"}
  BY DEF TakeClosed, TakeControlCommand, TakeCommand, BrokerAnswers, BrokerFails, LeaveUnresolved,
         storeVars, attackerVars
<1>2. StoreInv' /\ JobsInv'
  BY <1>1, WorkStays DEF StoreInv, BaseInv
<1>3. call = NoCall
  BY DEF BaseInv, LoopInv, TakeClosed, TakeControlCommand, TakeCommand, BrokerAnswers, BrokerFails,
         LeaveUnresolved
<1> QED BY <1>1, <1>2, <1>3

-----------------------------------------------------------------------------
(* Types.                                                                  *)

LEMMA OfferKeeps ==
    ASSUME WorldInv, NEW e \in Event, Offer(e)
    PROVE  queue' \in Seq(Event) /\ Len(queue') <= QueueSize
<1>1. queue \in Seq(Event) /\ Len(queue) <= QueueSize /\ QueueSize \in Nat /\ Len(queue) \in Nat
  BY CourierAssumption DEF WorldInv
<1>2. CASE Len(queue) < QueueSize
  <2>1. queue' = Append(queue, e)
    BY <1>2 DEF Offer
  <2>2. Len(queue') = Len(queue) + 1
    BY <1>1, <2>1
  <2> QED BY <1>1, <1>2, <2>1, <2>2
<1>3. CASE ~(Len(queue) < QueueSize)
  BY <1>1, <1>3 DEF Offer
<1> QED BY <1>2, <1>3

LEMMA FaultKeeps == ASSUME WorldInv, NEW k, Fault(k) PROVE faults' \in 0..MaxFaults
BY CourierAssumption DEF WorldInv, Fault

(* What the rest of the steps leave alone of the world.                    *)
LEMMA WorldKept ==
    ASSUME WorldInv, UNCHANGED <<typed, ended>>,
           queue' \in Seq(Event), Len(queue') <= QueueSize,
           faults' = faults \/ \E k : Fault(k)
    PROVE  WorldInv'
BY FaultKeeps DEF WorldInv

LEMMA WorldStep == ASSUME BaseInv, [Next]_vars PROVE WorldInv'
<1> USE DEF BaseInv
<1>1. CASE Tick \/ UNCHANGED vars
  BY <1>1 DEF Tick, vars, WorldInv, attackerVars, faultVars
<1>2. ASSUME NEW s \in Sessions, Leave(s) PROVE WorldInv'
  <2> DEFINE e == [kind |-> "closed", session |-> s, uses |-> {}]
  <2>1. e \in Event /\ Offer(e)
    BY <1>2 DEF Event, Leave
  <2> HIDE DEF e
  <2>2. queue' \in Seq(Event) /\ Len(queue') <= QueueSize
    BY <2>1, OfferKeeps
  <2> QED BY <1>2, <2>2 DEF Leave, WorldInv, faultVars
<1>3. ASSUME NEW s \in Sessions, NEW uses \in SUBSET Values, Type(s, uses) PROVE WorldInv'
  <2> DEFINE e == [kind |-> "command", session |-> s, uses |-> uses]
  <2>1. e \in Event /\ Offer(e)
    BY <1>3 DEF Event, Type
  <2> HIDE DEF e
  <2>2. queue' \in Seq(Event) /\ Len(queue') <= QueueSize
    BY <2>1, OfferKeeps
  <2>3. typed' \in [Sessions -> Nat] /\ ended' = ended
    BY <1>3 DEF Type, WorldInv
  <2>4. faults' = faults \/ \E k : Fault(k)
    BY <1>3 DEF Type
  <2>5. faults' \in 0..MaxFaults
    BY <2>4, FaultKeeps DEF WorldInv
  <2> QED BY <2>2, <2>3, <2>5 DEF WorldInv
<1>4. CASE TakeClosed \/ TakeControlCommand \/ TakeCommand
  <2>1. pc = "get" /\ queue # <<>> /\ queue' = Tail(queue) /\ UNCHANGED <<typed, ended, faults>>
    BY <1>4 DEF TakeClosed, TakeControlCommand, TakeCommand, attackerVars, faultVars
  <2> QED BY <2>1, Taken, WorldKept
<1>5. ASSUME UNCHANGED <<typed, ended, queue>>, faults' = faults \/ \E k : Fault(k)
      PROVE  WorldInv'
  BY <1>5, WorldKept DEF WorldInv
<1>6. CASE Post1
  <2>1. \E r : Post(r)
    BY <1>6, PostAsks DEF Asks
  <2>2. UNCHANGED <<typed, ended, queue>>
    BY <1>6 DEF Post1, PostTrip, PostHit, PostClassify, PostDeclare, PostResolution, attackerVars
  <2>3. faults' = faults \/ \E k : Fault(k)
    BY <2>1 DEF Post
  <2> QED BY <1>5, <2>2, <2>3
<1>7. CASE TripReplied \/ HitReplied \/ ClassifyReplied \/ BrokerAnswers \/ DeclareDone
           \/ LeaveUnresolved \/ ResolutionReplied \/ Failures
  BY <1>5, <1>7 DEF TripReplied, HitReplied, ClassifyReplied, BrokerAnswers, DeclareDone,
       LeaveUnresolved, ResolutionReplied, Failures, TripFails, HitFails, ClassifyFails,
       BrokerFails, ResolutionFails, attackerVars, faultVars
<1>8. CASE Background
  BY <1>5, <1>8 DEF Background, GenerationReturns, GeneratedPlanted, attackerVars, faultVars
<1>9. CASE Brain
  BY <1>5, <1>9 DEF Brain, BrainStep, DropReply, attackerVars, faultVars
<1>10. CASE Trouble
  BY <1>5, <1>10 DEF Trouble, GiveUp, AnalystDeactivates, DatabaseFails, JudgeBlindly, attackerVars, faultVars
<1> QED BY <1>1, <1>2, <1>3, <1>4, <1>6, <1>7, <1>8, <1>9, <1>10
    DEF Next, Attacker, CourierStep, Post1

(* The invariant the others are built on is kept by every step.            *)
LEMMA BaseStep == BaseInv /\ [Next]_vars => BaseInv'
<1> SUFFICES ASSUME BaseInv, [Next]_vars PROVE BaseInv'
  OBVIOUS
<1> DEFINE Goal == StoreInv' /\ JobsInv' /\ StatesInv' /\ LoopInv' /\ TaskInv'
<1>1. ASSUME World PROVE Goal
  BY <1>1, WorldSteps
<1>2. ASSUME TakeClosed PROVE Goal
  BY <1>2, CourierWrites, ClosedSteps DEF KeepsBut
<1>3. ASSUME TakeControlCommand PROVE Goal
  BY <1>3, CourierWrites, ControlSteps
<1>4. ASSUME TakeCommand PROVE Goal
  BY <1>4, CourierWrites, CommandSteps
<1>5. ASSUME Post1 PROVE Goal
  BY <1>5, PostAsks, AskKeeps
<1>6. ASSUME TripReplied \/ TripFails PROVE Goal
  BY <1>6, TripSteps
<1>7. ASSUME HitReplied \/ HitFails PROVE Goal
  BY <1>7, HitSteps
<1>8. ASSUME ClassifyReplied PROVE Goal
  BY <1>8, ClassifySteps
<1>9. ASSUME ClassifyFails PROVE Goal
  BY <1>9, ClassifyGivesUp
<1>10. ASSUME BrokerAnswers \/ BrokerFails PROVE Goal
  BY <1>10, CourierWrites, PlantSteps
<1>11. ASSUME DeclareDone PROVE Goal
  BY <1>11, DeclareSteps
<1>12. ASSUME LeaveUnresolved PROVE Goal
  BY <1>12, CourierWrites, LeaveSteps DEF KeepsBut
<1>13. ASSUME ResolutionReplied \/ ResolutionFails PROVE Goal
  BY <1>13, ResolutionSteps DEF KeepsBut
<1>14. ASSUME Background PROVE Goal
  BY <1>14, GenerationSteps, PlantedSteps DEF Background
<1>15. ASSUME Brain PROVE Goal
  BY <1>15, BrainSteps, DropSteps DEF Brain
<1>16. ASSUME Trouble PROVE Goal
  BY <1>16, GiveUpSteps, AnalystSteps, BrainSteps DEF Trouble
<1>17. WorldInv'
  BY WorldStep
<1> HIDE DEF Goal
<1>18. Goal
  <2>1. \/ World \/ TakeClosed \/ TakeControlCommand \/ TakeCommand \/ Post1
        \/ TripReplied \/ TripFails \/ HitReplied \/ HitFails \/ ClassifyReplied \/ ClassifyFails
        \/ BrokerAnswers \/ BrokerFails \/ DeclareDone \/ LeaveUnresolved
        \/ ResolutionReplied \/ ResolutionFails \/ Background \/ Brain \/ Trouble
    BY DEF Next, World, CourierStep, Failures, Post1
  <2> QED BY <2>1, <1>1, <1>2, <1>3, <1>4, <1>5, <1>6, <1>7, <1>8, <1>9, <1>10, <1>11, <1>12,
             <1>13, <1>14, <1>15, <1>16
<1> QED BY <1>17, <1>18 DEF BaseInv, Goal

LEMMA BaseInit == Init => BaseInv
<1> SUFFICES ASSUME Init PROVE BaseInv
  OBVIOUS
<1>1. StoreInv
  BY DEF Init, StoreInit, StoreInv, NoArms
<1>2. JobsInv
  BY DEF Init, StoreInit, JobsInv
<1>3. WorldInv
  BY CourierAssumption DEF Init, WorldInv
<1>4. sessions = [s \in {} |-> 0] /\ DOMAIN sessions = {}
  BY DEF Init
<1>5. StatesInv
  BY <1>4 DEF Init, StatesInv, Whole
<1>6. LoopInv
  BY CourierAssumption DEF Init, LoopInv, InEvent, NoCall
<1>7. TaskInv
  BY DEF Init, TaskInv
<1> QED BY <1>1, <1>2, <1>3, <1>5, <1>6, <1>7 DEF BaseInv

FlagInv == adaptive \in [Sessions -> BOOLEAN] /\ overlapped \in BOOLEAN

LEMMA FlagStep == BaseInv /\ FlagInv /\ [Next]_vars => FlagInv'
<1> SUFFICES ASSUME BaseInv, FlagInv, [Next]_vars PROVE FlagInv'
  OBVIOUS
<1>1. adaptive' = adaptive
  BY DEF Next, vars, attackerVars, Tick, Attacker, Type, Leave, CourierStep, Failures, Background,
         Brain, Trouble, TakeClosed, TakeControlCommand, TakeCommand, PostTrip, TripReplied, PostHit,
         HitReplied, PostClassify, ClassifyReplied, BrokerAnswers, PostDeclare, DeclareDone,
         LeaveUnresolved, PostResolution, ResolutionReplied, TripFails, HitFails, ClassifyFails,
         BrokerFails, ResolutionFails, GenerationReturns, GeneratedPlanted, BrainStep, DropReply,
         GiveUp, AnalystDeactivates, DatabaseFails, JudgeBlindly
<1>2. ASSUME NEW w, NEW r, Serve(w, r) PROVE overlapped' \in BOOLEAN
  BY <1>2 DEF Serve
<1>3. ASSUME Post1 PROVE overlapped' \in BOOLEAN
  <2>1. PICK r : Asks(r)
    BY <1>3, PostAsks
  <2>2. (\E w \in Workers : Serve(w, r)) \/ overlapped' = overlapped
    BY <2>1 DEF Asks, Post
  <2>3. overlapped \in BOOLEAN
    BY DEF FlagInv
  <2>4. CASE \E w \in Workers : Serve(w, r)
    <3>1. PICK w \in Workers : Serve(w, r)
      BY <2>4
    <3> QED BY <3>1, <1>2
  <2>5. CASE overlapped' = overlapped
    BY <2>3, <2>5, Zenon
  <2> QED BY <2>2, <2>4, <2>5
<1>4. overlapped' = overlapped \/ Post1
  <2>1. CASE World
    BY <2>1, WorldSteps, Zenon
  <2>2. CASE Background \/ BrokerAnswers \/ BrokerFails \/ LeaveUnresolved \/ TakeClosed
             \/ TakeControlCommand \/ TakeCommand
    BY <2>2 DEF Background, GenerationReturns, GeneratedPlanted, storeVars, BrokerAnswers, BrokerFails,
       LeaveUnresolved, TakeClosed, TakeControlCommand, TakeCommand
  <2>3. CASE TripReplied \/ HitReplied \/ ClassifyReplied \/ DeclareDone \/ ResolutionReplied
             \/ TripFails \/ HitFails \/ ClassifyFails \/ ResolutionFails
    BY <2>3 DEF TripReplied, HitReplied, ClassifyReplied, DeclareDone, ResolutionReplied, TripFails,
       HitFails, ClassifyFails, ResolutionFails, Replied, RequestFails, RaisesException
  <2>4. ASSUME NEW w \in Workers, BrainStep(w) PROVE overlapped' = overlapped
    BY <2>4 DEF BrainStep, Handle, LookForPending, JudgeOutcome, CheckUnresolved, ApplyReward,
       ReadArms, StoreDecision, StoreConflicts, FindToken, InsertToken, RearmToken, RecordAccess
  <2>5. CASE Brain
    BY <2>4, <2>5 DEF Brain, DropReply
  <2>6. CASE Trouble
    BY <2>6 DEF Trouble, GiveUp, AnalystDeactivates, Deactivate, DatabaseFails, JudgeBlindly, storeVars
  <2> QED BY <2>1, <2>2, <2>3, <2>5, <2>6 DEF Next, World, CourierStep, Failures, Post1
<1>5. overlapped' \in BOOLEAN
  BY <1>3, <1>4 DEF FlagInv
<1> QED BY <1>1, <1>5 DEF FlagInv

LEMMA TypesHold == BaseInv /\ FlagInv => TypeOK
<1> SUFFICES ASSUME BaseInv, FlagInv PROVE TypeOK
  OBVIOUS
<1> USE DEF BaseInv
<1>1. ASSUME NEW w \in Workers
      PROVE  /\ work[w].step \in Steps
             /\ work[w] # Idle =>
                  /\ work[w].op \in {"classify", "feedback", "register", "check"}
                  /\ work[w].session \in Sessions
                  /\ work[w].intent \in Intents
                  /\ work[w].pay \in 0..FullReward
                  /\ work[w].value \in Values \cup {NoToken}
                  /\ work[w].dec \in 0..Len(decisions)
                  /\ work[w].row \in 0..Len(tokens)
  <2>1. CASE work[w] = Idle
    BY <2>1 DEF Idle, Steps
  <2>2. CASE work[w] # Idle
    <3>1. work[w] \in Job /\ JobFits(work[w])
      BY <2>2 DEF StoreInv, JobsInv
    <3> QED BY <3>1 DEF Job, JobFits
  <2> QED BY <2>1, <2>2
<1>2. clock \in Nat /\ decisions \in Seq(Decision) /\ tokens \in Seq(TokenRow)
      /\ DOMAIN arms \subseteq Arms /\ \A m \in DOMAIN arms : arms[m] \in Arm
  BY DEF StoreInv
<1>3. overlapped \in BOOLEAN /\ adaptive \in [Sessions -> BOOLEAN]
  BY DEF FlagInv
<1>4. StoreTypeOK
  BY <1>1, <1>2, <1>3, Zenon DEF StoreTypeOK
<1>5. ASSUME NEW st, Fits(st)
      PROVE  /\ DOMAIN st = DOMAIN NewState(st.session)
             /\ st.session \in Sessions
             /\ st.pending \in 0..Len(decisions)
             /\ st.seen <= clock /\ st.since <= clock /\ st.classified <= clock
             /\ st.deployed \subseteq Actions
             /\ st.tripped \cup st.extra \subseteq Values
  <2>1. st \in State /\ decisions \in Seq(Decision)
    BY <1>2, <1>5 DEF Fits
  <2>2. DOMAIN st = DOMAIN NewState(st.session)
    BY <2>1 DEF State, NewState
  <2>3. st.pending \in 0..Len(decisions)
    BY <1>5, <2>1 DEF Fits
  <2> QED BY <1>5, <2>1, <2>2, <2>3 DEF Fits, State
<1>6. \A st \in Range(sessions) \cup ending : Fits(st)
  BY DEF StatesInv, Whole, Range
<1>7. Tracked \subseteq Sessions /\ \A s \in Tracked : sessions[s].session = s
  BY DEF StatesInv, Whole, Tracked
<1>8. /\ typed \in [Sessions -> Nat] /\ ended \subseteq Sessions
      /\ queue \in Seq(Event) /\ Len(queue) <= QueueSize /\ faults \in 0..MaxFaults
  BY DEF WorldInv
<1>9. cur \in Sessions \cup {Nobody}
  <2>1. CASE pc \in InEvent
    BY <2>1, <1>7 DEF LoopInv
  <2>2. CASE pc = "get"
    BY <2>2 DEF LoopInv
  <2>3. CASE pc \in {"close", "idle"}
    BY <2>3 DEF LoopInv, StatesInv, Fits, State
  <2> QED BY <2>1, <2>2, <2>3 DEF LoopInv
<1>10. /\ pc \in {"get", "trip", "check", "hit", "classify", "plant", "declare", "close", "idle"}
       /\ act \in Actions \cup {Nobody} /\ todo \subseteq Values /\ call \in Workers \cup {NoCall, Lost}
  BY DEF LoopInv, InEvent
<1>11. tasks \subseteq [session : Sessions, tracked : BOOLEAN, stage : {"generate", "plant"}]
  BY DEF TaskInv
<1> QED BY <1>3, <1>4, <1>5, <1>6, <1>7, <1>8, <1>9, <1>10, <1>11, Zenon DEF TypeOK

(* Type correctness of the courier and of the brain's tables, and the      *)
(* invariant that says what every handler and every await has in hand, for *)
(* any sessions, workers, catalogues, limits and faults.                   *)
THEOREM BrainTypes == Spec => [](TypeOK /\ BaseInv)
<1>1. Init => BaseInv /\ FlagInv
  BY BaseInit DEF Init, StoreInit, FlagInv
<1>2. BaseInv /\ FlagInv /\ [Next]_vars => (BaseInv /\ FlagInv)'
  BY BaseStep, FlagStep
<1> QED BY <1>1, <1>2, TypesHold, PTL DEF Spec

-----------------------------------------------------------------------------
(* Who does what: the steps, seen from one part of the state at a time.    *)

Replies ==
    \/ TripReplied \/ TripFails \/ HitReplied \/ HitFails \/ ClassifyReplied \/ ClassifyFails
    \/ DeclareDone \/ ResolutionReplied \/ ResolutionFails

Takes == TakeClosed \/ TakeControlCommand \/ TakeCommand
Quiet == World \/ Takes \/ BrokerAnswers \/ BrokerFails \/ LeaveUnresolved \/ Background \/ GiveUp

LEMMA Steps7 ==
    ASSUME [Next]_vars
    PROVE  \/ Quiet \/ Post1 \/ Replies
           \/ \E w \in Workers : BrainStep(w) \/ DatabaseFails(w)
           \/ \E w \in Workers : DropReply(w)
           \/ AnalystDeactivates
BY DEF Next, World, CourierStep, Failures, Post1, Quiet, Takes, Replies, Brain, Trouble

LEMMA QuietTables == ASSUME Quiet PROVE UNCHANGED <<tables, work, overlapped>>
<1>1. CASE World
  BY <1>1 DEF World, Tick, Attacker, Type, Leave, vars, storeVars
<1>2. CASE Takes \/ BrokerAnswers \/ BrokerFails \/ LeaveUnresolved \/ Background \/ GiveUp
  BY <1>2 DEF Takes, TakeClosed, TakeControlCommand, TakeCommand, BrokerAnswers, BrokerFails,
     LeaveUnresolved, Background, GenerationReturns, GeneratedPlanted, GiveUp, storeVars
<1> QED BY <1>1, <1>2 DEF Quiet

LEMMA RepliesFacts ==
    ASSUME BaseInv, Replies
    PROVE  UNCHANGED <<clock, tables, overlapped, adaptive>> /\ Answered
           /\ (RequestFails \/ Replied("ok"))
<1>1. UNCHANGED <<clock, tables, adaptive>> /\ (RequestFails \/ Replied("ok"))
  BY DEF Replies, TripReplied, TripFails, HitReplied, HitFails, ClassifyReplied, ClassifyFails,
     DeclareDone, ResolutionReplied, ResolutionFails, RequestFails, attackerVars
<1>2. Answered
  BY <1>1, AnswersKeep DEF BaseInv
<1>3. overlapped' = overlapped
  BY <1>1 DEF RequestFails, Replied, RaisesException
<1> QED BY <1>1, <1>2, <1>3

(* The decisions: only a handler writes them.                              *)
LEMMA WhoDecides ==
    ASSUME BaseInv, [Next]_vars
    PROVE  \/ decisions' = decisions
           \/ \E w \in Workers : BrainStep(w) /\ (ApplyReward(w) \/ StoreDecision(w))
<1>1. CASE Quiet
  BY <1>1, QuietTables DEF tables
<1>2. CASE Post1
  BY <1>2 DEF Post1, PostTrip, PostHit, PostClassify, PostDeclare, PostResolution, tables
<1>3. CASE Replies
  BY <1>3, RepliesFacts DEF tables
<1>4. ASSUME NEW w \in Workers, BrainStep(w) PROVE
          decisions' = decisions \/ (BrainStep(w) /\ (ApplyReward(w) \/ StoreDecision(w)))
  BY <1>4 DEF BrainStep, Handle, LookForPending, JudgeOutcome, CheckUnresolved, ReadArms, StoreConflicts,
     FindToken, InsertToken, RearmToken, RecordAccess, tables
<1>5. ASSUME NEW w \in Workers, DatabaseFails(w) \/ DropReply(w) PROVE decisions' = decisions
  BY <1>5 DEF DatabaseFails, JudgeBlindly, DropReply, tables
<1>6. CASE AnalystDeactivates
  BY <1>6 DEF AnalystDeactivates, Deactivate
<1> QED BY <1>1, <1>2, <1>3, <1>4, <1>5, <1>6, Steps7

(* The tokens: rows are added by a registration only.                      *)
LEMMA WhoRegisters ==
    ASSUME BaseInv, [Next]_vars
    PROVE  KeepsRows \/ \E w \in Workers : BrainStep(w) /\ InsertToken(w)
<1>0. tokens' = tokens => KeepsRows
  BY DEF KeepsRows, BaseInv, StoreInv
<1>1. CASE Quiet
  BY <1>0, <1>1, QuietTables DEF tables
<1>2. CASE Post1
  BY <1>0, <1>2 DEF Post1, PostTrip, PostHit, PostClassify, PostDeclare, PostResolution, tables
<1>3. CASE Replies
  BY <1>0, <1>3, RepliesFacts DEF tables
<1>4. ASSUME NEW w \in Workers, BrainStep(w) PROVE KeepsRows \/ InsertToken(w)
  <2>1. tokens' = tokens \/ InsertToken(w) \/ RearmToken(w) \/ RecordAccess(w)
    BY <1>4 DEF BrainStep, Handle, LookForPending, JudgeOutcome, CheckUnresolved, ReadArms, StoreConflicts,
       FindToken, ApplyReward, StoreDecision, tables
  <2> QED BY <2>1, <1>0, Rearms, Records DEF BaseInv
<1>5. ASSUME NEW w \in Workers, DatabaseFails(w) \/ DropReply(w) PROVE KeepsRows
  BY <1>0, <1>5 DEF DatabaseFails, JudgeBlindly, DropReply, tables
<1>6. CASE AnalystDeactivates
  BY <1>6, AnalystSteps
<1> QED BY <1>1, <1>2, <1>3, <1>4, <1>5, <1>6, Steps7

(* The workers: a request is taken up, worked at, answered or dropped.     *)
LEMMA WhoServes ==
    ASSUME BaseInv, [Next]_vars
    PROVE  \/ work' = work /\ ~Post1 /\ ~Replies
           \/ \E r : Asks(r) /\ Posted(r)
           \/ Replies /\ Answered
           \/ \E w \in Workers : (BrainStep(w) \/ DatabaseFails(w)) /\ Handled(w)
           \/ \E w \in Workers :
                  DropReply(w) /\ work'[w] = Idle /\ \A v \in Workers \ {w} : work'[v] = work[v]
<1>1. CASE Quiet /\ ~Post1 /\ ~Replies
  BY <1>1, QuietTables
<1>2. CASE Post1
  BY <1>2, PostAsks, AskKeeps
<1>3. CASE Replies
  BY <1>3, RepliesFacts
<1>4. ASSUME NEW w \in Workers, BrainStep(w) \/ DatabaseFails(w) PROVE Handled(w)
  BY <1>4, BrainSteps
<1>5. ASSUME NEW w \in Workers, DropReply(w)
      PROVE  work'[w] = Idle /\ \A v \in Workers \ {w} : work'[v] = work[v]
  BY <1>5, DropSteps
<1>6. CASE AnalystDeactivates /\ ~Post1 /\ ~Replies
  BY <1>6 DEF AnalystDeactivates, Deactivate
<1> QED BY <1>1, <1>2, <1>3, <1>4, <1>5, <1>6, Steps7

(* The tasks: the courier spawns them, and unties them from states it drops.*)
LEMMA WhoSpawns ==
    ASSUME BaseInv, [Next]_vars
    PROVE  \/ tasks' = tasks /\ planted' = planted
           \/ planted' = planted /\ \E gone : gone \cap Tracked' = {} /\ TasksFrom(gone, {})
           \/ /\ planted' = planted /\ pc = "plant"
              /\ \E gone : gone \cap Tracked' = {} /\ TasksFrom(gone, {Generate(cur)})
           \/ \E t \in tasks : GenerationReturns(t) \/ GeneratedPlanted(t)
<1>1. CASE World
  BY <1>1, WorldSteps DEF ghosts
<1>2. CASE TakeClosed
  BY <1>2, ClosedSteps DEF TakeClosed, ghosts
<1>3. CASE TakeControlCommand
  BY <1>3, ControlSteps DEF EventStep, TakeControlCommand, ghosts
<1>4. CASE TakeCommand
  BY <1>4, CommandSteps DEF EventStep, TakeCommand
<1>5. CASE Post1
  BY <1>5 DEF Post1, PostTrip, PostHit, PostClassify, PostDeclare, PostResolution, ghosts
<1>6. CASE TripReplied \/ TripFails
  BY <1>6, TripSteps DEF EventStep, TripReplied, TripFails, ghosts
<1>7. CASE HitReplied \/ HitFails
  BY <1>7, HitSteps DEF EventStep, HitReplied, HitFails, ghosts
<1>8. CASE ClassifyReplied
  BY <1>8, ClassifySteps DEF EventStep, ClassifyReplied, ghosts
<1>9. CASE ClassifyFails
  BY <1>9, ClassifyGivesUp DEF EventStep, ClassifyFails, ghosts
<1>10. CASE BrokerAnswers \/ BrokerFails
  BY <1>10, PlantSteps DEF EventStep, BrokerAnswers, BrokerFails, ghosts
<1>11. CASE DeclareDone
  BY <1>11, DeclareSteps DEF EventStep, DeclareDone, ghosts
<1>12. CASE LeaveUnresolved
  BY <1>12, LeaveSteps DEF LeaveUnresolved
<1>13. CASE ResolutionReplied \/ ResolutionFails
  BY <1>13, ResolutionSteps DEF ResolutionReplied, ResolutionFails, ghosts
<1>14. CASE Background
  BY <1>14 DEF Background
<1>15. CASE Brain \/ Trouble
  BY <1>15 DEF Brain, BrainStep, DropReply, Trouble, GiveUp, AnalystDeactivates, DatabaseFails, JudgeBlindly, ghosts
<1> QED BY <1>1, <1>2, <1>3, <1>4, <1>5, <1>6, <1>7, <1>8, <1>9, <1>10, <1>11, <1>12,
           <1>13, <1>14, <1>15 DEF Next, World, CourierStep, Failures, Post1

(* The coroutine: whose event it is in.                                    *)
LEMMA WhoMoves ==
    ASSUME BaseInv, [Next]_vars
    PROVE  \/ pc' \notin InEvent
           \/ pc \in InEvent /\ cur' = cur
           \/ TakeCommand /\ cur' = Head(queue).session
<1>0. BaseInv'
  BY BaseStep
<1>1. CASE World
  BY <1>1, WorldSteps DEF loopVars
<1>2. CASE TakeClosed
  BY <1>2, ClosedSteps DEF KeepsBut, InEvent
<1>3. CASE TakeControlCommand
  BY <1>3, ControlSteps
<1>4. CASE TakeCommand
  BY <1>4, CommandSteps DEF EventStep, Leaves
<1>5. CASE Post1
  <2>1. PICK r : Asks(r)
    BY <1>5, PostAsks
  <2> QED BY <2>1 DEF Asks, InEvent
<1>6. CASE TripReplied \/ TripFails
  BY <1>6, TripSteps DEF EventStep, Leaves, TripReplied, TripFails, InEvent
<1>7. CASE HitReplied \/ HitFails
  BY <1>7, HitSteps DEF EventStep, Leaves, HitReplied, HitFails, InEvent
<1>8. CASE ClassifyReplied
  BY <1>8, ClassifySteps DEF EventStep, Leaves, ClassifyReplied, InEvent
<1>9. CASE ClassifyFails
  BY <1>9, ClassifyGivesUp
<1>10. CASE BrokerAnswers \/ BrokerFails
  BY <1>10, PlantSteps DEF EventStep, Leaves, BrokerAnswers, BrokerFails, InEvent
<1>11. CASE DeclareDone
  BY <1>11, DeclareSteps DEF EventStep, Leaves, DeclareDone, InEvent
<1>12. CASE LeaveUnresolved
  BY <1>12, LeaveSteps DEF KeepsBut, InEvent
<1>13. CASE ResolutionReplied \/ ResolutionFails
  BY <1>13, ResolutionSteps DEF KeepsBut, InEvent
<1>14. CASE Background
  BY <1>14 DEF Background, GenerationReturns, GeneratedPlanted, loopVars
<1>15. CASE Brain \/ Trouble
  BY <1>15 DEF Brain, BrainStep, DropReply, Trouble, GiveUp, AnalystDeactivates, DatabaseFails, JudgeBlindly, loopVars
<1> QED BY <1>1, <1>2, <1>3, <1>4, <1>5, <1>6, <1>7, <1>8, <1>9, <1>10, <1>11, <1>12,
           <1>13, <1>14, <1>15 DEF Next, World, CourierStep, Failures, Post1

-----------------------------------------------------------------------------
(* The control arm.                                                        *)

LEMMA ArmConst == ASSUME [Next]_vars PROVE adaptive' = adaptive
BY DEF Next, vars, attackerVars, Tick, Attacker, Type, Leave, CourierStep, Failures, Background,
       Brain, Trouble, TakeClosed, TakeControlCommand, TakeCommand, PostTrip, TripReplied, PostHit,
       HitReplied, PostClassify, ClassifyReplied, BrokerAnswers, PostDeclare, DeclareDone,
       LeaveUnresolved, PostResolution, ResolutionReplied, TripFails, HitFails, ClassifyFails,
       BrokerFails, ResolutionFails, GenerationReturns, GeneratedPlanted, BrainStep, DropReply,
       GiveUp, AnalystDeactivates, DatabaseFails, JudgeBlindly

(* What a stored decision and a resolved one look like.                    *)
LEMMA StoredDecision ==
    ASSUME BaseInv, NEW w \in Workers, StoreDecision(w)
    PROVE  /\ work[w].op = "classify" /\ work[w].step = "store" /\ work[w] # Idle
           /\ DOMAIN decisions' = DOMAIN decisions \cup {Len(decisions) + 1}
           /\ Len(decisions) + 1 \notin DOMAIN decisions
           /\ decisions'[Len(decisions) + 1].session = work[w].session
           /\ decisions'[Len(decisions) + 1].resolved = FALSE
           /\ \A d \in DOMAIN decisions : decisions'[d] = decisions[d]
           /\ work'[w].dec = Len(decisions) + 1 /\ work'[w].step = "ok"
<1> USE DEF BaseInv
<1>1. work[w] \in Job /\ JobFits(work[w]) /\ work[w].step = "store" /\ work[w] # Idle
  BY AtWork DEF StoreDecision
<1>2. work[w].op = "classify"
  BY <1>1 DEF JobFits, StepsOf, Job
<1>3. decisions \in Seq(Decision) /\ work \in [Workers -> Job \cup {Idle}]
  BY DEF StoreInv
<1>4. PICK a \in Catalog[work[w].intent] :
          decisions' = Append(decisions, [session |-> work[w].session, intent |-> work[w].intent,
              action |-> a, at |-> clock, resolved |-> FALSE, reward |-> 0])
  BY DEF StoreDecision
<1> DEFINE new == [session |-> work[w].session, intent |-> work[w].intent,
              action |-> a, at |-> clock, resolved |-> FALSE, reward |-> 0]
<1>5. /\ DOMAIN decisions' = DOMAIN decisions \cup {Len(decisions) + 1}
      /\ decisions'[Len(decisions) + 1] = new
      /\ \A d \in DOMAIN decisions : decisions'[d] = decisions[d]
      /\ Len(decisions) + 1 \notin DOMAIN decisions
  <2> HIDE DEF new
  <2>1. decisions' = Append(decisions, new)
    BY <1>4 DEF new
  <2>2. decisions \in Seq({decisions[d] : d \in DOMAIN decisions} \cup {new})
    BY <1>3
  <2> QED BY <2>1, <2>2, Appended
<1>6. work' = [work EXCEPT ![w] = [work[w] EXCEPT !.step = "ok", !.dec = Len(decisions) + 1]]
  BY DEF StoreDecision, Continue
<1>7. work'[w] = [work[w] EXCEPT !.step = "ok", !.dec = Len(decisions) + 1]
  BY <1>3, <1>6
<1>8. work'[w].dec = Len(decisions) + 1 /\ work'[w].step = "ok"
  BY <1>1, <1>7 DEF Job
<1> QED BY <1>1, <1>2, <1>5, <1>8

LEMMA ResolvedDecision ==
    ASSUME BaseInv, NEW w \in Workers, ApplyReward(w)
    PROVE  /\ work[w].op \in {"classify", "feedback"} /\ work[w].step = "apply" /\ work[w] # Idle
           /\ work[w].dec \in DOMAIN decisions /\ decisions[work[w].dec].session = work[w].session
           /\ DOMAIN decisions' = DOMAIN decisions
           /\ decisions'[work[w].dec].resolved = TRUE
           /\ decisions'[work[w].dec].reward = work[w].pay
           /\ \A d \in DOMAIN decisions :
                  /\ decisions'[d].session = decisions[d].session
                  /\ d # work[w].dec => decisions'[d] = decisions[d]
           /\ work'[w].step = IF work[w].op = "classify" THEN "pick" ELSE "look"
<1> DEFINE e == work[w].dec
<1> USE DEF BaseInv
<1>1. work[w] \in Job /\ JobFits(work[w]) /\ work[w].step = "apply" /\ work[w] # Idle
  BY AtWork DEF ApplyReward
<1>2. work[w].op \in {"classify", "feedback"}
  BY <1>1 DEF JobFits, StepsOf, Job
<1>3. e \in DOMAIN decisions /\ decisions[e].session = work[w].session /\ decisions[e] \in Decision
  BY <1>1 DEF JobFits, Knows, StoreInv
<1>4. decisions' = [decisions EXCEPT ![e].resolved = TRUE, ![e].reward = work[w].pay]
  BY DEF ApplyReward
<1> DEFINE x == [decisions[e] EXCEPT !.resolved = TRUE, !.reward = work[w].pay]
<1>5. x.resolved = TRUE /\ x.reward = work[w].pay /\ x.session = decisions[e].session
  BY <1>3 DEF Decision
<1>6. decisions' = [decisions EXCEPT ![e] = x]
  BY <1>3, <1>4 DEF StoreInv
<1> HIDE DEF x
<1>7. DOMAIN decisions' = DOMAIN decisions /\ decisions'[e] = x
      /\ \A d \in DOMAIN decisions : d # e => decisions'[d] = decisions[d]
  BY <1>3, <1>6 DEF StoreInv
<1>8. GoTo(w, AfterResolve(work[w].op))
  BY DEF ApplyReward
<1>9. work'[w].step = AfterResolve(work[w].op)
  <2>1. AfterResolve(work[w].op) \in Steps \ {"idle"}
    BY DEF AfterResolve, Steps
  <2> QED BY <1>1, <1>8, <2>1, StepSet DEF StoreInv
<1> QED BY <1>1, <1>2, <1>3, <1>5, <1>7, <1>9 DEF AfterResolve

LEMMA ArmStep == BaseInv /\ ArmInv /\ [Next]_vars => ArmInv'
<1> SUFFICES ASSUME BaseInv, ArmInv, [Next]_vars PROVE ArmInv'
  OBVIOUS
<1>0. adaptive' = adaptive
  BY ArmConst
<1>1. \A w \in Workers :
          work[w] # Idle /\ work[w].op \in {"classify", "register"} => adaptive[work[w].session]
  BY DEF ArmInv
<1>2. \A d \in DOMAIN decisions' : adaptive[decisions'[d].session]
  <2>1. \A d \in DOMAIN decisions : adaptive[decisions[d].session]
    BY DEF ArmInv, ControlArmIsStatic
  <2>2. ASSUME NEW w \in Workers, StoreDecision(w)
        PROVE  \A d \in DOMAIN decisions' : adaptive[decisions'[d].session]
    <3>1. adaptive[work[w].session]
      BY <2>2, <1>1, StoredDecision
    <3>2. /\ DOMAIN decisions' = DOMAIN decisions \cup {Len(decisions) + 1}
          /\ decisions'[Len(decisions) + 1].session = work[w].session
          /\ \A d \in DOMAIN decisions : decisions'[d] = decisions[d]
      BY <2>2, StoredDecision
    <3>3. adaptive[decisions'[Len(decisions) + 1].session]
      BY <3>1, <3>2
    <3>4. \A d \in DOMAIN decisions : adaptive[decisions'[d].session]
      BY <2>1, <3>2
    <3> QED BY <3>2, <3>3, <3>4
  <2>3. ASSUME NEW w \in Workers, ApplyReward(w)
        PROVE  \A d \in DOMAIN decisions' : adaptive[decisions'[d].session]
    BY <2>1, <2>3, ResolvedDecision
  <2> QED BY <2>1, <2>2, <2>3, WhoDecides
<1>3. \A r \in DOMAIN tokens' : \E s \in Sessions : adaptive[s] /\ Honeypot[s] = tokens'[r].honeypot
  <2>1. \A r \in DOMAIN tokens : \E s \in Sessions : adaptive[s] /\ Honeypot[s] = tokens[r].honeypot
    BY DEF ArmInv, ControlArmIsStatic
  <2>2. ASSUME NEW w \in Workers, InsertToken(w)
        PROVE  \A r \in DOMAIN tokens' : \E s \in Sessions : adaptive[s] /\ Honeypot[s] = tokens'[r].honeypot
    <3>1. work[w].op = "register" /\ work[w] # Idle /\ work[w] \in Job
      BY <2>2, AtWork DEF InsertToken, BaseInv
    <3>2. adaptive[work[w].session] /\ work[w].session \in Sessions
      BY <3>1, <1>1 DEF Job
    <3>3. /\ DOMAIN tokens' = DOMAIN tokens \cup {Len(tokens) + 1}
          /\ tokens'[Len(tokens) + 1].honeypot = Honeypot[work[w].session]
          /\ \A r \in DOMAIN tokens : tokens'[r] = tokens[r]
      BY <2>2, Inserts DEF BaseInv
    <3> QED BY <2>1, <3>2, <3>3
  <2> QED BY <2>1, <2>2, WhoRegisters DEF KeepsRows
<1>4. (\A t \in tasks' : adaptive[t.session]) /\ \A s \in planted' : adaptive[s]
  <2>1. (\A t \in tasks : adaptive[t.session]) /\ \A s \in planted : adaptive[s]
    BY DEF ArmInv, ControlArmIsStatic
  <2>2. ASSUME NEW gone, TasksFrom(gone, {}) PROVE \A t \in tasks' : adaptive[t.session]
    BY <2>1, <2>2 DEF TasksFrom
  <2>3. ASSUME NEW gone, TasksFrom(gone, {Generate(cur)}), pc = "plant"
        PROVE  \A t \in tasks' : adaptive[t.session]
    <3>1. adaptive[cur]
      BY <2>3 DEF ArmInv, InEvent
    <3>2. Generate(cur).session = cur
      BY DEF Generate
    <3> QED BY <2>1, <2>3, <3>1, <3>2 DEF TasksFrom
  <2>4. ASSUME NEW t \in tasks, GenerationReturns(t)
        PROVE  (\A u \in tasks' : adaptive[u.session]) /\ planted' = planted
    <3>1. t \in [session : Sessions, tracked : BOOLEAN, stage : {"generate", "plant"}]
      BY DEF BaseInv, TaskInv
    <3>2. [t EXCEPT !.stage = "plant"].session = t.session
      BY <3>1
    <3>3. tasks' \subseteq tasks \cup {[t EXCEPT !.stage = "plant"]} /\ planted' = planted
      BY <2>4 DEF GenerationReturns, ghosts
    <3> QED BY <2>1, <3>2, <3>3
  <2>5. ASSUME NEW t \in tasks, GeneratedPlanted(t)
        PROVE  (\A u \in tasks' : adaptive[u.session]) /\ \A s \in planted' : adaptive[s]
    BY <2>1, <2>5 DEF GeneratedPlanted
  <2> QED BY <2>1, <2>2, <2>3, <2>4, <2>5, WhoSpawns
<1>5. pc' \in InEvent => adaptive[cur']
  <2>1. TakeCommand => adaptive[Head(queue).session]
    <3>1. TakeCommand => Head(queue).session \in Sessions \ Control
      BY Taken DEF TakeCommand, BaseInv
    <3> QED BY <3>1 DEF Control
  <2> QED BY <2>1, WhoMoves DEF ArmInv
<1>6. \A w \in Workers :
          work'[w] # Idle /\ work'[w].op \in {"classify", "register"} => adaptive[work'[w].session]
  <2>1. ASSUME NEW r, Asks(r), Posted(r)
        PROVE  r.op \in {"classify", "register"} => adaptive[r.session]
    <3>1. CASE pc \in InEvent
      <4>1. r.session = cur
        BY <2>1, <3>1 DEF Asks, InEvent
      <4> QED BY <3>1, <4>1 DEF ArmInv
    <3>2. CASE pc \in {"close", "idle"}
      BY <2>1, <3>2 DEF Asks, OpOf
    <3> QED BY <2>1, <3>1, <3>2 DEF Asks
  <2>2. ASSUME NEW r, Asks(r), Posted(r), NEW w \in Workers
        PROVE  work'[w] = work[w] \/ work'[w] = r
    <3>1. CASE w = call'
      BY <2>2, <3>1, CourierAssumption DEF Posted, Lost
    <3>2. CASE w # call'
      BY <2>2, <3>2 DEF Posted
    <3> QED BY <3>1, <3>2
  <2>3. ASSUME Answered, NEW w \in Workers PROVE work'[w] = work[w] \/ work'[w] = Idle
    <3>1. CASE w = call
      BY <2>3, <3>1, CourierAssumption DEF Answered, Lost
    <3>2. CASE w # call
      BY <2>3, <3>2 DEF Answered
    <3> QED BY <3>1, <3>2
  <2>4. ASSUME NEW v \in Workers, BrainStep(v) \/ DatabaseFails(v), Handled(v), NEW w \in Workers
        PROVE  work'[w] = work[w] \/ (work[w] # Idle /\ work'[w].op = work[w].op
                                      /\ work'[w].session = work[w].session)
    BY <2>4, BrainSteps DEF Handled, SameRequest
  <2> QED BY <1>1, <2>1, <2>2, <2>3, <2>4, WhoServes
<1> QED BY <1>0, <1>2, <1>3, <1>4, <1>5, <1>6 DEF ArmInv, ControlArmIsStatic

LEMMA ArmInit == Init => ArmInv
BY DEF Init, StoreInit, ArmInv, ControlArmIsStatic, InEvent

(* ControlArmIsStatic: on account of a session in the control arm nothing  *)
(* is ever decided, registered, generated or planted, whatever requests    *)
(* time out, workers overlap or states are dropped and made again.         *)
THEOREM ControlStaysStatic == Spec => []ControlArmIsStatic
<1>1. Init => BaseInv /\ ArmInv
  BY BaseInit, ArmInit
<1>2. BaseInv /\ ArmInv /\ [Next]_vars => (BaseInv /\ ArmInv)'
  BY BaseStep, ArmStep
<1>3. ArmInv => ControlArmIsStatic
  BY DEF ArmInv
<1> QED BY <1>1, <1>2, <1>3, PTL DEF Spec

-----------------------------------------------------------------------------
(* The honeytoken rows.                                                    *)

OneServed == \A v, w \in Workers : Serving(v) /\ Serving(w) => v = w
OneRow == \A r, q \in DOMAIN tokens : tokens[r].value = tokens[q].value => r = q
NoneFound ==
    \A w \in Workers :
        work[w].step = "write" /\ work[w].op = "register" /\ work[w].row = 0 =>
            \A r \in DOMAIN tokens : tokens[r].value # work[w].value

LEMMA UniqueParts == UniqueInv <=> (~overlapped => OneServed /\ OneRow /\ NoneFound)
BY DEF UniqueInv, OneServed, OneRow, NoneFound

LEMMA RowsStayUnique == ASSUME OneRow, KeepsRows PROVE OneRow'
BY DEF OneRow, KeepsRows

(* Workers that stop serving, or go on as they were, disturb nothing.      *)
LEMMA ServesLess ==
    ASSUME OneServed, OneRow, NoneFound, KeepsRows,
           \A w \in Workers : work'[w] = work[w] \/ work'[w].step \in {"idle", "ok", "error"}
    PROVE  (OneServed /\ OneRow /\ NoneFound)'
<1>1. OneServed'
  BY DEF OneServed, Serving
<1>2. NoneFound'
  BY DEF NoneFound, KeepsRows
<1> QED BY <1>1, <1>2, RowsStayUnique

LEMMA HandlersStayUnique ==
    ASSUME BaseInv, OneServed, OneRow, NoneFound, NEW w \in Workers, BrainStep(w)
    PROVE  (OneServed /\ OneRow /\ NoneFound)'
<1> USE DEF BaseInv
<1>1. Handled(w) /\ work[w] # Idle /\ Serving(w) /\ JobsInv /\ Handle(w)
  BY BrainSteps DEF BrainStep
<1>2. (\A v \in Workers \ {w} : work'[v] = work[v] /\ ~Serving(v))
      /\ work'[w].op = work[w].op /\ work'[w].value = work[w].value
  BY <1>1 DEF Handled, SameRequest, OneServed
<1>3. OneServed'
  BY <1>2 DEF OneServed, Serving
<1>4. \A v \in Workers \ {w} : work'[v].step # "write"
  BY <1>2 DEF Serving
<1>5. work[w].op = "register" => work[w].step \in {"find", "write", "ok", "error"}
  <2>1. JobFits(work[w])
    BY <1>1 DEF JobsInv
  <2> QED BY <2>1 DEF JobFits, StepsOf
<1>6. CASE InsertToken(w)
  <2>1. /\ work'[w].step = "ok"
        /\ DOMAIN tokens' = DOMAIN tokens \cup {Len(tokens) + 1}
        /\ Len(tokens) + 1 \notin DOMAIN tokens
        /\ tokens'[Len(tokens) + 1].value = work[w].value
        /\ \A r \in DOMAIN tokens : tokens'[r] = tokens[r]
    BY <1>6, Inserts
  <2>2. \A r \in DOMAIN tokens : tokens[r].value # work[w].value
    BY <1>6 DEF InsertToken, NoneFound
  <2> DEFINE n == Len(tokens) + 1
  <2>3. \A r, q \in DOMAIN tokens \cup {n} : tokens'[r].value = tokens'[q].value => r = q
    <3> HIDE DEF n
    <3>1. /\ n \notin DOMAIN tokens /\ tokens'[n].value = work[w].value
          /\ \A r \in DOMAIN tokens : tokens'[r] = tokens[r]
      BY <2>1 DEF n
    <3> QED BY <2>2, <3>1 DEF OneRow
  <2>4. OneRow'
    BY <2>1, <2>3 DEF OneRow
  <2>5. NoneFound'
    BY <1>4, <2>1 DEF NoneFound
  <2> QED BY <1>3, <2>4, <2>5
<1>7. CASE RearmToken(w) \/ RecordAccess(w)
  <2>1. work'[w].step = "ok" /\ KeepsRows
    BY <1>7, Rearms, Records
  <2>2. NoneFound'
    BY <1>4, <2>1 DEF NoneFound
  <2> QED BY <1>3, <2>1, <2>2, RowsStayUnique
<1>8. CASE ~(InsertToken(w) \/ RearmToken(w) \/ RecordAccess(w))
  <2>1. tokens' = tokens
    BY <1>1, <1>8 DEF Handle, LookForPending, JudgeOutcome, CheckUnresolved, ReadArms, StoreConflicts,
       ApplyReward, StoreDecision, FindToken, tables
  <2>2. OneRow'
    BY <2>1 DEF OneRow
  <2>3. ASSUME work'[w].step = "write", work'[w].op = "register", work'[w].row = 0
        PROVE  \A r \in DOMAIN tokens : tokens[r].value # work[w].value
    <3>1. FindToken(w)
      BY <1>1, <1>2, <1>5, <1>8, <2>3 DEF Handle, LookForPending, JudgeOutcome, CheckUnresolved, ReadArms,
         StoreConflicts, ApplyReward, StoreDecision
    <3> QED BY <3>1, <2>3, <1>2, Finds
  <2>4. NoneFound'
    BY <1>2, <1>4, <2>1, <2>3 DEF NoneFound
  <2> QED BY <1>3, <2>2, <2>4
<1> QED BY <1>6, <1>7, <1>8

LEMMA UniqueStep == BaseInv /\ UniqueInv /\ [Next]_vars => UniqueInv'
<1> SUFFICES ASSUME BaseInv, UniqueInv, [Next]_vars, ~overlapped'
             PROVE  (OneServed /\ OneRow /\ NoneFound)'
  BY UniqueParts, PTL
<1>0. tokens' = tokens => KeepsRows
  BY DEF KeepsRows, BaseInv, StoreInv
<1>a. ~overlapped => OneServed /\ OneRow /\ NoneFound
  BY UniqueParts
<1>1. CASE Quiet
  <2>1. UNCHANGED <<tokens, work>> /\ ~overlapped
    BY <1>1, QuietTables DEF tables
  <2> QED BY <2>1, <1>0, <1>a, ServesLess
<1>2. CASE Post1
  <2>1. PICK r : Asks(r)
    BY <1>2, PostAsks
  <2>2. tokens' = tokens /\ r.step \in {"look", "find"} /\ Post(r)
    BY <2>1 DEF Asks, tables
  <2>3. CASE call' = Lost /\ UNCHANGED <<work, overlapped>>
    BY <2>2, <2>3, <1>0, <1>a, ServesLess
  <2>4. ASSUME NEW w \in Workers, Serve(w, r) PROVE (OneServed /\ OneRow /\ NoneFound)'
    <3>1. ~overlapped /\ \A v \in Workers : ~Serving(v)
      BY <2>4, ZenonT(30) DEF Serve
    <3>2. work \in [Workers -> Job \cup {Idle}]
      BY DEF BaseInv, StoreInv
    <3>3. work'[w] = r /\ \A v \in Workers \ {w} : work'[v] = work[v]
      BY <2>4, <3>2 DEF Serve
    <3>4. OneServed'
      BY <3>1, <3>3 DEF OneServed, Serving
    <3>5. NoneFound'
      BY <1>a, <2>2, <3>1, <3>3 DEF NoneFound
    <3> QED BY <3>1, <3>4, <3>5, <1>a, <2>2 DEF OneRow
  <2> QED BY <2>2, <2>3, <2>4 DEF Post
<1>3. CASE Replies
  <2>1. UNCHANGED <<tables, overlapped>> /\ Answered
    BY <1>3, RepliesFacts
  <2>2. \A w \in Workers : work'[w] = work[w] \/ work'[w].step \in {"idle", "ok", "error"}
    <3> SUFFICES ASSUME NEW w \in Workers PROVE work'[w] = work[w] \/ work'[w] = Idle
      BY DEF Idle
    <3>1. CASE w = call
      BY <2>1, <3>1, CourierAssumption DEF Answered, Lost
    <3>2. CASE w # call
      BY <2>1, <3>2 DEF Answered
    <3> QED BY <3>1, <3>2
  <2>3. KeepsRows /\ ~overlapped
    BY <2>1, <1>0 DEF tables
  <2> QED BY <2>2, <2>3, <1>a, ServesLess
<1>4. ASSUME NEW w \in Workers, BrainStep(w) PROVE (OneServed /\ OneRow /\ NoneFound)'
  <2>1. overlapped' = overlapped
    BY <1>4 DEF BrainStep, Handle, LookForPending, JudgeOutcome, CheckUnresolved, ReadArms, StoreConflicts,
       ApplyReward, StoreDecision, FindToken, InsertToken, RearmToken, RecordAccess
  <2>2. ~overlapped
    BY <2>1
  <2> QED BY <1>4, <2>2, <1>a, HandlersStayUnique
<1>5. ASSUME NEW w \in Workers, DatabaseFails(w) PROVE (OneServed /\ OneRow /\ NoneFound)'
  <2>a. tokens' = tokens /\ ~overlapped
    BY <1>5 DEF DatabaseFails, JudgeBlindly, tables
  <2>b. CASE JudgeBlindly(w)
    <3>1. work'[w].step = "check" /\ work[w].step = "judge" /\ Handled(w)
      BY <2>b, Judges DEF BaseInv
    <3>2. \A v \in Workers \ {w} : work'[v] = work[v]
      BY <3>1 DEF Handled, SameRequest
    <3> QED BY <3>1, <3>2, <2>a, <1>a DEF OneServed, OneRow, NoneFound, Serving
  <2>c. CASE ~JudgeBlindly(w)
    <3>1. work'[w].step = "error" /\ Handled(w)
      BY <1>5, <2>c, DatabaseGivesUp DEF BaseInv
    <3>2. \A v \in Workers : work'[v] = work[v] \/ work'[v].step \in {"idle", "ok", "error"}
      BY <3>1 DEF Handled, SameRequest
    <3> QED BY <3>2, <2>a, <1>0, <1>a, ServesLess
  <2> QED BY <2>b, <2>c
<1>6. ASSUME NEW w \in Workers, DropReply(w) PROVE (OneServed /\ OneRow /\ NoneFound)'
  <2>1. \A v \in Workers : work'[v] = work[v] \/ work'[v].step \in {"idle", "ok", "error"}
    BY <1>6, DropSteps DEF Idle
  <2>2. tokens' = tokens /\ ~overlapped
    BY <1>6 DEF DropReply, tables
  <2> QED BY <2>1, <2>2, <1>0, <1>a, ServesLess
<1>7. CASE AnalystDeactivates
  <2>1. work' = work /\ ~overlapped
    BY <1>7 DEF AnalystDeactivates, Deactivate
  <2>2. KeepsRows
    BY <1>7, AnalystSteps
  <2> QED BY <2>1, <2>2, <1>a, ServesLess
<1> QED BY <1>1, <1>2, <1>3, <1>4, <1>5, <1>6, <1>7, Steps7

(* OneRowPerToken: as long as no two requests were ever in service at      *)
(* once, every registration of a value finds the row of the one before, so *)
(* check_honeytoken never meets two.                                       *)
THEOREM OneRowForEach == Spec => []OneRowPerToken
<1>1. Init => BaseInv /\ UniqueInv
  <2>1. Init => UniqueInv
    BY DEF Init, StoreInit, UniqueInv, Idle, Serving
  <2> QED BY <2>1, BaseInit
<1>2. BaseInv /\ UniqueInv /\ [Next]_vars => (BaseInv /\ UniqueInv)'
  BY BaseStep, UniqueStep
<1>3. BaseInv /\ UniqueInv => OneRowPerToken
  <2> SUFFICES ASSUME BaseInv, ~overlapped, OneRow, NEW v \in Values PROVE Cardinality(RowsOf(v)) <= 1
    BY UniqueParts DEF OneRowPerToken
  <2>1. \A r, q \in RowsOf(v) : r = q
    BY DEF OneRow, RowsOf
  <2>2. CASE RowsOf(v) = {}
    BY <2>2, FS_EmptySet
  <2>3. CASE RowsOf(v) # {}
    <3>1. PICK r : r \in RowsOf(v)
      BY <2>3
    <3>2. RowsOf(v) = {r}
      BY <2>1, <3>1
    <3>3. Cardinality({r}) = 1
      BY FS_Singleton
    <3> QED BY <3>2, <3>3
  <2> QED BY <2>2, <2>3
<1> QED BY <1>1, <1>2, <1>3, PTL DEF Spec

-----------------------------------------------------------------------------
(* Who holds the pending decisions.                                        *)

LEMMA HurtGrows == ASSUME [Next]_vars PROVE hurt \subseteq hurt' /\ unseen \subseteq unseen'
<1>1. CASE Tick \/ Attacker \/ Background \/ Brain \/ Trouble \/ UNCHANGED vars
  BY <1>1 DEF Tick, Attacker, Type, Leave, Background, GenerationReturns, GeneratedPlanted, Brain,
     BrainStep, DropReply, Trouble, GiveUp, AnalystDeactivates, DatabaseFails, JudgeBlindly, vars, ghosts, faultVars
<1>2. CASE TakeClosed \/ TakeControlCommand \/ TakeCommand \/ PostTrip \/ TripReplied \/ PostHit \/ HitReplied
  BY <1>2 DEF TakeClosed, TakeControlCommand, TakeCommand, PostTrip, TripReplied, PostHit, HitReplied,
     ghosts, faultVars
<1>3. CASE PostClassify \/ ClassifyReplied \/ BrokerAnswers \/ PostDeclare \/ DeclareDone
           \/ PostResolution \/ ResolutionReplied
  BY <1>3 DEF PostClassify, ClassifyReplied, BrokerAnswers, PostDeclare, DeclareDone, PostResolution,
     ResolutionReplied, ghosts, faultVars
<1>4. CASE Failures \/ LeaveUnresolved
  BY <1>4 DEF Failures, TripFails, HitFails, ClassifyFails, BrokerFails, ResolutionFails,
     LeaveUnresolved, ghosts, faultVars
<1> QED BY <1>1, <1>2, <1>3, <1>4 DEF Next, CourierStep

LEMMA HeldFits ==
    ASSUME BaseInv, NEW s, NEW p, Holds(s, p)
    PROVE  /\ s \in Sessions
           /\ p # 0 => p \in DOMAIN decisions /\ decisions[p].session = s
<1>1. PICK st \in Range(sessions) \cup ending : st.session = s /\ st.pending = p
  BY DEF Holds
<1>2. Fits(st)
  BY <1>1 DEF BaseInv, StatesInv, Whole, Range
<1> QED BY <1>1, <1>2 DEF Fits, State

LEMMA TrackedHold ==
    ASSUME BaseInv, ending = {}, NEW s, NEW p
    PROVE  Holds(s, p) <=> s \in Tracked /\ sessions[s].pending = p
<1>1. \A t \in Tracked : sessions[t].session = t
  BY DEF BaseInv, StatesInv, Whole, Tracked
<1> QED BY <1>1 DEF Holds, Range, Tracked

(* Nothing is dropped but what is noted as unseen, nothing is picked up.   *)
Kept ==
    \A s, p : p # 0 => /\ Holds(s, p)' => Holds(s, p)
                       /\ Holds(s, p) => Holds(s, p)' \/ (LeaveUnresolved /\ p \in unseen')

LEMMA EventHolds ==
    ASSUME BaseInv, ending = {}, NEW s, NEW p, NEW spawned, EventStep(s, p, spawned), NEW t, NEW q
    PROVE  Holds(t, q)' <=> IF t = s THEN q = p ELSE Holds(t, q)
<1>1. PICK st : st.session = s /\ st.pending = p /\ Leaves(s, st)
  BY DEF EventStep, Goes
<1>2. Range(sessions') \cup ending' = {st} \cup {sessions[u] : u \in Tracked \ {s}}
  BY <1>1 DEF Leaves
<1>3. Holds(t, q)' <=> \E ot \in {st} \cup {sessions[u] : u \in Tracked \ {s}} : ot.session = t /\ ot.pending = q
  BY <1>2 DEF Holds
<1>4. \A u \in Tracked : sessions[u].session = u
  BY DEF BaseInv, StatesInv, Whole, Tracked
<1>5. Holds(t, q) <=> t \in Tracked /\ sessions[t].pending = q
  BY TrackedHold
<1> QED BY <1>1, <1>3, <1>4, <1>5

LEMMA EventKeeps ==
    ASSUME BaseInv, ending = {}, NEW s \in Sessions, NEW spawned,
           EventStep(s, StateOf(s).pending, spawned)
    PROVE  Kept
<1> DEFINE p == StateOf(s).pending
<1>1. /\ s \in Tracked => p = sessions[s].pending
      /\ s \notin Tracked => p = 0
  BY StateFits DEF BaseInv
<1> HIDE DEF p
<1>2. EventStep(s, p, spawned)
  BY DEF p
<1> SUFFICES ASSUME NEW t, NEW q, q # 0 PROVE Holds(t, q)' <=> Holds(t, q)
  BY DEF Kept
<1>3. Holds(t, q)' <=> IF t = s THEN q = p ELSE Holds(t, q)
  BY <1>2, EventHolds
<1>4. Holds(t, q) <=> t \in Tracked /\ sessions[t].pending = q
  BY TrackedHold
<1> QED BY <1>1, <1>3, <1>4

LEMMA SameHolds ==
    ASSUME NEW s, NEW p, UNCHANGED <<sessions, ending>> PROVE Holds(s, p)' <=> Holds(s, p)
BY DEF Holds

LEMMA WatchingHolds ==
    ASSUME BaseInv, BaseInv', NEW s, NEW p, Watching, ending' = ending
    PROVE  Holds(s, p)' <=> Holds(s, p)
<1>1. Holds(s, p) <=> (\E t \in Tracked : sessions[t].session = s /\ sessions[t].pending = p)
                      \/ \E st \in ending : st.session = s /\ st.pending = p
  BY DEF Holds, Range, Tracked
<1>2. Holds(s, p)' <=> (\E t \in Tracked' : sessions'[t].session = s /\ sessions'[t].pending = p)
                      \/ \E st \in ending' : st.session = s /\ st.pending = p
  BY DEF Holds, Range, Tracked
<1> QED BY <1>1, <1>2 DEF Watching

LEMMA ButHolds ==
    ASSUME BaseInv, NEW st \in ending, KeepsBut({st}), NEW s, NEW p
    PROVE  /\ Holds(s, p)' => Holds(s, p)
           /\ Holds(s, p) => Holds(s, p)' \/ (s = st.session /\ p = st.pending)
           /\ s = st.session => ~Holds(s, p)'
<1>1. Range(sessions') \cup ending' = (Range(sessions) \cup ending) \ {st}
  BY DEF KeepsBut
<1>2. Holds(s, p)' <=> \E ot \in (Range(sessions) \cup ending) \ {st} : ot.session = s /\ ot.pending = p
  BY <1>1 DEF Holds
<1>3. \A ot \in (Range(sessions) \cup ending) \ {st} : ot.session # st.session
  BY DEF BaseInv, StatesInv, Whole, Range, Tracked
<1> QED BY <1>2, <1>3 DEF Holds

(* The courier is done with what it had in hand.                           *)
Settled ==
    /\ Settles /\ Replies
    /\ \A s, p : s # cur /\ p # 0 => (Holds(s, p)' <=> Holds(s, p))
    /\ \/ cur \in hurt'
       \/ /\ Replied("ok")
          /\ \A s, p : s = cur /\ p # 0 =>
                 (Holds(s, p)' <=> pc = "classify" /\ p = work[call].dec)

Lasting == Settles => UNCHANGED <<pc, cur>> /\ call' # NoCall

LEMMA RequestEnds ==
    ASSUME BaseInv, Replies
    PROVE  \/ call \in Workers /\ work' = [work EXCEPT ![call] = Idle]
           \/ call = Lost /\ UNCHANGED work /\ cur \in hurt'
BY DEF Replies, TripReplied, TripFails, HitReplied, HitFails, ClassifyReplied, ClassifyFails,
   DeclareDone, ResolutionReplied, ResolutionFails, RequestFails, Replied, RaisesException

LEMMA HoldSteps == ASSUME BaseInv, [Next]_vars PROVE (Kept /\ Lasting) \/ Settled
<1>0. BaseInv'
  BY BaseStep
<1>a. call = NoCall => Lasting
  BY DEF Lasting, Settles
<1>b. UNCHANGED <<pc, cur, call>> => Lasting
  BY DEF Lasting, Settles
<1>c. UNCHANGED <<sessions, ending>> => Kept
  BY SameHolds DEF Kept
<1>d. pc \in InEvent => ending = {} /\ cur \in Sessions /\ StateOf(cur) = sessions[cur]
  BY InHand DEF BaseInv
<1>1. CASE World
  BY <1>1, <1>b, <1>c, WorldSteps DEF loopVars
<1>2. CASE TakeClosed
  <2>1. call = NoCall
    BY <1>2, CourierWrites
  <2>2. Range(sessions') \cup ending' = Range(sessions) \cup ending
    BY <1>2, ClosedSteps DEF KeepsBut
  <2>3. Kept
    BY <2>2 DEF Kept, Holds
  <2> QED BY <2>1, <2>3, <1>a
<1>3. CASE TakeControlCommand \/ TakeCommand
  <2>1. pc = "get" /\ queue # <<>>
    BY <1>3 DEF TakeControlCommand, TakeCommand
  <2>2. ending = {} /\ Head(queue).session \in Sessions /\ call = NoCall
    BY <2>1, Taken DEF BaseInv
  <2>3. EventStep(Head(queue).session, StateOf(Head(queue).session).pending, {})
    BY <1>3, ControlSteps, CommandSteps
  <2> QED BY <2>2, <2>3, <1>a, EventKeeps
<1>4. CASE Post1
  <2>1. PICK r : Asks(r)
    BY <1>4, PostAsks
  <2>2. call = NoCall /\ UNCHANGED <<sessions, ending>>
    BY <2>1 DEF Asks, Post
  <2> QED BY <2>2, <1>a, <1>c
<1>5. CASE TripReplied \/ TripFails
  <2>1. pc \in {"trip", "check"}
    BY <1>5 DEF TripReplied, TripFails
  <2>2. EventStep(cur, StateOf(cur).pending, {})
    BY <2>1, <1>5, <1>d, TripSteps DEF InEvent
  <2> QED BY <2>1, <2>2, <1>d, EventKeeps DEF Lasting, Settles, InEvent
<1>6. CASE DeclareDone
  <2>1. pc = "declare"
    BY <1>6 DEF DeclareDone
  <2>2. EventStep(cur, StateOf(cur).pending, {})
    BY <2>1, <1>6, <1>d, DeclareSteps DEF InEvent
  <2> QED BY <2>1, <2>2, <1>d, EventKeeps DEF Lasting, Settles, InEvent
<1>7. CASE BrokerAnswers \/ BrokerFails
  <2>1. pc = "plant"
    BY <1>7 DEF BrokerAnswers, BrokerFails
  <2>2. EventStep(cur, StateOf(cur).pending, {Generate(cur)})
    BY <2>1, <1>7, <1>d, PlantSteps DEF InEvent
  <2> QED BY <2>1, <2>2, <1>d, EventKeeps DEF Lasting, Settles, InEvent
<1>8. CASE HitReplied \/ HitFails
  <2>1. pc = "hit" /\ Replies /\ (HitFails => cur \in hurt') /\ (HitReplied => Replied("ok"))
    BY <1>8 DEF HitReplied, HitFails, Replies
  <2>2. Settles
    BY <2>1, <1>8, CourierAssumption DEF Settles, HitReplied, HitFails, RequestFails, Replied, RaisesException,
       NoCall, Lost
  <2>3. PICK p : EventStep(cur, p, {}) /\ ((HitReplied /\ p = 0) \/ HitFails)
    BY <1>8, HitSteps
  <2>4. \A s, q : Holds(s, q)' <=> IF s = cur THEN q = p ELSE Holds(s, q)
    BY <2>1, <2>3, <1>d, EventHolds DEF InEvent
  <2> QED BY <2>1, <2>2, <2>3, <2>4 DEF Settled
<1>9. CASE ClassifyReplied
  <2>1. pc = "classify" /\ Replies /\ Replied("ok")
    BY <1>9 DEF ClassifyReplied, Replies
  <2>2. Settles
    BY <2>1, CourierAssumption DEF Settles, Replied, NoCall
  <2>3. EventStep(cur, work[call].dec, {})
    BY <1>9, ClassifySteps
  <2>4. \A s, q : Holds(s, q)' <=> IF s = cur THEN q = work[call].dec ELSE Holds(s, q)
    BY <2>1, <2>3, <1>d, EventHolds DEF InEvent
  <2> QED BY <2>1, <2>2, <2>4 DEF Settled
<1>10. CASE ClassifyFails
  <2>1. pc = "classify" /\ Replies /\ cur \in hurt'
    BY <1>10 DEF ClassifyFails, Replies
  <2>2. Settles
    BY <2>1, <1>10, CourierAssumption DEF Settles, ClassifyFails, RequestFails, Replied, RaisesException,
       NoCall, Lost
  <2>3. EventStep(cur, sessions[cur].pending, {})
    BY <1>10, ClassifyGivesUp
  <2>4. \A s, q : Holds(s, q)' <=> IF s = cur THEN q = sessions[cur].pending ELSE Holds(s, q)
    BY <2>1, <2>3, <1>d, EventHolds DEF InEvent
  <2> QED BY <2>1, <2>2, <2>4 DEF Settled
<1>11. CASE LeaveUnresolved
  <2>1. PICK st \in ending : KeepsBut({st}) /\ (st.pending # 0 => st.pending \in unseen')
    BY <1>11, LeaveSteps
  <2>2. Kept
    BY <1>11, <2>1, ButHolds DEF Kept
  <2> QED BY <2>2, <1>11, <1>a, LeaveSteps
<1>12. CASE ResolutionReplied \/ ResolutionFails
  <2>1. /\ pc \in {"close", "idle"} /\ Replies /\ (ResolutionFails => cur \in hurt')
        /\ ResolutionReplied => Replied("ok")
    BY <1>12 DEF ResolutionReplied, ResolutionFails, Replies
  <2>2. Settles
    BY <2>1, <1>12, CourierAssumption DEF Settles, ResolutionReplied, ResolutionFails, RequestFails, Replied,
       RaisesException, NoCall, Lost
  <2>3. PICK st \in ending : KeepsBut({st}) /\ st.session = cur
    BY <1>12, ResolutionSteps
  <2>4. \A s, q : (s # cur => (Holds(s, q)' <=> Holds(s, q))) /\ (s = cur => ~Holds(s, q)')
    BY <2>3, ButHolds
  <2> QED BY <1>12, <2>1, <2>2, <2>4 DEF Settled
<1>13. CASE Background
  <2>1. UNCHANGED <<pc, cur, call, ending>>
    BY <1>13 DEF Background, GenerationReturns, GeneratedPlanted, loopVars
  <2>2. ASSUME NEW t \in tasks, GenerationReturns(t) PROVE Kept
    BY <2>1, <2>2, <1>0, GenerationSteps, WatchingHolds DEF Kept
  <2>3. ASSUME NEW t \in tasks, GeneratedPlanted(t) PROVE Kept
    BY <2>1, <2>3, <1>c DEF GeneratedPlanted
  <2> QED BY <1>13, <2>1, <2>2, <2>3, <1>b DEF Background
<1>14. CASE GiveUp
  <2>1. UNCHANGED <<sessions, ending, pc, cur>> /\ call' = Lost
    BY <1>14 DEF GiveUp
  <2> QED BY <2>1, <1>c DEF Lasting, Lost, NoCall
<1>15. CASE Brain \/ AnalystDeactivates \/ \E w \in Workers : DatabaseFails(w)
  <2>1. UNCHANGED <<sessions, ending, pc, cur, call>>
    BY <1>15 DEF Brain, BrainStep, DropReply, AnalystDeactivates, DatabaseFails, JudgeBlindly, loopVars
  <2> QED BY <2>1, <1>b, <1>c
<1> QED BY <1>1, <1>2, <1>3, <1>4, <1>5, <1>6, <1>7, <1>8, <1>9, <1>10, <1>11, <1>12,
           <1>13, <1>14, <1>15 DEF Next, World, CourierStep, Failures, Post1, Trouble

-----------------------------------------------------------------------------
(* One request at a time is at the decisions of a session looked after.    *)

LEMMA QuietLoop ==
    ASSUME BaseInv, Quiet
    PROVE  call = NoCall \/ (pc' = pc /\ cur' = cur /\ (call' = call \/ call' = Lost))
<1>1. CASE World
  BY <1>1, WorldSteps DEF loopVars
<1>2. CASE Takes \/ BrokerAnswers \/ BrokerFails \/ LeaveUnresolved
  BY <1>2, CourierWrites DEF Takes
<1>3. CASE Background \/ GiveUp
  BY <1>3 DEF Background, GenerationReturns, GeneratedPlanted, GiveUp, loopVars
<1> QED BY <1>1, <1>2, <1>3 DEF Quiet

LEMMA NoneSound ==
    ASSUME ExclusiveInv, call = NoCall, NEW w \in Workers PROVE ~Sound(w)
BY CourierAssumption DEF ExclusiveInv, Attended, NoCall, Lost

LEMMA SoundBefore ==
    ASSUME hurt \subseteq hurt', NEW w \in Workers, work'[w] = work[w]
    PROVE  Sound(w)' => Sound(w)
BY DEF Sound, OnDecisions

LEMMA IdleIsUnsound == ASSUME NEW w \in Workers, work'[w] = Idle PROVE ~Sound(w)'
BY DEF Sound, OnDecisions

LEMMA NoneAfter ==
    ASSUME BaseInv, ExclusiveInv, [Next]_vars, Replies, NEW w \in Workers PROVE ~Sound(w)'
<1>1. hurt \subseteq hurt'
  BY HurtGrows
<1>2. CASE call \in Workers /\ work' = [work EXCEPT ![call] = Idle]
  <2>1. work'[call] = Idle /\ (w # call => work'[w] = work[w])
    BY <1>2 DEF BaseInv, StoreInv
  <2>2. Sound(w) => w = call
    BY <1>2, CourierAssumption DEF ExclusiveInv, Attended, Lost
  <2> QED BY <1>1, <2>1, <2>2, SoundBefore, IdleIsUnsound
<1>3. CASE UNCHANGED work /\ cur \in hurt'
  <2>1. Sound(w) => work[w].session = cur
    BY DEF ExclusiveInv, Attended
  <2>2. Sound(w)' => Sound(w) /\ work[w].session \notin hurt'
    BY <1>1, <1>3, SoundBefore DEF Sound
  <2> QED BY <1>3, <2>1, <2>2
<1> QED BY <1>2, <1>3, RequestEnds

LEMMA FeedbackPays ==
    ASSUME BaseInv, NEW w \in Workers, BrainStep(w) \/ DatabaseFails(w), work[w].op = "feedback"
    PROVE  work'[w].pay = work[w].pay
<1> USE DEF BaseInv
<1>1. work[w] # Idle /\ work[w] \in Job /\ JobFits(work[w]) /\ work \in [Workers -> Job \cup {Idle}]
  BY BrainSteps DEF StoreInv, JobsInv
<1>2. work[w].step \in {"look", "check", "apply", "ok", "error"}
  BY <1>1 DEF JobFits, StepsOf
<1>3. ASSUME NEW step \in Steps \ {"idle"}, GoTo(w, step) PROVE work'[w].pay = work[w].pay
  BY <1>1, <1>3, StepSet DEF StoreInv
<1>4. CASE DatabaseFails(w)
  BY <1>2, <1>3, <1>4 DEF DatabaseFails, JudgeBlindly, Steps
<1>5. CASE CheckUnresolved(w)
  BY <1>3, <1>5 DEF CheckUnresolved, Steps
<1>6. CASE ApplyReward(w)
  BY <1>3, <1>6 DEF ApplyReward, AfterResolve, Steps
<1>7. CASE LookForPending(w)
  <2>1. CASE GoTo(w, "ok")
    BY <1>3, <2>1 DEF Steps
  <2>2. ASSUME NEW d, Continue(w, [work[w] EXCEPT !.dec = d, !.step = "check"])
        PROVE  work'[w].pay = work[w].pay
    BY <1>1, <2>2 DEF Continue, Job
  <2> QED BY <1>7, <2>1, <2>2 DEF LookForPending
<1> QED BY <1>2, <1>4, <1>5, <1>6, <1>7 DEF BrainStep, Handle, JudgeOutcome, ReadArms, StoreDecision,
           StoreConflicts, FindToken, InsertToken, RearmToken, RecordAccess

LEMMA ExclusiveStep == BaseInv /\ ExclusiveInv /\ [Next]_vars => ExclusiveInv'
<1> SUFFICES ASSUME BaseInv, ExclusiveInv, [Next]_vars PROVE ExclusiveInv'
  OBVIOUS
<1>0. hurt \subseteq hurt'
  BY HurtGrows
<1>a. ASSUME \A w \in Workers : ~Sound(w)' PROVE ExclusiveInv'
  BY <1>a DEF ExclusiveInv
<1>b. ASSUME work' = work, UNCHANGED <<pc, cur>>, call' = call \/ call' = Lost PROVE ExclusiveInv'
  <2>1. \A w \in Workers : Sound(w)' => Sound(w)
    BY <1>0, <1>b, SoundBefore
  <2> QED BY <1>b, <2>1 DEF ExclusiveInv, Attended
<1>1. CASE Quiet
  <2>1. CASE call = NoCall
    BY <1>0, <1>1, <2>1, <1>a, NoneSound, SoundBefore, QuietTables
  <2> QED BY <1>1, <2>1, <1>b, QuietLoop, QuietTables
<1>2. CASE Post1
  <2>1. PICK r : Asks(r)
    BY <1>2, PostAsks
  <2>2. Posted(r)
    BY <2>1, AskKeeps
  <2>3. \A w \in Workers : w # call' => ~Sound(w)'
    BY <1>0, <2>2, NoneSound, SoundBefore DEF Posted
  <2>4. ASSUME NEW w \in Workers, w = call' PROVE Attended(w)'
    <3>1. work'[w] = r
      BY <2>2, <2>4, CourierAssumption DEF Posted, Lost
    <3>2. r.session = cur' /\ r.op = OpOf(pc) /\ (pc = "hit" => r.pay = FullReward) /\ pc' = pc
      BY <2>1 DEF Asks
    <3> QED BY <2>4, <3>1, <3>2 DEF Attended, OpOf
  <2> QED BY <2>3, <2>4 DEF ExclusiveInv
<1>3. CASE Replies
  BY <1>3, <1>a, NoneAfter
<1>4. ASSUME NEW w \in Workers, BrainStep(w) \/ DatabaseFails(w) PROVE ExclusiveInv'
  <2>1. UNCHANGED <<pc, cur, call>>
    BY <1>4 DEF BrainStep, DatabaseFails, JudgeBlindly, loopVars
  <2>2. Handled(w) /\ work[w] # Idle
    BY <1>4, BrainSteps
  <2>3. work'[w].op = work[w].op /\ work'[w].session = work[w].session
        /\ \A v \in Workers \ {w} : work'[v] = work[v]
    BY <2>2 DEF Handled, SameRequest
  <2>4. \A v \in Workers : Sound(v)' => Sound(v)
    BY <1>0, <2>2, <2>3, SoundBefore DEF Sound, OnDecisions
  <2>5. pc = "hit" => OpOf(pc) = "feedback"
    BY DEF OpOf
  <2>6. ASSUME NEW v \in Workers, Sound(v), Attended(v) PROVE Attended(v)'
    <3>1. CASE v # w
      BY <2>1, <2>3, <2>6, <3>1 DEF Attended, OpOf
    <3>2. CASE v = w
      BY <1>4, <2>1, <2>3, <2>5, <2>6, <3>2, FeedbackPays DEF Attended, OpOf
    <3> QED BY <3>1, <3>2
  <2> QED BY <2>3, <2>4, <2>6 DEF ExclusiveInv
<1>5. ASSUME NEW w \in Workers, DropReply(w) PROVE ExclusiveInv'
  <2>1. w # call /\ work'[w] = Idle /\ \A v \in Workers \ {w} : work'[v] = work[v]
    BY <1>5, DropSteps
  <2>2. UNCHANGED <<pc, cur, call>>
    BY <1>5 DEF DropReply, loopVars
  <2>3. \A v \in Workers : Sound(v)' => v # w /\ Sound(v)
    BY <1>0, <2>1, SoundBefore, IdleIsUnsound
  <2> QED BY <2>1, <2>2, <2>3 DEF ExclusiveInv, Attended
<1>6. CASE AnalystDeactivates
  BY <1>6, <1>b DEF AnalystDeactivates, Deactivate, loopVars
<1> QED BY <1>1, <1>2, <1>3, <1>4, <1>5, <1>6, Steps7

-----------------------------------------------------------------------------
(* A handler knows the one decision that is open.                          *)

(* Only a handler at the decisions of a session changes which are open.    *)
LEMMA OthersOpen ==
    ASSUME BaseInv, NEW w \in Workers, BrainStep(w), NEW s,
           ~OnDecisions(w) \/ work[w].session # s
    PROVE  Unresolved(s)' = Unresolved(s)
<1>1. CASE ApplyReward(w)
  <2> DEFINE e == work[w].dec
  <2>1. /\ OnDecisions(w) /\ e \in DOMAIN decisions /\ decisions[e].session = work[w].session
        /\ DOMAIN decisions' = DOMAIN decisions
        /\ \A d \in DOMAIN decisions :
               /\ decisions'[d].session = decisions[d].session
               /\ d # e => decisions'[d] = decisions[d]
    BY <1>1, ResolvedDecision DEF OnDecisions
  <2> HIDE DEF e
  <2> QED BY <2>1 DEF Unresolved
<1>2. CASE StoreDecision(w)
  <2> DEFINE n == Len(decisions) + 1
  <2>1. /\ OnDecisions(w)
        /\ DOMAIN decisions' = DOMAIN decisions \cup {n} /\ n \notin DOMAIN decisions
        /\ decisions'[n].session = work[w].session
        /\ \A d \in DOMAIN decisions : decisions'[d] = decisions[d]
    BY <1>2, StoredDecision DEF OnDecisions
  <2> HIDE DEF n
  <2> QED BY <2>1 DEF Unresolved
<1>3. CASE decisions' = decisions
  BY <1>3 DEF Unresolved
<1> QED BY <1>1, <1>2, <1>3 DEF BrainStep, Handle, LookForPending, JudgeOutcome, CheckUnresolved,
           ReadArms, StoreConflicts, FindToken, InsertToken, RearmToken, RecordAccess, tables

LEMMA JobGoesOn ==
    ASSUME BaseInv, NEW w \in Workers, work[w] \in Job, NEW j, Continue(w, j)
    PROVE  work'[w] = j
BY DEF BaseInv, StoreInv, Continue

(* After its step the handler is as sure as before.                        *)
LEMMA ReadyAfter ==
    ASSUME BaseInv, NEW w \in Workers, BrainStep(w), NEW s, work[w].session = s, OnDecisions(w),
           OneOpen(s), Ready(w, s)
    PROVE  OneOpen(s)' /\ Ready(w, s)'
<1>1. /\ work[w] # Idle /\ work[w] \in Job /\ JobFits(work[w])
      /\ work'[w].op = work[w].op /\ work[w].op \in {"classify", "feedback"}
  BY BrainSteps DEF BaseInv, JobsInv, StoreInv, Handled, SameRequest, OnDecisions
<1>2. work[w].step \notin {"find", "write"}
  BY <1>1 DEF JobFits, StepsOf
<1>3. ASSUME decisions' = decisions PROVE OneOpen(s)' /\ Unresolved(s)' = Unresolved(s)
  BY <1>3 DEF OneOpen, Unresolved
<1>4. CASE LookForPending(w)
  <2>1. decisions' = decisions /\ work[w].step = "look"
    BY <1>4 DEF LookForPending, tables
  <2>2. CASE Unresolved(s) = {}
    <3>1. GoTo(w, IF work[w].op = "classify" THEN "pick" ELSE "ok")
      BY <1>4, <2>2 DEF LookForPending
    <3>2. work'[w].step = IF work[w].op = "classify" THEN "pick" ELSE "ok"
      BY <1>1, <3>1, JobGoesOn DEF GoTo, Job
    <3> QED BY <1>1, <1>3, <2>1, <2>2, <3>2 DEF Ready
  <2>3. CASE Unresolved(s) # {}
    <3>1. PICK d \in Latest(Unresolved(s)) :
              Continue(w, [work[w] EXCEPT !.dec = d,
                        !.step = IF work[w].op = "classify" THEN "judge" ELSE "check"])
      BY <1>4, <2>3 DEF LookForPending
    <3> DEFINE next == IF work[w].op = "classify" THEN "judge" ELSE "check"
    <3>2. work'[w].dec = d /\ work'[w].step \in {"judge", "check"}
      <4>1. next \in {"judge", "check"}
        OBVIOUS
      <4> HIDE DEF next
      <4>2. Continue(w, [work[w] EXCEPT !.dec = d, !.step = next])
        BY <3>1 DEF next
      <4>3. work'[w] = [work[w] EXCEPT !.dec = d, !.step = next]
        BY <1>1, <4>2, JobGoesOn
      <4> QED BY <1>1, <4>1, <4>3 DEF Job
    <3>3. d \in Unresolved(s)
      BY DEF Latest
    <3> QED BY <1>3, <2>1, <3>2, <3>3 DEF Ready
  <2> QED BY <2>2, <2>3
<1>5. CASE JudgeOutcome(w)
  <2>1. decisions' = decisions /\ work[w].step = "judge"
    BY <1>5, Judges DEF BaseInv, tables
  <2>2. work'[w].step = "check" /\ work'[w].dec = work[w].dec
    BY <1>5, Judges DEF BaseInv
  <2> QED BY <1>3, <2>1, <2>2 DEF Ready
<1>6. CASE CheckUnresolved(w)
  <2>1. decisions' = decisions /\ work[w].step = "check"
    BY <1>6 DEF CheckUnresolved, tables
  <2>2. work[w].dec \in Unresolved(s)
    BY <2>1 DEF Ready
  <2>3. GoTo(w, "apply")
    BY <1>6, <2>2 DEF CheckUnresolved, Unresolved
  <2>4. work'[w].step = "apply" /\ work'[w].dec = work[w].dec
    BY <1>1, <2>3, JobGoesOn DEF GoTo, Job
  <2> QED BY <1>3, <2>1, <2>2, <2>4 DEF Ready
<1>7. CASE ApplyReward(w)
  <2> DEFINE e == work[w].dec
  <2>1. /\ e \in DOMAIN decisions /\ work[w].step = "apply"
        /\ DOMAIN decisions' = DOMAIN decisions
        /\ decisions'[e].resolved = TRUE
        /\ \A d \in DOMAIN decisions : d # e => decisions'[d] = decisions[d]
        /\ work'[w].step = IF work[w].op = "classify" THEN "pick" ELSE "look"
    BY <1>7, ResolvedDecision
  <2>2. e \in Unresolved(s)
    BY <2>1 DEF Ready
  <2> HIDE DEF e
  <2>3. Unresolved(s)' = {}
    BY <2>1, <2>2 DEF Unresolved, OneOpen
  <2> QED BY <2>1, <2>3 DEF Ready, OneOpen
<1>8. CASE ReadArms(w)
  <2>1. decisions' = decisions /\ work[w].step = "pick"
    BY <1>8 DEF ReadArms, tables
  <2>2. work'[w].step = "store"
    BY <1>1, <1>8, JobGoesOn DEF ReadArms, Job
  <2> QED BY <1>3, <2>1, <2>2 DEF Ready
<1>9. CASE StoreDecision(w)
  <2> DEFINE n == Len(decisions) + 1
  <2>1. /\ work[w].op = "classify" /\ work[w].step = "store"
        /\ DOMAIN decisions' = DOMAIN decisions \cup {n} /\ n \notin DOMAIN decisions
        /\ decisions'[n].session = s
        /\ decisions'[n].resolved = FALSE
        /\ \A d \in DOMAIN decisions : decisions'[d] = decisions[d]
        /\ work'[w].dec = n /\ work'[w].step = "ok"
    BY <1>9, StoredDecision
  <2>2. Unresolved(s) = {}
    BY <2>1 DEF Ready
  <2> HIDE DEF n
  <2>3. Unresolved(s)' = {n}
    BY <2>1, <2>2 DEF Unresolved
  <2> QED BY <1>1, <2>1, <2>3 DEF Ready, OneOpen
<1>10. CASE StoreConflicts(w)
  <2>1. decisions' = decisions
    BY <1>10 DEF StoreConflicts, tables
  <2>2. work'[w].step = "error"
    BY <1>1, <1>10, JobGoesOn DEF StoreConflicts, GoTo, Job
  <2> QED BY <1>3, <2>1, <2>2 DEF Ready
<1> QED BY <1>2, <1>4, <1>5, <1>6, <1>7, <1>8, <1>9, <1>10 DEF BrainStep, Handle, FindToken,
           InsertToken, RearmToken, RecordAccess

(* OpenInv, for one session.                                               *)
OpenFor(s) == OneOpen(s) /\ \A w \in Workers : OnDecisions(w) /\ work[w].session = s => Ready(w, s)

LEMMA OpenStep == BaseInv /\ ExclusiveInv /\ OpenInv /\ [Next]_vars => OpenInv'
<1> SUFFICES ASSUME BaseInv, ExclusiveInv, OpenInv, [Next]_vars, NEW s \in Sessions, s \notin hurt'
             PROVE  OpenFor(s)'
  BY DEF OpenInv, OpenFor
<1>0. hurt \subseteq hurt' /\ s \notin hurt
  BY HurtGrows
<1>a. OneOpen(s) /\ \A w \in Workers : OnDecisions(w) /\ work[w].session = s => Ready(w, s)
  BY <1>0 DEF OpenInv
<1>b. ASSUME decisions' = decisions,
             \A w \in Workers : work'[w] = work[w] \/ work'[w].step \in {"look", "error", "find", "idle"}
      PROVE  OpenFor(s)'
  <2>1. Unresolved(s)' = Unresolved(s) /\ OneOpen(s)'
    BY <1>a, <1>b DEF Unresolved, OneOpen
  <2>2. ASSUME NEW w \in Workers, OnDecisions(w)', work'[w].session = s PROVE Ready(w, s)'
    BY <1>a, <1>b, <2>1, <2>2 DEF Ready, OnDecisions
  <2> QED BY <2>1, <2>2 DEF OpenFor
<1>1. CASE Quiet
  BY <1>1, <1>b, QuietTables DEF tables
<1>2. CASE Post1
  <2>1. PICK r : Asks(r)
    BY <1>2, PostAsks
  <2>2. Posted(r) /\ r.step \in {"look", "find"} /\ decisions' = decisions
    BY <2>1, AskKeeps DEF Asks, tables
  <2>3. ASSUME NEW w \in Workers PROVE work'[w] = work[w] \/ work'[w] = r
    BY <2>2, CourierAssumption DEF Posted, Lost
  <2> QED BY <1>b, <2>2, <2>3
<1>3. CASE Replies
  <2>1. decisions' = decisions /\ Answered
    BY <1>3, RepliesFacts DEF tables
  <2>2. ASSUME NEW w \in Workers PROVE work'[w] = work[w] \/ work'[w] = Idle
    BY <2>1, CourierAssumption DEF Answered, Lost
  <2> QED BY <1>b, <2>1, <2>2 DEF Idle
<1>4. ASSUME NEW w \in Workers, BrainStep(w) PROVE OpenFor(s)'
  <2>1. /\ work'[w].op = work[w].op /\ work'[w].session = work[w].session /\ work[w] # Idle
        /\ \A v \in Workers \ {w} : work'[v] = work[v]
    BY <1>4, BrainSteps DEF Handled, SameRequest
  <2>2. CASE OnDecisions(w) /\ work[w].session = s
    <3>1. OneOpen(s)' /\ Ready(w, s)'
      BY <1>4, <1>a, <2>2, ReadyAfter
    <3>2. ASSUME NEW v \in Workers, OnDecisions(v)', work'[v].session = s PROVE v = w
      <4>1. v # w => OnDecisions(v) /\ work[v].session = s
        BY <2>1, <3>2 DEF OnDecisions
      <4> QED BY <1>0, <2>2, <4>1 DEF ExclusiveInv, Sound
    <3> QED BY <3>1, <3>2 DEF OpenFor
  <2>3. CASE ~OnDecisions(w) \/ work[w].session # s
    <3>1. Unresolved(s)' = Unresolved(s) /\ OneOpen(s)'
      <4>1. Unresolved(s)' = Unresolved(s)
        BY <1>4, <2>3, OthersOpen
      <4> QED BY <1>a, <4>1 DEF OneOpen
    <3>2. ASSUME NEW v \in Workers, OnDecisions(v)', work'[v].session = s PROVE Ready(v, s)'
      <4>1. v # w
        BY <2>1, <2>3, <3>2 DEF OnDecisions
      <4>2. work'[v] = work[v] /\ Ready(v, s)
        BY <1>a, <2>1, <3>2, <4>1 DEF OnDecisions
      <4> QED BY <3>1, <4>2 DEF Ready
    <3> QED BY <3>1, <3>2 DEF OpenFor
  <2> QED BY <2>2, <2>3
<1>5. ASSUME NEW w \in Workers, DatabaseFails(w) PROVE OpenFor(s)'
  <2>1. decisions' = decisions
    BY <1>5 DEF DatabaseFails, JudgeBlindly, tables
  <2>2. CASE JudgeBlindly(w)
    <3>1. /\ work[w].step = "judge" /\ work'[w].step = "check" /\ work'[w].dec = work[w].dec
          /\ work'[w].session = work[w].session /\ work'[w].op = work[w].op
          /\ \A v \in Workers \ {w} : work'[v] = work[v]
      BY <2>2, Judges DEF BaseInv, Handled, SameRequest
    <3>2. Unresolved(s)' = Unresolved(s) /\ OneOpen(s)'
      BY <1>a, <2>1 DEF Unresolved, OneOpen
    <3>3. ASSUME NEW v \in Workers, OnDecisions(v)', work'[v].session = s PROVE Ready(v, s)'
      BY <1>a, <3>1, <3>2, <3>3 DEF Ready, OnDecisions, Idle
    <3> QED BY <3>2, <3>3 DEF OpenFor
  <2>3. CASE ~JudgeBlindly(w)
    <3>1. work'[w].step = "error" /\ Handled(w)
      BY <1>5, <2>3, DatabaseGivesUp DEF BaseInv
    <3> QED BY <1>b, <2>1, <3>1 DEF Handled, SameRequest
  <2> QED BY <2>2, <2>3
<1>6. ASSUME NEW w \in Workers, DropReply(w) PROVE OpenFor(s)'
  <2>1. decisions' = decisions
    BY <1>6 DEF DropReply, tables
  <2>2. \A v \in Workers : work'[v] = work[v] \/ work'[v] = Idle
    BY <1>6, DropSteps
  <2> QED BY <1>b, <2>1, <2>2 DEF Idle
<1>7. CASE AnalystDeactivates
  BY <1>7, <1>b DEF AnalystDeactivates, Deactivate
<1> QED BY <1>1, <1>2, <1>3, <1>4, <1>5, <1>6, <1>7, Steps7

-----------------------------------------------------------------------------
(* No decision is forgotten.                                               *)

LEMMA SoundReply ==
    ASSUME BaseInv, ExclusiveInv, OpenInv, Replied("ok"), Settles, cur \notin hurt
    PROVE  /\ pc = "classify" => work[call].dec \in Unresolved(cur)
           /\ pc # "classify" => Unresolved(cur) = {}
<1>1. call \in Workers /\ work[call].step = "ok"
  BY DEF Replied
<1>2. work[call] # Idle /\ work[call].session = cur /\ work[call].op = OpOf(pc) /\ work[call] \in Job
  BY <1>1 DEF BaseInv, LoopInv, JobsInv, StoreInv
<1>3. pc \in {"classify", "hit", "close", "idle"}
  BY DEF Settles
<1>4. work[call].op = IF pc = "classify" THEN "classify" ELSE "feedback"
  BY <1>2, <1>3 DEF OpOf
<1>5. OnDecisions(call) /\ cur \in Sessions
  BY <1>2, <1>4 DEF OnDecisions, Job
<1>6. Ready(call, cur)
  BY <1>1, <1>2, <1>5 DEF OpenInv
<1> QED BY <1>1, <1>4, <1>6 DEF Ready

(* A Sound handler works on behalf of the coroutine.                       *)
LEMMA SoundSettles ==
    ASSUME BaseInv, ExclusiveInv, NEW w \in Workers, Sound(w)
    PROVE  /\ Settles /\ cur = work[w].session
           /\ work[w].op = "classify" => pc = "classify"
<1>1. call # NoCall /\ cur = work[w].session /\ work[w].op = OpOf(pc)
  BY CourierAssumption DEF ExclusiveInv, Attended, NoCall, Lost
<1>2. pc \in {"trip", "check", "hit", "classify", "declare", "close", "idle"}
  BY <1>1 DEF BaseInv, LoopInv, InEvent
<1>3. work[w].op \in {"classify", "feedback"}
  BY DEF Sound, OnDecisions
<1> QED BY <1>1, <1>2, <1>3 DEF Settles, OpOf

(* What the tables do to the decisions when the courier stands still.      *)
LEMMA BrainStays ==
    ASSUME [Next]_vars, NEW w \in Workers, BrainStep(w)
    PROVE  UNCHANGED <<sessions, pc, cur, call, ending, unseen, hurt>>
BY DEF BrainStep, loopVars, ghosts, faultVars

LEMMA PendingStep ==
    BaseInv /\ ExclusiveInv /\ OpenInv /\ PendingInv /\ [Next]_vars => PendingInv'
<1> SUFFICES ASSUME BaseInv, ExclusiveInv, OpenInv, PendingInv, [Next]_vars,
                    NEW s \in Sessions, s \notin hurt', NEW p \in Nat \ {0}, Holds(s, p)'
             PROVE  ~decisions'[p].resolved \/ (Settles' /\ cur' = s)
  BY DEF PendingInv
<1>0. hurt \subseteq hurt' /\ s \notin hurt
  BY HurtGrows
<1>1. ASSUME decisions' = decisions, Kept, Lasting
      PROVE  ~decisions'[p].resolved \/ (Settles' /\ cur' = s)
  <2>1. Holds(s, p)
    BY <1>1 DEF Kept
  <2>2. ~decisions[p].resolved \/ (Settles /\ cur = s)
    BY <1>0, <2>1 DEF PendingInv
  <2> QED BY <1>1, <2>2 DEF Lasting, Settles
<1>2. CASE Settled
  <2>0. decisions' = decisions
    BY <1>2, RepliesFacts DEF Settled, tables
  <2>1. CASE s # cur
    <3>1. Holds(s, p)
      BY <1>2, <2>1 DEF Settled
    <3> QED BY <1>0, <2>0, <2>1, <3>1 DEF PendingInv
  <2>2. CASE s = cur
    <3>1. Replied("ok") /\ pc = "classify" /\ p = work[call].dec /\ Settles
      BY <1>0, <1>2, <2>2 DEF Settled
    <3>2. p \in Unresolved(cur)
      BY <1>0, <2>2, <3>1, SoundReply
    <3> QED BY <2>0, <3>2 DEF Unresolved
  <2> QED BY <2>1, <2>2
<1>3. ASSUME NEW w \in Workers, BrainStep(w)
      PROVE  ~decisions'[p].resolved \/ (Settles' /\ cur' = s)
  <2>1. UNCHANGED <<sessions, pc, cur, call, ending>>
    BY <1>3, BrainStays
  <2>2. Holds(s, p)
    BY <2>1, SameHolds
  <2>3. p \in DOMAIN decisions /\ decisions[p].session = s
    BY <2>2, HeldFits
  <2>4. ~decisions[p].resolved \/ (Settles /\ cur = s)
    BY <1>0, <2>2 DEF PendingInv
  <2>5. CASE decisions'[p] = decisions[p]
    BY <2>1, <2>4, <2>5 DEF Settles
  <2>6. CASE ApplyReward(w) /\ work[w].dec = p
    <3>1. Sound(w) /\ work[w].session = s
      BY <1>0, <2>3, <2>6, ResolvedDecision DEF Sound, OnDecisions
    <3> QED BY <2>1, <3>1, SoundSettles DEF Settles
  <2>7. decisions' = decisions \/ ApplyReward(w) \/ StoreDecision(w)
    BY <1>3 DEF BrainStep, Handle, LookForPending, JudgeOutcome, CheckUnresolved, ReadArms, StoreConflicts,
       FindToken, InsertToken, RearmToken, RecordAccess, tables
  <2> QED BY <2>3, <2>5, <2>6, <2>7, ResolvedDecision, StoredDecision
<1>4. decisions' = decisions \/ \E w \in Workers : BrainStep(w)
  BY WhoDecides
<1> QED BY <1>1, <1>2, <1>3, <1>4, HoldSteps

LEMMA DecisionsGrow ==
    ASSUME BaseInv, [Next]_vars, NEW d \in DOMAIN decisions
    PROVE  /\ d \in DOMAIN decisions' /\ decisions'[d].session = decisions[d].session
           /\ decisions[d].resolved => decisions'[d].resolved
<1>1. ASSUME NEW w \in Workers, ApplyReward(w)
      PROVE  /\ d \in DOMAIN decisions' /\ decisions'[d].session = decisions[d].session
             /\ decisions[d].resolved => decisions'[d].resolved
  <2>1. /\ DOMAIN decisions' = DOMAIN decisions
        /\ decisions'[work[w].dec].resolved = TRUE
        /\ decisions'[d].session = decisions[d].session
        /\ d # work[w].dec => decisions'[d] = decisions[d]
    BY <1>1, ResolvedDecision
  <2> QED BY <2>1
<1>2. ASSUME NEW w \in Workers, StoreDecision(w)
      PROVE  d \in DOMAIN decisions' /\ decisions'[d] = decisions[d]
  BY <1>2, StoredDecision
<1> QED BY <1>1, <1>2, WhoDecides

LEMMA CaredStep ==
    BaseInv /\ CareInv /\ [Next]_vars => \A d \in DOMAIN decisions' : Cared(d)'
<1> SUFFICES ASSUME BaseInv, CareInv, [Next]_vars, NEW d \in DOMAIN decisions'
             PROVE  Cared(d)'
  OBVIOUS
<1> USE DEF CareInv
<1>0. hurt \subseteq hurt' /\ unseen \subseteq unseen'
  BY HurtGrows
<1>a. ASSUME NEW s \in Sessions, s = decisions'[d].session, CaredBy(d, s)' PROVE Cared(d)'
  BY <1>a DEF Cared
<1>1. ASSUME d \in DOMAIN decisions, decisions[d].resolved PROVE Cared(d)'
  BY <1>1, DecisionsGrow DEF Cared
<1>2. ASSUME d \in DOMAIN decisions, ~decisions[d].resolved PROVE Cared(d)'
  <2>1. PICK s \in Sessions : s = decisions[d].session /\ CaredBy(d, s)
    BY <1>2 DEF Cared
  <2>2. s = decisions'[d].session /\ d # 0
    BY <1>2, <2>1, DecisionsGrow, DomainIsRange DEF BaseInv, StoreInv
  <2>3. d \in unseen \/ s \in hurt => CaredBy(d, s)'
    BY <1>0 DEF CaredBy
  <2>4. CASE Kept /\ Lasting
    <3>1. Holds(s, d) => Holds(s, d)' \/ d \in unseen'
      BY <2>2, <2>4 DEF Kept
    <3>2. InService(s) => InService(s)'
      BY <2>4 DEF Lasting, Settles, InService
    <3> QED BY <1>a, <2>1, <2>2, <2>3, <3>1, <3>2 DEF CaredBy
  <2>5. CASE Settled
    <3>1. CASE s # cur
      <4>1. (Holds(s, d) => Holds(s, d)') /\ ~InService(s)
        BY <2>2, <2>5, <3>1 DEF Settled, InService
      <4> QED BY <1>a, <2>1, <2>2, <2>3, <4>1 DEF CaredBy
    <3>2. CASE s = cur /\ s \in hurt'
      BY <1>a, <2>2, <3>2 DEF CaredBy
    <3>3. CASE s = cur /\ s \notin hurt'
      <4>1. Replied("ok") /\ Settles /\ cur \notin hurt
        BY <1>0, <2>5, <3>3 DEF Settled
      <4>2. d \in Unresolved(s)
        BY <1>2, <2>1 DEF Unresolved
      <4>3. pc = "classify" /\ work[call].dec \in Unresolved(s)
        BY <3>3, <4>1, <4>2, SoundReply
      <4>4. d = work[call].dec
        BY <1>0, <3>3, <4>2, <4>3 DEF OpenInv, OneOpen
      <4>5. Holds(s, d)'
        BY <2>2, <2>5, <3>3, <4>3, <4>4 DEF Settled
      <4> QED BY <1>a, <2>2, <4>5 DEF CaredBy
    <3> QED BY <3>1, <3>2, <3>3
  <2> QED BY <2>4, <2>5, HoldSteps
<1>3. ASSUME d \notin DOMAIN decisions PROVE Cared(d)'
  <2>1. PICK w \in Workers : BrainStep(w) /\ StoreDecision(w)
    BY <1>3, WhoDecides, ResolvedDecision
  <2>2. /\ d = Len(decisions) + 1 /\ decisions'[d].session = work[w].session
        /\ work[w].op = "classify" /\ work[w] # Idle
    <3> DEFINE n == Len(decisions) + 1
    <3>1. /\ work[w].op = "classify" /\ work[w] # Idle
          /\ DOMAIN decisions' = DOMAIN decisions \cup {n}
          /\ decisions'[n].session = work[w].session
      BY <2>1, StoredDecision
    <3> HIDE DEF n
    <3>2. d = n
      BY <1>3, <3>1
    <3> QED BY <3>1, <3>2 DEF n
  <2>3. work[w].session \in Sessions
    BY <2>2 DEF BaseInv, StoreInv, Job
  <2>4. PICK s \in Sessions : s = work[w].session
    BY <2>3
  <2>5. UNCHANGED <<pc, cur, call>>
    BY <2>1, BrainStays
  <2>6. CASE s \in hurt'
    BY <1>a, <2>2, <2>4, <2>6 DEF CaredBy
  <2>7. CASE s \notin hurt'
    <3>1. Sound(w)
      BY <1>0, <2>2, <2>4, <2>7 DEF Sound, OnDecisions
    <3>2. InService(s)
      BY <2>2, <2>4, <3>1, SoundSettles DEF Settles, InService
    <3>3. InService(s)'
      BY <2>5, <3>2 DEF InService
    <3> QED BY <1>a, <2>2, <2>4, <3>3 DEF CaredBy
  <2> QED BY <2>6, <2>7
<1> QED BY <1>1, <1>2, <1>3

LEMMA CareStep == BaseInv /\ CareInv /\ [Next]_vars => CareInv'
BY ExclusiveStep, OpenStep, PendingStep, CaredStep DEF CareInv

LEMMA CareInit == Init => CareInv
<1> SUFFICES ASSUME Init PROVE CareInv
  OBVIOUS
<1>1. decisions = <<>> /\ sessions = [s \in {} |-> 0] /\ ending = {} /\ work = [w \in Workers |-> Idle]
  BY DEF Init, StoreInit
<1>2. \A s : Unresolved(s) = {}
  BY <1>1 DEF Unresolved
<1>3. \A w \in Workers : ~OnDecisions(w)
  BY <1>1 DEF OnDecisions
<1>4. \A s, p : ~Holds(s, p)
  BY <1>1 DEF Holds, Range
<1> QED BY <1>1, <1>2, <1>3, <1>4 DEF CareInv, ExclusiveInv, OpenInv, OneOpen, PendingInv, Sound

(* NoDecisionForgotten: between an attacker's commands, late or not, the   *)
(* close of the session and its expiry, a decision is always scored, held  *)
(* by the state that will score it, or on its way to that state, unless a  *)
(* request for its session failed or nobody saw the decoy.                 *)
THEOREM DecisionsAreCaredFor == Spec => []NoDecisionForgotten
<1>1. Init => BaseInv /\ CareInv
  BY BaseInit, CareInit
<1>2. BaseInv /\ CareInv /\ [Next]_vars => (BaseInv /\ CareInv)'
  BY BaseStep, CareStep
<1>3. CareInv => NoDecisionForgotten
  BY DEF CareInv, Cared, CaredBy, Holds, NoDecisionForgotten
<1> QED BY <1>1, <1>2, <1>3, PTL DEF Spec

-----------------------------------------------------------------------------
(* The strongest evidence.                                                 *)

LEMMA RewardStays ==
    ASSUME BaseInv, [Next]_vars, NEW d \in DOMAIN decisions
    PROVE  \/ decisions'[d] = decisions[d]
           \/ \E w \in Workers : BrainStep(w) /\ ApplyReward(w) /\ work[w].dec = d
BY WhoDecides, ResolvedDecision, StoredDecision

LEMMA WhoProves == ASSUME [Next]_vars PROVE proven' = proven \/ TakeCommand
<1>1. CASE Tick \/ Attacker \/ Background \/ Brain \/ Trouble \/ UNCHANGED vars
  BY <1>1 DEF Tick, Attacker, Type, Leave, Background, GenerationReturns, GeneratedPlanted, Brain,
     BrainStep, DropReply, Trouble, GiveUp, AnalystDeactivates, DatabaseFails, JudgeBlindly, vars, ghosts
<1>2. CASE TakeClosed \/ TakeControlCommand \/ PostTrip \/ TripReplied \/ PostHit \/ HitReplied
  BY <1>2 DEF TakeClosed, TakeControlCommand, PostTrip, TripReplied, PostHit, HitReplied, ghosts
<1>3. CASE PostClassify \/ ClassifyReplied \/ BrokerAnswers \/ PostDeclare \/ DeclareDone
           \/ PostResolution \/ ResolutionReplied
  BY <1>3 DEF PostClassify, ClassifyReplied, BrokerAnswers, PostDeclare, DeclareDone, PostResolution,
     ResolutionReplied, ghosts
<1>4. CASE Failures \/ LeaveUnresolved
  BY <1>4 DEF Failures, TripFails, HitFails, ClassifyFails, BrokerFails, ResolutionFails,
     LeaveUnresolved, ghosts
<1> QED BY <1>1, <1>2, <1>3, <1>4 DEF Next, CourierStep

(* A decision is proven when its session, pending, trips the wire.         *)
LEMMA NewProof ==
    ASSUME BaseInv, [Next]_vars, NEW d, d \in proven', d \notin proven
    PROVE  \E s \in Sessions : /\ pc' = "trip" /\ cur' = s /\ d # 0
                               /\ Holds(s, d) /\ Holds(s, d)'
                               /\ call = NoCall /\ decisions' = decisions
<1>1. TakeCommand
  BY WhoProves
<1>2. PICK s \in Sessions : s = Head(queue).session /\ ending = {} /\ call = NoCall
  BY <1>1, Taken DEF TakeCommand, BaseInv
<1>3. /\ EventStep(s, StateOf(s).pending, {})
      /\ pc' = "trip" /\ proven' = proven \cup ({StateOf(s).pending} \ {0})
  BY <1>1, <1>2, CommandSteps
<1>4. d = StateOf(s).pending /\ d # 0
  BY <1>3
<1>5. Holds(s, d)
  BY <1>2, <1>4, StateFits, TrackedHold DEF BaseInv
<1>6. Holds(s, d)'
  BY <1>2, <1>3, <1>4, EventHolds
<1>7. cur' = s
  BY <1>3 DEF EventStep, Leaves, InEvent
<1>8. decisions' = decisions
  BY <1>1 DEF TakeCommand, storeVars, tables
<1> QED BY <1>2, <1>3, <1>4, <1>5, <1>6, <1>7, <1>8

(* On the way to the decision, the coroutine leaves it only by its reply.  *)
LEMMA TripKeepsOn ==
    ASSUME BaseInv, [Next]_vars, NEW s, NEW d, d # 0, Proving(d, s)
    PROVE  Proving(d, s)' \/ Settled
<1>1. pc \in {"trip", "check", "hit"} /\ cur = s /\ Holds(s, d) /\ pc \in InEvent
  BY DEF Proving, InEvent
<1>2. ending = {} /\ sessions[cur].pending = d
  BY <1>1, InHand, TrackedHold DEF BaseInv
<1>3. CASE Kept /\ Lasting
  <2>1. Holds(s, d)'
    BY <1>1, <1>3 DEF Kept, LeaveUnresolved
  <2>2. CASE UNCHANGED <<pc, cur>>
    BY <1>1, <2>1, <2>2 DEF Proving
  <2>3. CASE TripReplied \/ TripFails
    <3>1. pc' \in {"trip", "check", "hit"} /\ EventStep(cur, sessions[cur].pending, {})
      BY <1>2, <2>3, TripSteps
    <3>2. cur' = cur
      BY <3>1 DEF EventStep, Leaves, InEvent
    <3> QED BY <1>1, <2>1, <3>1, <3>2 DEF Proving
  <2>4. CASE HitReplied \/ HitFails
    <3>1. Settles
      BY <2>4, CourierAssumption DEF Settles, HitReplied, HitFails, RequestFails, Replied,
         RaisesException, NoCall, Lost
    <3>2. call' = NoCall
      BY <2>4 DEF HitReplied, HitFails, RequestFails, Replied, RaisesException
    <3> QED BY <1>3, <3>1, <3>2 DEF Lasting
  <2>5. CASE Quiet
    <3>1. CASE World
      BY <2>2, <3>1, WorldSteps DEF loopVars
    <3>2. CASE Background \/ GiveUp
      BY <2>2, <3>2 DEF Background, GenerationReturns, GeneratedPlanted, GiveUp, loopVars
    <3> QED BY <1>1, <2>5, <3>1, <3>2 DEF Quiet, Takes, TakeClosed, TakeControlCommand, TakeCommand,
               BrokerAnswers, BrokerFails, LeaveUnresolved
  <2>6. CASE Post1
    BY <1>1, <2>2, <2>6, PostAsks DEF Asks
  <2>7. CASE AnalystDeactivates \/ \E w \in Workers : BrainStep(w) \/ DatabaseFails(w) \/ DropReply(w)
    BY <2>2, <2>7 DEF AnalystDeactivates, BrainStep, DatabaseFails, JudgeBlindly, DropReply, loopVars
  <2>8. Replies => TripReplied \/ TripFails \/ HitReplied \/ HitFails
    BY <1>1 DEF Replies, ClassifyReplied, ClassifyFails, DeclareDone, ResolutionReplied, ResolutionFails
  <2> QED BY <2>3, <2>4, <2>5, <2>6, <2>7, <2>8, Steps7
<1> QED BY <1>3, HoldSteps

LEMMA ProvenStep == BaseInv /\ CareInv /\ ProvenInv /\ [Next]_vars => ProvenInv'
<1> SUFFICES ASSUME BaseInv, CareInv, ProvenInv, [Next]_vars, NEW d \in proven'
             PROVE  /\ d \in DOMAIN decisions'
                    /\ \E s \in Sessions :
                          /\ s = decisions'[d].session
                          /\ \/ s \in hurt'
                             \/ decisions'[d].resolved /\ decisions'[d].reward = FullReward
                             \/ ~decisions'[d].resolved /\ Proving(d, s)'
  BY DEF ProvenInv
<1> USE DEF CareInv
<1>0. hurt \subseteq hurt'
  BY HurtGrows
<1>1. CASE d \notin proven
  <2>1. PICK s \in Sessions :
            /\ pc' = "trip" /\ cur' = s /\ d # 0
            /\ Holds(s, d) /\ Holds(s, d)' /\ call = NoCall /\ decisions' = decisions
    BY <1>1, NewProof
  <2>2. d \in DOMAIN decisions /\ decisions[d].session = s
    BY <2>1, HeldFits
  <2>3. s \in hurt \/ ~decisions[d].resolved
    <3>1. d \in Nat \ {0}
      BY <2>1, <2>2, DomainIsRange DEF BaseInv, StoreInv
    <3> QED BY <2>1, <3>1 DEF PendingInv, Settles
  <2> QED BY <1>0, <2>1, <2>2, <2>3 DEF Proving
<1>2. CASE d \in proven
  <2>1. PICK s \in Sessions :
            /\ d \in DOMAIN decisions /\ s = decisions[d].session
            /\ \/ s \in hurt
               \/ decisions[d].resolved /\ decisions[d].reward = FullReward
               \/ ~decisions[d].resolved /\ Proving(d, s)
    BY <1>2 DEF ProvenInv
  <2>2. d \in DOMAIN decisions' /\ s = decisions'[d].session /\ d # 0
    BY <2>1, DecisionsGrow, DomainIsRange DEF BaseInv, StoreInv
  <2>3. CASE s \in hurt'
    BY <2>2, <2>3
  <2>4. ASSUME NEW w \in Workers, ApplyReward(w), work[w].dec = d, s \notin hurt'
        PROVE  decisions'[d].resolved /\ decisions'[d].reward = FullReward
    <3>1. /\ work[w].step = "apply" /\ OnDecisions(w) /\ work[w].session = s
          /\ decisions'[d].resolved = TRUE /\ decisions'[d].reward = work[w].pay
      BY <2>1, <2>4, ResolvedDecision DEF OnDecisions
    <3>2. Sound(w) /\ s \notin hurt
      BY <1>0, <2>4, <3>1 DEF Sound
    <3>3. d \in Unresolved(s)
      BY <2>4, <3>1, <3>2 DEF OpenInv, Ready
    <3>4. Proving(d, s)
      BY <2>1, <3>2, <3>3 DEF Unresolved
    <3>5. pc = "hit"
      BY <3>2, <3>4, SoundSettles DEF Proving, Settles
    <3>6. work[w].pay = FullReward
      BY <3>2, <3>5 DEF ExclusiveInv, Attended
    <3> QED BY <3>1, <3>6
  <2>5. CASE s \notin hurt' /\ decisions'[d] = decisions[d]
    <3>1. ASSUME ~decisions[d].resolved, Proving(d, s), Settled PROVE FALSE
      <4>1. Replied("ok") /\ Settles /\ cur = s /\ pc # "classify"
        BY <2>5, <3>1 DEF Settled, Proving
      <4>2. Unresolved(s) = {}
        BY <1>0, <2>5, <4>1, SoundReply
      <4> QED BY <2>1, <3>1, <4>2 DEF Unresolved
    <3>2. Proving(d, s) /\ ~decisions[d].resolved => Proving(d, s)'
      BY <2>2, <3>1, TripKeepsOn
    <3> QED BY <1>0, <2>1, <2>2, <2>5, <3>2
  <2> QED BY <2>1, <2>2, <2>3, <2>4, <2>5, RewardStays
<1> QED BY <1>1, <1>2

(* StrongestEvidenceWins: a credential used while a decision was pending   *)
(* makes its reward the full one, whatever weaker signal its session gives *)
(* afterwards, as long as no request of the session failed.                *)
THEOREM EvidenceWins == Spec => []StrongestEvidenceWins
<1>1. Init => BaseInv /\ CareInv /\ ProvenInv
  <2>1. Init => ProvenInv
    BY DEF Init, ProvenInv
  <2> QED BY <2>1, BaseInit, CareInit
<1>2. BaseInv /\ CareInv /\ ProvenInv /\ [Next]_vars => (BaseInv /\ CareInv /\ ProvenInv)'
  BY BaseStep, CareStep, ProvenStep
<1>3. ProvenInv => StrongestEvidenceWins
  BY DEF ProvenInv, StrongestEvidenceWins
<1> QED BY <1>1, <1>2, <1>3, PTL DEF Spec

-----------------------------------------------------------------------------
(* The tripwires of the states.                                            *)

TakesCommand == (TakeCommand \/ TakeControlCommand) /\ pc = "get" /\ queue # <<>>

LEMMA EventWatches ==
    ASSUME BaseInv, NEW s \in Sessions, NEW p, NEW spawned, EventStep(s, p, spawned), NEW t \in Tracked'
    PROVE  \/ t \in Tracked /\ sessions[t].extra \subseteq sessions'[t].extra
           \/ t \notin Tracked /\ t = s
<1>1. PICK st : Goes(s, st) /\ Leaves(s, st)
  BY DEF EventStep
<1>2. t \in Tracked \cup {s} /\ sessions'[t] = IF t = s THEN st ELSE sessions[t]
  BY <1>1 DEF Leaves
<1>3. st.extra = StateOf(s).extra
  BY <1>1 DEF Goes
<1>4. s \in Tracked => StateOf(s) = sessions[s]
  BY StateFits DEF BaseInv
<1> QED BY <1>2, <1>3, <1>4

(* A tripwire is only ever extended; a state is only made for a command.   *)
LEMMA WhoWatches ==
    ASSUME BaseInv, [Next]_vars, NEW t \in Tracked'
    PROVE  \/ t \in Tracked /\ sessions[t].extra \subseteq sessions'[t].extra
           \/ t \notin Tracked /\ TakesCommand /\ t = Head(queue).session
<1>a. sessions' = sessions => t \in Tracked /\ sessions[t].extra \subseteq sessions'[t].extra
  BY DEF Tracked
<1>b. Tracked' \subseteq Tracked /\ (\A u \in Tracked' : sessions'[u] = sessions[u])
          => t \in Tracked /\ sessions[t].extra \subseteq sessions'[t].extra
  OBVIOUS
<1>d. pc \in InEvent => cur \in Sessions /\ cur \in Tracked
  BY InHand DEF BaseInv
<1>e. ASSUME NEW p, NEW spawned, EventStep(cur, p, spawned), pc \in InEvent
      PROVE  t \in Tracked /\ sessions[t].extra \subseteq sessions'[t].extra
  BY <1>d, <1>e, EventWatches
<1>1. CASE World
  BY <1>1, <1>a, WorldSteps
<1>2. CASE TakeClosed
  BY <1>2, <1>b, ClosedSteps DEF KeepsBut
<1>3. CASE TakeControlCommand \/ TakeCommand
  <2>1. TakesCommand
    BY <1>3 DEF TakeControlCommand, TakeCommand, TakesCommand
  <2>2. Head(queue).session \in Sessions
    BY <2>1, Taken DEF TakesCommand, BaseInv
  <2>3. EventStep(Head(queue).session, StateOf(Head(queue).session).pending, {})
    BY <1>3, ControlSteps, CommandSteps
  <2> QED BY <2>1, <2>2, <2>3, EventWatches
<1>4. CASE Post1
  BY <1>4, <1>a, PostAsks DEF Asks
<1>5. CASE TripReplied \/ TripFails
  BY <1>5, <1>e, TripSteps DEF TripReplied, TripFails, InEvent
<1>6. CASE HitReplied \/ HitFails
  BY <1>6, <1>e, HitSteps DEF HitReplied, HitFails, InEvent
<1>7. CASE ClassifyReplied \/ ClassifyFails
  BY <1>7, <1>e, ClassifySteps, ClassifyGivesUp DEF ClassifyReplied, ClassifyFails, InEvent
<1>8. CASE BrokerAnswers \/ BrokerFails
  BY <1>8, <1>e, PlantSteps DEF BrokerAnswers, BrokerFails, InEvent
<1>9. CASE DeclareDone
  BY <1>9, <1>e, DeclareSteps DEF DeclareDone, InEvent
<1>10. CASE LeaveUnresolved \/ ResolutionReplied \/ ResolutionFails
  BY <1>10, <1>b, LeaveSteps, ResolutionSteps DEF KeepsBut
<1>11. CASE Background
  <2>1. ASSUME NEW u \in tasks, GenerationReturns(u)
        PROVE  t \in Tracked /\ sessions[t].extra \subseteq sessions'[t].extra
    BY <2>1, GenerationSteps DEF Watching
  <2>2. ASSUME NEW u \in tasks, GeneratedPlanted(u) PROVE sessions' = sessions
    BY <2>2 DEF GeneratedPlanted
  <2> QED BY <1>11, <2>1, <2>2, <1>a DEF Background
<1>12. CASE Brain \/ Trouble
  BY <1>12, <1>a DEF Brain, BrainStep, DropReply, Trouble, GiveUp, AnalystDeactivates, DatabaseFails, JudgeBlindly
<1> QED BY <1>1, <1>2, <1>3, <1>4, <1>5, <1>6, <1>7, <1>8, <1>9, <1>10, <1>11, <1>12
        DEF Next, World, CourierStep, Failures, Post1

(* Whom the courier has met it has met before, or takes up now.            *)
LEMMA WhoIsMet ==
    ASSUME BaseInv, [Next]_vars, NEW s, Met(s)'
    PROVE  Met(s) \/ (TakesCommand /\ s = Head(queue).session)
<1>1. CASE s \in Tracked'
  BY <1>1, WhoWatches DEF Met
<1>2. CASE s \in planted' \/ \E t \in tasks' : t.session = s
  <2>1. ASSUME NEW gone, TasksFrom(gone, {}), planted' = planted PROVE Met(s)
    BY <1>2, <2>1 DEF TasksFrom, Met
  <2>2. ASSUME NEW gone, TasksFrom(gone, {Generate(cur)}), planted' = planted, pc = "plant" PROVE Met(s)
    <3>1. cur \in Tracked /\ Generate(cur).session = cur
      BY <2>2 DEF BaseInv, LoopInv, InEvent, Generate
    <3> QED BY <1>2, <2>2, <3>1 DEF TasksFrom, Met
  <2>3. ASSUME NEW t \in tasks, GenerationReturns(t) PROVE Met(s)
    <3>1. t \in [session : Sessions, tracked : BOOLEAN, stage : {"generate", "plant"}]
      BY DEF BaseInv, TaskInv
    <3>2. [t EXCEPT !.stage = "plant"].session = t.session
      BY <3>1
    <3>3. tasks' \subseteq tasks \cup {[t EXCEPT !.stage = "plant"]} /\ planted' = planted
      BY <2>3 DEF GenerationReturns, ghosts
    <3> QED BY <1>2, <3>2, <3>3 DEF Met
  <2>4. ASSUME NEW t \in tasks, GeneratedPlanted(t) PROVE Met(s)
    BY <1>2, <2>4 DEF GeneratedPlanted, Met
  <2>5. CASE tasks' = tasks /\ planted' = planted
    BY <1>2, <2>5 DEF Met
  <2> QED BY <2>1, <2>2, <2>3, <2>4, <2>5, WhoSpawns
<1> QED BY <1>1, <1>2 DEF Met

LEMMA WhoQueues ==
    ASSUME BaseInv, [Next]_vars
    PROVE  \/ UNCHANGED <<queue, typed>>
           \/ \E s \in Sessions : Leave(s) \/ \E uses \in SUBSET Values : Type(s, uses)
           \/ pc = "get" /\ queue # <<>> /\ queue' = Tail(queue) /\ typed' = typed
<1>1. CASE Tick \/ Attacker \/ Background \/ Brain \/ Trouble \/ UNCHANGED vars
  BY <1>1 DEF Tick, Attacker, Background, GenerationReturns, GeneratedPlanted, Brain,
     BrainStep, DropReply, Trouble, GiveUp, AnalystDeactivates, DatabaseFails, JudgeBlindly, vars, attackerVars
<1>2. CASE TakeClosed \/ TakeControlCommand \/ TakeCommand \/ PostTrip \/ TripReplied \/ PostHit \/ HitReplied
  BY <1>2 DEF TakeClosed, TakeControlCommand, TakeCommand, PostTrip, TripReplied, PostHit, HitReplied,
     attackerVars
<1>3. CASE PostClassify \/ ClassifyReplied \/ BrokerAnswers \/ PostDeclare \/ DeclareDone
           \/ PostResolution \/ ResolutionReplied
  BY <1>3 DEF PostClassify, ClassifyReplied, BrokerAnswers, PostDeclare, DeclareDone, PostResolution,
     ResolutionReplied, attackerVars
<1>4. CASE Failures \/ LeaveUnresolved
  BY <1>4 DEF Failures, TripFails, HitFails, ClassifyFails, BrokerFails, ResolutionFails,
     LeaveUnresolved, attackerVars
<1> QED BY <1>1, <1>2, <1>3, <1>4 DEF Next, CourierStep

(* An offered event joins the queue at its end, or is dropped.             *)
LEMMA Offered ==
    ASSUME WorldInv, NEW e \in Event, Offer(e)
    PROVE  \E n : \A k \in DOMAIN queue' :
               \/ k \in DOMAIN queue /\ queue'[k] = queue[k]
               \/ k = n /\ k \notin DOMAIN queue /\ queue'[k] = e
<1>1. CASE queue' = queue
  BY <1>1
<1>2. CASE queue' = Append(queue, e)
  <2> DEFINE n == Len(queue) + 1
  <2>1. DOMAIN queue' = DOMAIN queue \cup {n} /\ n \notin DOMAIN queue /\ queue'[n] = e
        /\ \A k \in DOMAIN queue : queue'[k] = queue[k]
    BY <1>2, Appended DEF WorldInv
  <2> HIDE DEF n
  <2>2. \A k \in DOMAIN queue' :
               \/ k \in DOMAIN queue /\ queue'[k] = queue[k]
               \/ k = n /\ k \notin DOMAIN queue /\ queue'[k] = e
    BY <2>1
  <2> QED BY <2>2
<1> QED BY <1>1, <1>2 DEF Offer

TypedFor(s) ==
    /\ Met(s) => typed[s] >= 1
    /\ \A k \in Nat : CommandOf(k, s) => typed[s] >= (IF Met(s) THEN 2 ELSE 1)
    /\ \A k, l \in Nat : CommandOf(k, s) /\ CommandOf(l, s) /\ l # k => typed[s] >= 2

LEMMA TypedStep == BaseInv /\ TypedInv /\ [Next]_vars => TypedInv'
<1> SUFFICES ASSUME BaseInv, TypedInv, [Next]_vars, NEW s \in Sessions PROVE TypedFor(s)'
  BY DEF TypedInv, TypedFor
<1>0. TypedFor(s) /\ typed[s] \in Nat /\ WorldInv
  BY DEF TypedInv, TypedFor, BaseInv, WorldInv
<1>1. CASE UNCHANGED <<queue, typed>>
  <2>1. \A k : CommandOf(k, s)' <=> CommandOf(k, s)
    BY <1>1 DEF CommandOf
  <2>2. CASE Met(s)' => Met(s)
    BY <1>0, <1>1, <2>1, <2>2 DEF TypedFor
  <2>3. CASE TakesCommand
    <3>1. queue' = Tail(queue)
      BY <2>3 DEF TakesCommand, TakeCommand, TakeControlCommand
    <3>2. Len(Tail(queue)) # Len(queue)
      BY <2>3, <1>0 DEF TakesCommand, WorldInv
    <3> QED BY <1>1, <3>1, <3>2
  <2> QED BY <2>2, <2>3, WhoIsMet
<1>2. ASSUME NEW u \in Sessions, NEW uses \in SUBSET Values, Type(u, uses) PROVE TypedFor(s)'
  <2> DEFINE e == [kind |-> "command", session |-> u, uses |-> uses]
  <2>1. e \in Event /\ Offer(e) /\ e.session = u
    BY <1>2 DEF Type, Event
  <2> HIDE DEF e
  <2>2. PICK n : \A k \in DOMAIN queue' :
                     \/ k \in DOMAIN queue /\ queue'[k] = queue[k]
                     \/ k = n /\ k \notin DOMAIN queue /\ queue'[k] = e
    BY <1>0, <2>1, Offered
  <2>3. \A k : CommandOf(k, s)' => CommandOf(k, s) \/ (k = n /\ u = s)
    BY <2>1, <2>2 DEF CommandOf
  <2>4. typed'[s] = IF u = s THEN typed[s] + 1 ELSE typed[s]
    BY <1>0, <1>2 DEF Type, WorldInv
  <2>5. Met(s)' <=> Met(s)
    BY <1>2 DEF Type, Met, Tracked, ghosts
  <2> QED BY <1>0, <2>3, <2>4, <2>5 DEF TypedFor
<1>3. ASSUME NEW u \in Sessions, Leave(u) PROVE TypedFor(s)'
  <2> DEFINE e == [kind |-> "closed", session |-> u, uses |-> {}]
  <2>1. e \in Event /\ Offer(e) /\ e.kind = "closed"
    BY <1>3 DEF Leave, Event
  <2> HIDE DEF e
  <2>2. PICK n : \A k \in DOMAIN queue' :
                     \/ k \in DOMAIN queue /\ queue'[k] = queue[k]
                     \/ k = n /\ k \notin DOMAIN queue /\ queue'[k] = e
    BY <1>0, <2>1, Offered
  <2>3. \A k : CommandOf(k, s)' => CommandOf(k, s)
    BY <2>1, <2>2 DEF CommandOf
  <2>4. typed' = typed
    BY <1>3 DEF Leave
  <2>5. Met(s)' <=> Met(s)
    BY <1>3 DEF Leave, Met, Tracked, ghosts
  <2> QED BY <1>0, <2>3, <2>4, <2>5 DEF TypedFor
<1>4. CASE pc = "get" /\ queue # <<>> /\ queue' = Tail(queue) /\ typed' = typed
  <2>1. /\ \A k \in DOMAIN Tail(queue) : k + 1 \in DOMAIN queue /\ Tail(queue)[k] = queue[k + 1]
        /\ 1 \in DOMAIN queue /\ queue[1] = Head(queue)
        /\ Tail(queue) \in Seq(Event)
    BY <1>4, Taken DEF BaseInv
  <2>2. \A k \in Nat : CommandOf(k, s)' => CommandOf(k + 1, s) /\ k + 1 # 1 /\ k + 1 \in Nat
    <3> SUFFICES ASSUME NEW k \in Nat, CommandOf(k, s)' PROVE CommandOf(k + 1, s) /\ k # 0
      OBVIOUS
    <3>1. k \in DOMAIN Tail(queue) /\ Tail(queue)[k].kind = "command" /\ Tail(queue)[k].session = s
      BY <1>4 DEF CommandOf
    <3>2. k # 0
      BY <2>1, <3>1, DomainIsRange
    <3> QED BY <2>1, <3>1, <3>2 DEF CommandOf
  <2>3. Met(s)' => Met(s) \/ CommandOf(1, s)
    <3>1. TakesCommand => Head(queue).kind = "command"
      BY DEF TakesCommand, TakeCommand, TakeControlCommand
    <3> QED BY <2>1, <3>1, WhoIsMet DEF CommandOf
  <2>4. Met(s)' => typed[s] >= 1
    BY <1>0, <2>3 DEF TypedFor
  <2>5. ASSUME NEW k \in Nat, CommandOf(k, s)' PROVE typed[s] >= (IF Met(s)' THEN 2 ELSE 1)
    <3>1. CommandOf(k + 1, s) /\ k + 1 # 1 /\ k + 1 \in Nat
      BY <2>2, <2>5
    <3>2. typed[s] >= (IF Met(s) THEN 2 ELSE 1)
      BY <1>0, <3>1 DEF TypedFor
    <3>3. CommandOf(1, s) => typed[s] >= 2
      BY <1>0, <3>1 DEF TypedFor
    <3> QED BY <1>0, <2>3, <3>2, <3>3
  <2>6. ASSUME NEW k \in Nat, NEW l \in Nat, CommandOf(k, s)', CommandOf(l, s)', l # k
        PROVE  typed[s] >= 2
    <3>1. CommandOf(k + 1, s) /\ CommandOf(l + 1, s) /\ k + 1 # l + 1
      BY <2>2, <2>6
    <3> QED BY <1>0, <3>1 DEF TypedFor
  <2> QED BY <1>4, <2>4, <2>5, <2>6 DEF TypedFor
<1> QED BY <1>1, <1>2, <1>3, <1>4, WhoQueues

-----------------------------------------------------------------------------
(* Generated bait.                                                         *)

LEMMA RenewedGrows ==
    ASSUME [Next]_vars
    PROVE  renewed \subseteq renewed'
<1>1. CASE Tick \/ Attacker \/ Background \/ Brain \/ Trouble \/ UNCHANGED vars
  BY <1>1 DEF Tick, Attacker, Type, Leave, Background, GenerationReturns, GeneratedPlanted, Brain,
     BrainStep, DropReply, Trouble, GiveUp, AnalystDeactivates, DatabaseFails, JudgeBlindly, vars, ghosts
<1>2. CASE TakeClosed \/ TakeControlCommand \/ TakeCommand \/ PostTrip \/ TripReplied \/ PostHit \/ HitReplied
  BY <1>2 DEF TakeClosed, TakeControlCommand, TakeCommand, PostTrip, TripReplied, PostHit, HitReplied, ghosts
<1>3. CASE PostClassify \/ ClassifyReplied \/ BrokerAnswers \/ PostDeclare \/ DeclareDone
           \/ PostResolution \/ ResolutionReplied
  BY <1>3 DEF PostClassify, ClassifyReplied, BrokerAnswers, PostDeclare, DeclareDone, PostResolution,
     ResolutionReplied, ghosts
<1>4. CASE Failures \/ LeaveUnresolved
  BY <1>4 DEF Failures, TripFails, HitFails, ClassifyFails, BrokerFails, ResolutionFails,
     LeaveUnresolved, ghosts
<1> QED BY <1>1, <1>2, <1>3, <1>4 DEF Next, CourierStep

(* A state made anew and not counted as renewed is of a session with no    *)
(* generated bait anywhere.                                                *)
LEMMA FreshState ==
    ASSUME BaseInv, TypedInv, ArmInv, [Next]_vars, NEW s \in Tracked' \ renewed', s \notin Tracked
    PROVE  s \notin planted /\ \A t \in tasks : t.session # s
<1>1. TakesCommand /\ s = Head(queue).session
  BY WhoWatches
<1>2. s \in Sessions /\ 1 \in DOMAIN queue /\ queue[1] = Head(queue)
  BY <1>1, Taken DEF TakesCommand, BaseInv
<1>3. CASE TakeControlCommand
  <2>1. ~adaptive[s]
    BY <1>1, <1>3 DEF TakeControlCommand, Control
  <2> QED BY <2>1 DEF ArmInv, ControlArmIsStatic
<1>4. CASE TakeCommand
  <2>1. ~(typed[s] > 1)
    BY <1>1, <1>4 DEF TakeCommand
  <2>2. CommandOf(1, s)
    BY <1>1, <1>2, <1>4 DEF TakeCommand, CommandOf
  <2>3. typed[s] \in Nat /\ typed[s] >= (IF Met(s) THEN 2 ELSE 1)
    BY <1>2, <2>2 DEF TypedInv, BaseInv, WorldInv
  <2>4. ~Met(s)
    BY <2>1, <2>3
  <2> QED BY <2>4 DEF Met
<1> QED BY <1>1, <1>3, <1>4 DEF TakesCommand

Watched(s) ==
    /\ s \in planted => s \in sessions[s].extra
    /\ \A t \in tasks : t.session = s => t.tracked /\ (t.stage = "plant" => s \in sessions[s].extra)

LEMMA BaitParts == BaitInv <=> \A s \in Tracked \ renewed : Watched(s)
BY DEF BaitInv, GeneratedBaitIsWatched, Watched

LEMMA BaitStep == BaseInv /\ TypedInv /\ ArmInv /\ BaitInv /\ [Next]_vars => BaitInv'
<1> SUFFICES ASSUME BaseInv, TypedInv, ArmInv, BaitInv, [Next]_vars
             PROVE  (\A s \in Tracked \ renewed : Watched(s))'
  BY BaitParts, PTL
<1>1. ASSUME NEW s \in Tracked' \ renewed' PROVE Watched(s)'
  <2>1. CASE s \notin Tracked
    <3>1. s \notin planted /\ \A t \in tasks : t.session # s
      BY <1>1, <2>1, FreshState
    <3>2. ~Met(s)
      BY <2>1, <3>1 DEF Met
    <3>3. TakesCommand
      BY <1>1, <2>1, WhoWatches
    <3>4. planted' = planted
      BY <3>3 DEF TakesCommand, TakeCommand, TakeControlCommand, ghosts
    <3>5. \A t \in tasks' : t.session # s
      <4>1. PICK gone : TasksFrom(gone, {})
        BY <1>1, <3>3, ControlSteps, CommandSteps DEF TakesCommand, EventStep
      <4> QED BY <3>1, <4>1 DEF TasksFrom
    <3> QED BY <3>1, <3>4, <3>5 DEF Watched
  <2>2. CASE s \in Tracked
    <3>1. Watched(s)
      BY <1>1, <2>2, RenewedGrows, BaitParts
    <3>2. sessions[s].extra \subseteq sessions'[s].extra
      BY <1>1, <2>2, WhoWatches
    <3>3. CASE tasks' = tasks /\ planted' = planted
      BY <3>1, <3>2, <3>3 DEF Watched
    <3>4. ASSUME planted' = planted, NEW gone, gone \cap Tracked' = {}, TasksFrom(gone, {})
          PROVE  Watched(s)'
      <4>1. ASSUME NEW u \in tasks', u.session = s
            PROVE  u.tracked /\ (u.stage = "plant" => s \in sessions[s].extra)
        <5>1. PICK t \in tasks : /\ u.session = t.session /\ u.stage = t.stage
                                 /\ u.tracked = (t.tracked /\ t.session \notin gone)
          BY <3>4, <4>1 DEF TasksFrom
        <5>2. t.session = s /\ s \notin gone /\ t.tracked /\ (t.stage = "plant" => s \in sessions[s].extra)
          BY <1>1, <3>1, <3>4, <4>1, <5>1 DEF Watched
        <5>3. t.tracked /\ t.session \notin gone
          BY <5>2
        <5>4. u.tracked
          BY <5>1, <5>3, Zenon
        <5> QED BY <5>1, <5>2, <5>4
      <4> QED BY <3>1, <3>2, <3>4, <4>1 DEF Watched
    <3>5. ASSUME planted' = planted, NEW gone, gone \cap Tracked' = {}, TasksFrom(gone, {Generate(cur)})
          PROVE  Watched(s)'
      <4>1. Generate(cur).tracked = TRUE /\ Generate(cur).stage = "generate"
        BY DEF Generate
      <4>2. ASSUME NEW u \in tasks', u.session = s
            PROVE  u.tracked /\ (u.stage = "plant" => s \in sessions[s].extra)
        <5>1. PICK t \in tasks \cup {Generate(cur)} :
                  /\ u.session = t.session /\ u.stage = t.stage
                  /\ u.tracked = (t.tracked /\ t.session \notin gone)
          BY <3>5, <4>2 DEF TasksFrom
        <5>2. t.session = s /\ s \notin gone /\ (t.tracked \/ t.tracked = TRUE)
              /\ (t.stage = "plant" => s \in sessions[s].extra)
          BY <1>1, <3>1, <3>5, <4>1, <4>2, <5>1 DEF Watched
        <5>3. t.tracked /\ t.session \notin gone
          BY <5>2, Zenon
        <5>4. u.tracked
          BY <5>1, <5>3, Zenon
        <5> QED BY <5>1, <5>2, <5>4
      <4> QED BY <3>1, <3>2, <3>5, <4>2 DEF Watched
    <3>6. ASSUME NEW t \in tasks, GenerationReturns(t) PROVE Watched(s)'
      <4>1. t \in [session : Sessions, tracked : BOOLEAN, stage : {"generate", "plant"}]
        BY <1>1 DEF BaseInv, TaskInv
      <4> DEFINE u == [t EXCEPT !.stage = "plant"]
      <4>2. u.session = t.session /\ u.tracked = t.tracked
        BY <4>1
      <4> HIDE DEF u
      <4>3. planted' = planted
        BY <3>6 DEF GenerationReturns, ghosts
      <4>4. \/ tasks' = tasks \ {t}
            \/ tasks' = (tasks \ {t}) \cup {u} /\ (t.tracked => t.session \in sessions'[t.session].extra)
        BY <1>1, <3>6, GenerationSteps DEF u
      <4> QED BY <3>1, <3>2, <4>2, <4>3, <4>4 DEF Watched
    <3>7. ASSUME NEW t \in tasks, GeneratedPlanted(t) PROVE Watched(s)'
      BY <3>1, <3>2, <3>7 DEF GeneratedPlanted, Watched
    <3> QED BY <1>1, <3>3, <3>4, <3>5, <3>6, <3>7, WhoSpawns
  <2> QED BY <2>1, <2>2
<1> QED BY <1>1

(* GeneratedBaitIsWatched: whatever expires, closes and comes back while a *)
(* generation is under way, a generated credential in the container is in  *)
(* the tripwire of its session, unless the session's state was made anew.  *)
THEOREM BaitIsWatched == Spec => []GeneratedBaitIsWatched
<1> DEFINE Inv == BaseInv /\ ArmInv /\ TypedInv /\ BaitInv
<1>1. Init => Inv
  <2>1. Init => TypedInv
    BY DEF Init, TypedInv, Met, CommandOf, Tracked
  <2>2. Init => BaitInv
    BY DEF Init, BaitInv, GeneratedBaitIsWatched, Tracked
  <2> QED BY <2>1, <2>2, BaseInit, ArmInit
<1>2. Inv /\ [Next]_vars => Inv'
  BY BaseStep, ArmStep, TypedStep, BaitStep
<1>3. Inv => GeneratedBaitIsWatched
  BY DEF BaitInv
<1> QED BY <1>1, <1>2, <1>3, PTL DEF Spec

-----------------------------------------------------------------------------
(* What the bandit learns.                                                 *)

(* The bookkeeping of an arm, and what makes it last.                      *)
Scored(m) == {d \in DecisionsOf(m) : decisions[d].resolved}

ArmFits(m) ==
    /\ Row(m).total = Earned(Scored(m))
    /\ Row(m).alpha = 10 + Row(m).total
    /\ Row(m).alpha + Row(m).beta = 20 + FullReward * Cardinality(Scored(m))
    /\ Row(m).picked = Cardinality(DecisionsOf(m))

(* A handler about to apply a reward knows the decision is unresolved, and *)
(* one about to store a decision knows the candidates' counts.             *)
Fresh(j) == j.step = "apply" => ~decisions[j.dec].resolved
SeenRight(j) ==
    j.step = "store" =>
        \A a \in Catalog[j.intent] :
            /\ a \in DOMAIN j.seen <=> <<j.intent, a>> \in DOMAIN arms
            /\ a \in DOMAIN j.seen => j.seen[a] = arms[<<j.intent, a>>].picked

Informed == \A w \in Workers : Fresh(work[w]) /\ SeenRight(work[w])
LedgerInv == ~overlapped => Informed /\ \A m \in Arms : ArmFits(m)

(* What decisions earned is a sum.                                         *)
LEMMA RewardsTotal ==
    ASSUME NEW rows, NEW S, IsFiniteSet(S), \A d \in S : rows[d].reward \in Int
    PROVE  MapThenSumSet(LAMBDA d : rows[d].reward, S) = Total([d \in S |-> rows[d].reward], S)
<1> DEFINE g == [d \in S |-> rows[d].reward]
           Solves(f) == f = [s \in SUBSET S |->
              IF s = {} THEN 0
              ELSE rows[CHOOSE x \in s : TRUE].reward + f[s \ {CHOOSE x \in s : TRUE}]]
           solution == CHOOSE f : Solves(f)
<1>1. \A d \in S : g[d] \in Int
  OBVIOUS
<1>2. \A f : Solves(f) <=> SumEquation(f, S, g)
  <2>1. \A s \in SUBSET S : s # {} => g[CHOOSE x \in s : TRUE] = rows[CHOOSE x \in s : TRUE].reward
    <3>1. \A s \in SUBSET S : s # {} => (CHOOSE x \in s : TRUE) \in S
      OBVIOUS
    <3> QED BY <3>1
  <2> HIDE DEF g
  <2>2. \A f : [s \in SUBSET S |->
              IF s = {} THEN 0
              ELSE rows[CHOOSE x \in s : TRUE].reward + f[s \ {CHOOSE x \in s : TRUE}]]
             = [s \in SUBSET S |->
              IF s = {} THEN 0
              ELSE g[CHOOSE x \in s : TRUE] + f[s \ {CHOOSE x \in s : TRUE}]]
    BY <2>1
  <2> QED BY <2>2 DEF SumEquation
<1>3. PICK iter : SumEquation(iter, S, g) /\ Total(g, S) = iter[S]
  <2> HIDE DEF g
  <2> QED BY <1>1, TotalSolved
<1>4. Solves(solution)
  <2>1. \E f : Solves(f)
    <3> HIDE DEF Solves, g
    <3> QED BY <1>2, <1>3
  <2> HIDE DEF Solves
  <2> QED BY <2>1, Zenon
<1>5. MapThenSumSet(LAMBDA d : rows[d].reward, S) = solution[S]
  BY DEF MapThenSumSet, MapThenFoldSet
<1>6. solution[S] = iter[S]
  <2> HIDE DEF solution, g, Solves
  <2>1. SumEquation(solution, S, g)
    BY <1>2, <1>4
  <2> QED BY <2>1, <1>1, <1>3, SumSame
<1> HIDE DEF solution, g
<1>7. MapThenSumSet(LAMBDA d : rows[d].reward, S) = Total(g, S)
  BY <1>3, <1>5, <1>6
<1> QED BY <1>7 DEF g

LEMMA ScoredFacts ==
    ASSUME StoreInv, NEW m
    PROVE  /\ IsFiniteSet(DecisionsOf(m)) /\ IsFiniteSet(Scored(m))
           /\ Scored(m) \subseteq DecisionsOf(m) /\ DecisionsOf(m) \subseteq DOMAIN decisions
           /\ \A d \in DOMAIN decisions : decisions[d].reward \in 0..FullReward
<1>1. IsFiniteSet(DOMAIN decisions)
  <2>1. DOMAIN decisions = 1..Len(decisions) /\ Len(decisions) \in Nat
    BY DEF StoreInv
  <2> QED BY <2>1, FS_Interval
<1>2. Scored(m) \subseteq DecisionsOf(m) /\ DecisionsOf(m) \subseteq DOMAIN decisions
  BY DEF Scored, DecisionsOf
<1>3. \A d \in DOMAIN decisions : decisions[d].reward \in 0..FullReward
  <2>1. \A d \in DOMAIN decisions : decisions[d] \in Decision
    BY DEF StoreInv
  <2> QED BY <2>1 DEF Decision
<1> QED BY <1>1, <1>2, <1>3, FS_Subset

Rewards(ds) == [d \in ds |-> decisions[d].reward]

LEMMA EarnedTotal ==
    StoreInv => \A S \in SUBSET DOMAIN decisions : Earned(S) = Total(Rewards(S), S)
<1> SUFFICES ASSUME StoreInv, NEW S \in SUBSET DOMAIN decisions
             PROVE  Earned(S) = Total(Rewards(S), S)
  OBVIOUS
<1>1. IsFiniteSet(S)
  <2>1. DOMAIN decisions = 1..Len(decisions) /\ Len(decisions) \in Nat
    BY DEF StoreInv
  <2>2. IsFiniteSet(DOMAIN decisions)
    BY <2>1, FS_Interval
  <2> QED BY <2>2, FS_Subset
<1>2. \A d \in S : decisions[d].reward \in Int
  BY ScoredFacts
<1>3. MapThenSumSet(LAMBDA d : decisions[d].reward, S) = Total([d \in S |-> decisions[d].reward], S)
  BY <1>1, <1>2, RewardsTotal
<1> QED BY <1>3 DEF Earned, Rewards

LEMMA EarnedAfter == ASSUME StoreInv' PROVE
    \A S \in SUBSET DOMAIN decisions' : Earned(S)' = Total(Rewards(S)', S)
<1>1. (StoreInv => \A S \in SUBSET DOMAIN decisions : Earned(S) = Total(Rewards(S), S))'
  BY EarnedTotal, PTL
<1> QED BY <1>1

LEMMA ScoresKept ==
    ASSUME StoreInv, StoreInv', NEW m, Scored(m)' = Scored(m),
           \A d \in Scored(m) : decisions'[d].reward = decisions[d].reward
    PROVE  Earned(Scored(m))' = Earned(Scored(m))
<1>0. Scored(m) \subseteq DOMAIN decisions /\ Scored(m)' \subseteq DOMAIN decisions'
  BY DEF Scored, DecisionsOf
<1>1. Earned(Scored(m))' = Total(Rewards(Scored(m))', Scored(m)')
  BY <1>0, EarnedAfter
<1>2. Earned(Scored(m)) = Total(Rewards(Scored(m)), Scored(m))
  BY <1>0, EarnedTotal
<1>3. Rewards(Scored(m))' = Rewards(Scored(m))
  BY DEF Rewards
<1> QED BY <1>1, <1>2, <1>3

LEMMA ArmKept ==
    ASSUME StoreInv, StoreInv', NEW m, ArmFits(m), Row(m)' = Row(m), DecisionsOf(m)' = DecisionsOf(m),
           \A d \in DecisionsOf(m) : decisions'[d] = decisions[d]
    PROVE  ArmFits(m)'
<1>1. Scored(m)' = Scored(m)
  BY DEF Scored
<1>2. Earned(Scored(m))' = Earned(Scored(m))
  BY <1>1, ScoredFacts, ScoresKept
<1> QED BY <1>1, <1>2 DEF ArmFits

LEMMA TablesKept ==
    ASSUME StoreInv, StoreInv', \A m \in Arms : ArmFits(m), decisions' = decisions, arms' = arms
    PROVE  \A m \in Arms : ArmFits(m)'
<1>1. \A m : Row(m)' = Row(m) /\ DecisionsOf(m)' = DecisionsOf(m)
  BY DEF Row, DecisionsOf, ArmOf
<1> QED BY <1>1, ArmKept

(* A reward is added once to the arm of its decision.                      *)
LEMMA RewardFits ==
    ASSUME BaseInv, BaseInv', NEW w \in Workers, ApplyReward(w), Fresh(work[w]),
           \A m \in Arms : ArmFits(m)
    PROVE  \A m \in Arms : ArmFits(m)'
<1> USE DEF BaseInv
<1> DEFINE e == work[w].dec  pay == work[w].pay  n == ArmOf(e)
           new == [Row(n) EXCEPT !.alpha = @ + pay, !.beta = @ + (FullReward - pay),
                                 !.total = @ + pay]
<1>1. work[w] \in Job /\ work[w].step = "apply"
  BY AtWork DEF ApplyReward
<1>2. pay \in 0..FullReward /\ FullReward \in Nat
  BY <1>1 DEF Job, FullReward
<1>3. /\ e \in DOMAIN decisions /\ DOMAIN decisions' = DOMAIN decisions
      /\ decisions'[e].resolved = TRUE /\ decisions'[e].reward = pay
      /\ \A d \in DOMAIN decisions : d # e => decisions'[d] = decisions[d]
  BY ResolvedDecision
<1>4. ~decisions[e].resolved
  BY <1>1 DEF Fresh
<1>5. \A d \in DOMAIN decisions : ArmOf(d)' = ArmOf(d)
  <2>1. decisions' = [decisions EXCEPT ![e].resolved = TRUE, ![e].reward = pay]
    BY DEF ApplyReward
  <2>2. decisions[e] \in Decision
    BY <1>3 DEF StoreInv
  <2>3. decisions'[e].intent = decisions[e].intent /\ decisions'[e].action = decisions[e].action
    BY <1>3, <2>1, <2>2 DEF StoreInv, Decision
  <2> QED BY <1>3, <2>3 DEF ArmOf
<1>6. \A m : DecisionsOf(m)' = DecisionsOf(m)
  BY <1>3, <1>5 DEF DecisionsOf
<1>7. arms' = [m \in DOMAIN arms \cup {n} |-> IF m # n THEN arms[m] ELSE new]
  BY DEF ApplyReward
<1>8. ASSUME NEW m \in Arms, m # n PROVE ArmFits(m)'
  <2>1. Row(m)' = Row(m)
    <3> HIDE DEF n, new
    <3> QED BY <1>7, <1>8 DEF Row
  <2>2. \A d \in DecisionsOf(m) : decisions'[d] = decisions[d]
    BY <1>3, <1>8 DEF DecisionsOf
  <2> QED BY <1>6, <2>1, <2>2, ArmKept
<1>9. ASSUME NEW m \in Arms, m = n PROVE ArmFits(m)'
  <2>1. Row(m) \in Arm /\ ArmFits(m)
    BY RowIsArm
  <2>2. /\ new.alpha = Row(m).alpha + pay /\ new.beta = Row(m).beta + (FullReward - pay)
        /\ new.total = Row(m).total + pay /\ new.picked = Row(m).picked
    BY <1>9, <2>1 DEF Arm
  <2>3. Row(m)' = new
    <3> HIDE DEF new, n
    <3> QED BY <1>7, <1>9 DEF Row
  <2> HIDE DEF new
  <2>4. Scored(m)' = Scored(m) \cup {e} /\ e \notin Scored(m)
    <3>1. e \in DecisionsOf(m)
      BY <1>3, <1>9 DEF DecisionsOf
    <3>2. \A d \in DecisionsOf(m) : d # e => decisions'[d].resolved = decisions[d].resolved
      BY <1>3 DEF DecisionsOf
    <3> QED BY <1>3, <1>4, <1>6, <3>1, <3>2 DEF Scored
  <2>5. Cardinality(Scored(m)') = Cardinality(Scored(m)) + 1 /\ Cardinality(Scored(m)) \in Nat
    BY <2>4, ScoredFacts, FS_AddElement, FS_CardinalityType
  <2>6. Earned(Scored(m))' = pay + Earned(Scored(m))
    <3> DEFINE S == Scored(m)  g == Rewards(S)  h == Rewards(Scored(m))'
    <3>0. S \subseteq DOMAIN decisions /\ Scored(m)' \subseteq DOMAIN decisions' /\ IsFiniteSet(S)
      BY ScoredFacts DEF Scored, DecisionsOf
    <3>1. Earned(Scored(m))' = Total(h, Scored(m)')
      BY <3>0, EarnedAfter
    <3>2. Earned(Scored(m)) = Total(g, S)
      BY <3>0, EarnedTotal
    <3>3. h[e] = pay /\ \A d \in S : h[d] = g[d] /\ g[d] \in Int
      BY <1>3, <2>4, <3>0, ScoredFacts DEF Rewards
    <3> HIDE DEF g, h, S
    <3>4. Total(h, S \cup {e}) = h[e] + Total(h, S)
      <4>1. e \notin S
        BY <2>4 DEF S
      <4>2. \A d \in S \cup {e} : h[d] \in Int
        BY <3>3, <1>2
      <4> QED BY <3>0, <4>1, <4>2, TotalAdds
    <3>5. Total(h, S) = Total(g, S)
      BY <3>0, <3>3, TotalSame
    <3>6. Scored(m)' = S \cup {e}
      BY <2>4 DEF S
    <3> QED BY <3>1, <3>2, <3>3, <3>4, <3>5, <3>6
  <2>7. Earned(Scored(m)) = Row(m).total /\ Row(m).total \in Nat /\ Row(m).alpha \in Nat
        /\ Row(m).beta \in Nat
    BY <2>1 DEF ArmFits, Arm
  <2>8. new.total = Earned(Scored(m))'
    BY <2>2, <2>6, <2>7, <1>2
  <2>9. new.alpha = 10 + new.total
    BY <2>1, <2>2, <2>7, <1>2 DEF ArmFits
  <2>10. new.alpha + new.beta = 20 + FullReward * Cardinality(Scored(m)')
    <3>1. Row(m).alpha + Row(m).beta = 20 + FullReward * Cardinality(Scored(m))
      BY <2>1 DEF ArmFits
    <3> QED BY <3>1, <2>2, <2>5, <2>7, <1>2 DEF FullReward
  <2>11. new.picked = Cardinality(DecisionsOf(m)')
    BY <2>1, <2>2, <1>6 DEF ArmFits
  <2> QED BY <2>3, <2>8, <2>9, <2>10, <2>11 DEF ArmFits
<1> QED BY <1>8, <1>9

(* A stored decision is counted once, whatever the candidates' rows held.  *)
LEMMA DecisionFits ==
    ASSUME BaseInv, BaseInv', NEW w \in Workers, StoreDecision(w), SeenRight(work[w]),
           \A m \in Arms : ArmFits(m)
    PROVE  \A m \in Arms : ArmFits(m)'
<1> USE DEF BaseInv
<1> DEFINE i == work[w].intent
<1>0. PICK e : e = Len(decisions) + 1
  OBVIOUS
<1>1. /\ work[w].step = "store"
      /\ DOMAIN decisions' = DOMAIN decisions \cup {Len(decisions) + 1}
      /\ Len(decisions) + 1 \notin DOMAIN decisions
      /\ decisions'[Len(decisions) + 1].resolved = FALSE
      /\ \A d \in DOMAIN decisions : decisions'[d] = decisions[d]
  BY StoredDecision
<1>2. PICK a \in Catalog[i] :
          /\ decisions' = Append(decisions, [session |-> work[w].session, intent |-> i, action |-> a,
                 at |-> clock, resolved |-> FALSE, reward |-> 0])
          /\ arms' = [m \in DOMAIN arms \cup {<<i, b>> : b \in Catalog[i]} |->
                 IF m = <<i, a>>
                 THEN [Row(m) EXCEPT !.picked =
                           IF a \in DOMAIN work[w].seen THEN work[w].seen[a] + 1 ELSE 1]
                 ELSE Row(m)]
  BY DEF StoreDecision
<1> DEFINE count == IF a \in DOMAIN work[w].seen THEN work[w].seen[a] + 1 ELSE 1
           created == {<<i, b>> : b \in Catalog[i]}
           chosen == <<i, a>>
           new == [session |-> work[w].session, intent |-> i, action |-> a,
                   at |-> clock, resolved |-> FALSE, reward |-> 0]
<1>3. decisions'[e].intent = i /\ decisions'[e].action = a
  <2>1. decisions'[e] = new
    <3> HIDE DEF new
    <3>1. decisions' = Append(decisions, new)
      BY <1>2 DEF new
    <3>2. decisions \in Seq({decisions[d] : d \in DOMAIN decisions} \cup {new})
      BY DEF StoreInv
    <3> QED BY <1>0, <3>1, <3>2, Appended
  <2> QED BY <2>1
<1>4. count = Row(chosen).picked + 1 /\ chosen \in created
  <2>1. /\ a \in DOMAIN work[w].seen <=> chosen \in DOMAIN arms
        /\ a \in DOMAIN work[w].seen => work[w].seen[a] = arms[chosen].picked
    BY <1>1, <1>2 DEF SeenRight
  <2> QED BY <1>2, <2>1 DEF Row, NewArm
<1>5. arms' = [m \in DOMAIN arms \cup created |->
                  IF m = chosen THEN [Row(m) EXCEPT !.picked = count] ELSE Row(m)]
  BY <1>2
<1> HIDE DEF count, created, chosen
<1>6. /\ \A d \in DOMAIN decisions : ArmOf(d)' = ArmOf(d)
      /\ ArmOf(e)' = chosen
  BY <1>0, <1>1, <1>3 DEF ArmOf, chosen
<1>7. e \notin DOMAIN decisions /\ DOMAIN decisions' = DOMAIN decisions \cup {e}
      /\ decisions'[e].resolved = FALSE
  BY <1>0, <1>1
<1>8. \A m : Scored(m)' = Scored(m)
  <2> SUFFICES ASSUME NEW m PROVE Scored(m)' = Scored(m)
    OBVIOUS
  <2>1. \A d \in DOMAIN decisions : d \in Scored(m)' <=> d \in Scored(m)
    BY <1>1, <1>6, <1>7 DEF Scored, DecisionsOf
  <2>2. \A d \in Scored(m)' : d \in DOMAIN decisions
    BY <1>7 DEF Scored, DecisionsOf
  <2>3. \A d \in Scored(m) : d \in DOMAIN decisions
    BY DEF Scored, DecisionsOf
  <2> QED BY <2>1, <2>2, <2>3
<1>9. \A m : Earned(Scored(m))' = Earned(Scored(m))
  <2> SUFFICES ASSUME NEW m PROVE Earned(Scored(m))' = Earned(Scored(m))
    OBVIOUS
  <2>1. \A d \in Scored(m) : decisions'[d].reward = decisions[d].reward
    BY <1>1 DEF Scored, DecisionsOf
  <2> QED BY <1>8, <2>1, ScoresKept
<1>10. ASSUME NEW m \in Arms, m # chosen PROVE ArmFits(m)'
  <2>1. DecisionsOf(m)' = DecisionsOf(m)
    BY <1>6, <1>7, <1>10 DEF DecisionsOf
  <2>2. Row(m)' = Row(m)
    BY <1>5, <1>10 DEF Row
  <2>3. Scored(m)' = Scored(m) /\ Earned(Scored(m))' = Earned(Scored(m)) /\ ArmFits(m)
    BY <1>8, <1>9
  <2> QED BY <2>1, <2>2, <2>3 DEF ArmFits
<1>11. ASSUME NEW m \in Arms, m = chosen PROVE ArmFits(m)'
  <2>1. DecisionsOf(m)' = DecisionsOf(m) \cup {e} /\ e \notin DecisionsOf(m)
    BY <1>6, <1>7, <1>11 DEF DecisionsOf
  <2>2. Cardinality(DecisionsOf(m)') = Cardinality(DecisionsOf(m)) + 1
    BY <2>1, ScoredFacts, FS_AddElement
  <2>3. Row(m)' = [Row(m) EXCEPT !.picked = count]
    BY <1>4, <1>5, <1>11 DEF Row
  <2>4. Row(m) \in Arm /\ ArmFits(m)
    BY RowIsArm
  <2>5. /\ Row(m)'.alpha = Row(m).alpha /\ Row(m)'.beta = Row(m).beta
        /\ Row(m)'.total = Row(m).total /\ Row(m)'.picked = Row(m).picked + 1
    BY <1>4, <1>11, <2>3, <2>4 DEF Arm
  <2>6. Scored(m)' = Scored(m) /\ Earned(Scored(m))' = Earned(Scored(m))
    BY <1>8, <1>9
  <2> QED BY <2>2, <2>4, <2>5, <2>6 DEF ArmFits
<1> QED BY <1>10, <1>11

(* What a handler knows is not disturbed by those that write no table.     *)
LEMMA StillInformed ==
    ASSUME Informed, UNCHANGED <<decisions, arms>>,
           \A w \in Workers : work'[w] = work[w] \/ work'[w].step \notin {"apply", "store"}
    PROVE  Informed'
<1> SUFFICES ASSUME NEW w \in Workers PROVE (Fresh(work[w]) /\ SeenRight(work[w]))'
  BY DEF Informed
<1>1. Fresh(work[w]) /\ SeenRight(work[w])
  BY DEF Informed
<1>2. CASE work'[w] = work[w]
  BY <1>1, <1>2 DEF Fresh, SeenRight
<1>3. CASE work'[w].step \notin {"apply", "store"}
  BY <1>3 DEF Fresh, SeenRight
<1> QED BY <1>2, <1>3

(* The arms: only the handlers that write the decisions write them.        *)
LEMMA WhoLearns ==
    ASSUME BaseInv, [Next]_vars
    PROVE  \/ decisions' = decisions /\ arms' = arms
           \/ \E w \in Workers : BrainStep(w) /\ (ApplyReward(w) \/ StoreDecision(w))
<1>1. CASE Quiet
  BY <1>1, QuietTables DEF tables
<1>2. CASE Post1
  BY <1>2 DEF Post1, PostTrip, PostHit, PostClassify, PostDeclare, PostResolution, tables
<1>3. CASE Replies
  BY <1>3, RepliesFacts DEF tables
<1>4. ASSUME NEW w \in Workers, BrainStep(w) PROVE
          \/ decisions' = decisions /\ arms' = arms
          \/ BrainStep(w) /\ (ApplyReward(w) \/ StoreDecision(w))
  BY <1>4 DEF BrainStep, Handle, LookForPending, JudgeOutcome, CheckUnresolved, ReadArms, StoreConflicts,
     FindToken, InsertToken, RearmToken, RecordAccess, tables
<1>5. ASSUME NEW w \in Workers, DatabaseFails(w) \/ DropReply(w)
      PROVE  decisions' = decisions /\ arms' = arms
  BY <1>5 DEF DatabaseFails, JudgeBlindly, DropReply, tables
<1>6. CASE AnalystDeactivates
  BY <1>6 DEF AnalystDeactivates, Deactivate
<1> QED BY <1>1, <1>2, <1>3, <1>4, <1>5, <1>6, Steps7

(* A handler that is alone in service reads what it then relies on.        *)
LEMMA HandlerInformed ==
    ASSUME BaseInv, OneServed, Informed, NEW w \in Workers, BrainStep(w)
    PROVE  Informed'
<1> USE DEF BaseInv
<1>1. Handled(w) /\ work[w] # Idle /\ Serving(w) /\ Handle(w) /\ work \in [Workers -> Job \cup {Idle}]
  BY BrainSteps DEF BrainStep, StoreInv
<1>2. \A v \in Workers \ {w} : work'[v] = work[v] /\ work[v].step \notin {"apply", "store"}
  BY <1>1 DEF Handled, SameRequest, OneServed, Serving
<1>3. SUFFICES (Fresh(work[w]) /\ SeenRight(work[w]))'
  <2>1. \A v \in Workers \ {w} : (Fresh(work[v]) /\ SeenRight(work[v]))'
    BY <1>2 DEF Fresh, SeenRight
  <2> QED BY <2>1 DEF Informed
<1>a. work[w] \in Job
  BY <1>1
<1>4. CASE CheckUnresolved(w)
  <2>1. decisions' = decisions
    BY <1>4 DEF CheckUnresolved, tables
  <2>2. PICK step : step = IF ~decisions[work[w].dec].resolved THEN "apply"
                           ELSE IF work[w].op = "classify" THEN "pick" ELSE "ok"
    OBVIOUS
  <2>3. GoTo(w, step) /\ step \in Steps \ {"idle"}
    BY <1>4, <2>2 DEF CheckUnresolved, Steps
  <2>4. work'[w].step = step /\ work'[w].dec = work[w].dec
    BY <1>1, <1>a, <2>3, StepSet
  <2> QED BY <2>1, <2>2, <2>4 DEF Fresh, SeenRight
<1>5. CASE ReadArms(w)
  <2> DEFINE i == work[w].intent
             known == {a \in Catalog[i] : <<i, a>> \in DOMAIN arms}
             seen == [a \in known |-> arms[<<i, a>>].picked]
             k == [work[w] EXCEPT !.step = "store", !.seen = seen]
  <2>1. arms' = arms /\ work' = [work EXCEPT ![w] = k]
    BY <1>5 DEF ReadArms, Continue, tables
  <2>2. k.step = "store" /\ k.intent = i /\ k.seen = seen
    BY <1>a DEF Job
  <2>3. work'[w] = k
    <3> HIDE DEF k
    <3> QED BY <1>1, <2>1
  <2>4. \A a \in Catalog[i] : /\ a \in DOMAIN seen <=> <<i, a>> \in DOMAIN arms
                              /\ a \in DOMAIN seen => seen[a] = arms[<<i, a>>].picked
    OBVIOUS
  <2> HIDE DEF k, seen
  <2> QED BY <2>1, <2>2, <2>3, <2>4 DEF Fresh, SeenRight
<1>6. CASE ApplyReward(w) \/ StoreDecision(w)
  <2>1. work'[w].step \in {"pick", "look", "ok"}
    BY <1>6, ResolvedDecision, StoredDecision
  <2> QED BY <2>1 DEF Fresh, SeenRight
<1>7. CASE LookForPending(w) \/ JudgeOutcome(w) \/ StoreConflicts(w) \/ FindToken(w)
           \/ InsertToken(w) \/ RearmToken(w) \/ RecordAccess(w)
  <2>1. work'[w].step \notin {"apply", "store"}
    <3>1. ASSUME NEW k, work' = [work EXCEPT ![w] = k], k.step \notin {"apply", "store"}
          PROVE  work'[w].step \notin {"apply", "store"}
      BY <1>1, <3>1
    <3>2. CASE StoreConflicts(w) \/ InsertToken(w) \/ RearmToken(w) \/ RecordAccess(w)
      <4>1. GoTo(w, "ok") \/ GoTo(w, "error")
        BY <3>2 DEF StoreConflicts, InsertToken, RearmToken, RecordAccess
      <4>2. "ok" \in Steps \ {"idle"} /\ "error" \in Steps \ {"idle"}
        BY DEF Steps
      <4> QED BY <1>1, <1>a, <4>1, <4>2, StepSet
    <3>3. CASE LookForPending(w)
      <4>1. CASE Unresolved(work[w].session) = {}
        <5>1. GoTo(w, "pick") \/ GoTo(w, "ok")
          BY <3>3, <4>1 DEF LookForPending
        <5>2. "pick" \in Steps \ {"idle"} /\ "ok" \in Steps \ {"idle"}
          BY DEF Steps
        <5> QED BY <1>1, <1>a, <5>1, <5>2, StepSet
      <4>2. CASE Unresolved(work[w].session) # {}
        <5> DEFINE step == IF work[w].op = "classify" THEN "judge" ELSE "check"
        <5>1. step \in {"judge", "check"}
          OBVIOUS
        <5>2. \E d : Continue(w, [work[w] EXCEPT !.dec = d, !.step = step])
          BY <3>3, <4>2, Zenon DEF LookForPending
        <5> HIDE DEF step
        <5>3. PICK d : Continue(w, [work[w] EXCEPT !.dec = d, !.step = step])
          BY <5>2
        <5>4. [work[w] EXCEPT !.dec = d, !.step = step].step = step
          BY <1>a DEF Job
        <5> QED BY <3>1, <5>1, <5>3, <5>4 DEF Continue
      <4> QED BY <4>1, <4>2
    <3>4. CASE JudgeOutcome(w)
      <4>1. PICK pay : work' = [work EXCEPT ![w] = [work[w] EXCEPT !.step = "check", !.pay = pay]]
        BY <3>4 DEF JudgeOutcome, Continue
      <4>2. [work[w] EXCEPT !.step = "check", !.pay = pay].step = "check"
        BY <1>a DEF Job
      <4> QED BY <3>1, <4>1, <4>2
    <3>5. CASE FindToken(w)
      <4> DEFINE found == IF work[w].op = "register" THEN RowsOf(work[w].value)
                          ELSE ActiveRowsOf(work[w].value)
                 first == IF found = {} THEN 0 ELSE Min(found)
                 step == IF work[w].op = "register"
                         THEN IF first # 0 /\ tokens[first].active THEN "ok" ELSE "write"
                         ELSE IF found = {} THEN "ok"
                         ELSE IF Cardinality(found) > 1 THEN "error" ELSE "write"
      <4>1. Continue(w, [work[w] EXCEPT !.row = first, !.step = step])
        BY <3>5 DEF FindToken
      <4>2. step \in {"ok", "write", "error"}
        OBVIOUS
      <4> HIDE DEF step, first
      <4>3. [work[w] EXCEPT !.row = first, !.step = step].step = step
        BY <1>a DEF Job
      <4> QED BY <3>1, <4>1, <4>2, <4>3 DEF Continue
    <3> QED BY <1>7, <3>2, <3>3, <3>4, <3>5
  <2> QED BY <2>1 DEF Fresh, SeenRight
<1> QED BY <1>1, <1>4, <1>5, <1>6, <1>7 DEF Handle

LEMMA InformedStep ==
    ASSUME BaseInv, UniqueInv, ~overlapped', ~overlapped => Informed, [Next]_vars
    PROVE  ~overlapped /\ Informed'
<1>a. ~overlapped => OneServed
  BY UniqueParts
<1>1. CASE Quiet
  <2>1. UNCHANGED <<decisions, arms, work>> /\ ~overlapped
    BY <1>1, QuietTables DEF tables
  <2> QED BY <2>1, StillInformed
<1>2. CASE Post1
  <2>1. PICK r : Asks(r)
    BY <1>2, PostAsks
  <2>2. UNCHANGED <<decisions, arms>> /\ r.step \in {"look", "find"} /\ Post(r)
    BY <2>1 DEF Asks, tables
  <2>3. CASE call' = Lost /\ UNCHANGED <<work, overlapped>>
    BY <2>2, <2>3, StillInformed
  <2>4. ASSUME NEW w \in Workers, Serve(w, r) PROVE ~overlapped /\ Informed'
    <3>1. ~overlapped
      BY <2>4, Zenon DEF Serve
    <3>2. work \in [Workers -> Job \cup {Idle}]
      BY DEF BaseInv, StoreInv
    <3>3. work'[w] = r /\ \A v \in Workers \ {w} : work'[v] = work[v]
      BY <2>4, <3>2 DEF Serve
    <3> QED BY <2>2, <3>1, <3>3, StillInformed
  <2> QED BY <2>2, <2>3, <2>4 DEF Post
<1>3. CASE Replies
  <2>1. UNCHANGED <<tables, overlapped>> /\ Answered
    BY <1>3, RepliesFacts
  <2>2. \A w \in Workers : work'[w] = work[w] \/ work'[w].step \notin {"apply", "store"}
    <3> SUFFICES ASSUME NEW w \in Workers PROVE work'[w] = work[w] \/ work'[w] = Idle
      BY DEF Idle
    <3>1. CASE w = call
      BY <2>1, <3>1, CourierAssumption DEF Answered, Lost
    <3>2. CASE w # call
      BY <2>1, <3>2 DEF Answered
    <3> QED BY <3>1, <3>2
  <2> QED BY <2>1, <2>2, StillInformed DEF tables
<1>4. ASSUME NEW w \in Workers, BrainStep(w) PROVE ~overlapped /\ Informed'
  <2>1. overlapped' = overlapped
    BY <1>4 DEF BrainStep, Handle, LookForPending, JudgeOutcome, CheckUnresolved, ReadArms, StoreConflicts,
       ApplyReward, StoreDecision, FindToken, InsertToken, RearmToken, RecordAccess
  <2> QED BY <1>4, <1>a, <2>1, HandlerInformed
<1>5. ASSUME NEW w \in Workers, DatabaseFails(w) \/ DropReply(w) PROVE ~overlapped /\ Informed'
  <2>1. \A v \in Workers : work'[v] = work[v] \/ work'[v].step \notin {"apply", "store"}
    <3>1. CASE DatabaseFails(w)
      <4>1. Handled(w) /\ work'[w].step \in {"error", "check"}
        BY <3>1, DatabaseGivesUp, Judges DEF BaseInv
      <4> QED BY <4>1 DEF Handled, SameRequest
    <3>2. CASE DropReply(w)
      BY <3>2, DropSteps DEF Idle
    <3> QED BY <1>5, <3>1, <3>2
  <2>2. UNCHANGED <<decisions, arms, overlapped>>
    BY <1>5 DEF DatabaseFails, JudgeBlindly, DropReply, tables
  <2> QED BY <2>1, <2>2, StillInformed
<1>6. CASE AnalystDeactivates
  <2>1. UNCHANGED <<decisions, arms, work, overlapped>>
    BY <1>6 DEF AnalystDeactivates, Deactivate
  <2> QED BY <2>1, StillInformed
<1> QED BY <1>1, <1>2, <1>3, <1>4, <1>5, <1>6, Steps7

LEMMA LedgerStep == BaseInv /\ UniqueInv /\ LedgerInv /\ [Next]_vars => LedgerInv'
<1> SUFFICES ASSUME BaseInv, UniqueInv, LedgerInv, [Next]_vars, ~overlapped'
             PROVE  Informed' /\ \A m \in Arms : ArmFits(m)'
  BY DEF LedgerInv
<1>1. BaseInv' /\ StoreInv /\ StoreInv'
  <2>1. BaseInv'
    BY BaseStep
  <2> QED BY <2>1 DEF BaseInv
<1>2. ~overlapped /\ Informed'
  BY InformedStep DEF LedgerInv
<1>3. Informed /\ \A m \in Arms : ArmFits(m)
  BY <1>2 DEF LedgerInv
<1>4. CASE decisions' = decisions /\ arms' = arms
  BY <1>1, <1>2, <1>3, <1>4, TablesKept
<1>5. ASSUME NEW w \in Workers, ApplyReward(w) PROVE \A m \in Arms : ArmFits(m)'
  BY <1>1, <1>3, <1>5, RewardFits DEF Informed
<1>6. ASSUME NEW w \in Workers, StoreDecision(w) PROVE \A m \in Arms : ArmFits(m)'
  BY <1>1, <1>3, <1>6, DecisionFits DEF Informed
<1> QED BY <1>2, <1>4, <1>5, <1>6, WhoLearns

LEMMA LedgerInit == Init => LedgerInv
<1> SUFFICES ASSUME Init PROVE Informed /\ \A m \in Arms : ArmFits(m)
  BY DEF LedgerInv
<1>1. decisions = <<>> /\ arms = NoArms /\ \A w \in Workers : work[w] = Idle
  BY DEF Init, StoreInit
<1>2. Informed
  BY <1>1 DEF Informed, Fresh, SeenRight, Idle
<1>3. ASSUME NEW m \in Arms PROVE ArmFits(m)
  <2>1. Scored(m) = {} /\ DecisionsOf(m) = {} /\ Cardinality({}) = 0
    BY <1>1, FS_EmptySet DEF Scored, DecisionsOf
  <2>2. Earned(Scored(m)) = 0
    <3>1. StoreInv
      BY BaseInit DEF BaseInv
    <3>2. Earned({}) = Total(Rewards({}), {})
      BY <3>1, EarnedTotal
    <3>3. Total(Rewards({}), {}) = 0
      BY TotalEmpty
    <3> QED BY <2>1, <3>2, <3>3
  <2>3. Row(m) = NewArm
    BY <1>1 DEF Row, NoArms
  <2> QED BY <2>1, <2>2, <2>3 DEF ArmFits, NewArm, FullReward
<1> QED BY <1>2, <1>3

(* ArmsMatchDecisions: as long as no two requests were ever in service at  *)
(* once, every arm's posterior is its prior and the rewards of its resolved*)
(* decisions, each counted once, and every decision is counted; for any    *)
(* catalogue, sessions, workers, faults and however many decisions.        *)
THEOREM ArmsMatch == Spec => []ArmsMatchDecisions
<1>1. Init => BaseInv /\ UniqueInv /\ LedgerInv
  <2>1. Init => UniqueInv
    BY DEF Init, StoreInit, UniqueInv, Idle, Serving
  <2> QED BY <2>1, BaseInit, LedgerInit
<1>2. BaseInv /\ UniqueInv /\ LedgerInv /\ [Next]_vars => (BaseInv /\ UniqueInv /\ LedgerInv)'
  BY BaseStep, UniqueStep, LedgerStep
<1>3. LedgerInv => ArmsMatchDecisions
  BY DEF LedgerInv, ArmsMatchDecisions, ArmFits, Scored
<1> QED BY <1>1, <1>2, <1>3, PTL DEF Spec

-----------------------------------------------------------------------------
(* What the bandit has learned is not learned again.                       *)

Final(d) ==
    /\ d \in DOMAIN decisions'
    /\ decisions[d].resolved => decisions'[d].resolved
    /\ decisions[d].resolved /\ (~overlapped \/ decisions[d].session \notin hurt) =>
           decisions'[d] = decisions[d]
DecisionsFinal == \A d \in DOMAIN decisions : Final(d)

(* A handler about to score a decision that is scored already is one of a  *)
(* session a request of which failed, and works beside another.            *)
LEMMA ScoredOnce ==
    ASSUME BaseInv, CareInv, LedgerInv, NEW w \in Workers, ApplyReward(w),
           NEW s \in Sessions, s = work[w].session, ~overlapped \/ s \notin hurt
    PROVE  ~decisions[work[w].dec].resolved
<1>1. work[w].step = "apply" /\ OnDecisions(w)
  BY ResolvedDecision DEF OnDecisions
<1>2. CASE ~overlapped
  BY <1>1, <1>2 DEF LedgerInv, Informed, Fresh
<1>3. CASE s \notin hurt
  <2>1. work[w].dec \in Unresolved(s)
    BY <1>1, <1>3 DEF CareInv, OpenInv, Ready
  <2> QED BY <2>1 DEF Unresolved
<1> QED BY <1>2, <1>3

LEMMA ScoresStay ==
    ASSUME BaseInv, CareInv, LedgerInv, [Next]_vars
    PROVE  DecisionsFinal
<1> SUFFICES ASSUME NEW d \in DOMAIN decisions PROVE Final(d)
  BY DEF DecisionsFinal
<1>1. d \in DOMAIN decisions' /\ (decisions[d].resolved => decisions'[d].resolved)
  BY DecisionsGrow
<1>2. ASSUME decisions[d].resolved, ~overlapped \/ decisions[d].session \notin hurt
      PROVE  decisions'[d] = decisions[d]
  <2>1. ASSUME NEW w \in Workers, ApplyReward(w), work[w].dec = d PROVE FALSE
    <3>1. decisions[d].session = work[w].session
      BY <2>1, ResolvedDecision
    <3>2. PICK s \in Sessions : s = work[w].session
      <4>1. StoreInv /\ JobsInv /\ work[w].step # "idle"
        BY <2>1 DEF BaseInv, ApplyReward
      <4> QED BY <4>1, AtWork DEF Job
    <3>3. ~decisions[work[w].dec].resolved
      BY <1>2, <2>1, <3>1, <3>2, ScoredOnce
    <3> QED BY <1>2, <2>1, <3>3
  <2> QED BY <2>1, RewardStays
<1> QED BY <1>1, <1>2 DEF Final

(* resolve_decision: no decision is ever taken back, and none that is      *)
(* resolved is resolved again with another reward, unless both a request of*)
(* its session failed, whose worker may still be at it, and two requests   *)
(* were in service at once.                                                *)
THEOREM DecisionsStand == Spec => [][DecisionsFinal]_vars
<1>1. Init => BaseInv /\ CareInv /\ UniqueInv /\ LedgerInv
  <2>1. Init => UniqueInv
    BY DEF Init, StoreInit, UniqueInv, Idle, Serving
  <2> QED BY <2>1, BaseInit, CareInit, LedgerInit
<1>2. BaseInv /\ CareInv /\ UniqueInv /\ LedgerInv /\ [Next]_vars =>
        (BaseInv /\ CareInv /\ UniqueInv /\ LedgerInv)'
  BY BaseStep, CareStep, UniqueStep, LedgerStep
<1>3. BaseInv /\ CareInv /\ LedgerInv /\ [Next]_vars => DecisionsFinal
  BY ScoresStay
<1> QED BY <1>1, <1>2, <1>3, PTL DEF Spec
=============================================================================
