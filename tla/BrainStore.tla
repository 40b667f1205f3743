----------------------------- MODULE BrainStore -----------------------------
(***************************************************************************)
(* The brain's learning: the bandit's arms and decisions, the honeytoken   *)
(* table, and the HTTP handlers that work on them.                         *)
(*                                                                         *)
(* Models adaptive_store.py, honeytoken_store.py, adaptive_engine.py,      *)
(* reward.py and the routes in front of them.  The API runs several worker *)
(* processes over one SQLite file; a handler is synchronous, so a worker   *)
(* serves one request at a time, but two workers interleave wherever one   *)
(* of them has read and not yet written.  A SELECT takes no lock, the      *)
(* first write of a transaction takes the only write lock and keeps it to  *)
(* the commit: that is the grain of the actions here.                      *)
(*                                                                         *)
(* Rewards are counted in tenths.                                          *)
(***************************************************************************)
EXTENDS Integers, Sequences, FiniteSets, Functions, FiniteSetsExt

CONSTANTS
    Sessions,       \* attacker sessions
    Honeypot,       \* session -> the honeypot_id of its attacker's environment
    Tokens,         \* credentials in the static decoy bundles
    Catalog,        \* intent -> its candidate actions, ACTION_CATALOG; an
                    \* intent is its depth in KILL_CHAIN_ORDER
    Workers,        \* worker processes of the API
    NoToken         \* Python's None

Intents == DOMAIN Catalog
Actions == UNION Range(Catalog)
Arms == {m \in Intents \X Actions : m[2] \in Catalog[m[1]]}

ASSUME StoreAssumption ==
    /\ Intents \subseteq Nat /\ Intents # {}
    /\ DOMAIN Honeypot = Sessions
    /\ NoToken \notin Tokens \cup Sessions
    /\ Tokens \cap Sessions = {}

(* A generated credential is fresh for each session, so the session stands *)
(* for it.  Both kinds of value occur in commands and in the table.        *)
Values == Tokens \cup Sessions

Never == -1
FullReward == 10
Signals == {"honeytoken_triggered", "session_continued", "session_terminated"}

(* SIGNAL_REWARDS                                                          *)
SignalReward(signal) ==
    CASE signal = "honeytoken_triggered" -> FullReward
      [] signal = "session_continued"    -> 4
      [] signal = "session_terminated"   -> 0

(* progression_reward: where on the kill chain did the attacker go next?   *)
ProgressionReward(previous, new) ==
    CASE new > previous -> 7
      [] new = previous -> 4
      [] new < previous -> 2

VARIABLES
    clock,      \* seconds, the resolution of selected_at
    decisions,  \* adaptive_decisions: the rows in the order of their commits
    arms,       \* adaptive_arms: the rows there are
    tokens,     \* honeytokens: the rows in the order of their commits
    work,       \* worker -> the request it serves, or Idle
    overlapped  \* ghost: have two requests ever been in service at once?

tables == <<decisions, arms, tokens>>
storeVars == <<tables, work, overlapped>>

Decision == [session : Sessions, intent : Intents, action : Actions, at : Nat,
             resolved : BOOLEAN, reward : 0..FullReward]
Arm == [alpha : Nat, beta : Nat, total : Nat, picked : Nat]
TokenRow == [value : Values, honeypot : Range(Honeypot), active : BOOLEAN,
             accessed : Nat \cup {Never}]

NewArm == [alpha |-> 10, beta |-> 10, total |-> 0, picked |-> 0]
NoArms == [a \in {} |-> 0]

Idle == [op |-> "idle", step |-> "idle"]

(* A request as its handler receives it.  What follows `value` are the     *)
(* local variables: the pending decision, its reward, the times_selected   *)
(* select_action has read, the token row found, and how many decisions a   *)
(* feedback has resolved.                                                  *)
Request(op, s, intent, pay, value) ==
    [op |-> op, step |-> IF op \in {"classify", "feedback"} THEN "look" ELSE "find",
     session |-> s, intent |-> intent, pay |-> pay, value |-> value,
     dec |-> 0, seen |-> NoArms, row |-> 0]

Steps == {"look", "judge", "check", "apply", "pick", "store", "find", "write",
          "ok", "error", "idle"}

StoreTypeOK ==
    /\ clock \in Nat
    /\ decisions \in Seq(Decision)
    /\ DOMAIN arms \subseteq Arms /\ \A m \in DOMAIN arms : arms[m] \in Arm
    /\ tokens \in Seq(TokenRow)
    /\ overlapped \in BOOLEAN
    /\ \A w \in Workers :
           /\ work[w].step \in Steps
           /\ work[w] # Idle =>
                  /\ work[w].op \in {"classify", "feedback", "register", "check"}
                  /\ work[w].session \in Sessions
                  /\ work[w].intent \in Intents
                  /\ work[w].pay \in 0..FullReward
                  /\ work[w].value \in Values \cup {NoToken}
                  /\ work[w].dec \in 0..Len(decisions)
                  /\ work[w].row \in 0..Len(tokens)

StoreInit ==
    /\ clock = 1
    /\ decisions = <<>>
    /\ arms = NoArms
    /\ tokens = <<>>
    /\ work = [w \in Workers |-> Idle]
    /\ overlapped = FALSE

Serving(w) == work[w].step \notin {"idle", "ok", "error"}

(* A worker takes up a request of a client.                                *)
Serve(w, request) ==
    /\ work[w] = Idle
    /\ work' = [work EXCEPT ![w] = request]
    /\ overlapped' = (overlapped \/ \E v \in Workers : Serving(v))

(* The worker goes on, with changed local variables.                       *)
Continue(w, job) == work' = [work EXCEPT ![w] = job]
GoTo(w, step) == Continue(w, [work[w] EXCEPT !.step = step])

Unresolved(s) == {d \in DOMAIN decisions : decisions[d].session = s /\ ~decisions[d].resolved}

(* The rows of `ds` that ORDER BY selected_at DESC may put first.          *)
Latest(ds) == {d \in ds : \A e \in ds : decisions[e].at <= decisions[d].at}

-----------------------------------------------------------------------------
(* Resolving decisions: decide's first half, and /adaptive/feedback.       *)

(* get_pending_decision.  Without one, classify goes on to choose and      *)
(* feedback is done.                                                       *)
LookForPending(w) ==
    /\ work[w].step = "look"
    /\ LET open == Unresolved(work[w].session) IN
           IF open = {}
           THEN GoTo(w, IF work[w].op = "classify" THEN "pick" ELSE "ok")
           ELSE \E d \in Latest(open) :
                    Continue(w, [work[w] EXCEPT !.dec = d,
                        !.step = IF work[w].op = "classify" THEN "judge" ELSE "check"])
    /\ UNCHANGED <<tables, overlapped>>

(* _honeytoken_triggered: any token of this honeypot, active or not, that  *)
(* was used in the second of the selection or later.  The code looks at    *)
(* the newest 200 rows of the honeypot; no run here makes that many.       *)
HoneytokenTriggered(s, since) ==
    \E r \in DOMAIN tokens :
        /\ tokens[r].honeypot = Honeypot[s]
        /\ tokens[r].accessed # Never
        /\ tokens[r].accessed >= since

(* RewardCalculator.compute                                                *)
ComputeReward(s, d, intent) ==
    IF HoneytokenTriggered(s, decisions[d].at) THEN FullReward
    ELSE ProgressionReward(decisions[d].intent, intent)

JudgeOutcome(w) ==
    /\ work[w].step = "judge"
    /\ Continue(w, [work[w] EXCEPT !.step = "check",
           !.pay = ComputeReward(work[w].session, work[w].dec, work[w].intent)])
    /\ UNCHANGED <<tables, overlapped>>

(* The list of tokens cannot be read: that counts as none triggered, and   *)
(* the request goes on.                                                    *)
JudgeBlindly(w) ==
    /\ work[w].step = "judge"
    /\ Continue(w, [work[w] EXCEPT !.step = "check",
           !.pay = ProgressionReward(decisions[work[w].dec].intent, work[w].intent)])
    /\ UNCHANGED <<tables, overlapped>>

AfterResolve(op) == IF op = "classify" THEN "pick" ELSE "look"

(* resolve_decision selects the row where it is unresolved ...             *)
CheckUnresolved(w) ==
    /\ work[w].step = "check"
    /\ GoTo(w, IF ~decisions[work[w].dec].resolved THEN "apply"
               ELSE IF work[w].op = "classify" THEN "pick" ELSE "ok")
    /\ UNCHANGED <<tables, overlapped>>

ArmOf(d) == <<decisions[d].intent, decisions[d].action>>
Row(m) == IF m \in DOMAIN arms THEN arms[m] ELSE NewArm

(* Mutant: the reward is applied and the row stays unresolved.             *)
ApplyWithoutMark(w) ==
    /\ work[w].step = "apply"
    /\ LET pay == work[w].pay  m == ArmOf(work[w].dec) IN
           arms' = [n \in DOMAIN arms \cup {m} |->
               IF n # m THEN arms[n]
               ELSE [Row(m) EXCEPT !.alpha = @ + pay, !.total = @ + pay,
                                   !.beta = @ + (FullReward - pay)]]
    /\ GoTo(w, IF work[w].op = "classify" THEN "pick" ELSE "ok")
    /\ UNCHANGED <<decisions, tokens, overlapped>>

(* ... then updates it by its key, and reads and updates the arm under the *)
(* write lock.  The update of the row does not ask again.                  *)
ApplyReward(w) ==
    /\ work[w].step = "apply"
    /\ LET d == work[w].dec  pay == work[w].pay  m == ArmOf(d) IN
           /\ decisions' = [decisions EXCEPT ![d].resolved = TRUE, ![d].reward = pay]
           /\ arms' = [n \in DOMAIN arms \cup {m} |->
                  IF n # m THEN arms[n]
                  ELSE [Row(m) EXCEPT !.alpha = @ + pay,
                                      !.beta = @ + (FullReward - pay),
                                      !.total = @ + pay]]
    /\ GoTo(w, AfterResolve(work[w].op))
    /\ UNCHANGED <<tokens, overlapped>>

-----------------------------------------------------------------------------
(* select_action                                                           *)

(* The candidates' arms are read without a lock.  They are created         *)
(* together, so either all of them are there or none is.                   *)
ReadArms(w) ==
    /\ work[w].step = "pick"
    /\ LET known == {a \in Catalog[work[w].intent] : <<work[w].intent, a>> \in DOMAIN arms} IN
           Continue(w, [work[w] EXCEPT !.step = "store",
               !.seen = [a \in known |-> arms[<<work[w].intent, a>>].picked]])
    /\ UNCHANGED <<tables, overlapped>>

(* Arms found missing that somebody else has created in the meantime are a *)
(* violation of the unique constraint: the handler answers 500.            *)
CreationRace(w) ==
    \E a \in Catalog[work[w].intent] :
        a \notin DOMAIN work[w].seen /\ <<work[w].intent, a>> \in DOMAIN arms

(* Any candidate may have the highest draw.  Only times_selected and the   *)
(* new decision are written.                                               *)
StoreDecision(w) ==
    /\ work[w].step = "store"
    /\ ~CreationRace(w)
    /\ \E a \in Catalog[work[w].intent] :
           LET i == work[w].intent
               created == {<<i, b>> : b \in Catalog[i]}
               count == IF a \in DOMAIN work[w].seen THEN work[w].seen[a] + 1 ELSE 1
           IN  /\ decisions' = Append(decisions,
                      [session |-> work[w].session, intent |-> i, action |-> a,
                       at |-> clock, resolved |-> FALSE, reward |-> 0])
               /\ arms' = [m \in DOMAIN arms \cup created |->
                      IF m = <<i, a>> THEN [Row(m) EXCEPT !.picked = count] ELSE Row(m)]
    /\ Continue(w, [work[w] EXCEPT !.step = "ok", !.dec = Len(decisions) + 1])
    /\ UNCHANGED <<tokens, overlapped>>

StoreConflicts(w) ==
    /\ work[w].step = "store"
    /\ CreationRace(w)
    /\ GoTo(w, "error")
    /\ UNCHANGED <<tables, overlapped>>

-----------------------------------------------------------------------------
(* The honeytoken table                                                    *)

RowsOf(v) == {r \in DOMAIN tokens : tokens[r].value = v}
ActiveRowsOf(v) == {r \in RowsOf(v) : tokens[r].active}

(* Mutant: registration too looks for the active row only.                 *)
FindActiveOnly(w) ==
    /\ work[w].step = "find"
    /\ LET found == ActiveRowsOf(work[w].value)
           first == IF found = {} THEN 0 ELSE Min(found)
       IN  Continue(w, [work[w] EXCEPT !.row = first,
               !.step = IF work[w].op = "register" THEN IF first # 0 THEN "ok" ELSE "write"
                        ELSE IF found = {} THEN "ok"
                        ELSE IF Cardinality(found) > 1 THEN "error" ELSE "write"])
    /\ UNCHANGED <<tables, overlapped>>

(* register_honeytoken looks for any row of the value, and has nothing to  *)
(* do if that is active; check_honeytoken looks for the active one, and    *)
(* raises if there are two.                                                *)
FindToken(w) ==
    /\ work[w].step = "find"
    /\ LET found == IF work[w].op = "register" THEN RowsOf(work[w].value)
                    ELSE ActiveRowsOf(work[w].value)
           first == IF found = {} THEN 0 ELSE Min(found)
       IN  Continue(w, [work[w] EXCEPT !.row = first,
               !.step = IF work[w].op = "register"
                        THEN IF first # 0 /\ tokens[first].active THEN "ok" ELSE "write"
                        ELSE IF found = {} THEN "ok"
                        ELSE IF Cardinality(found) > 1 THEN "error" ELSE "write"])
    /\ UNCHANGED <<tables, overlapped>>

(* No row was found: insert one.  Nothing in the table makes it unique.    *)
InsertToken(w) ==
    /\ work[w].step = "write" /\ work[w].op = "register" /\ work[w].row = 0
    /\ tokens' = Append(tokens, [value |-> work[w].value, active |-> TRUE,
           honeypot |-> Honeypot[work[w].session], accessed |-> Never])
    /\ GoTo(w, "ok")
    /\ UNCHANGED <<decisions, arms, overlapped>>

(* An inactive row was found: arm it again, leave its owner and evidence.  *)
RearmToken(w) ==
    /\ work[w].step = "write" /\ work[w].op = "register" /\ work[w].row # 0
    /\ tokens' = [tokens EXCEPT ![work[w].row].active = TRUE]
    /\ GoTo(w, "ok")
    /\ UNCHANGED <<decisions, arms, overlapped>>

RecordAccess(w) ==
    /\ work[w].step = "write" /\ work[w].op = "check"
    /\ tokens' = [tokens EXCEPT ![work[w].row].accessed = clock]
    /\ GoTo(w, "ok")
    /\ UNCHANGED <<decisions, arms, overlapped>>

(* deactivate_honeytoken, by an analyst                                    *)
Deactivate(r) ==
    /\ tokens[r].active
    /\ tokens' = [tokens EXCEPT ![r].active = FALSE]
    /\ UNCHANGED <<decisions, arms, work, overlapped>>

Handle(w) ==
    \/ LookForPending(w) \/ JudgeOutcome(w) \/ CheckUnresolved(w) \/ ApplyReward(w)
    \/ ReadArms(w) \/ StoreDecision(w) \/ StoreConflicts(w)
    \/ FindToken(w) \/ InsertToken(w) \/ RearmToken(w) \/ RecordAccess(w)
=============================================================================
