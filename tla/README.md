# A TLA+ verification of GenAIHoneypot

This directory holds a formal model of the honeypot's control logic: TLA+
modules that are model-checked with TLC on small instances, and theorems about
them that TLAPS proves for every value of the constants.  The models follow the
source line by line in their control (every guard, early return, error path and
the order of effects) and abstract data (addresses, ids, messages) to members of
small sets.

    tlc -workers 2 -config BrokerSafety.cfg MCSessionBroker    # and so on
    tlapm SessionBrokerProofs.tla

## 1. The system

An attacker's SSH connection ends in a proxy, which asks a broker for a container
built for that attacker and bridges the session to it.  What happens in the
session is written to a file as events.  A sidecar tails the file and sends each
event two ways: signed, to the intelligence hub, and to a "brain" that classifies
the attacker's intent and picks decoys, which the broker plants in the
attacker's container.

| Component (source) | State it keeps | Operations | What makes it correct |
|---|---|---|---|
| **Session broker** `honeypot-ecosystem/shared/session-broker/broker.py` | `state.backends` (attacker -> container, address, last_seen), `state.lock`; in Docker: containers, networks, the proxy's attachments | `acquire_session`, `release_session`, `plant_decoys`, `_reaper`, `_startup` | one environment per attacker, never another's; ceiling; idle ones reaped, those let in within the TTL not; lock released; reachable after recreations |
| **Pivot peers** (same file, and `ssh-proxy/peer_gateway.py`) | peer containers and back networks in Docker | `acquire_peer`, `_spawn_peer` | a pivot reaches only its own attacker's peers, gets an address it can use, web node and database come up together, peers are cleaned up |
| **SSH proxy** `ssh-proxy/proxy.py`, `credentials.py` | sessions, credentials handed out | acquire, bridge, release, emit | release is best effort; no session outlives `max_session_seconds` |
| **Event emitter** `ssh-proxy/emitter.py` | the event file | `emit` | whole lines, in order |
| **Shipper** `sidecar/shipper.py`, `watcher.py` | read position (memory and disk), batch, spool directory | drain, read, deliver, spool, restart | at least once, durable, in order |
| **Brain courier** `sidecar/brain_courier.py` | per-session state, queue, pending decision | classify, deploy, tripwire, resolve, expire | one resolution per decision, strongest evidence wins, what is declared planted is planted |
| **Adaptive store** `ai-brain/content-generator/storage/adaptive_store.py`, `core/adaptive_engine.py`, `core/reward.py` | arms (alpha, beta), decisions | select, resolve, feedback | each decision rewarded at most once; alpha + beta counts resolutions |
| **Honeytoken store** `storage/honeytoken_store.py` | token rows | register, check, deactivate | one row per value |
| **SSH sessions and their events** `ssh-proxy/proxy.py`, `peer_gateway.py`, `common/cowrie_events.py`, `experiment.py` | what the next event is stamped with: attacker, arm, sensor, fingerprint | connect, log in, run, resolve the owner of a pivot, close | whose session it is and which arm it is in, although a pivot is known only after its first event |
| **Command recorder** `ssh-proxy/recorder.py` | typed buffer, screen line, one pending command | `feed_input`, `feed_output`, `flush` | what is on record is what the shell took |
| **Hub ingestion** `intelligence_hub/backend/ingest/receiver.py` and `database/` | session rows, alerts, IOC documents, the graph | `process_event` | attribution to attacker and experiment arm; counts, alerts and IOCs agree with what was committed |
| **Retention and scoring** `analytics/retention.py`, `enrichment/` | none | pure functions | two visits of one attacker are a return |
| **Content generation** `ai-brain/content-generator/generators`, `populator`, `validators` | the build of one request, token rows | generate, clean, validate, retry, register, hand over | nothing of the model's own credentials leaves; a profile is whole but for its failures |

Everything in the control plane is Python `asyncio`: a handler runs atomically
between two `await`s, and hands over to others at each `await`.  That decides
the grain of the models: one action per Docker call (`asyncio.to_thread`), per
HTTP request or per lock operation, with all the local computation around it.

### Where it is hard

The full list, at source lines, is `hazards` in PROJECT.json.  In short: state read
before an `await` and used after it (decoys, pivots); evictions, reaping and returning
attackers around the same container; processes that die between two Docker calls or
between saving a position and delivering what it covers; replies that are lost after
the work was done; limits (container ceiling, address pool, a six-hour TTL and
sessions that may outlive it); races of two pivots for one name; a courier that gives
up on a request its brain still serves; several workers over one database; an event
stamped before its session's owner is known; a command read off a terminal; and a
document built from some twenty calls that each may fail.

## 2. Modules

| Module | What it is |
|---|---|
| `AttackerEnvironments` | what the broker promises: build, serve, retire, remove and recover one environment per attacker, with no lock, network or coroutine |
| `SessionBroker` | the broker, its Docker engine, and the proxy as its client; `Environments` instantiates `AttackerEnvironments` under the refinement mapping |
| `PivotPeers` | pivots composed with `SessionBroker` (EXTENDS it; shared process, proxy and containers) |
| `Shipper` | emitter, event file, sidecar shipper, and the hub as the shipper sees it |
| `BrainStore` | the bandit's arms and decisions, the honeytoken table, and the API workers on them |
| `BrainCourier` | the courier, composed with `BrainStore` (EXTENDS it) and the broker's answers |
| `SessionEvents` | what sessions and pivots put on record |
| `Retention` | rows to visits, operators only |
| `HubIngest` | `process_event` and its stores, composed with `SessionEvents` and `Retention` |
| `Recorder` | `CommandReconstructor` and the relay between a keyboard and a shell |
| `DecoyContent` | what the generator does to one text, operators only |
| `DecoyBuild` | one request to the generator, composed with `DecoyContent` |
| `MCSessionBroker`, `MCPivotPeers`, `MCShipper`, `MCBrainCourier`, `MCHubIngest`, `MCRecorder`, `MCDecoyBuild` | the modules TLC is started on: symmetry sets, small catalogues, the drafts of a model, bounds of a run |
| `SessionBrokerProofs` | inductive invariant and safety theorems of the broker; the reaper spares recent sessions; the lock is given back; `SessionBroker` implements `AttackerEnvironments`; reachability, networks and the ceiling |
| `PivotPeersProofs` | the composition implements `SessionBroker`; pivots stay with their attacker, peers come as pairs |
| `ShipperProofs` | nothing lost, duplicates paid for, order |
| `FoldProofs` | lemmas: induction on numbers and finite sets, and what a sum over a finite set is when one value changes or one element comes or goes |
| `HubIngestProofs` | attribution, counts, alerts, graph and IOCs agree with what was committed, and visits with the sessions |
| `BrainCourierProofs` | the courier and the brain's tables: arms, tokens, decisions, evidence, bait |
| `RecorderProofs` | types of the recorder, one command on record for a press of Enter, and the record is what the shell took |
| `DecoyProofs` | what leaves the generator is clean, and a profile that is handed over is whole |

Operators named `...WithoutX`, `...OffByOne` and so on, marked "Mutant", are
wrong versions of the definition that follows them.  They are not part of any
specification; each is a bug one of the properties is known to catch.

### SessionBroker

| Model | Code |
|---|---|
| `backends` | `state.backends`; the order of a Python dict is not used by the code modelled, ties in `Oldest` are a free choice |
| `lock` | `state.lock` (`asyncio.Lock`): a holder, or `Nobody` |
| `pc` | the `await` a task is at: `check` (`_container_alive`), `remove` and `detach` (`_destroy`), `network`, `adopt`, `run`, `attach`, `store`, then `open` while the proxy bridges the session |
| `src`, `cid`, `victim`, `doomed`, `stale`, `now` | local variables of the handlers and of the reaper |
| `entry`, `running`, `builtFor`, `subnet` | Docker: the entry container of each key, its status and label, the key's front network |
| `attached`, `claimed` | the proxy's interfaces and the .21/.31 addresses on them |
| `decoys` | which attackers' decoys a container was given |
| `since`, `deserted` | when a session was let in; whether the proxy still waits for the reply |

`acquire_session` is `AcquireSession` (takes the lock), then `ReuseBackend`,
`MakeRoom` or `EvictOldest`, then `EnsureNetwork`, `AdoptExisting` /
`AdoptReplaces` / `NothingToAdopt`, `CreateContainer`, `AttachProxy`,
`ReplySession`, with one action for every way a step can fail.  `_destroy` is
shared by eviction and reaper: `BeginDestroy`, `ForceRemove` or `RemoveFails` or
`CollectFails`, `DetachProxy`.

Faults are counted (`MaxFaults`) and named (`FaultKinds`): `crash` (the broker
dies; Docker's state stays), `death` (a container exits), `proxy` (the proxy
container is recreated), `timeout` (the proxy gives up waiting), `docker` (a
`DockerException`), `wedge` (an error the code does not catch, such as a closed
connection to the Docker socket).

Abstractions.  Container and network names are 24-bit digests of the attacker's
address; the model takes them as injective.  `acquire_session` while Docker is
unavailable, and the read-only endpoints, change nothing and are left out.
`_container_alive` answers False on any `DockerException`, so a backend that runs may
be popped and adopted again (`NeedsContainer`); `plant_decoys` then touches the
`Backend` object it read, which may no longer be the one in the dict (`WriteFiles`
leaves open which). A container id is never used twice, so `ContainerIds` bounds how
many containers a behaviour creates.  `Tick` lets no session last longer than
`SessionLimit`: the proxy's timeouts on acquiring, connecting and bridging
(`config.py`) end it.  Nothing is assumed of how it compares with the TTL.

The refinement mapping: an attacker's environment (`env`) is the container id in
the dict, `owner` is the label Docker keeps, `standing` the entry containers that
exist, a `session` is a bridged one with its attacker and container, `planted` is
`decoys`.  A reply is `Serve`, a pop is `Retire` (an eviction retires two keys,
a crash all), `_force_remove` is `Remove`, `_reconcile` is `Recover`; lock
operations, networks, time and failed requests are invisible.

### PivotPeers

A pivot (`ppc`, `from`, `want`, `owner`, `node`, `answer`) is a request of the
peer gateway: `Pivot`, then `LookupOwner` or `RefusePivot` under the lock, then,
with no lock, the Docker calls of `_spawn_peer`: the back network is looked up and
created, the peer is found or run, joined to the back network, and a web node's
first spawn goes on to the database.  Each Docker call that can matter to another request
is a step: a peer that is found is started (`StartPeer`) and the proxy attached again
(`AttachAgain`), a new one is run, joined to the back network and reached (`RunPeer`,
`JoinPeer`, `ReachPeer`); a call that fails may have done its work first (`HalfDone`).
`origin` is a ghost: the container the
connection really came from.  A crash of the broker and a recreated proxy are
joint steps (`PivotCrash`, `PivotProxyRecreated`); everything else interleaves.

### Shipper

`file` is every line ever appended; `base` marks where the present file begins,
so a recreated file is `base' = Len(file)` with a new inode.  Offsets count lines
(the code only ever advances by whole lines).  `seen`/`offset` are the read
position in memory, `saved` the one on disk; `todo` is the list of a drain,
`batch` the lines of the pass.  Post and reply are separate steps: the hub may
process a line and the reply still be lost (`HubFails`), or process it after the
sidecar stopped waiting (`TimesOut`, `HubIsLate`).  A line appended to half a
line becomes one `Garbled` line, which the hub answers with 400.  Spool files are
named by millisecond and a random part; files of one millisecond sort at random
(`recent`).  `struck` is a ghost that records the faults the design has no answer
to.  Left out: the backoff's length, signing, blank lines, and what is handed to
the brain courier (it is offered each line once, before delivery).

### BrainStore and BrainCourier

| Model | Code |
|---|---|
| `decisions`, `arms`, `tokens` | `adaptive_decisions`, `adaptive_arms`, `honeytokens`; rewards in tenths |
| `work` | per API worker, the request it serves and the local variables of its handler: a step is one read, or one write with its commit |
| `queue`, `sessions`, `pc`, `cur`, `todo`, `ending` | `BrainCourier.queue`, `.sessions` and where its one coroutine is |
| `call` | the worker that serves the request the courier awaits; `Lost` when its reply will not come |
| `tasks` | `_generate_and_plant` tasks of `_spawn`, which outlive the event that began them |

An event is taken by `TakeClosed`, `TakeControlCommand` or `TakeCommand`; then come
the tripwire (`PostTrip`, `ScoreHit`, `PostHit`), the classification (`PostClassify`,
`Deployed`), planting and declaring (`BrokerAnswers`, `PostDeclare`) and, for states
that are closed or expired, the resolution (`LeaveUnresolved`, `PostResolution`).  The
brain's side is `BrainStep`: `LookForPending`, `JudgeOutcome`, `CheckUnresolved`,
`ApplyReward`, `ReadArms`, `StoreDecision` for a classification, `FindToken` and
`InsertToken` or `RearmToken` for a registration, `RecordAccess` for a check.
`GiveUp` is the client's timeout: the worker goes on.  A command may hold several
watched credentials, which the tripwire takes one after the other (`NextHit`);
`JudgeBlindly` is `reward.py`'s catch-all, which counts unreadable tokens as none.
The tripwire's filter on credentials of less than ten characters is left out: no type
of token that is planted is shorter.  SQLite's rule is the grain: a read takes no
lock, the first write of a transaction takes the only one.  `overlapped` is a ghost:
whether two requests were ever in service at once.  The intent of a session is any
intent, the action any candidate (the sampling of the bandit is a free choice).  Left
out: which files a bundle has, formats, statistics, `reset_all`.

### SessionEvents, Retention and HubIngest

A session is a connection to the perimeter or, in `Pivots`, to a peer.  `stamp` is the
`SessionEventFactory`: what the next event carries.  `Connect` and `ConnectPivot` log
the first event; `ResolveOwner` sets attacker and arm of a pivot later (`Stamped`);
log-in, the handler (`SetProcess`, `Bridge`, `OneShot`, `Refuse`), commands and their
echoes follow in the order the code allows.  A fingerprint is two lines, the client's
version and its key exchange.  The host name an event carries is fixed per session, as
nothing is decided by it; its change when the owner of a pivot is known is not
modelled.  `log` is the order of emission; what happens to the file is `Shipper`'s
business.

`HubIngest` posts the lines of `log` one after the other, and again when a reply
was an error or late, so a second handler (`Handlers`) runs beside the first.  A
handler is at one `await` of `process_event`: `get` and `put` of an IOC, `graph`,
`select`, `commit`.  `rows`, `iocs`, `graph`, `alerts` and `indexed` are what is
stored.  `Updated` sets what SQLAlchemy would: the columns that differ from what
the SELECT returned, over the row as it is now; a "closed" with a duration of zero, which is
falsy in Python, leaves the row open (`Lasted`).  `ThreatScore`, `BaseScore` and
`HasTechnique` are tables of `normalizer.py`, `scorer.py` and `mitre.py`.  The
boost by hour of day is left out: it moves no kind of event over the threshold.
`Visits` are what `BuildVisits` makes of the rows as `api/retention.py` selects
them.

### Recorder

Bytes are tokens (letter, space, key, control character, prompt).  `rec` is the
`CommandReconstructor`; `Press` is `attacker_to_shell`, `ReadOutput` and `EmitCommand`
are `shell_to_attacker`.  A read may end after any line feed or with what there is to
read: what lies before a line feed changes the line only, which no key reads, so the
other places between two characters are left out (`ChunkEnds`).  It may also end
inside an escape sequence, of which `strip_ansi`, applied to each read alone, knows
neither half (`ReadTorn`, `Halves`): bytes of it leak into the line.  `AttackerLeaves`
and `ShellExits` end `_pump` and flush.  The shell and its line editor are not in the
repository: they are modelled the way the byte scripts of `tests/` have them, and
marked external in the map.  `doubt` collects what a session did that the
reconstruction is known not to survive, so that `RecordIsFaithful` says what it does
survive:

| Doubt | Observation |
|---|---|
| `ahead` | a key pressed before the prompt: `_submit` overwrites a pending command whose echo has not come (recorder.py:134), which is then never emitted |
| `guess` | completion or recall behind a prompt that is not parsed: what was typed is reported |
| `tail` | the end of a line erased by an escape sequence: `strip_ansi` drops the sequence and the erased text stays on record |
| `blank` | an empty recall: the recall key's letter is in the typed buffer, so `A` is reported |
| `torn` | a read ended inside an escape sequence: what is left of it stands in the line, the prompt in front of it is no longer parsed, or the line is reported with it |
| `left` | the attacker left while a command was pending or being emitted: a resolved command may be cancelled |

### DecoyContent and DecoyBuild

A text is a sequence of lines, a line its kind (what the regular expressions tell
apart) and the credentials on it, each with whose bytes it is and whether its
provider's pattern still finds it.  Of a private key the pattern is the BEGIN line,
and only that is overwritten: the key under it keeps the model's bytes
(`Regenerated`).  A new AWS secret key that happens to begin with "=" is found again.
`Sanitized`, `RegenerateSecrets`, `SecurityValid`, `RealismValid`, `SyntaxValid` and
`Scrubbed` are the functions of `generators/base.py` and `validators/`; scores are the
code's integers and thresholds.  `DecoyBuild` walks the steps of a profile (`Plan`):
each is written by a model call that may fail (`ModelFails`, with the client's own
retries inside those of `_generate_and_enforce`), or is a token that is generated and
registered (`TokenGenerated`, `TokenFails`, `StoreFails`); `Place` puts values that
were held into the files that need them; the routes hand the result over
(`ReturnDecoys`, `DeployFile`, `ReturnPopulated`, `Return`).  The model is any of the
`Drafts` offered to it.

## 3. What the runs check

| Run | Instance | Shows |
|---|---|---|
| `BrokerSafety` | 2 attackers, 2 sessions, 1 decoy request, 3 container ids, capacity 1, TTL 1, sessions of up to 2, clock to 2, 2 faults of 6 kinds; 1.8 M states | `TypeOK`, `EnvironmentIsolation`, `AddressNamesOwner`, `LockGuardsSection`, `ReaperSparesRecentSessions`, `TrackedNeverRemoved`, `ImplementsEnvironments` |
| `BrokerRecovery` | 2 attackers, 2 sessions, 2 container ids, capacity 1, TTL 0, 1 fault of crash/death/proxy, with fairness | `EntryCeiling`, `BridgedSessionsReachable`, `IdleIsReaped` |
| `PivotSafety` | 2 attackers, 2 pivots, capacity 1, 2 subnets that are reused, and one fault of 7 kinds or one tick of the clock (`OneDisturbance`); 2.5 M states | `PivotTypeOK`, `WebNodeHasDatabase`, `LookupFindsOrigin`, `NoFrontNetworkLeft` |
| `ShipperDelivery` | 2 sessions of 2 events, 2 faults of 7 kinds, with fairness; 0.2 M states | `TypeOK`, `NothingLost`, `DuplicatesNeedFaults`, `OrderedWithoutFaults`, `EveryEventArrives` |
| `BrainLearning` | 2 sessions, 2 workers, 2 commands, a queue of 1, 1 fault of 5 kinds, after which one generation task runs at a time (`OneTaskAfterFault`); 1.4 M states | `TypeOK`, `ArmsMatchDecisions`, `OneRowPerToken`, `StrongestEvidenceWins`, `NoDecisionForgotten`, `ControlArmIsStatic`, `GeneratedBaitIsWatched` |
| `BrainTimeouts` | 1 session, 2 workers, any request timing out, with fairness; 0.6 M states | `CloseSettles` |
| `HubIngest` | two questions (`EitherQuestion`): 4 events of a session and its pivot, 2 handlers, 1 fault of 5 kinds at any step; 6 events of 2 sessions and a pivot over 3 ticks, no faults; 1.0 M states | `HubTypeOK`, `RowKnowsOwner`, `RowIsExact`, `AlertsAreBounded`, `IocRemembers`, `GraphCoversRows`, `VisitsAreReturns` |
| `Recorder` | 5 keys (3 in a doubtful session), commands of at most 2 characters, one read that ends inside an escape sequence (`OneTornRead`); 2.1 M states | `RecorderTypeOK`, `RecordIsFaithful`, `OneRecordPerEnter` |
| `DecoyContent` | one request of each of 14 kinds, 2 failing calls, 3 unusual drafts; every text of one or two lines; 0.6 M states | `DecoyTypeOK`, `NothingOfTheModelLeaks`, `AnswerIsWhole` |
| `PivotRace` | 2 pivots, no faults | **violated**: `ReplyCanBeBridged` |
| `ShipperRestart` | 1 session, one restart | **violated**: `RestartDoesNotSkip` |
| `MixedArm` | a session and a pivot of a control attacker, no faults | **violated**: `NoMixedVisit` |

**Why these bounds.**  With capacity 1 and two attackers every second arrival is an
eviction; two subnets for two keys make a given-back subnet come round again at once;
three container ids allow an attacker to be evicted and to come back while somebody
else still holds the old id; two sessions suffice for one to hold the lock and one to
wait; two faults combine a crash with a failure during recovery. TTL and clock are
just large enough for a backend to be touched, to age and to be reaped.  In
`BrokerSafety` a session may last twice the TTL, so the reaper also meets sessions it
does not spare.  In `PivotSafety` two pivots are needed for every race, and two
attackers with two subnets for ownership; a Docker error while an environment is
removed leaves two containers standing, the case in which a wrong owner could be
found, and a tick lets the reaper in.

`BrainLearning` lets the courier classify after each command and expire a state
after a second, so that the tripwire, a late command, a close and an expiry meet;
two workers are needed for a request that outlives its caller and for every race
of the tables.  Intents and actions are two each: one plants a credential and one
does not, one intent is deeper than the other.

`HubIngest` asks two questions, each within bounds of its own.  What delivery does to
a log: `MaxEvents` counts the lines of the log only, so the one fault may strike
before or after any of them, and a pivot's correction of its owner (its fourth line at
the latest) is handled late, twice, or by two handlers at once.  What becomes of
visits: two perimeter sessions that may overlap or be a return, a pivot that may lie
inside one of them (the case for which `build_visits` keeps the larger end) and
outlive it, and sessions that are never closed; here nothing fails, and lines are
delivered once the log is finished (`DeliveredWhenFinished`: no step of a session
depends on what the hub has done).  Only logs are delivered in which both sessions
came and a pivot's owner was told, with at most the lines that rows' times are made
of.

`Recorder` reaches erasing, completion, recall, a
question and an interrupt on one line with five keys, and `MAX_COMMAND_LEN` with
two characters.  In `DecoyContent` the order of the regular expressions matters
for at most three lines; the generator's two retries are the code's, and two of
the client's (three by default) are enough to succeed after a failure and to give up.

`BrokerSafety`, `BrainLearning`, `BrainTimeouts`, `HubIngest`, `Recorder` and
`DecoyContent` can come to a halt (ids, clock, keys, events and requests run out;
the reaper task may die), and switch the deadlock check off.  Symmetry is only used
in runs without liveness.

**Fairness.**  `SessionBroker`: weak fairness of every step of a request that
holds the lock, of the reaper and of startup: a coroutine whose Docker call
returned is resumed by the event loop.  Taking the lock is strongly fair for the
reaper, because `asyncio.Lock` wakes its waiters first-in first-out.  Nothing is
assumed about attackers, decoys or time.  `Shipper`: weak fairness of the loop,
of the restart, and of a hub that was asked; an outage is a fault, and faults are
finite in number, which says that every outage ends.  `BrainCourier!FairSpec`:
weak fairness of the courier's own steps (a coroutine is resumed when what it
awaits is there, or its client's timeout has passed) and of the workers; nothing
is assumed of attackers, of time or of generation tasks.  `DecoyBuild` states weak
fairness of a request's next step; no property uses it, as none of its runs asks for
liveness.

**Deep properties, in words.**
* `EnvironmentIsolation` covers three ways to reach a wrong container: the dict,
  a reply in flight, and decoys planted with a stale id.
* `AddressNamesOwner` is what makes "decided by the *source* address" sound in
  `acquire_peer`: an address of a network that was given back must not stay in
  the dict.  `LookupFindsOrigin` is the end-to-end statement.
* `ReaperSparesRecentSessions` needs the reaper to read `now` before the list is
  made, the touch on reuse, and the pop before the first `await`.  It claims nothing of a
  session older than the TTL, because the code does nothing for one.
* `LockGuardsSection` is about the error paths: of every request, eviction and sweep, with
  every kind of fault at every step, none ends with the lock in its hands.
* `EntryCeiling` counts containers in Docker, not entries of the dict.
* `NothingLost` and `DuplicatesNeedFaults` bound the shipper from both sides.
* `StrongestEvidenceWins` speaks of decisions that were pending when their session
  used a credential (`proven`, a ghost), and of all the later steps that would
  score them: the next classification, the close, the expiry.  It excuses a
  session one of whose requests failed.
* `NoDecisionForgotten` is what makes the bandit learn: an unscored decision is
  in a state that will score it, also after a full queue dropped the close.
* `ArmsMatchDecisions` and `OneRowPerToken` hold until two requests overlap:
  `resolve_decision`, `select_action` and `register_honeytoken` read and then
  write, with nothing in between that excludes another worker.
* `RowIsExact` and `IocRemembers` hold, likewise, until two handlers overlap;
  `RowKnowsOwner`, `AlertsAreBounded` and `GraphCoversRows` hold throughout.
* `AlertsAreBounded` relates the alerts to what was delivered, not to what was
  committed: none is missing but that of a line under way, and each one too many
  is paid for by a fault, although the hub does not know a line that comes again.
* `VisitsAreReturns` compares visits with the sessions as they happened: the stored
  times, their order and the grouping must all be right for a quiet time of the
  attacker to start a visit, and for nothing else to.
* `NothingOfTheModelLeaks` covers every attempt, as the last one is delivered although
  it never passed validation.  It names the two ways in which bytes of a credential
  the model wrote do leave: the body of a private key, and of two AWS secret keys on
  one line the first.  `AnswerIsWhole` relates the files, the failures and the token
  rows of one answer.

### Findings

1. `PivotRace`: a peer exists before it is on the back network, and
   `acquire_peer` does not hold the lock while it spawns.  A second pivot at that
   moment gets the peer's address on Docker's default network.
2. `ShipperRestart`: the offset is saved before delivery, so a restart inside a
   batch skips lines although the documentation says it does not.
3. `MixedArm`: the first event of a pivot carries the default arm and the hub
   keeps it, so a control attacker who pivots has a mixed visit, which
   `retention.py` says cannot happen while ratio and salt stay.

Further observations, visible in hypotheses and in the models rather than as runs.

* Broker: no code path removes a peer container or a back network.  `broker.py:76`
  says of the TTL "How long a container survives with no active session before
  reaping", but `last_seen` is set when a session is let in, released, or given
  decoys, not while it lasts.  By default the TTL is six hours (`broker.py:77`) and so
  is the cap on a session (`config.py:109`), which begins only after the broker's
  answer and the connection to the container (`config.py:98`, `103`): a session that
  runs to its cap is up to about 50 seconds older than the TTL and can lose its
  container while it is bridged.  With a shorter `SESSION_IDLE_TTL` every long session
  can.  The states in which that happens are part of `BrokerSafety`;
  `ReaperSparesRecentSessions` says which sessions are safe.
* Shipper: a refused line is spooled while the next lines of the batch are still
  sent, so order is lost although its documentation relies on it;
  `EveryEventArrives` excuses a `Garbled` line in the spool, where `drain_spool`
  stops for ever.
* Courier: `plant_decoys` answers 200 with nothing planted when the environment is
  gone, and the bait is declared all the same; an action whose deployment failed
  is not tried again; a failed feedback call forgets a hit; `reward.py` asks
  whether any token of the environment was used since `selected_at`, which has whole
  seconds, so a use just before the decision, or by another session, counts for it.
* Content: the body of a private key stays as the model wrote it, and where the rest
  of the text is valid the file is called valid.  Of two AWS secret keys on one line
  the replacement reaches the last only; the validator notices and the file is
  delivered all the same.  A quoted one is matched by the generic pattern only.  A
  code fence with more than a language name survives, a `Note:` line drops the rest of
  the text, a text of analysis terms only is delivered empty.  A token whose partner
  in a file failed is registered, and reported, without being planted.

## 4. What is proved

All proofs are checked by TLAPS (SMT, Zenon, LS4), for any sets of attackers,
sessions, containers, subnets, workers, handlers, tokens and intents, any capacity,
limit, clock and number of faults.  Each theorem is `Spec => []P`, an action
property, or a refinement; none uses fairness.  The assumptions are named in the
modules and evaluated by TLC in every run: `ConstantsAssumption`,
`DistinctAssumption`, `PivotAssumption`, `ShipperAssumption`,
`SessionsAssumption`, `HubAssumption`, `StoreAssumption`, `CourierAssumption`,
`RecorderAssumption`, `BoundsAssumption`, `RequestAssumption`, `DraftAssumption`,
`NoneAssumption`.  They say that numbers are numbers, that attackers are finitely
many, that there is an intent, that catalogues are total, that null values are not
among the real ones, that a request is for one of the three routes, and that what a
model writes is lines with credentials some pattern finds.
A hypothesis that narrows a theorem is named below.

### The broker and its pivots

* `SessionBrokerProofs!Invariance`: `Spec => []IndInv`.  The properties are not
  inductive: that a bridged session has its own container rests on what the
  request held in `cid` since it adopted or created it, on mutual exclusion in the
  locked section, and on the container being labelled for that key in Docker.
  `IndInv` is therefore `TypeOK` and
  * `Locking`: who is in the locked section holds the lock, so one task is;
  * `RequestInv`: a request past `adopt`/`run` holds a container of its own key,
    and one that builds is not in the dict;
  * `PlanterInv`: the id a decoy request holds was built for its key;
  * `DockerInv`: containers are labelled with the key they are stored under,
    subnets are not shared;
  * `TrackedInv`: tracked backends are their key's, at their key's subnet;
  * `DestroyInv`: victim and doomed container belong together and are untracked.

  There is a lemma per action, and a lemma for the dict operations.
* `TypeCorrect`, `Isolation`, `AddressesUnique`: consequences of `IndInv`.
* `RemovedAreUntracked`: the action property, from `IndInv` and `Next`.
* `SessionBrokerProofs!BrokerImplementsEnvironments`: the refinement, from `IndInv`
  and `EntryInv`: the container in the dict is the one that stands under the
  attacker's name, a request about to answer holds that one, and a broker that is
  down tracks nothing.  Without it `Serve` could not be shown to hand out a
  container that still exists.
* `SessionBrokerProofs!ReaperSpares`: `ReaperSparesRecentSessions`, for any limit on
  sessions, from `TimeInv`: nothing is later than the clock (`ClockInv`); the backend
  of a session let in within the TTL was seen no earlier than the session began
  (`SeenInv`); what the reaper holds as stale, or is destroying, is of no such session
  (`SparedInv`).
* `LockIsGivenBack`: `LockGuardsSection`, from `Locking` and its converse `HeldInv`.
* `SessionBrokerProofs!EntriesAgree`: `EntryInv` always, with `RemoveInv`: what
  `_destroy` is removing is still what its key names.
* `BridgedStayReachable`: `BridgedSessionsReachable`, from `RouteInv`: a request about
  to answer has attached the proxy, and a bridged session stays attached while its
  container stands.  Hypothesis: no `docker` fault.  `_attach_proxy` logs a
  `DockerException` and goes on, so that with one a session is let in unrouted.
* `NetworksGoWithContainers`: `NoFrontNetworkLeft`, from `FreshInv`: until something
  fails, a front network belongs to a tracked key or to one in work, and what is
  tracked runs.
* `CeilingHolds`: `EntryCeiling`, from `CeilingInv`: every container that stands is
  tracked or in work, and a request past its check builds only while the dict is
  below the limit.  Hypothesis: no `docker` or `wedge` fault, with which a container
  that could not be removed is out of the dict and still stands.  Crashes, deaths,
  recreated proxies and time-outs are allowed, as in the run.
* `PivotPeersProofs!PivotImplementsBroker`: `PivotSpec => Spec`, step by step; the
  broker's theorems hold of the composition.
* `PivotsStayHome`: `LookupFindsOrigin`.  It is not inductive: `acquire_peer`
  compares addresses, and the container a pivot comes from may be replaced under
  way.  `PivotInv` says that address, owner and origin of a pivot agree for as long as
  its origin stands; it needs `StandInv` of the broker (a container that runs is
  the one its key names) and that no step of the broker changes what a container
  was built for, or moves one that goes on standing to another subnet (`OriginsKept`).
* `PairsComplete`: `WebNodeHasDatabase`, from `PairInv`: a web node without a
  database has a pivot that has just created it or has gone on to the database.
* `PivotInvariance`: `PivotTypeOK` and these two invariants.

### The shipper

* `ShipperTypes`: `TypeOK` and `ShapeInv`: `todo` is an end of the spool, and the
  line that is posted is the first of `todo` or of `batch`.
* `NothingIsLost`: `NothingLost`.  In the code a line is in one of four places, and
  which one depends on the position, which is kept twice.  `PositionInv` ties the
  saved position to the one in memory; `KeptInv` counts from the one a restart
  would use.  Both stop at `struck`, as the property does.
* `DuplicatesArePaidFor`: `DuplicatesNeedFaults`, by a ledger.  For each event, the
  times the hub had it, the requests it still works on and one if it may yet be sent
  (`Owed`) come to at most one more than the faults (`LedgerInv`).  For that a line
  must be in the file once (`OnceInFile`) and in batch and spool together once,
  and only if it was read (`OnceInHand`).
* `OrderIsKept`: `OrderedWithoutFaults`, from `CalmInv` (the lines before `Done` are
  the hub's and the batch is what follows) and `InOrder` (the file lists each session
  in order).

### The courier and the brain

* `BrainTypes`: `TypeOK` and `BaseInv`: what each handler knows at each of its
  steps (`JobFits`), what the coroutine holds at each `await` (`LoopInv`), that a
  state belongs to its session (`Fits`) and a task's state is tracked (`TaskInv`).
* `ControlStaysStatic`: `ControlArmIsStatic`, from `ArmInv`: the coroutine is in an
  event, and a worker serves a classification or a registration, only for an
  adaptive session.
* `OneRowForEach`: `OneRowPerToken`, from `UniqueInv`: until two requests overlap one
  worker is busy, and one about to insert has found no row.
* `DecisionsAreCaredFor`: `NoDecisionForgotten`.  Its invariant `CareInv` says, of a
  session none of whose requests failed: only the awaited request, or the one just
  given up, is at its decisions (`ExclusiveInv`); at most one decision is unresolved, and
  a handler that has looked knows which (`OpenInv`); what a state holds as pending is
  unresolved until a request settles it (`PendingInv`); an unresolved one has a
  holder (`Cared`).
* `EvidenceWins`: `StrongestEvidenceWins`, from `CareInv` and `ProvenInv`: while the
  tripwire is under way its decision is unresolved and held, so what resolves it is
  the full reward.
* `BaitIsWatched`: `GeneratedBaitIsWatched`, from `ArmInv`, `TypedInv` and `BaitInv`: a
  task whose state was not made anew still has that state, and has put the
  value in its tripwire before it plants it.  `TypedInv` counts commands, to show that
  a state made again is one `renewed` knows of.
* `ArmsMatch`: `ArmsMatchDecisions`, from `LedgerInv`: until two requests overlap, a
  worker about to apply a reward knows that its decision is unresolved (`Fresh`), one
  about to store a decision has read the counts of the candidates (`SeenRight`), and
  every arm is the sum over its decisions.
* `DecisionsStand`: an action property of every step, from `CareInv` and `LedgerInv`:
  no decision is taken back, and none is scored again with another reward, unless a
  request of its session failed and two requests were in service at once.  Both are
  needed: `resolve_decision` selects and updates in two statements, and a
  `/adaptive/feedback` that was given up may still be between them when the session's
  next classification resolves the same decision (TLC finds this with the constants of
  `BrainTimeouts`, but for a clock of 3 and a `Ttl` of 1).  No run lists the property.

### The hub

* `HubTypes`: `HubTypeOK`, with `HeldInv` (a line is committed, to be posted again or
  waited for) and `IndexInv` (commits and handlers at a line are no more than the
  times it was indexed).  Both count attempts of two handlers at once.
* `AlertsBounded`: `AlertsAreBounded`, from `AlertsInv` (the alerts of a line are its
  commits, if it deserves one) and `LoadInv`: the commits there are and may yet be, by
  requests in service and lines in the spool, are no more than the lines and the
  faults.
* `GraphHasCommitted`: `GraphCoversRows`, from `GraphInv`: a handler past `graph` has
  merged all that its event adds.
* `RowsKnowTheirOwner`: `RowKnowsOwner`, from `RowInv`: what a handler has read may be
  old, but a row that it saw owned is still owned, because `Updated` writes only
  what differs from what was read.
* `IocsRemember`: `IocRemembers`, from `AloneInv` (one handler is busy until one was
  given up) and `IocInv`: an IOC of an event is written or still to do, and what is
  about to be written over is what was read.

* `RowsAreExact`: `RowIsExact`, from `AloneInv`, `RowInv` and `ExactInv`: a row's count
  is the commits of its session less one, its score is the maximum, and what a
  handler read is what the row still is.
* `VisitsReturn`: `VisitsAreReturns`, in three parts.  The log is in the order of time
  and a session's first line is its "connect" (`OrderInv`).  Without faults one line
  is at work at a time, in the order of the log (`CleanInv`), so a row started with
  the first line of its session and ended with its last "closed" that lasted, or, of a
  session that is still open or lasted no time, where it started (`TimesInv`); this is
  where the theorem needs that nothing failed.  And `build_visits` makes the visits of
  such rows by the invariant of its loop over the sorted rows (`Loop`): the current
  rows start where the attacker was away and have no such time inside (`Going`), the
  closed visits lie more than the gap before (`Parted`), and nothing is dropped
  (`Together`).  The order among rows that start together does not matter.

### The recorder

* `RecorderTyped`: `RecorderTypeOK`, for a chunk of any length.  What `FoldLeft` does
  is shown on the states after each prefix of the chunk (`FedBytes`, `FedCells`).
* `RecordsAnswerEnter`: `OneRecordPerEnter`, from `EnterInv`: what is recorded, what
  is about to be emitted and the command that is pending come to at most the number
  of times Enter was pressed.  Only Enter makes a command pending, and a line feed
  that emits one clears it.
* `RecordIsKept`: `RecordIsFaithful`, from `FaithInv`, a simulation of the shell's
  line editor by the recorder across the output that is under way.  It says nothing of
  a session with a doubt; in one without, it has four parts until the session ends.
  `ScreenInv`: the states the recorder's line will pass through when the rest of the
  screen is read (`Shows`) end where the shell stands (`Stands`: behind its prompt and
  its buffer, with nothing but blanks behind), and what is recorded, what is about to
  be emitted and what the first line feed on the way will resolve are together what
  the shell took (`Balanced`).  A chunk that is read takes a prefix of those states
  off, wherever it is cut between two cells; a cut inside an escape sequence
  (`ReadTorn`) is a doubt, after which the theorem claims nothing, while
  `RecorderTyped` and `RecordsAnswerEnter` hold across it.  `KeysInv`: an Enter on its
  way to the shell is the last key, its command is pending, and no line feed comes
  before its own.  `PromptInv`: a prompt follows each line feed while the shell waits,
  so that an attacker who sees the last prompt has seen them all.  `TypingInv`: the
  keys typed are inside the line of the shell (`Embedded`; completion adds to the
  shell's line alone), and equal to it where the prompt is not parsed.  This is needed
  because an echo that is blank makes `_resolve` report what was typed: it is then
  blank too.  That `Redraw` turns one line into another is `LineRedrawn`; what is
  reported of a line, `LineIsReported`.

### Content

`DecoyInv` is the types of a build, `BuildOK`, and the two properties below.

* `ModelTextIsClean`: `NothingOfTheModelLeaks`, for drafts of any length.  Sanitizing
  keeps some lines of a text in their order and changes none, which is shown for
  every filter of `DecoyContent` (`LinesAt`: the n-th line kept is the one up to
  which there are n).  Regeneration leaves a credential with the model's bytes only
  where a later one of the same line shadows it, or as the body of a private key
  (`AttemptSafe`), scrubbing takes the
  analysis terms (`ScrubbedSafe`), and every text that is returned went through the one or
  the other.  A line of a file written by a profile is safe (`CleanLines`).
* `AnswersAreWhole`: `AnswerIsWhole`.  The plans of all four profiles are
  `WellPlanned`: a file is made by one step, after all the steps it takes values
  from, and the labels of those steps are its own (`PlansPlanned`, with the export's
  rows at every third place).  `BuildOK` then says, of the steps that are past: each
  file made is there unless one that feeds it failed (`MadeInOrder`,
  `FailedInOrder`), a token that is held was registered, and a row of the export is
  written or one of its values failed, so that rows written and failures together
  are at least as many as rows passed (`ExportTold`).  Handing files over reorders
  them and loses none (`RotationReorders`).
* `DecoyTyped`: `DecoyTypeOK`.

### Model-checked only

* Liveness, because fairness is out of the prover's reach: `IdleIsReaped`,
  `EveryEventArrives`, `CloseSettles`.

No induction theorem of the library can be used with an operator as its parameter,
so induction is done over sets: `FoldProofs` proves that a set of numbers (or of
subsets of a finite set) that is closed under the step contains them all, from
`WellFoundedInduction` in its form with a set, and the folds of the community modules are
unfolded from their definition by `CHOOSE`.

## 5. Not modelled

The intent classifier (a trained model; its answer is an arbitrary intent to
everything behind it), prompts and `consistency.py` (text; nothing imports the
latter), the live feed (pushes that leave no state), the hub's read-only queries and
the dashboard, node images and tools (built offline), TLS, keys and fingerprints
(formatting), the batch upload endpoint, statistics and `reset_all`, and
`summarise` with its uplift (arithmetic over finished visits).

## 6. Plan

Done: the models, the abstract specification `AttackerEnvironments`, and the proofs
of section 4: a theorem for every invariant, action property and refinement that a
passing run checks.  Left for a next version:

1. The hazards of `PROJECT.json` that no property covers, once the code does something
   about them: peer containers and the ceiling, a deployment that failed, a plant that
   is answered `no-active-session`.
2. The live feed's client list, as a model of its own.
3. The three liveness properties, with a prover that has `ENABLED`.
