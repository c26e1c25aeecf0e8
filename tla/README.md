# ZaqorinCore: TLA+ models, checks and proofs

ZaqorinCore is a small security operations platform. Agents on hosts tail logs
and send events to a server over a WebSocket; the server stores the events,
runs detectors over them, writes alerts and response actions, sends the actions
back to the agents as signed commands, delivers alerts to SOAR backends, and
keeps submitted evidence with a signed sidecar. Its HTTP API takes batches of
events from other systems, manages their connectors and the rule files, and is
rate-limited and audited. This directory holds TLA+ modules
of its core, TLC configurations for small instances, and TLAPS proofs.
`PROJECT.json` maps every definition that models code to the lines it stands for.

To repeat a check: `tlc -config <run>.cfg <MC module>`; to repeat a proof:
`tlapm <module>.tla`.

## 1. Inventory

| Part | State | Operations | Talks to | What makes it correct |
|---|---|---|---|---|
| Dispatcher, WebSocket handler (`dispatcher.py`, `api/v1/stream.py`, `detectors/action_service.py`) | `actions` rows, registry host -> connection | tick, send, mark dispatched / applied / failed, register, unregister | agent (frames), database | a row closed as applied was run, with its effect where the kind reports its errors; a tick works on pending rows; a served host is reachable; rows are not starved |
| Agent transport and response (`internal/transport`, `internal/response`) | connection, ids of applied commands | dial, HELLO, read pump, handle, ack, reconnect | server, `nft` | a command runs once per process; acks tell the truth |
| Event ingest (`service/event_service.py`, `streams/publisher.py`) | `events` rows, Redis stream | insert or duplicate, publish, trim | agent, runner | one publication per event; stored events are accounted for |
| Detector runner (`detectors/runner.py`) | consumer group: pending entries, batch | read, load, detect, write alert, write action, ack, Sigma pass | Redis, database | acknowledged means evaluated; one alert per result; errors never block the stream |
| `ssh_bruteforce` detector | sorted set and cooldown key in Redis | trim, add, count, SET NX | runner | results are the bursts outside the cooldown |
| Sigma rule runner (`rule_engine/runner.py`) | window and cooldown keys per rule | EXISTS, trim, count, add, SET, persist | runner, database | the same, per rule, except where two runners race for the cooldown |
| SOAR worker (`soar/worker.py`, `api/v1/soar.py`) | queue, cooldowns, accepted ids, attempt rows, dead-letter files | poll, filter, queue or drop oldest, deliver, retry, give up, replay | database, backends | no alert twice, attempts bounded and recorded, nothing vanishes |
| Evidence (`evidence.py`, `api/v1/evidence.py`) | three files per alert, key ring per process | submit, verify, rotate | an HTTP client | what verifies was accepted; answered evidence verifies where its key is kept |
| SOAR configuration and backends (`soar/config.py`, `soar/backends/`) | none | load and coerce, filter, validate, one HTTP call | SOAR worker | the six backends give the worker the same classes of outcome |
| HTTP ingest (`api/v1/ingest_webhook.py`, `ingest_cloudflare.py`) | `events` rows, lock of the synthetic host's row, stream | translate, upsert host, insert, commit, read back, publish, audit | database, Redis, audit log | the answer counts exactly the committed rows; a batch is stored whole or not at all; none waits for ever |
| Source connectors (`api/v1/sources.py`) | `source_connectors` rows | create (four platforms), rotate, test, delete | database, audit log, ingest endpoint | the key told is the key in force; the audit log tells what happened; deleted stays deleted |
| Rule studio, hunt (`api/v1/rules_studio.py`, `hunt.py`) | files under `rules/` | create, update, delete, test, load | Sigma compiler, engine | readers see whole files; accepted rules compile; an answer is about the rule that was submitted |
| Sigma compiler (`rule_engine/sigma.py`) | none | compile, match, walk | rule runner, studio, hunt | matching is the formula of the condition |
| Rate limiter (`rate_limit.py`), CSP reports (`self_defense/`) | deque of hits per caller, deque of reports per address, bounded stream | allow, prune, throttle, evict, emit | every request | the budgets hold in every rolling window |
| Audit log (`audit.py`) | ring buffer, daily file, its buffer | record, rotate, snapshot | API | both tiers in the same order; no entry vanishes unnoticed |
| Time-limited actions (`internal/response/kinds/ttl_actions.go`) | rules in the kernel, a timer goroutine each | insert, list, delete | `nft`, read pump | containment lasts for the TTL and then ends |
| Other detectors, canaries, other response kinds, tailer, threat engine (`agent/pkg`) | see `PROJECT.json` | | | sections 7 and 8 |

The server is one asyncio event loop per process: handlers, dispatcher, runner
and worker interleave at their `await`s and nowhere else. The agent is Go: read
pump, heartbeat and tailers are goroutines. The hard behaviours follow from
that: state read before an `await` and used after it, two connections of one
host, frames lost or sent again, sequences of Redis commands or file writes that
stop half-way, processes that end between a commit and what should follow it,
and bounded queues and streams. They are listed, each at its line, under
`hazards` in `PROJECT.json`.

## 2. Modules

| Module | Models | Instance | Proofs |
|---|---|---|---|
| `ActionLifecycle` | what the rows of the `actions` table promise (abstract) | | |
| `CommandLoop` | dispatcher, handler, agent: a command and its acknowledgement | `MCCommandLoop` | `CommandLoopProofs` |
| `Containment` | tarpit and isolation rules and the timers that remove them | `MCContainment` | in `CommandLoopProofs` |
| `EventPipeline` | an event from the agent to alerts and actions | `MCEventPipeline` | `EventPipelineProofs` |
| `SshBruteforce` | the detector's Redis commands | `MCSshBruteforce` | `SshBruteforceProofs` |
| `SigmaRunner` | `evaluate` and `persist_fire`, command by command | `MCSigmaRunner` | `SigmaRunnerProofs` |
| `SoarBackends` | configuration and one call of each backend (operators) | with `SoarWorker` | |
| `SoarWorker` | the delivery worker and the replay endpoint, over `SoarBackends` | `MCSoarWorker` | `SoarWorkerProofs` |
| `BatchIngest` | the webhook and the Logpush endpoint | `MCBatchIngest` | in `EventPipelineProofs` |
| `SourceConnectors` | the connector API | `MCSourceConnectors` | `SourceConnectorsProofs` |
| `SigmaRule` | compiler and matcher with a reference definition (operators) | with `RuleStudio` | in `SigmaRunnerProofs` |
| `RuleStudio` | rule files, their writers and readers, over `SigmaRule` | `MCRuleStudio` | in `SigmaRunnerProofs` |
| `AuditLog` | ring and daily file | with `RequestGate` | in `RequestGateProofs` |
| `RequestGate` | limiter, handlers, CSP throttle; composed with `AuditLog` | `MCRequestGate` | `RequestGateProofs` |
| `EvidenceLocker` | submit, verify, rotation, over shared files | `MCEvidenceLocker` | `EvidenceLockerProofs` |

An action is the code between two points where another task, process or the
environment can intervene. Definitions called "Mutant of X" are plausible bugs of
X; `PROJECT.json` says which property catches each.

**CommandLoop.** `status`, `createdAt` are the `actions` table; `autoBlock`,
`dbKey` the `hosts` table; `registry` is `HostConnectionRegistry._conns`;
`phase[c]` is where `ws_agent` stands on connection `c`; `batch`, `snapOn`,
`snapKey` are the rows `_tick` has read with their host columns; `marking` is the
row between `send_text` and the commit of `mark_dispatched`; `toAgent`,
`toServer` are FIFO links. `Tick`, `Skip`, `Send`, `SendReturns`, `SendRaises`,
`MarkDispatched`, `MarkRaises` are `_tick`. `Send` looks the connection up and
awaits `send_text` on it (`sendTo`); when that raises, the host is unregistered
whatever connection its entry holds by then. `Hello`, `Register`, `ReceiveAck`,
`PolicyClose`, `HandlerEnds`, `Unregister` are `ws_agent` up to its finally
clause; `Dial`, `Handle`, `AgentNotices`, `AgentRestart` are the agent;
`PatchAutoBlock` and `RotateSecret` the operator. Faults are counted:
`LinkLoss`, `ServerRestart`, `AgentRestart`, failing row updates, closes by the
frame caps. Signatures are the key they were made with, so a rotated secret
fails where the code's HMAC comparison does. A frame's expiry time is not
modelled. The agent acknowledges as applied whatever made the function of its
kind return nil (`everRun`), which is not the same as having changed the host
(`effect`): a kind in `Lenient` swallows the error of its last call, as `block_ip`
does that of `nft add element`, and on a host in `DryRun`, the default of the
agent, every kind returns nil and does nothing. The other actions are `Strict`.

**Containment.** `chain` is the kernel's rules, a rule being the number of its
command: `nft insert` puts a rule first and a number is used once, so the set says
the order of the list, newest first, and "the first line with the comment" is the
highest number (`Doomed`). `timer[n]` and `listing[n]` are the goroutine `removeRuleAfter` of
command `n`, whose two `nft` calls are `List` and `Delete`. That a comment occurs in
the line of another rule is `Mentions`: the texts themselves are left out, and
`PartOf` says which target's text is part of another's. `until` and `clashed` are
history. A command that is killed while inserting may leave its rule behind
(`InsertFails`). Verification and duplicate suppression in `Handle` are in
`CommandLoop`; the two kinds here return the errors of their calls, so they are
strict ones of an agent that is not in dry-run.

**EventPipeline.** Events are numbers; a connection carries a HELLO and events.
`PersistEvent` is `persist_event` up to its commit (duplicates stop there),
`Publish` / `PublishRaises` the best-effort XADD with trimming, `ReadBatch` the
XREADGROUP, `Load` ... `AckEntry` are `_process_one`, `Sigma` is
`_process_sigma_one`. `ServerStops` cancels the runner where it stands;
`ServerStarts` reads as a new consumer. A detector's answer is the constant
`Fires`, so the pipeline is checked for every position of a failing detector,
alert or action, including the timeout. A commit of `persist_event` that raises
may have been carried out (`PersistRaises`): the row is then stored and never
published, since the agent's repetition stops as a duplicate. An entry whose row
cannot be found or read at load is acknowledged unseen (`LoadFails`). `gone`
records the events that never reach a runner: failed publish, trimmed, commit
carried out although it raised, stop while publishing. `skipped` records the
results lost to an error, a timeout, or a row missing at load.

**SshBruteforce** and **SigmaRunner** are for one dedup key (the code's keys are
independent), each with several runners. Time is whole seconds; Redis keys expire
on that clock. The pipeline of `ssh_bruteforce` is not a transaction, so other
runners' commands may fall between its commands, but no time passes inside it. A
failing call may or may not have been carried out. The scores of `ssh_bruteforce`
are the sender's times (`ts`), which are up to `Skew` before or after the runner's
clock (`came`), so the window is judged by the one and keys expire by the other.
In `SigmaRunner` every Redis command is a step: `beside` records which events two
runners worked on at the same time, and `sets`, `asked` number the cooldowns set,
and those set before a runner's EXISTS, so that a fire knows which other fires it
could have known of.

**SoarWorker.** `todo` is the rest of the poll's loop over rows and backends,
which never awaits, so tasks are blocked while it is not empty. `pc`, `attempt`
are the local state of `_run_one`; an outcome is what `SoarBackends` computes
from the backend's block of `soar.toml` and from what the network does during the
call, as the pair of status code and `dead_lettered` on which the code decides. The cooldown
starts either empty or full: a missing key counts as fired at monotonic time 0.
The name of a dead-letter file holds a second: which one is left open, and the
run has a single one, in which all files of an alert collide. A digest is the set
of fields it covers.

**SoarBackends.** A setting of a backend is absent, bad, or good; a course of the
network is how the webhook's host resolves and what the call ends with. An ASSUME
of `MCSoarWorker` evaluates, over every block and every course, that the six
backends agree on what is a success, final, or open to a retry.

**BatchIngest.** A body is a shape and a sequence of items, each a record that is
stored, one that is rejected, or none at all; the translators are operators on
these. A record keeps the number of its item, since the order of records matters to
nothing but the identity of the rows they become. `pc` is where a handler stands between its awaits: `Arrive...` begins the
transaction (and fixes `received_at`, which PostgreSQL's `now()` takes at its
start), `LockHost` is the upsert of the host row, `Commit` ends the transaction,
`QueryOwn` and `QueryNewest` are the two ways rows are read back. `Resend` is the
upstream pushing again what failed or was not answered; the endpoints do not
deduplicate, so it is a new set of rows.

**SourceConnectors.** A key is named by the handler that generated it. Handlers
read at `Load`, write at their commit the columns they assigned (the counter with
the value computed from what they had read), read again at `Refresh` and answer
with what they read at `Finish`, other handlers' commits lying in between; a
deletion commits at `Delete` and writes its audit entry at `DeleteEnds`. A commit
that raises may have been carried out. The `NameError` of `_ingest_url_for` for
syslog connectors is `IngestUrlRaises`.

**SigmaRule** and **RuleStudio.** A document keeps its blocks, condition, required
fields and defects, an event its metadata, source and raw line; values are small
numbers. A block is the sequence of its keys in the order of the file. `Matches`
follows `matches()` branch by branch, with exceptions as a third answer: the first
key or pattern that decides, or raises, ends the evaluation (`First`), so a bad
regular expression raises only if the keys before it match; `Reference` is the
formula. Handlers of one process never interleave (there is no await), so workers
are processes and their steps are file operations, a deletion being a check and an
unlink; `Edit` is an operator's editor, `Kill` leaves a temporary file. A request is
answered by compiling and reading back what is on disk (`Answer`), which some
documents that compile do not survive (`Unshowable`). `shown` is what the answer
showed; `course` says whether the file was changed by someone else between the
request's own write and its answer. The engine's pass loads no rule at all
(`EngineFires`): `detectors/runner.py:232` hands a `str` to `load_rules_from_dir`,
which calls `exists()` on it.

**AuditLog** and **RequestGate.** `Record` is one step under the lock; its arguments
say which of close, open and flush succeed. The gate composes it with the limiter
in front of every handler: time passes and other requests are served between
`Admit` and the handler. `Alive` is the pruning loop both windows share: it drops
the old prefix of the deque. Both windows run on one clock that never goes back;
the CSP throttle uses `time.time()` (`csp_violation_reporter.py:201`), and a wall
clock that is set back is left out. `Record` fails by `OSError` only, the one error
`audit.py:197` catches; the buffer of lines not yet flushed has no bound.

**EvidenceLocker.** Hashes and HMACs are the values they are taken of. The client is
external and may post anything: nothing in the repository posts evidence in the form
the endpoint takes (section 8). `submit` has an action for each of its three writes,
each of which opens its file truncated, so a failing write or a stop leaves it cut
short (`CutShort`, `Fails`, `Stop`); processes share the directory, while the keys
`rotate()` makes are known to the process that made them only. `alone` and `intact`
follow whether others wrote to the files of a submission, `turns` and `signed` the
rotations since a process started and who signed after how many of them.

## 3. Runs

| Run | Instance | Shows |
|---|---|---|
| `cmd_safety` | one host, two connections, two actions, one of them of a lenient kind, one fault, one rotation | `AppliedWasRun`, `RunOncePerProcess`, `BatchIsPending`, `RegistryEntryHasHandler`; `LifecycleSpec`: the loop implements `ActionLifecycle`; `RegisteredIsServed` when all pending rows fit into one batch |
| `cmd_ack_race` | one action, no fault | *violation* of `AckIsRecorded` |
| `containment` | three addresses, one the prefix of another, and the host; three commands in three seconds, one fault | `ContainedWhileTtl`, `ExpiredIsReleased` |
| `soar_delivery` | two alerts of different severity, a webhook with one retry, Jira without, Slack disabled; queue of one, one slot, one fault | `NoDoubleFire`, `EveryAttemptRecorded`, `Accounted`, `NoPostAfterVerdict`, `QueuedIsSettled` |
| `pipe_events` | three events, two connections, two detectors, stream of one, batches of two, two faults | `AlertedOnce`, `AckedIsEvaluated`, `StoredIsAccounted`, `EntryIsSettled` |
| `ssh_window` | two runners, threshold 2, window 1, event times up to 1 off, four events within seven seconds, one fault | `FiresOnlyOnBurst`, `BurstFires`, `Debounced` |
| `sigma_window` | two runners, two rules (one with a timeframe of zero), three events within two seconds, one fault | `FiresOnlyOnBurst`, `DebouncedUnlessRaced`, `RecordedBurstFires` |
| `evidence_locker` | two processes, one alert, two bundles, two sets of details, two rotations, two faults | `VerifiedWasAccepted`, `AnsweredVerifies` |
| `ingest_batches` | a webhook batch and two Logpush batches, six bodies, four vendors, two faults | `AuditMatchesRows`, `AnsweredIsPublished`, `BatchEnds` |
| `connectors` | four requests, two ids, four platforms, one fault | `AuditTellsAll`, `ToldKeyIsCurrent`, `DeletedStaysDeleted` |
| `rule_studio` | two processes, one id, three requests, six documents, eight events, one fault | `WholeFiles`, `AcceptedCompiles`, `AnswerIsOwn`, `MatchIsReference` |
| `request_gate` | two clients, limit 2 in a window of 3, CSP budget 1 in 2, ring of two, two days, four requests in five ticks, one fault | `BudgetHolds`, `DeniedIsOverBudget`, `TiersAgree`, `EntryAccounted` |

Every module has a `TypeOK` (`TtlTypeOK`, `PushTypeOK`, `StudioTypeOK`). None is an invariant of a run, since it says nothing
that the other invariants would not trip over; section 4 says which are proved.
They can be added to any configuration.

`MCCommandLoop` also defines larger instances for occasional runs of `cmd_safety`:
`OneHostThree` with `Actions = {a1, a2, a3}`, `Signable = {a1, a2}`,
`BatchLimit = 3` (a row that can never be signed among the others; 0.85 million
states) and `TwoHosts`, `TwoHostActions`, `TwoHostConns` with three signable
actions, `BatchLimit = 3` and `MaxKey = 0` (a host that stays away; 1.3 million
states). All properties hold there too.

**Bounds.** Each bound is the smallest at which the case can happen: two
connections are needed for a handler that outlives its connection; three
containments for two of one target beside one that shares its text; a queue of
one for an overflow; a stream of one for trimming; seven seconds for a
cooldown (five windows at least, so five) to run out after a burst, and a skew of a
window for events that overtake one another; two runners to come between the EXISTS
and the SET of a cooldown, or between two writes of evidence; two rotations
to drop a key; two faults, in the pipeline, the evidence and the batches, for a fault
during the recovery from another; two Logpush batches to compete for the host row,
and a webhook batch beside them that must not; four
requests for two rotations of a connector that was created and is deleted
meanwhile; three requests to write a rule in two processes at once after it was
created; a window of three ticks, two of which make a second, so that
`Retry-After` is rounded; a ring of two, so that it is shorter than the file. Deadlock
checking is off where the bounded environment ends (no more events, alerts or
dials); the command loop ticks for ever and is checked for deadlock.

**Fairness.** `CommandLoop`: weak fairness of the dispatcher's steps, of each
handler's step and of each agent's steps: the event loop runs every ready
callback, the ticker never stops, `Client.Run` redials for ever. Faults have
none. `SoarWorker`: weak fairness of the poll, of the drain and of the rows;
strong fairness of each delivery task, since the model disables tasks while the
poller loops and asyncio's semaphore wakes waiters in FIFO order; HTTP calls end
because httpx has a timeout. `EventPipeline`: weak fairness of the runner, of
the handlers and of the restart of a stopped server (a service manager restarts
it). `BatchIngest`: weak fairness of each request's handler; PostgreSQL releases a
row lock when the transaction that holds it ends, and no batch can take it
infinitely often. `Containment`: weak fairness of time and of each timer
goroutine, which the Go runtime wakes and runs.

## 4. What is proved

For every value of the constants (the assumptions are the named `ASSUME`s in the
component modules, which TLC evaluates in the component's run). Three components
share the proof module of a neighbour: `Containment` that of `CommandLoop`,
`BatchIngest` that of `EventPipeline`, `RuleStudio` that of `SigmaRunner`. The two
specifications of such a module have no variable in common; so that one module can
extend both, the general names of the second carry a prefix (`TtlInit`, `TtlNext`,
`TtlSpec`; `Push...`; `Studio...`).

* `CommandLoopProofs`: `TypeCorrect`, `AppliedSafe`, `RunOnce`,
  `BatchStaysPending`, `RegistrySafe` and `ImplementsLifecycle` (every step of
  the loop is a step or a stutter of `ActionLifecycle`). `AppliedWasRun` says of
  every applied row that the kind's function returned nil, and of strict kinds also
  that the action took effect. It is not
  inductive: an ack in flight, or the agent's memory of applied ids, could speak
  of an action that was never run. `IInv` therefore adds that acks and memory
  tell the truth (`EvidenceInv`), that connections carry only commands of their
  own host for existing rows (`ChannelsInv`), that an action run in this process
  is remembered while the memory is below its cap (`MemoryInv`), and that the
  row being marked has left the batch (`TickInv`).
* `CommandLoopProofs`, time-limited actions: `TtlTypes` and `ContainedUntilExpiry`, for any
  targets, overlaps of their texts, commands, failing calls and restarts. That a
  chain is not empty is not inductive, since a timer may take the rule of another
  command. The argument counts: `BackedBy` says that in each chain, for each set of
  targets that no target outside it is a part of (`Closed`), there are at least as
  many rules as timers that run, have listed, or were lost in a restart (`Owed`). A
  command adds one to both; a timer that ends takes one rule at most (`OneIsDoomed`)
  and, of such a set, only if it belongs to it. An unfinished timer therefore has a
  rule (`TimerHasRule`), and a TTL that runs has an unfinished timer (`Handled`). The
  set is the single target when nothing is part of its text, and all targets
  otherwise, which is the difference between the two parts of `ContainedWhileTtl`.
* `ReleasedWhenDone` is the converse, `DoneIsReleased`: for a target whose text
  has nothing in common with another one's there are also no more rules than timers
  (`ExactIn`), as long as no call failed, nothing restarted and no two timers picked
  the same rule, because a timer that has listed its chain has seen a rule of its
  target (`Aimed`, from `TimerHasRule`) and takes the newest of them. It is what
  `ExpiredIsReleased` says without fairness.
* `EventPipelineProofs`: `TypeCorrect`, `AlertsAreUnique`, `AckComesLast`,
  `NothingStoredIsLost`, for any number of events, connections and detectors and
  whatever restarts. That an alert is written once depends on where the event is:
  `OneCopy` says it is being published, in the stream, with a consumer, or
  acknowledged, never two of these, and `BatchPending` that the runner's batch is
  pending and without repetition; `AlertsBehind` then places every alert at or
  before the detector the runner has come to, and `Settled` says what became of
  each result up to there. A server that stops leaves its entries pending: a new
  consumer reads only new ones, which is why a restart does not repeat an alert.
  A row whose commit raised is never published, nor is its repetition, and what an
  unreadable entry would have given counts as skipped before it is acknowledged.
* `EventPipelineProofs`, batches that are pushed: `PushTypes`, `PushesAreAudited` and
  `PushesArePublished`, for any requests, bodies and translators and whatever fails,
  restarts or is pushed again. A count in the audit log is compared with rows that
  were committed several steps before, so `PushInv` follows a request: before its
  commit the push has no row, after it exactly those of its good records, and a push
  that failed has all or none (`AllOrNone`); rows and publications are of pushes
  there were (`Begun`), so a repetition starts from nothing; what is sent and what is
  left to send add up to the good records at every step of the loop (`Adds`); what
  is published is stored, and is the batch's own where its ids were asked for
  (`Sound`). The Logpush receiver reads back the newest rows, so for it only the
  number is shown, as in the run. `HostLocksAreHeld`: the row of a synthetic host is
  locked by exactly the batch whose transaction is open on it (`HostLockIsHeld`),
  which is what `BatchEnds` says without fairness.
* `SoarWorkerProofs`: `TypeCorrect`, `PairsFireOnce`, `AttemptsAreRecorded`,
  `PairsAreAccounted` and the action property `VerdictsAreFinal`, for any alerts,
  backends, configuration and bounds of queue and semaphore. A pair with a task or
  a place in the queue is marked in `_enqueued` and behind the poller (`Marked`),
  the queue repeats none (`QueueDistinct`), and at every await of `_run_one` the
  attempt, the calls made and the rows saved are in step (`TaskCounts`) and the
  last verdict allows what comes next (`TaskVerdict`).
* `SourceConnectorsProofs`: `TypeCorrect`, `KeyInAnswerIsCurrent`,
  `AuditReconstructs` and the action property `DeletionIsFinal`, for any number of
  overlapping requests. The order of commits carries the argument: a row has the
  key committed last (`RowHasLastKey`), a handler that refreshes has committed its
  own (`OwnKeyCommitted`), so it shows its own or a later one; the handler whose
  key is in force has told it, will, or was cut short (`HolderTells`); a row that
  is gone has its deleter (`GoneIsExplained`). `DeletionIsFinal` allows an answer
  about a deleted connector only to a handler that had refreshed before the DELETE,
  which the code cannot prevent.
* `RequestGateProofs`: `GateInv`, `TypeCorrect`, `BudgetsHold`, `DenialsAreDue`,
  `EntriesAccounted`, `TiersInOrder`, for any clients, limits, windows and sizes of
  the ring. Pruning drops the old prefix of a deque, so the deque is a suffix of
  all that was ever accepted (`Tracked`), what it lost is older than a window, and
  the accepted times at distance limit are more than a window apart: that is the
  budget, for every window. The log's files are in the order of their entries, the
  buffer is newer than its file and the ring is increasing (`AuditInv`).
* `SshBruteforceProofs`: `TypeCorrect`, `ResultsDebounced`, `ResultsAreBursts` and
  `BurstsAreResults`, for any number of runners whose commands interleave, any
  failing calls and whatever times the senders set. As long as Redis answers, the
  cooldown key outlives every result by a whole cooldown (`CooldownGuards`), and SET
  NX succeeds only when it is gone. A runner between ZADD and ZCARD is at the present
  second, and what the set holds does not precede its event by a window or was added
  by another runner in that second (`AddedNow`); what came within the cooldown and
  no event with a time a window ahead has trimmed is in the set, whose key lives
  until EXPIRE is due (`RecentLive`); the cooldown key was set by a result
  (`CoolFired`). That the counted events are not newer than the result's event is
  not claimed: section 6.
* `SigmaRunnerProofs`: `TypeCorrect`, `FiresAreBursts`, `FiresDebounced` and
  `BurstsFire`, for any rules, number of runners and failing commands. The cooldown
  is an EXISTS and a later SET, so two runners can fire within it; `FiresDebounced`
  says that this is the only way. The key outlives every fire (`Cooled`), and a
  runner that found it gone knows that every fire whose SET came before its EXISTS
  is a cooldown old (`Asked`). For the counts, event times are monotonic (`Ordered`),
  two runners never work on one event and `beside` has the events they had at the
  same time (`Overlaps`), a sorted set has lost only what is outside the timeframe of
  some event (`Windows`), and `Steps` bounds ZCARD + 1 from both sides between two
  commands of a runner: by the recorded events of the timeframe and by those plus
  the events worked on beside.
* `SigmaRunnerProofs`, rule files: `StudioTypes`, `StudioFilesAreWhole`,
  `StudioAcceptsWhatCompiles`, `StudioAnswersItsOwn`, `StudioMatchesReference`, for any
  processes, ids, documents, requests and kills. A half-written file exists, as the
  temporary file of a worker, so `NoTornFiles` is about the rule directories only and
  rests on what a worker at each step has in its temporary file (`AtWork`); two
  workers never serve one request (`OneWorkerEach`); and the last writer of an id has
  its document on disk, which compiles from the moment it is read back (`Written`).
  `StudioAnswersItsOwn` needs that the file of a request nobody crossed is still its
  own (`Alone`), which a change by another process keeps because it marks every
  request at work on that id (`Crosses`, `Keeps`). The theorem about matching takes
  blocks and lists of filters of any length: the answer of `First` is that of the
  least index that does not pass (`FirstAnswers`, from `LeastNatural`), and a rule
  raises only if a block its condition names holds something that raises.
* `EvidenceLockerProofs`: `VerifiedSafe` and `AnsweredSafe`, for any number of
  processes writing the same alert, failing writes, stops and edits. A sidecar under
  way was accepted (`UnderWayAccepted`), and every signature on disk is of an
  accepted sidecar (`SignedAccepted`), so a sidecar that matches its signature was
  accepted, however writes interleave. For the converse, what a submit nobody
  interfered with has written so far is on disk (`Progress`), answered files nobody
  wrote to are whole (`IntactWhole`), and the key of a signature is still in a
  process that made it up to one rotation ago, or in every process that has rotated
  at most once if it is the configured one (`Held`, `Signer`).

Every inductive invariant was checked by TLC on the run's instance before it was
proved. No theorem has a hypothesis beyond the assumptions on the constants.

**Only model-checked:** liveness (`RegisteredIsServed`, `QueuedIsSettled`,
`EntryIsSettled`, `BatchEnds`, `ExpiredIsReleased`), since fairness and ENABLED are
out of the prover's reach. The agreement of the six backends is an ASSUME over a finite
table of outcomes, which TLC evaluates. All safety properties of the runs, invariants
and action properties, have a theorem.

## 5. Finding with a run

`cmd_ack_race`, quoted with its lines in `PROJECT.json`: the ack can be read before
`mark_dispatched` commits; `mark_applied` then matches no row, and the row stays
`dispatched`.

## 6. Further statements of the documentation that the models refute

These are defined in the modules and not part of a run. Putting the definition as
the only INVARIANT (PROPERTY for the action and temporal formulas) into the
configuration named, with the constants changed as said, gives the counterexample.

| Definition | Says | Code | Configuration |
|---|---|---|---|
| `RegisteredIsServed` | `dispatcher.py:8-10`: the row is tried again on the next tick | `dispatcher.py:234`: sixteen older rows that cannot be sent fill every batch | `cmd_safety`, `Signable = {a1}`, `BatchLimit = 1`, `MaxFaults = 0` |
| `CommandLoop!ServingIsRegistered` | `dispatcher.py:3-4`: a host is registered on connect and unregistered on disconnect | `stream.py:358`, `dispatcher.py:261`: the finally clause of an old connection, or a send that fails on it, unregisters the host's new one | `cmd_safety` |
| `CommandLoop!AppliedTookEffect` | `action_service.py`: `applied` closes the row, read as: the action is in force | `kinds.go:118-123`: a failing `nft add element` of `block_ip` returns nil; under `dry_run`, the default (`config.go:48`), every kind does | `cmd_safety` |
| `Containment!RemovedAtExpiry` | `kinds.go:134`: "the rule is removed when ttl expires" | `ttl_actions.go:102`: two timers of one target that list before either deletes pick the same rule, and the other rule stays | `containment` |
| `Containment!AllContainedWhileTtl` | the same, read as not before | `ttl_actions.go:91`: the comment of 10.0.0.1 occurs in that of 10.0.0.10, whose rule goes with it | `containment` |
| `SoarWorker!NeverSilentlyLost` | `soar/worker.py:588-593`: an alert is never silently lost when the worker cannot keep up | `soar/worker.py:703`: an overflowing queue writes no file for a backend that retries | `soar_delivery` |
| `SoarWorker!GivenUpIsDeadLettered` | `soar/worker.py:500`: given up, so dead-lettered | a webhook host that fails to resolve once is final and, with retries configured, leaves no file | `soar_delivery` |
| `SoarWorker!ReplayAccepted` | `api/v1/soar.py:173-174`: verifies, then re-enqueues | `soar/worker.py:668`: the digest covers `_file` and `_path`, so every replay answers 409 | `soar_delivery` |
| `SoarWorker!DeadLetterStays` | `docs/PHASE13-soar.md:83-84`: one file per dead letter | `soar/worker.py:532`: backends giving up on one alert in one second share a name | `soar_delivery`, `MaxAlert = 1`, `MaxFaults = 0`, queue, drain and semaphore 2 |
| `SoarWorker!Debounced` | `docs/PHASE13-soar.md:520`: `cooldown_sec` debounces | `soar/worker.py:311`: looked up when queued, set when delivered | `soar_delivery`, `MaxFaults = 0`, queue, drain and semaphore 2 |
| `EventPipeline!HelloFirst` | `docs/PHASE2.md:47`: HELLO is the first frame | `transport.go:108`: `Send` sees the connection before `authenticate` | `pipe_events`, `MaxFaults = 0` |
| `EventPipeline!SigmaFiresPersisted` | `detectors/runner.py:208-210`: fires are persisted | `detectors/runner.py:232`: `rules_dir` is a `str`, and `load_rules_from_dir` calls `exists()` on it; the exception is logged | `pipe_events`, `MaxFaults = 0` |
| `EventPipeline!ShutdownAcksInFlight` | `docs/PHASE3.md:100-103`: in-flight messages are acknowledged on shutdown | `detectors/runner.py:304`: cancellation ends the loop at its await | `pipe_events` |
| `SshBruteforce!FiresOnlyInWindow` | `ssh_bruteforce.py:3-6`: threshold inside the window | `ssh_bruteforce.py:94`: a late event is counted with newer ones | `ssh_window` |
| `SigmaRunner!Debounced` | `rule_engine/runner.py:7`: "cooldown key (NX/SET)"; `docs/PHASE2.md:78`: replicas side by side | `rule_engine/runner.py:115,132`: EXISTS, then a plain SET | `sigma_window` |
| `SigmaRunner!AllMatchesCount` | `rule_engine/runner.py:9-13`: all matching events of the timeframe count | `rule_engine/runner.py:132`: those of a cooldown are not recorded | `sigma_window` |
| `SigmaRunner!FireIsPersisted` | `rule_engine/runner.py:15-18`: a fire inserts an alert | `rule_engine/runner.py:139`: the cooldown is set first | `sigma_window` |
| `EvidenceLocker!RotationKeepsEvidence` | `docs/HN-LAUNCH.md:30-32`: old keys are retained | `evidence.py:144`: only the last one is | `evidence_locker` |
| `EvidenceLocker!VerifiedHoldsBundle` | `evidence.py:31-33`: any change to the tarball invalidates the chain | `evidence.py:236`: `verify` never looks at the bundle | `evidence_locker` |
| `BatchIngest!RequeriesOwnRows` | `ingest_cloudflare.py:531`: the just-committed rows are read back | `ingest_cloudflare.py:561`: the newest rows are, which may be those of another batch | `ingest_batches`, `MaxPushFaults = 0` |
| `BatchIngest!EveryItemCounted` | `ingest_webhook.py:464`: malformed items count as rejected | items that are no mapping, and envelopes of another vendor, are not counted | `ingest_batches`, `MaxPushFaults = 0` |
| `SourceConnectors!CounterNeverFalls` | `models/source.py:46`: monotonically increasing counter | `sources.py:951`: a test writes what it had read plus one | `connectors` |
| `SourceConnectors!RotationTold` | `sources.py:1088`: the fresh secret is returned exactly once | `sources.py:513`: `NameError` for syslog, after the commit | `connectors` |
| `RuleStudio!RejectedIsNotOnDisk` | `rules_studio.py:618-619`: compiled before the disk is touched | written first, and left there when rejected | `rule_studio` |
| `RuleStudio!AnswerIsAlwaysOwn` | `rules_studio.py:608`: a new rule is validated, persisted and answered | the file is read back, and another process may have written it meanwhile | `rule_studio` |
| `RuleStudio!WalkSurvives` | `sigma.py:427`: one bad rule does not take the engine down | `sigma.py:358`: `int()` raises `ValueError` out of the walk, in a hunt and in a reload | `rule_studio` |
| `RuleStudio!BenchIsProduction` | `rules_studio.py:18-20`: bench and production behave identically | `detectors/runner.py:232`: the engine loads no rule, so nothing a bench matches fires | `rule_studio` |
| `RuleStudio!HuntIsLive` | `hunt.py:16`: same matching | four missing fields are filled in with "" | `rule_studio` |
| `RequestGate!AdviceSuffices` | `rate_limit.py:213-214`: rounded up so that the client does not come too early | a hit exactly a window old still counts | `request_gate` |

Where the code gives something up by design no property claims otherwise: what was
queued for SOAR delivery when the worker stops, and rules in the kernel whose agent
restarted or whose removal failed. Hazards of this kind have a note instead of a
property.

## 7. Plan

What remains, in order:

1. The other response kinds of the agent, `block_ip` first: that it answers a failing
   `nft add element` as applied is in `CommandLoop` (`Lenient`), but not its set and
   the expiry of its elements, which is left to the kernel.
2. `Tailer` and backoff of the transport; canary watcher and registry.
3. `ThreatEngine`: session state machines, timing statistics and deception of
   `agent/pkg`.

## 8. Not modelled

Payload formats, HTTP, TOML and SQL details; install scripts and other text made
from settings; the web console, migrations, rule data and packaging; the platform
sources of the agent (eBPF, Windows event log); read-only API routes and scans; the
reload sentinel of the rule studio, which nothing reads; the agent's package
`internal/evidence`, which only its tests call and whose request has the field
`tarball` where the endpoint requires `tarball_b64` (the response kind
`evidence_capture` writes a bundle and posts nothing). Port scan, DNS tunnel and
auth anomaly read `event.timestamp`, which `ParsedEvent` lacks, and their except
clauses answer with no result, so there is no window of theirs to check. The rest
of what is missing is in the plan; every part is listed with its status under
`components`.
