# TLA+ verification of the OpenClaw gateway

OpenClaw is a personal-assistant gateway: one long-lived Node.js process that
receives messages from chat channels, runs agent turns on them and delivers the
replies. This directory holds TLA+ models of its concurrent core, TLC
configurations that check them, and TLAPS proofs about them. Paths below are
relative to the repository's `src/`; line numbers are those of the modelled
commit. `PROJECT.json` maps every definition to the lines it models.

JavaScript runs one callback at a time. In every module a step is one callback:
the code between two points where control returns to the event loop (an `await`
that suspends, a timer, a signal), or one operation on a file that other
processes see. All interleavings of such steps are explored.

To check a module or its proofs:

    tlc -workers 4 -config MCCommandQueue.cfg MCCommandQueue
    tlapm CommandQueueProofs.tla

## 1. Inventory

### 1.1 Modelled

| Component | State | Operations | What is hard |
|---|---|---|---|
| **Command queue** `process/command-queue.ts` | per lane: FIFO of entries, executing task ids, `maxConcurrent`, `generation`; one `gatewayDraining` flag; promises of drain waits | enqueue, completion, limit change, clear, `resetAllLanes`, `markGatewayDraining`, `waitForActiveTasks` | completions of tasks started before a restart; wake-ups lost when a slot is freed without a pump; limits lowered below the executing count |
| **Gateway run loop** `cli/gateway-cli/run-loop.ts` | lock, server, `shuttingDown`, `restartResolver`, watchdog | start, stop and restart signals, drain, close, respawn or in-process restart, lock release and reacquisition | a signal may arrive at every `await`; starts fail; tasks never settle |
| **Restart scheduler** `infra/restart.ts`, `gateway/server-reload-handlers.ts` | a timer, emission tokens, deferral polls | schedule, defer until idle, emit | polls that outlive the server they were started for |
| **Embedded run registry** `agents/pi-embedded-runner/runs.ts` | session → run handle | register, clear, wait until empty | the registry is empty between two turns of one task |
| **Follow-up queue** `auto-reply/reply/queue/*`, `utils/queue-helpers.ts` | per session: a queue object with items, overflow summary, settings, a drain loop; a map from key to object; a dedupe cache | enqueue with dedupe and overflow policy, drain in collect or follow-up mode, clear, finalize | items are removed after the run, while enqueues remove from the same end; objects outlive their registration |
| **Delivery queue** `infra/outbound/delivery-queue-*.ts`, `deliver.ts` | one JSON file per message, `.delivered` markers, `failed/` | enqueue, send payload by payload, ack in two phases, fail, recovery scan with retry budget, backoff and time budget | crashes at every step; scans that overlap live deliveries; partial sends |
| **Heartbeat wake queue** `infra/heartbeat-wake.ts` | pending wakes by target with priorities, one timer, `running`/`scheduled` flags, the handler and its generation | request, register handler, dispose, timer, run, retry | runs of an earlier registration that return during a later one; retries and new requests share one timer |
| **Channel manager** `gateway/server-channels.ts`, `gateway/channel-health-monitor.ts` | per account: the maps `starting`, `aborts`, `tasks`, the sets of manual stops and restart attempts, the `running` flag | start, stop, the provider's end, backoff and restart; the callers that restart an account (reload, health monitor) or log it out | a start awaits between its reservation and its boot; a stop awaits a task that may back off; the cleanup after it deletes entries by key |
| **Cron service** `cron/service/*` | jobs on disk and in memory, one timer, `running`, the catch-up plan of a start | start with catch-up, tick, add, update, remove, manual run, crash, reload | runs happen outside the store lock and are applied to a store that was reloaded since; a crash leaves markers of runs |
| **Reply dispatcher** `auto-reply/reply/reply-dispatcher.ts`, `dispatcher-registry.ts`, `auto-reply/dispatch.ts` | per turn: the count of pending replies with a reservation, the chain of deliveries, the registration | enqueue, deliver, mark complete, wait for idle; the count that restarts wait for | the reservation is given back by a microtask or by the last delivery; follow-up turns use a dispatcher that is complete |
| **Typing indicator** `auto-reply/reply/typing.ts` | flags of the two end signals, `sealed`, three timers | start, refresh, end of the run, idle dispatch, timers | a start awaits the channel while the end signals come |
| **Gateway lock** `infra/gateway-lock.ts` | a lock file with the owner's pid and start time | acquire (create, judge the owner, remove, poll), release | create, write, read, judge and remove are separate steps of several processes, each of which may crash |

### 1.2 How they interact

- A channel message becomes a call of `runReplyAgent`. If the session is idle it
  enqueues an agent turn in the **command queue** (session lane, inside it a
  global lane); if a run is active the message goes to the session's **follow-up
  queue**, whose drain loop starts later runs one after another.
- An agent turn registers in the **embedded run registry** for its length; the
  reply is written to the **delivery queue**, sent, and acknowledged.
- A turn's replies go through its **reply dispatcher**, which counts them in a
  registry until they are delivered; its idle signal and the end of the agent's
  run together end the **typing indicator**. A follow-up run sends through the
  dispatcher of the turn that queued it.
- The **channel manager** keeps one provider per account alive; its providers turn
  messages into turns. Configuration reloads and the health monitor stop and
  start accounts.
- The **cron service** runs due jobs in the command queue's cron lane, or hands
  them to the heartbeat; a configuration reload replaces it by a second service
  on the same store.
- The **heartbeat** asks whether the main lane is busy; if it is, its handler
  answers `requests-in-flight` and the wake queue retries.
- `SIGUSR1`, configuration changes and tools ask the **restart scheduler** for a
  restart; it polls until queue, runs and the registry's replies are idle, then emits. The **run
  loop** marks the command queue as draining, waits for the executing tasks and
  the registered runs, closes the server, releases the **gateway lock**, and
  either leaves it to a new process or takes it again and starts over in place:
  `resetAllLanes`, a new handler for the heartbeat, a new recovery scan.
- Module state (lanes, follow-up queues, wake queue, run registry) outlives an
  in-process restart; files (delivery queue, lock) outlive the process.

### 1.3 What makes each correct

- Command queue: no entry lost, doubled or overtaken; slots belong to the current
  generation; no backlog beside a free slot; "drained" means settled.
- Run loop: every accepted request ends; a teardown waits for what was executing;
  a serving gateway accepts work and holds the lock; no stop signal is dropped.
- Follow-up queue: every accepted message is run, reported, dropped by policy or
  cleared, in order, once, in runs that answer to one place.
- Delivery queue: a persisted message is not dropped unsent; attempts are bounded;
  what was acknowledged while nobody else worked on it is not sent again; every
  entry leaves in the end.
- Wake queue: a pending wake has an armed timer; urgency is kept; cooldowns hold.
- Channel manager: never two providers, every one can be stopped, a stop holds and
  returns, a crash is followed by a restart.
- Cron service: a job runs once at a time, a due slot is not lost and is served, a
  disabled job stays disabled while no reload replaces the service, a timer is armed
  between ticks and during them.
- Reply dispatcher: a registered dispatcher counts its replies exactly and is not
  idle early, each turn ends, a restart waits for turns. Typing: it ends, and does
  not come back.
- Gateway lock: a serving gateway keeps its lock; two holders do not stay; a stale
  file does not block for ever.

### 1.4 Not modelled

| Component | Why |
|---|---|
| Nesting of session and global lanes (`agents/pi-embedded-runner/run.ts:216`) | planned, over CommandQueue |
| Announce queue (`agents/subagent-announce-queue.ts`) | planned: second user of `queue-helpers.ts` |
| Exec approvals (`gateway/exec-approval-manager.ts`) | planned, small |
| File and session write locks, pairing and credential stores | planned after an extension of GatewayLock |
| Subagent registry | planned last; many entry points |
| Auth-profile cooldowns, model fallback | planned as operators with a reference definition; sequential |
| Keyed async queue, ACP | a lane with one slot and no reset; CommandQueue covers the shape |
| Config watcher, inbound debounce, dedupe | their effect (requests or messages in any order, at any time, repeated) is an input of the models |
| Process supervisor, channel adapters, browser, media, memory, agent loop and tools | behaviour of external programs and services |
| Configuration, CLI, wizard, plugins, i18n, secrets, security audit, UI, apps | sequential, or presentation |

The models cover the concurrent core of the gateway, a small part of a repository
of 4800 implementation files: most of those are channel adapters, provider
clients, generated tables, configuration schemas and user interfaces, which have
no interleavings of their own to check.

## 2. Plan

Modules in the order in which they are written, the most central first. Each
comes with its MC module, runs, hazards and mutants before the next is begun.

| # | Module | Composes | State |
|---|---|---|---|
| 1 | `CommandQueue`, `TaskLifecycle` | | written, checked, safety and refinement proved |
| 2 | `GatewayLoop` | `CommandQueue` | written, checked, safety proved |
| 3 | `FollowupQueue` | | written, checked, safety proved; nothing lost and order for a queue that rejects when full and is not cleared |
| 4 | `DeliveryQueue` | | written, checked, safety proved |
| 5 | `HeartbeatWake` | | written, checked, safety proved |
| 6 | `GatewayLock` | | written, checked, safety of a serving gateway proved |
| 7 | `ChannelManager` | | written, checked, safety proved for accounts without a stop hook |
| 8 | `CronService` | | written, checked, safety proved without reloads |
| 9 | `AnnounceQueue`, sharing helper operators with `FollowupQueue` | | planned |
| 10 | `NestedLanes` (session lane around a global lane) | `CommandQueue` | planned |
| 11 | `ReplyDispatcher` | | written, checked, safety proved |
| 11a | `ReplyTurn` | `ReplyDispatcher` | written, checked, safety of its dispatchers proved |
| 11b | `ExecApprovals` | | planned |
| 12 | `FileLock`: re-entrancy on top of `GatewayLock`'s protocol | | planned |
| 13 | `SubagentRegistry` | | planned |

The runs are kept few and each asks one question. A property that fails has a
configuration in section 7 instead of a run of its own.

Abstract specifications worth stating:

- `TaskLifecycle` (written): tasks that are new, waiting, running, done or rejected,
  with a number of slots per lane. `CommandQueue` implements it by forgetting
  queues, task ids and generations; checked and proved.
- `ReliableOutbox`: a persisted message stays until it was sent or set aside.
  `DeliveryQueue` implements it with the files as implementation detail.
- `Mutex` is none: `GatewayLock` does not implement it (section 7). What it keeps is
  stated about the gateway that serves.

Theorems: every safety and action property that a passing run checks is proved
(section 6). To come: the types and timers of `ReplyTurn`'s typing controller, which
of `OneRunPerJob` survives a reload, and `ReliableOutbox`.

## 3. Modules

### 3.1 CommandQueue

| TLA+ | Code |
|---|---|
| `queue`, `activeTaskIds`, `maxConcurrent`, `generation` | the fields of `LaneState` |
| `gatewayDraining` | the flag of the same name |
| `status`, `taskGeneration` | where an entry is, and the `taskGeneration` captured by the pump's closure |
| `activeAtStart`, `waiter` | the snapshot and the promise of a `waitForActiveTasks` call |
| `EnqueueCommandInLane`, `RefuseCommand` | `enqueueCommandInLane`, with and without the draining flag |
| `CompleteTask` | the continuation of `await entry.task()`: a completion of an earlier generation frees nothing and pumps nothing |
| `SetCommandLaneConcurrency`, `ClearCommandLane`, `ResetAllLanes`, `MarkGatewayDraining` | the exported functions |
| `WaitForActiveTasks`, `WaitDrained`, `WaitTimedOut` | the drain wait, its successful check and its deadline |

The code's pump runs synchronously inside each of these, and so `DrainLane` is
part of each action. `draining` of `LaneState` is true only while a pump is on
the stack and is not state. A task stands for its id, since `nextTaskId++` never
repeats one. A lane is created on first use; one that nobody has used is idle.

`Lifecycle` is the instance of `TaskLifecycle` with `accepting <- ~gatewayDraining`,
`life` from `status`, `slots <- activeTaskIds` and `limit <- maxConcurrent`.
`TaskLifecycle` says what a caller may rely on, and its `Lend` leaves open which
waiting tasks start; that they start in order is `NoOvertaking`, a property of
the queue alone. `ImplementsTaskLifecycle` is the refinement.

### 3.2 GatewayLoop

Extends `CommandQueue` with the process around it: `loopPhase` (in
`params.start()`, or awaiting `restartResolver`), the request in progress and the
`await` it is at (`requestPhase`), the lock and server references, the
registered agent runs, and the sources of restart signals. A `CommandQueue`
action is taken through `QueueStep`; the loop calls `SnapshotActive` and
`ResetAllLanes` where the code calls `waitForActiveTasks` and `resetAllLanes`.
`emitGatewayRestart()` runs the listener synchronously, so emission and
`request("restart")` are one step. Durations are left out except for their
order: the drain deadline (90 s) lies before the watchdog (115 s), hence
`ForceExit` only while `server.close()` is pending.

### 3.3 FollowupQueue

One session's queue. `Objects` are the identities of queue objects: a clear
unregisters an object whose drain may still await a run, so several are alive at
once; `current` is the registered one. A drain that ends unregisters whatever is
registered under its key, which may be the successor of its own object. `drain[o]` is
the position of the loop: waiting for the debounce, between the cross-channel check
and the slice (`batching`), or in a run with its `batch`. `EnqueueFollowupRun`
contains dedupe, overflow policy, push, and the `finalize` call that schedules a
drain; a message rejected as recent registers a fresh, empty object all the same.
Messages differ only in where they are answered (`Route`). History variables
(`accepted`, `ran`, `reported`, `discarded`, `cleared`) let the properties say what
became of a message.

### 3.4 DeliveryQueue

`json[d]` is the retry count in `{id}.json`, or `Gone`; `marker` and `failed` are
the other two kinds of files. An actor is either the live delivery of a message
or a recovery scan; both go through the same sending and settling, as both call
`deliverOutboundPayloads`. A `failDelivery` call is its own small actor
(`bumps`): it reads the entry, then writes it, and anything may happen in
between. `Crash` removes every actor and keeps every file. `BestEffort` and
`ReportsErrors` are parameters because the bookkeeping of partial failures
depends on them.

A scan works on the snapshot it has loaded (`pending`), with the retry counts of
that moment. A gateway start waits for nobody: `server.impl.ts:1022-1033` launches the
recovery beside live deliveries and beside the scan of an earlier start in the same
process, and so does `GatewayStart`. `overlaps` counts the loads that found an entry
somebody was working on (`Has`); `MaxOverlaps` bounds them for TLC, and in the
proofs it is any number. The history variables `handled`, `acked`, `attempts` and
`permanent` record what was done for a message whatever its files say; `final` is
the part of `acked` that nobody else worked on at the time.

### 3.5 HeartbeatWake

`handler`, `gens` and `disposed` are the registration and its generations,
`pending` the map of wakes in insertion order, `timer`, `scheduled` and `running`
the module's timer state, and `runs` the handler calls that have not returned:
more than one when a registration reset `running` under a run. Due times are
abstracted: `Scheduled(timer, kind)` gives the timers that may be armed after a
`schedule` call, whether the armed one is due sooner or later.

### 3.6 GatewayLock

Processes with a program counter through `acquireGatewayLock`, the start of the
server (`Bind`, `StartFails`), serving, closing and release. A process start is
`<<p, n>>`, as the payload's start time tells a process from an earlier one with the
same pid. The file has a creator, may or may not hold its payload yet, and may be
older than `staleMs`; any number of steps may pass between reading, judging and
removing it. All processes share one config and one port, which every acquisition
probes, as `run.ts:426` and `run-loop.ts:34,58` pass it: while nobody listens, any
owner is taken for dead (`OwnerDead`), the gateway that is still starting included.
`served` tells a first start, whose failure ends the process, from a restart in
place, whose failure leaves it up without a server and without the lock; a timeout
while acquiring is tried again under a supervisor on the first start only
(`GiveUp`). The history variable `met[p]` is the owner that `p` read while it
served, for as long as it goes on serving.

### 3.7 ChannelManager

One account of one channel. A *boot* is one pass through `startChannelInternal`
that reserves the account; it owns an `AbortController` and later a task, so the
maps `starting`, `aborts` and `tasks` hold boots. `pc[r]` is where a boot is:
`configuring` (awaiting `isConfigured`), `running`, `backoff`, or `over`.
`StartAccount` is the synchronous part of a start, used by operators
(`StartChannel`), by the task's own restart (`BackoffEnds`), by the health monitor
and by `RestartStopped`. A stop is a call with a stage: `hook` (the plugin's
`stopAccount`, when `StopHook`), `waiting` for the task, `stopped`. The
continuation of a settled promise runs before any other callback, which
`Microtask` in `Next` expresses: the proofs rest on it. History variables say what
was asked for (`wanted`, `userStopped`) and that an account is `down`.

### 3.8 CronService

`disk` and `mem[s]` are the store file and each service's copy of it. A job is
reduced to what the code asks of it: whether it is enabled, whether its next time is
to come (`later`) or has come (`due`), its `runningAtMs` marker, the schedule and
last status of a one-shot job. The body of one `locked` call is one step:
`ClearMarkers`, `PlanCatchup`, `ApplyCatchup` and `FinishStart` of a start;
`CollectDue`, `ApplyOutcomes` and `EndTick` of a tick; `PreflightManual`,
`ReserveManual` and `FinishManual` of a manual run; the edits of the user. `run[o]`
holds the jobs an owner has taken out of the store to run. A timer that fires is
gone; during a tick the early return of `onTimer` arms the watchdog in its place
(`TimerFires`, `timer.ts:573`). `FinishStart` saves only if the recomputation has
changed something (`ops.ts:124-127`). `Crash` forgets everything but the disk. A
reload (`Reload`) stops one service and starts another on the same store while runs
of the first may go on.

### 3.9 ReplyDispatcher and ReplyTurn

`ReplyDispatcher` models dispatchers with the turn that owns each
(`withReplyDispatcher`): `pending[d]` is the count with its reservation,
`undelivered[d]` and `undeliveredLate[d]` the replies of the turn and of follow-up
turns on its chain, `release[d]` the microtask of `markComplete`. The config
watcher's restart emits when `getTotalPendingReplies()` is zero, polls otherwise,
and gives up waiting at its deadline (`PollTimesOut`). Command queue and
embedded runs, for which the same restart waits, are in `GatewayLoop`.

`ReplyTurn` composes it with the typing controller of the turn `Typed`: `typing`
is a record of the controller's variables and timers, and its methods are
operators on that record. `DispatchStep` is a dispatcher's step together with what
it tells the controller (`Told`); a turn does not end before its agent's run. The code
awaits the channel's typing call before a reply (`followup-runner.ts:97`,
`agent-runner.ts:256`): a reply may come as late as it likes, and nothing is claimed
about how long typing delays it.

## 4. Runs

*Pass* means that TLC explored the whole state space of the instance without an
error. A *violation* run checks one property that a comment, a document or a test
of the repository states, and TLC finds a behaviour of the code that breaks it;
section 7 explains them. A `FairSpec` run checks its safety properties under the
fair specification too, which has the same reachable states.

| Run (configuration) | Checks | Bounds and why they are enough |
|---|---|---|
| `command_queue` (`MCCommandQueue`) | `QueueMatchesStatus`, `SlotsMatchGeneration`, `NoIdleSlotWithBacklog`, `DrainedMeansSettled`, `NeverStartsBeyondLimit`, `NoOvertaking`, `ImplementsTaskLifecycle` | Two lanes; three tasks in one and one in the other; limits 0 (raised to 1 by the code) and 2; one reset. Three tasks let one run, one wait and one overtake; the second lane lets a reset meet lanes in different situations. All are also proved without bounds. |
| `gateway_loop` (`MCGatewayLoop`) | `TeardownWaits`, `ShutdownCompletes`, `QueuedOutlivesRestart` | One lane with one slot and two tasks, so one is queued behind the other; two restarts, so the second meets what the first left. The polls are those of the config watcher, one of which outlives its server; polls of `scheduleGatewaySigusr1Restart` would only add more emissions of the same restart. `QueuedOutlivesRestart` is also the liveness of the command queue: a task interrupted by the first restart blocks nobody after it. |
| `followup_queue` (`MCFollowupQueue`) | `NothingLost`, `RunsInArrivalOrder`, `QueuedOnce`, `QueuedEventuallyRuns` | Three messages to two places, three accepted enqueues (redeliveries included), one failing run, cap 2, modes `collect` and `followup` changing between enqueues, drop policy `new`. Cap 2 with three messages reaches the overflow; two places reach the cross-channel path. |
| `followup_queue_clear` (`MCFollowupQueueClear`) | `ClearedNeverRuns` | Two messages, three accepted enqueues, one failing run, two clears, either of which may fall into a drain, and three queue objects: the drain of the first object unregisters the second, the next clear misses it, and a third is registered. What an older object still holds is not removed by that clear and does run: it is not counted as cleared (`QueueReachable` in section 7). |
| `delivery_queue` (`MCDeliveryQueue`) | `NothingLost`, `RetryBudget`, `GivenUpLate`, `FinalNeverSentAgain` | Two messages of two payloads (interchangeable, symmetry); `MAX_RETRIES` 2 (5 in the code: the value only says how many starts are needed) and two gateway starts, which reach it (a failed live attempt and a failed scan use it up, the next scan gives up); one load of an entry somebody works on, which is enough for two `failDelivery` calls to lose an update and for a send after an ack; a crash and a failing file operation. The budget counts those, and is otherwise the code's. |
| `delivery_queue_live` (`MCDeliveryQueueLive`) | `EntriesEventuallyLeave` | Starts without bound, one message of one payload, two scans that may overlap each other and the live delivery twice, one crash, one failing file operation. Entries share no state but the order in which a scan takes them. |
| `heartbeat_wake` (`MCHeartbeatWake`) | `WakeArmed`, `RunsBounded`, `PriorityKept`, `WakesServed` | Two targets, priorities 1 and 3, three registrations (two runs of earlier ones may be in flight in the third), three requests, two failing calls |
| `gateway_lock` (`MCGatewayLock`) | `ServingKeepsLock`, `BreachEnds`, `LockNotStuck` | Two supervised processes that start twice each, two restarts in place, a crash at any step, starts that fail, a process that stalls for any time. Two processes with two starts each are three contenders one after another and more; the proof of `ServingKeepsLock` has any number. |
| `channel_manager` (`MCChannelManager`) | `ProviderUnderControl`, `StopSticks`, `StopsReturn`, `CrashRestarts` | Five boots known at a time, three stop calls under way at once, two restart attempts (10 in the code), no stop hook. A boot that is over is used again, so starts and stops are without bound; three calls let one wait, one return and one begin. |
| `cron_service` (`MCCronService`) | `OneRunPerJob`, `TimerArmed`, `DisableSticks`, `SlotsKept`, `DueRuns` | A recurring and a one-shot job, one service, one job replayed at once by a catch-up (the other is deferred), one crash at any step, one edit. Time is without bound: slots become due again and again. Reloads have configurations of their own (section 7). |
| `reply_turn` (`MCReplyTurn`) | `PendingExact`, `RestartWaitsForTurns`, `TurnsEnd`, `TypingEnds` | Two turns with one reply each and one reply of a follow-up turn each, one restart. One reply meets the reservation in either order; the second turn runs while the first is idle. |
| `gateway_loop_draining` (`MCGatewayLoopDraining`) | violation of `DrainingOnlyInShutdown` | one restart |

Each module states a type invariant (`...TypeOK`), and all of them are proved
(`ChannelManager`'s without a stop hook); the runs spend their time on the other
properties, and a type invariant may be added to any configuration.

`CHECK_DEADLOCK FALSE` is set where the system may come to rest: a process that
has exited, a session with nothing queued, deliveries that are all settled and
no further gateway start, bounds that are used up. In `CommandQueue` a limit
change is always possible and deadlock is checked.

Every property of a passing run has a mutant in `PROJECT.json`: a definition with
the change a plausible bug would make, under which TLC finds the property
violated in the same configuration. Mutants stand before the definition they
replace, in comments named "Mutant" or "Bug".

## 5. Fairness

- `CommandQueue` has no fairness of its own: its entries leave because tasks
  complete, which is stated in `GatewayLoop`.
- `GatewayLoop`: a task of the current lifecycle completes; agent turns, cron jobs
  and probes carry timeouts. A task interrupted by a restart may never complete.
  Timers fire, `params.start()` and `server.close()` return or
  their watchdog fires, drain waits end at their deadline. A task completes after
  finitely many agent turns (`run.ts` bounds its retries), hence strong fairness
  for completions, which are disabled during a turn. Signals, messages and
  configuration changes are free.
- `FollowupQueue`: runs end (they carry a timeout), debounce timers fire. A run
  may end in failure; messages and clears are free.
- `DeliveryQueue`: sends resolve or reject, file operations complete, a scan goes
  on. Nobody promises that a gateway starts again, so `EntriesEventuallyLeave`
  has a premise instead: gateways keep starting after all backoffs expired
  (ten minutes at most). Without it an entry whose send failed waits for ever:
  `recoverPendingDeliveries` runs at gateway start only.
- `HeartbeatWake`: an armed timer fires; a handler call returns. The heartbeat
  runner bounds its calls by the agent timeout; a call that never returns takes
  its batch with it (`heartbeat-wake.ts:155`).
- `ChannelManager`: `isConfigured` settles, timers fire, an aborted provider ends,
  hooks and logouts return: `StopsReturn` needs a provider to obey its signal, as
  the manager does. A provider nobody aborted may run for ever; starts, stops and
  the monitor are free.
- `CronService`: the event loop goes on, the timer fires, runs end (each has a
  timeout). Edits, manual runs, crashes and time are free.
- `ReplyTurn`: the turn's run ends, a delivery settles, microtasks run, the
  restart poll's interval fires, an agent's run ends. The typing controller's own
  timers are not fair: tools put the TTL off, so `TypingEnds` rests on the two end
  signals alone.
- `GatewayLock`: a process that runs takes the steps of acquiring, of starting its
  server and of releasing, and time passes. Crashes, starts, signals and timeouts are
  free.

## 6. Proofs

All proofs are for every value of the constants that the modules' `ASSUME`
allows; TLC evaluates those assumptions in the runs.

### 6.1 CommandQueueProofs

Assumes `ConstantsAssumption`: finitely many tasks, each with a lane, integer
limits. Theorems: `TypeCorrect`, `QueueConsistent`, `SlotsConsistent`,
`WorkConserving`, `LimitRespected`, `OrderKept`, `ResetPreservesQueue`, `DrainSound`.

The inductive invariant `IInv` is the conjunction of type correctness,
`QueueMatchesStatus`, `SlotsMatchGeneration`, `StartedBeforeNow` and
`NoIdleSlotWithBacklog`: none of them is inductive alone. `StartedBeforeNow` says
that no task carries a generation its lane has not reached, so that a reset puts
every running task into an older one. A pump takes from the queue tasks that must not be
active yet (queue and slots are related through `status`), and a completion of
an earlier generation leaves a backlog only because it held no slot.

All actions but two change one lane by a pump. `DrainFacts` says what a pump does to
a queue and a set of active tasks, using the cardinality of a prefix of a sequence
without repetition; `LanePumpPreserves` lifts this to the lanes; then each action
only has to be shown to be a lane pump with proper arguments. `ResetAllLanes` pumps
every lane at once and a stale completion none; both have lemmas of their own.
`OrderKept` reduces every step, as seen by one lane, to `LaneMoves` (append at most
one entry, take the first `n`); that such a change keeps the order is
`MovesKeepOrder`. `DrainSound` needs in addition that the tasks of a snapshot were
started no later than now (`StartedBeforeNow`, `SnapshotStarted`).

`Implementation` says that `CommandQueue` implements `TaskLifecycle`. The step
correspondence needs `IInv`: only because queue and status agree does the pump start
as many tasks as there are waiting ones and free slots, which is what `Fills` asks
for. Most steps map to the action of the same meaning; drain waits and queue-only
changes map to stutters.

The last two parts are about `GatewayLoop`, under `LoopAssumption` as well.
`RestartsDrain` (`TeardownWaits`) adds `SnapshotKept` to `IInv`: while a restart
request lasts, every task of its snapshot is done or still executes in the present
lifecycle, because the only reset comes with the end of the request. Without that,
a task could leave the active set by a reset and count as settled.
`LoopTypeCorrect` (`LoopTypeOK`) bounds the polls of the config watcher that
outlive their server. `PollsCounted` says why there is at most one for each
restart: a poll is left behind by a start that is not the first (`Again`), and
every such start follows the end of a restart request (`Ended`).

### 6.2 DeliveryQueueProofs

Assumes `DeliveryAssumption`. Scans and live deliveries overlap as they may in every
theorem: `PersistedNeverLost` (`NothingLost`), `TypeCorrect` (`DeliveryTypeOK`),
`BudgetKept` (`RetryBudget`), `FinalStaysFinal` (`FinalNeverSentAgain`) and, when
gateway starts are counted at all (`MaxStarts # 0`; 0 stands for starts without bound
and without a count), `GivenUpOnlyLate` (`GivenUpLate`).

`NothingLost` is not inductive, because an ack removes a file whatever was sent.
`ActorOK` adds what makes the ack safe: an actor at payload `idx` of a message
without bestEffort has seen the payloads before it through, and one that
acknowledges has seen all of them; an abort settles the rest at once. `BumpOK`
adds that a `failDelivery` call writes back a number. Nothing is needed about
which entries a scan loaded, in what order, or how many actors work on one
message.

The other three rest on `Sound`: types, that whatever anybody works on was persisted
(`Known`), and that an actor has an entry in one place only, its snapshot, under
work, or in one `failDelivery` call (`Once`). Several actors may still have the same
entry. `Holds(a, d)` says that `a` may still count a failure of `d`, `Moves(a, d)` that
it takes `d` to `failed/`; `Owed(d)` that somebody does one of the two.

- `FinalOK`: what was acknowledged while nobody else had it has no file and is owed
  by nobody, so nobody can send it or write a file for it. For everything that was
  acknowledged (`AckedNeverSentAgain`) this is false: another actor may have it in
  hand (section 7).
- `CountsOK`: each actor counts at most one failure of an entry in one gateway start.
  `Counters(d)` are those that may still do so, and the retry count in the file, or in
  the hand of a `failDelivery` call, plus their number is at most `starts + 1`
  (`Room`). A scan that gives up has therefore seen `MAX_RETRIES` starts.
- `BudgetOK`: `Ledger(d, n)` says that no file, snapshot or call has a count below
  `n`, and that the attempts begun and those that a snapshot may still begin are at
  most one more than `n` and the overlaps, crashes and failing file operations.
  Overlapping scans share the base `n`, as their calls may all write `n + 1`; each of
  them is paid for when it loads. A load of an entry nobody has in hand raises `n` to
  the count in the file, and then the last attempt has been counted or was lost to one
  of the three.

### 6.3 HeartbeatWakeProofs

Assumes `WakeAssumption`. `NoLostWakeUp` (`WakeArmed`) follows with the three
values of the timer alone: every path that leaves wakes pending arms a timer or
finds one. `RunsCounted` (`RunsBounded`) needs `CountInv`: the runs in flight are
at most `gens` when `running` is set, and one fewer when it is clear
(`Len(runs) + Free <= gens`, with `Free` 0 and 1). The
`finally` block of an old run clears the flag and removes itself from the count,
a registration clears the flag and adds one to the bound; so a new run always
finds the place that one of them freed.

`TypeCorrect` (`WakeTypeOK`) and `UrgencyKept` (`PriorityKept`) are about the queue
itself. A run that is asked to retry puts its whole batch back (`QueuedAll`), beside
requests that came during the run. The equation of the recursive function in
`QueuedAll` is derived from its existence (`QueuedAllUnfold`), and what the function
does, that there is one wake per target and that no priority falls, is proved by
induction over the batch (`SetInduction`).

### 6.4 ChannelManagerProofs

Assumes `ChannelAssumption` and `~StopHook`: with a plugin's `stopAccount` hook (two
bundled channels have one) the statements are false, see section 7. Theorems:
`ChannelTypeCorrect`, `OneProvider` (`ProviderUnderControl`), `StopsHold`
(`StopSticks`), for any number of boots, stop calls and restart attempts.

`IInv` adds to `ProviderUnderControl`: the maps name no boot that is over
(`Entries`); a waiting call has aborted its task, and when that task is over
nothing runs that was not aborted (`CallOK`), which makes the unconditional
cleanup of `stopChannel` harmless; after a stop every boot was aborted and a call
waits for the provider (`Stopped`); a boot that counts as a restart has attempts
left (`Budgeted`). `CallOK` is kept because the continuation of a stop comes before
any callback that could reserve the account again: `~Microtask` is used in
every case of `Callback`. Its inductiveness was first checked by TLC, with
`IInv` as the initial predicate of a small instance.

### 6.5 ReplyTurnProofs

Assumes nothing but the types of the bounds. Theorems: `ReplyTypeCorrect`,
`PendingCounted` (`PendingExact`) and `RestartsWait` (`RestartWaitsForTurns`). They
are proved of `ReplyDispatcher`; the lemma `TurnImplementsDispatchers` carries them to
`ReplyTurn`, each of whose steps is a step of the dispatchers or leaves them alone.
`PendingExact` is exact for registered dispatchers only; for one that has left the
registry it bounds how often it reports idle, `1` to `1 + followups[d]` times.
`Dispatcher(d)` makes it inductive by saying which are registered: every running
turn's, none before its turn, and those whose reservation is still to be given back
are settling; and that every idle after the first has used up a reply of a follow-up
turn. Every action changes one dispatcher, which a lemma states once. A restart before
the deadline is emitted when the registry is empty of replies, hence of running turns,
whose reservation `PendingExact` counts.

### 6.6 FollowupQueueProofs

Assumes `FollowupAssumption`. Without further assumptions: `TypeCorrect`
(`FollowupTypeOK`, with the cap of each queue) and `NeverQueuedTwice`
(`QueuedOnce`: no queue object holds two copies of a message), from `QueueInv`. A
message that runs may well be queued again, after a clear or an overflow.

`NoMessageLost` (`NothingLost`) and `ArrivalOrder` (`RunsInArrivalOrder`) assume
`RejectsWhenFull` and `NeverCleared`: with another drop policy an overflow during a run
shifts the queue under it and messages are lost (section 7), and a clear can leave
two objects behind. `OrderInv` says that the accepted messages are those that were run
(`RanIsFront`) followed by those that wait (`WaitsIsTail`) in the one object in use
(`OneObject`), and that a run's batch still is the front of its queue
(`BatchIsFront`), which is what makes its removal by count right.

`ClearHolds` (`ClearedNeverRuns`) holds for any number of clears and queue objects and
any drop policies. `ClearInv`: no object in use, registered or being drained, holds a
cleared message. A run takes its messages from such an object, and an object that is
registered anew comes empty. A clear empties the registered object, and what an older
object still holds does not count as cleared (`Elsewhere`): the drain of a cleared
object unregisters the next one, which the next clear then does not reach
(`QueueReachable` in section 7). A message that is enqueued again does not count as
cleared any more.

### 6.7 GatewayLockProofs

Assumes `LockAssumption`. `TypeCorrect` (`LockTypeOK`) and `ServingLockStays`
(`ServingKeepsLock`), for any number of processes, starts, restarts in place and
crashes, with the port probed and at any age of the file. `MetIsSafe` adds to the
property that the owner a process has met still serves, so that the port is in use,
the owner alive, and the judgement goes to waiting. The statement is about processes
that read the payload while its owner served; one that read it before, while the
owner was starting, may remove the file (section 7). That such a breach ends
(`BreachEnds`) and that a start gets through (`LockNotStuck`) is liveness and only
model-checked.

### 6.8 CronServiceProofs

Assumes `CronAssumption`. `TypeCorrect` (`CronTypeOK`) holds with and without
reloads (`ReloadSpec`, `Spec`). `OneRun` (`OneRunPerJob`), `SchedulerArmed`
(`TimerArmed`: the timer between ticks, the watchdog during one), `NoSlotSkipped`
(`SlotsKept`) and the first part of `DisabledStaysDisabled` (`DisableSticks`) hold for
a service that no reload replaces. The second part of the latter is about reloads:
a job that nobody enables comes back only if some service still has it enabled in
its copy (`DisabledUnlessOutdated`). `Inv` says that only
the service that serves acts (`Calm`), that its copy of the store agrees with the
file (`Copies`), and that a job in a run is marked in both and has one owner unless it
was disabled meanwhile (`RunsOK`). `Copies` is what makes `locked` worth its
name: each locked step leaves the two equal. After a reload the old service's copy
is out of date, and `OneRunPerJob` and `DisableSticks` fail (section 7).

### 6.9 Only model-checked

Liveness under fairness and `ENABLED` are beyond TLAPS: `ShutdownCompletes`,
`QueuedOutlivesRestart`, `QueuedEventuallyRuns`, `EntriesEventuallyLeave`,
`WakesServed`, `BreachEnds`, `LockNotStuck`, `StopsReturn`, `CrashRestarts`,
`DueRuns`, `TurnsEnd` and `TypingEnds`; and so are the refutations of section 7,
which are TLC's counterexamples. The induction theorems of the library take an
operator as a parameter, which the provers cannot instantiate; the one induction over
data that is needed (6.3) goes through a lemma about sets instead. `RECURSIVE`
operators are avoided in all modules.

## 7. Findings

One run is a violation, with the statement it contradicts in `PROJECT.json`:

- **A serving gateway that refuses all work** (`gateway_loop_draining`): a restart
  accepted while `params.start()` is pending sets the drain mark, finds no
  `restartResolver`, and nobody clears the mark.

The modules state further properties that a comment, a document or a test of the
repository promises and the code does not keep. They have a configuration each,
which ends in a counterexample, or are named in the first line of another's, where
they fail as well when they take the place of its property. They are not among the
runs above:

| Property | Configuration | What happens | Where, and what is said |
|---|---|---|---|
| `NothingLost` of `FollowupQueue` | `MCFollowupQueueOverflow` | A run's items leave the queue after the run, while an overflow with policy `summarize` or `old` shifts it under the run: items that nobody ran are removed. | `utils/queue-helpers.ts:97`; `docs/concepts/queue.md`, `auto-reply/reply/reply-flow.test.ts:1316` |
| `BestEffortKept` | `MCDeliveryQueueBestEffort` | Recovery passes `bestEffort` without an `onError`: a partial replay is taken for complete. | `infra/outbound/delivery-queue-recovery.ts:192`; `deliver.ts:505` |
| `LockExclusive` | `MCGatewayLockStarting` | The port of a gateway that is still starting is free, so the probe takes it for dead: two holders, until one of them fails to bind (`BreachEnds`). | `infra/gateway-lock.ts:114`; `gateway-lock.test.ts:172` |
| `LockOwned` | `MCGatewayLockStarting` | A contender judges the payload it read, then removes whatever file has the path, and a release removes it as well. | `infra/gateway-lock.ts:234`; `:250` |
| `ListeningUnderLock` | `MCGatewayLoopDraining` | Whether the lock is taken again depends on whether it was held (`hadLock`), which a failed start changed: the next server listens without it. | `cli/gateway-cli/run-loop.ts:88`; `:245` gives the lock back because "the process holds the lock but is not listening" |
| `DrainedMeansNoTurnInFlight` | `MCGatewayLoopDraining` | Both drain waits look at what was there when they looked; a queued entry starts meanwhile and is cut off. | `run-loop.ts:143`; `:124` "wait for in-flight agent turns to finish" |
| `SigtermExits` | `MCGatewayLoopSigterm` | A SIGTERM during a restart drain is dropped; the process lives on. | `run-loop.ts:104`; `:227` "SIGTERM/SIGINT still exit" |
| `SummaryKeepsItem` | `MCFollowupQueueSummary` | Outside collect mode the overflow summary takes the place of the next message. | `auto-reply/reply/queue/drain.ts:152`; `docs/concepts/queue.md` |
| `DropsEventuallyReported` | `MCFollowupQueueSpin` | A drain with drops to report and no message to carry them restarts itself without end. | `drain.ts:179`; `docs/concepts/queue.md` |
| `QueueReachable` | `MCFollowupQueueOrphan` | The drain of a cleared queue unregisters the queue that took its place; a later clear misses what waits there, and it runs. | `drain.ts:180`; `enqueue.ts:100` |
| `NoMixedBatch` | `MCFollowupQueueOrphan` | A message for another place arrives between the cross-channel check and the slice. | `drain.ts:102`; `:96` "Prevents 'collect after shift' collapsing different targets" |
| `DeliveredNeverReplayed` | `MCDeliveryQueueReplay` | A crash between the last send and the rename of `ackDelivery`. | `infra/outbound/delivery-queue-storage.ts:163`; `:152` |
| `AckedNeverSentAgain` | `MCDeliveryQueueOverlap` | A scan loads a delivery in flight and sends it after its ack. | `delivery-queue-recovery.ts:154`; `gateway/server.impl.ts:1021` |
| `RetryCooldown` | `MCHeartbeatWakeCooldown` | A request during a run arms a timer that swallows the retry cooldown. | `infra/heartbeat-wake.ts:128`; `:123` "hard minimum delay" |
| `DeniedOnlyByGateway` | `MCGatewayLockDenied` | After a crash between creating and writing the file a start is refused although no gateway runs. | `gateway-lock.ts:266`; `docs/gateway/gateway-lock.md` |
| `ManualStopRespected` | `MCChannelManagerManual` | A start by a user deletes the manual-stop mark after its await; a stop that came during it is forgotten, and the monitor starts the account again. | `gateway/server-channels.ts:315`; "Tracks accounts that were manually stopped so we don't auto-restart them" |
| `StartNotSwallowed` | `MCChannelManagerManual` | A start that finds an aborted start under way waits for it and returns: the account stays down. | `server-channels.ts:262` |
| `RunningMeansProvider` | `MCChannelManagerManual` | A boot that throws leaves the snapshot at `running: true`, which the monitor takes for a provider. | `server-channels.ts:333` |
| `ProviderUnderControl` | `MCChannelManagerHook` | With a `stopAccount` hook the cleanup of a stop runs long after the abort and deletes the entries of the next provider, which no stop then finds. | `server-channels.ts:485`; `:275` "cannot race into duplicate provider boots" |
| `OneRunAtATime` | `MCCronServiceDisable` | A job disabled and enabled again during its run loses its marker and can be started a second time. | `cron/service/timer.ts:677`; "cannot start the same job concurrently" |
| `OneRunPerJob` | `MCCronServiceReload` | The service of a reload clears the markers of runs that still go on in the old one. | `cron/service/ops.ts:103` |
| `DisableSticks` | `MCCronServiceRevive` | After a config reload the old service's manual run writes back the `enabled` of its outdated copy: a job disabled since is enabled again. | `cron/service/ops.ts:74` |
| `CatchupKeepsNewSlots` | `MCCronServiceStartup` | The last step of `start()` computes all times anew and skips the slots that became due during the catch-up. | `cron/service/ops.ts:124`; `timer.ts:988` "Preserve any new past-due nextRunAtMs values" |
| `SealHolds` | `MCReplyTurnLate` | `startTypingLoop` starts its interval after an await without a look at `sealed`. | `auto-reply/reply/typing.ts:177`; `:50` "we seal the controller so late events can't restart typing forever" |
| `RestartWaitsForReplies` | `MCReplyTurnLate` | Replies of follow-up turns go through a dispatcher that has left the registry. | `auto-reply/reply/followup-runner.ts:126`; `dispatcher-registry.ts:3` "waits for all replies to complete" |
| `IdleReliable` | `MCReplyTurnLate` | The same dispatcher reports idle while a late reply is on its chain. | `auto-reply/reply/reply-dispatcher.ts:179`; `:115` 'reliable "idle" signal' |

Smaller things met while modelling, which no property states:

- `typing.ts:154` expects two distinct end signals; the safety net at
  `agent-runner.ts:781` gives both at the end of the run, so typing ends with the
  run although deliveries go on.
- `signalRunStart` (`agent-runner.ts:256`) comes before the `try` at `:389`; what
  throws in between leaves typing to its timers. A TTL that fires during a slow
  start is ignored, and the loop that starts afterwards has none.
- `add()` of the cron service computes the times of all jobs anew, and thereby
  skips a due slot of another job. A batch runs a job that was removed or disabled
  after it was collected. `stop()` during a tick is undone by the `armTimer` of
  the tick's `finally`.

## 8. Abstractions

- Payloads, prompts, session keys and origins are model values; formatting and
  logging are left out.
- Durations are left out except for their order. A timer may fire at any moment
  after it was armed; where the code relies on one timer being later than another,
  the model keeps that order and says so at the action.
- `CommandQueue`: the wait warning and probe lanes only log.
- `GatewayLoop`: the authorization of external signals, the cooldown between
  restarts and the launchd and systemd paths are left out; any moment of emission
  is possible instead.
- `FollowupQueue`: one session; `refreshQueuedFollowupSession` rewrites session
  ids in place and is left out, as are the remembered callbacks, which every
  caller passes equal.
- `DeliveryQueue`: files are written atomically (the code renames a temporary
  file); the migration of old entry formats and the chunks of a payload are left
  out. Which errors are permanent is a choice of the environment.
- `HeartbeatWake`: the handler is an environment that runs, skips, finds requests
  in flight, or throws.
- `ChannelManager`: one account, since accounts share no state but the early return
  of a stop with nothing running; display fields of the snapshot, the monitor's
  rate limits and grace periods (any moment is possible) are left out.
- `CronService`: saves succeed; runs end before `STUCK_RUN_MS`; the backoff after
  errors, staggering and delivery are left out, as is the Telegram write-back of
  targets, which saves outside `locked`. A run whose timeout has passed counts as
  over: the code only races it (`timer.ts:77`), and a core that ignores its abort
  signal may go on after its outcome was written.
- `ReplyDispatcher`, `ReplyTurn`: which payloads are skipped and the human-like
  delay are left out; the channel's typing callbacks may take any time and may fail.
- `GatewayLock`: an unreadable `/proc` and the timeout of the port probe are left
  out; pids are not reused by foreign processes. All processes use one config and one
  port: a start with another `--port` on the same config, which would take the
  gateway on the first port for dead, is not modelled.

`PROJECT.json` lists the hazards of the modelled components at their lines; one
without a property has a note that says which property states it and fails.
