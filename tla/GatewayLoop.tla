------------------------------ MODULE GatewayLoop ------------------------------
(***************************************************************************)
(* The gateway process: the run loop that starts, drains, closes and       *)
(* restarts the server (src/src/cli/gateway-cli/run-loop.ts), the restart  *)
(* scheduler that decides when SIGUSR1 is emitted (src/src/infra/restart.ts)*)
(* and the command queue whose tasks they wait for (CommandQueue).         *)
(*                                                                         *)
(* emitGatewayRestart() emits SIGUSR1 synchronously to the loop's listener,*)
(* which consumes the authorization and marks the cycle handled, so a      *)
(* token is never left unconsumed between two callbacks: emission and      *)
(* request("restart") are one step, EmitRestart.  Times are abstracted: a  *)
(* timer may fire at any moment after it is armed, except that the drain   *)
(* waits (90 s) end before the force-exit timer (115 s) fires.             *)
(***************************************************************************)
EXTENDS CommandQueue

CONSTANTS MaxRestarts,  \* bound on the restarts the loop accepts
          MaxPolls      \* bound on concurrent deferGatewayRestartUntilIdle polls

ASSUME LoopAssumption == MaxRestarts \in 0..MaxResets /\ MaxPolls \in Nat

VARIABLES
  loopPhase,     \* where runGatewayLoop is: in params.start(), or awaiting restartResolver
  isFirstStart,
  server,        \* the loop's `server` is not null
  listening,     \* a server that was started has not been closed
  lock,          \* the loop's `lock` is not null
  shuttingDown,
  request,       \* the action of the running request(), "none" if there is none
  requestPhase,  \* where that request's async body is
  runsWaiter,    \* its waitForActiveEmbeddedRuns promise
  restarts,      \* restarts accepted so far
  exit,          \* "no", "clean" (exit 0) or "error" (exit 1, or a throw)
  embeddedRuns,  \* ACTIVE_EMBEDDED_RUNS: the running tasks inside an agent turn
  restartTimer,  \* restart.ts: pendingRestartTimer is set
  restartPending,\* server-reload-handlers.ts: a deferral of this lifecycle is polling
  polls,         \* number of other deferral polls, from restart.ts or an old lifecycle
  sigterm        \* a SIGTERM or SIGINT has been delivered

lockVars == <<lock, exit>>
serverVars == <<loopPhase, isFirstStart, server, listening>>
requestVars == <<shuttingDown, request, requestPhase, runsWaiter, restarts>>
schedulerVars == <<restartTimer, restartPending, polls>>
queueVars == vars
loopVars == <<queueVars, lockVars, serverVars, requestVars, schedulerVars, embeddedRuns, sigterm>>

LoopInit ==
  /\ Init
  /\ loopPhase = "starting" /\ isFirstStart = TRUE
  /\ server = FALSE /\ listening = FALSE
  /\ lock = TRUE /\ exit = "no"
  /\ shuttingDown = FALSE /\ request = "none" /\ requestPhase = "none"
  /\ runsWaiter = "none" /\ restarts = 0
  /\ embeddedRuns = {}
  /\ restartTimer = FALSE /\ restartPending = FALSE /\ polls = 0
  /\ sigterm = FALSE

Alive == exit = "no"

-----------------------------------------------------------------------------
(***************************************************************************)
(* The tasks: a lane task may register an embedded run for the length of   *)
(* an agent turn and clears it in its finally block.                       *)
(***************************************************************************)
QueueStep(A) ==
  /\ Alive
  /\ A
  /\ UNCHANGED <<lockVars, serverVars, requestVars, schedulerVars, embeddedRuns, sigterm>>

Enqueue(t) == QueueStep(EnqueueCommandInLane(t))
Refuse(t) == QueueStep(RefuseCommand(t))
Complete(t) == t \notin embeddedRuns /\ QueueStep(CompleteTask(t))

SetActiveEmbeddedRun(t) ==
  /\ Alive
  /\ status[t] = "running"
  /\ t \notin embeddedRuns
  /\ embeddedRuns' = embeddedRuns \cup {t}
  /\ UNCHANGED <<queueVars, lockVars, serverVars, requestVars, schedulerVars, sigterm>>

ClearActiveEmbeddedRun(t) ==
  /\ Alive
  /\ t \in embeddedRuns
  /\ embeddedRuns' = embeddedRuns \ {t}
  /\ UNCHANGED <<queueVars, lockVars, serverVars, requestVars, schedulerVars, sigterm>>

-----------------------------------------------------------------------------
(***************************************************************************)
(* request(action): the signal handlers end here.                          *)
(***************************************************************************)

\* What request() does up to its first await.  For "restart" it refuses new
\* tasks and starts both drain waits, each of which is over at once when there
\* is nothing to wait for; "stop" goes on to server.close(), and with no server
\* there is nothing to await.
BeginRequest(action) ==
  /\ shuttingDown' = TRUE
  /\ request' = action
  /\ IF action = "restart"
     THEN /\ restarts < MaxRestarts
          /\ restarts' = restarts + 1
          /\ gatewayDraining' = TRUE
          /\ SnapshotActive
          /\ runsWaiter' = IF embeddedRuns = {} THEN "drained" ELSE "waiting"
          /\ requestPhase' = "draining"
          /\ UNCHANGED <<laneVars, taskVars>>
     ELSE /\ requestPhase' = IF server THEN "closing" ELSE "closed"
          /\ UNCHANGED <<queueVars, runsWaiter, restarts>>
  /\ UNCHANGED <<lockVars, serverVars, embeddedRuns>>

\* onSigterm, onSigint.
ReceiveSigterm ==
  /\ Alive
  /\ ~sigterm
  /\ sigterm' = TRUE
  /\ UNCHANGED schedulerVars
  /\ IF shuttingDown
     THEN UNCHANGED <<queueVars, lockVars, serverVars, requestVars, embeddedRuns>>
     ELSE BeginRequest("stop")

\* emitGatewayRestart(), onSigusr1 and request("restart"), all synchronous.
EmitRestart ==
  /\ restartTimer' = FALSE
  /\ UNCHANGED sigterm
  /\ IF shuttingDown
     THEN UNCHANGED <<queueVars, lockVars, serverVars, requestVars, embeddedRuns>>
     ELSE BeginRequest("restart")

\* check() of waitForActiveTasks.
TasksDrained == QueueStep(WaitDrained)
TasksTimedOut == QueueStep(WaitTimedOut)

\* Bug: waitForActiveEmbeddedRuns has no deadline.
RunsSettle_NoDeadline ==
  /\ Alive
  /\ runsWaiter = "waiting"
  /\ embeddedRuns = {}
  /\ runsWaiter' = "drained"
  /\ UNCHANGED <<queueVars, lockVars, serverVars, shuttingDown, request, requestPhase, restarts,
                 schedulerVars, embeddedRuns, sigterm>>

\* The loop of waitForActiveEmbeddedRuns: it waits until no run at all is left.
RunsSettle ==
  /\ Alive
  /\ runsWaiter = "waiting"
  /\ runsWaiter' = IF embeddedRuns = {} THEN "drained" ELSE "timedOut"
  /\ UNCHANGED <<queueVars, lockVars, serverVars, shuttingDown, request, requestPhase, restarts,
                 schedulerVars, embeddedRuns, sigterm>>

\* Bug: the request goes on when the first of the two waits is over.
FinishDrain_Race ==
  /\ Alive
  /\ requestPhase = "draining"
  /\ waiter # "waiting" \/ runsWaiter # "waiting"
  /\ requestPhase' = IF server THEN "closing" ELSE "closed"
  /\ UNCHANGED <<queueVars, lockVars, serverVars, shuttingDown, request, runsWaiter, restarts,
                 schedulerVars, embeddedRuns, sigterm>>

\* Promise.all over both waits; then server?.close().
FinishDrain ==
  /\ Alive
  /\ requestPhase = "draining"
  /\ waiter # "waiting"
  /\ runsWaiter # "waiting"
  /\ requestPhase' = IF server THEN "closing" ELSE "closed"
  /\ UNCHANGED <<queueVars, lockVars, serverVars, shuttingDown, request, runsWaiter, restarts,
                 schedulerVars, embeddedRuns, sigterm>>

\* `await server?.close()` returns or throws; `server = null` either way.
ServerClosed ==
  /\ Alive
  /\ requestPhase = "closing"
  /\ requestPhase' = "closed"
  /\ server' = FALSE
  /\ listening' = FALSE
  /\ UNCHANGED <<queueVars, lockVars, loopPhase, isFirstStart, shuttingDown, request, runsWaiter,
                 restarts, schedulerVars, embeddedRuns, sigterm>>

\* The force-exit timer fires before server.close() returned.
ForceExit ==
  /\ Alive
  /\ requestPhase = "closing"
  /\ exit' = "error"
  /\ UNCHANGED <<queueVars, lock, serverVars, requestVars, schedulerVars, embeddedRuns, sigterm>>

HandleStopAfterServerClose ==
  /\ Alive
  /\ requestPhase = "closed" /\ request = "stop"
  /\ lock' = FALSE
  /\ exit' = "clean"
  /\ UNCHANGED <<queueVars, serverVars, requestVars, schedulerVars, embeddedRuns, sigterm>>

\* shuttingDown = false; restartResolver?.().  Only a loop that awaits its
\* restartResolver goes round: it resets the lanes and calls params.start().
ResumeLoop ==
  /\ shuttingDown' = FALSE
  /\ request' = "none"
  /\ requestPhase' = "none"
  /\ IF loopPhase = "waiting"
     THEN loopPhase' = "starting" /\ ResetAllLanes
     ELSE UNCHANGED <<loopPhase, queueVars>>
  /\ UNCHANGED <<isFirstStart, server, listening, runsWaiter, restarts, exit, schedulerVars,
                 embeddedRuns, sigterm>>

\* handleRestartAfterServerClose: release the lock, then respawn.
RestartInNewProcess ==
  /\ Alive
  /\ requestPhase = "closed" /\ request = "restart"
  /\ lock' = FALSE
  /\ exit' = "clean"
  /\ UNCHANGED <<queueVars, serverVars, requestVars, schedulerVars, embeddedRuns, sigterm>>

\* Respawn disabled or failed: the lock is released and, if it was held,
\* reacquired before the loop resumes.
FallBackToInProcess ==
  /\ Alive
  /\ requestPhase = "closed" /\ request = "restart"
  /\ lock' = FALSE
  /\ IF lock
     THEN /\ requestPhase' = "reacquiring"
          /\ UNCHANGED <<queueVars, serverVars, shuttingDown, request, runsWaiter, restarts, exit,
                         schedulerVars, embeddedRuns, sigterm>>
     ELSE ResumeLoop

ReacquireLock ==
  /\ Alive
  /\ requestPhase = "reacquiring"
  /\ lock' = TRUE
  /\ ResumeLoop

\* acquireGatewayLock throws: another gateway holds the lock.
ReacquireFails ==
  /\ Alive
  /\ requestPhase = "reacquiring"
  /\ exit' = "error"
  /\ UNCHANGED <<queueVars, lock, serverVars, requestVars, schedulerVars, embeddedRuns, sigterm>>

-----------------------------------------------------------------------------
(* The loop: params.start() returns or throws.                             *)

\* A new lifecycle has its own reload handler; polls of the old one go on.
StartSucceeds ==
  /\ Alive
  /\ loopPhase = "starting"
  /\ ~listening
  /\ loopPhase' = "waiting"
  /\ isFirstStart' = FALSE
  /\ server' = TRUE
  /\ listening' = TRUE
  /\ polls' = IF restartPending THEN polls + 1 ELSE polls
  /\ restartPending' = FALSE
  /\ UNCHANGED <<queueVars, lockVars, requestVars, restartTimer, embeddedRuns, sigterm>>

\* The first failure ends the process through the finally block, a later one
\* gives the lock back and leaves the process waiting for another restart.
StartFails ==
  /\ Alive
  /\ loopPhase = "starting"
  /\ lock' = FALSE
  /\ server' = FALSE
  /\ IF isFirstStart
     THEN exit' = "error" /\ UNCHANGED loopPhase
     ELSE loopPhase' = "waiting" /\ UNCHANGED exit
  /\ UNCHANGED <<queueVars, isFirstStart, listening, requestVars, schedulerVars, embeddedRuns,
                 sigterm>>

-----------------------------------------------------------------------------
(***************************************************************************)
(* restart.ts and the config watcher: who calls emitGatewayRestart().      *)
(***************************************************************************)

\* getPendingCount() = 0: nothing queued, active or in an agent turn.
Idle ==
  /\ \A l \in Lanes : queue[l] = <<>> /\ activeTaskIds[l] = {}
  /\ embeddedRuns = {}

\* scheduleGatewaySigusr1Restart: from an RPC, a tool, /restart, or an external
\* SIGUSR1 outside a shutdown.  A call while the timer is armed coalesces.
ScheduleRestart ==
  /\ Alive
  /\ ~restartTimer
  /\ restartTimer' = TRUE
  /\ UNCHANGED <<queueVars, lockVars, serverVars, requestVars, restartPending, polls,
                 embeddedRuns, sigterm>>

\* The timer fires: emit when idle, else deferGatewayRestartUntilIdle polls.
RestartTimerFires ==
  /\ Alive
  /\ restartTimer
  /\ IF Idle
     THEN EmitRestart /\ UNCHANGED <<restartPending, polls>>
     ELSE /\ polls < MaxPolls
          /\ restartTimer' = FALSE
          /\ polls' = polls + 1
          /\ UNCHANGED <<queueVars, lockVars, serverVars, requestVars, restartPending,
                         embeddedRuns, sigterm>>

\* A poll finds the gateway idle, or its deadline has passed.
PollEmits ==
  /\ Alive
  /\ polls > 0
  /\ polls' = polls - 1
  /\ EmitRestart
  /\ UNCHANGED restartPending

\* requestGatewayRestart of the config watcher, which lives with the server.
ConfigChangeNeedsRestart ==
  /\ Alive
  /\ listening
  /\ IF Idle
     THEN EmitRestart /\ UNCHANGED <<restartPending, polls>>
     ELSE /\ restartPending' = TRUE
          /\ UNCHANGED <<queueVars, lockVars, serverVars, requestVars, restartTimer, polls,
                         embeddedRuns, sigterm>>

WatcherPollEmits ==
  /\ Alive
  /\ restartPending
  /\ restartPending' = FALSE
  /\ EmitRestart
  /\ UNCHANGED polls

-----------------------------------------------------------------------------
LoopNext ==
  \/ \E t \in Tasks : Enqueue(t)
  \/ \E t \in Tasks : Refuse(t)
  \/ \E t \in Tasks : Complete(t)
  \/ \E t \in Tasks : SetActiveEmbeddedRun(t)
  \/ \E t \in Tasks : ClearActiveEmbeddedRun(t)
  \/ ReceiveSigterm
  \/ TasksDrained
  \/ TasksTimedOut
  \/ RunsSettle
  \/ FinishDrain
  \/ ServerClosed
  \/ ForceExit
  \/ HandleStopAfterServerClose
  \/ RestartInNewProcess
  \/ FallBackToInProcess
  \/ ReacquireLock
  \/ ReacquireFails
  \/ StartSucceeds
  \/ StartFails
  \/ ScheduleRestart
  \/ RestartTimerFires
  \/ PollEmits
  \/ ConfigChangeNeedsRestart
  \/ WatcherPollEmits

LoopSpec == LoopInit /\ [][LoopNext]_loopVars

OfThisLifecycle(t) == taskGeneration[t] = generation[LaneOf[t]]

\* Timers fire, awaited I/O returns (server.close() returns or its watchdog
\* fires), and tasks of the current lifecycle end, after finitely many agent
\* turns (hence SF: run.ts bounds its retry loop).  Nobody owes the gateway a
\* signal, a message or a configuration change.
LoopFairness ==
  /\ \A t \in Tasks : SF_loopVars(OfThisLifecycle(t) /\ Complete(t))
  /\ \A t \in Tasks : WF_loopVars(OfThisLifecycle(t) /\ ClearActiveEmbeddedRun(t))
  /\ WF_loopVars(TasksDrained \/ TasksTimedOut)
  /\ WF_loopVars(RunsSettle)
  /\ WF_loopVars(FinishDrain)
  /\ WF_loopVars(ServerClosed \/ ForceExit)
  /\ WF_loopVars(HandleStopAfterServerClose)
  /\ WF_loopVars(RestartInNewProcess \/ FallBackToInProcess)
  /\ WF_loopVars(ReacquireLock \/ ReacquireFails)
  /\ WF_loopVars(StartSucceeds \/ StartFails)

FairLoopSpec == LoopSpec /\ LoopFairness

-----------------------------------------------------------------------------
\* Every variable has its type, and a request is recorded exactly while the
\* loop is shutting down.
LoopTypeOK ==
  /\ TypeOK
  /\ loopPhase \in {"starting", "waiting"}
  /\ {isFirstStart, server, listening, lock, shuttingDown, restartTimer, restartPending, sigterm}
       \subseteq BOOLEAN
  /\ request \in (IF shuttingDown THEN {"stop", "restart"} ELSE {"none"})
  /\ requestPhase \in {"none", "draining", "closing", "closed", "reacquiring"}
  /\ runsWaiter \in {"none", "waiting", "drained", "timedOut"}
  /\ restarts \in 0..MaxRestarts /\ polls \in 0..MaxPolls + MaxRestarts
  /\ exit \in {"no", "clean", "error"}
  /\ embeddedRuns \subseteq Tasks

TearingDown == requestPhase \in {"closing", "closed", "reacquiring"} /\ request = "restart"

\* A restart tears the server down only when every task that was executing when
\* the signal came has settled, or the drain deadline passed.
TeardownWaits ==
  TearingDown /\ waiter # "timedOut" => \A t \in activeAtStart : status[t] = "done"

\* Every accepted request comes to an end, a stop by ending the process; no
\* stuck task, run or server.close() keeps the gateway half shut down.
ShutdownCompletes ==
  /\ shuttingDown ~> (~shuttingDown \/ ~Alive)
  /\ request = "stop" ~> ~Alive

\* An entry that is queued when a restart begins still starts, before the
\* server goes down or in the next lifecycle, unless the process ends.
QueuedOutlivesRestart ==
  \A t \in Tasks : status[t] = "queued" ~> (status[t] # "queued" \/ ~Alive)

\* Tasks are refused in the drain window of a shutdown only: a serving gateway
\* accepts work ("Reject new enqueues immediately during the drain window").
DrainingOnlyInShutdown == gatewayDraining => shuttingDown

\* A listening gateway holds the gateway lock.
ListeningUnderLock == listening => lock \/ shuttingDown

\* "On restart, wait for in-flight agent turns to finish before tearing down
\* the server": after a full drain no agent turn is in flight.
DrainedMeansNoTurnInFlight ==
  TearingDown /\ waiter = "drained" /\ runsWaiter = "drained" => embeddedRuns = {}

\* "SIGTERM/SIGINT still exit after a graceful shutdown."
SigtermExits == sigterm ~> ~Alive

=============================================================================
