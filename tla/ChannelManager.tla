---------------------------- MODULE ChannelManager ----------------------------
(***************************************************************************)
(* The channel manager (src/src/gateway/server-channels.ts) for one account*)
(* of one channel: start and stop calls, the provider's task with its      *)
(* automatic restarts, and the callers that restart an account (config     *)
(* reload, health monitor, logout).                                        *)
(*                                                                         *)
(* A boot is one pass through startChannelInternal that reserves the       *)
(* account.  It owns an AbortController and later a task, so the maps      *)
(* `starting`, `aborts` and `tasks` hold boots here; NoBoot is a missing   *)
(* entry.  Boots that are over are used again.  One callback is one step;  *)
(* the continuation of a settled promise comes before any other callback,  *)
(* which Microtask in Next expresses.                                      *)
(***************************************************************************)
EXTENDS Integers, FiniteSets

CONSTANTS MaxBoots,     \* number of boots known at one time
          Calls,        \* stop calls that may be under way at one time
          MaxAttempts,  \* MAX_RESTART_ATTEMPTS
          StopHook      \* the plugin has gateway.stopAccount

ASSUME ChannelAssumption ==
  /\ MaxBoots \in Nat /\ MaxAttempts \in Nat
  /\ StopHook \in BOOLEAN

Boots == 1 .. MaxBoots
NoBoot == 0

VARIABLES
  pc,               \* where each boot is
  auto,             \* preserveRestartAttempts and preserveManualStop of the boot
  aborted,          \* its AbortController has fired
  starting,         \* store.starting
  aborts,           \* store.aborts
  tasks,            \* store.tasks
  manuallyStopped,
  restartAttempts,
  running,          \* the `running` flag of the account's runtime snapshot
  call,             \* the stop calls under way, and what follows each
  wanted,           \* history: the last call was a start
  userStopped,      \* history: an operator stopped it, and has not started it since
  down              \* history: crashed, to be restarted

bootVars == <<pc, auto, aborted>>
storeVars == <<starting, aborts, tasks>>
history == <<wanted, userStopped, down>>
vars == <<bootVars, storeVars, manuallyStopped, restartAttempts, running, call, history>>

Purposes == {"stop", "reload", "monitor", "logout"}
NoCall == [for |-> "none", stage |-> "idle", task |-> NoBoot]

Init ==
  /\ pc = [r \in Boots |-> "over"]
  /\ auto = [r \in Boots |-> FALSE]
  /\ aborted = [r \in Boots |-> FALSE]
  /\ starting = NoBoot /\ aborts = NoBoot /\ tasks = NoBoot
  /\ manuallyStopped = FALSE /\ restartAttempts = 0 /\ running = FALSE
  /\ call = [c \in Calls |-> NoCall]
  /\ wanted = FALSE /\ userStopped = FALSE /\ down = FALSE

\* maps.get(id) === own: a boot removes its own entries only.
Without(entry, r) == IF entry = r THEN NoBoot ELSE entry

Over(r) == \A q \in Boots : q = r => pc[q] = "over"

-----------------------------------------------------------------------------
(***************************************************************************)
(* startChannelInternal.                                                   *)
(***************************************************************************)
Free == {r \in Boots : pc[r] = "over" /\ \A c \in Calls : call[c].task # r}

\* Reserve the account and begin to await isConfigured, when the entries of a
\* boot that is over have become ab and tk.
Reserve(isAuto, st) ==
  \E r \in Free :
    /\ \A q \in Free : r <= q
    /\ pc' = [st EXCEPT ![r] = "configuring"]
    /\ auto' = [auto EXCEPT ![r] = isAuto]
    /\ aborted' = [aborted EXCEPT ![r] = FALSE]
    /\ starting' = r /\ aborts' = r
    /\ down' = down

\* The account is disabled, or resolving it throws.
Reject(st) ==
  /\ pc' = st /\ UNCHANGED <<auto, aborted, starting>>
  /\ aborts' = NoBoot
  /\ down' = FALSE

\* An account with a task, or with a start under way, is left alone.
StartAccount(isAuto, tk, st) ==
  /\ tasks' = tk
  /\ \/ /\ tk # NoBoot \/ starting # NoBoot
        /\ pc' = st /\ UNCHANGED <<auto, aborted, starting, aborts, down, running>>
     \/ /\ tk = NoBoot /\ starting = NoBoot
        /\ \/ Reserve(isAuto, st) /\ UNCHANGED running
           \/ Reject(st) /\ running' \in {running, FALSE}

\* startChannel by an operator, or startChannels.
StartChannel ==
  /\ StartAccount(FALSE, tasks, pc)
  /\ wanted' = TRUE /\ userStopped' = FALSE
  /\ UNCHANGED <<manuallyStopped, restartAttempts, call>>

\* The boot ends without a task: the finally block of the start.
EndStart(r) ==
  /\ pc' = [pc EXCEPT ![r] = "over"]
  /\ starting' = Without(starting, r)
  /\ aborts' = Without(aborts, r)
  /\ UNCHANGED <<auto, aborted, tasks, call, wanted, userStopped>>

\* isConfigured answers no, or rejects.
NotConfigured(r) ==
  /\ pc[r] = "configuring"
  /\ EndStart(r)
  /\ running' \in {running, FALSE}
  /\ down' = FALSE
  /\ UNCHANGED <<manuallyStopped, restartAttempts>>

MayBoot(r) == ~aborted[r] /\ ~(auto[r] /\ manuallyStopped)

\* Stopped while isConfigured was pending.
AbandonStart(r) ==
  /\ pc[r] = "configuring" /\ ~MayBoot(r)
  /\ manuallyStopped' = (auto[r] /\ manuallyStopped)
  /\ EndStart(r)
  /\ running' = FALSE
  /\ UNCHANGED <<restartAttempts, down>>

\* Mutant: a stop during isConfigured is not noticed.
Boot_IgnoresAbort(r) ==
  /\ pc[r] = "configuring" /\ ~(auto[r] /\ manuallyStopped)
  /\ manuallyStopped' = (auto[r] /\ manuallyStopped)
  /\ restartAttempts' = IF auto[r] THEN restartAttempts ELSE 0
  /\ running' = TRUE
  /\ pc' = [pc EXCEPT ![r] = "running"]
  /\ starting' = Without(starting, r)
  /\ tasks' = r
  /\ down' = FALSE
  /\ UNCHANGED <<auto, aborted, aborts, call, wanted, userStopped>>

\* startAccount is called and its promise tracked.
Boot(r) ==
  /\ pc[r] = "configuring" /\ MayBoot(r)
  /\ manuallyStopped' = (auto[r] /\ manuallyStopped)
  /\ restartAttempts' = IF auto[r] THEN restartAttempts ELSE 0
  /\ running' = TRUE
  /\ pc' = [pc EXCEPT ![r] = "running"]
  /\ starting' = Without(starting, r)
  /\ tasks' = r
  /\ down' = FALSE
  /\ UNCHANGED <<auto, aborted, aborts, call, wanted, userStopped>>

\* startAccount, or the loading of the plugin runtime before it, throws.
BootThrows(r) ==
  /\ pc[r] = "configuring" /\ MayBoot(r)
  /\ manuallyStopped' = (auto[r] /\ manuallyStopped)
  /\ restartAttempts' = IF auto[r] THEN restartAttempts ELSE 0
  /\ running' = TRUE
  /\ EndStart(r)
  /\ down' = FALSE

-----------------------------------------------------------------------------
(***************************************************************************)
(* The tracked promise: the provider ends, backs off, restarts.            *)
(***************************************************************************)
\* Its last finally block.
EndTask(r) ==
  /\ pc' = [pc EXCEPT ![r] = "over"]
  /\ tasks' = Without(tasks, r)
  /\ aborts' = Without(aborts, r)
  /\ UNCHANGED <<auto, aborted, starting, manuallyStopped, call, wanted, userStopped>>

\* The provider returns or rejects, because it was aborted or by itself.
ProviderExits(r) ==
  LET attempt == restartAttempts + 1 IN
  /\ pc[r] = "running"
  /\ running' = FALSE
  /\ IF manuallyStopped
     THEN EndTask(r) /\ UNCHANGED <<restartAttempts, down>>
     ELSE /\ restartAttempts' = attempt
          /\ IF attempt > MaxAttempts
             THEN EndTask(r) /\ UNCHANGED down
             ELSE /\ pc' = [pc EXCEPT ![r] = "backoff"]
                  /\ down' = ~aborted[r]
                  /\ UNCHANGED <<auto, aborted, storeVars, manuallyStopped, call, wanted, userStopped>>

\* The signal interrupts sleepWithAbort.
BackoffAborted(r) ==
  /\ pc[r] = "backoff" /\ aborted[r]
  /\ EndTask(r)
  /\ UNCHANGED <<restartAttempts, running, down>>

\* Mutant: the task's own entry still blocks the start.
BackoffEnds_KeepsTask(r) ==
  /\ pc[r] = "backoff" /\ ~aborted[r]
  /\ EndTask(r)
  /\ UNCHANGED <<restartAttempts, running, down>>

\* Mutant: the last finally block removes the entries of the new boot as well.
BackoffEnds_ClearsAll(r) ==
  /\ pc[r] = "backoff" /\ ~aborted[r] /\ ~manuallyStopped
  /\ \E q \in Free :
       /\ pc' = [pc EXCEPT ![r] = "over", ![q] = "configuring"]
       /\ auto' = [auto EXCEPT ![q] = TRUE]
       /\ aborted' = [aborted EXCEPT ![q] = FALSE]
       /\ starting' = q
  /\ aborts' = NoBoot /\ tasks' = NoBoot
  /\ UNCHANGED <<manuallyStopped, restartAttempts, running, call, history>>

\* The timer fires; without a stop the task hands over to a new boot.
BackoffEnds(r) ==
  /\ pc[r] = "backoff" /\ ~aborted[r]
  /\ UNCHANGED restartAttempts
  /\ IF manuallyStopped
     THEN EndTask(r) /\ UNCHANGED <<running, down>>
     ELSE /\ StartAccount(TRUE, Without(tasks, r), [pc EXCEPT ![r] = "over"])
          /\ UNCHANGED <<manuallyStopped, call, wanted, userStopped>>

-----------------------------------------------------------------------------
(***************************************************************************)
(* stopChannel and its callers.                                            *)
(***************************************************************************)
\* With nothing to stop the call returns before it records the manual stop.
NothingToStop == aborts = NoBoot /\ tasks = NoBoot /\ ~StopHook

\* Mutant: the provider is not told.
StopAccount_NoAbort(c, purpose) ==
  /\ manuallyStopped' = (manuallyStopped \/ ~NothingToStop)
  /\ aborted' = aborted
  /\ call' = [call EXCEPT ![c] =
       [for |-> purpose, task |-> tasks,
        stage |-> IF NothingToStop THEN "stopped" ELSE "waiting"]]

\* The synchronous part: mark, abort, and await the hook and the task.
StopAccount(c, purpose) ==
  /\ manuallyStopped' = (manuallyStopped \/ ~NothingToStop)
  /\ aborted' = [r \in Boots |-> aborted[r] \/ r = aborts]
  /\ call' = [call EXCEPT ![c] =
       [for |-> purpose, task |-> tasks,
        stage |-> IF NothingToStop THEN "stopped" ELSE IF StopHook THEN "hook" ELSE "waiting"]]

StopChannel(c, purpose) ==
  /\ call[c] = NoCall
  /\ StopAccount(c, purpose)
  /\ wanted' = FALSE /\ down' = FALSE
  /\ userStopped' = (userStopped \/ (purpose \in {"stop", "logout"} /\ ~NothingToStop))
  /\ UNCHANGED <<pc, auto, storeVars, restartAttempts, running>>

\* The hook has returned, or the task has settled.
CanResume(c) == call[c].stage = "waiting" /\ Over(call[c].task)

\* The cleanup after both, whoever owns the entries by now.
StopResumes(c) ==
  /\ call[c].stage = "hook" \/ CanResume(c)
  /\ IF Over(call[c].task)
     THEN /\ aborts' = NoBoot /\ tasks' = NoBoot
          /\ running' = FALSE
          /\ call' = [call EXCEPT ![c].stage = "stopped", ![c].task = NoBoot]
     ELSE /\ call' = [call EXCEPT ![c].stage = "waiting"]
          /\ UNCHANGED <<aborts, tasks, running>>
  /\ UNCHANGED <<bootVars, starting, manuallyStopped, restartAttempts, history>>

\* A stop of an operator; logout marks the account once the plugin has logged out.
StopReturns(c) ==
  /\ call[c].stage = "stopped" /\ call[c].for \in {"stop", "logout"}
  /\ running' = IF call[c].for = "logout" THEN FALSE ELSE running
  /\ call' = [call EXCEPT ![c] = NoCall]
  /\ UNCHANGED <<bootVars, storeVars, manuallyStopped, restartAttempts, history>>

\* restartChannel of a config reload, and the health monitor, start it again.
RestartStopped(c) ==
  /\ call[c].stage = "stopped" /\ call[c].for \in {"reload", "monitor"}
  /\ StartAccount(FALSE, tasks, pc)
  /\ call' = [call EXCEPT ![c] = NoCall]
  /\ restartAttempts' = IF call[c].for = "monitor" THEN 0 ELSE restartAttempts
  /\ wanted' = TRUE
  /\ userStopped' = (userStopped /\ call[c].for = "monitor")
  /\ UNCHANGED manuallyStopped

\* runCheck: one check at a time, for an unhealthy account nobody stopped.
MonitorChecks == ~manuallyStopped /\ \A c \in Calls : call[c].for # "monitor"

MonitorStops(c) == MonitorChecks /\ running /\ StopChannel(c, "monitor")

MonitorStarts ==
  /\ MonitorChecks /\ ~running
  /\ StartAccount(FALSE, tasks, pc)
  /\ restartAttempts' = 0
  /\ wanted' = TRUE
  /\ UNCHANGED <<manuallyStopped, call, userStopped>>

-----------------------------------------------------------------------------
Microtask ==
  \/ \E r \in Boots : pc[r] = "backoff" /\ aborted[r]
  \/ \E c \in Calls : CanResume(c)
  \/ \E c \in Calls : call[c].stage = "stopped" /\ call[c].for # "logout"

Starting(r) == NotConfigured(r) \/ AbandonStart(r) \/ Boot(r) \/ BootThrows(r)

Stopping(c) == StopResumes(c) \/ StopReturns(c) \/ RestartStopped(c)

Callback ==
  \/ StartChannel
  \/ \E r \in Boots : Starting(r)
  \/ \E r \in Boots : ProviderExits(r)
  \/ \E r \in Boots : BackoffEnds(r)
  \/ \E c \in Calls, purpose \in {"stop", "reload", "logout"} : StopChannel(c, purpose)
  \/ \E c \in Calls : MonitorStops(c)
  \/ MonitorStarts

\* Both waits of several calls end before any of the callers goes on.
Next ==
  \/ \E r \in Boots : BackoffAborted(r)
  \/ \E c \in Calls :
       /\ call[c].stage = "stopped" => ~\E d \in Calls : CanResume(d)
       /\ Stopping(c)
  \/ ~Microtask /\ Callback

Spec == Init /\ [][Next]_vars

\* isConfigured settles, timers fire, an aborted provider ends, logouts and
\* hooks return.  A provider that is not told to end may run for ever.
Fairness ==
  /\ \A r \in Boots :
       /\ WF_vars(~Microtask /\ Starting(r))
       /\ WF_vars(~Microtask /\ aborted[r] /\ ProviderExits(r))
       /\ WF_vars(~Microtask /\ BackoffEnds(r))
       /\ WF_vars(BackoffAborted(r))
  /\ \A c \in Calls : WF_vars(Stopping(c))

FairSpec == Spec /\ Fairness

-----------------------------------------------------------------------------
(* Properties.                                                             *)

(* Every variable has its type; crashes are counted up to the limit only,  *)
(* whatever the monitor, stops and lost starts do to the counter.          *)
ChannelTypeOK ==
  /\ pc \in [Boots -> {"configuring", "running", "backoff", "over"}]
  /\ auto \in [Boots -> BOOLEAN] /\ aborted \in [Boots -> BOOLEAN]
  /\ {starting, aborts, tasks} \subseteq Boots \cup {NoBoot}
  /\ restartAttempts \in 0 .. MaxAttempts + 1
  /\ {manuallyStopped, running, wanted, userStopped, down} \subseteq BOOLEAN
  /\ call \in [Calls -> [for : Purposes \cup {"none"}, stage : {"idle", "hook", "waiting", "stopped"},
                         task : Boots \cup {NoBoot}]]

(* Every provider can be stopped, and there is never a second one: what    *)
(* boots, runs or backs off is the entry of the maps that a stop looks up, *)
(* or has been aborted already.                                            *)
ProviderUnderControl ==
  \A r \in Boots :
    /\ pc[r] \in {"running", "backoff"} => tasks = r /\ aborts = r
    /\ pc[r] = "configuring" =>
         tasks = NoBoot /\ starting = r /\ (aborts = r \/ aborted[r])

(* A stop holds until somebody starts the account again: whether it met a  *)
(* start under way, a provider, its crash or its backoff, nothing runs     *)
(* once the call has returned, and no pending start or timer revives it.   *)
StopSticks ==
  ~wanted /\ (\A c \in Calls : call[c].stage \notin {"hook", "waiting"}) =>
    \A r \in Boots :
      /\ pc[r] \notin {"running", "backoff"}
      /\ pc[r] = "configuring" => ~MayBoot(r)

(* Every stop call returns: whatever task it waits for was told to end.    *)
StopsReturn == \A c \in Calls : call[c] # NoCall ~> call[c] = NoCall

(* A crashed account comes back unless it is stopped, its start fails, or  *)
(* its attempts are used up: the backoff timer's start is never lost.      *)
CrashRestarts == down ~> ~down

(* "Tracks accounts that were manually stopped so we don't auto-restart    *)
(* them": an operator's stop holds until an operator starts the account.   *)
ManualStopRespected ==
  userStopped /\ (\A c \in Calls : call[c].stage \notin {"hook", "waiting"}) =>
    \A r \in Boots : pc[r] # "running"

(* A start that follows a stop is not swallowed by the start it aborted.   *)
StartNotSwallowed ==
  [][~wanted /\ wanted' => starting' = NoBoot \/ ~aborted'[starting']]_vars

(* The runtime snapshot, which the health monitor trusts, says running     *)
(* only while a provider exists.                                           *)
RunningMeansProvider == running => \E r \in Boots : pc[r] = "running"
=============================================================================
