----------------------------- MODULE CommandQueue -----------------------------
(***************************************************************************)
(* The in-process command queue (src/src/process/command-queue.ts): named  *)
(* lanes, each a FIFO of pending tasks and a set of executing ones bounded *)
(* by the lane's maxConcurrent.  The session, main, cron and subagent      *)
(* lanes of the gateway are all instances of it.                           *)
(*                                                                         *)
(* JavaScript runs one callback at a time, so every exported function and  *)
(* every continuation of `await entry.task()` is one action; the pump that *)
(* the code runs inside it is part of that action.  The code's `draining`  *)
(* flag is TRUE only while a pump is on the stack, so it is not state.     *)
(* nextTaskId++ gives each execution its own id and an entry executes at   *)
(* most once, so a task stands for its id.  A lane is created on first use *)
(* with the values of Init; one nobody has used is an idle one here.       *)
(***************************************************************************)
EXTENDS Integers, Sequences, FiniteSets, Functions

CONSTANTS Lanes,      \* the normalised lane names
          Tasks,      \* the entries that may be enqueued, each once
          LaneOf,     \* the lane each task is enqueued in
          Limits,     \* the values passed to setCommandLaneConcurrency
          MaxResets   \* bound on the number of resetAllLanes() calls

ASSUME ConstantsAssumption ==
  /\ IsFiniteSet(Tasks)
  /\ LaneOf \in [Tasks -> Lanes]
  /\ Limits \subseteq Int
  /\ MaxResets \in Nat

VARIABLES
  gatewayDraining,  \* new tasks are refused
  queue,            \* LaneState.queue
  activeTaskIds,    \* LaneState.activeTaskIds
  maxConcurrent,    \* LaneState.maxConcurrent
  generation,       \* LaneState.generation
  status,           \* where each task is, and how its promise was settled
  taskGeneration,   \* the generation the pump captured when it started the task
  activeAtStart,    \* the snapshot of a waitForActiveTasks call
  waiter            \* the state of that call's promise

laneVars == <<queue, activeTaskIds, maxConcurrent, generation>>
taskVars == <<status, taskGeneration>>
waitVars == <<activeAtStart, waiter>>
vars == <<gatewayDraining, laneVars, taskVars, waitVars>>

\* "done": the task ran and its promise was resolved or rejected with its result.
Settled == {"done", "cleared", "refused"}
TaskStatus == {"new", "queued", "running"} \cup Settled

Init ==
  /\ gatewayDraining = FALSE
  /\ queue = [l \in Lanes |-> <<>>]
  /\ activeTaskIds = [l \in Lanes |-> {}]
  /\ maxConcurrent = [l \in Lanes |-> 1]
  /\ generation = [l \in Lanes |-> 0]
  /\ status = [t \in Tasks |-> "new"]
  /\ taskGeneration = [t \in Tasks |-> 0]
  /\ activeAtStart = {}
  /\ waiter = "none"

-----------------------------------------------------------------------------
(***************************************************************************)
(* pump(): take entries from the front of the queue while there is a free  *)
(* slot.  StartCount is how many iterations the while loop makes.          *)
(***************************************************************************)
\* Bug: `<=` instead of `<` in the loop condition.
StartCount_OneTooMany(q, active, limit) ==
  LET free == limit - Cardinality(active) IN
  IF free < 0 THEN 0 ELSE IF free < Len(q) THEN free + 1 ELSE Len(q)

StartCount(q, active, limit) ==
  LET free == limit - Cardinality(active) IN
  IF free <= 0 THEN 0 ELSE IF free < Len(q) THEN free ELSE Len(q)

Started(q, active, limit) ==
  {q[i] : i \in 1..StartCount(q, active, limit)}

Remaining(q, active, limit) ==
  SubSeq(q, StartCount(q, active, limit) + 1, Len(q))

\* drainLane(l): pump lane l from queue q, active set active and limit, when
\* the caller has given the tasks the statuses st.
DrainLane(l, q, active, limit, st) ==
  LET started == Started(q, active, limit) IN
  /\ queue' = [queue EXCEPT ![l] = Remaining(q, active, limit)]
  /\ activeTaskIds' = [activeTaskIds EXCEPT ![l] = active \cup started]
  /\ status' = [t \in Tasks |-> IF t \in started THEN "running" ELSE st[t]]
  /\ taskGeneration' =
       [t \in Tasks |-> IF t \in started THEN generation[l] ELSE taskGeneration[t]]

-----------------------------------------------------------------------------
MarkGatewayDraining ==
  /\ gatewayDraining' = TRUE
  /\ UNCHANGED <<laneVars, taskVars, waitVars>>

\* Bug: the lane is not pumped after its limit is raised.
SetCommandLaneConcurrency_NoPump(l, n) ==
  /\ maxConcurrent' = [maxConcurrent EXCEPT ![l] = IF n < 1 THEN 1 ELSE n]
  /\ UNCHANGED <<gatewayDraining, queue, activeTaskIds, generation, taskVars, waitVars>>

\* setCommandLaneConcurrency: the limit is clamped to at least one slot.
SetCommandLaneConcurrency(l, n) ==
  LET limit == IF n < 1 THEN 1 ELSE n IN
  /\ maxConcurrent' = [maxConcurrent EXCEPT ![l] = limit]
  /\ DrainLane(l, queue[l], activeTaskIds[l], limit, status)
  /\ UNCHANGED <<gatewayDraining, generation, waitVars>>

\* Bug: unshift instead of push.
EnqueueCommandInLane_AtFront(t) ==
  LET l == LaneOf[t] IN
  /\ status[t] = "new"
  /\ ~gatewayDraining
  /\ DrainLane(l, <<t>> \o queue[l], activeTaskIds[l], maxConcurrent[l],
               [status EXCEPT ![t] = "queued"])
  /\ UNCHANGED <<gatewayDraining, maxConcurrent, generation, waitVars>>

EnqueueCommandInLane(t) ==
  LET l == LaneOf[t] IN
  /\ status[t] = "new"
  /\ ~gatewayDraining
  /\ DrainLane(l, Append(queue[l], t), activeTaskIds[l], maxConcurrent[l],
               [status EXCEPT ![t] = "queued"])
  /\ UNCHANGED <<gatewayDraining, maxConcurrent, generation, waitVars>>

\* enqueueCommandInLane while draining: rejected with GatewayDrainingError.
RefuseCommand(t) ==
  /\ status[t] = "new"
  /\ gatewayDraining
  /\ status' = [status EXCEPT ![t] = "refused"]
  /\ UNCHANGED <<gatewayDraining, laneVars, taskGeneration, waitVars>>

\* The continuation of `await entry.task()`: completeTask frees the slot and
\* the lane is pumped, unless the lane was reset since the task started.  The
\* catch branch does the same as the normal one.
CompleteTask(t) ==
  LET l == LaneOf[t]
      st == [status EXCEPT ![t] = "done"] IN
  /\ status[t] = "running"
  /\ IF taskGeneration[t] = generation[l]
     THEN DrainLane(l, queue[l], activeTaskIds[l] \ {t}, maxConcurrent[l], st)
     ELSE /\ status' = st
          /\ UNCHANGED <<queue, activeTaskIds, taskGeneration>>
  /\ UNCHANGED <<gatewayDraining, maxConcurrent, generation, waitVars>>

\* Bug: the entries are rejected but left in the queue.
ClearCommandLane_KeepsQueue(l) ==
  /\ status' = [t \in Tasks |-> IF t \in Range(queue[l]) THEN "cleared" ELSE status[t]]
  /\ UNCHANGED <<gatewayDraining, laneVars, taskGeneration, waitVars>>

\* clearCommandLane: reject every queued entry; running ones are untouched.
ClearCommandLane(l) ==
  /\ queue' = [queue EXCEPT ![l] = <<>>]
  /\ status' = [t \in Tasks |-> IF t \in Range(queue[l]) THEN "cleared" ELSE status[t]]
  /\ UNCHANGED <<gatewayDraining, activeTaskIds, maxConcurrent, generation,
                 taskGeneration, waitVars>>

\* Bug: the slots of the interrupted tasks are not given back.
ResetAllLanes_KeepsActive ==
  /\ \A l \in Lanes : generation[l] < MaxResets
  /\ gatewayDraining' = FALSE
  /\ generation' = [l \in Lanes |-> generation[l] + 1]
  /\ UNCHANGED <<queue, activeTaskIds, maxConcurrent, taskVars, waitVars>>

\* Bug: the lanes with preserved entries are not pumped.
ResetAllLanes_NoPump ==
  /\ \A l \in Lanes : generation[l] < MaxResets
  /\ gatewayDraining' = FALSE
  /\ generation' = [l \in Lanes |-> generation[l] + 1]
  /\ activeTaskIds' = [l \in Lanes |-> {}]
  /\ UNCHANGED <<queue, maxConcurrent, taskVars, waitVars>>

\* Bug: the queued entries are thrown away with the lane state.
ResetAllLanes_ClearsQueue ==
  /\ \A l \in Lanes : generation[l] < MaxResets
  /\ gatewayDraining' = FALSE
  /\ generation' = [l \in Lanes |-> generation[l] + 1]
  /\ queue' = [l \in Lanes |-> <<>>]
  /\ activeTaskIds' = [l \in Lanes |-> {}]
  /\ status' = [t \in Tasks |-> IF status[t] = "queued" THEN "cleared" ELSE status[t]]
  /\ UNCHANGED <<maxConcurrent, taskGeneration, waitVars>>

\* resetAllLanes: forget what is executing, keep what is queued, and pump
\* every lane against its empty active set.  Bound: MaxResets.
ResetAllLanes ==
  LET started == [l \in Lanes |-> Started(queue[l], {}, maxConcurrent[l])]
      next == [l \in Lanes |-> generation[l] + 1] IN
  /\ \A l \in Lanes : generation[l] < MaxResets
  /\ gatewayDraining' = FALSE
  /\ generation' = next
  /\ queue' = [l \in Lanes |-> Remaining(queue[l], {}, maxConcurrent[l])]
  /\ activeTaskIds' = started
  /\ status' = [t \in Tasks |-> IF t \in started[LaneOf[t]] THEN "running" ELSE status[t]]
  /\ taskGeneration' = [t \in Tasks |->
        IF t \in started[LaneOf[t]] THEN next[LaneOf[t]] ELSE taskGeneration[t]]
  /\ UNCHANGED <<maxConcurrent, waitVars>>

-----------------------------------------------------------------------------
AllActive == UNION {activeTaskIds[l] : l \in Lanes}

\* waitForActiveTasks(timeoutMs): snapshot what is executing now and run the
\* first check(); the following ones come from 50 ms timers.
SnapshotActive ==
  /\ activeAtStart' = AllActive
  /\ waiter' = IF AllActive = {} THEN "drained" ELSE "waiting"

\* One call at a time is modelled; the run loop makes no second one.
WaitForActiveTasks ==
  /\ waiter # "waiting"
  /\ SnapshotActive
  /\ UNCHANGED <<gatewayDraining, laneVars, taskVars>>

\* Bug: one settled task of the snapshot is enough.
WaitDrained_AnySettled ==
  /\ waiter = "waiting"
  /\ activeAtStart \ AllActive # {}
  /\ waiter' = "drained"
  /\ UNCHANGED <<gatewayDraining, laneVars, taskVars, activeAtStart>>

\* check(): nothing of the snapshot is active any more.
WaitDrained ==
  /\ waiter = "waiting"
  /\ activeAtStart \cap AllActive = {}
  /\ waiter' = "drained"
  /\ UNCHANGED <<gatewayDraining, laneVars, taskVars, activeAtStart>>

\* check() past the deadline with some of the snapshot still active.
WaitTimedOut ==
  /\ waiter = "waiting"
  /\ activeAtStart \cap AllActive # {}
  /\ waiter' = "timedOut"
  /\ UNCHANGED <<gatewayDraining, laneVars, taskVars, activeAtStart>>

-----------------------------------------------------------------------------
Next ==
  \/ MarkGatewayDraining
  \/ \E l \in Lanes, n \in Limits : SetCommandLaneConcurrency(l, n)
  \/ \E t \in Tasks : EnqueueCommandInLane(t)
  \/ \E t \in Tasks : RefuseCommand(t)
  \/ \E t \in Tasks : CompleteTask(t)
  \/ \E l \in Lanes : ClearCommandLane(l)
  \/ ResetAllLanes
  \/ WaitForActiveTasks
  \/ WaitDrained
  \/ WaitTimedOut

Spec == Init /\ [][Next]_vars

-----------------------------------------------------------------------------
\* Every variable has its type; a limit is at least one slot.
TypeOK ==
  /\ gatewayDraining \in BOOLEAN
  /\ queue \in [Lanes -> Seq(Tasks)]
  /\ activeTaskIds \in [Lanes -> SUBSET Tasks]
  /\ maxConcurrent \in [Lanes -> Nat \ {0}]
  /\ generation \in [Lanes -> Nat]
  /\ status \in [Tasks -> TaskStatus]
  /\ taskGeneration \in [Tasks -> Nat]
  /\ activeAtStart \subseteq Tasks
  /\ waiter \in {"none", "waiting", "drained", "timedOut"}

\* A task is queued exactly when its own lane's queue holds it, once: no entry
\* is lost between shift() and the start, and none is in two places.
QueueMatchesStatus ==
  \A l \in Lanes :
    /\ IsInjective(queue[l])
    /\ Range(queue[l]) = {t \in Tasks : LaneOf[t] = l /\ status[t] = "queued"}

\* A slot is held exactly by the tasks running in the lane's current
\* generation: a completion from before a reset neither frees nor keeps one.
SlotsMatchGeneration ==
  \A l \in Lanes : activeTaskIds[l] =
    {t \in Tasks : LaneOf[t] = l /\ status[t] = "running" /\ taskGeneration[t] = generation[l]}

\* No lost wake-up: whenever the event loop is idle, a lane with a backlog has
\* every slot taken, so nothing waits for an enqueue that may never come.
NoIdleSlotWithBacklog ==
  \A l \in Lanes : queue[l] # <<>> => Cardinality(activeTaskIds[l]) >= maxConcurrent[l]

\* No task runs with the generation of a restart that has not happened yet.
StartedBeforeNow ==
  \A t \in Tasks : status[t] = "running" => taskGeneration[t] <= generation[LaneOf[t]]

\* waitForActiveTasks answers drained only when every task of its snapshot has
\* settled, or was disowned by a later resetAllLanes.
DrainedMeansSettled ==
  waiter = "drained" =>
    \A t \in activeAtStart : status[t] \in Settled \/ taskGeneration[t] < generation[LaneOf[t]]

\* A step that starts a task leaves its lane within the limit, even right
\* after the limit was lowered below the number of executing tasks.
NeverStartsBeyondLimit ==
  [][\A l \in Lanes : ~(activeTaskIds'[l] \subseteq activeTaskIds[l])
       => Cardinality(activeTaskIds'[l]) <= maxConcurrent'[l]]_vars

Ahead(t, u) ==
  /\ LaneOf[t] = LaneOf[u]
  /\ \E i \in 1..Len(queue[LaneOf[t]]) :
       /\ queue[LaneOf[t]][i] = t
       /\ \/ status[u] = "new"
          \/ \E j \in i + 1..Len(queue[LaneOf[t]]) : queue[LaneOf[t]][j] = u

\* First in, first out: while an entry is queued, whoever was enqueued after it
\* stays behind it and does not start, across limit changes, clears and resets.
NoOvertaking ==
  [][\A t \in {x \in Tasks : status[x] = "queued" /\ status'[x] = "queued"}, u \in Tasks :
       Ahead(t, u) =>
         /\ status'[u] # "running"
         /\ status'[u] = "queued" => Ahead(t, u)']_vars

\* Queued work survives a restart: resetAllLanes only starts queued tasks, and
\* only an explicit clearCommandLane rejects one.
ResetKeepsQueued ==
  [][generation' # generation =>
       \A t \in Tasks : status[t] = "queued" => status'[t] \in {"queued", "running"}]_vars

-----------------------------------------------------------------------------
(***************************************************************************)
(* The abstract specification, and the refinement mapping: it sees neither *)
(* the order of a queue nor the generation of a task.                      *)
(***************************************************************************)
LifeOf(s) ==
  CASE s = "queued" -> "waiting"
    [] s \in {"cleared", "refused"} -> "rejected"
    [] OTHER -> s

Lifecycle == INSTANCE TaskLifecycle WITH
  accepting <- ~gatewayDraining,
  life <- [t \in Tasks |-> LifeOf(status[t])],
  slots <- activeTaskIds,
  limit <- maxConcurrent

\* Whatever the queue does is a step of TaskLifecycle or invisible there: a
\* slot is lent, kept and given back, and a task rejected, only as it says,
\* through limit changes, clears, completions from before a restart and resets.
ImplementsTaskLifecycle == Lifecycle!Spec

=============================================================================
