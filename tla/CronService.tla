------------------------------ MODULE CronService ------------------------------
(***************************************************************************)
(* The cron service (src/src/cron/service): jobs in a store on disk, a     *)
(* copy of it in the memory of every service, one timer per service, the   *)
(* tick that runs due jobs outside the store lock, the catch-up of a       *)
(* start, and the operations of the user.                                  *)
(*                                                                         *)
(* The body of one `locked` call is one step: it holds the lock of the     *)
(* store path and ends with the save.  Time is kept as what the code asks  *)
(* of it: a slot lies `later` than now or is `due`.  Runs end before       *)
(* STUCK_RUN_MS and saves succeed.                                         *)
(***************************************************************************)
EXTENDS Naturals, FiniteSets

CONSTANTS Jobs,
          Recurring,     \* jobs with an "every" or "cron" schedule; others run once, "at" a time
          Services,      \* CronService objects on the one store path
          MaxImmediate,  \* maxMissedJobsPerRestart
          MaxCrashes,    \* bound on the crashes of the process
          MaxEdits       \* bound on the edits of the user

ASSUME CronAssumption ==
  /\ Recurring \subseteq Jobs /\ IsFiniteSet(Jobs)
  /\ MaxImmediate \in Nat /\ MaxCrashes \in Nat /\ MaxEdits \in Nat

VARIABLES
  disk,      \* the store file
  mem,       \* state.store of each service
  stage,     \* how far start() is
  skip,      \* startupInterruptedJobIds
  deferred,  \* deferredJobIds of the catch-up plan
  timer,     \* state.timer is set
  tick,      \* where onTimer is, behind state.running
  run,       \* the jobs each part of a service has taken to run, until their
             \* outcomes are in the store
  asked,     \* jobs to be run manually, between the two locked sections
  current,   \* the service the gateway hands requests to
  crashes, edits,
  disowned   \* history: the job is or was disabled during a run under way

storeVars == <<disk, mem>>
startVars == <<stage, skip, deferred>>
timerVars == <<timer, tick>>
vars == <<storeVars, startVars, timerVars, run, asked, current, crashes, edits, disowned>>

Owners == Services \X {"start", "tick", "manual"}

\* at is the schedule of a one-shot job; last is its lastStatus, "moved" when it
\* is ok but the schedule lies after that run, "failed" for an error or a skip.
NoJob == [here |-> FALSE, enabled |-> FALSE, next |-> "none", running |-> FALSE,
          at |-> "due", last |-> "none"]

NewJob(j) == [here |-> TRUE, enabled |-> TRUE, next |-> "later", running |-> FALSE,
              at |-> IF j \in Recurring THEN "due" ELSE "later", last |-> "none"]

\* An earlier process has left some jobs in the store.
Init ==
  /\ disk \in {store \in [Jobs -> {NoJob} \cup {NewJob(j) : j \in Jobs}] :
                \A j \in Jobs : store[j] \in {NoJob, NewJob(j)}}
  /\ mem = [s \in Services |-> [j \in Jobs |-> NoJob]]
  /\ stage = [s \in Services |-> "off"]
  /\ skip = [s \in Services |-> {}] /\ deferred = [s \in Services |-> {}]
  /\ timer = [s \in Services |-> FALSE] /\ tick = [s \in Services |-> "idle"]
  /\ run = [o \in Owners |-> {}] /\ asked = [s \in Services |-> {}]
  /\ current \in Services
  /\ crashes = 0 /\ edits = 0
  /\ disowned = [j \in Jobs |-> FALSE]

-----------------------------------------------------------------------------
(* Jobs and stores (jobs.ts).                                              *)

\* computeJobNextRunAtMs
NextRunAt(j, job) ==
  CASE ~job.enabled -> "none"
    [] job.enabled /\ j \in Recurring -> "later"
    [] job.enabled /\ j \notin Recurring -> IF job.last = "ok" THEN "none" ELSE job.at

\* normalizeJobTickState
Normalized(job) == IF job.enabled THEN job ELSE [job EXCEPT !.next = "none", !.running = FALSE]

\* recomputeNextRuns: a missing or past-due time is computed anew.
Recomputed(store) ==
  [j \in Jobs |-> LET job == Normalized(store[j]) IN
     IF job.next = "later" THEN job ELSE [job EXCEPT !.next = NextRunAt(j, job)]]

\* recomputeNextRunsForMaintenance: a past-due time is kept.  A slot that has
\* run already is only ever past due for a one-shot job, whose time stays.
Maintained(store) ==
  [j \in Jobs |-> LET job == Normalized(store[j]) IN
     IF job.next # "none" THEN job ELSE [job EXCEPT !.next = NextRunAt(j, job)]]

Due(job) == job.enabled /\ job.next = "due"
Runnable(job) == Due(job) /\ ~job.running

\* What a run that ended can come to: "deleted" is ok with deleteAfterRun, "retry"
\* a transient error with retries left, "failed" any other error or a skip.
Results == {"ok", "deleted", "retry", "failed"}

\* What the one-shot jobs among some jobs come to; for the others it is all the same.
ResultsOf(jobs) == [jobs \ Recurring -> Results]

\* applyJobResult
Outcome(j, job, result) ==
  LET done == [job EXCEPT !.running = FALSE] IN
  CASE ~job.here -> job
    [] job.here /\ j \in Recurring -> [done EXCEPT !.next = NextRunAt(j, job)]
    [] job.here /\ j \notin Recurring ->
         CASE result[j] = "deleted" -> NoJob
           [] result[j] = "retry" -> [done EXCEPT !.next = "later", !.last = "failed"]
           [] result[j] \in {"ok", "failed"} ->
                [done EXCEPT !.enabled = FALSE, !.next = "none",
                  !.last = IF result[j] = "ok" /\ job.at = "later" THEN "moved" ELSE result[j]]

\* The outcomes of all the runs of an owner, on a store.
Applied(store, o, result) ==
  [j \in Jobs |-> IF j \in run[o] THEN Outcome(j, store[j], result) ELSE store[j]]

\* persist writes the service's own copy.
Save(s, store) ==
  /\ mem' = [mem EXCEPT ![s] = store]
  /\ disk' = store

HasNext(store) == \E j \in Jobs : store[j].enabled /\ store[j].next # "none"

ArmTimer(s, store) == timer' = [timer EXCEPT ![s] = HasNext(store)]

\* armRunningRecheckTimer
ArmRecheckTimer(s) == timer' = [timer EXCEPT ![s] = TRUE]

\* The runs of an owner are over; a job nobody runs is not disowned.
Release(o) ==
  /\ run' = [run EXCEPT ![o] = {}]
  /\ disowned' = [j \in Jobs |-> disowned[j] /\ \E p \in Owners \ {o} : j \in run[p]]

-----------------------------------------------------------------------------
(* start() (ops.ts) and its catch-up (timer.ts).                           *)

\* Boot, or the boot after a crash, of the gateway.
Start(s) ==
  /\ s = current /\ \A t \in Services : stage[t] = "off"
  /\ stage' = [stage EXCEPT ![s] = "clear"]
  /\ UNCHANGED <<storeVars, skip, deferred, timerVars, run, asked, current, crashes, edits, disowned>>

\* Mutant: the markers are looked at, but stay.
ClearMarkers_Keeps(s) ==
  LET stale == {j \in Jobs : disk[j].running} IN
  /\ stage[s] = "clear"
  /\ Save(s, disk)
  /\ skip' = [skip EXCEPT ![s] = stale]
  /\ stage' = [stage EXCEPT ![s] = "plan"]
  /\ UNCHANGED <<deferred, timerVars, run, asked, current, crashes, edits, disowned>>

\* The markers of runs that a crash interrupted are cleared.
ClearMarkers(s) ==
  LET stale == {j \in Jobs : disk[j].running} IN
  /\ stage[s] = "clear"
  /\ Save(s, [j \in Jobs |-> [disk[j] EXCEPT !.running = FALSE]])
  /\ skip' = [skip EXCEPT ![s] = stale]
  /\ stage' = [stage EXCEPT ![s] = "plan"]
  /\ disowned' = [j \in Jobs |-> disowned[j] \/ (j \in stale /\ \E o \in Owners : j \in run[o])]
  /\ UNCHANGED <<deferred, timerVars, run, asked, current, crashes, edits>>

\* A recurring job whose time is still to come may have missed an earlier slot;
\* a one-shot job that failed is missed only if this was to be its retry.
Missed(s, j) ==
  j \notin skip[s] /\ Runnable(mem[s][j]) /\ (j \in Recurring \/ mem[s][j].last = "none")
MayBeMissed(s, j) ==
  /\ j \notin skip[s] /\ mem[s][j].enabled /\ ~mem[s][j].running
  /\ \/ j \in Recurring /\ mem[s][j].next # "none"
     \/ j \notin Recurring /\ mem[s][j].next = "due" /\ mem[s][j].last \in {"none", "failed"}

\* The first MaxImmediate missed jobs are marked, the others put off.
PlanCatchup(s) ==
  /\ stage[s] = "plan"
  /\ \E missed \in SUBSET {j \in Jobs : MayBeMissed(s, j)} :
       /\ {j \in Jobs : Missed(s, j)} \subseteq missed
       /\ \/ /\ missed = {}
             /\ stage' = [stage EXCEPT ![s] = "finish"]
             /\ UNCHANGED <<storeVars, deferred, run>>
          \/ \E chosen \in SUBSET missed :
               /\ missed # {}
               /\ chosen = missed \/ Cardinality(chosen) = MaxImmediate
               /\ Cardinality(chosen) <= MaxImmediate
               /\ Save(s, [j \in Jobs |-> [mem[s][j] EXCEPT !.running = @ \/ j \in chosen]])
               /\ run' = [run EXCEPT ![<<s, "start">>] = chosen]
               /\ deferred' = [deferred EXCEPT ![s] = missed \ chosen]
               /\ stage' = [stage EXCEPT ![s] = "catchup"]
  /\ UNCHANGED <<skip, timerVars, asked, current, crashes, edits, disowned>>

\* The outcomes go to the copy in memory, the deferred jobs get a later time.
ApplyCatchup(s) ==
  /\ stage[s] = "catchup"
  /\ \E result \in ResultsOf(run[<<s, "start">>]) :
       LET applied == Applied(mem[s], <<s, "start">>, result) IN
       Save(s, Maintained([j \in Jobs |->
         IF j \in deferred[s] /\ applied[j].enabled THEN [applied[j] EXCEPT !.next = "later"]
         ELSE applied[j]]))
  /\ Release(<<s, "start">>)
  /\ deferred' = [deferred EXCEPT ![s] = {}]
  /\ stage' = [stage EXCEPT ![s] = "applied"]
  /\ UNCHANGED <<skip, timerVars, asked, current, crashes, edits>>

\* What is due in memory by now is computed anew, without a run.
FinishStart(s) ==
  LET store == Recomputed(mem[s]) IN
  /\ stage[s] \in {"applied", "finish"}
  /\ IF store # mem[s] THEN Save(s, store) ELSE UNCHANGED storeVars
  /\ ArmTimer(s, store)
  /\ stage' = [stage EXCEPT ![s] = "on"]
  /\ skip' = [skip EXCEPT ![s] = {}]
  /\ UNCHANGED <<deferred, tick, run, asked, current, crashes, edits, disowned>>

-----------------------------------------------------------------------------
(* onTimer (timer.ts).                                                     *)

\* Mutant: the early return of a timer that fires during a tick sets no other.
TimerFires_ReturnsEarly(s) ==
  /\ timer[s]
  /\ tick' = [tick EXCEPT ![s] = IF @ = "idle" THEN "collect" ELSE @]
  /\ timer' = [timer EXCEPT ![s] = tick[s] = "idle"]
  /\ UNCHANGED <<storeVars, startVars, run, asked, current, crashes, edits, disowned>>

\* The timer is used up.  A tick starts, or the one under way goes on; either
\* way the watchdog is armed.
TimerFires(s) ==
  /\ timer[s]
  /\ tick' = [tick EXCEPT ![s] = IF @ = "idle" THEN "collect" ELSE @]
  /\ ArmRecheckTimer(s)
  /\ UNCHANGED <<storeVars, startVars, run, asked, current, crashes, edits, disowned>>

\* The store is read again and the due jobs are marked.
CollectDue(s) ==
  LET due == {j \in Jobs : Runnable(disk[j])} IN
  /\ tick[s] = "collect"
  /\ Save(s, IF due = {} THEN Maintained(disk)
             ELSE [j \in Jobs |-> [disk[j] EXCEPT !.running = @ \/ j \in due]])
  /\ run' = [run EXCEPT ![<<s, "tick">>] = due]
  /\ tick' = [tick EXCEPT ![s] = IF due = {} THEN "end" ELSE "run"]
  /\ UNCHANGED <<startVars, timer, asked, current, crashes, edits, disowned>>

\* Mutant: all times are computed anew, as the code once did.
ApplyOutcomes_Recomputes(s) ==
  /\ tick[s] = "run"
  /\ \E result \in ResultsOf(run[<<s, "tick">>]) : Save(s, Recomputed(Applied(disk, <<s, "tick">>, result)))
  /\ Release(<<s, "tick">>)
  /\ tick' = [tick EXCEPT ![s] = "end"]
  /\ UNCHANGED <<startVars, timer, asked, current, crashes, edits>>

\* All the runs of the batch are over for the service, each by its timeout at the
\* latest, although a core that timed out may go on: the outcomes go to the
\* store, read again.
ApplyOutcomes(s) ==
  /\ tick[s] = "run"
  /\ \E result \in ResultsOf(run[<<s, "tick">>]) : Save(s, Maintained(Applied(disk, <<s, "tick">>, result)))
  /\ Release(<<s, "tick">>)
  /\ tick' = [tick EXCEPT ![s] = "end"]
  /\ UNCHANGED <<startVars, timer, asked, current, crashes, edits>>

\* The finally block, whether the service was stopped or not.
EndTick(s) ==
  /\ tick[s] = "end"
  /\ tick' = [tick EXCEPT ![s] = "idle"]
  /\ ArmTimer(s, mem[s])
  /\ UNCHANGED <<storeVars, startVars, run, asked, current, crashes, edits, disowned>>

-----------------------------------------------------------------------------
(* Operations of the user (ops.ts), and manual runs.                       *)

\* Requests queue up behind the first locked section of start().
Serving(s) == s = current /\ stage[s] \notin {"off", "clear"}

\* Every edit saves the copy in memory and arms the timer by it.
Edit(s, store) ==
  /\ Serving(s)
  /\ edits < MaxEdits /\ edits' = edits + 1
  /\ Save(s, store) /\ ArmTimer(s, store)
  /\ UNCHANGED <<startVars, tick, run, asked, current, crashes>>

\* A job that nothing remembers stands for a new one.
Unknown(j) ==
  /\ ~disk[j].here /\ \A s \in Services : ~mem[s][j].here /\ j \notin skip[s] \cup deferred[s]
  /\ (\A o \in Owners : j \notin run[o]) /\ \A s \in Services : j \notin asked[s]

Add(s, j) ==
  /\ Unknown(j)
  /\ Edit(s, Recomputed([mem[s] EXCEPT ![j] = NewJob(j)]))
  /\ UNCHANGED disowned

\* update() with enabled: false
Disable(s, j) ==
  /\ mem[s][j].here
  /\ Edit(s, [mem[s] EXCEPT ![j].enabled = FALSE, ![j].next = "none", ![j].running = FALSE])
  /\ disowned' = [disowned EXCEPT ![j] = @ \/ \E o \in Owners : j \in run[o]]

\* update() with enabled: true
Enable(s, j) ==
  LET job == [mem[s][j] EXCEPT !.enabled = TRUE] IN
  /\ mem[s][j].here
  /\ Edit(s, [mem[s] EXCEPT ![j] = [job EXCEPT !.next = NextRunAt(j, job)]])
  /\ UNCHANGED disowned

\* update() with a new schedule, which lies in the future.
Reschedule(s, j) ==
  LET job == IF j \in Recurring THEN mem[s][j]
             ELSE [mem[s][j] EXCEPT !.at = "later", !.last = IF @ = "ok" THEN "moved" ELSE @] IN
  /\ mem[s][j].here
  /\ Edit(s, [mem[s] EXCEPT ![j] =
       IF job.enabled THEN [job EXCEPT !.next = NextRunAt(j, job)]
       ELSE [job EXCEPT !.next = "none", !.running = FALSE]])
  /\ UNCHANGED disowned

Remove(s, j) ==
  /\ mem[s][j].here
  /\ Edit(s, [mem[s] EXCEPT ![j] = NoJob])
  /\ disowned' = [disowned EXCEPT ![j] = @ \/ \E o \in Owners : j \in run[o]]

\* list(), listPage() and status(): ensureLoadedForRead saves what it repairs.
Read(s) ==
  /\ Serving(s)
  /\ Maintained(mem[s]) # mem[s]
  /\ Save(s, Maintained(mem[s]))
  /\ UNCHANGED <<startVars, timerVars, run, asked, current, crashes, edits, disowned>>

\* inspectManualRunPreflight, forced or not: of the lane's runs there is one at a time.
PreflightManual(s, j) ==
  LET store == Maintained(mem[s]) IN
  /\ Serving(s)
  /\ \A t \in Services : asked[t] \cup run[<<t, "manual">>] = {}
  /\ store[j].here /\ ~store[j].running
  /\ mem' = [mem EXCEPT ![s] = store]
  /\ asked' = [asked EXCEPT ![s] = {j}]
  /\ UNCHANGED <<disk, startVars, timerVars, run, current, crashes, edits, disowned>>

\* Mutant: the second locked section does not look at the marker again.
ReserveManual_Blind(s, j) ==
  LET job == mem[s][j] IN
  /\ j \in asked[s]
  /\ asked' = [asked EXCEPT ![s] = {}]
  /\ IF job.here
     THEN /\ Save(s, [mem[s] EXCEPT ![j].running = TRUE])
          /\ run' = [run EXCEPT ![<<s, "manual">>] = {j}]
          /\ disowned' = [disowned EXCEPT ![j] = @ \/ ~job.enabled]
     ELSE UNCHANGED <<storeVars, run, disowned>>
  /\ UNCHANGED <<startVars, timerVars, current, crashes, edits>>

\* The marker is set under the lock, unless the job is gone or runs by now.
ReserveManual(s, j) ==
  LET job == mem[s][j] IN
  /\ j \in asked[s]
  /\ asked' = [asked EXCEPT ![s] = {}]
  /\ IF job.here /\ ~job.running
     THEN /\ Save(s, [mem[s] EXCEPT ![j].running = TRUE])
          /\ run' = [run EXCEPT ![<<s, "manual">>] = {j}]
          /\ disowned' = [disowned EXCEPT ![j] = @ \/ ~job.enabled]
     ELSE UNCHANGED <<storeVars, run, disowned>>
  /\ UNCHANGED <<startVars, timerVars, current, crashes, edits>>

\* mergeManualRunSnapshotAfterReload: the job's switch and state, not its schedule.
Merged(j, job) ==
  IF ~job.here THEN [disk EXCEPT ![j] = NoJob]
  ELSE IF disk[j].here THEN [disk EXCEPT ![j] = [job EXCEPT !.at = disk[j].at]]
  ELSE disk

\* Mutant: the job as it was when the run began is written back.
FinishManual_Snapshot(s, j) ==
  /\ j \in run[<<s, "manual">>]
  /\ IF mem[s][j].here
     THEN \E result \in ResultsOf({j}) :
            LET store == Maintained(Merged(j, Outcome(j, [mem[s][j] EXCEPT !.enabled = TRUE], result))) IN
            Save(s, store) /\ ArmTimer(s, store)
     ELSE UNCHANGED <<storeVars, timer>>
  /\ Release(<<s, "manual">>)
  /\ UNCHANGED <<startVars, tick, asked, current, crashes, edits>>

\* finishPreparedManualRun: the outcome goes to the copy in memory, and is merged
\* into the store, read again.
FinishManual(s, j) ==
  /\ j \in run[<<s, "manual">>]
  /\ IF mem[s][j].here
     THEN \E result \in ResultsOf({j}) :
            LET store == Maintained(Merged(j, Outcome(j, mem[s][j], result))) IN
            Save(s, store) /\ ArmTimer(s, store)
     ELSE UNCHANGED <<storeVars, timer>>
  /\ Release(<<s, "manual">>)
  /\ UNCHANGED <<startVars, tick, asked, current, crashes, edits>>

-----------------------------------------------------------------------------
(* Time, crashes and what shares the store.                                *)

Elapsed(job) == IF job.here THEN [job EXCEPT !.next = IF @ = "later" THEN "due" ELSE @, !.at = "due"]
                ELSE job

\* The next time of a job comes.
TimePasses(j) ==
  /\ \E store \in {disk} \cup {mem[s] : s \in Services} : store[j] # Elapsed(store[j])
  /\ disk' = [disk EXCEPT ![j] = Elapsed(@)]
  /\ mem' = [s \in Services |-> [mem[s] EXCEPT ![j] = Elapsed(@)]]
  /\ UNCHANGED <<startVars, timerVars, run, asked, current, crashes, edits, disowned>>

\* The process dies: only the store file is left.
Crash ==
  /\ crashes < MaxCrashes
  /\ crashes' = crashes + 1
  /\ mem' = [s \in Services |-> [j \in Jobs |-> NoJob]]
  /\ stage' = [s \in Services |-> "off"]
  /\ skip' = [s \in Services |-> {}] /\ deferred' = [s \in Services |-> {}]
  /\ timer' = [s \in Services |-> FALSE] /\ tick' = [s \in Services |-> "idle"]
  /\ run' = [o \in Owners |-> {}] /\ asked' = [s \in Services |-> {}]
  /\ disowned' = [j \in Jobs |-> FALSE]
  /\ UNCHANGED <<disk, current, edits>>

\* A config reload stops the service, whose start, tick or manual run may be
\* under way and goes on, and starts another one on the same store.  A service
\* that has nothing left to do stands for the new one.
Reload(t) ==
  /\ t # current /\ stage[current] # "off"
  /\ stage[t] = "off" \/ (stage[t] = "on" /\ ~timer[t] /\ tick[t] = "idle" /\ asked[t] = {}
                          /\ \A o \in Owners : o[1] = t => run[o] = {})
  /\ timer' = [timer EXCEPT ![current] = FALSE]
  /\ stage' = [stage EXCEPT ![t] = "clear"]
  /\ current' = t
  /\ UNCHANGED <<storeVars, skip, deferred, tick, run, asked, crashes, edits, disowned>>

-----------------------------------------------------------------------------
Starting(s) == ClearMarkers(s) \/ PlanCatchup(s) \/ ApplyCatchup(s) \/ FinishStart(s)

Ticking(s) == CollectDue(s) \/ ApplyOutcomes(s) \/ EndTick(s)

UserEdits(s, j) ==
  Add(s, j) \/ Disable(s, j) \/ Enable(s, j) \/ Reschedule(s, j) \/ Remove(s, j)

Next ==
  \/ \E s \in Services : Start(s) \/ Starting(s) \/ TimerFires(s) \/ Ticking(s) \/ Read(s)
  \/ \E s \in Services, j \in Jobs :
       UserEdits(s, j) \/ PreflightManual(s, j) \/ ReserveManual(s, j) \/ FinishManual(s, j)
  \/ \E j \in Jobs : TimePasses(j)
  \/ Crash

Spec == Init /\ [][Next]_vars

\* The event loop goes on, timers fire, and runs end, by their timeout at the latest.
Fairness ==
  \A s \in Services :
    /\ WF_vars(Start(s) \/ Starting(s))
    /\ WF_vars(TimerFires(s) \/ Ticking(s))
    /\ WF_vars(\E j \in Jobs : ReserveManual(s, j) \/ FinishManual(s, j))

FairSpec == Spec /\ Fairness

\* A start that goes on at once after its catch-up.
PromptSpec ==
  Init /\ [][Next /\ \A s \in Services : stage[s] = "applied" => stage'[s] # "applied"]_vars

\* With reloads.
ReloadSpec == Init /\ [][Next \/ \E t \in Services : Reload(t)]_vars

-----------------------------------------------------------------------------
(* Properties.                                                             *)

(* Every variable has its type, and a job that is not enabled has no next  *)
(* time that could wake the scheduler, in any copy of the store.           *)
CronTypeOK ==
  /\ \A store \in {disk} \cup {mem[s] : s \in Services} : \A j \in Jobs :
       /\ store[j].next \in {"none", "later", "due"} /\ store[j].at \in {"later", "due"}
       /\ store[j].last \in {"none", "ok", "moved", "failed"}
       /\ {store[j].here, store[j].enabled, store[j].running} \subseteq BOOLEAN
       /\ ~store[j].enabled => store[j].next = "none"
  /\ stage \in [Services -> {"off", "clear", "plan", "catchup", "applied", "finish", "on"}]
  /\ timer \in [Services -> BOOLEAN]
  /\ tick \in [Services -> {"idle", "collect", "run", "end"}]
  /\ run \in [Owners -> SUBSET Jobs] /\ asked \in [Services -> SUBSET Jobs]

RunsOf(j) == {o \in Owners : j \in run[o]}

(* A job never runs twice at once, whether the timer, the catch-up of a    *)
(* start or a user starts it, for as long as nobody disables or removes it *)
(* during a run.                                                           *)
OneRunPerJob == \A j \in Jobs : ~disowned[j] => Cardinality(RunsOf(j)) <= 1

(* "so timer ticks that force-reload from disk cannot start the same job   *)
(* concurrently": without that exception.                                  *)
OneRunAtATime == \A j \in Jobs : Cardinality(RunsOf(j)) <= 1

(* The scheduler is never left without a timer: a started service with a   *)
(* job to come has its timer set when no tick is under way, and the        *)
(* watchdog while the runs of a tick go on, however often that fires.      *)
TimerArmed ==
  \A s \in Services : stage[s] = "on" =>
    /\ tick[s] = "idle" => timer[s] = HasNext(mem[s])
    /\ tick[s] \in {"collect", "run"} => timer[s] \/ ~HasNext(mem[s])

(* Ticks, catch-up and manual runs never move a due slot of an enabled job *)
(* away without a run of that job: only its own outcome or an edit does,   *)
(* or a start or add() that computes all times anew.                       *)
SlotsKept ==
  [][\A j \in Jobs :
       Due(disk[j]) /\ disk'[j].next # "due" =>
         \/ \E o \in Owners : j \in run[o] \ run'[o]
         \/ \E s \in Services : FinishStart(s) \/ j \in deferred[s]
         \/ \E s \in Services : UserEdits(s, j) \/ \E i \in Jobs : Add(s, i)]_vars

(* Only the user enables a job in the store: an outcome does not bring     *)
(* back a job that was disabled or removed during the run.  It holds as    *)
(* long as no reload replaces the service.                                 *)
DisableSticks ==
  [][\A j \in Jobs : ~disk[j].enabled /\ disk'[j].enabled =>
       \E s \in Services : Enable(s, j) \/ Add(s, j)]_vars

(* With reloads: a job that nobody enables comes back only while a service *)
(* still has it enabled in an outdated copy.                               *)
DisabledUnlessOutdated ==
  [][\A j \in Jobs : ~disk[j].enabled /\ disk'[j].enabled =>
       \E s \in Services : Enable(s, j) \/ Add(s, j) \/ mem[s][j].enabled]_vars

(* A due slot of a started service does not wait for ever and is not       *)
(* skipped: unless an edit or a crash comes between, the job is run.       *)
Started == stage[current] = "on"

DueRuns ==
  \A j \in Jobs, n \in 0 .. MaxEdits :
    Started /\ edits = n /\ Due(disk[j]) ~> ~Started \/ edits # n \/ RunsOf(j) # {}

(* "Preserve any new past-due nextRunAtMs values that became due while     *)
(* startup catch-up was running": the rest of start() keeps them as well.  *)
CatchupKeepsNewSlots ==
  [][\A s \in Services, j \in Jobs :
       stage[s] = "applied" /\ stage'[s] = "on" /\ j \notin skip[s] /\ Due(mem[s][j]) =>
         mem'[s][j].next = "due"]_vars
=============================================================================
