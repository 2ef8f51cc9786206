--------------------------- MODULE HeartbeatWake ---------------------------
(***************************************************************************)
(* The wake-up queue of the heartbeat, src/infra/heartbeat-wake.ts:        *)
(* requests for a target are coalesced by priority, one timer starts a run *)
(* of the registered handler over everything pending, and a target the     *)
(* handler could not serve is queued again behind a retry cooldown.        *)
(*                                                                         *)
(* The module state outlives an in-process restart, and so does a run whose*)
(* handler has not returned: the next registration resets `running`, the   *)
(* old run still goes through its finally block.  Due times are abstracted *)
(* to the choice whether an armed timer fires before a new request would.  *)
(***************************************************************************)
EXTENDS Integers, Sequences, FiniteSets, SequencesExt

CONSTANTS
  Targets,      \* agentId::sessionKey
  Priorities,   \* the priorities of the reasons requested
  MaxGens,      \* bound: registrations of a handler
  MaxRequests,  \* bound: calls of requestHeartbeatNow
  MaxFailures   \* bound: handler calls that throw or find requests in flight

Gens == 1 .. MaxGens
NoGen == 0

ASSUME WakeAssumption ==
  /\ Priorities \subseteq 0 .. 3 /\ Priorities # {}
  /\ MaxGens \in Nat \ {0} /\ MaxRequests \in Nat /\ MaxFailures \in Nat

VARIABLES
  handler,    \* the registration whose handler is set, or NoGen
  gens,       \* how many registrations there have been
  disposed,   \* the registrations whose disposer has been called
  pending,    \* pendingWakes, in insertion order
  timer,      \* "none" or the kind of the armed timer
  scheduled,  \* the flag `scheduled`
  running,    \* the flag `running`
  runs,       \* runs whose handler call has not returned, oldest first
  requests, failures,  \* counters of the bounds
  owed,       \* history: targets requested and not served since
  cooling     \* history: targets put back behind a retry cooldown

flags == <<scheduled, running>>
registry == <<handler, gens, disposed>>
vars == <<registry, pending, timer, flags, runs, requests, failures, owed,
          cooling>>

Wake == [t : Targets, p : 0 .. 3]
Run == [by : Gens, batch : Seq(Wake), i : Nat \ {0}]

WakeTypeOK ==
  /\ handler \in Gens \union {NoGen} /\ gens \in 0 .. MaxGens
  /\ disposed \subseteq Gens
  /\ pending \in Seq(Wake)
  /\ \A i, j \in DOMAIN pending : pending[i].t = pending[j].t => i = j
  /\ timer \in {"none", "normal", "retry"}
  /\ scheduled \in BOOLEAN /\ running \in BOOLEAN
  /\ runs \in Seq(Run)
  /\ \A r \in DOMAIN runs : runs[r].i <= Len(runs[r].batch)
  /\ requests \in 0 .. MaxRequests /\ failures \in 0 .. MaxFailures
  /\ owed \subseteq Targets /\ cooling \subseteq Targets

Init ==
  /\ handler = NoGen /\ gens = 0 /\ disposed = {}
  /\ pending = <<>> /\ timer = "none"
  /\ scheduled = FALSE /\ running = FALSE
  /\ runs = <<>>
  /\ requests = 0 /\ failures = 0
  /\ owed = {} /\ cooling = {}

-----------------------------------------------------------------------------
\* Mutant: the latest reason wins, whatever its priority.
Queued_LatestWins(q, w) ==
  IF \E i \in DOMAIN q : q[i].t = w.t
  THEN [i \in DOMAIN q |-> IF q[i].t = w.t THEN w ELSE q[i]]
  ELSE Append(q, w)

\* queuePendingWakeReason: a wake replaces the pending one of its target
\* unless its priority is lower (requestedAt never decreases).
Queued(q, w) ==
  IF \E i \in DOMAIN q : q[i].t = w.t
  THEN [i \in DOMAIN q |-> IF q[i].t = w.t /\ w.p >= q[i].p THEN w ELSE q[i]]
  ELSE Append(q, w)

\* The wakes ws one after another.
QueuedAll(q, ws) ==
  LET after[n \in 0 .. Len(ws)] == IF n = 0 THEN q ELSE Queued(after[n - 1], ws[n])
  IN after[Len(ws)]

\* schedule(delay, kind): what the timer may be afterwards.  A retry timer is
\* kept; a normal one is kept when it is due first and else replaced.
Scheduled(tm, kind) ==
  CASE tm = "none"   -> {kind}
    [] tm = "retry"  -> {"retry"}
    [] tm = "normal" -> {"normal", kind}

\* requestHeartbeatNow.
Request(t, p) ==
  /\ requests < MaxRequests /\ requests' = requests + 1
  /\ pending' = Queued(pending, [t |-> t, p |-> p])
  /\ timer' \in Scheduled(timer, "normal")
  /\ owed' = owed \union {t}
  /\ UNCHANGED <<registry, flags, runs, failures, cooling>>

\* Mutant: the registration drops the old timer and arms none.
SetHandler_NoSchedule ==
  /\ gens < MaxGens /\ gens' = gens + 1
  /\ handler' = gens + 1
  /\ running' = FALSE /\ scheduled' = FALSE /\ timer' = "none"
  /\ cooling' = {}
  /\ UNCHANGED <<disposed, pending, runs, requests, failures, owed>>

\* setHeartbeatWakeHandler(next): the state of the last lifecycle is reset.
SetHandler ==
  /\ gens < MaxGens /\ gens' = gens + 1
  /\ handler' = gens + 1
  /\ running' = FALSE /\ scheduled' = FALSE
  /\ timer' = IF pending # <<>> THEN "normal" ELSE "none"
  /\ cooling' = {}
  /\ UNCHANGED <<disposed, pending, runs, requests, failures, owed>>

\* The disposer of registration g: a no-op after a newer registration.
Dispose(g) ==
  /\ g \in 1 .. gens \ disposed
  /\ disposed' = disposed \union {g}
  /\ handler' = IF handler = g THEN NoGen ELSE handler
  /\ UNCHANGED <<gens, pending, timer, flags, runs, requests, failures, owed,
                 cooling>>

\* The callback of the timer without a handler: the wakes stay pending.
FireUnhandled ==
  /\ timer # "none" /\ handler = NoGen
  /\ timer' = "none" /\ scheduled' = FALSE
  /\ UNCHANGED <<registry, pending, running, runs, requests, failures, owed,
                 cooling>>

\* ... while a run is in progress: it is armed again.
FireBusy ==
  /\ timer # "none" /\ handler # NoGen /\ running
  /\ scheduled' = TRUE
  /\ UNCHANGED <<registry, pending, timer, running, runs, requests, failures,
                 owed, cooling>>

\* Mutant: the timer callback does not look at `running`.
FireRun_Always ==
  /\ timer # "none" /\ handler # NoGen /\ pending # <<>>
  /\ runs' = Append(runs, [by |-> handler, batch |-> pending, i |-> 1])
  /\ owed' = owed \ {pending[1].t}
  /\ pending' = <<>> /\ timer' = "none"
  /\ scheduled' = FALSE /\ running' = TRUE
  /\ cooling' = IF timer = "retry" THEN {} ELSE cooling
  /\ UNCHANGED <<registry, requests, failures>>

\* ... and else: it takes all that is pending and calls the handler for the
\* first target.  (With nothing pending the run is over at once.)
FireRun ==
  /\ timer # "none" /\ handler # NoGen /\ ~running
  /\ IF pending = <<>>
     THEN UNCHANGED <<runs, running, owed>>
     ELSE /\ runs' = Append(runs, [by |-> handler, batch |-> pending, i |-> 1])
          /\ running' = TRUE
          /\ owed' = owed \ {pending[1].t}
  /\ pending' = <<>> /\ timer' = "none" /\ scheduled' = FALSE
  /\ cooling' = IF timer = "retry" THEN {} ELSE cooling
  /\ UNCHANGED <<registry, requests, failures>>

\* The finally block, entered with pending wakes q and timer tm.
Finally(q, tm) ==
  /\ running' = FALSE
  /\ timer' \in IF q # <<>> \/ scheduled THEN Scheduled(tm, "normal") ELSE {tm}
  /\ UNCHANGED scheduled

\* The handler call of run r returned; queue q, timer tm and the targets put
\* back are what the rest of the iteration left.  Next target, or the end.
Continue(r, q, tm, back) ==
  LET run == runs[r] IN
  IF run.i < Len(run.batch)
  THEN /\ runs' = [runs EXCEPT ![r].i = @ + 1]
       /\ timer' = tm
       /\ owed' = (owed \union back) \ {run.batch[run.i + 1].t}
       /\ UNCHANGED flags
  ELSE /\ runs' = RemoveAt(runs, r)
       /\ owed' = owed \union back
       /\ Finally(q, tm)

Current(r) == runs[r].batch[runs[r].i]

\* The handler ran, or skipped for good (also: it belongs to a runner that was
\* stopped).
Served(r) ==
  /\ Continue(r, pending, timer, {})
  /\ UNCHANGED <<registry, pending, requests, failures, cooling>>

MayFail == failures < MaxFailures /\ failures' = failures + 1

\* The handler found requests in flight: the target is queued again.
InFlight(r) ==
  /\ MayFail
  /\ pending' = Queued(pending, Current(r))
  /\ \E tm \in Scheduled(timer, "retry") :
       Continue(r, pending', tm, {Current(r).t})
  /\ cooling' = cooling \union {Current(r).t}
  /\ UNCHANGED <<registry, requests>>

\* Mutant: the targets of a run that failed are not queued again.
Throws_Forgets(r) ==
  /\ MayFail
  /\ runs' = RemoveAt(runs, r)
  /\ Finally(pending, timer)
  /\ owed' = owed \union {Current(r).t}
  /\ UNCHANGED <<registry, pending, requests, cooling>>

\* The handler threw: the whole batch is queued again, also what it served.
Throws(r) ==
  /\ MayFail
  /\ pending' = QueuedAll(pending, runs[r].batch)
  /\ runs' = RemoveAt(runs, r)
  /\ \E tm \in Scheduled(timer, "retry") : Finally(pending', tm)
  /\ owed' = owed \union {Current(r).t}
  /\ cooling' = cooling \union {w.t : w \in Range(runs[r].batch)}
  /\ UNCHANGED <<registry, requests>>

Fire == FireUnhandled \/ FireBusy \/ FireRun
Return(r) == Served(r) \/ InFlight(r) \/ Throws(r)

Next ==
  \/ \E t \in Targets, p \in Priorities : Request(t, p)
  \/ SetHandler
  \/ \E g \in Gens : Dispose(g)
  \/ Fire
  \/ \E r \in DOMAIN runs : Return(r)

Spec == Init /\ [][Next]_vars

\* An armed timer fires; a handler call returns, whichever run awaits it.
Fairness ==
  /\ WF_vars(FireUnhandled \/ FireRun)
  /\ \A r \in 1 .. MaxGens : WF_vars(r \in DOMAIN runs /\ Return(r))

FairSpec == Spec /\ Fairness

-----------------------------------------------------------------------------
(* Properties.                                                             *)

(* No lost wake-up: while a handler is registered and wakes are pending, a *)
(* timer is armed, through re-registrations, stale disposers, runs that    *)
(* overlap and failures.                                                   *)
WakeArmed == handler # NoGen /\ pending # <<>> => timer # "none"

(* Runs overlap only because of re-registrations: there are never more of  *)
(* them than handlers have been registered, although the finally block of  *)
(* a run of an earlier lifecycle clears the `running` of a later one.      *)
RunsBounded == Len(runs) <= gens

(* An urgent reason is not downgraded by a later request or by a wake that *)
(* is queued again: it stays until a run takes it.                         *)
PriorityKept ==
  [][\A i \in DOMAIN pending : pending' # <<>> =>
       \E j \in DOMAIN pending' :
         pending'[j].t = pending[i].t /\ pending'[j].p >= pending[i].p]_vars

(* A wake that was requested is handed to a handler that returns without   *)
(* asking for a retry, unless no handler stays registered.                 *)
WakesServed == \A t \in Targets : t \in owed ~> t \notin owed \/ handler = NoGen

(* A target put back because requests were in flight is not tried again    *)
(* before the retry timer fires ("hard minimum delay").                    *)
RetryCooldown ==
  [][FireRun /\ timer = "normal" /\ runs' # runs =>
       \A w \in Range(pending) : w.t \notin cooling]_vars
=============================================================================
