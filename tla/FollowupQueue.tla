----------------------------- MODULE FollowupQueue -----------------------------
(***************************************************************************)
(* The follow-up queue of one session (src/src/auto-reply/reply/queue/ and *)
(* src/src/utils/queue-helpers.ts): messages that arrive while an agent    *)
(* run is active wait here, and a drain loop turns them into later runs.   *)
(*                                                                         *)
(* FOLLOWUP_QUEUES maps the session's key to at most one queue object.     *)
(* clearFollowupQueue removes an object whose drain loop may still await a *)
(* run, so several objects can be alive; an object nobody refers to is     *)
(* used again for the next one the code creates.                           *)
(*                                                                         *)
(* Every caller passes restartIfIdle = false, so the stored callback only  *)
(* says which of several equal functions a drain calls; it is left out.    *)
(***************************************************************************)
EXTENDS Integers, Sequences, FiniteSets, Functions

CONSTANTS Messages,
          Route,       \* where each message is answered, Unkeyed or Unroutable
          Unkeyed,     \* no origin recorded
          Unroutable,  \* an origin that replies cannot be routed to
          Settings,    \* the QueueSettings that enqueues pass: [mode, cap, drop]
          Objects,     \* identities of the queue objects alive at a time
          None,        \* no queue object
          MaxAccepted, \* bound on the enqueues that are accepted
          MaxFailures, \* bound on the runs that throw
          MaxClears    \* bound on the clearSessionQueues calls

ASSUME FollowupAssumption ==
  /\ None \notin Objects
  /\ Settings # {}
  /\ Settings \subseteq [mode : {"collect", "followup"}, cap : Nat \ {0},
                         drop : {"summarize", "old", "new"}]
  /\ {MaxAccepted, MaxFailures, MaxClears} \subseteq Nat

VARIABLES
  current,    \* the object FOLLOWUP_QUEUES holds for the key, or None
  settings,   \* mode, cap and drop policy of each object
  items,      \* its queued messages
  dropped,    \* the messages behind its droppedCount and summaryLines
  drain,      \* its drain loop; draining is phase # "none"
  mainRun,    \* a run started by an inbound message is active
  arriving,   \* messages whose runReplyAgent saw an active run and will enqueue
  recent,     \* RECENT_QUEUE_MESSAGE_IDS
  accepted,   \* history: the messages enqueued, in order
  ran,        \* history: those a successful run contained
  reported,   \* history: those a successful run counted in its overflow summary
  discarded,  \* history: those dropped without a summary
  cleared,    \* history: those whose last copy a clear removed while it waited
  failures, clears

queueVars == <<current, settings, items, dropped>>
inboundVars == <<mainRun, arriving>>
historyVars == <<accepted, ran, reported, discarded, cleared>>
boundVars == <<failures, clears>>
vars == <<queueVars, drain, inboundVars, recent, historyVars, boundVars>>

NoDrain == [phase |-> "none", forced |-> FALSE, kind |-> "none", batch |-> <<>>, summary |-> <<>>]
NewDrain == [NoDrain EXCEPT !.phase = "debounce"]

Init ==
  /\ current = None
  /\ settings = [o \in Objects |-> CHOOSE s \in Settings : TRUE]
  /\ items = [o \in Objects |-> <<>>]
  /\ dropped = [o \in Objects |-> <<>>]
  /\ drain = [o \in Objects |-> NoDrain]
  /\ mainRun = FALSE
  /\ arriving = {}
  /\ recent = {}
  /\ accepted = <<>>
  /\ ran = {} /\ reported = {} /\ discarded = {} /\ cleared = {}
  /\ failures = 0 /\ clears = 0

Running(o) == drain[o].phase = "running"
RunActive == mainRun \/ \E o \in Objects : Running(o)

\* What isRunActive() may answer: a run is registered for a part of its length.
ActiveAnswers == {RunActive, FALSE}

-----------------------------------------------------------------------------
(***************************************************************************)
(* scheduleFollowupDrain: begin a drain of the registered object unless it *)
(* has one; the loop's finally block unregisters an object that is empty.  *)
(***************************************************************************)
IsEmptyQueue(its, drops) == its = <<>> /\ drops = <<>>

\* scheduleFollowupDrain(key) when the registered object is o, with contents
\* its and drops, and the drain loops are dr.
ScheduleDrain(o, its, drops, dr) ==
  IF o = None \/ dr[o].phase # "none"
  THEN current' = o /\ drain' = dr
  ELSE IF IsEmptyQueue(its[o], drops[o])
  THEN current' = None /\ drain' = dr
  ELSE current' = o /\ drain' = [dr EXCEPT ![o] = NewDrain]

\* The finally block of o's drain loop.
FinishDrain(o, its, drops) ==
  IF IsEmptyQueue(its[o], drops[o])
  THEN current' = None /\ drain' = [drain EXCEPT ![o] = NoDrain]
  ELSE ScheduleDrain(current, its, drops, [drain EXCEPT ![o] = NoDrain])

\* The condition of o's while loop.
LoopTop(o, its, drops) ==
  IF IsEmptyQueue(its[o], drops[o])
  THEN FinishDrain(o, its, drops)
  ELSE /\ current' = current
       /\ drain' = [drain EXCEPT ![o] = [NewDrain EXCEPT !.forced = drain[o].forced]]

-----------------------------------------------------------------------------
(* runReplyAgent: a message starts a run of its own, or is queued.         *)

StartMainRun ==
  /\ ~RunActive
  /\ mainRun' = TRUE
  /\ UNCHANGED <<queueVars, drain, arriving, recent, historyVars, boundVars>>

\* Bug: the run does not finalize.
EndMainRun_NoFinalize ==
  /\ mainRun
  /\ mainRun' = FALSE
  /\ UNCHANGED <<queueVars, drain, arriving, recent, historyVars, boundVars>>

\* Every exit of the run, normal or not, is a finalizeWithFollowup.
EndMainRun ==
  /\ mainRun
  /\ mainRun' = FALSE
  /\ ScheduleDrain(current, items, dropped, drain)
  /\ UNCHANGED <<settings, items, dropped, arriving, recent, historyVars, boundVars>>

\* A message, or a redelivery of one, sees isActive; it enqueues after awaits.
Arrive(m) ==
  /\ RunActive
  /\ m \notin arriving
  /\ Len(accepted) < MaxAccepted
  /\ arriving' = arriving \cup {m}
  /\ UNCHANGED <<queueVars, drain, mainRun, recent, historyVars, boundVars>>

Unused(o) ==
  /\ o # current
  /\ drain[o].phase = "none"

\* getFollowupQueue
Target == IF current # None THEN current ELSE CHOOSE o \in Objects : Unused(o)

\* What object o holds when the code asks getFollowupQueue for it: a new object
\* is empty.
Held(o) == IF current = None THEN <<>> ELSE items[o]
HeldDrops(o) == IF current = None THEN <<>> ELSE dropped[o]

AtCap(o, s) == Len(Held(o)) >= s.cap

\* Bug: the newest message goes to the front.
PushItem_AtFront(m, o, s) ==
  LET over == IF AtCap(o, s) THEN SubSeq(Held(o), 1, Len(Held(o)) - s.cap + 1) ELSE <<>>
      kept == SubSeq(Held(o), Len(over) + 1, Len(Held(o))) IN
  /\ items' = [items EXCEPT ![o] = <<m>> \o kept]
  /\ dropped' = [dropped EXCEPT ![o] =
       HeldDrops(o) \o (IF s.drop = "summarize" THEN over ELSE <<>>)]
  /\ discarded' = IF s.drop = "old" THEN discarded \cup Range(over) ELSE discarded
  /\ recent' = recent \cup {m}
  /\ accepted' = Append(accepted, m)
  /\ cleared' = cleared \ {m}

\* applyQueueDropPolicy makes room at the front, then the message is pushed.
PushItem(m, o, s) ==
  LET over == IF AtCap(o, s) THEN SubSeq(Held(o), 1, Len(Held(o)) - s.cap + 1) ELSE <<>>
      kept == SubSeq(Held(o), Len(over) + 1, Len(Held(o))) IN
  /\ items' = [items EXCEPT ![o] = Append(kept, m)]
  /\ dropped' = [dropped EXCEPT ![o] =
       HeldDrops(o) \o (IF s.drop = "summarize" THEN over ELSE <<>>)]
  /\ discarded' = IF s.drop = "old" THEN discarded \cup Range(over) ELSE discarded
  /\ recent' = recent \cup {m}
  /\ accepted' = Append(accepted, m)
  /\ cleared' = cleared \ {m}

\* Bug: the queued items are not searched, only the recent ids.
AlreadyQueued_RecentOnly(m, o) == m \in recent

\* The recent ids and isRunAlreadyQueued.
AlreadyQueued(m, o) == m \in recent \/ m \in Range(Held(o))

\* enqueueFollowupRun with settings s, then the re-check of isRunActive.
EnqueueFollowupRun(m, s) ==
  /\ m \in arriving
  /\ arriving' = arriving \ {m}
  /\ current # None \/ \E o \in Objects : Unused(o)
  /\ LET o == Target
         accept == ~AlreadyQueued(m, o) /\ ~(AtCap(o, s) /\ s.drop = "new") IN
     /\ settings' = [settings EXCEPT ![o] = s]
     /\ IF accept
        THEN PushItem(m, o, s)
        ELSE /\ items' = [items EXCEPT ![o] = Held(o)]
             /\ dropped' = [dropped EXCEPT ![o] = HeldDrops(o)]
             /\ UNCHANGED <<discarded, recent, accepted, cleared>>
     /\ \E active \in ActiveAnswers :
          IF active
          THEN current' = o /\ UNCHANGED drain
          ELSE ScheduleDrain(o, items', dropped', drain)
  /\ UNCHANGED <<mainRun, ran, reported, boundVars>>

\* The dedupe cache entry of m expires.
ForgetRecent(m) ==
  /\ m \in recent
  /\ recent' = recent \ {m}
  /\ UNCHANGED <<queueVars, drain, inboundVars, historyVars, boundVars>>

-----------------------------------------------------------------------------
(***************************************************************************)
(* The drain loop.                                                         *)
(***************************************************************************)
\* hasCrossChannelItems
IsCross(its) ==
  LET routes == {Route[m] : m \in Range(its)} IN
  Unroutable \in routes \/ (routes \ {Unkeyed} # {} /\ Cardinality(routes) > 1)

\* previewQueueSummaryPrompt
SummaryOf(o) == IF settings[o].drop = "summarize" THEN dropped[o] ELSE <<>>

StartRun(o, kind, batch, summary, forced) ==
  /\ drain' = [drain EXCEPT ![o] = [phase |-> "running", forced |-> forced, kind |-> kind,
                                    batch |-> batch, summary |-> summary]]
  /\ UNCHANGED current

\* drainNextQueueItem up to its run: without an item the loop breaks.
StartItem(o, kind, summary, forced) ==
  IF items[o] = <<>>
  THEN FinishDrain(o, items, dropped)
  ELSE StartRun(o, kind, <<Head(items[o])>>, summary, forced)

\* The debounce is over: look at the queue and start a run, except that the
\* collect branch goes on after another await.
DebounceOver(o) ==
  /\ drain[o].phase = "debounce"
  /\ UNCHANGED <<settings, items, dropped, inboundVars, recent, historyVars, boundVars>>
  /\ IF settings[o].mode = "collect"
     THEN LET cross == IsCross(items[o]) IN
          IF cross \/ drain[o].forced
          THEN StartItem(o, "item", <<>>, TRUE)
          ELSE drain' = [drain EXCEPT ![o].phase = "batching"] /\ UNCHANGED current
     ELSE StartItem(o, IF SummaryOf(o) # <<>> THEN "summary" ELSE "item", SummaryOf(o), FALSE)

\* The collect branch after drainCollectQueueStep answered "skipped"; without
\* items and drops the queue was cleared, there is no run, and the loop breaks.
StartBatch(o) ==
  /\ drain[o].phase = "batching"
  /\ IF IsEmptyQueue(items[o], dropped[o])
     THEN FinishDrain(o, items, dropped)
     ELSE StartRun(o, "collect", items[o], SummaryOf(o), FALSE)
  /\ UNCHANGED <<settings, items, dropped, inboundVars, recent, historyVars, boundVars>>

\* Bug: the queue is emptied after the run, not only of what the run took.
Leftover_Nothing(o) == <<>>

\* What the run leaves in the queue: splice(0, n) or shift().
Leftover(o) ==
  LET n == Len(drain[o].batch) IN
  IF n >= Len(items[o]) THEN <<>> ELSE SubSeq(items[o], n + 1, Len(items[o]))

\* effectiveRunFollowup resolves.  A summary run takes the next item's place.
RunSucceeds(o) ==
  LET d == drain[o] IN
  /\ Running(o)
  /\ items' = [items EXCEPT ![o] = Leftover(o)]
  /\ dropped' = IF d.summary # <<>> THEN [dropped EXCEPT ![o] = <<>>] ELSE dropped
  /\ ran' = IF d.kind = "summary" THEN ran ELSE ran \cup Range(d.batch)
  /\ reported' = reported \cup Range(d.summary)
  /\ LoopTop(o, items', dropped')
  /\ UNCHANGED <<settings, inboundVars, recent, accepted, discarded, cleared, boundVars>>

\* It throws: nothing is removed, and the finally block starts a new drain.
RunFails(o) ==
  /\ Running(o)
  /\ failures < MaxFailures
  /\ failures' = failures + 1
  /\ FinishDrain(o, items, dropped)
  /\ UNCHANGED <<settings, items, dropped, inboundVars, recent, historyVars, clears>>

-----------------------------------------------------------------------------
InFlight == UNION {Range(drain[o].batch) : o \in {p \in Objects : Running(p)}}

\* The messages that a run contains, or that wait in an object whose drain loop
\* outlived an earlier clear.
Elsewhere ==
  InFlight \cup UNION {Range(items[o]) : o \in {p \in Objects \ {current} : drain[p].phase # "none"}}

\* Bug: the object is unregistered but keeps its contents.
ClearFollowupQueue_KeepsItems ==
  /\ current # None
  /\ clears < MaxClears
  /\ clears' = clears + 1
  /\ cleared' = cleared \cup (Range(items[current] \o dropped[current]) \ Elsewhere)
  /\ current' = None
  /\ UNCHANGED <<settings, items, dropped, drain, inboundVars, recent, accepted, ran, reported,
                 discarded, failures>>

\* clearSessionQueues (/stop, session reset, kill of a subagent).
ClearFollowupQueue ==
  /\ current # None
  /\ clears < MaxClears
  /\ clears' = clears + 1
  /\ cleared' = cleared \cup (Range(items[current] \o dropped[current]) \ Elsewhere)
  /\ items' = [items EXCEPT ![current] = <<>>]
  /\ dropped' = [dropped EXCEPT ![current] = <<>>]
  /\ current' = None
  /\ UNCHANGED <<settings, drain, inboundVars, recent, accepted, ran, reported, discarded,
                 failures>>

-----------------------------------------------------------------------------
Next ==
  \/ StartMainRun
  \/ EndMainRun
  \/ \E m \in Messages : Arrive(m)
  \/ \E m \in Messages, s \in Settings : EnqueueFollowupRun(m, s)
  \/ \E m \in Messages : ForgetRecent(m)
  \/ \E o \in Objects : DebounceOver(o)
  \/ \E o \in Objects : StartBatch(o)
  \/ \E o \in Objects : RunSucceeds(o)
  \/ \E o \in Objects : RunFails(o)
  \/ ClearFollowupQueue

Spec == Init /\ [][Next]_vars

\* Runs end (they carry a timeout), timers fire, promises settle.  Nobody owes
\* the session another message.
Fairness ==
  /\ WF_vars(EndMainRun)
  /\ \A o \in Objects :
       /\ WF_vars(DebounceOver(o))
       /\ WF_vars(StartBatch(o))
       /\ WF_vars(RunSucceeds(o) \/ RunFails(o))

FairSpec == Spec /\ Fairness

-----------------------------------------------------------------------------
Phases == {"none", "debounce", "batching", "running"}

\* Every variable has its type, and no queue outgrows its cap.
FollowupTypeOK ==
  /\ current \in Objects \cup {None}
  /\ settings \in [Objects -> Settings]
  /\ \A o \in Objects :
       /\ Range(items[o]) \cup Range(dropped[o]) \cup Range(drain[o].batch) \subseteq Messages
       /\ \E s \in Settings : Len(items[o]) <= s.cap
       /\ drain[o].phase \in Phases
       /\ ~Running(o) => drain[o].batch = <<>> /\ drain[o].summary = <<>>
  /\ mainRun \in BOOLEAN
  /\ arriving \cup recent \cup ran \cup reported \cup discarded \cup cleared \subseteq Messages
  /\ failures \in 0..MaxFailures /\ clears \in 0..MaxClears

Reachable == {o \in Objects : o = current \/ drain[o].phase # "none"}
Waiting == UNION {Range(items[o]) \cup Range(dropped[o]) : o \in Reachable}

\* Every message the queue accepted is still waiting where a drain can find it,
\* or was run, counted in a summary, dropped by the policy, or cleared.
NothingLost ==
  Range(accepted) \subseteq Waiting \cup ran \cup reported \cup discarded \cup cleared

\* Messages run in the order in which they were enqueued: none has been run, or
\* is running, while one accepted before it still waits.
RunsInArrivalOrder ==
  \A i, j \in 1..Len(accepted) :
    /\ i < j
    /\ accepted[j] \notin Range(SubSeq(accepted, 1, j - 1))
    /\ accepted[j] \in ran \cup InFlight
    => accepted[i] \in ran \cup InFlight \cup reported \cup discarded \cup cleared

\* No queue object holds two copies of a message: a redelivery is not queued
\* beside the first copy, even after the recent id of that has expired.
QueuedOnce == \A o \in Objects : IsInjective(items[o])

\* What a clear removed, and no other queue object held, is in no run that starts
\* later, unless it is enqueued again: not even a drain loop that was under way
\* at the clear runs it, however many clears, failed runs and successor queues
\* come between.
ClearedNeverRuns ==
  [][\A o \in Objects : ~Running(o) /\ Running(o)' => cleared \cap Range(drain'[o].batch) = {}]_vars

\* A queue that holds messages can be found: it is registered or being drained.
QueueReachable == \A o \in Objects : items[o] # <<>> => o \in Reachable

\* A collected run answers to one place only.
NoMixedBatch ==
  \A o \in Objects : Running(o) /\ drain[o].kind = "collect" => ~IsCross(drain[o].batch)

\* A message leaves the queue after a run only if the run contained it.
SummaryKeepsItem ==
  [][\A o \in Objects : drain[o].kind = "summary" /\ Running(o) /\ reported' # reported
       => Range(drain[o].batch) \subseteq ran' \cup Range(items'[o])]_vars

\* Every queued message is run in the end, even when runs fail.
QueuedEventuallyRuns ==
  \A m \in Messages : (\E o \in Objects : m \in Range(items[o])) ~> m \in ran

\* Every overflow is reported in the end.
DropsEventuallyReported ==
  \A o \in Objects : dropped[o] # <<>> ~> dropped[o] = <<>>

=============================================================================
