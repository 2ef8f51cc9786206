---------------------------- MODULE ReplyDispatcher ----------------------------
(***************************************************************************)
(* Reply dispatchers (src/src/auto-reply/reply/reply-dispatcher.ts), the   *)
(* registry that counts their replies, the turn that owns each             *)
(* (withReplyDispatcher), and the config watcher's restart, which waits    *)
(* for the count to be zero.                                               *)
(*                                                                         *)
(* A dispatcher sends its replies one after the other.  A follow-up turn   *)
(* of the session sends its replies through the dispatcher of the turn     *)
(* that queued it, which is complete by then.                              *)
(***************************************************************************)
EXTENDS Integers

CONSTANTS Dispatchers,
          MaxReplies,    \* bound on the replies of a turn
          MaxFollowups,  \* bound on the replies of follow-up turns through one dispatcher
          MaxRestarts    \* bound on restarts

ASSUME ReplyAssumption ==
  /\ MaxReplies \in Nat /\ MaxFollowups \in Nat /\ MaxRestarts \in Nat

VARIABLES
  turn,            \* "running": params.run(); "settling": waitForIdle(); "settled": onSettled
  pending,         \* replies not delivered, and 1 for the reservation
  release,         \* markComplete's microtask is to come
  sent, undelivered,          \* replies of the turn: enqueued, and on sendChain
  followups, undeliveredLate, \* the same of follow-up turns, behind them on sendChain
  registered,      \* the dispatcher is in activeDispatchers
  idles,           \* history: calls of onIdle
  restartPending,  \* a restart is deferred, and polls
  restarts         \* history: restarts emitted

chainVars == <<sent, undelivered, followups, undeliveredLate>>
dispatchVars == <<turn, pending, release, chainVars, registered, idles>>
restartVars == <<restartPending, restarts>>
replyVars == <<dispatchVars, restartVars>>

ReplyInit ==
  /\ turn = [d \in Dispatchers |-> "none"]
  /\ pending = [d \in Dispatchers |-> 0]
  /\ release = [d \in Dispatchers |-> FALSE]
  /\ sent = [d \in Dispatchers |-> 0] /\ undelivered = [d \in Dispatchers |-> 0]
  /\ followups = [d \in Dispatchers |-> 0] /\ undeliveredLate = [d \in Dispatchers |-> 0]
  /\ registered = [d \in Dispatchers |-> FALSE]
  /\ idles = [d \in Dispatchers |-> 0]
  /\ restartPending = FALSE /\ restarts = 0

\* completeCalled: markComplete is called once, when the turn's run is over.
Completed(d) == turn[d] \in {"settling", "settled"}

-----------------------------------------------------------------------------
\* Mutant: without the reservation.
CreateReplyDispatcher_Unreserved(d) ==
  /\ turn[d] = "none"
  /\ turn' = [turn EXCEPT ![d] = "running"]
  /\ pending' = [pending EXCEPT ![d] = 0]
  /\ registered' = [registered EXCEPT ![d] = TRUE]
  /\ UNCHANGED <<release, chainVars, idles, restartVars>>

\* createReplyDispatcher: registered, with a reservation.
CreateReplyDispatcher(d) ==
  /\ turn[d] = "none"
  /\ turn' = [turn EXCEPT ![d] = "running"]
  /\ pending' = [pending EXCEPT ![d] = 1]
  /\ registered' = [registered EXCEPT ![d] = TRUE]
  /\ UNCHANGED <<release, chainVars, idles, restartVars>>

\* enqueue, by the turn.
SendReply(d) ==
  /\ turn[d] = "running" /\ sent[d] < MaxReplies
  /\ sent' = [sent EXCEPT ![d] = @ + 1]
  /\ undelivered' = [undelivered EXCEPT ![d] = @ + 1]
  /\ pending' = [pending EXCEPT ![d] = @ + 1]
  /\ UNCHANGED <<turn, release, followups, undeliveredLate, registered, idles, restartVars>>

\* enqueue, by the fallback of sendFollowupPayloads.
SendFollowupReply(d) ==
  /\ Completed(d) /\ followups[d] < MaxFollowups
  /\ followups' = [followups EXCEPT ![d] = @ + 1]
  /\ undeliveredLate' = [undeliveredLate EXCEPT ![d] = @ + 1]
  /\ pending' = [pending EXCEPT ![d] = @ + 1]
  /\ UNCHANGED <<turn, release, sent, undelivered, registered, idles, restartVars>>

\* What is left of a count of pending replies decides who is idle.
Settle(d, left) ==
  /\ pending' = [pending EXCEPT ![d] = left]
  /\ registered' = [registered EXCEPT ![d] = @ /\ left # 0]
  /\ idles' = [idles EXCEPT ![d] = IF left = 0 THEN @ + 1 ELSE @]

\* Mutant: markComplete leaves the reservation to the last delivery.
RunEnds_NoRelease(d) ==
  /\ turn[d] = "running"
  /\ turn' = [turn EXCEPT ![d] = "settling"]
  /\ UNCHANGED <<pending, release, chainVars, registered, idles, restartVars>>

\* The run returns or throws: markComplete.
RunEnds(d) ==
  /\ turn[d] = "running"
  /\ turn' = [turn EXCEPT ![d] = "settling"]
  /\ release' = [release EXCEPT ![d] = TRUE]
  /\ UNCHANGED <<pending, chainVars, registered, idles, restartVars>>

\* The microtask: with nothing to deliver it gives the reservation back.
ReleaseReservation(d) ==
  /\ release[d]
  /\ release' = [release EXCEPT ![d] = FALSE]
  /\ IF pending[d] = 1 THEN Settle(d, 0) ELSE UNCHANGED <<pending, registered, idles>>
  /\ UNCHANGED <<turn, chainVars, restartVars>>

\* A delivery is over, with or without an error: the next reply of the chain.
TakeFromChain(d) ==
  \/ /\ undelivered[d] > 0
     /\ undelivered' = [undelivered EXCEPT ![d] = @ - 1]
     /\ UNCHANGED undeliveredLate
  \/ /\ undelivered[d] = 0 /\ undeliveredLate[d] > 0
     /\ undeliveredLate' = [undeliveredLate EXCEPT ![d] = @ - 1]
     /\ UNCHANGED undelivered

\* Mutant: the last delivery gives the reservation back while the run goes on.
Delivered_Eager(d) ==
  LET left == pending[d] - 1 IN
  /\ TakeFromChain(d)
  /\ Settle(d, IF left = 1 THEN 0 ELSE left)
  /\ UNCHANGED <<turn, release, sent, followups, restartVars>>

\* The finally block of a delivery.
Delivered(d) ==
  LET left == pending[d] - 1 IN
  /\ TakeFromChain(d)
  /\ Settle(d, IF left = 1 /\ Completed(d) THEN 0 ELSE left)
  /\ UNCHANGED <<turn, release, sent, followups, restartVars>>

\* waitForIdle() took the chain as it was when the run ended.
TurnSettles(d) ==
  /\ turn[d] = "settling" /\ ~release[d] /\ undelivered[d] = 0
  /\ turn' = [turn EXCEPT ![d] = "settled"]
  /\ UNCHANGED <<pending, release, chainVars, registered, idles, restartVars>>

-----------------------------------------------------------------------------
(* The restart of a config change.  The queue and the embedded runs it     *)
(* counts too are taken to be idle: the replies alone hold it back.        *)

\* getTotalPendingReplies() > 0: no registered count is negative (PendingExact).
RepliesPending == \E d \in Dispatchers : registered[d] /\ pending[d] > 0

EmitRestart == restarts < MaxRestarts /\ restarts' = restarts + 1 /\ UNCHANGED dispatchVars

DeferRestart ==
  /\ RepliesPending /\ ~restartPending /\ restarts < MaxRestarts
  /\ restartPending' = TRUE
  /\ UNCHANGED <<dispatchVars, restarts>>

\* requestGatewayRestart: an idle gateway restarts at once, a poll or not.
RequestGatewayRestart ==
  \/ DeferRestart
  \/ ~RepliesPending /\ EmitRestart /\ UNCHANGED restartPending

\* The poll of deferGatewayRestartUntilIdle, before its deadline and at it.
PollEmits == restartPending /\ ~RepliesPending /\ EmitRestart /\ restartPending' = FALSE
PollTimesOut == restartPending /\ RepliesPending /\ EmitRestart /\ restartPending' = FALSE

-----------------------------------------------------------------------------
Dispatch(d) ==
  \/ CreateReplyDispatcher(d) \/ SendReply(d) \/ SendFollowupReply(d)
  \/ RunEnds(d) \/ ReleaseReservation(d) \/ Delivered(d) \/ TurnSettles(d)

ReplyNext ==
  \/ \E d \in Dispatchers : Dispatch(d)
  \/ RequestGatewayRestart \/ PollEmits \/ PollTimesOut

ReplySpec == ReplyInit /\ [][ReplyNext]_replyVars

\* Runs end, deliveries settle, microtasks run and the poll's interval fires.
ReplyFairness ==
  /\ \A d \in Dispatchers :
       /\ WF_replyVars(RunEnds(d))
       /\ WF_replyVars(ReleaseReservation(d))
       /\ WF_replyVars(Delivered(d))
       /\ WF_replyVars(TurnSettles(d))
  /\ WF_replyVars(PollEmits)

FairReplySpec == ReplySpec /\ ReplyFairness

-----------------------------------------------------------------------------
(* Properties.                                                             *)

(* Every variable has its type.                                            *)
ReplyTypeOK ==
  /\ turn \in [Dispatchers -> {"none", "running", "settling", "settled"}]
  /\ pending \in [Dispatchers -> Int]
  /\ release \in [Dispatchers -> BOOLEAN]
  /\ sent \in [Dispatchers -> Nat] /\ undelivered \in [Dispatchers -> Nat]
  /\ followups \in [Dispatchers -> Nat] /\ undeliveredLate \in [Dispatchers -> Nat]
  /\ registered \in [Dispatchers -> BOOLEAN]
  /\ idles \in [Dispatchers -> Nat]
  /\ restartPending \in BOOLEAN /\ restarts \in Nat

\* Whether one dispatcher's count is what it should be.
Exact(d) ==
  /\ registered[d] =>
       pending[d] = 1 + undelivered[d] + undeliveredLate[d] /\ idles[d] = 0
  /\ turn[d] # "none" /\ ~registered[d] =>
       Completed(d) /\ undelivered[d] = 0 /\ idles[d] \in 1 .. 1 + followups[d]
  /\ turn[d] = "settled" => undelivered[d] = 0

(* Idle is reported once for a turn, and not too early: as long as a       *)
(* dispatcher is registered it counts all its replies and the reservation, *)
(* and has not been idle; once it is not, the turn is over, the turn's own *)
(* replies are delivered and idle was reported, in whatever order the      *)
(* microtask and deliveries come, and again at most once for each reply of *)
(* a follow-up turn.  Those sent once it has left are not counted.         *)
PendingExact == \A d \in Dispatchers : Exact(d)

(* A restart for a config change never cuts off a turn that runs or a      *)
(* reply it has sent, unless the deferral's deadline has passed.           *)
RestartWaitsForTurns ==
  [][restarts' # restarts /\ ~PollTimesOut =>
       \A d \in Dispatchers : turn[d] # "running" /\ undelivered[d] = 0]_replyVars

(* Every turn ends: its dispatcher leaves the registry and onSettled is    *)
(* called, so that nothing holds a restart back for ever.                  *)
TurnsEnd == \A d \in Dispatchers : registered[d] ~> turn[d] = "settled" /\ ~registered[d]

(* "Used to ensure gateway restart waits for all replies to complete":     *)
(* also for those of follow-up turns.                                      *)
RestartWaitsForReplies ==
  [][restarts' # restarts /\ ~PollTimesOut =>
       \A d \in Dispatchers : undelivered[d] + undeliveredLate[d] = 0]_replyVars

(* "Track in-flight deliveries so we can emit a reliable idle signal":     *)
(* idle means that no delivery is under way.                               *)
IdleReliable ==
  [][\A d \in Dispatchers : idles'[d] # idles[d] => undelivered'[d] + undeliveredLate'[d] = 0]_replyVars
=============================================================================
