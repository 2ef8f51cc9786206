---------------------------- MODULE ReplyTurnProofs ----------------------------
(***************************************************************************)
(* Proofs about ReplyDispatcher and ReplyTurn, for every set of            *)
(* dispatchers and any number of replies, follow-up turns and restarts.    *)
(***************************************************************************)
EXTENDS ReplyTurn, TLAPS

-----------------------------------------------------------------------------
(* The inductive invariant.                                                *)

\* PendingExact counts only registered dispatchers: what makes it inductive is
\* who is registered, that a running turn has nothing of follow-up turns, and
\* that every idle after the first has used up a reply of a follow-up turn.
Dispatcher(d) ==
  /\ turn[d] = "none" =>
       /\ ~registered[d] /\ ~release[d] /\ idles[d] = 0
       /\ undelivered[d] = 0 /\ undeliveredLate[d] = 0
  /\ turn[d] = "running" => registered[d] /\ ~release[d]
  /\ release[d] => turn[d] = "settling"
  /\ turn[d] # "none" /\ ~registered[d] => idles[d] + pending[d] <= 1 + followups[d]

IInv == ReplyTypeOK /\ PendingExact /\ \A d \in Dispatchers : Dispatcher(d)

LEMMA InitInv == ReplyInit => IInv
<1> SUFFICES ASSUME ReplyInit PROVE IInv
  OBVIOUS
<1>1. ReplyTypeOK
  <2>1. /\ turn \in [Dispatchers -> {"none", "running", "settling", "settled"}]
        /\ pending \in [Dispatchers -> Int]
        /\ sent \in [Dispatchers -> Nat] /\ undelivered \in [Dispatchers -> Nat]
        /\ followups \in [Dispatchers -> Nat] /\ undeliveredLate \in [Dispatchers -> Nat]
        /\ idles \in [Dispatchers -> Nat] /\ restarts \in Nat
    BY DEF ReplyInit
  <2>2. release \in [Dispatchers -> BOOLEAN] /\ registered \in [Dispatchers -> BOOLEAN]
    BY DEF ReplyInit
  <2>3. restartPending \in BOOLEAN
    BY DEF ReplyInit
  <2> QED
    BY <2>1, <2>2, <2>3 DEF ReplyTypeOK
<1>2. ASSUME NEW d \in Dispatchers
      PROVE  Exact(d) /\ Dispatcher(d)
  BY DEF ReplyInit, Exact, Dispatcher
<1> QED
  BY <1>1, <1>2 DEF IInv, PendingExact

-----------------------------------------------------------------------------
(* Every action of a dispatcher changes the state of that one only.        *)

\* The variables of a dispatcher.
Frame(d) ==
  /\ turn' = [turn EXCEPT ![d] = turn'[d]]
  /\ pending' = [pending EXCEPT ![d] = pending'[d]]
  /\ release' = [release EXCEPT ![d] = release'[d]]
  /\ sent' = [sent EXCEPT ![d] = sent'[d]]
  /\ undelivered' = [undelivered EXCEPT ![d] = undelivered'[d]]
  /\ followups' = [followups EXCEPT ![d] = followups'[d]]
  /\ undeliveredLate' = [undeliveredLate EXCEPT ![d] = undeliveredLate'[d]]
  /\ registered' = [registered EXCEPT ![d] = registered'[d]]
  /\ idles' = [idles EXCEPT ![d] = idles'[d]]

\* The type of a dispatcher's variables after a step.
TypedStep(d) ==
  /\ turn'[d] \in {"none", "running", "settling", "settled"}
  /\ pending'[d] \in Int
  /\ release'[d] \in BOOLEAN
  /\ sent'[d] \in Nat /\ undelivered'[d] \in Nat
  /\ followups'[d] \in Nat /\ undeliveredLate'[d] \in Nat
  /\ registered'[d] \in BOOLEAN
  /\ idles'[d] \in Nat

\* It is enough to look at the dispatcher that steps.
LEMMA OneDispatcher ==
  ASSUME NEW d \in Dispatchers, IInv, Frame(d), TypedStep(d), UNCHANGED restartVars,
         Exact(d)', Dispatcher(d)'
  PROVE  IInv'
<1>1. ReplyTypeOK'
  BY DEF IInv, ReplyTypeOK, Frame, TypedStep, restartVars
<1>2. ASSUME NEW e \in Dispatchers, e # d
      PROVE  Exact(e)' /\ Dispatcher(e)'
  <2>1. Exact(e) /\ Dispatcher(e)
    BY DEF IInv, PendingExact
  <2> QED
    BY <1>2, <2>1 DEF IInv, ReplyTypeOK, Frame, Exact, Dispatcher, Completed
<1>3. PendingExact'
  BY <1>2 DEF PendingExact
<1> QED
  BY <1>1, <1>2, <1>3 DEF IInv

\* What Settle leaves of a dispatcher.
LEMMA Settles ==
  ASSUME NEW d \in Dispatchers, IInv, NEW left \in Int, Settle(d, left)
  PROVE  /\ pending'[d] = left /\ registered'[d] \in BOOLEAN
         /\ left = 0 => ~registered'[d] /\ idles'[d] = idles[d] + 1
         /\ left # 0 => registered'[d] = registered[d] /\ idles'[d] = idles[d]
         /\ pending' = [pending EXCEPT ![d] = pending'[d]]
         /\ registered' = [registered EXCEPT ![d] = registered'[d]]
         /\ idles' = [idles EXCEPT ![d] = idles'[d]]
BY DEF IInv, ReplyTypeOK, Settle

\* A delivery: the chain shrinks by one, and what is left of the count decides.
LEMMA DeliveredInv ==
  ASSUME NEW d \in Dispatchers, IInv, Delivered(d)
  PROVE  IInv'
<1> DEFINE left == pending[d] - 1
           after == IF left = 1 /\ Completed(d) THEN 0 ELSE left
<1>0. ReplyTypeOK /\ Exact(d) /\ Dispatcher(d)
  BY DEF IInv, PendingExact
<1>1. after \in Int /\ Settle(d, after) /\ TakeFromChain(d)
      /\ UNCHANGED <<turn, release, sent, followups, restartVars>>
  BY <1>0 DEF Delivered, ReplyTypeOK
<1> HIDE DEF after
<1>2. /\ pending'[d] = after /\ registered'[d] \in BOOLEAN
      /\ after = 0 => ~registered'[d] /\ idles'[d] = idles[d] + 1
      /\ after # 0 => registered'[d] = registered[d] /\ idles'[d] = idles[d]
      /\ pending' = [pending EXCEPT ![d] = pending'[d]]
      /\ registered' = [registered EXCEPT ![d] = registered'[d]]
      /\ idles' = [idles EXCEPT ![d] = idles'[d]]
  BY <1>1, Settles
<1>3. /\ undelivered' = [undelivered EXCEPT ![d] = undelivered'[d]]
      /\ undeliveredLate' = [undeliveredLate EXCEPT ![d] = undeliveredLate'[d]]
      /\ undelivered'[d] \in Nat /\ undeliveredLate'[d] \in Nat
      /\ undelivered'[d] + undeliveredLate'[d] + 1 = undelivered[d] + undeliveredLate[d]
      /\ undelivered[d] = 0 => undelivered'[d] = 0
  BY <1>0, <1>1 DEF TakeFromChain, ReplyTypeOK
<1>4. Frame(d)
  BY <1>0, <1>1, <1>2, <1>3 DEF Frame, ReplyTypeOK
<1>5. TypedStep(d)
  BY <1>0, <1>1, <1>2, <1>3 DEF TypedStep, ReplyTypeOK
<1>6. after = 0 => pending[d] \in {1, 2}
  BY <1>0 DEF after, ReplyTypeOK
<1>7. /\ turn'[d] = turn[d] /\ release'[d] = release[d] /\ followups'[d] = followups[d]
      /\ turn[d] # "none"
      /\ after # 0 => after = left
  BY <1>0, <1>1, <1>3 DEF after, Dispatcher
<1>8. ~registered'[d] => idles'[d] + pending'[d] <= 1 + followups'[d]
  <2>1. CASE registered[d] /\ after = 0
    <3>1. idles[d] = 0
      BY <1>0, <2>1 DEF Exact
    <3> QED BY <1>0, <1>2, <1>7, <2>1, <3>1 DEF ReplyTypeOK
  <2>2. CASE registered[d] /\ after # 0
    BY <1>2, <2>2
  <2>3. CASE ~registered[d] /\ after = 0
    <3>1. idles[d] + pending[d] <= 1 + followups[d]
      BY <1>0, <1>7, <2>3 DEF Dispatcher
    <3> QED BY <1>0, <1>2, <1>6, <1>7, <2>3, <3>1 DEF ReplyTypeOK
  <2>4. CASE ~registered[d] /\ after # 0
    <3>1. idles[d] + pending[d] <= 1 + followups[d]
      BY <1>0, <1>7, <2>4 DEF Dispatcher
    <3> QED BY <1>0, <1>2, <1>7, <2>4, <3>1 DEF ReplyTypeOK
  <2> QED BY <1>0, <2>1, <2>2, <2>3, <2>4 DEF ReplyTypeOK
<1>9. Dispatcher(d)'
  <2>1. CASE turn[d] = "running"
    <3>1. after = left /\ left # 0
      BY <1>0, <1>3, <2>1 DEF after, Completed, Exact, Dispatcher, ReplyTypeOK
    <3> QED
      BY <1>0, <1>2, <1>7, <2>1, <3>1 DEF Dispatcher
  <2>2. CASE turn[d] # "running"
    BY <1>0, <1>7, <1>8, <2>2 DEF Dispatcher
  <2> QED
    BY <2>1, <2>2
<1>10. Exact(d)'
  <2>1. CASE registered[d] /\ after # 0
    <3>1. left >= 1 /\ after = left
      BY <1>0, <1>3, <2>1 DEF after, Exact, ReplyTypeOK
    <3> QED
      BY <1>0, <1>1, <1>2, <1>3, <2>1, <3>1 DEF Exact, Completed, ReplyTypeOK
  <2>2. CASE registered[d] /\ after = 0
    <3>1. left = 1 /\ Completed(d)
      BY <1>0, <1>3, <2>2 DEF after, Exact, ReplyTypeOK
    <3>2. undelivered'[d] = 0 /\ undeliveredLate'[d] = 0
      BY <1>0, <1>3, <2>2, <3>1 DEF Exact, ReplyTypeOK
    <3> QED
      BY <1>0, <1>1, <1>2, <2>2, <3>1, <3>2 DEF Exact, Completed, ReplyTypeOK
  <2>3. CASE ~registered[d]
    <3>1. Completed(d) /\ undelivered[d] = 0 /\ idles[d] \in 1 .. 1 + followups[d]
      BY <1>0, <1>7, <2>3 DEF Exact
    <3>2. idles[d] + pending[d] <= 1 + followups[d]
      BY <1>0, <1>7, <2>3 DEF Dispatcher
    <3>3. ~registered'[d] /\ Completed(d)' /\ undelivered'[d] = 0
      BY <1>2, <1>3, <1>7, <2>3, <3>1 DEF Completed
    <3>4. idles'[d] \in 1 .. 1 + followups'[d]
      BY <1>0, <1>2, <1>6, <1>7, <3>1, <3>2 DEF ReplyTypeOK
    <3> QED
      BY <3>3, <3>4 DEF Exact
  <2> QED
    BY <2>1, <2>2, <2>3
<1> QED
  BY <1>1, <1>4, <1>5, <1>9, <1>10, OneDispatcher

\* The microtask finds the reservation alone, or leaves it to a delivery.
LEMMA ReleaseInv ==
  ASSUME NEW d \in Dispatchers, IInv, ReleaseReservation(d)
  PROVE  IInv'
<1>0. ReplyTypeOK /\ Exact(d) /\ Dispatcher(d)
  BY DEF IInv, PendingExact
<1>1. turn[d] = "settling"
  BY <1>0 DEF ReleaseReservation, Dispatcher
<1>2. CASE pending[d] = 1
  <2>1. Settle(d, 0)
    BY <1>2 DEF ReleaseReservation
  <2>2. /\ pending'[d] = 0 /\ registered'[d] \in BOOLEAN
        /\ ~registered'[d] /\ idles'[d] = idles[d] + 1
        /\ pending' = [pending EXCEPT ![d] = pending'[d]]
        /\ registered' = [registered EXCEPT ![d] = registered'[d]]
        /\ idles' = [idles EXCEPT ![d] = idles'[d]]
    BY <2>1, Settles
  <2>3. UNCHANGED <<turn, chainVars, restartVars>> /\ release' = [release EXCEPT ![d] = FALSE]
    BY DEF ReleaseReservation
  <2>6. Frame(d)
    BY <1>0, <2>2, <2>3 DEF Frame, ReplyTypeOK, chainVars
  <2>7. TypedStep(d)
    BY <1>0, <2>2, <2>3 DEF TypedStep, ReplyTypeOK, chainVars
  <2>4. undelivered[d] = 0
    BY <1>0, <1>1, <1>2 DEF Exact, ReplyTypeOK
  <2>5. Exact(d)' /\ Dispatcher(d)'
    BY <1>0, <1>1, <2>2, <2>4
    DEF ReleaseReservation, Exact, Dispatcher, Completed, ReplyTypeOK, chainVars
  <2> QED
    BY <2>3, <2>5, <2>6, <2>7, OneDispatcher
<1>3. CASE pending[d] # 1
  <2>1. Frame(d) /\ TypedStep(d) /\ UNCHANGED restartVars
    BY <1>0, <1>3 DEF ReleaseReservation, Frame, TypedStep, ReplyTypeOK, chainVars
  <2>2. Exact(d)' /\ Dispatcher(d)'
    BY <1>0, <1>1, <1>3
    DEF ReleaseReservation, Exact, Dispatcher, Completed, ReplyTypeOK, chainVars
  <2> QED
    BY <2>1, <2>2, OneDispatcher
<1> QED
  BY <1>2, <1>3

LEMMA DispatchInv ==
  ASSUME NEW d \in Dispatchers, IInv, Dispatch(d)
  PROVE  IInv'
<1>0. ReplyTypeOK /\ Exact(d) /\ Dispatcher(d)
  BY DEF IInv, PendingExact
<1>1. CASE CreateReplyDispatcher(d)
  <2>1. Frame(d) /\ TypedStep(d) /\ UNCHANGED restartVars
    BY <1>0, <1>1 DEF CreateReplyDispatcher, Completed, Frame, TypedStep, ReplyTypeOK, chainVars, restartVars
  <2>2. Exact(d)' /\ Dispatcher(d)'
    BY <1>0, <1>1 DEF CreateReplyDispatcher, Exact, Dispatcher, Completed, ReplyTypeOK, chainVars
  <2> QED
    BY <2>1, <2>2, OneDispatcher
<1>2. CASE SendReply(d)
  <2>1. Frame(d) /\ TypedStep(d) /\ UNCHANGED restartVars
    BY <1>0, <1>2 DEF SendReply, Completed, Frame, TypedStep, ReplyTypeOK, chainVars, restartVars
  <2>2. Exact(d)' /\ Dispatcher(d)'
    BY <1>0, <1>2 DEF SendReply, Exact, Dispatcher, Completed, ReplyTypeOK, chainVars
  <2> QED
    BY <2>1, <2>2, OneDispatcher
<1>3. CASE SendFollowupReply(d)
  <2>1. Frame(d) /\ TypedStep(d) /\ UNCHANGED restartVars
    BY <1>0, <1>3 DEF SendFollowupReply, Completed, Frame, TypedStep, ReplyTypeOK, chainVars, restartVars
  <2>2. Exact(d)' /\ Dispatcher(d)'
    BY <1>0, <1>3 DEF SendFollowupReply, Exact, Dispatcher, Completed, ReplyTypeOK, chainVars
  <2> QED
    BY <2>1, <2>2, OneDispatcher
<1>4. CASE RunEnds(d)
  <2>1. Frame(d) /\ TypedStep(d) /\ UNCHANGED restartVars
    BY <1>0, <1>4 DEF RunEnds, Completed, Frame, TypedStep, ReplyTypeOK, chainVars, restartVars
  <2>2. Exact(d)' /\ Dispatcher(d)'
    BY <1>0, <1>4 DEF RunEnds, Exact, Dispatcher, Completed, ReplyTypeOK, chainVars
  <2> QED
    BY <2>1, <2>2, OneDispatcher
<1>5. CASE TurnSettles(d)
  <2>1. Frame(d) /\ TypedStep(d) /\ UNCHANGED restartVars
    BY <1>0, <1>5 DEF TurnSettles, Completed, Frame, TypedStep, ReplyTypeOK, chainVars, restartVars
  <2>2. Exact(d)' /\ Dispatcher(d)'
    BY <1>0, <1>5 DEF TurnSettles, Exact, Dispatcher, Completed, ReplyTypeOK, chainVars
  <2> QED
    BY <2>1, <2>2, OneDispatcher
<1>6. CASE ReleaseReservation(d)
  BY <1>6, ReleaseInv
<1>7. CASE Delivered(d)
  BY <1>7, DeliveredInv
<1> QED
  BY <1>1, <1>2, <1>3, <1>4, <1>5, <1>6, <1>7 DEF Dispatch

\* The restart only reads the dispatchers.
LEMMA Untouched ==
  ASSUME IInv, UNCHANGED dispatchVars,
         restartPending' \in BOOLEAN, restarts' \in Nat
  PROVE  IInv'
BY DEF IInv, ReplyTypeOK, PendingExact, Exact, Dispatcher, Completed, dispatchVars, chainVars

LEMMA NextInv == IInv /\ [ReplyNext]_replyVars => IInv'
<1> SUFFICES ASSUME IInv, [ReplyNext]_replyVars PROVE IInv'
  OBVIOUS
<1>0. restartPending \in BOOLEAN /\ restarts \in Nat
  BY DEF IInv, ReplyTypeOK
<1>1. ASSUME NEW d \in Dispatchers, Dispatch(d)
      PROVE  IInv'
  BY <1>1, DispatchInv
<1>2. CASE RequestGatewayRestart
  <2>1. UNCHANGED dispatchVars
    BY <1>2 DEF RequestGatewayRestart, DeferRestart, EmitRestart
  <2>2. restartPending' \in BOOLEAN
    BY <1>0, <1>2 DEF RequestGatewayRestart, DeferRestart
  <2>3. restarts' \in Nat
    BY <1>0, <1>2 DEF RequestGatewayRestart, DeferRestart, EmitRestart
  <2> QED
    BY <2>1, <2>2, <2>3, Untouched
<1>3. CASE PollEmits \/ PollTimesOut
  <2>1. UNCHANGED dispatchVars
    BY <1>3 DEF PollEmits, PollTimesOut, EmitRestart
  <2>2. restartPending' \in BOOLEAN
    BY <1>3 DEF PollEmits, PollTimesOut
  <2>3. restarts' \in Nat
    BY <1>0, <1>3 DEF PollEmits, PollTimesOut, EmitRestart
  <2> QED
    BY <2>1, <2>2, <2>3, Untouched
<1>4. CASE UNCHANGED replyVars
  BY <1>0, <1>4, Untouched DEF replyVars, restartVars
<1> QED
  BY <1>1, <1>2, <1>3, <1>4 DEF ReplyNext

\* A restart that does not time out found no dispatcher registered.
LEMMA RestartStep ==
  ASSUME IInv, [ReplyNext]_replyVars
  PROVE  [restarts' # restarts /\ ~PollTimesOut =>
            \A d \in Dispatchers : turn[d] # "running" /\ undelivered[d] = 0]_replyVars
<1> SUFFICES ASSUME ReplyNext, restarts' # restarts, ~PollTimesOut,
                    NEW d \in Dispatchers
             PROVE  turn[d] # "running" /\ undelivered[d] = 0
  OBVIOUS
<1>0. ReplyTypeOK /\ Exact(d) /\ Dispatcher(d)
  BY DEF IInv, PendingExact
<1>1. ~RepliesPending
  <2>1. ASSUME NEW e \in Dispatchers, Dispatch(e)
        PROVE  FALSE
    BY <2>1 DEF Dispatch, CreateReplyDispatcher, SendReply, SendFollowupReply, RunEnds,
       ReleaseReservation, Delivered, TurnSettles, restartVars
  <2> QED
    BY <2>1 DEF ReplyNext, RequestGatewayRestart, DeferRestart, PollEmits
<1>2. ~registered[d]
  BY <1>0, <1>1 DEF RepliesPending, Exact, ReplyTypeOK
<1> QED
  BY <1>0, <1>2 DEF Exact, Dispatcher, Completed, ReplyTypeOK

-----------------------------------------------------------------------------
(* Theorems.                                                               *)

LEMMA Invariance == ReplySpec => []IInv
BY InitInv, NextInv, PTL DEF ReplySpec

(* The steps of ReplyTurn are dispatchers' steps and restarts, or leave    *)
(* their state alone.                                                      *)
LEMMA TurnImplementsDispatchers == Spec => ReplySpec
<1>1. Init => ReplyInit
  BY DEF Init
<1>2. [Next]_vars => [ReplyNext]_replyVars
  <2> SUFFICES ASSUME [Next]_vars PROVE [ReplyNext]_replyVars
    OBVIOUS
  <2>1. CASE \E d \in Dispatchers : DispatchStep(d)
    BY <2>1 DEF DispatchStep, ReplyNext
  <2>2. CASE Restarting
    BY <2>2 DEF Restarting, ReplyNext
  <2>3. CASE Typing
    BY <2>3 DEF Typing, StartTypingLoop, StartSettles, RefreshTypingTtl, TtlFires, IdleTimerFires,
       ReplyAbandoned, AgentRunStarts, AgentRunEnds, MarkRunComplete
  <2>4. CASE UNCHANGED vars
    BY <2>4 DEF vars
  <2> QED
    BY <2>1, <2>2, <2>3, <2>4 DEF Next
<1> QED
  BY <1>1, <1>2, PTL DEF Spec, ReplySpec

(* Every variable of the dispatchers and the restart has its type.         *)
THEOREM ReplyTypeCorrect == Spec => []ReplyTypeOK
<1>1. IInv => ReplyTypeOK
  BY DEF IInv
<1> QED
  BY <1>1, Invariance, TurnImplementsDispatchers, PTL

(* The count of a registered dispatcher is exact; idle is reported once    *)
(* all of the turn's own replies are delivered, never before, and again at *)
(* most once for each reply of a follow-up turn.                           *)
THEOREM PendingCounted == Spec => []PendingExact
<1>1. IInv => PendingExact
  BY DEF IInv
<1> QED
  BY <1>1, Invariance, TurnImplementsDispatchers, PTL

(* Before its deadline a deferred restart never cuts off a turn, nor a     *)
(* reply that a turn has sent.                                             *)
THEOREM RestartsWait == Spec => RestartWaitsForTurns
<1>1. IInv /\ [ReplyNext]_replyVars =>
        [restarts' # restarts /\ ~PollTimesOut =>
           \A d \in Dispatchers : turn[d] # "running" /\ undelivered[d] = 0]_replyVars
  BY RestartStep
<1> QED
  BY <1>1, Invariance, TurnImplementsDispatchers, PTL DEF ReplySpec, RestartWaitsForTurns
=============================================================================
