------------------------------- MODULE ReplyTurn -------------------------------
(***************************************************************************)
(* Turns with a typing indicator: ReplyDispatcher, with the typing         *)
(* controller (src/src/auto-reply/reply/typing.ts) of one of its turns.    *)
(* The dispatcher's onIdle and the end of the agent's run are the two      *)
(* signals that end typing; its own timer is the third.                    *)
(*                                                                         *)
(* The channel's own callbacks, which send and clear the indicator, are    *)
(* outside; a call of them may take any time and may fail.                 *)
(***************************************************************************)
EXTENDS ReplyDispatcher

CONSTANT Typed  \* the dispatcher made by createReplyDispatcherWithTyping

ASSUME TypedAssumption == Typed \in Dispatchers

VARIABLES
  typing,    \* the variables of the controller, `ttl`, `idleTimer` and `loop` for its timers
  starting,  \* startTypingLoop awaits the first onReplyStart
  agent      \* the agent's run in the turn, or in a follow-up turn that it queued

typingVars == <<typing, starting, agent>>
vars == <<replyVars, typingVars>>

Init ==
  /\ ReplyInit
  /\ typing = [started |-> FALSE, active |-> FALSE, runComplete |-> FALSE, dispatchIdle |-> FALSE,
               sealed |-> FALSE, ttl |-> FALSE, idleTimer |-> FALSE, loop |-> FALSE]
  /\ starting = FALSE /\ agent = "none"

-----------------------------------------------------------------------------
(* Methods of the controller, on its variables.                            *)

\* cleanup
Cleaned(t) ==
  IF t.sealed THEN t
  ELSE [started |-> FALSE, active |-> FALSE, runComplete |-> FALSE, dispatchIdle |-> FALSE,
        sealed |-> TRUE, ttl |-> FALSE, idleTimer |-> FALSE, loop |-> FALSE]

\* maybeStopOnIdle
StoppedIfIdle(t) == IF t.active /\ t.runComplete /\ t.dispatchIdle THEN Cleaned(t) ELSE t

\* markRunComplete
RunCompleted(t) ==
  LET u == StoppedIfIdle([t EXCEPT !.runComplete = TRUE]) IN
  IF u.sealed \/ u.dispatchIdle THEN u ELSE [u EXCEPT !.idleTimer = TRUE]

\* Mutant: the signal is noted, but nothing stops.
DispatchIdled_NoStop(t) == [t EXCEPT !.dispatchIdle = TRUE, !.idleTimer = FALSE]

\* markDispatchIdle
DispatchIdled(t) == StoppedIfIdle([t EXCEPT !.dispatchIdle = TRUE, !.idleTimer = FALSE])

\* The controller belongs to the turn of Typed while that runs, and to the
\* callbacks that outlive it.
HasController == turn[Typed] # "none"

MayStart == ~typing.sealed /\ ~typing.runComplete

\* startTypingLoop and ensureStart: the first caller waits for the channel,
\* a second one starts the loop at once.
StartTypingLoop ==
  LET t == [typing EXCEPT !.ttl = TRUE, !.active = TRUE, !.started = TRUE] IN
  /\ HasController /\ MayStart
  /\ IF typing.loop THEN typing' = [typing EXCEPT !.ttl = TRUE] /\ UNCHANGED starting
     ELSE /\ typing' = [t EXCEPT !.loop = typing.started]
          /\ starting' = (starting \/ ~typing.started)
  /\ UNCHANGED <<replyVars, agent>>

\* onReplyStart resolves, and the loop starts whatever has happened; or it
\* rejects.
StartSettles ==
  /\ starting /\ starting' = FALSE
  /\ typing' \in {typing, [typing EXCEPT !.loop = TRUE]}
  /\ UNCHANGED <<replyVars, agent>>

\* A tool keeps the indicator alive.
RefreshTypingTtl ==
  /\ HasController /\ ~typing.sealed
  /\ typing' = [typing EXCEPT !.ttl = TRUE]
  /\ UNCHANGED <<replyVars, starting, agent>>

TtlFires ==
  /\ typing.ttl
  /\ typing' = IF typing.loop THEN Cleaned(typing) ELSE [typing EXCEPT !.ttl = FALSE]
  /\ UNCHANGED <<replyVars, starting, agent>>

IdleTimerFires ==
  /\ typing.idleTimer
  /\ typing' = IF typing.dispatchIdle THEN [typing EXCEPT !.idleTimer = FALSE] ELSE Cleaned(typing)
  /\ UNCHANGED <<replyVars, starting, agent>>

\* The early returns of a reply call cleanup.
ReplyAbandoned ==
  /\ turn[Typed] = "running" /\ agent = "none" /\ ~typing.sealed
  /\ typing' = Cleaned(typing)
  /\ UNCHANGED <<replyVars, starting, agent>>

\* runReplyAgent enters its try block, or a follow-up turn starts.
AgentRunStarts ==
  /\ (turn[Typed] = "running" /\ agent = "none") \/ (Completed(Typed) /\ agent # "running")
  /\ agent' = "running"
  /\ UNCHANGED <<replyVars, typing, starting>>

\* The finally block of either.
AgentRunEnds ==
  /\ agent = "running" /\ agent' = "over"
  /\ typing' = DispatchIdled(RunCompleted(typing))
  /\ UNCHANGED <<replyVars, starting>>

\* The finally block of a channel gives the run's signal once more when the
\* dispatch is over.
MarkRunComplete ==
  /\ turn[Typed] = "settled"
  /\ typing' = RunCompleted(typing)
  /\ UNCHANGED <<replyVars, starting, agent>>

-----------------------------------------------------------------------------
\* What a dispatcher's step tells the controller: onIdle, the end of the
\* dispatch, and the end of params.run(), where some channels mark the run.
Told(d) ==
  IF d = Typed /\ (idles'[d] # idles[d] \/ TurnSettles(d)) THEN {DispatchIdled(typing)}
  ELSE IF d = Typed /\ RunEnds(d) THEN {typing, RunCompleted(typing)}
  ELSE {typing}

\* A step of a dispatcher.  A turn waits for its agent's run.
DispatchStep(d) ==
  /\ Dispatch(d)
  /\ turn[Typed] = "running" /\ agent = "running" => turn'[Typed] = "running"
  /\ typing' \in Told(d)
  /\ UNCHANGED <<starting, agent>>

Typing ==
  \/ StartTypingLoop \/ StartSettles \/ RefreshTypingTtl \/ TtlFires \/ IdleTimerFires
  \/ ReplyAbandoned \/ AgentRunStarts \/ AgentRunEnds \/ MarkRunComplete

Restarting == (RequestGatewayRestart \/ PollEmits \/ PollTimesOut) /\ UNCHANGED typingVars

Next == (\E d \in Dispatchers : DispatchStep(d)) \/ Restarting \/ Typing

Spec == Init /\ [][Next]_vars

\* The dispatchers' fairness; an agent's run ends.  Tools may put off the
\* controller's own timers for ever.
Fairness == ReplyFairness /\ WF_vars(AgentRunEnds)

FairSpec == Spec /\ Fairness

-----------------------------------------------------------------------------
(* Properties.                                                             *)

(* Typing that meets an agent's run ends: the signals of the run and of    *)
(* the dispatcher stop it, in whatever order they, the timers, slow starts *)
(* and late callbacks come.                                                *)
TypingEnds == typing.active /\ agent = "running" ~> typing.sealed

(* "Once we stop typing, we seal the controller so late events can't       *)
(* restart typing forever": the loop does not run once it is sealed.       *)
SealHolds == typing.sealed => ~typing.loop
=============================================================================
