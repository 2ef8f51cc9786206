---------------------------- MODULE TaskLifecycle ----------------------------
(***************************************************************************)
(* What a caller of the command queue may rely on, without queues, task    *)
(* ids or generations.  A task is handed in, waits, runs and is done, or   *)
(* is rejected without ever having run.  A lane lends at most its limit of *)
(* slots, and leaves no task waiting beside a free slot.  A restart takes  *)
(* all slots back; what was running goes on without one.                   *)
(*                                                                         *)
(* CommandQueue implements this specification: see Lifecycle there.        *)
(***************************************************************************)
EXTENDS Integers, FiniteSets

CONSTANTS Lanes, Tasks, LaneOf

VARIABLES
  accepting,  \* tasks may be handed in
  life,       \* "new", "waiting", "running", "done" or "rejected"
  slots,      \* the tasks that hold a slot of each lane
  limit       \* the number of slots of each lane

vars == <<accepting, life, slots, limit>>

Init ==
  /\ accepting = TRUE
  /\ life = [t \in Tasks |-> "new"]
  /\ slots = [l \in Lanes |-> {}]
  /\ limit = [l \in Lanes |-> 1]

Waiting(l, lf) == {t \in Tasks : LaneOf[t] = l /\ lf[t] = "waiting"}

\* The tasks S of w may start when h hold a slot already: some choice of as
\* many as there are free slots.
Fills(S, w, h, n) ==
  /\ S \subseteq w
  /\ S # {} => Cardinality(h \cup S) <= n
  /\ S # w => Cardinality(h \cup S) >= n

\* Lane l lends its free slots, when h hold one and the tasks' lives are lf.
Lend(l, h, n, lf) ==
  \E S \in SUBSET Waiting(l, lf) :
    /\ Fills(S, Waiting(l, lf), h, n)
    /\ slots' = [slots EXCEPT ![l] = h \cup S]
    /\ life' = [t \in Tasks |-> IF t \in S THEN "running" ELSE lf[t]]

Submit(t) ==
  /\ accepting
  /\ life[t] = "new"
  /\ Lend(LaneOf[t], slots[LaneOf[t]], limit[LaneOf[t]], [life EXCEPT ![t] = "waiting"])
  /\ UNCHANGED <<accepting, limit>>

Refuse(t) ==
  /\ ~accepting
  /\ life[t] = "new"
  /\ life' = [life EXCEPT ![t] = "rejected"]
  /\ UNCHANGED <<accepting, slots, limit>>

\* A task that lost its slot to a restart gives none back.
Finish(t) ==
  LET l == LaneOf[t] IN
  /\ life[t] = "running"
  /\ IF t \in slots[l]
     THEN Lend(l, slots[l] \ {t}, limit[l], [life EXCEPT ![t] = "done"])
     ELSE life' = [life EXCEPT ![t] = "done"] /\ UNCHANGED slots
  /\ UNCHANGED <<accepting, limit>>

Cancel(l) ==
  /\ life' = [t \in Tasks |-> IF t \in Waiting(l, life) THEN "rejected" ELSE life[t]]
  /\ UNCHANGED <<accepting, slots, limit>>

Resize(l) ==
  /\ limit'[l] \in Nat \ {0}
  /\ limit' = [limit EXCEPT ![l] = limit'[l]]
  /\ Lend(l, slots[l], limit'[l], life)
  /\ UNCHANGED accepting

Close == accepting' = FALSE /\ UNCHANGED <<life, slots, limit>>

Restart ==
  /\ accepting' = TRUE
  /\ \A l \in Lanes : Fills(slots'[l], Waiting(l, life), {}, limit[l])
  /\ slots' = [l \in Lanes |-> slots'[l]]
  /\ life' = [t \in Tasks |-> IF t \in slots'[LaneOf[t]] THEN "running" ELSE life[t]]
  /\ UNCHANGED limit

Next ==
  \/ \E t \in Tasks : Submit(t) \/ Refuse(t) \/ Finish(t)
  \/ \E l \in Lanes : Cancel(l) \/ Resize(l)
  \/ Close
  \/ Restart

Spec == Init /\ [][Next]_vars

=============================================================================
