------------------------- MODULE HeartbeatWakeProofs -------------------------
(***************************************************************************)
(* Proofs about HeartbeatWake, for every set of targets and every bound.   *)
(*                                                                         *)
(* A retry puts a whole batch back into the queue, one wake after the      *)
(* other (QueuedAll).  What that does is proved by induction over the      *)
(* batch (SetInduction), from the equation of the recursive function in it.*)
(***************************************************************************)
EXTENDS HeartbeatWake, WellFoundedInduction, TLAPS

\* The part of the type invariant that the proofs need.
TimerOK == timer \in {"none", "normal", "retry"}

\* schedule never leaves the timer unarmed.
LEMMA ScheduledArms ==
  ASSUME NEW tm \in {"none", "normal", "retry"},
         NEW kind \in {"normal", "retry"}
  PROVE  Scheduled(tm, kind) \subseteq {"normal", "retry"}
  BY DEF Scheduled

(* While a handler is registered and wakes are pending, a timer is armed:  *)
(* inductive together with the three values of the timer.                  *)
ArmedInv == TimerOK /\ WakeArmed

LEMMA ArmedInit == Init => ArmedInv
  BY DEF Init, ArmedInv, TimerOK, WakeArmed, NoGen

\* The finally block arms the timer when wakes are pending.
LEMMA FinallyArms ==
  ASSUME NEW q, NEW tm \in {"none", "normal", "retry"}, Finally(q, tm)
  PROVE  /\ timer' \in {"none", "normal", "retry"}
         /\ q # <<>> => timer' # "none"
  <1>1. Scheduled(tm, "normal") \subseteq {"normal", "retry"}
    BY ScheduledArms
  <1> QED BY <1>1 DEF Finally

\* So does each way in which a run goes on.
LEMMA ContinueArms ==
  ASSUME NEW r, NEW q, NEW tm \in {"none", "normal", "retry"},
         NEW back, Continue(r, q, tm, back),
         q # <<>> => tm # "none" \/ handler = NoGen
  PROVE  /\ timer' \in {"none", "normal", "retry"}
         /\ q # <<>> => timer' # "none" \/ handler = NoGen
  <1>1. CASE timer' = tm
    BY <1>1
  <1>2. CASE Finally(q, tm)
    BY <1>2, FinallyArms
  <1> QED BY <1>1, <1>2 DEF Continue

LEMMA ArmedStep == ArmedInv /\ [Next]_vars => ArmedInv'
  <1> SUFFICES ASSUME ArmedInv, [Next]_vars
               PROVE  TimerOK' /\ WakeArmed'
    BY DEF ArmedInv
  <1> USE DEF ArmedInv, TimerOK
  <1>1. ASSUME NEW t \in Targets, NEW p \in Priorities, Request(t, p)
        PROVE  TimerOK' /\ WakeArmed'
    <2>1. Scheduled(timer, "normal") \subseteq {"normal", "retry"}
      BY ScheduledArms
    <2> QED BY <1>1, <2>1 DEF Request, WakeArmed
  <1>2. CASE SetHandler
    BY <1>2 DEF SetHandler, WakeArmed
  <1>3. ASSUME NEW g \in Gens, Dispose(g)
        PROVE  TimerOK' /\ WakeArmed'
    BY <1>3 DEF Dispose, WakeArmed
  <1>4. CASE Fire
    BY <1>4 DEF Fire, FireUnhandled, FireBusy, FireRun, WakeArmed, registry
  <1>5. ASSUME NEW r \in DOMAIN runs, Served(r)
        PROVE  TimerOK' /\ WakeArmed'
    <2>1. pending # <<>> => timer # "none" \/ handler = NoGen
      BY DEF WakeArmed
    <2>2. /\ timer' \in {"none", "normal", "retry"}
          /\ pending # <<>> => timer' # "none" \/ handler = NoGen
      BY <1>5, <2>1, ContinueArms DEF Served
    <2> QED BY <1>5, <2>2 DEF Served, WakeArmed, registry
  <1>6. ASSUME NEW r \in DOMAIN runs, InFlight(r)
        PROVE  TimerOK' /\ WakeArmed'
    <2>1. Scheduled(timer, "retry") \subseteq {"normal", "retry"}
      BY ScheduledArms
    <2> DEFINE back == {Current(r).t}
               q == pending'
    <2>2. PICK tm \in Scheduled(timer, "retry") : Continue(r, q, tm, back)
      BY <1>6 DEF InFlight
    <2>3. tm \in {"none", "normal", "retry"} /\ tm # "none"
      BY <2>1
    <2>4. q # <<>> => tm # "none" \/ handler = NoGen
      BY <2>3
    <2> HIDE DEF back, q
    <2>5. /\ timer' \in {"none", "normal", "retry"}
          /\ q # <<>> => timer' # "none" \/ handler = NoGen
      <3>1. CASE timer' = tm
        BY <2>3, <2>4, <3>1
      <3>2. CASE Finally(q, tm)
        BY <2>3, <3>2, FinallyArms
      <3> QED BY <2>2, <3>1, <3>2 DEF Continue
    <2> QED BY <1>6, <2>5 DEF InFlight, WakeArmed, registry, q
  <1>7. ASSUME NEW r \in DOMAIN runs, Throws(r)
        PROVE  TimerOK' /\ WakeArmed'
    <2>1. Scheduled(timer, "retry") \subseteq {"normal", "retry"}
      BY ScheduledArms
    <2>2. PICK tm \in Scheduled(timer, "retry") : Finally(pending', tm)
      BY <1>7 DEF Throws
    <2>3. tm \in {"none", "normal", "retry"}
      BY <2>1
    <2>4. /\ timer' \in {"none", "normal", "retry"}
          /\ pending' # <<>> => timer' # "none"
      BY <2>2, <2>3, FinallyArms
    <2> QED BY <1>7, <2>4 DEF Throws, WakeArmed, registry
  <1>8. CASE UNCHANGED vars
    BY <1>8 DEF vars, registry, WakeArmed
  <1> QED BY <1>1, <1>2, <1>3, <1>4, <1>5, <1>6, <1>7, <1>8 DEF Next, Return

(* No lost wake-up, in any number of lifecycles.                           *)
THEOREM NoLostWakeUp == Spec => []WakeArmed
  <1>1. ArmedInv => WakeArmed
    BY DEF ArmedInv
  <1> QED BY <1>1, ArmedInit, ArmedStep, PTL DEF Spec

-----------------------------------------------------------------------------
(* Runs are counted against registrations: a registration frees one place, *)
(* and so may the end of a run, which then gives up its own.               *)
IsRunSeq == \E S : runs \in Seq(S)
Free == IF running THEN 0 ELSE 1
CountInv ==
  /\ IsRunSeq
  /\ gens \in Nat /\ handler \in 0 .. gens /\ running \in BOOLEAN
  /\ IF gens = 0 THEN runs = <<>> /\ ~running ELSE Len(runs) + Free <= gens

LEMMA RemovedRun ==
  ASSUME IsRunSeq, NEW r \in DOMAIN runs
  PROVE  /\ Len(RemoveAt(runs, r)) = Len(runs) - 1
         /\ \E T : RemoveAt(runs, r) \in Seq(T)
         /\ Len(runs) \in Nat /\ Len(runs) > 0
  <1>1. PICK S : runs \in Seq(S)
    BY DEF IsRunSeq
  <1>2. r \in 1 .. Len(runs) /\ Len(runs) \in Nat
    BY <1>1
  <1> DEFINE a == SubSeq(runs, 1, r - 1)
             b == SubSeq(runs, r + 1, Len(runs))
  <1>3. a \in Seq(S) /\ Len(a) = r - 1
    BY <1>1, <1>2
  <1>4. b \in Seq(S) /\ Len(b) = Len(runs) - r
    BY <1>1, <1>2
  <1>5. RemoveAt(runs, r) = a \o b
    BY DEF RemoveAt
  <1> HIDE DEF a, b
  <1>6. a \o b \in Seq(S) /\ Len(a \o b) = Len(a) + Len(b)
    BY <1>3, <1>4
  <1>7. Len(a \o b) = Len(runs) - 1
    BY <1>2, <1>3, <1>4, <1>6
  <1>8. RemoveAt(runs, r) \in Seq(S)
    BY <1>5, <1>6
  <1>9. \E T : RemoveAt(runs, r) \in Seq(T)
    BY <1>8
  <1>10. Len(RemoveAt(runs, r)) = Len(runs) - 1
    BY <1>5, <1>7
  <1> QED BY <1>2, <1>9, <1>10

\* A run that goes on or ends keeps the count.
LEMMA RunEnds ==
  ASSUME CountInv, NEW r \in DOMAIN runs, runs' = RemoveAt(runs, r),
         running' = FALSE, UNCHANGED registry
  PROVE  CountInv'
  <1>1. /\ Len(runs') = Len(runs) - 1 /\ Len(runs) \in Nat /\ Len(runs) > 0
        /\ IsRunSeq'
    BY RemovedRun DEF CountInv, IsRunSeq
  <1>2. gens # 0 /\ Len(runs) <= gens
    BY <1>1 DEF CountInv, Free
  <1>3. Len(runs') + Free' <= gens'
    BY <1>1, <1>2 DEF CountInv, Free, registry
  <1>4. gens' # 0 /\ gens' \in Nat /\ handler' \in 0 .. gens'
        /\ running' \in BOOLEAN
    BY <1>2 DEF CountInv, registry
  <1> QED BY <1>1, <1>3, <1>4 DEF CountInv

LEMMA RunGoesOn ==
  ASSUME CountInv, NEW r \in DOMAIN runs,
         runs' = [runs EXCEPT ![r].i = @ + 1], UNCHANGED <<flags, registry>>
  PROVE  CountInv'
  <1>1. PICK S : runs \in Seq(S)
    BY DEF CountInv, IsRunSeq
  <1>2. runs' \in Seq(S \union {[runs[r] EXCEPT !.i = @ + 1]})
    BY <1>1
  <1>3. Len(runs') = Len(runs) /\ (runs = <<>> => runs' = <<>>)
    BY <1>1
  <1> QED BY <1>2, <1>3 DEF CountInv, Free, IsRunSeq, registry, flags

LEMMA ContinueCounts ==
  ASSUME CountInv, NEW r \in DOMAIN runs, NEW q, NEW tm, NEW back,
         Continue(r, q, tm, back), UNCHANGED registry
  PROVE  CountInv'
  <1>1. CASE runs' = RemoveAt(runs, r) /\ Finally(q, tm)
    BY <1>1, RunEnds DEF Finally
  <1>2. CASE runs' = [runs EXCEPT ![r].i = @ + 1] /\ UNCHANGED flags
    BY <1>2, RunGoesOn
  <1> QED BY <1>1, <1>2 DEF Continue

LEMMA CountInit == Init => CountInv
  <1> SUFFICES ASSUME Init PROVE CountInv
    OBVIOUS
  <1>1. runs \in Seq({})
    BY DEF Init
  <1>2. IsRunSeq
    BY <1>1 DEF IsRunSeq
  <1>3. gens = 0 /\ runs = <<>> /\ ~running /\ handler = 0 /\ running \in BOOLEAN
    BY DEF Init, NoGen
  <1> QED BY <1>2, <1>3 DEF CountInv

LEMMA CountStep == CountInv /\ [Next]_vars => CountInv'
  <1> SUFFICES ASSUME CountInv, [Next]_vars
               PROVE  CountInv'
    OBVIOUS
  <1>1. CASE UNCHANGED <<registry, running, runs>>
    BY <1>1 DEF CountInv, IsRunSeq, Free, registry
  <1>2. ASSUME NEW t \in Targets, NEW p \in Priorities, Request(t, p)
        PROVE  CountInv'
    BY <1>1, <1>2 DEF Request, flags
  <1>3. CASE SetHandler
    <2>1. Len(runs) \in Nat
      BY DEF CountInv, IsRunSeq
    <2>2. Len(runs) <= gens
      BY <2>1 DEF CountInv, Free
    <2>3. gens' = gens + 1 /\ handler' = gens + 1 /\ running' = FALSE
          /\ runs' = runs
      BY <1>3 DEF SetHandler
    <2>4. Len(runs') + Free' <= gens' /\ gens' # 0
      BY <2>1, <2>2, <2>3 DEF Free, CountInv
    <2>5. gens' \in Nat /\ handler' \in 0 .. gens'
      <3>1. gens \in Nat
        BY DEF CountInv
      <3> QED BY <2>3, <3>1
    <2>6. running' \in BOOLEAN
      BY <2>3
    <2>7. IsRunSeq'
      BY <2>3 DEF CountInv, IsRunSeq
    <2> QED BY <2>4, <2>5, <2>6, <2>7 DEF CountInv
  <1>4. ASSUME NEW g \in Gens, Dispose(g)
        PROVE  CountInv'
    BY <1>4 DEF Dispose, CountInv, IsRunSeq, Free, flags, NoGen
  <1>5. CASE FireUnhandled \/ FireBusy
    BY <1>1, <1>5 DEF FireUnhandled, FireBusy
  <1>6. CASE FireRun
    <2>1. CASE pending = <<>>
      BY <1>1, <1>6, <2>1 DEF FireRun
    <2>2. CASE pending # <<>>
      <3> DEFINE run == [by |-> handler, batch |-> pending, i |-> 1]
      <3>1. runs' = Append(runs, run) /\ running' = TRUE /\ ~running
            /\ handler # NoGen /\ UNCHANGED registry
        BY <1>6, <2>2 DEF FireRun
      <3> HIDE DEF run
      <3>2. PICK S : runs \in Seq(S)
        BY DEF CountInv, IsRunSeq
      <3>3. runs' \in Seq(S \union {run}) /\ Len(runs') = Len(runs) + 1
            /\ Len(runs) \in Nat
        BY <3>1, <3>2
      <3>4. gens # 0
        BY <3>1 DEF CountInv, NoGen
      <3> QED BY <3>1, <3>3, <3>4 DEF CountInv, IsRunSeq, Free, registry
    <2> QED BY <2>1, <2>2
  <1>7. ASSUME NEW r \in DOMAIN runs, Served(r)
        PROVE  CountInv'
    BY <1>7, ContinueCounts DEF Served
  <1>8. ASSUME NEW r \in DOMAIN runs, InFlight(r)
        PROVE  CountInv'
    BY <1>8, ContinueCounts DEF InFlight
  <1>9. ASSUME NEW r \in DOMAIN runs, Throws(r)
        PROVE  CountInv'
    BY <1>9, RunEnds DEF Throws, Finally
  <1>10. CASE UNCHANGED vars
    BY <1>1, <1>10 DEF vars, flags
  <1> QED BY <1>2, <1>3, <1>4, <1>5, <1>6, <1>7, <1>8, <1>9, <1>10
          DEF Next, Return, Fire

(* There are never more runs at once than handlers have been registered.   *)
THEOREM RunsCounted == Spec => []RunsBounded
  <1>1. CountInv => RunsBounded
    BY DEF CountInv, RunsBounded, IsRunSeq, Free
  <1> QED BY <1>1, CountInit, CountStep, PTL DEF Spec
-----------------------------------------------------------------------------
(***************************************************************************)
(* Priorities.  A throw queues a whole batch again, one wake after another *)
(* (QueuedAll), so that what holds of one queueing is lifted to a batch by *)
(* induction over its length.  The induction is over a set of numbers: a   *)
(* least number outside of it would have a predecessor inside.             *)
(***************************************************************************)
LEMMA SetInduction ==
  ASSUME NEW S, 0 \in S, \A n \in Nat : n \in S => n + 1 \in S
  PROVE  Nat \subseteq S
<1> SUFFICES ASSUME NEW k \in Nat, k \notin S
             PROVE  FALSE
  OBVIOUS
<1> DEFINE T == {n \in Nat : n \notin S}
<1>1. T \subseteq Nat /\ T # {}
  OBVIOUS
<1>2. PICK x \in T : \A y \in T : <<y, x>> \notin OpToRel(<, Nat)
  <2> HIDE DEF T
  <2> QED
    BY <1>1, NatLessThanWellFounded, WFMin
<1>3. x \in Nat /\ x - 1 \in T
  OBVIOUS
<1>4. <<x - 1, x>> \in OpToRel(<, Nat)
  BY <1>3 DEF OpToRel
<1> QED
  BY <1>2, <1>3, <1>4

Rounds(q, ws, k, f) ==
  f = [n \in 0 .. k |-> IF n = 0 THEN q ELSE Queued(f[n - 1], ws[n])]

\* The recursive function of QueuedAll exists and satisfies its equation.
LEMMA QueuedAllUnfold ==
  ASSUME NEW q, NEW ws, Len(ws) \in Nat
  PROVE  \E f : Rounds(q, ws, Len(ws), f) /\ QueuedAll(q, ws) = f[Len(ws)]
<1> DEFINE S == {k \in Nat : \E f : Rounds(q, ws, k, f)}
<1>1. 0 \in S
  <2> DEFINE f == [n \in 0 .. 0 |-> q]
  <2>1. f = [n \in 0 .. 0 |-> IF n = 0 THEN q ELSE Queued(f[n - 1], ws[n])]
    OBVIOUS
  <2>2. Rounds(q, ws, 0, f)
    BY <2>1 DEF Rounds
  <2> QED
    BY <2>2
<1>2. ASSUME NEW k \in Nat, k \in S
      PROVE  k + 1 \in S
  <2>1. PICK f : Rounds(q, ws, k, f)
    BY <1>2
  <2> DEFINE g == [n \in 0 .. k + 1 |-> IF n = 0 THEN q ELSE Queued(f[n - 1], ws[n])]
             h == [n \in 0 .. k + 1 |-> IF n = 0 THEN q ELSE Queued(g[n - 1], ws[n])]
  <2>2. \A n \in 0 .. k : g[n] = f[n]
    BY <2>1 DEF Rounds
  <2>3. \A n \in 0 .. k + 1 : n # 0 => g[n - 1] = f[n - 1]
    <3> HIDE DEF g
    <3> QED
      BY <2>2
  <2>4. g = h
    BY <2>3
  <2>5. Rounds(q, ws, k + 1, g)
    BY <2>4 DEF Rounds
  <2> QED
    BY <2>5
<1>3. Len(ws) \in S
  <2> HIDE DEF S
  <2> QED
    BY <1>1, <1>2, SetInduction
<1> DEFINE P(f) == f = [n \in 0 .. Len(ws) |-> IF n = 0 THEN q ELSE Queued(f[n - 1], ws[n])]
<1>4. \E f : P(f)
  BY <1>3 DEF Rounds
<1>5. P(CHOOSE f : P(f))
  BY <1>4
<1>6. QueuedAll(q, ws) = (CHOOSE f : P(f))[Len(ws)]
  BY DEF QueuedAll
<1>7. Rounds(q, ws, Len(ws), CHOOSE f : P(f))
  BY <1>5 DEF Rounds
<1> QED
  BY <1>6, <1>7

\* No two wakes of q are for the same target.
OnePerTarget(q) == \A i, j \in DOMAIN q : q[i].t = q[j].t => i = j

\* Every target of q is in r with a priority not lower.
Covers(r, q) ==
  \A i \in DOMAIN q : \E j \in DOMAIN r : r[j].t = q[i].t /\ r[j].p >= q[i].p

LEMMA QueuedKeeps ==
  ASSUME NEW q \in Seq(Wake), OnePerTarget(q), NEW w \in Wake
  PROVE  /\ Queued(q, w) \in Seq(Wake) /\ OnePerTarget(Queued(q, w))
         /\ Covers(Queued(q, w), q)
<1>1. CASE \E i \in DOMAIN q : q[i].t = w.t
  <2> DEFINE r == [i \in DOMAIN q |-> IF q[i].t = w.t /\ w.p >= q[i].p THEN w ELSE q[i]]
  <2>1. Queued(q, w) = r
    BY <1>1 DEF Queued
  <2>2. DOMAIN q = 1 .. Len(q) /\ Len(q) \in Nat /\ \A i \in 1 .. Len(q) : q[i] \in Wake
    OBVIOUS
  <2>3. DOMAIN r = 1 .. Len(q) /\ \A i \in 1 .. Len(q) : r[i] \in Wake
    BY <2>2
  <2>4. r \in Seq(Wake)
    BY <2>2, <2>3
  <2>5. \A i \in 1 .. Len(q) : r[i].t = q[i].t /\ r[i].p >= q[i].p
    BY <2>2 DEF Wake
  <2> HIDE DEF r
  <2>6. OnePerTarget(r)
    BY <2>2, <2>3, <2>5 DEF OnePerTarget
  <2>7. Covers(r, q)
    BY <2>2, <2>3, <2>5 DEF Covers
  <2> QED
    BY <2>1, <2>4, <2>6, <2>7
<1>2. CASE ~\E i \in DOMAIN q : q[i].t = w.t
  <2> DEFINE r == Append(q, w)
  <2>1. Queued(q, w) = r
    BY <1>2 DEF Queued
  <2>2. /\ r \in Seq(Wake) /\ DOMAIN r = 1 .. Len(q) + 1 /\ DOMAIN q = 1 .. Len(q)
        /\ Len(q) \in Nat
        /\ r[Len(q) + 1] = w /\ \A i \in 1 .. Len(q) : r[i] = q[i] /\ q[i] \in Wake
    OBVIOUS
  <2> HIDE DEF r
  <2>3. OnePerTarget(r)
    BY <1>2, <2>2 DEF OnePerTarget
  <2>4. \A i \in 1 .. Len(q) : q[i].p >= q[i].p
    BY <2>2 DEF Wake
  <2>5. Covers(r, q)
    BY <2>2, <2>4 DEF Covers
  <2> QED
    BY <2>1, <2>2, <2>3, <2>5
<1> QED
  BY <1>1, <1>2

LEMMA CoversItself ==
  ASSUME NEW q \in Seq(Wake)
  PROVE  Covers(q, q)
<1>1. \A i \in DOMAIN q : q[i] \in Wake
  OBVIOUS
<1>2. \A i \in DOMAIN q : q[i].p >= q[i].p
  BY <1>1 DEF Wake
<1> QED
  BY <1>2 DEF Covers

LEMMA CoversTransitive ==
  ASSUME NEW q \in Seq(Wake), NEW r \in Seq(Wake), NEW s \in Seq(Wake),
         Covers(r, q), Covers(s, r)
  PROVE  Covers(s, q)
<1> SUFFICES ASSUME NEW i \in DOMAIN q
             PROVE  \E k \in DOMAIN s : s[k].t = q[i].t /\ s[k].p >= q[i].p
  BY DEF Covers
<1>1. PICK j \in DOMAIN r : r[j].t = q[i].t /\ r[j].p >= q[i].p
  BY DEF Covers
<1>2. PICK k \in DOMAIN s : s[k].t = r[j].t /\ s[k].p >= r[j].p
  BY DEF Covers
<1>3. q[i] \in Wake /\ r[j] \in Wake /\ s[k] \in Wake
  OBVIOUS
<1>4. q[i].p \in Int /\ r[j].p \in Int /\ s[k].p \in Int
  BY <1>3 DEF Wake
<1> QED
  BY <1>1, <1>2, <1>4

\* A batch that is queued again keeps every priority, too.
LEMMA QueuedAllKeeps ==
  ASSUME NEW q \in Seq(Wake), OnePerTarget(q), NEW ws \in Seq(Wake)
  PROVE  /\ QueuedAll(q, ws) \in Seq(Wake) /\ OnePerTarget(QueuedAll(q, ws))
         /\ Covers(QueuedAll(q, ws), q)
<1>1. Len(ws) \in Nat /\ \A n \in 1 .. Len(ws) : ws[n] \in Wake
  OBVIOUS
<1>2. PICK f : Rounds(q, ws, Len(ws), f) /\ QueuedAll(q, ws) = f[Len(ws)]
  BY <1>1, QueuedAllUnfold
<1>3. f[0] = q /\ \A n \in 1 .. Len(ws) : f[n] = Queued(f[n - 1], ws[n])
  BY <1>1, <1>2 DEF Rounds
<1> DEFINE Good(r) == r \in Seq(Wake) /\ OnePerTarget(r) /\ Covers(r, q)
           S == {n \in Nat : n <= Len(ws) => Good(f[n])}
<1>4. 0 \in S
  BY <1>3, CoversItself
<1>5. ASSUME NEW n \in Nat, n \in S
      PROVE  n + 1 \in S
  <2> SUFFICES ASSUME n + 1 <= Len(ws)
               PROVE  Good(f[n + 1])
    OBVIOUS
  <2>1. Good(f[n])
    BY <1>1, <1>5
  <2>2. f[n + 1] = Queued(f[n], ws[n + 1]) /\ ws[n + 1] \in Wake
    BY <1>1, <1>3
  <2> QED
    BY <2>1, <2>2, QueuedKeeps, CoversTransitive
<1>6. Len(ws) \in S
  <2> HIDE DEF S
  <2> QED
    BY <1>1, <1>4, <1>5, SetInduction
<1> QED
  BY <1>1, <1>2, <1>6

\* A run whose handler call has not returned is at one of the wakes of its batch.
GoodRun == {x \in Run : x.i <= Len(x.batch)}

LEMMA RunsAreGood == WakeTypeOK => runs \in Seq(GoodRun)
<1> SUFFICES ASSUME WakeTypeOK
             PROVE  runs \in Seq(GoodRun)
  OBVIOUS
<1>1. runs \in Seq(Run) /\ \A r \in DOMAIN runs : runs[r].i <= Len(runs[r].batch)
  BY DEF WakeTypeOK
<1>2. \A r \in 1 .. Len(runs) : runs[r] \in GoodRun
  BY <1>1 DEF GoodRun
<1> QED
  BY <1>1, <1>2

LEMMA GoodRuns ==
  ASSUME NEW rs \in Seq(GoodRun)
  PROVE  rs \in Seq(Run) /\ \A r \in DOMAIN rs : rs[r].i <= Len(rs[r].batch)
<1>1. GoodRun \subseteq Run
  BY DEF GoodRun
<1>2. \A r \in DOMAIN rs : rs[r] \in GoodRun
  OBVIOUS
<1>3. rs \in Seq(Run)
  BY <1>1
<1> QED
  BY <1>2, <1>3 DEF GoodRun

LEMMA CurrentIsWake ==
  ASSUME NEW x \in GoodRun
  PROVE  /\ x.batch \in Seq(Wake) /\ x.i \in 1 .. Len(x.batch) /\ Len(x.batch) \in Nat
         /\ \A n \in 1 .. Len(x.batch) : x.batch[n] \in Wake /\ x.batch[n].t \in Targets
<1>1. x.batch \in Seq(Wake) /\ x.i \in Nat \ {0} /\ x.i <= Len(x.batch)
  BY DEF GoodRun, Run
<1>2. \A n \in 1 .. Len(x.batch) : x.batch[n] \in Wake
  BY <1>1
<1>3. \A n \in 1 .. Len(x.batch) : x.batch[n].t \in Targets
  BY <1>2 DEF Wake
<1>4. Len(x.batch) \in Nat
  BY <1>1
<1> QED
  BY <1>1, <1>2, <1>3, <1>4

LEMMA RemoveRun ==
  ASSUME NEW S, NEW rs \in Seq(S), NEW r \in DOMAIN rs
  PROVE  RemoveAt(rs, r) \in Seq(S)
<1> DEFINE a == SubSeq(rs, 1, r - 1)
           b == SubSeq(rs, r + 1, Len(rs))
<1>1. r \in 1 .. Len(rs) /\ Len(rs) \in Nat
  OBVIOUS
<1>2. a \in Seq(S) /\ b \in Seq(S)
  BY <1>1
<1>3. RemoveAt(rs, r) = a \o b
  BY DEF RemoveAt
<1> HIDE DEF a, b
<1> QED
  BY <1>2, <1>3

\* What the type invariant says of the parts a return of a handler changes.
ReturnOK ==
  /\ timer \in {"none", "normal", "retry"}
  /\ running \in BOOLEAN /\ scheduled \in BOOLEAN
  /\ runs \in Seq(GoodRun)
  /\ owed \subseteq Targets

LEMMA FinallyTypes ==
  ASSUME WakeTypeOK, NEW q, NEW tm \in {"none", "normal", "retry"}, Finally(q, tm)
  PROVE  timer' \in {"none", "normal", "retry"} /\ running' \in BOOLEAN /\ scheduled' \in BOOLEAN
<1>1. Scheduled(tm, "normal") \subseteq {"normal", "retry"}
  BY ScheduledArms
<1> QED
  BY <1>1 DEF Finally, WakeTypeOK

LEMMA ContinueTypes ==
  ASSUME WakeTypeOK, NEW r \in DOMAIN runs, NEW q, NEW tm \in {"none", "normal", "retry"},
         NEW back \in SUBSET Targets, Continue(r, q, tm, back)
  PROVE  ReturnOK'
<1> DEFINE run == runs[r]
<1>1. runs \in Seq(GoodRun)
  BY RunsAreGood
<1>2. run \in GoodRun
  BY <1>1
<1>3. /\ run.batch \in Seq(Wake) /\ run.i \in 1 .. Len(run.batch) /\ Len(run.batch) \in Nat
      /\ \A n \in 1 .. Len(run.batch) : run.batch[n] \in Wake /\ run.batch[n].t \in Targets
  BY <1>2, CurrentIsWake
<1>4. owed \subseteq Targets
  BY DEF WakeTypeOK
<1>5. CASE run.i < Len(run.batch)
  <2>1. /\ runs' = [runs EXCEPT ![r].i = @ + 1] /\ timer' = tm /\ UNCHANGED flags
        /\ owed' = (owed \union back) \ {run.batch[run.i + 1].t}
    BY <1>5 DEF Continue
  <2>2. [run EXCEPT !.i = @ + 1] \in GoodRun
    BY <1>2, <1>3, <1>5 DEF GoodRun, Run
  <2>3. runs' \in Seq(GoodRun)
    BY <1>1, <2>1, <2>2
  <2> QED
    BY <1>4, <2>1, <2>3 DEF ReturnOK, flags, WakeTypeOK
<1>6. CASE ~(run.i < Len(run.batch))
  <2>1. runs' = RemoveAt(runs, r) /\ owed' = owed \union back /\ Finally(q, tm)
    BY <1>6 DEF Continue
  <2>2. runs' \in Seq(GoodRun)
    BY <1>1, <2>1, RemoveRun
  <2> QED
    BY <1>4, <2>1, <2>2, FinallyTypes DEF ReturnOK
<1> QED
  BY <1>5, <1>6

\* ... and what it says of the rest, the wakes in front.
PendingOK == pending \in Seq(Wake) /\ OnePerTarget(pending)

RestOK ==
  /\ handler \in Gens \union {NoGen} /\ gens \in 0 .. MaxGens
  /\ disposed \subseteq Gens
  /\ requests \in 0 .. MaxRequests /\ failures \in 0 .. MaxFailures
  /\ cooling \subseteq Targets

LEMMA TypeParts == WakeTypeOK <=> PendingOK /\ RestOK /\ ReturnOK
<1>1. WakeTypeOK => PendingOK /\ RestOK /\ ReturnOK
  BY RunsAreGood DEF WakeTypeOK, PendingOK, OnePerTarget, RestOK, ReturnOK
<1>2. ReturnOK => runs \in Seq(Run) /\ \A r \in DOMAIN runs : runs[r].i <= Len(runs[r].batch)
  BY GoodRuns DEF ReturnOK
<1>3. PendingOK /\ RestOK /\ ReturnOK => WakeTypeOK
  BY <1>2 DEF WakeTypeOK, PendingOK, OnePerTarget, RestOK, ReturnOK
<1> QED
  BY <1>1, <1>3

Kept == pending' = <<>> \/ Covers(pending', pending)

LEMMA WakeStep == WakeTypeOK /\ [Next]_vars => WakeTypeOK' /\ Kept
<1> SUFFICES ASSUME WakeTypeOK, [Next]_vars
             PROVE  WakeTypeOK' /\ Kept
  OBVIOUS
<1> DEFINE Goal == PendingOK' /\ RestOK' /\ ReturnOK' /\ Kept
<1> SUFFICES Goal
  <2>1. (PendingOK /\ RestOK /\ ReturnOK)' => WakeTypeOK'
    BY TypeParts, PTL
  <2> QED
    BY <2>1
<1>0. PendingOK /\ RestOK /\ ReturnOK
  BY TypeParts
<1>1. MaxGens \in Nat /\ MaxRequests \in Nat /\ MaxFailures \in Nat /\ Priorities \subseteq 0 .. 3
  BY WakeAssumption
<1>2. Covers(pending, pending)
  BY <1>0, CoversItself DEF PendingOK
<1>3. pending' = pending => PendingOK' /\ Kept
  BY <1>0, <1>2 DEF PendingOK, OnePerTarget, Kept
<1>4. pending' = <<>> => PendingOK' /\ Kept
  BY DEF PendingOK, OnePerTarget, Kept
<1>5. ASSUME NEW t \in Targets, NEW p \in Priorities, Request(t, p)
      PROVE  Goal
  <2>1. [t |-> t, p |-> p] \in Wake
    BY <1>1 DEF Wake
  <2>2. PendingOK' /\ Kept
    BY <1>0, <1>5, <2>1, QueuedKeeps DEF Request, PendingOK, Kept
  <2>3. timer' \in {"none", "normal", "retry"}
    BY <1>0, <1>5 DEF Request, Scheduled, ReturnOK
  <2>4. ReturnOK'
    BY <1>0, <1>5, <2>3 DEF Request, ReturnOK, flags
  <2>5. RestOK'
    BY <1>0, <1>1, <1>5 DEF Request, RestOK, registry
  <2> QED
    BY <2>2, <2>4, <2>5
<1>6. CASE SetHandler
  <2>1. gens' \in Gens /\ gens' \in 0 .. MaxGens /\ handler' = gens'
    BY <1>0, <1>1, <1>6 DEF SetHandler, RestOK, Gens
  <2>2. RestOK'
    BY <1>0, <1>6, <2>1 DEF SetHandler, RestOK
  <2>3. ReturnOK'
    BY <1>0, <1>6 DEF SetHandler, ReturnOK
  <2> QED
    BY <1>3, <1>6, <2>2, <2>3 DEF SetHandler
<1>7. ASSUME NEW g \in Gens, Dispose(g)
      PROVE  Goal
  <2>1. RestOK'
    BY <1>0, <1>7 DEF Dispose, RestOK
  <2>2. ReturnOK'
    BY <1>0, <1>7 DEF Dispose, ReturnOK, flags
  <2> QED
    BY <1>3, <1>7, <2>1, <2>2 DEF Dispose
<1>8. CASE FireUnhandled \/ FireBusy
  <2>1. RestOK'
    BY <1>0, <1>8 DEF FireUnhandled, FireBusy, RestOK, registry
  <2>2. ReturnOK'
    BY <1>0, <1>8 DEF FireUnhandled, FireBusy, ReturnOK
  <2> QED
    BY <1>3, <1>8, <2>1, <2>2 DEF FireUnhandled, FireBusy
<1>9. CASE FireRun
  <2>1. RestOK'
    BY <1>0, <1>9 DEF FireRun, RestOK, registry
  <2>2. CASE pending = <<>>
    <3>1. ReturnOK'
      BY <1>0, <1>9, <2>2 DEF FireRun, ReturnOK
    <3> QED
      BY <1>4, <1>9, <2>1, <3>1 DEF FireRun
  <2>3. CASE pending # <<>>
    <3> DEFINE run == [by |-> handler, batch |-> pending, i |-> 1]
    <3>1. /\ runs' = Append(runs, run) /\ running' = TRUE /\ timer' = "none" /\ scheduled' = FALSE
          /\ owed' = owed \ {pending[1].t} /\ pending' = <<>>
      BY <1>9, <2>3 DEF FireRun
    <3>2. handler \in Gens
      BY <1>0, <1>9 DEF FireRun, RestOK
    <3>3. pending \in Seq(Wake) /\ 1 <= Len(pending)
      BY <1>0, <2>3 DEF PendingOK
    <3>4. run \in GoodRun
      BY <3>2, <3>3 DEF GoodRun, Run
    <3> HIDE DEF run
    <3>5. runs' \in Seq(GoodRun)
      BY <1>0, <3>1, <3>4 DEF ReturnOK
    <3>6. ReturnOK'
      BY <1>0, <3>1, <3>5 DEF ReturnOK
    <3> QED
      BY <1>4, <2>1, <3>1, <3>6
  <2> QED
    BY <2>2, <2>3
<1>10. ASSUME NEW r \in DOMAIN runs
       PROVE  /\ Current(r) \in Wake /\ Current(r).t \in Targets
              /\ runs[r].batch \in Seq(Wake)
              /\ {w.t : w \in Range(runs[r].batch)} \subseteq Targets
  <2>1. runs[r] \in GoodRun
    BY <1>0, <1>10 DEF ReturnOK
  <2>2. /\ runs[r].batch \in Seq(Wake) /\ runs[r].i \in 1 .. Len(runs[r].batch)
        /\ \A n \in 1 .. Len(runs[r].batch) :
             runs[r].batch[n] \in Wake /\ runs[r].batch[n].t \in Targets
    BY <2>1, CurrentIsWake
  <2>3. \A w \in Range(runs[r].batch) : w.t \in Targets
    BY <2>2 DEF Range
  <2> QED
    BY <2>2, <2>3 DEF Current
<1>11. ASSUME NEW r \in DOMAIN runs, Served(r)
       PROVE  Goal
  <2>1. ReturnOK'
    BY <1>0, <1>11, ContinueTypes DEF Served, ReturnOK
  <2>2. RestOK'
    BY <1>0, <1>11 DEF Served, RestOK, registry
  <2> QED
    BY <1>3, <1>11, <2>1, <2>2 DEF Served
<1>12. ASSUME NEW r \in DOMAIN runs, InFlight(r)
       PROVE  Goal
  <2>1. PendingOK' /\ Kept
    BY <1>0, <1>10, <1>12, QueuedKeeps DEF InFlight, PendingOK, Kept
  <2>2. RestOK'
    BY <1>0, <1>1, <1>10, <1>12 DEF InFlight, MayFail, RestOK, registry
  <2>3. PICK tm \in Scheduled(timer, "retry") : Continue(r, pending', tm, {Current(r).t})
    BY <1>12 DEF InFlight
  <2>4. Scheduled(timer, "retry") \subseteq {"normal", "retry"}
    BY <1>0, ScheduledArms DEF ReturnOK
  <2>5. tm \in {"none", "normal", "retry"} /\ {Current(r).t} \in SUBSET Targets
    BY <1>10, <2>3, <2>4
  <2>6. ReturnOK'
    BY <2>3, <2>5, ContinueTypes
  <2> QED
    BY <2>1, <2>2, <2>6
<1>13. ASSUME NEW r \in DOMAIN runs, Throws(r)
       PROVE  Goal
  <2>1. PendingOK' /\ Kept
    BY <1>0, <1>10, <1>13, QueuedAllKeeps DEF Throws, PendingOK, Kept
  <2>2. RestOK'
    BY <1>0, <1>1, <1>10, <1>13 DEF Throws, MayFail, RestOK, registry
  <2>3. PICK tm \in Scheduled(timer, "retry") : Finally(pending', tm)
    BY <1>13 DEF Throws
  <2>4. Scheduled(timer, "retry") \subseteq {"normal", "retry"}
    BY <1>0, ScheduledArms DEF ReturnOK
  <2>5. timer' \in {"none", "normal", "retry"} /\ running' \in BOOLEAN /\ scheduled' \in BOOLEAN
    BY <2>3, <2>4, FinallyTypes
  <2>6. runs' \in Seq(GoodRun)
    BY <1>0, <1>13, RemoveRun DEF Throws, ReturnOK
  <2>7. owed' \subseteq Targets
    BY <1>0, <1>10, <1>13 DEF Throws, ReturnOK
  <2> QED
    BY <2>1, <2>2, <2>5, <2>6, <2>7 DEF ReturnOK
<1>14. CASE UNCHANGED vars
  <2>1. RestOK' /\ ReturnOK'
    BY <1>0, <1>14 DEF vars, registry, flags, RestOK, ReturnOK
  <2> QED
    BY <1>3, <1>14, <2>1 DEF vars
<1> QED
  BY <1>5, <1>6, <1>7, <1>8, <1>9, <1>11, <1>12, <1>13, <1>14 DEF Next, Fire, Return

LEMMA WakeInit == Init => WakeTypeOK
<1> SUFFICES ASSUME Init
             PROVE  PendingOK /\ RestOK /\ ReturnOK
  BY TypeParts
<1>1. PendingOK
  BY DEF Init, PendingOK, OnePerTarget
<1>2. MaxGens \in Nat /\ MaxRequests \in Nat /\ MaxFailures \in Nat
  BY WakeAssumption
<1>3. RestOK
  BY <1>2 DEF Init, RestOK
<1>4. runs \in Seq(GoodRun)
  BY DEF Init
<1>5. ReturnOK
  BY <1>4 DEF Init, ReturnOK
<1> QED
  BY <1>1, <1>3, <1>5

\* Every variable keeps its type; a target is pending at most once, and a run
\* is at one of the wakes of its batch.
THEOREM TypeCorrect == Spec => []WakeTypeOK
BY WakeInit, WakeStep, PTL DEF Spec

\* An urgent wake is not downgraded before a run takes it, by whatever requests
\* come and whichever batches are queued again.
THEOREM UrgencyKept == Spec => PriorityKept
<1>1. WakeTypeOK /\ [Next]_vars =>
        [\A i \in DOMAIN pending : pending' # <<>> =>
           \E j \in DOMAIN pending' :
             pending'[j].t = pending[i].t /\ pending'[j].p >= pending[i].p]_vars
  BY WakeStep DEF Kept, Covers
<1> QED
  BY <1>1, WakeInit, WakeStep, PTL DEF Spec, PriorityKept

=============================================================================
