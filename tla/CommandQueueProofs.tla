-------------------------- MODULE CommandQueueProofs --------------------------
(***************************************************************************)
(* Proofs about CommandQueue for every set of lanes and tasks, every       *)
(* sequence of concurrency limits and any number of restarts; that it      *)
(* implements TaskLifecycle; and, in the last part, that the restarts of   *)
(* GatewayLoop drain it.                                                   *)
(*                                                                         *)
(* All actions but two change one lane, through DrainLane.  DrainFacts     *)
(* says what a pump does to a queue and an active set taken by themselves; *)
(* LanePumpPreserves lifts it to the state of the lanes.                  *)
(***************************************************************************)
EXTENDS GatewayLoop, FiniteSetTheorems, SequenceTheorems, FunctionTheorems, TLAPS

USE ConstantsAssumption

-----------------------------------------------------------------------------
(* Sequences without repetition.                                           *)

LEMMA RangeIsImage ==
  ASSUME NEW q \in Seq(Tasks)
  PROVE  Range(q) = {q[i] : i \in 1..Len(q)}
BY DEF Range

LEMMA CardinalityOfPrefix ==
  ASSUME NEW q \in Seq(Tasks), IsInjective(q), NEW n \in 0..Len(q)
  PROVE  /\ IsFiniteSet({q[i] : i \in 1..n})
         /\ Cardinality({q[i] : i \in 1..n}) = n
<1> DEFINE S == {q[i] : i \in 1..n}
           f == [i \in 1..n |-> q[i]]
<1>1. f \in Bijection(1..n, S)
  <2>1. f \in [1..n -> S]
    OBVIOUS
  <2>2. \A i, j \in 1..n : f[i] = f[j] => i = j
    BY DEF IsInjective
  <2>3. \A s \in S : \E i \in 1..n : f[i] = s
    OBVIOUS
  <2> QED
    BY <2>1, <2>2, <2>3 DEF Bijection, Injection, Surjection, IsInjective
<1>2. ExistsBijection(1..n, S)
  BY <1>1 DEF ExistsBijection
<1> QED
  BY <1>2, FS_CountingElements, FS_NatBijection

-----------------------------------------------------------------------------
(* One pump.                                                               *)

\* A pump moves a prefix of the queue into the active set; it leaves a backlog
\* only when the lane is full, and fills it no further than its limit.
LEMMA DrainFacts ==
  ASSUME NEW q \in Seq(Tasks), IsInjective(q),
         NEW active \in SUBSET Tasks, active \cap Range(q) = {},
         NEW limit \in Nat \ {0}
  PROVE  LET started == Started(q, active, limit)
             rest == Remaining(q, active, limit) IN
         /\ StartCount(q, active, limit) \in 0..Len(q)
         /\ started \in SUBSET Tasks
         /\ rest \in Seq(Tasks)
         /\ IsInjective(rest)
         /\ Range(q) = started \cup Range(rest)
         /\ started \cap Range(rest) = {}
         /\ rest # <<>> => Cardinality(active \cup started) >= limit
         /\ started # {} => Cardinality(active \cup started) <= limit
<1> DEFINE n == StartCount(q, active, limit)
           started == Started(q, active, limit)
           rest == Remaining(q, active, limit)
<1>1. IsFiniteSet(active) /\ Cardinality(active) \in Nat
  BY FS_Subset, FS_CardinalityType
<1>2. n \in 0..Len(q)
  BY <1>1 DEF StartCount
<1>3. started = {q[i] : i \in 1..n}
  BY DEF Started
<1>4. IsFiniteSet(started) /\ Cardinality(started) = n
  BY <1>2, <1>3, CardinalityOfPrefix
<1>5. started \subseteq Range(q)
  BY <1>2, <1>3, RangeIsImage
<1>6. Cardinality(active \cup started) = Cardinality(active) + n
  <2>1. active \cap started = {}
    BY <1>5
  <2>2. Cardinality(active \cup started) = Cardinality(active) + Cardinality(started) - 0
    BY <1>1, <1>4, <2>1, FS_Union, FS_EmptySet
  <2> QED
    BY <1>1, <1>2, <1>4, <2>2
<1>7. /\ rest \in Seq(Tasks)
      /\ Len(rest) = Len(q) - n
      /\ \A i \in 1..Len(q) - n : rest[i] = q[n + i]
  <2> HIDE DEF n
  <2>1. rest = SubSeq(q, n + 1, Len(q))
    BY DEF Remaining, n
  <2>2. \A i \in n + 1 .. Len(q) : q[i] \in Tasks
    BY <1>2
  <2>3. /\ SubSeq(q, n + 1, Len(q)) \in Seq(Tasks)
        /\ Len(SubSeq(q, n + 1, Len(q))) = IF n + 1 <= Len(q) THEN Len(q) - (n + 1) + 1 ELSE 0
        /\ \A i \in 1..Len(q) - (n + 1) + 1 : SubSeq(q, n + 1, Len(q))[i] = q[n + 1 + i - 1]
    BY <1>2, <2>2, SubSeqProperties
  <2> QED
    BY <1>2, <2>1, <2>3
<1> HIDE DEF n, started, rest
<1>8. IsInjective(rest)
  <2> SUFFICES ASSUME NEW i \in 1..Len(rest), NEW j \in 1..Len(rest), rest[i] = rest[j]
               PROVE  i = j
    BY <1>7 DEF IsInjective
  <2>1. n + i \in 1..Len(q) /\ n + j \in 1..Len(q) /\ q[n + i] = q[n + j]
    BY <1>2, <1>7
  <2> QED
    BY <1>2, <2>1 DEF IsInjective
<1>9. Range(rest) = {q[i] : i \in n + 1 .. Len(q)}
  <2>1. Range(rest) = {rest[i] : i \in 1..Len(rest)}
    BY <1>7, RangeIsImage
  <2>2. ASSUME NEW i \in n + 1 .. Len(q) PROVE \E j \in 1..Len(rest) : rest[j] = q[i]
    <3>1. i - n \in 1..Len(rest) /\ rest[i - n] = q[i]
      BY <1>2, <1>7
    <3> QED
      BY <3>1
  <2>3. ASSUME NEW j \in 1..Len(rest) PROVE \E i \in n + 1 .. Len(q) : rest[j] = q[i]
    <3>1. n + j \in n + 1 .. Len(q) /\ rest[j] = q[n + j]
      BY <1>2, <1>7
    <3> QED
      BY <3>1
  <2> QED
    BY <2>1, <2>2, <2>3
<1>10. Range(q) = started \cup Range(rest)
  <2>1. 1..Len(q) = (1..n) \cup (n + 1 .. Len(q))
    BY <1>2
  <2> QED
    BY <1>3, <1>9, <2>1, RangeIsImage
<1>11. started \cap Range(rest) = {}
  BY <1>2, <1>3, <1>9 DEF IsInjective
<1>12. rest # <<>> => Cardinality(active \cup started) >= limit
  <2> SUFFICES ASSUME rest # <<>> PROVE Cardinality(active) + n >= limit
    BY <1>6
  <2>1. Len(rest) # 0
    BY <1>7, EmptySeq
  <2>2. n # Len(q)
    BY <1>7, <2>1
  <2> QED
    BY <1>1, <2>2 DEF n, StartCount
<1>13. started # {} => Cardinality(active \cup started) <= limit
  <2> SUFFICES ASSUME started # {} PROVE Cardinality(active) + n <= limit
    BY <1>6
  <2>1. n # 0
    BY <1>3
  <2> QED
    BY <1>1, <2>1 DEF n, StartCount
<1> QED
  BY <1>2, <1>3, <1>5, <1>7, <1>8, <1>10, <1>11, <1>12, <1>13, RangeIsImage DEF n, started, rest

-----------------------------------------------------------------------------
(* The inductive invariant.                                                *)

\* The conjuncts need each other: an entry starts in the slot it gets only if
\* it is not active already (QueueMatchesStatus, SlotsMatchGeneration), and a
\* reset makes every running task one of an older generation only if none is
\* ahead of its lane (StartedBeforeNow).
IInv ==
  /\ TypeOK
  /\ QueueMatchesStatus
  /\ SlotsMatchGeneration
  /\ StartedBeforeNow
  /\ NoIdleSlotWithBacklog

\* The tasks of lane l that have status s when the statuses are st.
InLane(l, st, s) == {t \in Tasks : LaneOf[t] = l /\ st[t] = s}

\* The queue and the active set that a caller hands to DrainLane(l, ...) match
\* the statuses st it hands over, which differ from status on lane l only.
ArgumentsMatch(l, q, active, limit, st) ==
  /\ q \in Seq(Tasks)
  /\ IsInjective(q)
  /\ active \in SUBSET Tasks
  /\ limit \in Nat \ {0}
  /\ st \in [Tasks -> TaskStatus]
  /\ \A t \in Tasks : LaneOf[t] # l => st[t] = status[t]
  /\ Range(q) = InLane(l, st, "queued")
  /\ active = {t \in InLane(l, st, "running") : taskGeneration[t] = generation[l]}
  /\ \A t \in InLane(l, st, "running") : taskGeneration[t] <= generation[l]

\* A step that pumps lane l with matching arguments and changes no other lane.
LanePump(l, q, active, limit, st) ==
  /\ ArgumentsMatch(l, q, active, limit, st)
  /\ DrainLane(l, q, active, limit, st)
  /\ generation' = generation
  /\ maxConcurrent' = [maxConcurrent EXCEPT ![l] = limit]

\* A pump starts tasks that were queued in its own lane, and leaves the lane
\* within its limit when it starts any.
LEMMA PumpStartsQueued ==
  ASSUME IInv, NEW l \in Lanes, NEW q, NEW active, NEW limit, NEW st,
         ArgumentsMatch(l, q, active, limit, st)
  PROVE  LET started == Started(q, active, limit)
             rest == Remaining(q, active, limit) IN
         /\ StartCount(q, active, limit) \in 0..Len(q)
         /\ started \in SUBSET InLane(l, st, "queued")
         /\ rest \in Seq(Tasks)
         /\ IsInjective(rest)
         /\ Range(q) = started \cup Range(rest)
         /\ started \cap Range(rest) = {}
         /\ rest # <<>> => Cardinality(active \cup started) >= limit
         /\ started # {} => Cardinality(active \cup started) <= limit
<1> USE DEF InLane, ArgumentsMatch
<1>1. active \cap Range(q) = {}
  OBVIOUS
<1> DEFINE started == Started(q, active, limit)
           rest == Remaining(q, active, limit)
<1>2. /\ StartCount(q, active, limit) \in 0..Len(q)
      /\ started \in SUBSET Tasks
      /\ rest \in Seq(Tasks)
      /\ IsInjective(rest)
      /\ Range(q) = started \cup Range(rest)
      /\ started \cap Range(rest) = {}
      /\ rest # <<>> => Cardinality(active \cup started) >= limit
      /\ started # {} => Cardinality(active \cup started) <= limit
  BY <1>1, DrainFacts
<1> HIDE DEF started, rest
<1>3. started \in SUBSET InLane(l, st, "queued")
  BY <1>2
<1> QED
  BY <1>2, <1>3 DEF started, rest

\* Such a step preserves the invariant of every lane.
LEMMA LanePumpPreserves ==
  ASSUME IInv,
         NEW l \in Lanes,
         NEW q, NEW active, NEW limit, NEW st,
         LanePump(l, q, active, limit, st)
  PROVE  /\ queue' \in [Lanes -> Seq(Tasks)]
         /\ activeTaskIds' \in [Lanes -> SUBSET Tasks]
         /\ maxConcurrent' \in [Lanes -> Nat \ {0}]
         /\ status' \in [Tasks -> TaskStatus]
         /\ taskGeneration' \in [Tasks -> Nat]
         /\ QueueMatchesStatus'
         /\ SlotsMatchGeneration'
         /\ StartedBeforeNow'
         /\ NoIdleSlotWithBacklog'
<1> DEFINE started == Started(q, active, limit)
           rest == Remaining(q, active, limit)
<1>1. ArgumentsMatch(l, q, active, limit, st)
  BY DEF LanePump
<1>2. /\ StartCount(q, active, limit) \in 0..Len(q)
      /\ started \in SUBSET InLane(l, st, "queued")
      /\ rest \in Seq(Tasks)
      /\ IsInjective(rest)
      /\ Range(q) = started \cup Range(rest)
      /\ started \cap Range(rest) = {}
      /\ rest # <<>> => Cardinality(active \cup started) >= limit
      /\ started # {} => Cardinality(active \cup started) <= limit
  BY <1>1, PumpStartsQueued
<1> HIDE DEF started, rest
<1> USE DEF LanePump
<1>3. /\ queue' = [queue EXCEPT ![l] = rest]
      /\ activeTaskIds' = [activeTaskIds EXCEPT ![l] = active \cup started]
      /\ status' = [t \in Tasks |-> IF t \in started THEN "running" ELSE st[t]]
      /\ taskGeneration' =
           [t \in Tasks |-> IF t \in started THEN generation[l] ELSE taskGeneration[t]]
  BY DEF DrainLane, started, rest
<1>4. \A t \in started : t \in Tasks /\ LaneOf[t] = l /\ st[t] = "queued"
  BY <1>2 DEF InLane
<1> USE DEF InLane, ArgumentsMatch
<1>5. /\ queue' \in [Lanes -> Seq(Tasks)]
      /\ activeTaskIds' \in [Lanes -> SUBSET Tasks]
      /\ maxConcurrent' \in [Lanes -> Nat \ {0}]
      /\ status' \in [Tasks -> TaskStatus]
      /\ taskGeneration' \in [Tasks -> Nat]
  BY <1>2, <1>3, <1>4 DEF IInv, TypeOK, TaskStatus
<1>6. QueueMatchesStatus'
  <2> SUFFICES ASSUME NEW k \in Lanes
               PROVE  /\ IsInjective(queue'[k])
                      /\ Range(queue'[k]) = {t \in Tasks : LaneOf[t] = k /\ status'[t] = "queued"}
    BY DEF QueueMatchesStatus
  <2>1. CASE k = l
    BY <1>2, <1>3, <1>4, <2>1 DEF IInv, TypeOK
  <2>2. CASE k # l
    <3>1. queue'[k] = queue[k]
      BY <1>3, <1>4, <2>2 DEF IInv, TypeOK
    <3>2. \A t \in Tasks : LaneOf[t] = k => status'[t] = status[t]
      BY <1>3, <1>4, <2>2
    <3> QED
      BY <3>1, <3>2 DEF IInv, QueueMatchesStatus
  <2> QED
    BY <2>1, <2>2
<1>7. SlotsMatchGeneration'
  <2> SUFFICES ASSUME NEW k \in Lanes
               PROVE  activeTaskIds'[k] =
                        {t \in Tasks : LaneOf[t] = k /\ status'[t] = "running"
                                          /\ taskGeneration'[t] = generation'[k]}
    BY DEF SlotsMatchGeneration
  <2>1. CASE k = l
    <3>1. activeTaskIds'[k] = active \cup started
      BY <1>3, <1>4, <2>1 DEF IInv, TypeOK
    <3> QED
      BY <1>2, <1>3, <1>4, <2>1, <3>1
  <2>2. CASE k # l
    <3>1. activeTaskIds'[k] = activeTaskIds[k]
      BY <1>3, <1>4, <2>2 DEF IInv, TypeOK
    <3>2. \A t \in Tasks : LaneOf[t] = k =>
            status'[t] = status[t] /\ taskGeneration'[t] = taskGeneration[t]
      BY <1>3, <1>4, <2>2
    <3> QED
      BY <3>1, <3>2 DEF IInv, SlotsMatchGeneration
  <2> QED
    BY <2>1, <2>2
<1>8. StartedBeforeNow'
  <2> SUFFICES ASSUME NEW t \in Tasks, status'[t] = "running"
               PROVE  taskGeneration'[t] <= generation'[LaneOf[t]]
    BY DEF StartedBeforeNow
  <2>1. generation \in [Lanes -> Nat]
    BY DEF IInv, TypeOK
  <2>2. CASE t \in started
    BY <1>3, <1>4, <2>1, <2>2
  <2>3. CASE t \notin started
    BY <1>3, <1>4, <2>3 DEF IInv, StartedBeforeNow
  <2> QED
    BY <2>2, <2>3
<1>9. NoIdleSlotWithBacklog'
  <2> SUFFICES ASSUME NEW k \in Lanes, queue'[k] # <<>>
               PROVE  Cardinality(activeTaskIds'[k]) >= maxConcurrent'[k]
    BY DEF NoIdleSlotWithBacklog
  <2>1. CASE k = l
    BY <1>2, <1>3, <1>4, <2>1 DEF IInv, TypeOK
  <2>2. CASE k # l
    BY <1>3, <1>4, <2>2 DEF IInv, TypeOK, NoIdleSlotWithBacklog
  <2> QED
    BY <2>1, <2>2
<1> QED
  BY <1>5, <1>6, <1>7, <1>8, <1>9

\* The arguments the three one-lane actions hand to DrainLane: a lane that
\* keeps its queue and its active set, with the statuses unchanged.
LEMMA LaneIsConsistent ==
  ASSUME IInv, NEW l \in Lanes
  PROVE  /\ queue[l] \in Seq(Tasks)
         /\ IsInjective(queue[l])
         /\ activeTaskIds[l] \in SUBSET Tasks
         /\ maxConcurrent[l] \in Nat \ {0}
         /\ generation[l] \in Nat
         /\ Range(queue[l]) = InLane(l, status, "queued")
         /\ activeTaskIds[l] = {t \in InLane(l, status, "running") : taskGeneration[t] = generation[l]}
         /\ \A t \in InLane(l, status, "running") : taskGeneration[t] <= generation[l]
BY DEF IInv, TypeOK, QueueMatchesStatus, SlotsMatchGeneration, StartedBeforeNow, InLane

LEMMA AppendNew ==
  ASSUME NEW q \in Seq(Tasks), IsInjective(q), NEW t \in Tasks, t \notin Range(q)
  PROVE  /\ Append(q, t) \in Seq(Tasks)
         /\ IsInjective(Append(q, t))
         /\ Range(Append(q, t)) = Range(q) \cup {t}
<1> DEFINE r == Append(q, t)
<1>1. /\ r \in Seq(Tasks)
      /\ Len(r) = Len(q) + 1
      /\ \A i \in 1..Len(q) : r[i] = q[i]
      /\ r[Len(q) + 1] = t
  BY AppendProperties
<1> HIDE DEF r
<1>2. Range(q) = {q[i] : i \in 1..Len(q)} /\ Range(r) = {r[i] : i \in 1..Len(r)}
  BY <1>1, RangeIsImage
<1>3. 1..Len(r) = (1..Len(q)) \cup {Len(q) + 1}
  BY <1>1
<1>4. Range(r) = Range(q) \cup {t}
  BY <1>1, <1>2, <1>3
<1>5. IsInjective(r)
  BY <1>1, <1>2, <1>3 DEF IsInjective
<1> QED
  BY <1>1, <1>4, <1>5 DEF r

LEMMA InitIInv == Init => IInv
<1> SUFFICES ASSUME Init PROVE IInv
  OBVIOUS
<1>1. \A l \in Lanes : queue[l] = <<>> /\ queue[l] \in Seq(Tasks)
  BY EmptySeq DEF Init
<1>2. TypeOK
  <2>1. queue \in [Lanes -> Seq(Tasks)]
    BY <1>1 DEF Init
  <2>2. activeTaskIds \in [Lanes -> SUBSET Tasks]
    BY DEF Init
  <2>3. status \in [Tasks -> TaskStatus] /\ taskGeneration \in [Tasks -> Nat]
    BY DEF Init, TaskStatus
  <2>4. maxConcurrent \in [Lanes -> Nat \ {0}] /\ generation \in [Lanes -> Nat]
    BY DEF Init
  <2>5. gatewayDraining \in BOOLEAN /\ activeAtStart \subseteq Tasks /\ waiter = "none"
    BY DEF Init
  <2> QED
    BY <2>1, <2>2, <2>3, <2>4, <2>5 DEF TypeOK
<1>3. \A l \in Lanes : IsInjective(queue[l]) /\ Range(queue[l]) = {}
  BY <1>1, EmptySeq, RangeIsImage DEF IsInjective, Range
<1>4. QueueMatchesStatus
  BY <1>3 DEF Init, QueueMatchesStatus
<1> QED
  BY <1>1, <1>2, <1>4 DEF Init, IInv, SlotsMatchGeneration, StartedBeforeNow, NoIdleSlotWithBacklog

\* The three actions that pump one lane.
LEMMA SetCommandLaneConcurrencyPumps ==
  ASSUME IInv, NEW l \in Lanes, NEW n \in Limits, SetCommandLaneConcurrency(l, n)
  PROVE  LanePump(l, queue[l], activeTaskIds[l], IF n < 1 THEN 1 ELSE n, status)
<1> DEFINE limit == IF n < 1 THEN 1 ELSE n
<1>1. limit \in Nat \ {0}
  OBVIOUS
<1>2. status \in [Tasks -> TaskStatus]
  BY DEF IInv, TypeOK
<1>3. ArgumentsMatch(l, queue[l], activeTaskIds[l], limit, status)
  BY <1>1, <1>2, LaneIsConsistent DEF ArgumentsMatch
<1> QED
  BY <1>3 DEF SetCommandLaneConcurrency, LanePump

LEMMA EnqueueCommandInLanePumps ==
  ASSUME IInv, NEW t \in Tasks, EnqueueCommandInLane(t)
  PROVE  LanePump(LaneOf[t], Append(queue[LaneOf[t]], t), activeTaskIds[LaneOf[t]],
                  maxConcurrent[LaneOf[t]], [status EXCEPT ![t] = "queued"])
<1> DEFINE l == LaneOf[t]
           q == Append(queue[l], t)
           st == [status EXCEPT ![t] = "queued"]
<1>1. /\ status[t] = "new"
      /\ DrainLane(l, q, activeTaskIds[l], maxConcurrent[l], st)
      /\ maxConcurrent' = maxConcurrent /\ generation' = generation
  BY DEF EnqueueCommandInLane
<1>2. l \in Lanes
  OBVIOUS
<1>3. t \notin Range(queue[l])
  BY <1>1, <1>2, LaneIsConsistent DEF InLane
<1>4. /\ q \in Seq(Tasks)
      /\ IsInjective(q)
      /\ Range(q) = Range(queue[l]) \cup {t}
  BY <1>2, <1>3, AppendNew, LaneIsConsistent
<1>5. /\ st \in [Tasks -> TaskStatus]
      /\ \A u \in Tasks : u # t => st[u] = status[u]
      /\ st[t] = "queued"
  BY DEF IInv, TypeOK, TaskStatus
<1> HIDE DEF q, st
<1>6. Range(q) = InLane(l, st, "queued")
  BY <1>2, <1>4, <1>5, LaneIsConsistent DEF InLane
<1>7. InLane(l, st, "running") = InLane(l, status, "running")
  BY <1>1, <1>5 DEF InLane
<1>8. maxConcurrent' = [maxConcurrent EXCEPT ![l] = maxConcurrent[l]]
  BY <1>1 DEF IInv, TypeOK
<1>9. \A u \in Tasks : LaneOf[u] # l => st[u] = status[u]
  BY <1>5
<1>10. ArgumentsMatch(l, q, activeTaskIds[l], maxConcurrent[l], st)
  BY <1>2, <1>4, <1>5, <1>6, <1>7, <1>9, LaneIsConsistent DEF ArgumentsMatch
<1> QED
  BY <1>1, <1>8, <1>10 DEF LanePump, q, st

LEMMA CompleteTaskPumps ==
  ASSUME IInv, NEW t \in Tasks, CompleteTask(t),
         taskGeneration[t] = generation[LaneOf[t]]
  PROVE  LanePump(LaneOf[t], queue[LaneOf[t]], activeTaskIds[LaneOf[t]] \ {t},
                  maxConcurrent[LaneOf[t]], [status EXCEPT ![t] = "done"])
<1> DEFINE l == LaneOf[t]
           st == [status EXCEPT ![t] = "done"]
<1>1. /\ status[t] = "running"
      /\ DrainLane(l, queue[l], activeTaskIds[l] \ {t}, maxConcurrent[l], st)
      /\ maxConcurrent' = maxConcurrent /\ generation' = generation
  BY DEF CompleteTask
<1>2. l \in Lanes
  OBVIOUS
<1>3. /\ st \in [Tasks -> TaskStatus]
      /\ \A u \in Tasks : u # t => st[u] = status[u]
      /\ st[t] = "done"
  BY DEF IInv, TypeOK, TaskStatus, Settled
<1> HIDE DEF st
<1>4. InLane(l, st, "queued") = InLane(l, status, "queued")
  BY <1>1, <1>3 DEF InLane
<1>5. InLane(l, st, "running") = InLane(l, status, "running") \ {t}
  BY <1>1, <1>3 DEF InLane
<1>6. \A u \in Tasks : LaneOf[u] # l => st[u] = status[u]
  BY <1>3
<1>7. maxConcurrent' = [maxConcurrent EXCEPT ![l] = maxConcurrent[l]]
  BY <1>1 DEF IInv, TypeOK
<1>8. ArgumentsMatch(l, queue[l], activeTaskIds[l] \ {t}, maxConcurrent[l], st)
  BY <1>2, <1>3, <1>4, <1>5, <1>6, LaneIsConsistent DEF ArgumentsMatch
<1> QED
  BY <1>1, <1>7, <1>8 DEF LanePump, st

\* The completion of a task of an earlier lifecycle only settles its promise.
LEMMA StaleCompletionIInv ==
  ASSUME IInv, NEW t \in Tasks, CompleteTask(t),
         taskGeneration[t] # generation[LaneOf[t]]
  PROVE  IInv'
<1>1. /\ status[t] = "running"
      /\ status' = [status EXCEPT ![t] = "done"]
      /\ UNCHANGED <<gatewayDraining, queue, activeTaskIds, taskGeneration, maxConcurrent,
                      generation, activeAtStart, waiter>>
  BY DEF CompleteTask, waitVars
<1>2. TypeOK'
  BY <1>1 DEF IInv, TypeOK, TaskStatus, Settled
<1>3. QueueMatchesStatus'
  BY <1>1 DEF IInv, TypeOK, QueueMatchesStatus
<1>4. SlotsMatchGeneration'
  BY <1>1 DEF IInv, TypeOK, SlotsMatchGeneration
<1> QED
  BY <1>1, <1>2, <1>3, <1>4 DEF IInv, TypeOK, StartedBeforeNow, NoIdleSlotWithBacklog

LEMMA LanePumpIInv ==
  ASSUME IInv, NEW l \in Lanes, NEW q, NEW active, NEW limit, NEW st,
         LanePump(l, q, active, limit, st),
         UNCHANGED <<gatewayDraining, activeAtStart, waiter>>
  PROVE  IInv'
<1>1. /\ queue' \in [Lanes -> Seq(Tasks)]
      /\ activeTaskIds' \in [Lanes -> SUBSET Tasks]
      /\ maxConcurrent' \in [Lanes -> Nat \ {0}]
      /\ status' \in [Tasks -> TaskStatus]
      /\ taskGeneration' \in [Tasks -> Nat]
      /\ QueueMatchesStatus'
      /\ SlotsMatchGeneration'
      /\ StartedBeforeNow'
      /\ NoIdleSlotWithBacklog'
  BY LanePumpPreserves
<1> QED
  BY <1>1 DEF IInv, TypeOK, LanePump

LEMMA ClearCommandLaneIInv ==
  ASSUME IInv, NEW l \in Lanes, ClearCommandLane(l)
  PROVE  IInv'
<1>1. /\ queue' = [queue EXCEPT ![l] = <<>>]
      /\ status' = [t \in Tasks |-> IF t \in Range(queue[l]) THEN "cleared" ELSE status[t]]
      /\ UNCHANGED <<gatewayDraining, activeTaskIds, maxConcurrent, generation,
                      taskGeneration, activeAtStart, waiter>>
  BY DEF ClearCommandLane, waitVars
<1>2. Range(queue[l]) = InLane(l, status, "queued")
  BY LaneIsConsistent
<1>3. /\ <<>> \in Seq(Tasks)
      /\ IsInjective(<<>>)
      /\ Range(<<>>) = {}
  BY EmptySeq, RangeIsImage DEF IsInjective, Range
<1>4. TypeOK'
  BY <1>1, <1>3 DEF IInv, TypeOK, TaskStatus, Settled
<1>5. QueueMatchesStatus'
  BY <1>1, <1>2, <1>3 DEF IInv, TypeOK, QueueMatchesStatus, InLane
<1>6. \A t \in Tasks : (status'[t] = "running") <=> (status[t] = "running")
  BY <1>1, <1>2 DEF InLane
<1>7. SlotsMatchGeneration' /\ StartedBeforeNow'
  BY <1>1, <1>6 DEF IInv, SlotsMatchGeneration, StartedBeforeNow
<1>8. NoIdleSlotWithBacklog'
  BY <1>1 DEF IInv, TypeOK, NoIdleSlotWithBacklog
<1> QED
  BY <1>4, <1>5, <1>7, <1>8 DEF IInv

LEMMA ResetAllLanesIInv ==
  ASSUME IInv, ResetAllLanes
  PROVE  IInv'
<1> DEFINE started(l) == Started(queue[l], {}, maxConcurrent[l])
           rest(l) == Remaining(queue[l], {}, maxConcurrent[l])
<1>1. /\ gatewayDraining' = FALSE
      /\ generation' = [l \in Lanes |-> generation[l] + 1]
      /\ queue' = [l \in Lanes |-> rest(l)]
      /\ activeTaskIds' = [l \in Lanes |-> started(l)]
      /\ status' = [t \in Tasks |-> IF t \in started(LaneOf[t]) THEN "running" ELSE status[t]]
      /\ taskGeneration' = [t \in Tasks |->
           IF t \in started(LaneOf[t]) THEN generation[LaneOf[t]] + 1 ELSE taskGeneration[t]]
      /\ UNCHANGED <<maxConcurrent, activeAtStart, waiter>>
  BY DEF ResetAllLanes, waitVars
<1>2. ASSUME NEW l \in Lanes
      PROVE  /\ started(l) \in SUBSET Tasks
             /\ rest(l) \in Seq(Tasks)
             /\ IsInjective(rest(l))
             /\ Range(queue[l]) = started(l) \cup Range(rest(l))
             /\ started(l) \cap Range(rest(l)) = {}
             /\ rest(l) # <<>> => Cardinality(started(l)) >= maxConcurrent[l]
  <2>1. {} \cap Range(queue[l]) = {} /\ {} \cup started(l) = started(l)
    OBVIOUS
  <2> QED
    BY <2>1, LaneIsConsistent, DrainFacts
<1> HIDE DEF started, rest
<1>3. \A l \in Lanes : \A t \in started(l) : LaneOf[t] = l /\ status[t] = "queued"
  BY <1>2, LaneIsConsistent DEF InLane
<1>4. TypeOK'
  <2>1. queue' \in [Lanes -> Seq(Tasks)] /\ activeTaskIds' \in [Lanes -> SUBSET Tasks]
    BY <1>1, <1>2
  <2>2. generation' \in [Lanes -> Nat]
    BY <1>1 DEF IInv, TypeOK
  <2>3. status' \in [Tasks -> TaskStatus] /\ taskGeneration' \in [Tasks -> Nat]
    BY <1>1 DEF IInv, TypeOK, TaskStatus
  <2> QED
    BY <1>1, <2>1, <2>2, <2>3 DEF IInv, TypeOK
<1>5. QueueMatchesStatus'
  BY <1>1, <1>2, <1>3, LaneIsConsistent DEF QueueMatchesStatus, InLane
<1>6. SlotsMatchGeneration'
  <2> SUFFICES ASSUME NEW l \in Lanes
               PROVE  started(l) = {t \in Tasks : LaneOf[t] = l /\ status'[t] = "running"
                                      /\ taskGeneration'[t] = generation[l] + 1}
    BY <1>1 DEF SlotsMatchGeneration
  <2>1. ASSUME NEW t \in started(l)
        PROVE  t \in Tasks /\ LaneOf[t] = l /\ status'[t] = "running"
                 /\ taskGeneration'[t] = generation[l] + 1
    BY <1>1, <1>2, <1>3
  <2>2. ASSUME NEW t \in Tasks, LaneOf[t] = l, status'[t] = "running", t \notin started(l)
        PROVE  taskGeneration'[t] # generation[l] + 1
    <3>1. status[t] = "running" /\ taskGeneration'[t] = taskGeneration[t]
      BY <1>1, <2>2
    <3>2. taskGeneration[t] <= generation[l] /\ taskGeneration[t] \in Nat /\ generation[l] \in Nat
      BY <2>2, <3>1 DEF IInv, TypeOK, StartedBeforeNow
    <3> QED
      BY <3>1, <3>2
  <2> QED
    BY <2>1, <2>2
<1>7. StartedBeforeNow'
  <2> SUFFICES ASSUME NEW t \in Tasks, status'[t] = "running"
               PROVE  taskGeneration'[t] <= generation'[LaneOf[t]]
    BY DEF StartedBeforeNow
  <2>1. generation[LaneOf[t]] \in Nat /\ taskGeneration[t] \in Nat
    BY DEF IInv, TypeOK
  <2>2. CASE t \in started(LaneOf[t])
    BY <1>1, <2>1, <2>2
  <2>3. CASE t \notin started(LaneOf[t])
    BY <1>1, <2>1, <2>3 DEF IInv, StartedBeforeNow
  <2> QED
    BY <2>2, <2>3
<1>8. NoIdleSlotWithBacklog'
  BY <1>1, <1>2 DEF NoIdleSlotWithBacklog
<1> QED
  BY <1>4, <1>5, <1>6, <1>7, <1>8 DEF IInv

LEMMA NextIInv == IInv /\ [Next]_vars => IInv'
<1> SUFFICES ASSUME IInv, [Next]_vars PROVE IInv'
  OBVIOUS
<1> USE DEF laneVars, taskVars, waitVars
<1>1. CASE MarkGatewayDraining
  BY <1>1 DEF MarkGatewayDraining, IInv, TypeOK, QueueMatchesStatus, SlotsMatchGeneration,
              StartedBeforeNow, NoIdleSlotWithBacklog
<1>2. ASSUME NEW l \in Lanes, NEW n \in Limits, SetCommandLaneConcurrency(l, n) PROVE IInv'
  BY <1>2, SetCommandLaneConcurrencyPumps, LanePumpIInv DEF SetCommandLaneConcurrency
<1>3. ASSUME NEW t \in Tasks, EnqueueCommandInLane(t) PROVE IInv'
  BY <1>3, EnqueueCommandInLanePumps, LanePumpIInv DEF EnqueueCommandInLane
<1>4. ASSUME NEW t \in Tasks, RefuseCommand(t) PROVE IInv'
  BY <1>4 DEF RefuseCommand, IInv, TypeOK, QueueMatchesStatus, SlotsMatchGeneration,
              StartedBeforeNow, NoIdleSlotWithBacklog, TaskStatus, Settled
<1>5. ASSUME NEW t \in Tasks, CompleteTask(t) PROVE IInv'
  BY <1>5, CompleteTaskPumps, LanePumpIInv, StaleCompletionIInv DEF CompleteTask
<1>6. ASSUME NEW l \in Lanes, ClearCommandLane(l) PROVE IInv'
  BY <1>6, ClearCommandLaneIInv
<1>7. CASE ResetAllLanes
  BY <1>7, ResetAllLanesIInv
<1>8. CASE WaitForActiveTasks \/ WaitDrained \/ WaitTimedOut
  <2>1. UNCHANGED <<gatewayDraining, queue, activeTaskIds, maxConcurrent, generation,
                    status, taskGeneration>>
    BY <1>8 DEF WaitForActiveTasks, WaitDrained, WaitTimedOut
  <2>2. activeAtStart' \subseteq Tasks /\ waiter' \in {"none", "waiting", "drained", "timedOut"}
    BY <1>8 DEF WaitForActiveTasks, SnapshotActive, WaitDrained, WaitTimedOut, IInv, TypeOK, AllActive
  <2> QED
    BY <2>1, <2>2 DEF IInv, TypeOK, QueueMatchesStatus, SlotsMatchGeneration,
                      StartedBeforeNow, NoIdleSlotWithBacklog
<1>9. CASE UNCHANGED vars
  BY <1>9 DEF vars, IInv, TypeOK, QueueMatchesStatus, SlotsMatchGeneration,
              StartedBeforeNow, NoIdleSlotWithBacklog
<1> QED
  BY <1>1, <1>2, <1>3, <1>4, <1>5, <1>6, <1>7, <1>8, <1>9 DEF Next

LEMMA Invariance == Spec => []IInv
<1>1. Init => IInv
  BY InitIInv
<1>2. IInv /\ [Next]_vars => IInv'
  BY NextIInv
<1> QED
  BY <1>1, <1>2, PTL DEF Spec

\* Every variable keeps its type; a lane never has fewer than one slot.
THEOREM TypeCorrect == Spec => []TypeOK
BY Invariance, PTL DEF IInv

\* No entry is lost or duplicated between a lane's queue and its promises.
THEOREM QueueConsistent == Spec => []QueueMatchesStatus
BY Invariance, PTL DEF IInv

\* Slots are held by the running tasks of the lane's current lifecycle only.
THEOREM SlotsConsistent == Spec => []SlotsMatchGeneration
BY Invariance, PTL DEF IInv

\* A lane with a backlog is full: no wake-up is lost.
THEOREM WorkConserving == Spec => []NoIdleSlotWithBacklog
BY Invariance, PTL DEF IInv

-----------------------------------------------------------------------------
(* Action properties.                                                      *)

\* The statuses after a pump, and what a reset starts.
LEMMA PumpEffect ==
  ASSUME IInv, NEW l \in Lanes, NEW q, NEW active, NEW limit, NEW st,
         LanePump(l, q, active, limit, st)
  PROVE  /\ \A k \in Lanes : k # l => activeTaskIds'[k] = activeTaskIds[k]
         /\ activeTaskIds'[l] = active \cup Started(q, active, limit)
         /\ maxConcurrent'[l] = limit
         /\ \A t \in Tasks : t \notin Started(q, active, limit) =>
              status'[t] = st[t] /\ taskGeneration'[t] = taskGeneration[t]
         /\ Started(q, active, limit) \subseteq InLane(l, st, "queued")
         /\ Started(q, active, limit) # {} =>
              Cardinality(active \cup Started(q, active, limit)) <= limit
<1> DEFINE started == Started(q, active, limit)
           rest == Remaining(q, active, limit)
<1>1. ArgumentsMatch(l, q, active, limit, st)
  BY DEF LanePump
<1>2. /\ StartCount(q, active, limit) \in 0..Len(q)
      /\ started \in SUBSET InLane(l, st, "queued")
      /\ rest \in Seq(Tasks)
      /\ IsInjective(rest)
      /\ Range(q) = started \cup Range(rest)
      /\ started \cap Range(rest) = {}
      /\ rest # <<>> => Cardinality(active \cup started) >= limit
      /\ started # {} => Cardinality(active \cup started) <= limit
  BY <1>1, PumpStartsQueued
<1>3. /\ activeTaskIds' = [activeTaskIds EXCEPT ![l] = active \cup started]
      /\ maxConcurrent' = [maxConcurrent EXCEPT ![l] = limit]
      /\ status' = [t \in Tasks |-> IF t \in started THEN "running" ELSE st[t]]
      /\ taskGeneration' =
           [t \in Tasks |-> IF t \in started THEN generation[l] ELSE taskGeneration[t]]
  BY DEF LanePump, DrainLane
<1>4. activeTaskIds \in [Lanes -> SUBSET Tasks] /\ maxConcurrent \in [Lanes -> Nat \ {0}]
  BY DEF IInv, TypeOK
<1> HIDE DEF started, rest
<1>5. /\ \A k \in Lanes : k # l => activeTaskIds'[k] = activeTaskIds[k]
      /\ activeTaskIds'[l] = active \cup started
      /\ maxConcurrent'[l] = limit
  BY <1>3, <1>4
<1>6. \A t \in Tasks : t \notin started =>
        status'[t] = st[t] /\ taskGeneration'[t] = taskGeneration[t]
  BY <1>3
<1> QED
  BY <1>2, <1>5, <1>6 DEF started

LEMMA ResetEffect ==
  ASSUME IInv, ResetAllLanes, NEW l \in Lanes
  PROVE  /\ activeTaskIds'[l] = Started(queue[l], {}, maxConcurrent[l])
         /\ maxConcurrent'[l] = maxConcurrent[l]
         /\ Started(queue[l], {}, maxConcurrent[l]) \subseteq InLane(l, status, "queued")
         /\ Started(queue[l], {}, maxConcurrent[l]) # {} =>
              Cardinality(Started(queue[l], {}, maxConcurrent[l])) <= maxConcurrent[l]
<1> DEFINE started == Started(queue[l], {}, maxConcurrent[l])
           rest == Remaining(queue[l], {}, maxConcurrent[l])
<1>1. {} \cap Range(queue[l]) = {} /\ {} \cup started = started
  OBVIOUS
<1>2. /\ Range(queue[l]) = started \cup Range(rest)
      /\ started # {} => Cardinality(started) <= maxConcurrent[l]
  BY <1>1, LaneIsConsistent, DrainFacts
<1>3. activeTaskIds'[l] = started /\ maxConcurrent'[l] = maxConcurrent[l]
  BY DEF ResetAllLanes
<1> HIDE DEF started, rest
<1>4. started \subseteq InLane(l, status, "queued")
  BY <1>2, LaneIsConsistent
<1> QED
  BY <1>2, <1>3, <1>4 DEF started

LEMMA LimitStep ==
  ASSUME IInv, [Next]_vars, NEW l \in Lanes, ~(activeTaskIds'[l] \subseteq activeTaskIds[l])
  PROVE  Cardinality(activeTaskIds'[l]) <= maxConcurrent'[l]
<1>1. ASSUME NEW k \in Lanes, NEW q, NEW active, NEW limit, NEW st,
             LanePump(k, q, active, limit, st), active \subseteq activeTaskIds[k]
      PROVE  Cardinality(activeTaskIds'[l]) <= maxConcurrent'[l]
  <2> DEFINE started == Started(q, active, limit)
  <2>1. /\ \A j \in Lanes : j # k => activeTaskIds'[j] = activeTaskIds[j]
        /\ activeTaskIds'[k] = active \cup started
        /\ maxConcurrent'[k] = limit
        /\ \A t \in Tasks : t \notin started =>
             status'[t] = st[t] /\ taskGeneration'[t] = taskGeneration[t]
        /\ started \subseteq InLane(k, st, "queued")
        /\ started # {} => Cardinality(active \cup started) <= limit
    BY <1>1, PumpEffect
  <2> HIDE DEF started
  <2>2. l = k /\ started # {}
    BY <1>1, <2>1
  <2> QED
    BY <2>1, <2>2
<1>2. CASE MarkGatewayDraining
  BY <1>2 DEF MarkGatewayDraining, laneVars
<1>3. ASSUME NEW k \in Lanes, NEW n \in Limits, SetCommandLaneConcurrency(k, n)
      PROVE  Cardinality(activeTaskIds'[l]) <= maxConcurrent'[l]
  BY <1>1, <1>3, SetCommandLaneConcurrencyPumps
<1>4. ASSUME NEW t \in Tasks, EnqueueCommandInLane(t)
      PROVE  Cardinality(activeTaskIds'[l]) <= maxConcurrent'[l]
  BY <1>1, <1>4, EnqueueCommandInLanePumps
<1>5. ASSUME NEW t \in Tasks, RefuseCommand(t)
      PROVE  Cardinality(activeTaskIds'[l]) <= maxConcurrent'[l]
  BY <1>5 DEF RefuseCommand, laneVars
<1>6. ASSUME NEW t \in Tasks, CompleteTask(t)
      PROVE  Cardinality(activeTaskIds'[l]) <= maxConcurrent'[l]
  <2>1. CASE taskGeneration[t] = generation[LaneOf[t]]
    <3>1. LanePump(LaneOf[t], queue[LaneOf[t]], activeTaskIds[LaneOf[t]] \ {t},
                   maxConcurrent[LaneOf[t]], [status EXCEPT ![t] = "done"])
      BY <1>6, <2>1, CompleteTaskPumps
    <3>2. LaneOf[t] \in Lanes /\ activeTaskIds[LaneOf[t]] \ {t} \subseteq activeTaskIds[LaneOf[t]]
      OBVIOUS
    <3> QED
      BY <1>1, <3>1, <3>2
  <2>2. CASE taskGeneration[t] # generation[LaneOf[t]]
    BY <1>6, <2>2 DEF CompleteTask
  <2> QED
    BY <2>1, <2>2
<1>7. ASSUME NEW k \in Lanes, ClearCommandLane(k)
      PROVE  Cardinality(activeTaskIds'[l]) <= maxConcurrent'[l]
  BY <1>7 DEF ClearCommandLane
<1>8. CASE ResetAllLanes
  BY <1>8, ResetEffect
<1>9. CASE WaitForActiveTasks \/ WaitDrained \/ WaitTimedOut
  BY <1>9 DEF WaitForActiveTasks, WaitDrained, WaitTimedOut, laneVars
<1>10. CASE UNCHANGED vars
  BY <1>10 DEF vars, laneVars
<1> QED
  BY <1>2, <1>3, <1>4, <1>5, <1>6, <1>7, <1>8, <1>9, <1>10 DEF Next

\* A lane is within its limit after every step that starts a task in it.
THEOREM LimitRespected == Spec => NeverStartsBeyondLimit
<1>1. IInv /\ [Next]_vars =>
        \A l \in Lanes : ~(activeTaskIds'[l] \subseteq activeTaskIds[l])
          => Cardinality(activeTaskIds'[l]) <= maxConcurrent'[l]
  BY LimitStep
<1> QED
  BY <1>1, Invariance, PTL DEF Spec, NeverStartsBeyondLimit

\* A restart rejects nothing that is queued.
THEOREM ResetPreservesQueue == Spec => ResetKeepsQueued
<1>1. ASSUME IInv, [Next]_vars, generation' # generation, NEW t \in Tasks, status[t] = "queued"
      PROVE  status'[t] \in {"queued", "running"}
  <2>1. ResetAllLanes
    BY <1>1 DEF Next, MarkGatewayDraining, SetCommandLaneConcurrency, EnqueueCommandInLane,
                RefuseCommand, CompleteTask, ClearCommandLane, WaitForActiveTasks, WaitDrained,
                WaitTimedOut, vars, laneVars
  <2> QED
    BY <1>1, <2>1 DEF ResetAllLanes
<1>2. IInv /\ [Next]_vars => (generation' # generation =>
        \A t \in Tasks : status[t] = "queued" => status'[t] \in {"queued", "running"})
  BY <1>1
<1> QED
  BY <1>2, Invariance, PTL DEF Spec, ResetKeepsQueued

-----------------------------------------------------------------------------
(* First in, first out.                                                    *)

\* How one step changes lane l: behind its queue, q may have one more entry,
\* and the first n entries of q, no other task of the lane, start.
LaneMoves(l, q, n) ==
  /\ q \in Seq(Tasks)
  /\ IsInjective(q)
  /\ Len(queue[l]) <= Len(q)
  /\ \A i \in 1..Len(queue[l]) : q[i] = queue[l][i]
  /\ n \in 0..Len(q)
  /\ Len(queue'[l]) = Len(q) - n
  /\ \A i \in 1..Len(q) - n : queue'[l][i] = q[n + i]
  /\ \A u \in Tasks : LaneOf[u] = l /\ status[u] # "running" /\ status'[u] = "running"
       => \E k \in 1..n : q[k] = u

\* Such a change keeps the order of what stays queued.
LEMMA MovesKeepOrder ==
  ASSUME IInv, IInv', NEW t \in Tasks, NEW u \in Tasks,
         status[t] = "queued", status'[t] = "queued", Ahead(t, u),
         NEW q, NEW n, LaneMoves(LaneOf[t], q, n)
  PROVE  /\ status'[u] # "running"
         /\ status'[u] = "queued" => Ahead(t, u)'
<1> DEFINE l == LaneOf[t]
           old == queue[l]
           new == queue'[l]
<1>1. /\ l \in Lanes /\ LaneOf[u] = l
      /\ old \in Seq(Tasks) /\ new \in Seq(Tasks)
      /\ Range(old) = {x \in Tasks : LaneOf[x] = l /\ status[x] = "queued"}
      /\ Range(new) = {x \in Tasks : LaneOf[x] = l /\ status'[x] = "queued"}
  BY DEF Ahead, IInv, TypeOK, QueueMatchesStatus
<1>2. PICK i \in 1..Len(old) :
        /\ old[i] = t
        /\ status[u] = "new" \/ \E j \in i + 1..Len(old) : old[j] = u
  BY DEF Ahead
<1>3. /\ q \in Seq(Tasks) /\ IsInjective(q)
      /\ Len(old) <= Len(q)
      /\ \A k \in 1..Len(old) : q[k] = old[k]
      /\ n \in 0..Len(q)
      /\ Len(new) = Len(q) - n
      /\ \A k \in 1..Len(q) - n : new[k] = q[n + k]
      /\ \A x \in Tasks : LaneOf[x] = l /\ status[x] # "running" /\ status'[x] = "running"
           => \E k \in 1..n : q[k] = x
  BY DEF LaneMoves
<1>4. Range(old) = {old[k] : k \in 1..Len(old)} /\ Range(new) = {new[k] : k \in 1..Len(new)}
  BY <1>1, RangeIsImage
<1>5. Len(old) \in Nat /\ Len(new) \in Nat /\ Len(q) \in Nat
  BY <1>1, <1>3
<1>6. \A a, b \in 1..Len(q) : q[a] = q[b] => a = b
  <2>1. DOMAIN q = 1..Len(q)
    BY <1>3
  <2> QED
    BY <1>3, <2>1 DEF IsInjective
<1> HIDE DEF l, old, new
<1>7. q[i] = t /\ i \in 1..Len(q)
  BY <1>2, <1>3, <1>5
<1>8. \A k \in 1..Len(q) : q[k] = u => i < k
  <2>1. CASE status[u] = "new"
    <3>1. u \notin Range(old)
      BY <1>1, <2>1
    <3>2. \A k \in 1..Len(old) : q[k] # u
      BY <1>3, <1>4, <3>1
    <3> QED
      BY <1>2, <1>5, <3>2
  <2>2. CASE \E j \in i + 1..Len(old) : old[j] = u
    <3>1. PICK j \in i + 1..Len(old) : old[j] = u
      BY <2>2
    <3>2. j \in 1..Len(q) /\ q[j] = u /\ i < j
      BY <1>2, <1>3, <1>5, <3>1
    <3> QED
      BY <1>6, <3>2
  <2> QED
    BY <1>2, <2>1, <2>2
<1>9. status[u] # "running"
  <2>1. CASE status[u] = "new"
    BY <2>1
  <2>2. CASE \E j \in i + 1..Len(old) : old[j] = u
    <3>1. u \in Range(old)
      BY <1>2, <1>4, <1>5, <2>2
    <3> QED
      BY <1>1, <3>1
  <2> QED
    BY <1>2, <2>1, <2>2
<1>10. n < i
  <2>1. t \in Range(new)
    BY <1>1 DEF l
  <2>2. PICK m \in 1..Len(new) : new[m] = t
    BY <1>4, <2>1
  <2>3. n + m \in 1..Len(q) /\ q[n + m] = t /\ m > 0
    BY <1>3, <1>5, <2>2
  <2>4. n + m = i
    BY <1>6, <1>7, <2>3
  <2> QED
    BY <1>3, <2>2, <2>4
<1>11. status'[u] # "running"
  <2> SUFFICES ASSUME status'[u] = "running" PROVE FALSE
    OBVIOUS
  <2>1. PICK k \in 1..n : q[k] = u
    BY <1>1, <1>3, <1>9
  <2>2. k \in 1..Len(q) /\ k < i
    BY <1>3, <1>5, <1>10, <2>1
  <2> QED
    BY <1>8, <2>1, <2>2
<1>12. ASSUME status'[u] = "queued" PROVE Ahead(t, u)'
  <2>1. u \in Range(new)
    BY <1>1, <1>12
  <2>2. PICK m \in 1..Len(new) : new[m] = u
    BY <1>4, <2>1
  <2>3. n + m \in 1..Len(q) /\ q[n + m] = u
    BY <1>3, <1>5, <2>2
  <2>4. i < n + m
    BY <1>8, <2>3
  <2>5. i - n \in 1..Len(new) /\ new[i - n] = q[n + (i - n)] /\ n + (i - n) = i
    BY <1>3, <1>5, <1>7, <1>10
  <2>6. new[i - n] = t /\ m \in (i - n) + 1..Len(new)
    BY <1>3, <1>5, <1>7, <1>10, <2>2, <2>4, <2>5
  <2> QED
    BY <1>1, <2>2, <2>5, <2>6 DEF Ahead, new, l
<1> QED
  BY <1>11, <1>12

\* A pump moves the lane it is for: q has the lane's queue in front, and st
\* calls no task running that is not.
LEMMA PumpMoves ==
  ASSUME IInv, NEW l \in Lanes, NEW q, NEW active, NEW limit, NEW st,
         LanePump(l, q, active, limit, st),
         Len(queue[l]) <= Len(q),
         \A i \in 1..Len(queue[l]) : q[i] = queue[l][i],
         \A u \in Tasks : st[u] = "running" => status[u] = "running"
  PROVE  LaneMoves(l, q, StartCount(q, active, limit))
<1> DEFINE n == StartCount(q, active, limit)
           started == Started(q, active, limit)
           rest == Remaining(q, active, limit)
<1>1. ArgumentsMatch(l, q, active, limit, st) /\ DrainLane(l, q, active, limit, st)
  BY DEF LanePump
<1>2. q \in Seq(Tasks) /\ IsInjective(q) /\ n \in 0..Len(q)
  <2>1. n \in 0..Len(q)
    BY <1>1, PumpStartsQueued
  <2> QED
    BY <1>1, <2>1 DEF ArgumentsMatch
<1>3. /\ queue'[l] = rest
      /\ status' = [u \in Tasks |-> IF u \in started THEN "running" ELSE st[u]]
  BY <1>1 DEF DrainLane, IInv, TypeOK
<1>4. started = {q[k] : k \in 1..n} /\ rest = SubSeq(q, n + 1, Len(q))
  BY DEF Started, Remaining
<1> HIDE DEF n, started, rest
<1>5. /\ Len(rest) = Len(q) - n
      /\ \A i \in 1..Len(q) - n : rest[i] = q[n + i]
  <2>1. \A i \in n + 1 .. Len(q) : q[i] \in Tasks
    BY <1>2
  <2>2. /\ Len(rest) = IF n + 1 <= Len(q) THEN Len(q) - (n + 1) + 1 ELSE 0
        /\ \A i \in 1..Len(q) - (n + 1) + 1 : rest[i] = q[n + 1 + i - 1]
    BY <1>2, <1>4, <2>1, SubSeqProperties
  <2> QED
    BY <1>2, <2>2
<1>6. \A u \in Tasks : LaneOf[u] = l /\ status[u] # "running" /\ status'[u] = "running"
        => \E k \in 1..n : q[k] = u
  BY <1>3, <1>4
<1> QED
  BY <1>2, <1>3, <1>5, <1>6 DEF LaneMoves, n

\* A step that starts nothing in a lane and leaves its queue alone.
LEMMA QuietMoves ==
  ASSUME IInv, NEW l \in Lanes, queue'[l] = queue[l],
         \A u \in Tasks : LaneOf[u] = l /\ status'[u] = "running" => status[u] = "running"
  PROVE  LaneMoves(l, queue[l], 0)
<1>1. queue[l] \in Seq(Tasks) /\ IsInjective(queue[l])
  BY LaneIsConsistent
<1> QED
  BY <1>1 DEF LaneMoves

\* A pump of another lane is quiet.
LEMMA PumpElsewhere ==
  ASSUME IInv, NEW l \in Lanes, NEW k \in Lanes, k # l,
         NEW q, NEW active, NEW limit, NEW st, LanePump(k, q, active, limit, st)
  PROVE  LaneMoves(l, queue[l], 0)
<1> DEFINE started == Started(q, active, limit)
<1>1. ArgumentsMatch(k, q, active, limit, st) /\ DrainLane(k, q, active, limit, st)
  BY DEF LanePump
<1>2. started \subseteq InLane(k, st, "queued")
  BY <1>1, PumpStartsQueued
<1>3. /\ queue'[l] = queue[l]
      /\ status' = [u \in Tasks |-> IF u \in started THEN "running" ELSE st[u]]
  BY <1>1 DEF DrainLane, IInv, TypeOK
<1> HIDE DEF started
<1>4. \A u \in Tasks : LaneOf[u] = l => status'[u] = status[u]
  BY <1>1, <1>2, <1>3 DEF InLane, ArgumentsMatch
<1> QED
  BY <1>3, <1>4, QuietMoves

\* resetAllLanes moves every lane.
LEMMA ResetMoves ==
  ASSUME IInv, ResetAllLanes, NEW l \in Lanes
  PROVE  LaneMoves(l, queue[l], StartCount(queue[l], {}, maxConcurrent[l]))
<1> DEFINE q == queue[l]
           n == StartCount(q, {}, maxConcurrent[l])
           rest == Remaining(q, {}, maxConcurrent[l])
           started(k) == Started(queue[k], {}, maxConcurrent[k])
<1>1. q \in Seq(Tasks) /\ IsInjective(q) /\ {} \cap Range(q) = {}
  BY LaneIsConsistent
<1>2. n \in 0..Len(q)
  BY <1>1, LaneIsConsistent, DrainFacts
<1>3. /\ queue'[l] = rest
      /\ status' = [u \in Tasks |-> IF u \in started(LaneOf[u]) THEN "running" ELSE status[u]]
  BY DEF ResetAllLanes
<1>4. started(l) = {q[k] : k \in 1..n} /\ rest = SubSeq(q, n + 1, Len(q))
  BY DEF Started, Remaining
<1> HIDE DEF q, n, started, rest
<1>5. /\ Len(rest) = Len(q) - n
      /\ \A i \in 1..Len(q) - n : rest[i] = q[n + i]
  <2>1. \A i \in n + 1 .. Len(q) : q[i] \in Tasks
    BY <1>1, <1>2
  <2>2. /\ Len(rest) = IF n + 1 <= Len(q) THEN Len(q) - (n + 1) + 1 ELSE 0
        /\ \A i \in 1..Len(q) - (n + 1) + 1 : rest[i] = q[n + 1 + i - 1]
    BY <1>1, <1>2, <1>4, <2>1, SubSeqProperties
  <2> QED
    BY <1>1, <1>2, <2>2
<1>6. \A u \in Tasks : LaneOf[u] = l /\ status[u] # "running" /\ status'[u] = "running"
        => \E k \in 1..n : q[k] = u
  BY <1>3, <1>4
<1>7. /\ \A i \in 1..Len(queue[l]) : q[i] = queue[l][i]
      /\ Len(queue[l]) <= Len(q)
  BY <1>1 DEF q
<1>8. LaneMoves(l, q, n)
  BY <1>1, <1>2, <1>3, <1>5, <1>6, <1>7 DEF LaneMoves
<1> QED
  BY <1>8 DEF n, q

LEMMA OrderStep ==
  ASSUME IInv, [Next]_vars, NEW t \in Tasks, NEW u \in Tasks,
         status[t] = "queued", status'[t] = "queued", Ahead(t, u)
  PROVE  /\ status'[u] # "running"
         /\ status'[u] = "queued" => Ahead(t, u)'
<1> DEFINE l == LaneOf[t]
<1>1. IInv' /\ l \in Lanes
  BY NextIInv
<1>2. SUFFICES \E q, n : LaneMoves(l, q, n)
  BY <1>1, MovesKeepOrder
<1>3. ASSUME queue' = queue,
             \A x \in Tasks : status'[x] = "running" => status[x] = "running"
      PROVE  \E q, n : LaneMoves(l, q, n)
  BY <1>1, <1>3, QuietMoves
<1>4. ASSUME NEW k \in Lanes, NEW q, NEW active, NEW limit, NEW st,
             LanePump(k, q, active, limit, st),
             Len(queue[k]) <= Len(q),
             \A i \in 1..Len(queue[k]) : q[i] = queue[k][i],
             \A x \in Tasks : st[x] = "running" => status[x] = "running"
      PROVE  \E r, n : LaneMoves(l, r, n)
  <2>1. CASE k = l
    BY <1>4, <2>1, PumpMoves
  <2>2. CASE k # l
    BY <1>1, <1>4, <2>2, PumpElsewhere
  <2> QED
    BY <2>1, <2>2
<1>5. \A k \in Lanes : Len(queue[k]) \in Nat
  BY DEF IInv, TypeOK
<1>6. CASE MarkGatewayDraining
  BY <1>3, <1>6 DEF MarkGatewayDraining, laneVars, taskVars
<1>7. ASSUME NEW k \in Lanes, NEW m \in Limits, SetCommandLaneConcurrency(k, m)
      PROVE  \E q, n : LaneMoves(l, q, n)
  <2>1. LanePump(k, queue[k], activeTaskIds[k], IF m < 1 THEN 1 ELSE m, status)
    BY <1>7, SetCommandLaneConcurrencyPumps
  <2>2. Len(queue[k]) <= Len(queue[k])
    BY <1>5
  <2> QED
    BY <1>4, <2>1, <2>2
<1>8. ASSUME NEW x \in Tasks, EnqueueCommandInLane(x)
      PROVE  \E q, n : LaneMoves(l, q, n)
  <2> DEFINE k == LaneOf[x]
             q == Append(queue[k], x)
             st == [status EXCEPT ![x] = "queued"]
  <2>1. LanePump(k, q, activeTaskIds[k], maxConcurrent[k], st)
    BY <1>8, EnqueueCommandInLanePumps
  <2>2. k \in Lanes /\ queue[k] \in Seq(Tasks)
    BY LaneIsConsistent
  <2>3. Len(queue[k]) <= Len(q) /\ \A i \in 1..Len(queue[k]) : q[i] = queue[k][i]
    BY <2>2, AppendProperties
  <2>4. \A y \in Tasks : st[y] = "running" => status[y] = "running"
    BY DEF IInv, TypeOK
  <2> HIDE DEF k, q, st
  <2> QED
    BY <1>4, <2>1, <2>2, <2>3, <2>4
<1>9. ASSUME NEW x \in Tasks, RefuseCommand(x)
      PROVE  \E q, n : LaneMoves(l, q, n)
  <2>1. \A y \in Tasks : status'[y] = "running" => status[y] = "running"
    BY <1>9 DEF RefuseCommand, IInv, TypeOK
  <2> QED
    BY <1>3, <1>9, <2>1 DEF RefuseCommand, laneVars
<1>10. ASSUME NEW x \in Tasks, CompleteTask(x)
       PROVE  \E q, n : LaneMoves(l, q, n)
  <2> DEFINE k == LaneOf[x]
             st == [status EXCEPT ![x] = "done"]
  <2>1. \A y \in Tasks : st[y] = "running" => status[y] = "running"
    BY DEF IInv, TypeOK
  <2>2. CASE taskGeneration[x] = generation[k]
    <3>1. LanePump(k, queue[k], activeTaskIds[k] \ {x}, maxConcurrent[k], st)
      BY <1>10, <2>2, CompleteTaskPumps
    <3>2. k \in Lanes /\ Len(queue[k]) <= Len(queue[k])
      BY <1>5
    <3> HIDE DEF k, st
    <3> QED
      BY <1>4, <2>1, <3>1, <3>2
  <2>3. CASE taskGeneration[x] # generation[k]
    <3>1. queue' = queue /\ status' = st
      BY <1>10, <2>3 DEF CompleteTask
    <3> QED
      BY <1>3, <2>1, <3>1
  <2> QED
    BY <2>2, <2>3
<1>11. ASSUME NEW k \in Lanes, ClearCommandLane(k)
       PROVE  \E q, n : LaneMoves(l, q, n)
  <2>1. /\ queue' = [queue EXCEPT ![k] = <<>>]
        /\ status' = [x \in Tasks |-> IF x \in Range(queue[k]) THEN "cleared" ELSE status[x]]
    BY <1>11 DEF ClearCommandLane
  <2>2. Range(queue[k]) = InLane(k, status, "queued")
    BY LaneIsConsistent
  <2>3. k # l
    BY <2>1, <2>2 DEF InLane
  <2>4. queue'[l] = queue[l]
    BY <1>1, <2>1, <2>3 DEF IInv, TypeOK
  <2>5. \A x \in Tasks : status'[x] = "running" => status[x] = "running"
    BY <2>1
  <2> QED
    BY <1>1, <2>4, <2>5, QuietMoves
<1>12. CASE ResetAllLanes
  BY <1>1, <1>12, ResetMoves
<1>13. CASE WaitForActiveTasks \/ WaitDrained \/ WaitTimedOut
  BY <1>3, <1>13 DEF WaitForActiveTasks, WaitDrained, WaitTimedOut, laneVars, taskVars
<1>14. CASE UNCHANGED vars
  BY <1>3, <1>14 DEF vars, laneVars, taskVars
<1> QED
  BY <1>6, <1>7, <1>8, <1>9, <1>10, <1>11, <1>12, <1>13, <1>14 DEF Next

\* While an entry of a lane is queued, nothing enqueued after it overtakes it,
\* whatever limits are set and however often the lanes are cleared and reset.
THEOREM OrderKept == Spec => NoOvertaking
<1>1. IInv /\ [Next]_vars =>
        \A t \in {x \in Tasks : status[x] = "queued" /\ status'[x] = "queued"}, u \in Tasks :
          Ahead(t, u) =>
            /\ status'[u] # "running"
            /\ status'[u] = "queued" => Ahead(t, u)'
  BY OrderStep
<1> QED
  BY <1>1, Invariance, PTL DEF Spec, NoOvertaking

-----------------------------------------------------------------------------
(* waitForActiveTasks.                                                     *)

\* Once started, a task is never put back, and no step makes it younger.
LEMMA StartedStays ==
  ASSUME IInv, [Next]_vars, NEW t \in Tasks, status[t] \in {"running", "done"}
  PROVE  /\ status'[t] \in {status[t], "done"}
         /\ taskGeneration'[t] = taskGeneration[t]
         /\ generation'[LaneOf[t]] >= generation[LaneOf[t]]
<1> DEFINE Goal == /\ status'[t] \in {status[t], "done"}
                   /\ taskGeneration'[t] = taskGeneration[t]
                   /\ generation'[LaneOf[t]] >= generation[LaneOf[t]]
<1>1. generation \in [Lanes -> Nat] /\ LaneOf[t] \in Lanes /\ status \in [Tasks -> TaskStatus]
  BY DEF IInv, TypeOK
<1>2. ASSUME NEW k \in Lanes, NEW q, NEW active, NEW limit, NEW st,
             LanePump(k, q, active, limit, st), st[t] \in {status[t], "done"}
      PROVE  Goal
  <2> DEFINE started == Started(q, active, limit)
  <2>1. /\ \A j \in Lanes : j # k => activeTaskIds'[j] = activeTaskIds[j]
        /\ activeTaskIds'[k] = active \cup started
        /\ maxConcurrent'[k] = limit
        /\ \A u \in Tasks : u \notin started =>
             status'[u] = st[u] /\ taskGeneration'[u] = taskGeneration[u]
        /\ started \subseteq InLane(k, st, "queued")
        /\ started # {} => Cardinality(active \cup started) <= limit
    BY <1>2, PumpEffect
  <2> HIDE DEF started
  <2>2. t \notin started
    BY <1>2, <2>1 DEF InLane
  <2>3. generation' = generation
    BY <1>2 DEF LanePump
  <2> QED
    BY <1>1, <1>2, <2>1, <2>2, <2>3
<1>3. ASSUME NEW k \in Lanes, NEW n \in Limits, SetCommandLaneConcurrency(k, n) PROVE Goal
  <2>1. LanePump(k, queue[k], activeTaskIds[k], IF n < 1 THEN 1 ELSE n, status)
    BY <1>3, SetCommandLaneConcurrencyPumps
  <2> QED
    BY <1>2, <2>1
<1>4. ASSUME NEW u \in Tasks, EnqueueCommandInLane(u) PROVE Goal
  <2>1. LanePump(LaneOf[u], Append(queue[LaneOf[u]], u), activeTaskIds[LaneOf[u]],
                 maxConcurrent[LaneOf[u]], [status EXCEPT ![u] = "queued"])
    BY <1>4, EnqueueCommandInLanePumps
  <2>2. u # t
    BY <1>4 DEF EnqueueCommandInLane
  <2>3. [status EXCEPT ![u] = "queued"][t] \in {status[t], "done"} /\ LaneOf[u] \in Lanes
    BY <1>1, <2>2
  <2> QED
    BY <1>2, <2>1, <2>3
<1>5. ASSUME NEW u \in Tasks, CompleteTask(u) PROVE Goal
  <2>1. [status EXCEPT ![u] = "done"][t] \in {status[t], "done"} /\ LaneOf[u] \in Lanes
    BY <1>1
  <2>2. CASE taskGeneration[u] = generation[LaneOf[u]]
    <3>1. LanePump(LaneOf[u], queue[LaneOf[u]], activeTaskIds[LaneOf[u]] \ {u},
                   maxConcurrent[LaneOf[u]], [status EXCEPT ![u] = "done"])
      BY <1>5, <2>2, CompleteTaskPumps
    <3> QED
      BY <1>2, <2>1, <3>1
  <2>3. CASE taskGeneration[u] # generation[LaneOf[u]]
    BY <1>1, <1>5, <2>1, <2>3 DEF CompleteTask
  <2> QED
    BY <2>2, <2>3
<1>6. ASSUME NEW k \in Lanes, ClearCommandLane(k) PROVE Goal
  BY <1>1, <1>6, LaneIsConsistent DEF ClearCommandLane, InLane
<1>7. CASE ResetAllLanes
  <2>1. t \notin Started(queue[LaneOf[t]], {}, maxConcurrent[LaneOf[t]])
    BY <1>1, <1>7, ResetEffect DEF InLane
  <2> QED
    BY <1>1, <1>7, <2>1 DEF ResetAllLanes
<1>8. CASE \/ MarkGatewayDraining \/ WaitForActiveTasks \/ WaitDrained \/ WaitTimedOut
           \/ UNCHANGED vars
  BY <1>1, <1>8 DEF MarkGatewayDraining, WaitForActiveTasks, WaitDrained, WaitTimedOut,
                    vars, laneVars, taskVars
<1>9. ASSUME NEW u \in Tasks, RefuseCommand(u) PROVE Goal
  BY <1>1, <1>9 DEF RefuseCommand, laneVars
<1> QED
  BY <1>3, <1>4, <1>5, <1>6, <1>7, <1>8, <1>9 DEF Next

\* The snapshot holds tasks that had started.
SnapshotStarted ==
  waiter # "none" => \A t \in activeAtStart : status[t] \in {"running", "done"}

LEMMA WaitStep ==
  ASSUME IInv, SnapshotStarted, DrainedMeansSettled, [Next]_vars
  PROVE  SnapshotStarted' /\ DrainedMeansSettled'
<1>1. /\ activeAtStart \subseteq Tasks
      /\ generation \in [Lanes -> Nat]
      /\ taskGeneration \in [Tasks -> Nat]
      /\ \A t \in Tasks : LaneOf[t] \in Lanes
  BY DEF IInv, TypeOK
<1>2. \A t \in AllActive : t \in Tasks /\ status[t] = "running"
  BY DEF AllActive, IInv, SlotsMatchGeneration
<1>3. \A t \in Tasks : t \notin AllActive /\ status[t] = "running"
        => taskGeneration[t] < generation[LaneOf[t]]
  <2> SUFFICES ASSUME NEW t \in Tasks, t \notin AllActive, status[t] = "running"
               PROVE  taskGeneration[t] < generation[LaneOf[t]]
    OBVIOUS
  <2>1. taskGeneration[t] # generation[LaneOf[t]]
    BY <1>1 DEF AllActive, IInv, SlotsMatchGeneration
  <2>2. taskGeneration[t] <= generation[LaneOf[t]]
    BY DEF IInv, StartedBeforeNow
  <2> QED
    BY <1>1, <2>1, <2>2
<1>4. CASE WaitForActiveTasks
  BY <1>2, <1>4 DEF WaitForActiveTasks, SnapshotActive, laneVars, taskVars, SnapshotStarted, DrainedMeansSettled
<1>5. CASE WaitDrained
  <2>1. SnapshotStarted'
    BY <1>5 DEF WaitDrained, laneVars, taskVars, SnapshotStarted
  <2>2. DrainedMeansSettled'
    BY <1>1, <1>3, <1>5
    DEF WaitDrained, laneVars, taskVars, SnapshotStarted, DrainedMeansSettled, Settled
  <2> QED
    BY <2>1, <2>2
<1>6. CASE WaitTimedOut
  BY <1>6 DEF WaitTimedOut, laneVars, taskVars, SnapshotStarted, DrainedMeansSettled
<1>7. CASE UNCHANGED <<activeAtStart, waiter>>
  <2>1. ASSUME waiter # "none", NEW t \in activeAtStart
        PROVE  status'[t] \in {"running", "done"}
    BY <1>1, <2>1, StartedStays DEF SnapshotStarted
  <2>2. ASSUME waiter = "drained", NEW t \in activeAtStart
        PROVE  status'[t] \in Settled \/ taskGeneration'[t] < generation'[LaneOf[t]]
    <3>1. status[t] \in {"running", "done"} /\ t \in Tasks
      BY <1>1, <2>2 DEF SnapshotStarted
    <3>2. /\ status'[t] \in {status[t], "done"}
          /\ taskGeneration'[t] = taskGeneration[t]
          /\ generation'[LaneOf[t]] >= generation[LaneOf[t]]
      BY <3>1, StartedStays
    <3>3. CASE status[t] = "done"
      BY <3>2, <3>3 DEF Settled
    <3>4. CASE status[t] = "running"
      <4>1. taskGeneration[t] < generation[LaneOf[t]]
        BY <2>2, <3>4 DEF DrainedMeansSettled, Settled
      <4>2. generation'[LaneOf[t]] \in Nat
        BY <3>1, <1>1, NextIInv DEF IInv, TypeOK
      <4> QED
        BY <1>1, <3>1, <3>2, <4>1, <4>2
    <3> QED
      BY <3>1, <3>3, <3>4
  <2> QED
    BY <1>7, <2>1, <2>2 DEF SnapshotStarted, DrainedMeansSettled
<1> QED
  BY <1>4, <1>5, <1>6, <1>7
  DEF Next, MarkGatewayDraining, SetCommandLaneConcurrency, EnqueueCommandInLane, RefuseCommand,
      CompleteTask, ClearCommandLane, ResetAllLanes, vars, waitVars

\* waitForActiveTasks never reports a drain while a task it waits for runs on
\* in the current lifecycle.
THEOREM DrainSound == Spec => []DrainedMeansSettled
<1>1. Init => SnapshotStarted /\ DrainedMeansSettled
  BY DEF Init, SnapshotStarted, DrainedMeansSettled
<1>2. IInv /\ SnapshotStarted /\ DrainedMeansSettled /\ [Next]_vars
        => SnapshotStarted' /\ DrainedMeansSettled'
  BY WaitStep
<1> QED
  BY <1>1, <1>2, Invariance, PTL DEF Spec

-----------------------------------------------------------------------------
(***************************************************************************)
(* CommandQueue implements TaskLifecycle, for any lanes, tasks and limits. *)
(* The step correspondence needs the inductive invariant: only with it     *)
(* does a pump start as many tasks as there are free slots.                *)
(***************************************************************************)
LifeIn(st) == [t \in Tasks |-> LifeOf(st[t])]

\* The instance has a Cardinality of its own, with the same definition.
LEMMA SameCardinality == \A S : Lifecycle!Cardinality(S) = Cardinality(S)
BY DEF Cardinality, Lifecycle!Cardinality

LEMMA LifeOfStatus ==
  ASSUME NEW s \in TaskStatus
  PROVE  /\ LifeOf(s) = "waiting" <=> s = "queued"
         /\ LifeOf(s) = "running" <=> s = "running"
         /\ LifeOf(s) = "new" <=> s = "new"
BY DEF LifeOf, TaskStatus, Settled

LEMMA WaitingIsQueued ==
  ASSUME NEW st \in [Tasks -> TaskStatus], NEW l \in Lanes
  PROVE  Lifecycle!Waiting(l, LifeIn(st)) = InLane(l, st, "queued")
<1>1. \A t \in Tasks : LifeIn(st)[t] = "waiting" <=> st[t] = "queued"
  BY LifeOfStatus DEF LifeIn
<1> QED
  BY <1>1 DEF Lifecycle!Waiting, InLane

\* What a pump starts fills the lane from its queue.
LEMMA StartedFills ==
  ASSUME IInv, NEW l \in Lanes, NEW q, NEW active, NEW limit, NEW st,
         ArgumentsMatch(l, q, active, limit, st)
  PROVE  Lifecycle!Fills(Started(q, active, limit), InLane(l, st, "queued"), active, limit)
<1> DEFINE started == Started(q, active, limit)
           rest == Remaining(q, active, limit)
<1>1. /\ StartCount(q, active, limit) \in 0..Len(q)
      /\ started \in SUBSET InLane(l, st, "queued")
      /\ rest \in Seq(Tasks)
      /\ IsInjective(rest)
      /\ Range(q) = started \cup Range(rest)
      /\ started \cap Range(rest) = {}
      /\ rest # <<>> => Cardinality(active \cup started) >= limit
      /\ started # {} => Cardinality(active \cup started) <= limit
  BY PumpStartsQueued
<1>2. Range(q) = InLane(l, st, "queued")
  BY DEF ArgumentsMatch
<1> HIDE DEF started, rest
<1>3. rest = <<>> => Range(rest) = {}
  BY DEF Range
<1> QED
  BY <1>1, <1>2, <1>3, SameCardinality DEF started, Lifecycle!Fills

LEMMA PumpLends ==
  ASSUME IInv, NEW l \in Lanes, NEW q, NEW active, NEW limit, NEW st,
         LanePump(l, q, active, limit, st)
  PROVE  Lifecycle!Lend(l, active, limit, LifeIn(st))
<1> DEFINE started == Started(q, active, limit)
<1>1. /\ ArgumentsMatch(l, q, active, limit, st)
      /\ activeTaskIds' = [activeTaskIds EXCEPT ![l] = active \cup started]
      /\ status' = [t \in Tasks |-> IF t \in started THEN "running" ELSE st[t]]
  BY DEF LanePump, DrainLane
<1>2. st \in [Tasks -> TaskStatus]
  BY <1>1 DEF ArgumentsMatch
<1>3. Lifecycle!Fills(started, InLane(l, st, "queued"), active, limit)
  BY <1>1, StartedFills
<1> HIDE DEF started
<1>4. Lifecycle!Waiting(l, LifeIn(st)) = InLane(l, st, "queued")
  BY <1>2, WaitingIsQueued
<1>5. [t \in Tasks |-> LifeOf(status'[t])]
        = [t \in Tasks |-> IF t \in started THEN "running" ELSE LifeIn(st)[t]]
  BY <1>1 DEF LifeIn, LifeOf
<1>6. started \in SUBSET Lifecycle!Waiting(l, LifeIn(st))
  BY <1>3, <1>4 DEF Lifecycle!Fills
<1> QED
  BY <1>1, <1>3, <1>4, <1>5, <1>6 DEF Lifecycle!Lend

-----------------------------------------------------------------------------
(* The steps.                                                              *)

LEMMA InitLifecycle == Init => Lifecycle!Init
BY DEF Init, Lifecycle!Init, LifeOf

LEMMA ResizeStep ==
  ASSUME IInv, NEW l \in Lanes, NEW n \in Limits, SetCommandLaneConcurrency(l, n)
  PROVE  Lifecycle!Resize(l)
<1> DEFINE limit == IF n < 1 THEN 1 ELSE n
<1>1. LanePump(l, queue[l], activeTaskIds[l], limit, status)
  BY SetCommandLaneConcurrencyPumps
<1>2. Lifecycle!Lend(l, activeTaskIds[l], limit, LifeIn(status))
  BY <1>1, PumpLends
<1>3. /\ limit \in Nat \ {0}
      /\ maxConcurrent' = [maxConcurrent EXCEPT ![l] = limit]
      /\ gatewayDraining' = gatewayDraining
  BY <1>1 DEF LanePump, ArgumentsMatch, SetCommandLaneConcurrency
<1> HIDE DEF limit
<1>4. maxConcurrent'[l] = limit
  BY <1>3 DEF IInv, TypeOK
<1> QED
  BY <1>2, <1>3, <1>4 DEF Lifecycle!Resize, LifeIn

LEMMA SubmitStep ==
  ASSUME IInv, NEW t \in Tasks, EnqueueCommandInLane(t)
  PROVE  Lifecycle!Submit(t)
<1> DEFINE l == LaneOf[t]
           st == [status EXCEPT ![t] = "queued"]
<1>1. LanePump(l, Append(queue[l], t), activeTaskIds[l], maxConcurrent[l], st)
  BY EnqueueCommandInLanePumps
<1>2. l \in Lanes
  OBVIOUS
<1>3. Lifecycle!Lend(l, activeTaskIds[l], maxConcurrent[l], LifeIn(st))
  BY <1>1, <1>2, PumpLends
<1>4. LifeIn(st) = [LifeIn(status) EXCEPT ![t] = "waiting"]
  BY DEF LifeIn, LifeOf, IInv, TypeOK
<1>5. /\ ~gatewayDraining /\ status[t] = "new"
      /\ gatewayDraining' = gatewayDraining /\ maxConcurrent' = maxConcurrent
  BY DEF EnqueueCommandInLane
<1>6. LifeIn(status)[t] = "new"
  BY <1>5 DEF LifeIn, LifeOf
<1> QED
  BY <1>3, <1>4, <1>5, <1>6 DEF Lifecycle!Submit, LifeIn

LEMMA RefuseStep ==
  ASSUME IInv, NEW t \in Tasks, RefuseCommand(t)
  PROVE  Lifecycle!Refuse(t)
<1>1. /\ gatewayDraining /\ status[t] = "new"
      /\ status' = [status EXCEPT ![t] = "refused"]
      /\ UNCHANGED <<gatewayDraining, activeTaskIds, maxConcurrent>>
  BY DEF RefuseCommand, laneVars
<1>2. [u \in Tasks |-> LifeOf(status'[u])]
        = [[u \in Tasks |-> LifeOf(status[u])] EXCEPT ![t] = "rejected"]
  BY <1>1 DEF LifeOf, IInv, TypeOK
<1>3. LifeOf(status[t]) = "new"
  BY <1>1 DEF LifeOf
<1> QED
  BY <1>1, <1>2, <1>3 DEF Lifecycle!Refuse

LEMMA FinishStep ==
  ASSUME IInv, NEW t \in Tasks, CompleteTask(t)
  PROVE  Lifecycle!Finish(t)
<1> DEFINE l == LaneOf[t]
           st == [status EXCEPT ![t] = "done"]
<1>1. /\ status[t] = "running"
      /\ gatewayDraining' = gatewayDraining /\ maxConcurrent' = maxConcurrent
  BY DEF CompleteTask
<1>2. l \in Lanes
  OBVIOUS
<1>3. t \in activeTaskIds[l] <=> taskGeneration[t] = generation[l]
  BY <1>1, <1>2, LaneIsConsistent DEF InLane
<1>4. LifeIn(st) = [LifeIn(status) EXCEPT ![t] = "done"]
  BY DEF LifeIn, LifeOf, IInv, TypeOK
<1>5. LifeIn(status)[t] = "running"
  BY <1>1 DEF LifeIn, LifeOf
<1>6. CASE taskGeneration[t] = generation[l]
  <2>1. LanePump(l, queue[l], activeTaskIds[l] \ {t}, maxConcurrent[l], st)
    BY <1>6, CompleteTaskPumps
  <2>2. Lifecycle!Lend(l, activeTaskIds[l] \ {t}, maxConcurrent[l], LifeIn(st))
    BY <1>2, <2>1, PumpLends
  <2> QED
    BY <1>1, <1>3, <1>4, <1>5, <1>6, <2>2 DEF Lifecycle!Finish, LifeIn
<1>7. CASE taskGeneration[t] # generation[l]
  <2>1. status' = st /\ activeTaskIds' = activeTaskIds
    BY <1>7 DEF CompleteTask
  <2>2. [u \in Tasks |-> LifeOf(status'[u])] = LifeIn(st)
    BY <2>1 DEF LifeIn
  <2> QED
    BY <1>1, <1>3, <1>4, <1>5, <1>7, <2>1, <2>2 DEF Lifecycle!Finish, LifeIn
<1> QED
  BY <1>6, <1>7

LEMMA CancelStep ==
  ASSUME IInv, NEW l \in Lanes, ClearCommandLane(l)
  PROVE  Lifecycle!Cancel(l)
<1>1. /\ status' = [t \in Tasks |-> IF t \in Range(queue[l]) THEN "cleared" ELSE status[t]]
      /\ UNCHANGED <<gatewayDraining, activeTaskIds, maxConcurrent>>
  BY DEF ClearCommandLane
<1>2. Range(queue[l]) = InLane(l, status, "queued")
  BY LaneIsConsistent
<1>3. Lifecycle!Waiting(l, LifeIn(status)) = InLane(l, status, "queued")
  BY WaitingIsQueued DEF IInv, TypeOK
<1>4. [t \in Tasks |-> LifeOf(status'[t])]
        = [t \in Tasks |-> IF t \in InLane(l, status, "queued") THEN "rejected"
                           ELSE LifeIn(status)[t]]
  BY <1>1, <1>2 DEF LifeIn, LifeOf
<1> QED
  BY <1>1, <1>3, <1>4 DEF Lifecycle!Cancel, LifeIn

LEMMA RestartStep ==
  ASSUME IInv, ResetAllLanes
  PROVE  Lifecycle!Restart
<1> DEFINE started(l) == Started(queue[l], {}, maxConcurrent[l])
<1>1. /\ gatewayDraining' = FALSE
      /\ maxConcurrent' = maxConcurrent
      /\ activeTaskIds' = [l \in Lanes |-> started(l)]
      /\ status' = [t \in Tasks |-> IF t \in started(LaneOf[t]) THEN "running" ELSE status[t]]
  BY DEF ResetAllLanes
<1>2. ASSUME NEW l \in Lanes
      PROVE  Lifecycle!Fills(started(l), Lifecycle!Waiting(l, LifeIn(status)), {}, maxConcurrent[l])
  <2> DEFINE rest == Remaining(queue[l], {}, maxConcurrent[l])
  <2>1. /\ queue[l] \in Seq(Tasks) /\ IsInjective(queue[l])
        /\ maxConcurrent[l] \in Nat \ {0}
        /\ Range(queue[l]) = InLane(l, status, "queued")
    BY LaneIsConsistent
  <2>2. {} \in SUBSET Tasks /\ {} \cap Range(queue[l]) = {}
    OBVIOUS
  <2>3. /\ rest \in Seq(Tasks)
        /\ Range(queue[l]) = started(l) \cup Range(rest)
        /\ rest # <<>> => Cardinality({} \cup started(l)) >= maxConcurrent[l]
        /\ started(l) # {} => Cardinality({} \cup started(l)) <= maxConcurrent[l]
    BY <2>1, <2>2, DrainFacts
  <2>4. Lifecycle!Waiting(l, LifeIn(status)) = InLane(l, status, "queued")
    BY WaitingIsQueued DEF IInv, TypeOK
  <2> HIDE DEF started, rest
  <2>5. rest = <<>> => Range(rest) = {}
    BY DEF Range
  <2> QED
    BY <2>1, <2>3, <2>4, <2>5, SameCardinality DEF Lifecycle!Fills
<1> HIDE DEF started
<1>3. \A l \in Lanes : activeTaskIds'[l] = started(l)
  BY <1>1
<1>4. [t \in Tasks |-> LifeOf(status'[t])]
        = [t \in Tasks |-> IF t \in activeTaskIds'[LaneOf[t]] THEN "running"
                           ELSE LifeIn(status)[t]]
  BY <1>1, <1>3 DEF LifeIn, LifeOf
<1>5. activeTaskIds' = [l \in Lanes |-> activeTaskIds'[l]]
  BY <1>1
<1> QED
  BY <1>1, <1>2, <1>3, <1>4, <1>5 DEF Lifecycle!Restart, LifeIn

-----------------------------------------------------------------------------
LEMMA NextLifecycle == IInv /\ [Next]_vars => [Lifecycle!Next]_(Lifecycle!vars)
<1> SUFFICES ASSUME IInv, [Next]_vars PROVE [Lifecycle!Next]_(Lifecycle!vars)
  OBVIOUS
<1>1. CASE MarkGatewayDraining
  BY <1>1 DEF MarkGatewayDraining, laneVars, taskVars, Lifecycle!Next, Lifecycle!Close
<1>2. ASSUME NEW l \in Lanes, NEW n \in Limits, SetCommandLaneConcurrency(l, n)
      PROVE  Lifecycle!Next
  BY <1>2, ResizeStep DEF Lifecycle!Next
<1>3. ASSUME NEW t \in Tasks, EnqueueCommandInLane(t) PROVE Lifecycle!Next
  BY <1>3, SubmitStep DEF Lifecycle!Next
<1>4. ASSUME NEW t \in Tasks, RefuseCommand(t) PROVE Lifecycle!Next
  BY <1>4, RefuseStep DEF Lifecycle!Next
<1>5. ASSUME NEW t \in Tasks, CompleteTask(t) PROVE Lifecycle!Next
  BY <1>5, FinishStep DEF Lifecycle!Next
<1>6. ASSUME NEW l \in Lanes, ClearCommandLane(l) PROVE Lifecycle!Next
  BY <1>6, CancelStep DEF Lifecycle!Next
<1>7. CASE ResetAllLanes
  BY <1>7, RestartStep DEF Lifecycle!Next
<1>8. CASE WaitForActiveTasks \/ WaitDrained \/ WaitTimedOut \/ UNCHANGED vars
  BY <1>8 DEF WaitForActiveTasks, WaitDrained, WaitTimedOut, vars, laneVars, taskVars,
              Lifecycle!vars
<1> QED
  BY <1>1, <1>2, <1>3, <1>4, <1>5, <1>6, <1>7, <1>8 DEF Next

\* The queue promises its callers no less than TaskLifecycle: with any number of
\* lanes, tasks and resets, and any sequence of limits.
THEOREM Implementation == Spec => ImplementsTaskLifecycle
<1>1. Init => Lifecycle!Init
  BY InitLifecycle
<1>2. IInv /\ [Next]_vars => [Lifecycle!Next]_(Lifecycle!vars)
  BY NextLifecycle
<1> QED
  BY <1>1, <1>2, Invariance, PTL DEF Spec, ImplementsTaskLifecycle, Lifecycle!Spec

-----------------------------------------------------------------------------
(***************************************************************************)
(* GatewayLoop: the queue inside the run loop.  A restart tears the server *)
(* down only after the tasks of its snapshot, whatever signals, starts and *)
(* embedded runs do meanwhile.                                             *)
(***************************************************************************)
\* Task t executes in the present lifecycle of its lane.
Executing(t) == status[t] = "running" /\ taskGeneration[t] = generation[LaneOf[t]]

\* During a restart request the tasks of its snapshot are done or execute: no
\* reset comes before the request ends.
SnapshotKept ==
  request = "restart" =>
    /\ waiter # "none"
    /\ \A t \in activeAtStart : status[t] = "done" \/ (waiter # "drained" /\ Executing(t))
    /\ TearingDown => waiter # "waiting"

LoopInv == IInv /\ SnapshotKept

LEMMA QueueInvDepends ==
  ASSUME IInv,
         UNCHANGED <<queue, activeTaskIds, maxConcurrent, generation, status, taskGeneration>>,
         gatewayDraining' \in BOOLEAN, activeAtStart' \subseteq Tasks,
         waiter' \in {"none", "waiting", "drained", "timedOut"}
  PROVE  IInv'
BY DEF IInv, TypeOK, QueueMatchesStatus, SlotsMatchGeneration, StartedBeforeNow,
       NoIdleSlotWithBacklog

LEMMA ActiveExecute ==
  ASSUME IInv, NEW t \in Tasks
  PROVE  t \in AllActive <=> Executing(t)
BY DEF AllActive, Executing, IInv, SlotsMatchGeneration

\* What request() does keeps the invariant: a restart takes a new snapshot.
LEMMA BeginRequestStep ==
  ASSUME IInv, NEW action \in {"stop", "restart"}, BeginRequest(action)
  PROVE  LoopInv'
<1>1. CASE action = "restart"
  <2>1. /\ UNCHANGED <<queue, activeTaskIds, maxConcurrent, generation, status, taskGeneration>>
        /\ gatewayDraining' = TRUE /\ SnapshotActive /\ requestPhase' = "draining"
    BY <1>1 DEF BeginRequest, laneVars, taskVars
  <2>2. AllActive \subseteq Tasks
    BY DEF AllActive, IInv, TypeOK
  <2>3. IInv'
    BY <2>1, <2>2, QueueInvDepends DEF SnapshotActive
  <2>4. \A t \in activeAtStart' : Executing(t)'
    BY <2>1, <2>2, ActiveExecute DEF SnapshotActive, Executing
  <2>5. activeAtStart' = {} \/ waiter' = "waiting"
    BY <2>1 DEF SnapshotActive
  <2>6. waiter' # "none" /\ ~TearingDown'
    BY <2>1 DEF SnapshotActive, TearingDown
  <2> QED
    BY <2>3, <2>4, <2>5, <2>6 DEF LoopInv, SnapshotKept
<1>2. CASE action = "stop"
  <2>1. request' = "stop" /\ UNCHANGED queueVars
    BY <1>2 DEF BeginRequest
  <2>2. IInv'
    BY <2>1, NextIInv DEF queueVars
  <2> QED
    BY <2>1, <2>2 DEF LoopInv, SnapshotKept
<1> QED
  BY <1>1, <1>2

\* A step of the queue keeps the tasks of a snapshot executing until they are
\* done, unless it is a reset.
LEMMA QueueStepKeeps ==
  ASSUME LoopInv, [Next]_vars, UNCHANGED <<generation, request, requestPhase>>,
         \/ UNCHANGED waitVars
         \/ WaitDrained
         \/ WaitTimedOut
  PROVE  LoopInv'
<1>1. IInv'
  BY NextIInv DEF LoopInv
<1>2. activeAtStart' = activeAtStart /\ activeAtStart \subseteq Tasks
  BY DEF waitVars, WaitDrained, WaitTimedOut, LoopInv, IInv, TypeOK
<1>3. ASSUME NEW t \in activeAtStart, request = "restart"
      PROVE  /\ status[t] = "done" => status'[t] = "done"
             /\ Executing(t) => status'[t] = "done" \/ Executing(t)'
  <2>1. status[t] \in {"running", "done"}
    BY <1>3 DEF LoopInv, SnapshotKept, Executing
  <2>2. status'[t] \in {status[t], "done"} /\ taskGeneration'[t] = taskGeneration[t]
    BY <1>2, <2>1, StartedStays DEF LoopInv
  <2> QED
    BY <2>2 DEF Executing
<1>4. SnapshotKept'
  <2> SUFFICES ASSUME request = "restart"
               PROVE  SnapshotKept'
    BY DEF SnapshotKept
  <2>1. TearingDown' = TearingDown
    BY DEF TearingDown
  <2>2. CASE UNCHANGED waitVars
    BY <1>2, <1>3, <2>1, <2>2 DEF LoopInv, SnapshotKept, waitVars
  <2>3. CASE WaitDrained
    <3>1. ASSUME NEW t \in activeAtStart PROVE status[t] = "done"
      BY <1>2, <2>3, <3>1, ActiveExecute DEF WaitDrained, LoopInv, SnapshotKept
    <3> QED
      BY <1>2, <1>3, <2>1, <2>3, <3>1 DEF LoopInv, SnapshotKept, WaitDrained
  <2>4. CASE WaitTimedOut
    BY <1>2, <1>3, <2>1, <2>4 DEF LoopInv, SnapshotKept, WaitTimedOut
  <2> QED
    BY <2>2, <2>3, <2>4
<1> QED
  BY <1>1, <1>4 DEF LoopInv

\* The end of a restart request, which may reset the lanes.
LEMMA ResumeStep ==
  ASSUME LoopInv, ResumeLoop
  PROVE  LoopInv'
<1>1. [Next]_vars
  BY DEF ResumeLoop, Next, queueVars
<1>2. IInv'
  BY <1>1, NextIInv DEF LoopInv
<1> QED
  BY <1>2 DEF ResumeLoop, LoopInv, SnapshotKept

LEMMA LoopStep == LoopInv /\ [LoopNext]_loopVars => LoopInv'
<1> SUFFICES ASSUME LoopInv, [LoopNext]_loopVars
             PROVE  LoopInv'
  OBVIOUS
\* Steps that neither touch the queue nor end the drain of a restart.
<1>1. ASSUME UNCHANGED queueVars,
             request' = request,
             requestPhase' \in {requestPhase} \/ waiter # "waiting"
      PROVE  LoopInv'
  <2>1. IInv'
    BY <1>1, NextIInv DEF LoopInv, queueVars
  <2>2. TearingDown' => TearingDown \/ waiter # "waiting"
    BY <1>1 DEF TearingDown
  <2> QED
    BY <1>1, <2>1, <2>2 DEF LoopInv, SnapshotKept, Executing, queueVars, vars, laneVars, taskVars,
                          waitVars
<1>2. ASSUME NEW t \in Tasks, Enqueue(t) \/ Refuse(t) \/ Complete(t)
      PROVE  LoopInv'
  <2>1. /\ EnqueueCommandInLane(t) \/ RefuseCommand(t) \/ CompleteTask(t)
        /\ UNCHANGED requestVars
    BY <1>2 DEF Enqueue, Refuse, Complete, QueueStep
  <2>2. UNCHANGED <<generation, waitVars>>
    BY <2>1 DEF EnqueueCommandInLane, RefuseCommand, CompleteTask, laneVars
  <2> QED
    BY <2>1, <2>2, QueueStepKeeps DEF Next, requestVars
<1>3. CASE TasksDrained \/ TasksTimedOut
  <2>1. (WaitDrained \/ WaitTimedOut) /\ UNCHANGED requestVars
    BY <1>3 DEF TasksDrained, TasksTimedOut, QueueStep
  <2> QED
    BY <2>1, QueueStepKeeps DEF Next, requestVars, WaitDrained, WaitTimedOut, laneVars
<1>4. ASSUME NEW t \in Tasks, SetActiveEmbeddedRun(t) \/ ClearActiveEmbeddedRun(t)
      PROVE  LoopInv'
  BY <1>1, <1>4 DEF SetActiveEmbeddedRun, ClearActiveEmbeddedRun, requestVars
<1>5. CASE ReceiveSigterm
  BY <1>1, <1>5, BeginRequestStep DEF ReceiveSigterm, requestVars, LoopInv
<1>6. ASSUME EmitRestart PROVE LoopInv'
  BY <1>1, <1>6, BeginRequestStep DEF EmitRestart, requestVars, LoopInv
<1>7. CASE RunsSettle \/ FinishDrain
  BY <1>1, <1>7 DEF RunsSettle, FinishDrain
<1>8. CASE ServerClosed
  <2>1. request = "restart" => waiter # "waiting"
    BY <1>8 DEF ServerClosed, LoopInv, SnapshotKept, TearingDown
  <2>2. UNCHANGED <<queueVars, request>>
    BY <1>8 DEF ServerClosed
  <2>3. IInv'
    BY <2>2, NextIInv DEF LoopInv, queueVars
  <2> QED
    BY <2>1, <2>2, <2>3 DEF LoopInv, SnapshotKept, Executing, queueVars, vars, laneVars, taskVars,
                          waitVars
<1>9. CASE \/ ForceExit \/ HandleStopAfterServerClose \/ RestartInNewProcess
           \/ ReacquireFails \/ StartSucceeds \/ StartFails \/ ScheduleRestart
  BY <1>1, <1>9 DEF ForceExit, HandleStopAfterServerClose, RestartInNewProcess, ReacquireFails,
                    StartSucceeds, StartFails, ScheduleRestart, requestVars
<1>10. CASE FallBackToInProcess
  <2>1. waiter # "waiting"
    BY <1>10 DEF FallBackToInProcess, LoopInv, SnapshotKept, TearingDown
  <2> QED
    BY <1>1, <1>10, <2>1, ResumeStep DEF FallBackToInProcess
<1>11. CASE ReacquireLock
  BY <1>11, ResumeStep DEF ReacquireLock
<1>12. CASE RestartTimerFires \/ PollEmits \/ ConfigChangeNeedsRestart \/ WatcherPollEmits
  BY <1>1, <1>6, <1>12 DEF RestartTimerFires, PollEmits, ConfigChangeNeedsRestart,
                          WatcherPollEmits, requestVars
<1>13. CASE UNCHANGED loopVars
  BY <1>1, <1>13 DEF loopVars, requestVars
<1> QED
  BY <1>2, <1>3, <1>4, <1>5, <1>7, <1>8, <1>9, <1>10, <1>11, <1>12, <1>13 DEF LoopNext

\* A restart closes the server only when what was executing when the signal
\* came has settled, or the drain deadline passed: for any tasks and limits, and
\* any number of restarts, of failed starts and of signals on the way.
THEOREM RestartsDrain == LoopSpec => []TeardownWaits
<1>1. LoopInit => LoopInv
  BY InitIInv DEF LoopInit, LoopInv, SnapshotKept
<1>2. LoopInv => TeardownWaits
  BY DEF LoopInv, IInv, TypeOK, SnapshotKept, TeardownWaits, TearingDown
<1> QED
  BY <1>1, <1>2, LoopStep, PTL DEF LoopSpec

-----------------------------------------------------------------------------
(***************************************************************************)
(* The types of GatewayLoop.  What needs a reason is the bound of the      *)
(* polls: a poll of the config watcher outlives its server when the next   *)
(* start succeeds, and a start that is not the first follows a restart.    *)
(***************************************************************************)
\* The restarts whose request is over.
Ended == restarts - (IF request = "restart" THEN 1 ELSE 0)

\* A start that is under way again.
Again == IF loopPhase = "starting" /\ ~isFirstStart THEN 1 ELSE 0

PollsCounted == polls + Again <= MaxPolls + Ended /\ Again <= Ended

FirstStart == isFirstStart => loopPhase = "starting" /\ ~restartPending /\ ~listening

FlagTypes ==
  /\ isFirstStart \in BOOLEAN /\ server \in BOOLEAN /\ listening \in BOOLEAN /\ lock \in BOOLEAN
  /\ shuttingDown \in BOOLEAN /\ restartTimer \in BOOLEAN /\ restartPending \in BOOLEAN
  /\ sigterm \in BOOLEAN

PhaseTypes ==
  /\ loopPhase \in {"starting", "waiting"}
  /\ requestPhase \in {"none", "draining", "closing", "closed", "reacquiring"}
  /\ requestPhase = "reacquiring" => request = "restart"
  /\ runsWaiter \in {"none", "waiting", "drained", "timedOut"}
  /\ exit \in {"no", "clean", "error"}

RequestTypes ==
  /\ shuttingDown => request \in {"stop", "restart"}
  /\ ~shuttingDown => request = "none"

CountTypes == restarts \in 0..MaxRestarts /\ polls \in Nat /\ embeddedRuns \subseteq Tasks

LoopTypeInv == FlagTypes /\ PhaseTypes /\ RequestTypes /\ CountTypes /\ FirstStart /\ PollsCounted

LEMMA LoopBounds == MaxRestarts \in Nat /\ MaxPolls \in Nat
BY LoopAssumption DEF LoopAssumption, ConstantsAssumption

LEMMA Counts ==
  ASSUME LoopTypeInv
  PROVE  /\ restarts \in Nat /\ polls \in Nat /\ Ended \in Int /\ Ended <= restarts
         /\ Again \in {0, 1}
         /\ restartPending /\ loopPhase = "starting" => Again = 1
<1>1. restarts \in Nat /\ polls \in Nat
  BY LoopBounds DEF LoopTypeInv, CountTypes
<1>2. Ended \in {restarts, restarts - 1}
  BY <1>1 DEF Ended
<1>3. Again \in {0, 1}
  BY DEF Again
<1>4. restartPending /\ loopPhase = "starting" => Again = 1
  BY DEF Again, LoopTypeInv, FirstStart
<1> QED
  BY <1>1, <1>2, <1>3, <1>4

\* A step that begins and ends no request, and no start.
LEMMA LoopTypesSame ==
  ASSUME LoopTypeInv,
         UNCHANGED <<loopPhase, isFirstStart, shuttingDown, request, restarts>>,
         listening' \in {listening, FALSE}, server' \in {server, FALSE}, lock' \in {lock, FALSE},
         \/ requestPhase' \in {requestPhase, "closing", "closed"}
         \/ requestPhase' = "reacquiring" /\ request = "restart",
         runsWaiter' \in {runsWaiter, "drained", "timedOut"},
         exit' \in {exit, "clean", "error"},
         restartTimer' \in BOOLEAN, sigterm' \in BOOLEAN, restartPending' \in BOOLEAN,
         restartPending' => restartPending \/ listening,
         embeddedRuns' \subseteq Tasks,
         polls' \in Nat, polls' <= polls \/ polls' <= MaxPolls
  PROVE  LoopTypeInv'
<1>1. FlagTypes'
  BY ZenonT(30) DEF LoopTypeInv, FlagTypes
<1>2. PhaseTypes'
  BY DEF LoopTypeInv, PhaseTypes
<1>3. RequestTypes'
  BY DEF LoopTypeInv, RequestTypes
<1>4. CountTypes'
  BY DEF LoopTypeInv, CountTypes
<1>5. FirstStart'
  BY DEF LoopTypeInv, FirstStart
<1>6. Ended' = Ended
  BY DEF Ended
<1>7. Again' = Again
  BY DEF Again
<1>8. PollsCounted'
  <2>1. polls + Again <= MaxPolls + Ended /\ Again <= Ended
    BY DEF LoopTypeInv, PollsCounted
  <2>2. polls' + Again <= MaxPolls + Ended
    BY <2>1, Counts, LoopBounds
  <2> QED
    BY <1>6, <1>7, <2>1, <2>2 DEF PollsCounted
<1> QED
  BY <1>1, <1>2, <1>3, <1>4, <1>5, <1>8 DEF LoopTypeInv

\* A new request is counted and not over.
LEMMA BeginRequestTypes ==
  ASSUME LoopTypeInv, ~shuttingDown, NEW action \in {"stop", "restart"}, BeginRequest(action),
         restartTimer' \in BOOLEAN, sigterm' \in BOOLEAN,
         restartPending' \in {restartPending, FALSE}, polls' \in Nat, polls' <= polls
  PROVE  LoopTypeInv'
<1>1. /\ shuttingDown' = TRUE /\ request' = action
      /\ UNCHANGED <<lock, exit, loopPhase, isFirstStart, server, listening, embeddedRuns>>
  BY DEF BeginRequest, lockVars, serverVars
<1>2. request = "none"
  BY DEF LoopTypeInv, RequestTypes
<1>3. requestPhase' \in {"draining", "closing", "closed"}
  BY DEF BeginRequest
<1>4. runsWaiter' \in {runsWaiter, "drained", "waiting"}
  BY DEF BeginRequest
<1>5. \/ action = "restart" /\ restarts < MaxRestarts /\ restarts' = restarts + 1
      \/ action = "stop" /\ restarts' = restarts
  BY DEF BeginRequest
<1>6. FlagTypes'
  BY <1>1, ZenonT(30) DEF LoopTypeInv, FlagTypes
<1>7. PhaseTypes'
  BY <1>1, <1>3, <1>4 DEF LoopTypeInv, PhaseTypes
<1>8. RequestTypes'
  BY <1>1 DEF RequestTypes
<1>9. CountTypes'
  BY <1>1, <1>5, LoopBounds DEF LoopTypeInv, CountTypes
<1>10. FirstStart'
  BY <1>1 DEF LoopTypeInv, FirstStart
<1>11. Again' = Again
  BY <1>1 DEF Again
<1>12. Ended' = Ended
  BY <1>1, <1>2, <1>5, Counts DEF Ended
<1>13. PollsCounted'
  <2>1. polls + Again <= MaxPolls + Ended /\ Again <= Ended
    BY DEF LoopTypeInv, PollsCounted
  <2>2. polls' + Again <= MaxPolls + Ended
    BY <2>1, Counts, LoopBounds
  <2> QED
    BY <1>11, <1>12, <2>1, <2>2 DEF PollsCounted
<1> QED
  BY <1>6, <1>7, <1>8, <1>9, <1>10, <1>13 DEF LoopTypeInv

\* A step of the scheduler that emits a restart, or a SIGTERM.
LEMMA SignalTypes ==
  ASSUME LoopTypeInv, restartTimer' \in BOOLEAN, sigterm' \in BOOLEAN,
         restartPending' \in {restartPending, FALSE}, polls' \in Nat, polls' <= polls,
         \/ UNCHANGED <<lockVars, serverVars, requestVars, embeddedRuns>>
         \/ ~shuttingDown /\ \E action \in {"stop", "restart"} : BeginRequest(action)
  PROVE  LoopTypeInv'
<1>1. CASE UNCHANGED <<lockVars, serverVars, requestVars, embeddedRuns>>
  <2>1. UNCHANGED <<lock, exit, loopPhase, isFirstStart, server, listening, shuttingDown, request,
                    requestPhase, runsWaiter, restarts, embeddedRuns>>
    BY <1>1 DEF lockVars, serverVars, requestVars
  <2>2. restartPending' \in BOOLEAN /\ (restartPending' => restartPending)
        /\ embeddedRuns \subseteq Tasks
    <3>1. restartPending \in BOOLEAN /\ embeddedRuns \subseteq Tasks
      BY DEF LoopTypeInv, FlagTypes, CountTypes
    <3>2. CASE restartPending' = restartPending
      BY <3>1, <3>2
    <3>3. CASE restartPending' = FALSE
      BY <3>1, <3>3
    <3> QED
      BY <3>2, <3>3
  <2>3. /\ listening' \in {listening, FALSE} /\ server' \in {server, FALSE}
        /\ lock' \in {lock, FALSE} /\ requestPhase' \in {requestPhase, "closing", "closed"}
        /\ runsWaiter' \in {runsWaiter, "drained", "timedOut"}
        /\ exit' \in {exit, "clean", "error"} /\ embeddedRuns' \subseteq Tasks
    BY <2>1, <2>2
  <2>4. UNCHANGED <<loopPhase, isFirstStart, shuttingDown, request, restarts>>
    BY <2>1
  <2> QED
    BY <2>2, <2>3, <2>4, LoopTypesSame
<1>2. CASE ~shuttingDown /\ \E action \in {"stop", "restart"} : BeginRequest(action)
  BY <1>2, BeginRequestTypes
<1> QED
  BY <1>1, <1>2

\* A start begins again when a restart request ends, and ends in one of two ways.
LEMMA StartTypes ==
  ASSUME LoopTypeInv, loopPhase' \in {"starting", "waiting"},
         isFirstStart' \in {isFirstStart, FALSE}, isFirstStart' => loopPhase' = "starting",
         server' \in BOOLEAN, listening' \in BOOLEAN, lock' \in BOOLEAN,
         restartPending' \in {restartPending, FALSE},
         isFirstStart' => listening' = listening,
         UNCHANGED <<runsWaiter, restarts, restartTimer, embeddedRuns, sigterm>>,
         exit' \in {exit, "error"}, polls' \in Nat,
         \/ UNCHANGED <<shuttingDown, request, requestPhase>>
         \/ shuttingDown' = FALSE /\ request' = "none" /\ requestPhase' = "none",
         PollsCounted'
  PROVE  LoopTypeInv'
<1>1. FlagTypes'
  BY ZenonT(30) DEF LoopTypeInv, FlagTypes
<1>2. PhaseTypes'
  BY DEF LoopTypeInv, PhaseTypes
<1>3. RequestTypes'
  BY DEF LoopTypeInv, RequestTypes
<1>4. CountTypes'
  BY DEF LoopTypeInv, CountTypes
<1>5. FirstStart'
  BY DEF LoopTypeInv, FirstStart
<1> QED
  BY <1>1, <1>2, <1>3, <1>4, <1>5 DEF LoopTypeInv

LEMMA ResumeTypes ==
  ASSUME LoopTypeInv, request = "restart", lock' \in BOOLEAN, ResumeLoop
  PROVE  LoopTypeInv'
<1>1. /\ shuttingDown' = FALSE /\ request' = "none" /\ requestPhase' = "none"
      /\ loopPhase' \in {loopPhase, "starting"}
      /\ UNCHANGED <<isFirstStart, server, listening, runsWaiter, restarts, exit, restartTimer,
                     restartPending, polls, embeddedRuns, sigterm>>
  BY DEF ResumeLoop, schedulerVars
<1>2. Ended = restarts - 1 /\ Ended' = restarts
  BY <1>1, Counts DEF Ended
<1>3. Again' \in {0, 1}
  BY DEF Again
<1>4. PollsCounted'
  <2>1. polls + Again <= MaxPolls + Ended /\ Again <= Ended
    BY DEF LoopTypeInv, PollsCounted
  <2>2. polls + Again' <= MaxPolls + restarts /\ Again' <= restarts
    BY <1>2, <1>3, <2>1, Counts, LoopBounds
  <2> QED
    BY <1>1, <1>2, <2>2 DEF PollsCounted
<1>5. loopPhase' \in {"starting", "waiting"} /\ polls' \in Nat
  BY <1>1, Counts DEF LoopTypeInv, PhaseTypes
<1>6. server \in BOOLEAN /\ listening \in BOOLEAN /\ (isFirstStart => loopPhase' = "starting")
  BY <1>1 DEF LoopTypeInv, FlagTypes, FirstStart
<1> QED
  BY <1>1, <1>4, <1>5, <1>6, StartTypes

LEMMA StartSucceedsTypes ==
  ASSUME LoopTypeInv, StartSucceeds
  PROVE  LoopTypeInv'
<1>1. /\ loopPhase = "starting" /\ loopPhase' = "waiting" /\ isFirstStart' = FALSE
      /\ server' = TRUE /\ listening' = TRUE /\ restartPending' = FALSE
      /\ polls' = IF restartPending THEN polls + 1 ELSE polls
      /\ UNCHANGED <<lock, exit, shuttingDown, request, requestPhase, runsWaiter, restarts,
                     restartTimer, embeddedRuns, sigterm>>
  BY DEF StartSucceeds, lockVars, requestVars
<1>2. Ended' = Ended
  BY <1>1 DEF Ended
<1>3. Again' = 0
  BY <1>1 DEF Again
<1>4. polls' \in Nat /\ polls' <= polls + Again
  BY <1>1, Counts
<1>5. PollsCounted'
  <2>1. polls + Again <= MaxPolls + Ended /\ Again <= Ended
    BY DEF LoopTypeInv, PollsCounted
  <2>2. polls' + 0 <= MaxPolls + Ended /\ 0 <= Ended
    BY <1>4, <2>1, Counts, LoopBounds
  <2> QED
    BY <1>2, <1>3, <2>2 DEF PollsCounted
<1>6. lock \in BOOLEAN
  BY DEF LoopTypeInv, FlagTypes
<1> QED
  BY <1>1, <1>4, <1>5, <1>6, StartTypes

LEMMA StartFailsTypes ==
  ASSUME LoopTypeInv, StartFails
  PROVE  LoopTypeInv'
<1>1. /\ loopPhase = "starting" /\ lock' = FALSE /\ server' = FALSE
      /\ IF isFirstStart THEN exit' = "error" /\ loopPhase' = loopPhase
         ELSE loopPhase' = "waiting" /\ exit' = exit
      /\ UNCHANGED <<isFirstStart, listening, shuttingDown, request, requestPhase, runsWaiter,
                     restarts, restartTimer, restartPending, polls, embeddedRuns, sigterm>>
  BY DEF StartFails, requestVars, schedulerVars
<1>2. Ended' = Ended
  BY <1>1 DEF Ended
<1>3. Again' = 0
  BY <1>1 DEF Again
<1>4. PollsCounted'
  <2>1. polls + Again <= MaxPolls + Ended /\ Again <= Ended
    BY DEF LoopTypeInv, PollsCounted
  <2>2. polls + 0 <= MaxPolls + Ended /\ 0 <= Ended
    BY <2>1, Counts, LoopBounds
  <2> QED
    BY <1>1, <1>2, <1>3, <2>2 DEF PollsCounted
<1>5. listening \in BOOLEAN /\ loopPhase' \in {"starting", "waiting"} /\ polls' \in Nat
      /\ exit' \in {exit, "error"}
  BY <1>1, Counts DEF LoopTypeInv, FlagTypes
<1> QED
  BY <1>1, <1>4, <1>5, StartTypes

LEMMA LoopTypesStep == LoopTypeInv /\ [LoopNext]_loopVars => LoopTypeInv'
<1> SUFFICES ASSUME LoopTypeInv, [LoopNext]_loopVars
             PROVE  LoopTypeInv'
  OBVIOUS
<1>0. restartTimer \in BOOLEAN /\ restartPending \in BOOLEAN /\ sigterm \in BOOLEAN
      /\ embeddedRuns \subseteq Tasks /\ polls \in Nat
  BY Counts DEF LoopTypeInv, FlagTypes, CountTypes
\* Steps that only end waits, give things back or let time pass.
<1>1. ASSUME UNCHANGED <<loopPhase, isFirstStart, shuttingDown, request, restarts, restartPending,
                         polls, sigterm>>,
             listening' \in {listening, FALSE}, server' \in {server, FALSE},
             lock' \in {lock, FALSE},
             \/ requestPhase' \in {requestPhase, "closing", "closed"}
             \/ requestPhase' = "reacquiring" /\ request = "restart",
             runsWaiter' \in {runsWaiter, "drained", "timedOut"},
             exit' \in {exit, "clean", "error"},
             restartTimer' \in {restartTimer, TRUE}, embeddedRuns' \subseteq Tasks
      PROVE  LoopTypeInv'
  <2>1. restartTimer' \in BOOLEAN
    BY <1>0, <1>1
  <2>2. polls' \in Nat /\ polls' <= polls
    BY <1>0, <1>1
  <2> QED
    BY <1>0, <1>1, <2>1, <2>2, LoopTypesSame
<1>2. CASE \/ \E t \in Tasks : Enqueue(t) \/ Refuse(t) \/ Complete(t)
           \/ TasksDrained \/ TasksTimedOut \/ UNCHANGED loopVars
  <2>1. UNCHANGED <<lockVars, serverVars, requestVars, schedulerVars, embeddedRuns, sigterm>>
    BY <1>2 DEF Enqueue, Refuse, Complete, TasksDrained, TasksTimedOut, QueueStep, loopVars
  <2> QED
    BY <1>0, <1>1, <2>1 DEF lockVars, serverVars, requestVars, schedulerVars
<1>3. ASSUME NEW t \in Tasks, SetActiveEmbeddedRun(t) \/ ClearActiveEmbeddedRun(t)
      PROVE  LoopTypeInv'
  <2>1. UNCHANGED <<lockVars, serverVars, requestVars, schedulerVars, sigterm>>
        /\ embeddedRuns' \subseteq Tasks
    BY <1>0, <1>3 DEF SetActiveEmbeddedRun, ClearActiveEmbeddedRun
  <2> QED
    BY <1>1, <2>1 DEF lockVars, serverVars, requestVars, schedulerVars
<1>4. CASE RunsSettle \/ FinishDrain \/ ServerClosed \/ ScheduleRestart
  BY <1>0, <1>1, <1>4 DEF RunsSettle, FinishDrain, ServerClosed, ScheduleRestart,
                          lockVars, serverVars, requestVars, schedulerVars
<1>5. CASE ForceExit \/ HandleStopAfterServerClose \/ RestartInNewProcess \/ ReacquireFails
  BY <1>0, <1>1, <1>5 DEF ForceExit, HandleStopAfterServerClose, RestartInNewProcess,
                          ReacquireFails, serverVars, requestVars, schedulerVars
<1>6. CASE FallBackToInProcess
  <2>1. request = "restart" /\ lock' = FALSE
    BY <1>6 DEF FallBackToInProcess
  <2>2. CASE ~lock
    <3>1. ResumeLoop
      BY <1>6, <2>2 DEF FallBackToInProcess
    <3> QED
      BY <2>1, <3>1, ResumeTypes
  <2>3. CASE lock
    BY <1>0, <1>1, <1>6, <2>1, <2>3 DEF FallBackToInProcess, serverVars, schedulerVars
  <2> QED
    BY <2>2, <2>3
<1>7. CASE ReacquireLock
  <2>1. request = "restart"
    BY <1>7 DEF ReacquireLock, LoopTypeInv, PhaseTypes
  <2> QED
    BY <1>7, <2>1, ResumeTypes DEF ReacquireLock
<1>8. CASE StartSucceeds \/ StartFails
  BY <1>8, StartSucceedsTypes, StartFailsTypes
<1>9. ASSUME EmitRestart, restartPending' \in {restartPending, FALSE}, polls' \in Nat, polls' <= polls
      PROVE  LoopTypeInv'
  <2>1. restartTimer' = FALSE /\ sigterm' = sigterm
    BY <1>9 DEF EmitRestart
  <2>2. \/ UNCHANGED <<lockVars, serverVars, requestVars, embeddedRuns>>
        \/ ~shuttingDown /\ \E action \in {"stop", "restart"} : BeginRequest(action)
    BY <1>9 DEF EmitRestart
  <2> QED
    BY <1>0, <1>9, <2>1, <2>2, SignalTypes
<1>10. CASE ReceiveSigterm
  <2>1. UNCHANGED <<restartTimer, restartPending, polls>> /\ sigterm' = TRUE
    BY <1>10 DEF ReceiveSigterm, schedulerVars
  <2>2. \/ UNCHANGED <<lockVars, serverVars, requestVars, embeddedRuns>>
        \/ ~shuttingDown /\ \E action \in {"stop", "restart"} : BeginRequest(action)
    BY <1>10 DEF ReceiveSigterm
  <2>3. polls' \in Nat /\ polls' <= polls
    BY <1>0, <2>1
  <2> QED
    BY <1>0, <2>1, <2>2, <2>3, SignalTypes
<1>11. CASE RestartTimerFires
  <2>1. CASE Idle
    <3>1. EmitRestart /\ restartPending' = restartPending /\ polls' = polls
      BY <1>11, <2>1 DEF RestartTimerFires
    <3> QED
      BY <1>0, <1>9, <3>1
  <2>2. CASE ~Idle
    <3>1. /\ polls < MaxPolls /\ polls' = polls + 1 /\ restartTimer' = FALSE
          /\ UNCHANGED <<lockVars, serverVars, requestVars, restartPending, embeddedRuns, sigterm>>
      BY <1>11, <2>2 DEF RestartTimerFires
    <3>2. polls' \in Nat /\ polls' <= MaxPolls
      BY <1>0, <3>1, LoopBounds
    <3> QED
      BY <1>0, <3>1, <3>2, LoopTypesSame DEF lockVars, serverVars, requestVars
  <2> QED
    BY <2>1, <2>2
<1>12. CASE PollEmits
  <2>1. EmitRestart /\ restartPending' = restartPending /\ polls' = polls - 1 /\ polls > 0
    BY <1>12 DEF PollEmits
  <2>2. polls' \in Nat /\ polls' <= polls
    BY <1>0, <2>1
  <2> QED
    BY <1>9, <2>1, <2>2
<1>13. CASE WatcherPollEmits
  <2>1. EmitRestart /\ restartPending' = FALSE /\ polls' = polls
    BY <1>13 DEF WatcherPollEmits
  <2>2. restartPending' \in {restartPending, FALSE}
    BY <2>1
  <2>3. polls' \in Nat /\ polls' <= polls
    BY <1>0, <2>1
  <2> QED
    BY <1>9, <2>1, <2>2, <2>3
<1>14. CASE ConfigChangeNeedsRestart
  <2>1. CASE Idle
    <3>1. EmitRestart /\ restartPending' = restartPending /\ polls' = polls
      BY <1>14, <2>1 DEF ConfigChangeNeedsRestart
    <3> QED
      BY <1>0, <1>9, <3>1
  <2>2. CASE ~Idle
    <3>1. /\ listening /\ restartPending' = TRUE
          /\ UNCHANGED <<lockVars, serverVars, requestVars, restartTimer, polls, embeddedRuns, sigterm>>
      BY <1>14, <2>2 DEF ConfigChangeNeedsRestart
    <3>2. polls' \in Nat /\ polls' <= polls
      BY <1>0, <3>1
    <3> QED
      BY <1>0, <3>1, <3>2, LoopTypesSame DEF lockVars, serverVars, requestVars
  <2> QED
    BY <2>1, <2>2
<1> QED
  BY <1>2, <1>3, <1>4, <1>5, <1>6, <1>7, <1>8, <1>10, <1>11, <1>12, <1>13, <1>14 DEF LoopNext

\* Every variable of the process keeps its type, and a request is recorded
\* exactly while it shuts down; a restart leaves at most one poll of the config
\* watcher behind: for any tasks and limits, and any number of restarts.
THEOREM LoopTypeCorrect == LoopSpec => []LoopTypeOK
<1>1. LoopInit => LoopInv /\ LoopTypeInv
  <2> SUFFICES ASSUME LoopInit PROVE LoopInv /\ LoopTypeInv
    OBVIOUS
  <2>1. LoopInv
    BY InitIInv DEF LoopInit, LoopInv, SnapshotKept
  <2>2. FlagTypes /\ FirstStart
    BY DEF LoopInit, FlagTypes, FirstStart
  <2>3. PhaseTypes /\ RequestTypes /\ CountTypes
    BY LoopBounds DEF LoopInit, PhaseTypes, RequestTypes, CountTypes
  <2>4. PollsCounted
    <3>1. Ended = 0 /\ Again = 0 /\ polls = 0
      BY DEF LoopInit, Ended, Again
    <3> QED
      BY <3>1, LoopBounds DEF PollsCounted
  <2> QED
    BY <2>1, <2>2, <2>3, <2>4 DEF LoopTypeInv
<1>2. LoopInv /\ LoopTypeInv /\ [LoopNext]_loopVars => (LoopInv /\ LoopTypeInv)'
  BY LoopStep, LoopTypesStep DEF LoopInv
<1>3. LoopInv /\ LoopTypeInv => LoopTypeOK
  <2> SUFFICES ASSUME LoopInv, LoopTypeInv PROVE LoopTypeOK
    OBVIOUS
  <2>1. polls \in 0..MaxPolls + MaxRestarts
    <3>1. restarts \in 0..MaxRestarts
      BY DEF LoopTypeInv, CountTypes
    <3>2. polls + Again <= MaxPolls + Ended
      BY DEF LoopTypeInv, PollsCounted
    <3> QED
      BY <3>1, <3>2, Counts, LoopBounds
  <2>2. {isFirstStart, server, listening, lock, shuttingDown, restartTimer, restartPending, sigterm}
          \subseteq BOOLEAN
    BY DEF LoopTypeInv, FlagTypes
  <2>3. request \in (IF shuttingDown THEN {"stop", "restart"} ELSE {"none"})
    BY DEF LoopTypeInv, RequestTypes
  <2> QED
    BY <2>1, <2>2, <2>3 DEF LoopTypeOK, LoopInv, IInv, LoopTypeInv, PhaseTypes, CountTypes
<1> QED
  BY <1>1, <1>2, <1>3, PTL DEF LoopSpec

=============================================================================
