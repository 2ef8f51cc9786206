-------------------------- MODULE FollowupQueueProofs --------------------------
(***************************************************************************)
(* Proofs about FollowupQueue for every set of messages and queue objects. *)
(*                                                                         *)
(* The first part holds for all settings, clears and failures: types, the  *)
(* cap, and that nothing is queued twice.  The second part assumes what    *)
(* the order and the safety of the messages need: a queue that is full     *)
(* rejects (drop = "new") and nobody clears it.  Without the one or the    *)
(* other the counterexample configurations of MCFollowupQueue refute them. *)
(* The third part is about what clears remove, for any settings, number of *)
(* clears and queue objects.                                               *)
(***************************************************************************)
EXTENDS FollowupQueue, SequenceTheorems, TLAPS

-----------------------------------------------------------------------------
(* Sequences.                                                              *)

LEMMA RangeIsImage ==
  ASSUME NEW S, NEW q \in Seq(S)
  PROVE  /\ Range(q) = {q[i] : i \in 1..Len(q)}
         /\ Range(q) \subseteq S
BY DEF Range

\* What is left of a sequence without its first n elements.
LEMMA Suffix ==
  ASSUME NEW S, NEW q \in Seq(S), NEW n \in 0..Len(q)
  PROVE  LET r == SubSeq(q, n + 1, Len(q)) IN
         /\ r \in Seq(S)
         /\ Len(r) = Len(q) - n
         /\ \A i \in 1..Len(q) - n : r[i] = q[n + i]
<1>1. \A i \in n + 1 .. Len(q) : q[i] \in S
  OBVIOUS
<1>2. /\ SubSeq(q, n + 1, Len(q)) \in Seq(S)
      /\ Len(SubSeq(q, n + 1, Len(q))) = IF n + 1 <= Len(q) THEN Len(q) - (n + 1) + 1 ELSE 0
      /\ \A i \in 1..Len(q) - (n + 1) + 1 : SubSeq(q, n + 1, Len(q))[i] = q[n + 1 + i - 1]
  BY <1>1, SubSeqProperties
<1> QED
  BY <1>2

\* A suffix repeats no element that the sequence does not repeat.
LEMMA SuffixInjective ==
  ASSUME NEW S, NEW q \in Seq(S), IsInjective(q), NEW n \in 0..Len(q)
  PROVE  IsInjective(SubSeq(q, n + 1, Len(q)))
<1> DEFINE r == SubSeq(q, n + 1, Len(q))
<1>1. /\ r \in Seq(S)
      /\ Len(r) = Len(q) - n
      /\ \A i \in 1..Len(q) - n : r[i] = q[n + i]
  BY Suffix
<1> HIDE DEF r
<1>2. SUFFICES ASSUME NEW i \in 1..Len(r), NEW j \in 1..Len(r), r[i] = r[j]
               PROVE  i = j
  BY <1>1 DEF IsInjective, r
<1>3. n + i \in 1..Len(q) /\ n + j \in 1..Len(q) /\ q[n + i] = q[n + j]
  BY <1>1, <1>2
<1>4. \A a, b \in 1..Len(q) : q[a] = q[b] => a = b
  BY DEF IsInjective
<1> QED
  BY <1>2, <1>3, <1>4

LEMMA AppendOnce ==
  ASSUME NEW S, NEW q \in Seq(S), IsInjective(q), NEW m \in S, m \notin Range(q),
         NEW r, r = Append(q, m)
  PROVE  IsInjective(r)
<1>1. /\ r \in Seq(S)
      /\ Len(r) = Len(q) + 1
      /\ \A i \in 1..Len(q) : r[i] = q[i]
      /\ r[Len(q) + 1] = m
  BY AppendProperties
<1>2. \A i \in 1..Len(q) : q[i] # m
  BY RangeIsImage
<1>3. \A a, b \in 1..Len(q) : q[a] = q[b] => a = b
  BY DEF IsInjective
<1>4. ASSUME NEW i \in 1..Len(q) + 1, NEW j \in 1..Len(q) + 1, r[i] = r[j]
      PROVE  i = j
  BY <1>1, <1>2, <1>3, <1>4
<1>5. DOMAIN r = 1..Len(q) + 1
  BY <1>1
<1>6. \A i, j \in DOMAIN r : r[i] = r[j] => i = j
  BY <1>4, <1>5
<1> QED
  BY <1>6 DEF IsInjective

-----------------------------------------------------------------------------
(* Types.                                                                  *)

Drains == [phase : Phases, forced : BOOLEAN, kind : {"none", "item", "summary", "collect"},
           batch : Seq(Messages), summary : Seq(Messages)]

\* The types of the variables that hold queues, more exactly than
\* FollowupTypeOK gives them.
QueueTypes ==
  /\ current \in Objects \cup {None}
  /\ settings \in [Objects -> Settings]
  /\ items \in [Objects -> Seq(Messages)]
  /\ dropped \in [Objects -> Seq(Messages)]
  /\ drain \in [Objects -> Drains]
  /\ accepted \in Seq(Messages)
  /\ arriving \in SUBSET Messages /\ recent \in SUBSET Messages

OtherTypes ==
  /\ mainRun \in BOOLEAN
  /\ ran \cup reported \cup discarded \cup cleared \subseteq Messages
  /\ failures \in 0..MaxFailures /\ clears \in 0..MaxClears

\* What the drain loop of an object without a run holds.
Quiet == {d \in Drains : d.phase # "running" /\ d.batch = <<>> /\ d.summary = <<>> /\ d.kind = "none"}

BatchOfRun == \A o \in Objects : ~Running(o) => drain[o] \in Quiet

WithinCap == \A o \in Objects : \E s \in Settings : Len(items[o]) <= s.cap

QueueInv == QueueTypes /\ OtherTypes /\ BatchOfRun /\ WithinCap /\ QueuedOnce

LEMMA EmptyQueue ==
  /\ <<>> \in Seq(Messages)
  /\ Len(<<>>) = 0
  /\ IsInjective(<<>>)
  /\ Range(<<>>) = {}
BY EmptySeq DEF IsInjective, Range

LEMMA SettingsTypes ==
  ASSUME NEW s \in Settings
  PROVE  /\ s.cap \in Nat \ {0}
         /\ s.mode \in {"collect", "followup"}
         /\ s.drop \in {"summarize", "old", "new"}
BY FollowupAssumption DEF FollowupAssumption

LEMMA ConstantTypes ==
  /\ MaxFailures \in Nat /\ MaxClears \in Nat
  /\ None \notin Objects
  /\ \E s \in Settings : TRUE
BY FollowupAssumption DEF FollowupAssumption

LEMMA DrainTypes ==
  /\ NoDrain \in Quiet /\ NewDrain \in Quiet
  /\ NoDrain.phase = "none" /\ NewDrain.phase = "debounce"
  /\ \A f \in BOOLEAN : [NewDrain EXCEPT !.forced = f] \in Quiet
BY EmptyQueue DEF NoDrain, NewDrain, Drains, Phases, Quiet

\* The drain loops after a step that starts no run.
LEMMA ScheduleEffect ==
  ASSUME NEW o \in Objects \cup {None}, NEW its, NEW drops, NEW dr \in [Objects -> Drains],
         ScheduleDrain(o, its, drops, dr)
  PROVE  /\ current' \in {o, None}
         /\ drain' \in [Objects -> Drains]
         /\ \A p \in Objects : drain'[p] \in Quiet \cup {dr[p]}
<1>1. Quiet \subseteq Drains
  BY DEF Quiet
<1>2. CASE drain' = dr
  BY <1>2 DEF ScheduleDrain
<1>3. CASE o # None /\ drain' = [dr EXCEPT ![o] = NewDrain]
  BY <1>1, <1>3, DrainTypes DEF ScheduleDrain
<1> QED
  BY <1>2, <1>3 DEF ScheduleDrain

LEMMA FinishEffect ==
  ASSUME QueueTypes, NEW o \in Objects, NEW its, NEW drops, FinishDrain(o, its, drops)
  PROVE  /\ current' \in {current, None}
         /\ drain' \in [Objects -> Drains]
         /\ \A p \in Objects : drain'[p] \in Quiet \cup {drain[p]}
<1> DEFINE dr == [drain EXCEPT ![o] = NoDrain]
<1>1. /\ dr \in [Objects -> Drains]
      /\ \A p \in Objects : dr[p] \in Quiet \cup {drain[p]}
  BY DrainTypes DEF QueueTypes, Quiet
<1>2. CASE current' = None /\ drain' = dr
  BY <1>1, <1>2
<1>3. CASE ScheduleDrain(current, its, drops, dr)
  <2>1. current \in Objects \cup {None}
    BY DEF QueueTypes
  <2> HIDE DEF dr
  <2>2. /\ current' \in {current, None}
        /\ drain' \in [Objects -> Drains]
        /\ \A p \in Objects : drain'[p] \in Quiet \cup {dr[p]}
    BY <1>1, <1>3, <2>1, ScheduleEffect
  <2> QED
    BY <1>1, <2>2
<1> QED
  BY <1>2, <1>3 DEF FinishDrain

LEMMA LoopTopEffect ==
  ASSUME QueueTypes, NEW o \in Objects, NEW its, NEW drops, LoopTop(o, its, drops)
  PROVE  /\ current' \in {current, None}
         /\ drain' \in [Objects -> Drains]
         /\ \A p \in Objects : drain'[p] \in Quiet \cup {drain[p]}
<1>1. CASE FinishDrain(o, its, drops)
  BY <1>1, FinishEffect
<1>2. CASE /\ current' = current
           /\ drain' = [drain EXCEPT ![o] = [NewDrain EXCEPT !.forced = drain[o].forced]]
  <2> DEFINE d == [NewDrain EXCEPT !.forced = drain[o].forced]
  <2>1. drain[o].forced \in BOOLEAN
    BY DEF QueueTypes, Drains
  <2>2. d \in Quiet /\ d \in Drains
    BY <2>1, DrainTypes DEF Quiet
  <2> HIDE DEF d
  <2>3. drain' = [drain EXCEPT ![o] = d]
    BY <1>2 DEF d
  <2> QED
    BY <1>2, <2>2, <2>3 DEF QueueTypes
<1> QED
  BY <1>1, <1>2 DEF LoopTop

\* A step that starts a run of a batch.
LEMMA StartRunEffect ==
  ASSUME QueueTypes, NEW o \in Objects, NEW kind \in {"item", "summary", "collect"},
         NEW batch \in Seq(Messages), NEW summary \in Seq(Messages), NEW forced \in BOOLEAN,
         StartRun(o, kind, batch, summary, forced)
  PROVE  /\ current' = current
         /\ drain' \in [Objects -> Drains]
         /\ \A p \in Objects \ {o} : drain'[p] = drain[p]
         /\ Running(o)' /\ drain'[o].batch = batch /\ drain'[o].summary = summary
         /\ drain'[o].kind = kind
<1> DEFINE d == [phase |-> "running", forced |-> forced, kind |-> kind, batch |-> batch,
                 summary |-> summary]
<1>1. d \in Drains
  BY DEF Drains, Phases
<1>2. drain' = [drain EXCEPT ![o] = d] /\ current' = current
  BY DEF StartRun
<1> QED
  BY <1>1, <1>2 DEF QueueTypes, Running

\* Every step of the drain loops, as far as their types go.
DrainLoopsStep ==
  /\ current' \in {current, None}
  /\ drain' \in [Objects -> Drains]
  /\ \A p \in Objects : Running(p)' \/ drain'[p] \in Quiet \cup {drain[p]}

LEMMA StartItemEffect ==
  ASSUME QueueInv, NEW o \in Objects, NEW kind \in {"item", "summary", "collect"},
         NEW summary \in Seq(Messages), NEW forced \in BOOLEAN,
         StartItem(o, kind, summary, forced)
  PROVE  DrainLoopsStep
<1>1. items[o] \in Seq(Messages)
  BY DEF QueueInv, QueueTypes
<1>2. CASE FinishDrain(o, items, dropped)
  BY <1>2, FinishEffect DEF QueueInv, DrainLoopsStep
<1>3. CASE items[o] # <<>> /\ StartRun(o, kind, <<Head(items[o])>>, summary, forced)
  <2> DEFINE batch == <<Head(items[o])>>
  <2>1. batch \in Seq(Messages) /\ StartRun(o, kind, batch, summary, forced)
    BY <1>1, <1>3
  <2> HIDE DEF batch
  <2>2. /\ current' = current
        /\ drain' \in [Objects -> Drains]
        /\ \A p \in Objects \ {o} : drain'[p] = drain[p]
        /\ Running(o)'
    BY <2>1, StartRunEffect DEF QueueInv
  <2> QED
    BY <2>2 DEF DrainLoopsStep
<1> QED
  BY <1>2, <1>3 DEF StartItem

LEMMA DebounceOverEffect ==
  ASSUME QueueInv, NEW o \in Objects, DebounceOver(o)
  PROVE  DrainLoopsStep
<1>1. SummaryOf(o) \in Seq(Messages) /\ <<>> \in Seq(Messages)
  BY EmptyQueue DEF SummaryOf, QueueInv, QueueTypes
<1>2. CASE StartItem(o, "item", <<>>, TRUE)
  BY <1>1, <1>2, StartItemEffect
<1>3. CASE StartItem(o, IF SummaryOf(o) # <<>> THEN "summary" ELSE "item", SummaryOf(o), FALSE)
  BY <1>1, <1>3, StartItemEffect
<1>4. CASE drain' = [drain EXCEPT ![o].phase = "batching"] /\ current' = current
  <2>1. drain[o].phase = "debounce" /\ drain[o] \in Quiet
    BY DEF DebounceOver, QueueInv, BatchOfRun, Running
  <2>2. [drain[o] EXCEPT !.phase = "batching"] \in Quiet
    BY <2>1 DEF Quiet, Drains, Phases
  <2>3. drain \in [Objects -> Drains]
    BY DEF QueueInv, QueueTypes
  <2> QED
    BY <1>4, <2>2, <2>3 DEF DrainLoopsStep, Quiet
<1> QED
  BY <1>2, <1>3, <1>4 DEF DebounceOver

LEMMA StartBatchEffect ==
  ASSUME QueueInv, NEW o \in Objects, StartBatch(o)
  PROVE  DrainLoopsStep
<1>1. SummaryOf(o) \in Seq(Messages) /\ items[o] \in Seq(Messages)
  BY EmptyQueue DEF SummaryOf, QueueInv, QueueTypes
<1>2. CASE FinishDrain(o, items, dropped)
  BY <1>2, FinishEffect DEF QueueInv, DrainLoopsStep
<1>3. CASE StartRun(o, "collect", items[o], SummaryOf(o), FALSE)
  BY <1>1, <1>3, StartRunEffect DEF QueueInv, DrainLoopsStep
<1> QED
  BY <1>2, <1>3 DEF StartBatch

LEMMA InitQueueInv == Init => QueueInv
<1> SUFFICES ASSUME Init PROVE QueueInv
  OBVIOUS
<1>1. NoDrain \in Drains
  BY DrainTypes DEF Quiet
<1>2. QueueTypes
  BY <1>1, EmptyQueue, ConstantTypes DEF Init, QueueTypes
<1>3. BatchOfRun
  BY DrainTypes DEF Init, BatchOfRun
<1>4. WithinCap
  BY EmptyQueue, SettingsTypes, ConstantTypes DEF Init, WithinCap
<1>5. QueuedOnce
  BY EmptyQueue DEF Init, QueuedOnce
<1>6. OtherTypes
  <2>1. failures \in 0..MaxFailures /\ clears \in 0..MaxClears
    BY ConstantTypes DEF Init
  <2>2. ran \cup reported \cup discarded \cup cleared \subseteq Messages
    BY DEF Init
  <2>3. mainRun \in BOOLEAN
    BY DEF Init
  <2> QED
    BY <2>1, <2>2, <2>3 DEF OtherTypes
<1> QED
  BY <1>2, <1>3, <1>4, <1>5, <1>6 DEF QueueInv

\* A step of the drain loops that leaves the contents of the queues alone.
LEMMA DrainOnly ==
  ASSUME QueueInv, DrainLoopsStep,
         UNCHANGED <<settings, items, dropped, arriving, recent, accepted>>,
         OtherTypes'
  PROVE  QueueInv'
<1>1. QueueTypes'
  BY DEF QueueInv, QueueTypes, DrainLoopsStep
<1>2. BatchOfRun'
  BY DEF QueueInv, BatchOfRun, DrainLoopsStep, Running, Quiet
<1>3. WithinCap' /\ QueuedOnce'
  BY DEF QueueInv, WithinCap, QueuedOnce
<1> QED
  BY <1>1, <1>2, <1>3 DEF QueueInv

\* What the object that a message is queued in holds before.
LEMMA HeldTypes ==
  ASSUME QueueInv, NEW o \in Objects
  PROVE  /\ Held(o) \in Seq(Messages)
         /\ IsInjective(Held(o))
         /\ Len(Held(o)) <= Len(items[o])
         /\ HeldDrops(o) \in Seq(Messages)
<1>1. items[o] \in Seq(Messages) /\ dropped[o] \in Seq(Messages) /\ IsInjective(items[o])
  BY DEF QueueInv, QueueTypes, QueuedOnce
<1>2. Len(items[o]) \in Nat
  BY <1>1, LenProperties
<1> QED
  BY <1>1, <1>2, EmptyQueue DEF Held, HeldDrops

\* enqueueFollowupRun accepts a message: the queue gains it at its end, loses
\* at most a prefix, and stays within the cap.
LEMMA PushItemEffect ==
  ASSUME QueueInv, NEW m \in Messages, NEW o \in Objects, NEW s \in Settings,
         PushItem(m, o, s), ~AlreadyQueued(m, o)
  PROVE  /\ items' \in [Objects -> Seq(Messages)]
         /\ \A p \in Objects \ {o} : items'[p] = items[p] /\ dropped'[p] = dropped[p]
         /\ IsInjective(items'[o])
         /\ Len(items'[o]) <= s.cap
         /\ dropped' \in [Objects -> Seq(Messages)]
         /\ discarded' \subseteq discarded \cup Messages
         /\ recent' \in SUBSET Messages
         /\ accepted' = Append(accepted, m) /\ accepted' \in Seq(Messages)
         /\ cleared' \subseteq cleared
<1> DEFINE held == Held(o)
           over == IF AtCap(o, s) THEN SubSeq(held, 1, Len(held) - s.cap + 1) ELSE <<>>
           kept == SubSeq(held, Len(over) + 1, Len(held))
           new == Append(kept, m)
           drops == HeldDrops(o) \o (IF s.drop = "summarize" THEN over ELSE <<>>)
<1>1. /\ items' = [items EXCEPT ![o] = new]
      /\ dropped' = [dropped EXCEPT ![o] = drops]
      /\ discarded' = IF s.drop = "old" THEN discarded \cup Range(over) ELSE discarded
      /\ recent' = recent \cup {m}
      /\ accepted' = Append(accepted, m)
      /\ cleared' = cleared \ {m}
  BY DEF PushItem, QueueInv, QueueTypes
<1>2. held \in Seq(Messages) /\ IsInjective(held) /\ Len(held) \in Nat
  BY HeldTypes
<1>3. m \notin Range(held)
  BY DEF AlreadyQueued
<1>4. s.cap \in Nat \ {0}
  BY SettingsTypes
<1>5. /\ over \in Seq(Messages) /\ Len(over) \in 0..Len(held)
      /\ Len(held) - Len(over) < s.cap
  <2>1. CASE AtCap(o, s)
    <3>1. Len(held) - s.cap + 1 \in 1..Len(held)
      BY <1>2, <1>4, <2>1 DEF AtCap
    <3>2. /\ SubSeq(held, 1, Len(held) - s.cap + 1) \in Seq(Messages)
          /\ Len(SubSeq(held, 1, Len(held) - s.cap + 1)) = Len(held) - s.cap + 1
      <4>1. \A i \in 1..Len(held) - s.cap + 1 : held[i] \in Messages
        BY <1>2, <3>1
      <4> QED
        BY <1>2, <1>4, <3>1, <4>1, SubSeqProperties
    <3> QED
      BY <1>2, <1>4, <2>1, <3>1, <3>2
  <2>2. CASE ~AtCap(o, s)
    BY <1>2, <1>4, <2>2, EmptyQueue DEF AtCap
  <2> QED
    BY <2>1, <2>2
<1> HIDE DEF held, over
<1>6. /\ kept \in Seq(Messages)
      /\ Len(kept) = Len(held) - Len(over)
      /\ \A i \in 1..Len(held) - Len(over) : kept[i] = held[Len(over) + i]
  BY <1>2, <1>5, Suffix
<1>7. IsInjective(kept)
  BY <1>2, <1>5, SuffixInjective
<1>8. m \notin Range(kept)
  <2> HIDE DEF kept
  <2>1. ASSUME NEW i \in 1..Len(kept) PROVE kept[i] # m
    <3>1. Len(over) + i \in 1..Len(held) /\ kept[i] = held[Len(over) + i]
      BY <1>2, <1>5, <1>6
    <3> QED
      BY <1>2, <1>3, <3>1, RangeIsImage
  <2> QED
    BY <1>6, <2>1, RangeIsImage
<1> HIDE DEF kept
<1>9. /\ new \in Seq(Messages) /\ Len(new) <= s.cap
  BY <1>2, <1>4, <1>5, <1>6, AppendProperties
<1>10. IsInjective(new)
  BY <1>6, <1>7, <1>8, AppendOnce
<1>11. drops \in Seq(Messages)
  <2>1. HeldDrops(o) \in Seq(Messages)
    BY HeldTypes
  <2> QED
    BY <1>5, <2>1, EmptyQueue, ConcatProperties
<1>12. Range(over) \subseteq Messages
  BY <1>5, RangeIsImage
<1> HIDE DEF new, drops
<1>13. /\ items \in [Objects -> Seq(Messages)] /\ dropped \in [Objects -> Seq(Messages)]
       /\ recent \in SUBSET Messages /\ accepted \in Seq(Messages)
  BY DEF QueueInv, QueueTypes
<1>14. Append(accepted, m) \in Seq(Messages)
  BY <1>13, AppendProperties
<1> QED
  BY <1>1, <1>9, <1>10, <1>11, <1>12, <1>13, <1>14

LEMMA EnqueueQueueInv ==
  ASSUME QueueInv, NEW m \in Messages, NEW s \in Settings, EnqueueFollowupRun(m, s)
  PROVE  QueueInv'
<1> DEFINE o == Target
<1>1. o \in Objects
  BY DEF EnqueueFollowupRun, Target, QueueInv, QueueTypes
<1>2. /\ settings' = [settings EXCEPT ![o] = s]
      /\ arriving' = arriving \ {m}
      /\ UNCHANGED <<mainRun, ran, reported, failures, clears>>
      /\ \/ current' = o /\ drain' = drain
         \/ ScheduleDrain(o, items', dropped', drain)
      /\ \/ PushItem(m, o, s) /\ ~AlreadyQueued(m, o)
         \/ /\ items' = [items EXCEPT ![o] = Held(o)]
            /\ dropped' = [dropped EXCEPT ![o] = HeldDrops(o)]
            /\ UNCHANGED <<discarded, recent, accepted, cleared>>
  BY DEF EnqueueFollowupRun, boundVars
<1> HIDE DEF o
<1>3. /\ current' \in {o, None}
      /\ drain' \in [Objects -> Drains]
      /\ \A p \in Objects : drain'[p] \in Quiet \cup {drain[p]}
  BY <1>1, <1>2, ScheduleEffect DEF QueueInv, QueueTypes
<1>4. /\ items' \in [Objects -> Seq(Messages)]
      /\ dropped' \in [Objects -> Seq(Messages)]
      /\ recent' \in SUBSET Messages /\ accepted' \in Seq(Messages)
      /\ discarded' \cup cleared' \subseteq Messages
      /\ \A p \in Objects :
           \/ items'[p] = items[p]
           \/ IsInjective(items'[p]) /\ Len(items'[p]) <= s.cap
           \/ /\ IsInjective(items'[p]) /\ items'[p] \in Seq(Messages)
              /\ Len(items'[p]) <= Len(items[p])
  <2>1. CASE PushItem(m, o, s) /\ ~AlreadyQueued(m, o)
    <3>1. /\ items' \in [Objects -> Seq(Messages)]
          /\ \A p \in Objects \ {o} : items'[p] = items[p] /\ dropped'[p] = dropped[p]
          /\ IsInjective(items'[o])
          /\ Len(items'[o]) <= s.cap
          /\ dropped' \in [Objects -> Seq(Messages)]
          /\ discarded' \subseteq discarded \cup Messages
          /\ recent' \in SUBSET Messages
          /\ accepted' = Append(accepted, m) /\ accepted' \in Seq(Messages)
          /\ cleared' \subseteq cleared
      BY <1>1, <2>1, PushItemEffect
    <3> QED
      BY <3>1 DEF QueueInv, OtherTypes
  <2>2. CASE /\ items' = [items EXCEPT ![o] = Held(o)]
             /\ dropped' = [dropped EXCEPT ![o] = HeldDrops(o)]
             /\ UNCHANGED <<discarded, recent, accepted, cleared>>
    <3>1. /\ items' \in [Objects -> Seq(Messages)] /\ dropped' \in [Objects -> Seq(Messages)]
          /\ \A p \in Objects : items'[p] = IF p = o THEN Held(o) ELSE items[p]
      BY <1>1, <2>2, HeldTypes DEF QueueInv, QueueTypes
    <3> QED
      BY <1>1, <2>2, <3>1, HeldTypes DEF QueueInv, QueueTypes, OtherTypes
  <2> QED
    BY <1>2, <2>1, <2>2
<1>5. QueueTypes'
  BY <1>1, <1>2, <1>3, <1>4 DEF QueueInv, QueueTypes
<1>6. OtherTypes'
  BY <1>2, <1>4 DEF QueueInv, OtherTypes
<1>7. BatchOfRun'
  BY <1>3 DEF QueueInv, BatchOfRun, Running, Quiet
<1>8. QueuedOnce'
  BY <1>4 DEF QueueInv, QueuedOnce
<1>9. WithinCap'
  <2> SUFFICES ASSUME NEW p \in Objects PROVE \E t \in Settings : Len(items'[p]) <= t.cap
    BY DEF WithinCap
  <2>1. PICK t \in Settings : Len(items[p]) <= t.cap
    BY DEF QueueInv, WithinCap
  <2>2. t.cap \in Nat /\ Len(items[p]) \in Nat /\ Len(items'[p]) \in Nat
    BY <1>4, SettingsTypes, LenProperties DEF QueueInv, QueueTypes
  <2>3. CASE Len(items'[p]) <= s.cap
    BY <2>3
  <2>4. CASE Len(items'[p]) <= Len(items[p])
    <3>1. Len(items'[p]) <= t.cap
      BY <2>1, <2>2, <2>4
    <3> QED
      BY <3>1
  <2>5. Len(items'[p]) <= s.cap \/ Len(items'[p]) <= Len(items[p])
    BY <1>4, <2>2
  <2> QED
    BY <2>3, <2>4, <2>5
<1> QED
  BY <1>5, <1>6, <1>7, <1>8, <1>9 DEF QueueInv

LEMMA LeftoverTypes ==
  ASSUME QueueInv, NEW o \in Objects
  PROVE  /\ Leftover(o) \in Seq(Messages)
         /\ IsInjective(Leftover(o))
         /\ Len(Leftover(o)) <= Len(items[o])
<1>1. /\ items[o] \in Seq(Messages) /\ IsInjective(items[o])
      /\ drain[o].batch \in Seq(Messages)
  BY DEF QueueInv, QueueTypes, QueuedOnce, Drains
<1> DEFINE n == Len(drain[o].batch)
<1>2. n \in Nat /\ Len(items[o]) \in Nat
  BY <1>1
<1> HIDE DEF n
<1>3. CASE n >= Len(items[o])
  BY <1>2, <1>3, EmptyQueue DEF Leftover, n
<1>4. CASE n < Len(items[o])
  <2>1. n \in 0..Len(items[o])
    BY <1>2, <1>4
  <2>2. ~(n >= Len(items[o]))
    BY <1>2, <1>4
  <2>3. Leftover(o) = SubSeq(items[o], n + 1, Len(items[o]))
    BY <2>2 DEF Leftover, n
  <2> QED
    BY <1>1, <1>2, <2>1, <2>3, Suffix, SuffixInjective
<1> QED
  BY <1>2, <1>3, <1>4

LEMMA RunSucceedsQueueInv ==
  ASSUME QueueInv, NEW o \in Objects, RunSucceeds(o)
  PROVE  QueueInv'
<1>1. /\ items' = [items EXCEPT ![o] = Leftover(o)]
      /\ dropped' = dropped \/ dropped' = [dropped EXCEPT ![o] = <<>>]
      /\ ran' \subseteq ran \cup Range(drain[o].batch)
      /\ reported' = reported \cup Range(drain[o].summary)
      /\ LoopTop(o, items', dropped')
      /\ UNCHANGED <<settings, mainRun, arriving, recent, accepted, discarded, cleared,
                      failures, clears>>
  BY DEF RunSucceeds, inboundVars, boundVars
<1>2. /\ current' \in {current, None}
      /\ drain' \in [Objects -> Drains]
      /\ \A p \in Objects : drain'[p] \in Quiet \cup {drain[p]}
  BY <1>1, LoopTopEffect DEF QueueInv
<1>3. /\ Leftover(o) \in Seq(Messages)
      /\ IsInjective(Leftover(o))
      /\ Len(Leftover(o)) <= Len(items[o])
  BY LeftoverTypes
<1>4. /\ items \in [Objects -> Seq(Messages)] /\ dropped \in [Objects -> Seq(Messages)]
      /\ drain[o].batch \in Seq(Messages) /\ drain[o].summary \in Seq(Messages)
  BY DEF QueueInv, QueueTypes, Drains
<1>5. QueueTypes'
  BY <1>1, <1>2, <1>3, <1>4, EmptyQueue DEF QueueInv, QueueTypes
<1>6. OtherTypes'
  <2>1. Range(drain[o].batch) \subseteq Messages /\ Range(drain[o].summary) \subseteq Messages
    BY <1>4, RangeIsImage
  <2> QED
    BY <1>1, <2>1 DEF QueueInv, OtherTypes
<1>7. BatchOfRun'
  BY <1>2 DEF QueueInv, BatchOfRun, Running, Quiet
<1>8. WithinCap'
  <2> SUFFICES ASSUME NEW p \in Objects PROVE \E s \in Settings : Len(items'[p]) <= s.cap
    BY DEF WithinCap
  <2>1. PICK s \in Settings : Len(items[p]) <= s.cap
    BY DEF QueueInv, WithinCap
  <2>2. Len(items[p]) \in Nat /\ Len(Leftover(o)) \in Nat /\ s.cap \in Nat
    BY <1>3, <1>4, SettingsTypes
  <2>3. Len(items'[p]) <= Len(items[p])
    BY <1>1, <1>3, <1>4, <2>2
  <2>4. Len(items'[p]) \in Nat
    BY <1>1, <1>4, <2>2
  <2> QED
    BY <2>1, <2>2, <2>3, <2>4
<1>9. QueuedOnce'
  BY <1>1, <1>3, <1>4 DEF QueueInv, QueuedOnce
<1> QED
  BY <1>5, <1>6, <1>7, <1>8, <1>9 DEF QueueInv

LEMMA ClearQueueInv ==
  ASSUME QueueInv, ClearFollowupQueue
  PROVE  QueueInv'
<1>1. /\ current \in Objects
      /\ clears < MaxClears /\ clears' = clears + 1
      /\ items' = [items EXCEPT ![current] = <<>>]
      /\ dropped' = [dropped EXCEPT ![current] = <<>>]
      /\ cleared' \subseteq cleared \cup Range(items[current] \o dropped[current])
      /\ current' = None
      /\ UNCHANGED <<settings, drain, mainRun, arriving, recent, accepted, ran, reported,
                      discarded, failures>>
  BY DEF ClearFollowupQueue, QueueInv, QueueTypes, inboundVars
<1>2. /\ items \in [Objects -> Seq(Messages)] /\ dropped \in [Objects -> Seq(Messages)]
  BY DEF QueueInv, QueueTypes
<1>3. QueueTypes'
  BY <1>1, <1>2, EmptyQueue DEF QueueInv, QueueTypes
<1>4. OtherTypes'
  <2>1. items[current] \o dropped[current] \in Seq(Messages)
    BY <1>1, <1>2, ConcatProperties
  <2>2. Range(items[current] \o dropped[current]) \subseteq Messages
    BY <2>1, RangeIsImage
  <2>3. clears' \in 0..MaxClears
    BY <1>1, ConstantTypes DEF QueueInv, OtherTypes
  <2> QED
    BY <1>1, <2>2, <2>3 DEF QueueInv, OtherTypes
<1>5. BatchOfRun'
  BY <1>1 DEF QueueInv, BatchOfRun, Running
<1>6. WithinCap'
  <2>1. PICK s \in Settings : TRUE
    BY ConstantTypes
  <2>2. Len(<<>>) <= s.cap
    BY EmptyQueue, SettingsTypes
  <2> QED
    BY <1>1, <1>2, <2>2 DEF QueueInv, WithinCap
<1>7. QueuedOnce'
  BY <1>1, <1>2, EmptyQueue DEF QueueInv, QueuedOnce
<1> QED
  BY <1>3, <1>4, <1>5, <1>6, <1>7 DEF QueueInv

LEMMA NextQueueInv == QueueInv /\ [Next]_vars => QueueInv'
<1> SUFFICES ASSUME QueueInv, [Next]_vars PROVE QueueInv'
  OBVIOUS
<1> USE DEF queueVars, inboundVars, historyVars, boundVars
<1>1. CASE StartMainRun \/ UNCHANGED vars
  <2>1. UNCHANGED <<queueVars, drain, arriving, recent, historyVars, boundVars>> /\ mainRun' \in BOOLEAN
    BY <1>1 DEF StartMainRun, vars, QueueInv, OtherTypes
  <2>2. DrainLoopsStep /\ OtherTypes'
    BY <2>1 DEF QueueInv, QueueTypes, DrainLoopsStep, OtherTypes
  <2> QED
    BY <2>1, <2>2, DrainOnly
<1>2. CASE EndMainRun
  <2>1. /\ current' \in {current, None}
        /\ drain' \in [Objects -> Drains]
        /\ \A p \in Objects : drain'[p] \in Quiet \cup {drain[p]}
    BY <1>2, ScheduleEffect DEF EndMainRun, QueueInv, QueueTypes
  <2>2. DrainLoopsStep
    BY <2>1 DEF DrainLoopsStep
  <2>3. OtherTypes'
    BY <1>2 DEF EndMainRun, QueueInv, OtherTypes
  <2> QED
    BY <1>2, <2>2, <2>3, DrainOnly DEF EndMainRun
<1>3. ASSUME NEW m \in Messages, Arrive(m) \/ ForgetRecent(m) PROVE QueueInv'
  <2>1. /\ UNCHANGED <<queueVars, drain, mainRun, historyVars, boundVars>>
        /\ arriving' \in SUBSET Messages /\ recent' \in SUBSET Messages
    BY <1>3 DEF Arrive, ForgetRecent, QueueInv, QueueTypes
  <2> QED
    BY <2>1 DEF QueueInv, QueueTypes, OtherTypes, BatchOfRun, Running, WithinCap, QueuedOnce
<1>4. ASSUME NEW m \in Messages, NEW s \in Settings, EnqueueFollowupRun(m, s) PROVE QueueInv'
  BY <1>4, EnqueueQueueInv
<1>5. ASSUME NEW o \in Objects, DebounceOver(o) PROVE QueueInv'
  <2>1. OtherTypes'
    BY <1>5 DEF DebounceOver, QueueInv, OtherTypes
  <2> QED
    BY <1>5, <2>1, DebounceOverEffect, DrainOnly DEF DebounceOver
<1>6. ASSUME NEW o \in Objects, StartBatch(o) PROVE QueueInv'
  <2>1. OtherTypes'
    BY <1>6 DEF StartBatch, QueueInv, OtherTypes
  <2> QED
    BY <1>6, <2>1, StartBatchEffect, DrainOnly DEF StartBatch
<1>7. ASSUME NEW o \in Objects, RunSucceeds(o) PROVE QueueInv'
  BY <1>7, RunSucceedsQueueInv
<1>8. ASSUME NEW o \in Objects, RunFails(o) PROVE QueueInv'
  <2>1. failures' \in 0..MaxFailures
    BY <1>8, ConstantTypes DEF RunFails, QueueInv, OtherTypes
  <2>2. OtherTypes'
    BY <1>8, <2>1 DEF RunFails, QueueInv, OtherTypes
  <2>3. DrainLoopsStep
    BY <1>8, FinishEffect DEF RunFails, QueueInv, DrainLoopsStep
  <2> QED
    BY <1>8, <2>2, <2>3, DrainOnly DEF RunFails
<1>9. CASE ClearFollowupQueue
  BY <1>9, ClearQueueInv
<1> QED
  BY <1>1, <1>2, <1>3, <1>4, <1>5, <1>6, <1>7, <1>8, <1>9 DEF Next

LEMMA QueueInvariance == Spec => []QueueInv
<1>1. Init => QueueInv
  BY InitQueueInv
<1>2. QueueInv /\ [Next]_vars => QueueInv'
  BY NextQueueInv
<1> QED
  BY <1>1, <1>2, PTL DEF Spec

\* Every variable keeps its type, and no queue outgrows the cap of the settings
\* it was last used with, whatever modes, clears and failures there are.
THEOREM TypeCorrect == Spec => []FollowupTypeOK
<1>1. QueueInv => FollowupTypeOK
  <2> SUFFICES ASSUME QueueInv PROVE FollowupTypeOK
    OBVIOUS
  <2>1. ASSUME NEW o \in Objects
        PROVE  /\ Range(items[o]) \cup Range(dropped[o]) \cup Range(drain[o].batch) \subseteq Messages
               /\ \E s \in Settings : Len(items[o]) <= s.cap
               /\ drain[o].phase \in Phases
               /\ ~Running(o) => drain[o].batch = <<>> /\ drain[o].summary = <<>>
    <3>1. /\ items[o] \in Seq(Messages) /\ dropped[o] \in Seq(Messages)
          /\ drain[o].batch \in Seq(Messages) /\ drain[o].phase \in Phases
      BY DEF QueueInv, QueueTypes, Drains
    <3> QED
      BY <3>1, RangeIsImage DEF QueueInv, BatchOfRun, Quiet, WithinCap
  <2> QED
    BY <2>1 DEF FollowupTypeOK, QueueInv, QueueTypes, OtherTypes
<1> QED
  BY <1>1, QueueInvariance, PTL

\* No queue object (items of a FollowupQueueState, state.ts:48) holds two copies
\* of a message, whatever modes, overflow policies, clears and failures there are.
THEOREM NeverQueuedTwice == Spec => []QueuedOnce
<1>1. QueueInv => QueuedOnce
  BY DEF QueueInv
<1> QED
  BY <1>1, QueueInvariance, PTL

-----------------------------------------------------------------------------
(***************************************************************************)
(* Order and safety of the messages, when a full queue rejects.            *)
(*                                                                         *)
(* The messages enqueued so far are those that were run, followed by those *)
(* that wait in the one object in use: a drain takes from the front, an    *)
(* enqueue adds at the end, and nothing else touches a queue.              *)
(***************************************************************************)
RejectsWhenFull == \A s \in Settings : s.drop = "new"
NeverCleared == MaxClears = 0

Waits == IF current = None THEN <<>> ELSE items[current]
Done == Len(accepted) - Len(Waits)

OneObject == \A o \in Objects : o # current => items[o] = <<>> /\ drain[o].phase = "none"

NothingDropped ==
  \A o \in Objects : dropped[o] = <<>> /\ drain[o].summary = <<>> /\ drain[o].kind # "summary"

\* A run's batch is still at the front of its queue: nothing is dropped there.
BatchIsFront ==
  \A o \in Objects : Running(o) =>
    /\ Len(drain[o].batch) <= Len(items[o])
    /\ \A i \in 1..Len(drain[o].batch) : drain[o].batch[i] = items[o][i]

WaitsIsTail == Done >= 0 /\ \A i \in 1..Len(Waits) : Waits[i] = accepted[Done + i]

RanIsFront == ran = {accepted[i] : i \in 1..Done}

OrderInv ==
  /\ QueueInv
  /\ OneObject
  /\ NothingDropped
  /\ BatchIsFront
  /\ WaitsIsTail
  /\ RanIsFront

LEMMA InitOrderInv == Init => OrderInv
<1> SUFFICES ASSUME Init PROVE OrderInv
  OBVIOUS
<1>1. Waits = <<>> /\ Done = 0
  BY EmptyQueue DEF Init, Waits, Done
<1>2. WaitsIsTail /\ RanIsFront
  BY <1>1, EmptyQueue DEF Init, WaitsIsTail, RanIsFront
<1>3. \A o \in Objects : drain[o] = NoDrain /\ items[o] = <<>> /\ dropped[o] = <<>>
  BY DEF Init
<1>4. NoDrain.phase = "none" /\ NoDrain.summary = <<>> /\ NoDrain.kind = "none"
  BY DrainTypes DEF Quiet
<1> QED
  BY <1>2, <1>3, <1>4, InitQueueInv
  DEF OrderInv, OneObject, NothingDropped, BatchIsFront, Running

\* The object in use, o, goes on without a run, or is given up when it is empty.
GoesOn(o, its) ==
  /\ current' \in {o, None}
  /\ current' = None => its[o] = <<>> /\ drain'[o].phase = "none"
  /\ \A p \in Objects \ {o} : drain'[p] = drain[p]
  /\ drain'[o] \in Quiet

LEMMA FinishGoesOn ==
  ASSUME OrderInv, NEW o \in Objects, current = o, NEW its, NEW drops, drops[o] = <<>>,
         FinishDrain(o, its, drops)
  PROVE  GoesOn(o, its)
<1> DEFINE dr == [drain EXCEPT ![o] = NoDrain]
<1>1. /\ drain \in [Objects -> Drains] /\ dr \in [Objects -> Drains]
      /\ \A p \in Objects \ {o} : dr[p] = drain[p]
      /\ dr[o] = NoDrain /\ NoDrain.phase = "none" /\ NoDrain \in Quiet /\ NewDrain \in Quiet
  BY DrainTypes DEF OrderInv, QueueInv, QueueTypes, Quiet
<1>2. o # None
  BY ConstantTypes
<1>3. CASE its[o] = <<>>
  <2>1. current' = None /\ drain' = dr
    BY <1>3 DEF FinishDrain, IsEmptyQueue
  <2> HIDE DEF dr
  <2> QED
    BY <1>1, <1>3, <2>1 DEF GoesOn
<1>4. CASE its[o] # <<>>
  <2>1. ScheduleDrain(o, its, drops, dr)
    BY <1>4 DEF FinishDrain, IsEmptyQueue
  <2> HIDE DEF dr
  <2>2. current' = o /\ drain' = [dr EXCEPT ![o] = NewDrain]
    BY <1>1, <1>2, <1>4, <2>1 DEF ScheduleDrain, IsEmptyQueue
  <2> QED
    BY <1>1, <1>2, <2>2 DEF GoesOn
<1> QED
  BY <1>3, <1>4

LEMMA LoopTopGoesOn ==
  ASSUME OrderInv, NEW o \in Objects, current = o, NEW its, NEW drops, drops[o] = <<>>,
         LoopTop(o, its, drops)
  PROVE  GoesOn(o, its)
<1>1. CASE FinishDrain(o, its, drops)
  BY <1>1, FinishGoesOn
<1>2. CASE /\ current' = current
           /\ drain' = [drain EXCEPT ![o] = [NewDrain EXCEPT !.forced = drain[o].forced]]
  <2> DEFINE d == [NewDrain EXCEPT !.forced = drain[o].forced]
  <2>1. drain[o].forced \in BOOLEAN /\ drain \in [Objects -> Drains]
    BY DEF OrderInv, QueueInv, QueueTypes, Drains
  <2>2. d \in Quiet
    BY <2>1, DrainTypes
  <2> HIDE DEF d
  <2>3. drain' = [drain EXCEPT ![o] = d] /\ current' = o /\ o # None
    BY <1>2, ConstantTypes DEF d
  <2> QED
    BY <2>1, <2>2, <2>3 DEF GoesOn
<1> QED
  BY <1>1, <1>2 DEF LoopTop

LEMMA ScheduleGoesOn ==
  ASSUME OrderInv, NEW o \in Objects, \A p \in Objects \ {o} : drain[p].phase = "none",
         ~Running(o), NEW its, NEW drops, drops[o] = <<>>, ScheduleDrain(o, its, drops, drain)
  PROVE  GoesOn(o, its)
<1>1. o # None /\ drain \in [Objects -> Drains] /\ drain[o] \in Quiet /\ NewDrain \in Quiet
  BY ConstantTypes, DrainTypes DEF OrderInv, QueueInv, QueueTypes, BatchOfRun
<1>2. CASE drain[o].phase # "none"
  BY <1>1, <1>2 DEF ScheduleDrain, GoesOn
<1>3. CASE drain[o].phase = "none" /\ its[o] = <<>>
  BY <1>1, <1>3 DEF ScheduleDrain, IsEmptyQueue, GoesOn
<1>4. CASE drain[o].phase = "none" /\ its[o] # <<>>
  BY <1>1, <1>4 DEF ScheduleDrain, IsEmptyQueue, GoesOn
<1> QED
  BY <1>2, <1>3, <1>4

\* The object in use starts a run of a batch from its front.
StartsRun(o) ==
  /\ current' = current
  /\ \A p \in Objects \ {o} : drain'[p] = drain[p]
  /\ Running(o)'
  /\ Len(drain'[o].batch) <= Len(items[o])
  /\ \A i \in 1..Len(drain'[o].batch) : drain'[o].batch[i] = items[o][i]
  /\ drain'[o].summary = <<>> /\ drain'[o].kind # "summary"

\* A step of the drain loop of the object in use that changes no queue.
LEMMA LoopStepKeepsOrder ==
  ASSUME OrderInv, QueueInv', NEW o \in Objects, current = o,
         GoesOn(o, items) \/ StartsRun(o),
         UNCHANGED <<items, dropped, accepted, ran>>
  PROVE  OrderInv'
<1>1. o # None /\ Quiet \subseteq Drains
  BY ConstantTypes DEF Quiet
<1>2. current' = None => items[o] = <<>> /\ drain'[o].phase = "none"
  BY <1>1 DEF GoesOn, StartsRun
<1>3. current' \in {o, None} /\ \A p \in Objects \ {o} : drain'[p] = drain[p]
  BY DEF GoesOn, StartsRun
<1>4. Waits' = Waits /\ Done' = Done
  BY <1>1, <1>2, <1>3 DEF Waits, Done
<1>5. OneObject'
  BY <1>1, <1>2, <1>3 DEF OrderInv, OneObject
<1>6. NothingDropped'
  BY <1>3 DEF OrderInv, NothingDropped, GoesOn, StartsRun, Quiet
<1>7. BatchIsFront'
  BY <1>3 DEF OrderInv, BatchIsFront, Running, GoesOn, StartsRun, Quiet
<1>8. WaitsIsTail' /\ RanIsFront'
  BY <1>4 DEF OrderInv, WaitsIsTail, RanIsFront
<1> QED
  BY <1>5, <1>6, <1>7, <1>8 DEF OrderInv

LEMMA SameKeepsOrder ==
  ASSUME OrderInv, QueueInv', UNCHANGED <<current, items, dropped, drain, accepted, ran>>
  PROVE  OrderInv'
BY DEF OrderInv, OneObject, NothingDropped, BatchIsFront, Running, WaitsIsTail, RanIsFront,
       Waits, Done

\* The object that a message is queued in is the one in use, or an empty one.
LEMMA TargetHolds ==
  ASSUME OrderInv, NEW m, NEW s, EnqueueFollowupRun(m, s), NEW o, o = Target
  PROVE  /\ o \in Objects
         /\ current \in {o, None}
         /\ Held(o) = items[o] /\ Waits = items[o]
         /\ \A p \in Objects \ {o} : items[p] = <<>> /\ drain[p].phase = "none"
<1>1. o \in Objects /\ current \in {o, None}
  BY DEF EnqueueFollowupRun, Target, Unused, OrderInv, QueueInv, QueueTypes
<1>2. o # None
  BY <1>1, ConstantTypes
<1>3. current = None => items[o] = <<>>
  BY <1>1, <1>2 DEF OrderInv, OneObject
<1>4. \A p \in Objects \ {o} : p # current
  BY <1>1, ConstantTypes
<1> QED
  BY <1>1, <1>2, <1>3, <1>4 DEF OrderInv, OneObject, Held, Waits

\* What an enqueue does to the contents when a full queue rejects: the message
\* is added at the end, or nothing happens.
LEMMA EnqueueAppends ==
  ASSUME RejectsWhenFull, OrderInv, NEW m \in Messages, NEW s \in Settings,
         EnqueueFollowupRun(m, s), NEW o, o = Target
  PROVE  /\ \/ /\ items' = [items EXCEPT ![o] = Append(items[o], m)]
               /\ accepted' = Append(accepted, m)
            \/ items' = items /\ accepted' = accepted
         /\ \A p \in Objects : dropped'[p] = <<>>
<1>1. /\ o \in Objects /\ current \in {o, None} /\ Held(o) = items[o]
  BY TargetHolds
<1>2. /\ items \in [Objects -> Seq(Messages)] /\ dropped \in [Objects -> Seq(Messages)]
      /\ \A p \in Objects : dropped[p] = <<>>
      /\ HeldDrops(o) = <<>>
  BY <1>1 DEF OrderInv, QueueInv, QueueTypes, NothingDropped, HeldDrops
<1>3. s.drop = "new"
  BY DEF RejectsWhenFull
<1>4. CASE /\ items' = [items EXCEPT ![o] = Held(o)]
           /\ dropped' = [dropped EXCEPT ![o] = HeldDrops(o)]
           /\ accepted' = accepted
  <2>1. items' = items
    BY <1>1, <1>2, <1>4
  <2> QED
    BY <1>1, <1>2, <1>4, <2>1
<1>5. CASE ~AtCap(o, s) /\ PushItem(m, o, s)
  <2> DEFINE over == IF AtCap(o, s) THEN SubSeq(Held(o), 1, Len(Held(o)) - s.cap + 1) ELSE <<>>
             kept == SubSeq(Held(o), Len(over) + 1, Len(Held(o)))
  <2>1. over = <<>> /\ Len(over) = 0
    BY <1>5, EmptyQueue
  <2>2. kept = items[o]
    <3>1. items[o] \in Seq(Messages) /\ Len(items[o]) \in Nat
      BY <1>1, <1>2
    <3>2. /\ kept \in Seq(Messages) /\ Len(kept) = Len(items[o])
          /\ \A i \in 1..Len(items[o]) : kept[i] = items[o][i]
      <4>1. 0 \in 0..Len(items[o])
        BY <3>1
      <4>2. kept = SubSeq(items[o], 0 + 1, Len(items[o]))
        BY <1>1, <2>1
      <4> HIDE DEF kept
      <4> QED
        BY <3>1, <4>1, <4>2, Suffix
    <3> HIDE DEF kept
    <3> QED
      BY <3>1, <3>2, SeqEqual
  <2>3. /\ items' = [items EXCEPT ![o] = Append(kept, m)]
        /\ accepted' = Append(accepted, m)
        /\ dropped' = [dropped EXCEPT ![o] = HeldDrops(o)
                          \o (IF s.drop = "summarize" THEN over ELSE <<>>)]
    BY <1>5 DEF PushItem
  <2>4. dropped' = [dropped EXCEPT ![o] = <<>> \o <<>>]
    BY <1>1, <1>2, <1>3, <2>3
  <2>5. <<>> \o <<>> = <<>>
    OBVIOUS
  <2> HIDE DEF kept, over
  <2> QED
    BY <1>1, <1>2, <2>2, <2>3, <2>4, <2>5
<1> QED
  BY <1>3, <1>4, <1>5 DEF EnqueueFollowupRun

LEMMA EnqueueKeepsOrder ==
  ASSUME RejectsWhenFull, OrderInv, QueueInv', NEW m \in Messages, NEW s \in Settings,
         EnqueueFollowupRun(m, s)
  PROVE  OrderInv'
<1> DEFINE o == Target
<1>1. /\ o \in Objects /\ current \in {o, None}
      /\ Waits = items[o]
      /\ \A p \in Objects \ {o} : items[p] = <<>> /\ drain[p].phase = "none"
  BY TargetHolds
<1>2. /\ \/ /\ items' = [items EXCEPT ![o] = Append(items[o], m)]
            /\ accepted' = Append(accepted, m)
         \/ items' = items /\ accepted' = accepted
      /\ \A p \in Objects : dropped'[p] = <<>>
  BY EnqueueAppends
<1>3. /\ items \in [Objects -> Seq(Messages)] /\ accepted \in Seq(Messages)
      /\ drain \in [Objects -> Drains] /\ Quiet \subseteq Drains
  BY DEF OrderInv, QueueInv, QueueTypes, Quiet
<1>4. o # None
  BY <1>1, ConstantTypes
<1>5. \/ current' = o /\ drain' = drain
      \/ ScheduleDrain(o, items', dropped', drain)
  BY DEF EnqueueFollowupRun
<1>6. ran' = ran
  BY DEF EnqueueFollowupRun
<1> HIDE DEF o
<1>7. \/ current' = o /\ drain' = drain
      \/ ~Running(o) /\ GoesOn(o, items')
  <2>1. CASE drain[o].phase # "none" /\ ScheduleDrain(o, items', dropped', drain)
    BY <2>1 DEF ScheduleDrain
  <2>2. CASE drain[o].phase = "none" /\ ScheduleDrain(o, items', dropped', drain)
    BY <1>1, <1>2, <2>2, ScheduleGoesOn DEF Running
  <2> QED
    BY <1>5, <2>1, <2>2
<1>8. /\ \A p \in Objects \ {o} : items'[p] = <<>> /\ drain'[p] = drain[p]
      /\ current' \in {o, None}
      /\ current' = None => items'[o] = <<>> /\ drain'[o].phase = "none"
  BY <1>1, <1>2, <1>3, <1>4, <1>7 DEF GoesOn
<1>9. Waits' = items'[o]
  BY <1>4, <1>8 DEF Waits
<1>10. /\ Len(items[o]) \in Nat /\ Len(accepted) \in Nat /\ Done \in Nat
       /\ Done + Len(items[o]) = Len(accepted)
       /\ \A i \in 1..Len(items[o]) : items[o][i] = accepted[Done + i]
       /\ ran = {accepted[i] : i \in 1..Done}
  BY <1>1, <1>3 DEF OrderInv, WaitsIsTail, RanIsFront, Done
<1>11. OneObject'
  BY <1>1, <1>4, <1>8 DEF OneObject
<1>12. NothingDropped'
  BY <1>2, <1>7, <1>8 DEF OrderInv, NothingDropped, GoesOn, Quiet
<1>13. /\ Len(items'[o]) >= Len(items[o])
       /\ \A i \in 1..Len(items[o]) : items'[o][i] = items[o][i]
  BY <1>1, <1>2, <1>3, <1>10, AppendProperties
<1>14. BatchIsFront'
  <2> SUFFICES ASSUME NEW p \in Objects, Running(p)'
               PROVE  /\ Len(drain'[p].batch) <= Len(items'[p])
                      /\ \A i \in 1..Len(drain'[p].batch) : drain'[p].batch[i] = items'[p][i]
    BY DEF BatchIsFront
  <2>1. p = o /\ drain' = drain
    BY <1>1, <1>7, <1>8 DEF Running, GoesOn, Quiet
  <2>2. /\ Len(drain[o].batch) <= Len(items[o])
        /\ \A i \in 1..Len(drain[o].batch) : drain[o].batch[i] = items[o][i]
    BY <2>1 DEF OrderInv, BatchIsFront, Running
  <2>3. Len(drain[o].batch) \in Nat /\ Len(items'[o]) \in Nat
    BY <1>1, <1>2, <1>3, AppendProperties DEF Drains
  <2>4. \A i \in 1..Len(drain[o].batch) : i \in 1..Len(items[o])
    BY <1>10, <2>2, <2>3
  <2> QED
    BY <1>10, <1>13, <2>1, <2>2, <2>3, <2>4
<1>15. WaitsIsTail' /\ RanIsFront'
  <2>1. CASE items' = items /\ accepted' = accepted
    <3>1. Done' = Done
      BY <1>1, <1>9, <2>1 DEF Done
    <3> QED
      BY <1>6, <1>9, <1>10, <2>1, <3>1 DEF WaitsIsTail, RanIsFront
  <2>2. CASE /\ items' = [items EXCEPT ![o] = Append(items[o], m)]
             /\ accepted' = Append(accepted, m)
    <3> DEFINE n == Len(items[o])
               k == Len(accepted)
               d == Done
    <3>1. /\ items'[o] = Append(items[o], m)
          /\ Len(items'[o]) = n + 1 /\ items'[o][n + 1] = m
          /\ Len(accepted') = k + 1 /\ accepted'[k + 1] = m
          /\ \A i \in 1..k : accepted'[i] = accepted[i]
          /\ \A i \in 1..n : items'[o][i] = items[o][i]
      BY <1>1, <1>3, <2>2, AppendProperties
    <3>2. n \in Nat /\ k \in Nat /\ d \in Nat /\ d + n = k
      BY <1>10
    <3>3. Done' = Len(accepted') - Len(items'[o])
      BY <1>9 DEF Done
    <3>4. \A i \in 1..n : items[o][i] = accepted[d + i]
      BY <1>10
    <3>5. ran' = {accepted[i] : i \in 1..d}
      BY <1>6, <1>10
    <3> HIDE DEF n, k, d
    <3>6. Done' = d
      BY <3>1, <3>2, <3>3
    <3>7. ASSUME NEW i \in 1..n + 1 PROVE items'[o][i] = accepted'[d + i]
      <4>1. CASE i = n + 1
        BY <3>1, <3>2, <4>1
      <4>2. CASE i # n + 1
        <5>1. i \in 1..n /\ d + i \in 1..k
          BY <3>2, <4>2
        <5> QED
          BY <3>1, <3>4, <5>1
      <4> QED
        BY <4>1, <4>2
    <3>8. WaitsIsTail'
      BY <1>9, <3>1, <3>2, <3>6, <3>7 DEF WaitsIsTail
    <3>9. \A i \in 1..d : accepted'[i] = accepted[i]
      BY <3>1, <3>2
    <3>10. RanIsFront'
      BY <3>5, <3>6, <3>9 DEF RanIsFront
    <3> QED
      BY <3>8, <3>10
  <2> QED
    BY <1>2, <2>1, <2>2
<1> QED
  BY <1>11, <1>12, <1>14, <1>15 DEF OrderInv

LEMMA ActiveObject ==
  ASSUME OrderInv, NEW o \in Objects, drain[o].phase # "none"
  PROVE  /\ current = o /\ dropped[o] = <<>> /\ SummaryOf(o) = <<>>
         /\ items[o] \in Seq(Messages)
BY DEF OrderInv, OneObject, NothingDropped, SummaryOf, QueueInv, QueueTypes

LEMMA StartRunKeepsOrder ==
  ASSUME OrderInv, NEW o \in Objects, NEW kind \in {"item", "collect"},
         NEW batch \in Seq(Messages), NEW forced \in BOOLEAN,
         StartRun(o, kind, batch, <<>>, forced),
         Len(batch) <= Len(items[o]),
         \A i \in 1..Len(batch) : batch[i] = items[o][i]
  PROVE  StartsRun(o)
<1> DEFINE summary == <<>>
<1>1. summary \in Seq(Messages) /\ StartRun(o, kind, batch, summary, forced)
  BY EmptyQueue
<1> HIDE DEF summary
<1>2. kind \in {"item", "summary", "collect"} /\ QueueTypes
  BY DEF OrderInv, QueueInv
<1>3. /\ current' = current
      /\ \A p \in Objects \ {o} : drain'[p] = drain[p]
      /\ Running(o)' /\ drain'[o].batch = batch /\ drain'[o].summary = summary
      /\ drain'[o].kind = kind
  BY <1>1, <1>2, StartRunEffect
<1> QED
  BY <1>3 DEF StartsRun, summary

LEMMA StartItemKeepsOrder ==
  ASSUME OrderInv, NEW o \in Objects, drain[o].phase # "none", NEW forced \in BOOLEAN,
         StartItem(o, "item", <<>>, forced)
  PROVE  GoesOn(o, items) \/ StartsRun(o)
<1>1. current = o /\ dropped[o] = <<>> /\ items[o] \in Seq(Messages)
  BY ActiveObject
<1>2. CASE FinishDrain(o, items, dropped)
  BY <1>1, <1>2, FinishGoesOn
<1>3. CASE items[o] # <<>> /\ StartRun(o, "item", <<Head(items[o])>>, <<>>, forced)
  <2> DEFINE batch == <<Head(items[o])>>
  <2>1. /\ batch \in Seq(Messages) /\ Len(batch) = 1 /\ Len(items[o]) >= 1
        /\ batch[1] = items[o][1]
    BY <1>1, <1>3
  <2>2. StartRun(o, "item", batch, <<>>, forced)
    BY <1>3
  <2> HIDE DEF batch
  <2>3. /\ Len(batch) <= Len(items[o])
        /\ \A i \in 1..Len(batch) : batch[i] = items[o][i]
    BY <1>1, <2>1
  <2> QED
    BY <2>1, <2>2, <2>3, StartRunKeepsOrder
<1> QED
  BY <1>2, <1>3 DEF StartItem

LEMMA DebounceOverKeepsOrder ==
  ASSUME OrderInv, QueueInv', NEW o \in Objects, DebounceOver(o)
  PROVE  OrderInv'
<1>1. /\ drain[o].phase = "debounce"
      /\ UNCHANGED <<items, dropped, accepted, ran>>
  BY DEF DebounceOver, historyVars
<1>2. current = o /\ SummaryOf(o) = <<>>
  BY <1>1, ActiveObject
<1>3. CASE StartItem(o, "item", <<>>, TRUE) \/ StartItem(o, "item", <<>>, FALSE)
  BY <1>1, <1>2, <1>3, StartItemKeepsOrder, LoopStepKeepsOrder
<1>4. CASE drain' = [drain EXCEPT ![o].phase = "batching"] /\ current' = current
  <2>1. /\ drain \in [Objects -> Drains] /\ drain[o] \in Quiet
        /\ o # None
    BY <1>1, ConstantTypes DEF OrderInv, QueueInv, QueueTypes, BatchOfRun, Running
  <2>2. [drain[o] EXCEPT !.phase = "batching"] \in Quiet
    BY <2>1 DEF Quiet, Drains, Phases
  <2>3. GoesOn(o, items)
    BY <1>2, <1>4, <2>1, <2>2 DEF GoesOn
  <2> QED
    BY <1>1, <1>2, <2>3, LoopStepKeepsOrder
<1> QED
  BY <1>2, <1>3, <1>4 DEF DebounceOver

LEMMA StartBatchKeepsOrder ==
  ASSUME OrderInv, QueueInv', NEW o \in Objects, StartBatch(o)
  PROVE  OrderInv'
<1>1. /\ drain[o].phase = "batching"
      /\ UNCHANGED <<items, dropped, accepted, ran>>
  BY DEF StartBatch, historyVars
<1>2. current = o /\ SummaryOf(o) = <<>> /\ dropped[o] = <<>> /\ items[o] \in Seq(Messages)
  BY <1>1, ActiveObject
<1>3. CASE FinishDrain(o, items, dropped)
  BY <1>1, <1>2, <1>3, FinishGoesOn, LoopStepKeepsOrder
<1>4. CASE StartRun(o, "collect", items[o], SummaryOf(o), FALSE)
  <2> DEFINE batch == items[o]
  <2>1. batch \in Seq(Messages) /\ batch = items[o]
    BY <1>2
  <2>2. StartRun(o, "collect", batch, <<>>, FALSE)
    BY <1>2, <1>4 DEF StartRun
  <2> HIDE DEF batch
  <2>3. /\ Len(batch) <= Len(items[o])
        /\ \A i \in 1..Len(batch) : batch[i] = items[o][i]
    BY <2>1
  <2>4. StartsRun(o)
    BY <2>1, <2>2, <2>3, StartRunKeepsOrder
  <2> QED
    BY <1>1, <1>2, <2>4, LoopStepKeepsOrder
<1> QED
  BY <1>3, <1>4 DEF StartBatch

\* A run takes its batch from the front of the messages that wait.
LEMMA RunSucceedsKeepsOrder ==
  ASSUME OrderInv, QueueInv', NEW o \in Objects, RunSucceeds(o)
  PROVE  OrderInv'
<1> DEFINE q == items[o]
           b == drain[o].batch
           n == Len(b)
           k == Len(q)
           d == Done
<1>1. /\ Running(o)
      /\ current = o /\ o # None /\ q \in Seq(Messages) /\ b \in Seq(Messages)
  BY ActiveObject, ConstantTypes DEF RunSucceeds, Running, OrderInv, QueueInv, QueueTypes, Drains
<1>2. /\ items' = [items EXCEPT ![o] = Leftover(o)]
      /\ dropped' = dropped
      /\ ran' = ran \cup Range(b)
      /\ LoopTop(o, items', dropped')
      /\ accepted' = accepted
  BY DEF RunSucceeds, OrderInv, NothingDropped
<1>3. /\ n \in Nat /\ k \in Nat /\ n <= k
      /\ \A i \in 1..n : b[i] = q[i]
  BY <1>1 DEF OrderInv, BatchIsFront
<1>4. /\ Waits = q /\ d \in Nat /\ d + k = Len(accepted)
      /\ \A i \in 1..k : q[i] = accepted[d + i]
      /\ ran = {accepted[i] : i \in 1..d}
      /\ accepted \in Seq(Messages) /\ Len(accepted) \in Nat
  BY <1>1 DEF OrderInv, WaitsIsTail, RanIsFront, Done, Waits, QueueInv, QueueTypes
<1>5. /\ items \in [Objects -> Seq(Messages)] /\ drain \in [Objects -> Drains]
      /\ Quiet \subseteq Drains
  BY DEF OrderInv, QueueInv, QueueTypes, Quiet
<1>6. /\ Len(Leftover(o)) = k - n
      /\ \A i \in 1..k - n : Leftover(o)[i] = q[n + i]
  <2>1. CASE n >= k
    BY <1>3, <2>1, EmptyQueue DEF Leftover
  <2>2. CASE ~(n >= k)
    <3>1. n \in 0..Len(q)
      BY <1>3
    <3>2. Leftover(o) = SubSeq(q, n + 1, Len(q))
      BY <2>2 DEF Leftover
    <3> HIDE DEF n, q
    <3> QED
      BY <1>1, <3>1, <3>2, Suffix
  <2> QED
    BY <2>1, <2>2
<1>7. GoesOn(o, items')
  BY <1>1, <1>2, LoopTopGoesOn DEF OrderInv, NothingDropped
<1>8. /\ items'[o] = Leftover(o)
      /\ \A p \in Objects \ {o} : items'[p] = items[p] /\ drain'[p] = drain[p]
      /\ current' \in {o, None}
      /\ current' = None => items'[o] = <<>> /\ drain'[o].phase = "none"
      /\ drain'[o] \in Quiet
  BY <1>2, <1>5, <1>7 DEF GoesOn
<1>9. OneObject'
  BY <1>1, <1>8 DEF OrderInv, OneObject
<1>10. NothingDropped'
  BY <1>2, <1>8 DEF OrderInv, NothingDropped, Quiet
<1>11. BatchIsFront'
  BY <1>8 DEF OrderInv, BatchIsFront, Running, Quiet
<1>12. Waits' = Leftover(o)
  BY <1>1, <1>8 DEF Waits
<1>13. Range(b) = {b[i] : i \in 1..n}
  BY <1>1, RangeIsImage
<1>14. Done' = Len(accepted) - Len(Leftover(o))
  BY <1>2, <1>12 DEF Done
<1> HIDE DEF q, b, n, k, d
<1>15. Done' = d + n
  BY <1>3, <1>4, <1>6, <1>14
<1>16. WaitsIsTail'
  <2>1. \A i \in 1..k - n : Leftover(o)[i] = accepted[d + n + i]
    <3>1. ASSUME NEW i \in 1..k - n PROVE Leftover(o)[i] = accepted[d + n + i]
      <4>1. n + i \in 1..k /\ d + (n + i) = d + n + i
        BY <1>3, <1>4
      <4>2. Leftover(o)[i] = q[n + i]
        BY <1>6
      <4>3. q[n + i] = accepted[d + (n + i)]
        BY <1>4, <4>1
      <4> QED
        BY <4>1, <4>2, <4>3
    <3> QED
      BY <3>1
  <2> QED
    BY <1>2, <1>3, <1>4, <1>6, <1>12, <1>15, <2>1 DEF WaitsIsTail
<1>17. RanIsFront'
  <2>1. \A i \in 1..n : b[i] = accepted[d + i]
    BY <1>3, <1>4
  <2>2. {accepted[i] : i \in 1..d + n} = {accepted[i] : i \in 1..d} \cup {b[i] : i \in 1..n}
    <3>1. ASSUME NEW i \in 1..d + n
          PROVE  accepted[i] \in {accepted[j] : j \in 1..d} \cup {b[j] : j \in 1..n}
      <4>1. CASE i \in 1..d
        BY <4>1
      <4>2. CASE i \notin 1..d
        <5>1. i - d \in 1..n /\ d + (i - d) = i
          BY <1>3, <1>4, <4>2
        <5> QED
          BY <2>1, <5>1
      <4> QED
        BY <4>1, <4>2
    <3>2. ASSUME NEW i \in 1..n PROVE d + i \in 1..d + n
      BY <1>3, <1>4
    <3>3. ASSUME NEW i \in 1..d PROVE i \in 1..d + n
      BY <1>3, <1>4
    <3> QED
      BY <2>1, <3>1, <3>2, <3>3
  <2> QED
    BY <1>2, <1>4, <1>13, <1>15, <2>2 DEF RanIsFront
<1> QED
  BY <1>9, <1>10, <1>11, <1>16, <1>17 DEF OrderInv

LEMMA NextOrderInv ==
  ASSUME RejectsWhenFull, NeverCleared
  PROVE  OrderInv /\ [Next]_vars => OrderInv'
<1> SUFFICES ASSUME OrderInv, [Next]_vars PROVE OrderInv'
  OBVIOUS
<1>0. QueueInv'
  BY NextQueueInv DEF OrderInv
<1>1. CASE StartMainRun \/ (\E m \in Messages : Arrive(m) \/ ForgetRecent(m)) \/ UNCHANGED vars
  <2>1. UNCHANGED <<current, items, dropped, drain, accepted, ran>>
    BY <1>1 DEF StartMainRun, Arrive, ForgetRecent, vars, queueVars, historyVars
  <2> QED
    BY <1>0, <2>1, SameKeepsOrder
<1>2. CASE EndMainRun
  <2>1. /\ ScheduleDrain(current, items, dropped, drain)
        /\ UNCHANGED <<items, dropped, accepted, ran>>
    BY <1>2 DEF EndMainRun, historyVars
  <2>2. CASE current = None \/ drain[current].phase # "none"
    BY <1>0, <2>1, <2>2, SameKeepsOrder DEF ScheduleDrain
  <2>3. CASE current # None /\ drain[current].phase = "none"
    <3>1. current \in Objects /\ dropped[current] = <<>> /\ ~Running(current)
          /\ \A p \in Objects \ {current} : drain[p].phase = "none"
      BY <2>3 DEF OrderInv, QueueInv, QueueTypes, NothingDropped, Running, OneObject
    <3>2. GoesOn(current, items)
      BY <2>1, <3>1, ScheduleGoesOn
    <3> QED
      BY <1>0, <2>1, <3>1, <3>2, LoopStepKeepsOrder
  <2> QED
    BY <2>2, <2>3
<1>3. ASSUME NEW m \in Messages, NEW s \in Settings, EnqueueFollowupRun(m, s) PROVE OrderInv'
  BY <1>0, <1>3, EnqueueKeepsOrder
<1>4. ASSUME NEW o \in Objects, DebounceOver(o) PROVE OrderInv'
  BY <1>0, <1>4, DebounceOverKeepsOrder
<1>5. ASSUME NEW o \in Objects, StartBatch(o) PROVE OrderInv'
  BY <1>0, <1>5, StartBatchKeepsOrder
<1>6. ASSUME NEW o \in Objects, RunSucceeds(o) PROVE OrderInv'
  BY <1>0, <1>6, RunSucceedsKeepsOrder
<1>7. ASSUME NEW o \in Objects, RunFails(o) PROVE OrderInv'
  <2>1. /\ current = o /\ dropped[o] = <<>> /\ FinishDrain(o, items, dropped)
        /\ UNCHANGED <<items, dropped, accepted, ran>>
    BY <1>7, ActiveObject DEF RunFails, Running, historyVars
  <2>2. GoesOn(o, items)
    BY <2>1, FinishGoesOn
  <2> QED
    BY <1>0, <2>1, <2>2, LoopStepKeepsOrder
<1>8. ~ClearFollowupQueue
  <2>1. clears \in Nat
    BY ConstantTypes DEF OrderInv, QueueInv, OtherTypes
  <2> QED
    BY <2>1 DEF ClearFollowupQueue, NeverCleared
<1> QED
  BY <1>1, <1>2, <1>3, <1>4, <1>5, <1>6, <1>7, <1>8 DEF Next

LEMMA OrderInvariance ==
  ASSUME RejectsWhenFull, NeverCleared
  PROVE  Spec => []OrderInv
<1>1. Init => OrderInv
  BY InitOrderInv
<1>2. OrderInv /\ [Next]_vars => OrderInv'
  BY NextOrderInv
<1> QED
  BY <1>1, <1>2, PTL DEF Spec

\* When a full queue rejects and nobody clears it, every message it accepted
\* was run or still waits in the object that a drain will find.
THEOREM NoMessageLost ==
  ASSUME RejectsWhenFull, NeverCleared
  PROVE  Spec => []NothingLost
<1>1. OrderInv => NothingLost
  <2> SUFFICES ASSUME OrderInv, NEW m \in Range(accepted)
               PROVE  m \in Waiting \cup ran
    BY DEF NothingLost
  <2>1. PICK i \in 1..Len(accepted) : m = accepted[i]
    BY RangeIsImage DEF OrderInv, QueueInv, QueueTypes
  <2>2. /\ Len(accepted) \in Nat /\ Done \in Int /\ Done >= 0
        /\ Len(Waits) \in Nat /\ Done + Len(Waits) = Len(accepted)
        /\ Waits \in Seq(Messages)
    BY EmptyQueue DEF OrderInv, QueueInv, QueueTypes, WaitsIsTail, Done, Waits
  <2>3. CASE i <= Done
    BY <2>1, <2>2, <2>3 DEF OrderInv, RanIsFront
  <2>4. CASE i > Done
    <3>1. i - Done \in 1..Len(Waits) /\ Done + (i - Done) = i
      BY <2>2, <2>4
    <3>2. Waits[i - Done] = m
      BY <2>1, <3>1 DEF OrderInv, WaitsIsTail
    <3>3. m \in Range(Waits)
      BY <2>2, <3>1, <3>2, RangeIsImage
    <3>4. current \in Objects /\ Waits = items[current]
      BY <3>1, EmptyQueue DEF Waits, OrderInv, QueueInv, QueueTypes
    <3> QED
      BY <3>3, <3>4 DEF Waiting, Reachable
  <2> QED
    BY <2>2, <2>3, <2>4
<1> QED
  BY <1>1, OrderInvariance, PTL

\* When a full queue rejects and nobody clears it, messages run in the order in
\* which they were enqueued, whatever modes, failed runs and redeliveries there
\* are.
THEOREM ArrivalOrder ==
  ASSUME RejectsWhenFull, NeverCleared
  PROVE  Spec => []RunsInArrivalOrder
<1>1. OrderInv => RunsInArrivalOrder
  <2> SUFFICES ASSUME OrderInv, NEW i \in 1..Len(accepted), NEW j \in 1..Len(accepted), i < j,
                      accepted[j] \notin Range(SubSeq(accepted, 1, j - 1)),
                      accepted[j] \in ran \cup InFlight
               PROVE  accepted[i] \in ran \cup InFlight
    BY DEF RunsInArrivalOrder
  <2>1. /\ Len(accepted) \in Nat /\ Done \in Int /\ Done >= 0
        /\ accepted \in Seq(Messages)
        /\ Len(Waits) \in Nat /\ Done + Len(Waits) = Len(accepted)
        /\ \A a \in 1..Len(Waits) : Waits[a] = accepted[Done + a]
        /\ ran = {accepted[a] : a \in 1..Done}
    <3>1. Waits \in Seq(Messages) /\ accepted \in Seq(Messages)
      BY EmptyQueue DEF OrderInv, QueueInv, QueueTypes, Waits
    <3>2. /\ Len(accepted) \in Nat /\ Len(Waits) \in Nat
          /\ Done = Len(accepted) - Len(Waits)
      BY <3>1 DEF Done
    <3> QED
      BY <3>1, <3>2 DEF OrderInv, WaitsIsTail, RanIsFront
  <2>2. \A a \in 1..Len(accepted) : a < j => accepted[a] # accepted[j]
    <3> DEFINE front == SubSeq(accepted, 1, j - 1)
    <3>1. SUFFICES ASSUME NEW a \in 1..Len(accepted), a < j
                   PROVE  accepted[a] \in Range(front)
      OBVIOUS
    <3>2. /\ front \in Seq(Messages)
          /\ Len(front) = j - 1
          /\ front[a] = accepted[a]
      <4>1. \A b \in 1..j - 1 : accepted[b] \in Messages
        BY <2>1
      <4>2. /\ SubSeq(accepted, 1, j - 1) \in Seq(Messages)
            /\ Len(SubSeq(accepted, 1, j - 1)) = IF 1 <= j - 1 THEN j - 1 - 1 + 1 ELSE 0
            /\ \A b \in 1..j - 1 - 1 + 1 : SubSeq(accepted, 1, j - 1)[b] = accepted[1 + b - 1]
        BY <4>1, SubSeqProperties
      <4> QED
        BY <3>1, <4>2
    <3>3. a \in 1..j - 1
      BY <3>1
    <3> HIDE DEF front
    <3>4. Range(front) = {front[b] : b \in 1..Len(front)}
      BY <3>2, RangeIsImage
    <3> QED
      BY <3>2, <3>3, <3>4
  <2>3. CASE i <= Done
    BY <2>1, <2>3
  <2>4. CASE i > Done
    <3>1. accepted[j] \notin ran
      BY <2>1, <2>2, <2>4
    <3>2. PICK o \in Objects : Running(o) /\ accepted[j] \in Range(drain[o].batch)
      BY <3>1 DEF InFlight
    <3>3. current = o /\ o # None
      BY <3>2, ActiveObject, ConstantTypes DEF Running
    <3> DEFINE b == drain[o].batch
    <3>4. /\ Waits = items[o] /\ b \in Seq(Messages) /\ Range(b) = {b[a] : a \in 1..Len(b)}
          /\ Len(b) \in Nat /\ Len(b) <= Len(Waits)
          /\ \A a \in 1..Len(b) : b[a] = Waits[a]
      BY <3>2, <3>3, RangeIsImage
      DEF Waits, OrderInv, QueueInv, QueueTypes, Drains, BatchIsFront
    <3>5. PICK a \in 1..Len(b) : accepted[j] = b[a]
      BY <3>2, <3>4
    <3>6. Range(b) \subseteq InFlight
      BY <3>2 DEF InFlight
    <3> HIDE DEF b
    <3>7. a \in 1..Len(Waits) /\ accepted[j] = accepted[Done + a] /\ Done + a \in 1..Len(accepted)
      BY <2>1, <3>4, <3>5
    <3>8. i - Done \in 1..Len(b) /\ Done + (i - Done) = i
      <4>1. ~(Done + a < j)
        BY <2>2, <3>7
      <4>2. i \in Nat /\ j \in Nat /\ i < j /\ Done \in Int /\ Len(b) \in Nat /\ a \in 1..Len(b)
        BY <2>1, <3>4, <3>5
      <4>3. ASSUME NEW d \in Int, NEW n \in Nat, a \in 1..n, ~(d + a < j), i > d
            PROVE  i - d \in 1..n /\ d + (i - d) = i
        BY <4>2, <4>3
      <4> QED
        BY <2>4, <4>1, <4>2, <4>3
    <3> DEFINE e == i - Done
    <3>9. e \in 1..Len(b) /\ Done + e = i
      BY <3>8
    <3> HIDE DEF e
    <3>10. b[e] = Waits[e] /\ e \in 1..Len(Waits)
      BY <2>1, <3>4, <3>9
    <3>11. accepted[i] = b[e]
      BY <2>1, <3>9, <3>10
    <3> QED
      BY <3>4, <3>6, <3>9, <3>11
  <2> QED
    BY <2>1, <2>3, <2>4
<1> QED
  BY <1>1, OrderInvariance, PTL

-----------------------------------------------------------------------------
(***************************************************************************)
(* A clear holds.  A drain loop finds messages in the object it drains, so *)
(* what matters is that no object in use holds a cleared message; an       *)
(* object that is out of use comes back empty.                             *)
(***************************************************************************)
ClearInv ==
  /\ QueueInv
  /\ \A o \in Reachable : cleared \cap Range(items[o]) = {}

\* No run starts.
NoNewRun == \A p \in Objects : drain'[p] \in Quiet \cup {drain[p]}

\* No object comes into use.
NoneComes == \A p \in Objects : p = current' \/ drain'[p].phase # "none" => p \in Reachable

LEMMA ScheduleReach ==
  ASSUME NEW o \in Objects \cup {None}, NEW its, NEW drops, NEW dr \in [Objects -> Drains],
         ScheduleDrain(o, its, drops, dr)
  PROVE  /\ current' \in {o, None}
         /\ \A p \in Objects \ {o} : drain'[p] = dr[p]
BY DEF ScheduleDrain

LEMMA FinishReach ==
  ASSUME QueueTypes, NEW o \in Objects, NEW its, NEW drops, FinishDrain(o, its, drops)
  PROVE  NoneComes
<1> DEFINE dr == [drain EXCEPT ![o] = NoDrain]
<1>1. /\ dr \in [Objects -> Drains] /\ dr[o].phase = "none"
      /\ \A p \in Objects \ {o} : dr[p] = drain[p]
  BY DrainTypes DEF QueueTypes, Quiet
<1>2. CASE current' = None /\ drain' = dr
  BY <1>1, <1>2, ConstantTypes DEF NoneComes, Reachable
<1>3. CASE ScheduleDrain(current, its, drops, dr)
  <2>1. current \in Objects \cup {None}
    BY DEF QueueTypes
  <2> HIDE DEF dr
  <2>2. current' \in {current, None} /\ \A p \in Objects \ {current} : drain'[p] = dr[p]
    BY <1>1, <1>3, <2>1, ScheduleReach
  <2> QED
    BY <1>1, <2>2, ConstantTypes DEF NoneComes, Reachable
<1> QED
  BY <1>2, <1>3 DEF FinishDrain

LEMMA LoopTopReach ==
  ASSUME QueueTypes, NEW o \in Objects, drain[o].phase # "none", NEW its, NEW drops,
         LoopTop(o, its, drops)
  PROVE  NoneComes
<1>1. CASE FinishDrain(o, its, drops)
  BY <1>1, FinishReach
<1>2. CASE /\ current' = current
           /\ drain' = [drain EXCEPT ![o] = [NewDrain EXCEPT !.forced = drain[o].forced]]
  <2>1. \A p \in Objects \ {o} : drain'[p] = drain[p]
    BY <1>2 DEF QueueTypes
  <2> QED
    BY <1>2, <2>1 DEF NoneComes, Reachable
<1> QED
  BY <1>1, <1>2 DEF LoopTop

\* A run that starts takes its batch from the queue of an object in use.
RunsFromQueue ==
  /\ \A p \in Objects : ~Running(p) /\ Running(p)' =>
       p \in Reachable /\ Range(drain'[p].batch) \subseteq Range(items[p])
  /\ NoneComes

LEMMA RunFromQueue ==
  ASSUME QueueInv, NEW o \in Objects, DebounceOver(o) \/ StartBatch(o)
  PROVE  RunsFromQueue
<1>1. /\ items[o] \in Seq(Messages) /\ o \in Reachable
      /\ SummaryOf(o) \in Seq(Messages) /\ <<>> \in Seq(Messages)
  BY EmptyQueue DEF DebounceOver, StartBatch, SummaryOf, QueueInv, QueueTypes, Reachable
<1>2. CASE FinishDrain(o, items, dropped)
  <2>1. NoNewRun
    BY <1>2, FinishEffect DEF QueueInv, NoNewRun
  <2>2. NoneComes
    BY <1>2, FinishReach DEF QueueInv
  <2> QED
    BY <2>1, <2>2 DEF NoNewRun, Running, Quiet, RunsFromQueue
<1>3. ASSUME NEW kind \in {"item", "summary", "collect"}, NEW batch \in Seq(Messages),
             NEW summary \in Seq(Messages), NEW forced \in BOOLEAN,
             Range(batch) \subseteq Range(items[o]), StartRun(o, kind, batch, summary, forced)
      PROVE  RunsFromQueue
  <2>1. /\ current' = current /\ drain'[o].batch = batch
        /\ \A p \in Objects \ {o} : drain'[p] = drain[p]
    BY <1>3, StartRunEffect DEF QueueInv
  <2>2. NoneComes
    BY <1>1, <2>1 DEF NoneComes, Reachable
  <2> QED
    BY <1>1, <1>3, <2>1, <2>2 DEF Running, RunsFromQueue
<1>4. ASSUME NEW kind \in {"item", "summary", "collect"}, NEW summary \in Seq(Messages),
             NEW forced \in BOOLEAN, StartItem(o, kind, summary, forced)
      PROVE  RunsFromQueue
  <2>1. CASE FinishDrain(o, items, dropped)
    BY <1>2, <2>1
  <2>2. CASE items[o] # <<>> /\ StartRun(o, kind, <<Head(items[o])>>, summary, forced)
    <3> DEFINE batch == <<Head(items[o])>>
    <3>1. batch \in Seq(Messages) /\ Range(batch) = {Head(items[o])}
      BY <1>1, <2>2 DEF Range
    <3>2. Head(items[o]) \in Range(items[o])
      BY <1>1, <2>2, RangeIsImage
    <3>3. StartRun(o, kind, batch, summary, forced)
      BY <2>2
    <3> HIDE DEF batch
    <3> QED
      BY <1>3, <3>1, <3>2, <3>3
  <2> QED
    BY <1>4, <2>1, <2>2 DEF StartItem
<1>5. CASE drain' = [drain EXCEPT ![o].phase = "batching"] /\ current' = current
  <2>1. \A p \in Objects : Running(p)' => Running(p)
    BY <1>5 DEF Running, QueueInv, QueueTypes
  <2>2. NoneComes
    BY <1>1, <1>5 DEF NoneComes, Reachable, QueueInv, QueueTypes
  <2> QED
    BY <2>1, <2>2 DEF RunsFromQueue
<1>6. CASE DebounceOver(o)
  <2>1. CASE StartItem(o, "item", <<>>, TRUE)
    <3> DEFINE none == <<>>
    <3>1. none \in Seq(Messages) /\ StartItem(o, "item", none, TRUE)
      BY <1>1, <2>1
    <3> HIDE DEF none
    <3> QED
      BY <1>4, <3>1
  <2>2. CASE StartItem(o, IF SummaryOf(o) # <<>> THEN "summary" ELSE "item", SummaryOf(o), FALSE)
    <3> DEFINE kind == IF SummaryOf(o) # <<>> THEN "summary" ELSE "item"
    <3>1. kind \in {"item", "summary", "collect"} /\ StartItem(o, kind, SummaryOf(o), FALSE)
      BY <2>2
    <3> HIDE DEF kind
    <3> QED
      BY <1>1, <1>4, <3>1
  <2> QED
    BY <1>5, <1>6, <2>1, <2>2 DEF DebounceOver
<1>7. CASE StartBatch(o)
  <2>1. CASE StartRun(o, "collect", items[o], SummaryOf(o), FALSE)
    BY <1>1, <1>3, <2>1
  <2> QED
    BY <1>2, <1>7, <2>1 DEF StartBatch
<1> QED
  BY <1>6, <1>7

\* A queue that accepts m gains nothing else, and m no longer counts as cleared.
LEMMA PushItemRange ==
  ASSUME QueueInv, NEW m \in Messages, NEW o \in Objects, NEW s \in Settings, PushItem(m, o, s)
  PROVE  /\ Range(items'[o]) \subseteq Range(Held(o)) \cup {m}
         /\ \A p \in Objects \ {o} : items'[p] = items[p]
         /\ cleared' = cleared \ {m}
<1> DEFINE held == Held(o)
           over == IF AtCap(o, s) THEN SubSeq(held, 1, Len(held) - s.cap + 1) ELSE <<>>
           kept == SubSeq(held, Len(over) + 1, Len(held))
           new == Append(kept, m)
<1>1. /\ items' = [items EXCEPT ![o] = new]
      /\ cleared' = cleared \ {m}
      /\ items \in [Objects -> Seq(Messages)]
  BY DEF PushItem, QueueInv, QueueTypes
<1>2. held \in Seq(Messages) /\ Len(held) \in Nat /\ held = Held(o)
  BY HeldTypes
<1>3. s.cap \in Nat \ {0}
  BY SettingsTypes
<1>4. Len(over) \in 0..Len(held)
  <2>1. CASE AtCap(o, s)
    <3>1. Len(held) - s.cap + 1 \in 1..Len(held)
      BY <1>2, <1>3, <2>1 DEF AtCap
    <3>2. \A i \in 1..Len(held) - s.cap + 1 : held[i] \in Messages
      BY <1>2, <3>1
    <3>3. Len(SubSeq(held, 1, Len(held) - s.cap + 1)) = Len(held) - s.cap + 1
      BY <1>2, <1>3, <3>1, <3>2, SubSeqProperties
    <3> QED
      BY <1>2, <2>1, <3>1, <3>3
  <2>2. CASE ~AtCap(o, s)
    BY <1>2, <2>2, EmptyQueue
  <2> QED
    BY <2>1, <2>2
<1> HIDE DEF over, held
<1>5. /\ kept \in Seq(Messages) /\ Len(kept) = Len(held) - Len(over)
      /\ \A i \in 1..Len(held) - Len(over) : kept[i] = held[Len(over) + i]
  BY <1>2, <1>4, Suffix
<1> HIDE DEF kept
<1>6. Range(kept) \subseteq Range(held)
  <2>1. ASSUME NEW i \in 1..Len(kept) PROVE kept[i] \in Range(held)
    <3>1. Len(over) + i \in 1..Len(held) /\ kept[i] = held[Len(over) + i]
      BY <1>2, <1>4, <1>5
    <3> QED
      BY <1>2, <3>1, RangeIsImage
  <2> QED
    BY <1>5, <2>1, RangeIsImage
<1>7. Range(new) \subseteq Range(kept) \cup {m}
  <2>1. /\ new \in Seq(Messages) /\ Len(new) = Len(kept) + 1 /\ Len(kept) \in Nat
        /\ \A i \in 1..Len(kept) : new[i] = kept[i]
        /\ new[Len(kept) + 1] = m
    BY <1>5, AppendProperties
  <2> HIDE DEF new
  <2>2. ASSUME NEW i \in 1..Len(new) PROVE new[i] \in Range(kept) \cup {m}
    <3>1. CASE i \in 1..Len(kept)
      BY <1>5, <2>1, <3>1, RangeIsImage
    <3>2. CASE i \notin 1..Len(kept)
      <4>1. i = Len(kept) + 1
        BY <2>1, <3>2
      <4> QED
        BY <2>1, <4>1
    <3> QED
      BY <3>1, <3>2
  <2> QED
    BY <2>1, <2>2, RangeIsImage
<1> HIDE DEF new
<1> QED
  BY <1>1, <1>2, <1>6, <1>7

\* The step keeps the invariant and starts no run with a cleared message.
ClearStep ==
  /\ ClearInv'
  /\ \A p \in Objects : ~Running(p) /\ Running(p)' => cleared \cap Range(drain'[p].batch) = {}

\* A step that starts no run, clears nothing and adds nothing to a queue.
LEMMA QuietStepKeepsClear ==
  ASSUME ClearInv, QueueInv', NoNewRun, NoneComes, cleared' = cleared,
         \A p \in Objects : Range(items'[p]) \subseteq Range(items[p])
  PROVE  ClearStep
<1>1. \A p \in Reachable' : p \in Reachable /\ Range(items'[p]) \subseteq Range(items[p])
  BY DEF NoneComes, Reachable
<1>2. \A p \in Objects : ~(~Running(p) /\ Running(p)')
  BY DEF NoNewRun, Quiet, Running
<1> QED
  BY <1>1, <1>2 DEF ClearInv, ClearStep

LEMMA EnqueueKeepsClear ==
  ASSUME ClearInv, QueueInv', NEW m \in Messages, NEW s \in Settings, EnqueueFollowupRun(m, s)
  PROVE  ClearStep
<1> DEFINE o == Target
<1>1. o \in Objects /\ current \in {o, None}
  BY DEF EnqueueFollowupRun, Target, Unused, ClearInv, QueueInv, QueueTypes
<1>2. /\ \/ PushItem(m, o, s)
         \/ items' = [items EXCEPT ![o] = Held(o)] /\ cleared' = cleared
      /\ \/ current' = o /\ drain' = drain
         \/ ScheduleDrain(o, items', dropped', drain)
  BY DEF EnqueueFollowupRun
<1> HIDE DEF o
<1>3. QueueInv /\ drain \in [Objects -> Drains] /\ items \in [Objects -> Seq(Messages)]
  BY DEF ClearInv, QueueInv, QueueTypes
<1>4. /\ \A p \in Objects \ {o} : items'[p] = items[p]
      /\ cleared' \subseteq cleared
      /\ \/ Range(items'[o]) \subseteq Range(Held(o)) \cup {m} /\ m \notin cleared'
         \/ Range(items'[o]) \subseteq Range(Held(o))
  BY <1>1, <1>2, <1>3, PushItemRange
<1>5. cleared \cap Range(Held(o)) = {}
  <2>1. CASE current = None
    BY <2>1, EmptyQueue DEF Held
  <2>2. CASE current = o /\ current # None
    BY <1>1, <2>2 DEF Held, ClearInv, Reachable
  <2> QED
    BY <1>1, <2>1, <2>2
<1>6. NoNewRun
  BY <1>1, <1>2, <1>3, ScheduleEffect DEF NoNewRun
<1>7. \A p \in Objects \ {o} : p = current' \/ drain'[p].phase # "none" => p \in Reachable
  <2>1. current' \in {o, None} /\ \A p \in Objects \ {o} : drain'[p] = drain[p]
    BY <1>1, <1>2, <1>3, ScheduleReach
  <2> QED
    BY <2>1, ConstantTypes DEF Reachable
<1>8. \A p \in Reachable' : cleared' \cap Range(items'[p]) = {}
  <2> SUFFICES ASSUME NEW p \in Reachable' PROVE cleared' \cap Range(items'[p]) = {}
    OBVIOUS
  <2>1. CASE p = o
    BY <1>4, <1>5, <2>1
  <2>2. CASE p # o
    <3>1. p \in Reachable /\ p \in Objects
      BY <1>7, <2>2 DEF Reachable
    <3> QED
      BY <1>4, <2>2, <3>1 DEF ClearInv
  <2> QED
    BY <2>1, <2>2
<1>9. \A p \in Objects : ~(~Running(p) /\ Running(p)')
  BY <1>6 DEF NoNewRun, Quiet, Running
<1> QED
  BY <1>8, <1>9 DEF ClearInv, ClearStep

LEMMA LeftoverRange ==
  ASSUME QueueInv, NEW o \in Objects
  PROVE  Range(Leftover(o)) \subseteq Range(items[o])
<1>1. items[o] \in Seq(Messages) /\ drain[o].batch \in Seq(Messages)
  BY DEF QueueInv, QueueTypes, Drains
<1> DEFINE n == Len(drain[o].batch)
           len == Len(items[o])
<1>2. n \in Nat /\ len \in Nat
  BY <1>1
<1>3. CASE n >= len
  BY <1>3, EmptyQueue DEF Leftover
<1>4. CASE ~(n >= len)
  <2>1. Leftover(o) = SubSeq(items[o], n + 1, len) /\ n \in 0..len
    BY <1>2, <1>4 DEF Leftover
  <2>2. /\ Leftover(o) \in Seq(Messages) /\ Len(Leftover(o)) = len - n
        /\ \A i \in 1..len - n : Leftover(o)[i] = items[o][n + i]
    BY <1>1, <2>1, Suffix
  <2> HIDE DEF n
  <2>3. ASSUME NEW i \in 1..len - n PROVE Leftover(o)[i] \in Range(items[o])
    <3>1. n + i \in 1..len
      BY <1>2, <2>1
    <3> QED
      BY <1>1, <2>2, <3>1, RangeIsImage
  <2> QED
    BY <2>2, <2>3, RangeIsImage
<1> QED
  BY <1>3, <1>4

LEMMA RunSucceedsKeepsClear ==
  ASSUME ClearInv, QueueInv', NEW o \in Objects, RunSucceeds(o)
  PROVE  ClearStep
<1>1. /\ items' = [items EXCEPT ![o] = Leftover(o)]
      /\ LoopTop(o, items', dropped')
      /\ cleared' = cleared
      /\ drain[o].phase # "none"
  BY DEF RunSucceeds, Running
<1>2. QueueInv /\ QueueTypes /\ items \in [Objects -> Seq(Messages)]
  BY DEF ClearInv, QueueInv, QueueTypes
<1>3. NoNewRun /\ NoneComes
  BY <1>1, <1>2, LoopTopEffect, LoopTopReach DEF NoNewRun
<1>4. \A p \in Objects : Range(items'[p]) \subseteq Range(items[p])
  BY <1>1, <1>2, LeftoverRange
<1> QED
  BY <1>1, <1>3, <1>4, QuietStepKeepsClear

LEMMA RunFailsKeepsClear ==
  ASSUME ClearInv, QueueInv', NEW o \in Objects, RunFails(o)
  PROVE  ClearStep
<1>1. FinishDrain(o, items, dropped) /\ items' = items /\ cleared' = cleared
  BY DEF RunFails, historyVars
<1>2. QueueInv /\ QueueTypes
  BY DEF ClearInv, QueueInv
<1>3. NoNewRun /\ NoneComes
  BY <1>1, <1>2, FinishEffect, FinishReach DEF NoNewRun
<1> QED
  BY <1>1, <1>3, QuietStepKeepsClear

LEMMA EndMainRunKeepsClear ==
  ASSUME ClearInv, QueueInv', EndMainRun
  PROVE  ClearStep
<1>1. /\ ScheduleDrain(current, items, dropped, drain)
      /\ items' = items /\ cleared' = cleared
  BY DEF EndMainRun, historyVars
<1>2. current \in Objects \cup {None} /\ drain \in [Objects -> Drains]
  BY DEF ClearInv, QueueInv, QueueTypes
<1>3. NoNewRun
  BY <1>1, <1>2, ScheduleEffect DEF NoNewRun
<1>4. NoneComes
  BY <1>1, <1>2, ScheduleReach, ConstantTypes DEF NoneComes, Reachable
<1> QED
  BY <1>1, <1>3, <1>4, QuietStepKeepsClear

\* What a clear adds to cleared is in no other object in use.
LEMMA ClearKeepsClear ==
  ASSUME ClearInv, QueueInv', ClearFollowupQueue
  PROVE  ClearStep
<1>1. /\ current \in Objects /\ current' = None
      /\ items' = [items EXCEPT ![current] = <<>>]
      /\ drain' = drain
      /\ items \in [Objects -> Seq(Messages)]
      /\ cleared' \subseteq cleared \cup (Range(items[current] \o dropped[current]) \ Elsewhere)
  BY DEF ClearFollowupQueue, ClearInv, QueueInv, QueueTypes
<1>2. ASSUME NEW p \in Reachable' PROVE cleared' \cap Range(items'[p]) = {}
  <2>1. p \in Objects /\ drain[p].phase # "none"
    BY <1>1, ConstantTypes DEF Reachable
  <2>2. CASE p = current
    BY <1>1, <2>2, EmptyQueue
  <2>3. CASE p # current
    <3>1. items'[p] = items[p] /\ Range(items[p]) \subseteq Elsewhere
      BY <1>1, <2>1, <2>3 DEF Elsewhere
    <3>2. cleared \cap Range(items[p]) = {}
      BY <2>1 DEF ClearInv, Reachable
    <3> QED
      BY <1>1, <3>1, <3>2
  <2> QED
    BY <2>2, <2>3
<1> QED
  BY <1>1, <1>2 DEF ClearInv, ClearStep, Running

LEMMA NextClearInv == ClearInv /\ [Next]_vars => ClearStep
<1> SUFFICES ASSUME ClearInv, [Next]_vars PROVE ClearStep
  OBVIOUS
<1>0. QueueInv'
  BY NextQueueInv DEF ClearInv
<1>1. CASE StartMainRun \/ (\E m \in Messages : Arrive(m) \/ ForgetRecent(m)) \/ UNCHANGED vars
  <2>1. UNCHANGED <<current, items, drain, cleared>>
    BY <1>1 DEF StartMainRun, Arrive, ForgetRecent, vars, queueVars, historyVars
  <2> QED
    BY <1>0, <2>1 DEF ClearInv, ClearStep, Reachable, Running
<1>2. CASE EndMainRun
  BY <1>0, <1>2, EndMainRunKeepsClear
<1>3. ASSUME NEW m \in Messages, NEW s \in Settings, EnqueueFollowupRun(m, s) PROVE ClearStep
  BY <1>0, <1>3, EnqueueKeepsClear
<1>4. ASSUME NEW o \in Objects, DebounceOver(o) \/ StartBatch(o) PROVE ClearStep
  <2>1. UNCHANGED <<items, cleared>>
    BY <1>4 DEF DebounceOver, StartBatch, historyVars
  <2>2. RunsFromQueue
    BY <1>4, RunFromQueue DEF ClearInv
  <2>3. Reachable' \subseteq Reachable
    BY <2>2 DEF RunsFromQueue, NoneComes, Reachable
  <2> QED
    BY <1>0, <2>1, <2>2, <2>3 DEF ClearInv, ClearStep, RunsFromQueue
<1>5. ASSUME NEW o \in Objects, RunSucceeds(o) PROVE ClearStep
  BY <1>0, <1>5, RunSucceedsKeepsClear
<1>6. ASSUME NEW o \in Objects, RunFails(o) PROVE ClearStep
  BY <1>0, <1>6, RunFailsKeepsClear
<1>7. CASE ClearFollowupQueue
  BY <1>0, <1>7, ClearKeepsClear
<1> QED
  BY <1>1, <1>2, <1>3, <1>4, <1>5, <1>6, <1>7 DEF Next

\* What a clear removed, and no other queue object held, is in no run that
\* starts later, unless it is enqueued again: whatever drain loops outlived
\* that clear and others, and whatever the modes and drop policies.
THEOREM ClearHolds == Spec => ClearedNeverRuns
<1>1. Init => ClearInv
  BY InitQueueInv DEF Init, ClearInv
<1>2. ClearInv /\ [Next]_vars => ClearInv'
  BY NextClearInv DEF ClearStep
<1>3. ClearInv /\ [Next]_vars =>
        [\A o \in Objects : ~Running(o) /\ Running(o)' => cleared \cap Range(drain'[o].batch) = {}]_vars
  BY NextClearInv DEF ClearStep
<1> QED
  BY <1>1, <1>2, <1>3, PTL DEF Spec, ClearedNeverRuns

=============================================================================
