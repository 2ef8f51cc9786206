------------------------- MODULE DeliveryQueueProofs -------------------------
(***************************************************************************)
(* Proofs about DeliveryQueue for every set of messages and scans, any     *)
(* number of payloads, retries, crashes and failing file operations.       *)
(*                                                                         *)
(* Scans and live deliveries overlap as they may in every theorem.         *)
(*                                                                         *)
(* NothingLost rests on the payload loop: who acknowledges has seen every  *)
(* payload through.  That is about each actor by itself.                   *)
(*                                                                         *)
(* The others rest on Sound: an actor has an entry in one place only (its  *)
(* snapshot, under work, or a failDelivery call), though several actors    *)
(* may have the same entry; and on who has an entry in hand (Holds, Moves): *)
(* the finality of an acknowledgement that nobody else raced (FinalOK),    *)
(* the gateway starts that a retryCount takes (CountsOK) and the budget of *)
(* attempts (BudgetOK).                                                    *)
(***************************************************************************)
EXTENDS DeliveryQueue, FiniteSetTheorems, SequenceTheorems, TLAPS

USE DeliveryAssumption

\* The deliveries whose failures the payload loop does not swallow.
Strict == Deliveries \ BestEffort

FilesOK ==
  /\ json \in [Deliveries -> Nat \union {Gone}]
  /\ order \in Seq(Deliveries)
  /\ handled \in [Deliveries -> SUBSET Payloads]

\* An actor in the payload loop has seen the payloads before idx through; one
\* that acknowledges has seen all of them through.
ActorOK(r, h) ==
  /\ DOMAIN r = {"pc", "d", "idx", "partial", "tried"}
  /\ r.idx \in 1 .. NPayloads + 1
  /\ r.pc = "sending" /\ r.d \in Strict => 1 .. r.idx - 1 \subseteq h[r.d]
  /\ r.pc = "ack" /\ r.d \in Strict => Payloads \subseteq h[r.d]

ActorsOK ==
  /\ act = [a \in Actors |-> act[a]]
  /\ \A a \in Actors : ActorOK(act[a], handled)

\* A failDelivery call writes back a count it has read.
BumpOK(b) ==
  /\ DOMAIN b = {"by", "d", "rc"} /\ b.by \in Actors
  /\ b.d \in Deliveries => b.rc \in Nat \union {Gone}

BumpsOK == \A b \in bumps : BumpOK(b)

IInv == FilesOK /\ ActorsOK /\ BumpsOK /\ NothingLost

LEMMA AppendRange ==
  ASSUME NEW S, NEW q \in Seq(S), NEW e \in S
  PROVE  Range(Append(q, e)) = Range(q) \union {e}
<1>1. /\ Append(q, e) \in Seq(S) /\ Len(Append(q, e)) = Len(q) + 1
      /\ \A i \in 1 .. Len(q) : Append(q, e)[i] = q[i]
      /\ Append(q, e)[Len(q) + 1] = e
  BY AppendProperties
<1>2. /\ Range(Append(q, e)) = {Append(q, e)[i] : i \in 1 .. Len(Append(q, e))}
      /\ Range(q) = {q[i] : i \in 1 .. Len(q)}
      /\ Len(q) \in Nat
  BY <1>1, RangeEquality, LenProperties
<1> QED
  BY <1>1, <1>2

LEMMA InjectiveAppend ==
  ASSUME NEW S, NEW q \in Seq(S), IsInjective(q), NEW e \in S, e \notin Range(q)
  PROVE  Append(q, e) \in Seq(S) /\ IsInjective(Append(q, e))
<1>1. /\ Append(q, e) \in Seq(S) /\ Len(Append(q, e)) = Len(q) + 1
      /\ \A i \in 1 .. Len(q) : Append(q, e)[i] = q[i]
      /\ Append(q, e)[Len(q) + 1] = e
  BY AppendProperties
<1>2. /\ DOMAIN Append(q, e) = 1 .. Len(q) + 1 /\ DOMAIN q = 1 .. Len(q) /\ Len(q) \in Nat
  BY <1>1, LenProperties
<1>3. \A i \in 1 .. Len(q) : q[i] # e
  BY <1>2 DEF Range
<1> QED
  BY <1>1, <1>2, <1>3 DEF IsInjective

-----------------------------------------------------------------------------
(* Single actors.                                                          *)

\* Handled payloads stay handled.
HandledGrows == handled' \in [Deliveries -> SUBSET Payloads]
                /\ \A d \in Deliveries : handled[d] \subseteq handled'[d]

LEMMA ActorKeeps ==
  ASSUME NEW r, ActorOK(r, handled), HandledGrows
  PROVE  ActorOK(r, handled')
  BY DEF ActorOK, HandledGrows, Strict

\* Only the entry of actor a changes, to one that is allowed.
LEMMA OneActor ==
  ASSUME ActorsOK, HandledGrows, NEW a \in Actors, NEW r,
         act' = [act EXCEPT ![a] = r], ActorOK(r, handled')
  PROVE  ActorsOK'
  <1>1. act' = [x \in Actors |-> act'[x]]
    BY DEF ActorsOK
  <1>2. ASSUME NEW x \in Actors PROVE ActorOK(act'[x], handled')
    <2>1. ActorOK(act[x], handled')
      BY ActorKeeps DEF ActorsOK
    <2>2. act'[x] = IF x = a THEN r ELSE act[x]
      BY DEF ActorsOK
    <2> QED BY <2>1, <2>2
  <1> QED BY <1>1, <1>2 DEF ActorsOK

LEMMA NoActor ==
  ASSUME ActorsOK, HandledGrows, UNCHANGED act
  PROVE  ActorsOK'
  <1>1. \A x \in Actors : ActorOK(act[x], handled')
    BY ActorKeeps DEF ActorsOK
  <1> QED BY <1>1 DEF ActorsOK

\* Leaving the payload loop without an ack owes nothing.
LEMMA GotoOK ==
  ASSUME ActorsOK, HandledGrows, NEW a \in Actors, NEW pc, Goto(a, pc),
         pc \notin {"sending", "ack"}
  PROVE  ActorsOK'
  <1> DEFINE r == [act[a] EXCEPT !.pc = pc]
  <1>1. act' = [act EXCEPT ![a] = r]
    BY DEF Goto
  <1>2. ActorOK(act[a], handled)
    BY DEF ActorsOK
  <1>3. r.pc = pc /\ r.d = act[a].d /\ r.idx = act[a].idx /\ DOMAIN r = DOMAIN act[a]
    BY <1>2 DEF ActorOK
  <1>4. ActorOK(r, handled')
    BY <1>2, <1>3 DEF ActorOK
  <1> HIDE DEF r
  <1> QED BY <1>1, <1>4, OneActor

\* An ack is allowed to who has seen every payload through.
LEMMA GotoAckOK ==
  ASSUME ActorsOK, HandledGrows, NEW a \in Actors, Goto(a, "ack"),
         act[a].d \in Strict => Payloads \subseteq handled'[act[a].d]
  PROVE  ActorsOK'
  <1> DEFINE r == [act[a] EXCEPT !.pc = "ack"]
  <1>1. act' = [act EXCEPT ![a] = r]
    BY DEF Goto
  <1>2. ActorOK(act[a], handled)
    BY DEF ActorsOK
  <1>3. r.pc = "ack" /\ r.d = act[a].d /\ r.idx = act[a].idx /\ DOMAIN r = DOMAIN act[a]
    BY <1>2 DEF ActorOK
  <1>4. ActorOK(r, handled')
    BY <1>2, <1>3 DEF ActorOK
  <1> HIDE DEF r
  <1> QED BY <1>1, <1>4, OneActor

\* The payload loop begins at its first payload.
LEMMA BeginOK ==
  ASSUME ActorsOK, HandledGrows, NEW a \in Actors, NEW d, BeginSending(a, d)
  PROVE  ActorsOK'
  <1> DEFINE r == [Idle("sending", d) EXCEPT !.tried = TRUE]
  <1>1. act' = [act EXCEPT ![a] = r]
    BY DEF BeginSending
  <1>2. r.pc = "sending" /\ r.idx = 1
    BY DEF Idle
  <1>3. ActorOK(r, handled')
    <2>1. DOMAIN r = {"pc", "d", "idx", "partial", "tried"}
      BY DEF Idle
    <2> HIDE DEF r
    <2> QED BY <1>2, <2>1 DEF ActorOK
  <1> HIDE DEF r
  <1> QED BY <1>1, <1>3, OneActor

LEMMA IdleOK ==
  ASSUME NEW pc, NEW d, NEW h, pc \notin {"sending", "ack"}
  PROVE  ActorOK(Idle(pc, d), h)
  BY DEF ActorOK, Idle

-----------------------------------------------------------------------------
(* Files and failDelivery calls.                                           *)

LEMMA PersistedAreDeliveries ==
  ASSUME FilesOK
  PROVE  Range(order) \subseteq Deliveries
  BY DEF FilesOK, Range

\* A step that takes a file away only after its payloads were handled, or
\* into failed/, loses nothing.
LEMMA NothingLostKeeps ==
  ASSUME FilesOK, NothingLost, HandledGrows, UNCHANGED order,
         failed \subseteq failed',
         \A d \in Strict : json[d] # Gone =>
           json'[d] # Gone \/ d \in failed' \/ Payloads \subseteq handled'[d]
  PROVE  NothingLost'
  <1> SUFFICES ASSUME NEW d \in Range(order) \ BestEffort
               PROVE  json'[d] # Gone \/ d \in failed' \/ Payloads \subseteq handled'[d]
    BY DEF NothingLost, AllHandled
  <1>1. d \in Strict
    BY PersistedAreDeliveries DEF Strict
  <1>2. json[d] # Gone \/ d \in failed \/ Payloads \subseteq handled[d]
    BY DEF NothingLost, AllHandled
  <1>3. handled[d] \subseteq handled'[d]
    BY <1>1 DEF HandledGrows, Strict
  <1> QED BY <1>1, <1>2, <1>3

LEMMA HandledStays ==
  ASSUME FilesOK, UNCHANGED handled
  PROVE  HandledGrows
  BY DEF HandledGrows, FilesOK

LEMMA FilesStay ==
  ASSUME FilesOK, NothingLost, UNCHANGED <<json, failed, order>>, HandledGrows
  PROVE  FilesOK' /\ NothingLost'
  <1>1. FilesOK'
    BY DEF FilesOK, HandledGrows
  <1>2. NothingLost'
    BY NothingLostKeeps
  <1> QED BY <1>1, <1>2

LEMMA StartBumpOK ==
  ASSUME BumpsOK, NEW a \in Actors, NEW d, StartBump(a, d)
  PROVE  BumpsOK'
  BY DEF BumpsOK, BumpOK, StartBump

LEMMA FewerBumps ==
  ASSUME BumpsOK, bumps' \subseteq bumps
  PROVE  BumpsOK'
  BY DEF BumpsOK

\* Where an actor goes when its failDelivery call has ended.
LEMMA EndBumpOK ==
  ASSUME ActorsOK, BumpsOK, HandledGrows, NEW b \in bumps, EndBump(b)
  PROVE  ActorsOK' /\ BumpsOK'
  <1>1. BumpsOK'
    BY FewerBumps DEF EndBump
  <1> b.by \in Actors
    BY DEF BumpsOK, BumpOK
  <1>2. CASE act[b.by].pc = "failing"
    <2>1. Goto(b.by, Settled(b.by)) /\ Settled(b.by) \notin {"sending", "ack"}
      BY <1>2 DEF EndBump, Settled
    <2>2. ActorsOK'
      BY <2>1, GotoOK
    <2> QED BY <1>1, <2>2
  <1>3. CASE act[b.by].pc # "failing"
    <2>1. ActorsOK'
      BY <1>3, NoActor DEF EndBump
    <2> QED BY <1>1, <2>1
  <1> QED BY <1>2, <1>3

\* What a rejected delivery does: only an abort, which leaves nothing to send,
\* goes to the ack.
LEMMA ThrowsOK ==
  ASSUME ActorsOK, BumpsOK, HandledGrows, NEW a \in Actors, NEW kind,
         Throws(a, kind),
         kind = "abort" /\ act[a].d \in Strict => Payloads \subseteq handled'[act[a].d]
  PROVE  ActorsOK' /\ BumpsOK'
  <1>1. CASE ~HasEntry(a)
    <2>1. Goto(a, "done") /\ UNCHANGED bumps
      BY <1>1 DEF Throws
    <2>2. ActorsOK'
      BY <2>1, GotoOK
    <2> QED BY <2>1, <2>2, FewerBumps
  <1>2. CASE HasEntry(a) /\ kind = "abort"
    <2>1. Goto(a, "ack") /\ UNCHANGED bumps
      BY <1>2 DEF Throws
    <2>2. ActorsOK'
      BY <1>2, <2>1, GotoAckOK
    <2> QED BY <2>1, <2>2, FewerBumps
  <1>3. CASE HasEntry(a) /\ kind # "abort" /\ kind = "permanent" /\ ~IsLive(a)
    <2>1. Goto(a, "move") /\ UNCHANGED bumps
      BY <1>3 DEF Throws
    <2>2. ActorsOK'
      BY <2>1, GotoOK
    <2> QED BY <2>1, <2>2, FewerBumps
  <1>4. CASE HasEntry(a) /\ kind # "abort" /\ ~(kind = "permanent" /\ ~IsLive(a))
    <2>1. Goto(a, "failing") /\ StartBump(a, act[a].d)
      BY <1>4 DEF Throws
    <2>2. ActorsOK'
      BY <2>1, GotoOK
    <2>3. BumpsOK'
      BY <2>1, StartBumpOK
    <2> QED BY <2>2, <2>3
  <1> QED BY <1>1, <1>2, <1>3, <1>4

-----------------------------------------------------------------------------
(* The actions.                                                            *)

LEMMA InitIInv == Init => IInv
  <1> SUFFICES ASSUME Init PROVE IInv
    OBVIOUS
  <1>1. order = <<>> /\ Range(order) = {}
    BY DEF Init, Range
  <1>2. FilesOK
    BY <1>1 DEF Init, FilesOK
  <1>3. ActorsOK
    <2>1. \A a \in Actors : act[a] = Idle("off", Gone) \/ act[a] = Idle("new", a)
      BY DEF Init
    <2>2. \A a \in Actors : ActorOK(act[a], handled)
      BY <2>1, IdleOK
    <2> QED BY <2>2 DEF Init, ActorsOK
  <1>4. BumpsOK
    BY DEF Init, BumpsOK
  <1>5. NothingLost
    BY <1>1 DEF NothingLost
  <1> QED BY <1>2, <1>3, <1>4, <1>5 DEF IInv

LEMMA EnqueueIInv ==
  ASSUME IInv, NEW d \in Deliveries, Enqueue(d)
  PROVE  IInv'
  <1> USE DEF IInv
  <1>1. HandledGrows
    BY HandledStays DEF Enqueue
  <1>2. json' = [json EXCEPT ![d] = 0] /\ order' = Append(order, d)
        /\ UNCHANGED <<failed, handled, bumps>> /\ BeginSending(d, d)
    BY DEF Enqueue
  <1>3. FilesOK'
    BY <1>2 DEF FilesOK
  <1>4. ActorsOK'
    BY <1>1, <1>2, BeginOK DEF Actors
  <1>5. BumpsOK'
    BY <1>2 DEF BumpsOK
  <1>6. NothingLost'
    <2>1. Range(order') = Range(order) \union {d}
      BY <1>2, AppendRange DEF FilesOK
    <2>2. json'[d] # Gone
      BY <1>2 DEF FilesOK
    <2>3. \A x \in Range(order) \ {d} : json'[x] = json[x]
      BY <1>2, PersistedAreDeliveries DEF FilesOK
    <2> QED BY <1>2, <2>1, <2>2, <2>3 DEF NothingLost, AllHandled
  <1> QED BY <1>3, <1>4, <1>5, <1>6

LEMMA EnqueueFailsIInv ==
  ASSUME IInv, NEW d \in Deliveries, EnqueueFails(d)
  PROVE  IInv'
  <1> USE DEF IInv
  <1>1. UNCHANGED <<json, failed, order, handled, bumps>> /\ BeginSending(d, d)
    BY DEF EnqueueFails, files
  <1>2. HandledGrows
    BY <1>1, HandledStays
  <1>3. FilesOK' /\ NothingLost'
    BY <1>1, <1>2, FilesStay
  <1>4. ActorsOK'
    BY <1>1, <1>2, BeginOK DEF Actors
  <1>5. BumpsOK'
    BY <1>1 DEF BumpsOK
  <1> QED BY <1>3, <1>4, <1>5

LEMMA SendOkIInv ==
  ASSUME IInv, NEW a \in Actors, SendOk(a)
  PROVE  IInv'
  <1> USE DEF IInv
  <1> DEFINE r == [act[a] EXCEPT !.idx = @ + 1]
  <1>1. /\ UNCHANGED <<json, failed, order, bumps>>
        /\ handled' = [handled EXCEPT ![act[a].d] = @ \union {act[a].idx}]
        /\ act' = [act EXCEPT ![a] = r]
        /\ act[a].pc = "sending" /\ act[a].idx <= NPayloads
    BY DEF SendOk, NextPayload, files
  <1>2. ActorOK(act[a], handled)
    BY DEF ActorsOK
  <1>3. act[a].idx \in Payloads
    BY <1>1, <1>2 DEF ActorOK, Payloads
  <1>4. HandledGrows
    BY <1>1, <1>3 DEF HandledGrows, FilesOK
  <1>5. FilesOK' /\ NothingLost'
    BY <1>1, <1>4, FilesStay
  <1>6. ActorsOK'
    <2>1. r.pc = "sending" /\ r.d = act[a].d /\ r.idx = act[a].idx + 1
          /\ DOMAIN r = DOMAIN act[a]
      BY <1>1, <1>2 DEF ActorOK
    <2>2. r.d \in Strict => 1 .. r.idx - 1 \subseteq handled'[r.d]
      <3> SUFFICES ASSUME r.d \in Strict PROVE 1 .. act[a].idx \subseteq handled'[act[a].d]
        BY <1>2, <2>1 DEF ActorOK
      <3>1. handled'[act[a].d] = handled[act[a].d] \union {act[a].idx}
        BY <1>1, <2>1 DEF FilesOK, Strict
      <3>2. 1 .. act[a].idx - 1 \subseteq handled[act[a].d]
        BY <1>1, <1>2, <2>1 DEF ActorOK
      <3> QED BY <1>3, <3>1, <3>2 DEF Payloads
    <2>3. ActorOK(r, handled')
      BY <1>1, <1>2, <2>1, <2>2 DEF ActorOK
    <2> HIDE DEF r
    <2> QED BY <1>1, <1>4, <2>3, OneActor
  <1>7. BumpsOK'
    BY <1>1 DEF BumpsOK
  <1> QED BY <1>5, <1>6, <1>7

LEMMA SendErrorIInv ==
  ASSUME IInv, NEW a \in Actors, NEW kind \in Kinds, SendError(a, kind)
  PROVE  IInv'
  <1> USE DEF IInv
  <1> DEFINE d == act[a].d
  <1>1. /\ UNCHANGED <<json, failed, order>>
        /\ act[a].pc = "sending"
        /\ handled' = IF kind = "abort"
                      THEN [handled EXCEPT ![d] = @ \union (act[a].idx .. NPayloads)]
                      ELSE handled
    BY DEF SendError, NextPayload, files
  <1>2. ActorOK(act[a], handled) /\ act[a].idx <= NPayloads
    BY DEF ActorsOK, SendError, NextPayload
  <1>3. act[a].idx .. NPayloads \subseteq Payloads
    BY <1>2 DEF ActorOK, Payloads
  <1>4. HandledGrows
    <2>1. CASE kind = "abort"
      BY <1>1, <1>3, <2>1 DEF HandledGrows, FilesOK
    <2>2. CASE kind # "abort"
      BY <1>1, <2>2, HandledStays
    <2> QED BY <2>1, <2>2
  <1>5. FilesOK' /\ NothingLost'
    BY <1>1, <1>4, FilesStay
  <1>6. CASE d \in BestEffort
    <2> DEFINE r == [act[a] EXCEPT
                      !.idx = @ + 1,
                      !.partial = @ \/ (IsLive(a) /\ d \in ReportsErrors)]
    <2>1. act' = [act EXCEPT ![a] = r] /\ UNCHANGED bumps
      BY <1>6 DEF SendError, ActorsOK
    <2>2. r.pc = "sending" /\ r.d = d /\ r.idx = act[a].idx + 1 /\ DOMAIN r = DOMAIN act[a]
      BY <1>1, <1>2 DEF ActorOK
    <2>3. ActorOK(r, handled')
      BY <1>2, <1>6, <2>2 DEF ActorOK, Strict
    <2> HIDE DEF r
    <2>4. ActorsOK'
      BY <1>4, <2>1, <2>3, OneActor
    <2>5. BumpsOK'
      BY <2>1 DEF BumpsOK
    <2> QED BY <1>5, <2>4, <2>5
  <1>7. CASE d \notin BestEffort
    <2>1. Throws(a, kind)
      BY <1>7 DEF SendError
    <2>2. kind = "abort" /\ d \in Strict => Payloads \subseteq handled'[d]
      <3> SUFFICES ASSUME kind = "abort", d \in Strict PROVE Payloads \subseteq handled'[d]
        OBVIOUS
      <3>1. handled'[d] = handled[d] \union (act[a].idx .. NPayloads)
        BY <1>1 DEF FilesOK, Strict
      <3>2. 1 .. act[a].idx - 1 \subseteq handled[d]
        BY <1>1, <1>2 DEF ActorOK
      <3> QED BY <1>2, <3>1, <3>2 DEF Payloads, ActorOK
    <2> HIDE DEF d
    <2>3. ActorsOK' /\ BumpsOK'
      BY <1>4, <2>1, <2>2, ThrowsOK DEF d
    <2> QED BY <1>5, <2>3
  <1> QED BY <1>6, <1>7

LEMMA CoreThrowsIInv ==
  ASSUME IInv, NEW a \in Actors, NEW kind \in Kinds, CoreThrows(a, kind)
  PROVE  IInv'
  <1> USE DEF IInv
  <1>1. UNCHANGED <<json, failed, order, handled>> /\ Throws(a, kind) /\ kind # "abort"
    BY DEF CoreThrows, files
  <1>2. HandledGrows
    BY <1>1, HandledStays
  <1>3. FilesOK' /\ NothingLost'
    BY <1>1, <1>2, FilesStay
  <1>4. ActorsOK' /\ BumpsOK'
    BY <1>1, <1>2, ThrowsOK
  <1> QED BY <1>3, <1>4

LEMMA CoreReturnsIInv ==
  ASSUME IInv, NEW a \in Actors, CoreReturns(a)
  PROVE  IInv'
  <1> USE DEF IInv
  <1>1. UNCHANGED <<json, failed, order, handled>>
        /\ act[a].pc = "sending" /\ act[a].idx = NPayloads + 1
    BY DEF CoreReturns, files, history
  <1>2. HandledGrows
    BY <1>1, HandledStays
  <1>3. FilesOK' /\ NothingLost'
    BY <1>1, <1>2, FilesStay
  <1>4. CASE Goto(a, "done") /\ UNCHANGED bumps
    BY <1>2, <1>3, <1>4, GotoOK, FewerBumps
  <1>5. CASE Goto(a, "failing") /\ StartBump(a, act[a].d)
    <2>1. ActorsOK'
      BY <1>2, <1>5, GotoOK
    <2>2. BumpsOK'
      BY <1>5, StartBumpOK
    <2> QED BY <1>3, <2>1, <2>2
  <1>6. CASE Goto(a, "ack") /\ UNCHANGED bumps
    <2>1. ActorOK(act[a], handled)
      BY DEF ActorsOK
    <2>2. act[a].d \in Strict => Payloads \subseteq handled'[act[a].d]
      BY <1>1, <2>1 DEF ActorOK, Payloads
    <2>3. ActorsOK'
      BY <1>2, <1>6, <2>2, GotoAckOK
    <2> QED BY <1>3, <1>6, <2>3, FewerBumps
  <1> QED BY <1>4, <1>5, <1>6 DEF CoreReturns

-----------------------------------------------------------------------------
(* Settling.                                                               *)

LEMMA AckIInv ==
  ASSUME IInv, NEW a \in Actors, Ack(a)
  PROVE  IInv'
  <1> USE DEF IInv
  <1> DEFINE d == act[a].d
  <1>1. /\ act[a].pc = "ack" /\ json' = [json EXCEPT ![d] = Gone]
        /\ Goto(a, "unlink") /\ UNCHANGED <<failed, order, handled, bumps>>
    BY DEF Ack
  <1>2. HandledGrows
    BY <1>1, HandledStays
  <1>3. FilesOK'
    BY <1>1 DEF FilesOK
  <1>4. ActorsOK'
    BY <1>1, <1>2, GotoOK
  <1>5. NothingLost'
    <2>1. ActorOK(act[a], handled)
      BY DEF ActorsOK
    <2>2. \A x \in Strict : json[x] # Gone => json'[x] # Gone \/ Payloads \subseteq handled'[x]
      BY <1>1, <2>1 DEF ActorOK, FilesOK, Strict
    <2> QED BY <1>1, <1>2, <2>2, NothingLostKeeps
  <1>6. BumpsOK'
    BY <1>1 DEF BumpsOK
  <1> QED BY <1>3, <1>4, <1>5, <1>6

\* A step that leaves the files to themselves and moves one actor on.
LEMMA LeavesFiles ==
  ASSUME IInv, UNCHANGED <<json, failed, order, handled>>, ActorsOK', BumpsOK'
  PROVE  IInv'
  <1>1. FilesOK /\ NothingLost /\ HandledGrows
    BY HandledStays DEF IInv
  <1>2. FilesOK' /\ NothingLost'
    BY <1>1, FilesStay
  <1> QED BY <1>2 DEF IInv

LEMMA AckFailsIInv ==
  ASSUME IInv, NEW a \in Actors, AckFails(a)
  PROVE  IInv'
  <1>1. UNCHANGED <<json, failed, order, handled>>
    BY DEF AckFails, files, history
  <1>2. ActorsOK /\ BumpsOK /\ HandledGrows
    BY <1>1, HandledStays DEF IInv
  <1>3. CASE Goto(a, "done") /\ UNCHANGED bumps
    BY <1>1, <1>2, <1>3, GotoOK, FewerBumps, LeavesFiles
  <1>4. CASE Goto(a, "failing") /\ StartBump(a, act[a].d)
    BY <1>1, <1>2, <1>4, GotoOK, StartBumpOK, LeavesFiles
  <1> QED BY <1>3, <1>4 DEF AckFails

LEMMA UnlinkIInv ==
  ASSUME IInv, NEW a \in Actors, Unlink(a)
  PROVE  IInv'
  <1>1. UNCHANGED <<json, failed, order, handled, bumps>> /\ Goto(a, Settled(a))
    BY DEF Unlink, history
  <1>2. ActorsOK /\ BumpsOK /\ HandledGrows
    BY <1>1, HandledStays DEF IInv
  <1>3. Settled(a) \notin {"sending", "ack"}
    BY DEF Settled
  <1>4. ActorsOK'
    BY <1>1, <1>2, <1>3, GotoOK
  <1> QED BY <1>1, <1>2, <1>4, FewerBumps, LeavesFiles

LEMMA BumpReadIInv ==
  ASSUME IInv, NEW b \in bumps, BumpRead(b)
  PROVE  IInv'
  <1>1. UNCHANGED <<json, failed, order, handled>>
    BY DEF BumpRead, files, history
  <1>2. ActorsOK /\ BumpsOK /\ FilesOK /\ HandledGrows
    BY <1>1, HandledStays DEF IInv
  <1>3. CASE EndBump(b)
    BY <1>1, <1>2, <1>3, EndBumpOK, LeavesFiles
  <1>4. CASE /\ bumps' = (bumps \ {b}) \union {[b EXCEPT !.rc = json[b.d]]}
             /\ UNCHANGED act
    <2>1. BumpOK(b)
      BY <1>2 DEF BumpsOK
    <2>2. BumpOK([b EXCEPT !.rc = json[b.d]])
      BY <1>2, <2>1 DEF BumpOK, FilesOK
    <2>3. BumpsOK'
      BY <1>2, <1>4, <2>2 DEF BumpsOK
    <2> QED BY <1>1, <1>2, <1>4, <2>3, NoActor, LeavesFiles
  <1> QED BY <1>3, <1>4 DEF BumpRead

LEMMA BumpWriteIInv ==
  ASSUME IInv, NEW b \in bumps, BumpWrite(b)
  PROVE  IInv'
  <1> USE DEF IInv
  <1>1. /\ b.rc # Gone /\ json' = [json EXCEPT ![b.d] = b.rc + 1] /\ EndBump(b)
        /\ UNCHANGED <<failed, order, handled>>
    BY DEF BumpWrite, history
  <1>2. HandledGrows
    BY <1>1, HandledStays
  <1>3. b.d \in Deliveries => b.rc + 1 \in Nat /\ b.rc + 1 # Gone
    BY <1>1 DEF BumpsOK, BumpOK
  <1>4. FilesOK'
    BY <1>1, <1>3 DEF FilesOK
  <1>5. NothingLost'
    <2>1. \A x \in Strict : json[x] # Gone => json'[x] # Gone
      BY <1>1, <1>3 DEF FilesOK, Strict
    <2> QED BY <1>1, <1>2, <2>1, NothingLostKeeps
  <1>6. ActorsOK' /\ BumpsOK'
    BY <1>1, <1>2, EndBumpOK
  <1> QED BY <1>4, <1>5, <1>6

LEMMA BumpFailsIInv ==
  ASSUME IInv, NEW b \in bumps, BumpFails(b)
  PROVE  IInv'
  <1>1. UNCHANGED <<json, failed, order, handled>> /\ EndBump(b)
    BY DEF BumpFails, files, history
  <1>2. ActorsOK /\ BumpsOK /\ HandledGrows
    BY <1>1, HandledStays DEF IInv
  <1> QED BY <1>1, <1>2, EndBumpOK, LeavesFiles

LEMMA MoveToFailedIInv ==
  ASSUME IInv, NEW s \in Scans, MoveToFailed(s)
  PROVE  IInv'
  <1> USE DEF IInv
  <1> DEFINE d == act[s].d
  <1>1. /\ failed' = IF json[d] # Gone THEN failed \union {d} ELSE failed
        /\ json' = [json EXCEPT ![d] = Gone] /\ Goto(s, "next")
        /\ UNCHANGED <<order, handled, bumps>>
    BY DEF MoveToFailed, history
  <1>2. HandledGrows
    BY <1>1, HandledStays
  <1>3. FilesOK'
    BY <1>1 DEF FilesOK
  <1>4. NothingLost'
    <2>1. \A x \in Strict : json[x] # Gone => json'[x] # Gone \/ x \in failed'
      BY <1>1 DEF FilesOK, Strict
    <2>2. failed \subseteq failed'
      BY <1>1
    <2> QED BY <1>1, <1>2, <2>1, <2>2, NothingLostKeeps
  <1>5. ActorsOK'
    BY <1>1, <1>2, GotoOK DEF Actors
  <1>6. BumpsOK'
    BY <1>1 DEF BumpsOK
  <1> QED BY <1>3, <1>4, <1>5, <1>6

-----------------------------------------------------------------------------
(* The recovery scan: apart from a move, it leaves the files alone.        *)

LEMMA ScanGotoIInv ==
  ASSUME IInv, NEW s \in Scans, UNCHANGED <<json, failed, order, handled>>,
         NEW pc, pc \notin {"sending", "ack"}, Goto(s, pc), BumpsOK'
  PROVE  IInv'
  <1>1. ActorsOK /\ HandledGrows
    BY HandledStays DEF IInv
  <1>2. ActorsOK'
    BY <1>1, GotoOK DEF Actors
  <1> QED BY <1>2, LeavesFiles

LEMMA ScanIdleIInv ==
  ASSUME IInv, NEW s \in Scans, UNCHANGED <<json, failed, order, handled, bumps>>,
         NEW pc, pc \notin {"sending", "ack"}, NEW d,
         act' = [act EXCEPT ![s] = Idle(pc, d)]
  PROVE  IInv'
  <1>1. ActorsOK /\ BumpsOK /\ HandledGrows
    BY HandledStays DEF IInv
  <1>2. ActorOK(Idle(pc, d), handled')
    BY IdleOK
  <1>3. ActorsOK'
    BY <1>1, <1>2, OneActor DEF Actors
  <1> QED BY <1>1, <1>3, FewerBumps, LeavesFiles

LEMMA OverBudgetIInv ==
  ASSUME IInv, NEW s \in Scans, OverBudget(s)
  PROVE  IInv'
  <1>1. UNCHANGED <<json, failed, order, handled>> /\ Goto(s, "deferring")
    BY DEF OverBudget, files, history
  <1>2. BumpsOK'
    BY DEF OverBudget, BumpsOK, BumpOK, IInv, Actors
  <1> QED BY <1>1, <1>2, ScanGotoIInv

LEMMA GiveUpIInv ==
  ASSUME IInv, NEW s \in Scans, GiveUp(s)
  PROVE  IInv'
  <1> DEFINE d == Entry(s).d
             r == [[act[s] EXCEPT !.pc = "move"] EXCEPT !.d = d]
  <1>1. /\ UNCHANGED <<json, failed, order, handled, bumps>>
        /\ act' = [act EXCEPT ![s].pc = "move", ![s].d = d]
    BY DEF GiveUp, files, history
  <1> HIDE DEF d
  <1>2. ActorsOK /\ BumpsOK /\ HandledGrows
    BY <1>1, HandledStays DEF IInv
  <1>3. act' = [act EXCEPT ![s] = r]
    BY <1>1, <1>2 DEF ActorsOK, Actors
  <1>4. ActorOK(act[s], handled)
    BY <1>2 DEF ActorsOK, Actors
  <1>5. r.pc = "move" /\ r.idx = act[s].idx /\ DOMAIN r = DOMAIN act[s]
    BY <1>4 DEF ActorOK
  <1> HIDE DEF r
  <1>6. ActorOK(r, handled')
    BY <1>4, <1>5 DEF ActorOK
  <1>7. ActorsOK'
    BY <1>2, <1>3, <1>6, OneActor DEF Actors
  <1> QED BY <1>1, <1>2, <1>7, FewerBumps, LeavesFiles

LEMMA RetryIInv ==
  ASSUME IInv, NEW s \in Scans, Retry(s)
  PROVE  IInv'
  <1>1. /\ UNCHANGED <<json, failed, order, handled, bumps>>
        /\ BeginSending(s, Entry(s).d)
    BY DEF Retry, files
  <1>2. ActorsOK /\ BumpsOK /\ HandledGrows
    BY <1>1, HandledStays DEF IInv
  <1>3. ActorsOK'
    BY <1>1, <1>2, BeginOK DEF Actors
  <1> QED BY <1>1, <1>2, <1>3, FewerBumps, LeavesFiles

LEMMA CrashIInv ==
  ASSUME IInv, Crash
  PROVE  IInv'
  <1>1. UNCHANGED <<json, failed, order, handled>> /\ bumps' = {}
    BY DEF Crash, files, history
  <1>2. ActorsOK /\ HandledGrows
    BY <1>1, HandledStays DEF IInv
  <1>3. ASSUME NEW a \in Actors PROVE ActorOK(act'[a], handled')
    <2>1. \/ act'[a] = Idle("off", Gone)
          \/ act'[a] = Idle("done", a)
          \/ act'[a] = act[a]
      BY DEF Crash
    <2>2. ActorOK(act[a], handled')
      BY <1>2, ActorKeeps DEF ActorsOK
    <2> QED BY <2>1, <2>2, IdleOK
  <1>4. ActorsOK'
    BY <1>3 DEF ActorsOK, Crash
  <1>5. BumpsOK'
    BY <1>1 DEF BumpsOK
  <1> QED BY <1>1, <1>4, <1>5, LeavesFiles

LEMMA ScanStepIInv ==
  ASSUME IInv, NEW s \in Scans, ScanStep(s)
  PROVE  IInv'
  <1>0. BumpsOK
    BY DEF IInv
  <1>1. CASE ScanLoad(s)
    <2>1. UNCHANGED <<json, failed, order, handled, bumps>> /\ Goto(s, "next")
      BY <1>1 DEF ScanLoad, history
    <2> QED BY <1>0, <2>1, FewerBumps, ScanGotoIInv
  <1>2. CASE OverBudget(s)
    BY <1>2, OverBudgetIInv
  <1>3. CASE GiveUp(s)
    BY <1>3, GiveUpIInv
  <1>4. CASE SkipEntry(s)
    <2>1. UNCHANGED <<json, failed, order, handled, bumps, act>>
      BY <1>4 DEF SkipEntry, files, history
    <2>2. ActorsOK /\ HandledGrows
      BY <2>1, HandledStays DEF IInv
    <2> QED BY <1>0, <2>1, <2>2, NoActor, FewerBumps, LeavesFiles
  <1>5. CASE Retry(s)
    BY <1>5, RetryIInv
  <1>6. CASE MoveToFailed(s)
    BY <1>6, MoveToFailedIInv
  <1>7. CASE ScanEnds(s)
    <2>1. /\ UNCHANGED <<json, failed, order, handled, bumps>>
          /\ act' = [act EXCEPT ![s] = Idle("off", Gone)]
      BY <1>7 DEF ScanEnds, files, history
    <2> QED BY <2>1, ScanIdleIInv
  <1> QED BY <1>1, <1>2, <1>3, <1>4, <1>5, <1>6, <1>7 DEF ScanStep

LEMMA NextIInv == IInv /\ [Next]_vars => IInv'
  <1> SUFFICES ASSUME IInv, [Next]_vars PROVE IInv'
    OBVIOUS
  <1>1. ASSUME NEW d \in Deliveries, Enqueue(d) PROVE IInv'
    BY <1>1, EnqueueIInv
  <1>2. ASSUME NEW a \in Actors, Send(a) PROVE IInv'
    BY <1>2, SendOkIInv, CoreReturnsIInv, SendErrorIInv, CoreThrowsIInv DEF Send
  <1>3. ASSUME NEW a \in Actors, Settle(a) PROVE IInv'
    BY <1>3, AckIInv, UnlinkIInv DEF Settle
  <1>4. ASSUME NEW a \in Actors, Bump(a) PROVE IInv'
    BY <1>4, BumpReadIInv, BumpWriteIInv DEF Bump
  <1>5. ASSUME NEW s \in Scans, ScanStep(s) PROVE IInv'
    BY <1>5, ScanStepIInv
  <1>6. ASSUME NEW s \in Scans, NEW isLate \in BOOLEAN, GatewayStart(s, isLate)
        PROVE  IInv'
    <2>1. /\ UNCHANGED <<json, failed, order, handled, bumps>>
          /\ act' = [act EXCEPT ![s] = Idle("load", Gone)]
      BY <1>6 DEF GatewayStart, files, history
    <2> QED BY <2>1, ScanIdleIInv
  <1>7. CASE DiskFault
    <2>1. ASSUME NEW s \in Scans, MoveFails(s) PROVE IInv'
      <3>1. UNCHANGED <<json, failed, order, handled, bumps>> /\ Goto(s, "next")
        BY <2>1 DEF MoveFails, files, history
      <3>2. BumpsOK'
        BY <3>1, FewerBumps DEF IInv
      <3> QED BY <3>1, <3>2, ScanGotoIInv
    <2> QED
      BY <1>7, <2>1, EnqueueFailsIInv, AckFailsIInv, BumpFailsIInv DEF DiskFault
  <1>8. CASE Crash
    BY <1>8, CrashIInv
  <1>9. CASE UNCHANGED vars
    BY <1>9 DEF IInv, FilesOK, ActorsOK, BumpsOK, NothingLost, AllHandled, vars,
                files, history
  <1> QED BY <1>1, <1>2, <1>3, <1>4, <1>5, <1>6, <1>7, <1>8, <1>9 DEF Next

\* A persisted message without bestEffort leaves the queue only when all its
\* payloads were seen through or its file was set aside in failed/: whatever
\* crashes, however many scans overlap and whichever file operation fails.
THEOREM PersistedNeverLost == Spec => []NothingLost
  <1>1. Init => IInv
    BY InitIInv
  <1>2. IInv /\ [Next]_vars => IInv'
    BY NextIInv
  <1>3. IInv => NothingLost
    BY DEF IInv
  <1> QED BY <1>1, <1>2, <1>3, PTL DEF Spec

-----------------------------------------------------------------------------
(***************************************************************************)
(* Types.                                                                  *)
(***************************************************************************)
Acts == [pc : LivePCs \union ScanPCs, d : Deliveries \union {Gone}, idx : 1 .. NPayloads + 1,
         partial : BOOLEAN, tried : BOOLEAN]

\* Where an actor that has taken up a delivery can be.
Busy == {"sending", "ack", "unlink", "failing", "move"}

FileTypes ==
  /\ json \in [Deliveries -> Nat \union {Gone}]
  /\ marker \subseteq Deliveries /\ failed \subseteq Deliveries
  /\ order \in Seq(Deliveries) /\ IsInjective(order)
  /\ expired \subseteq Deliveries
  /\ starts \in Nat /\ overlaps \in Nat /\ crashes \in Nat /\ diskErrors \in Nat
  /\ acked \subseteq Deliveries /\ final \subseteq acked /\ permanent \subseteq Deliveries
  /\ attempts \in [Deliveries -> Nat]

ActTypes ==
  /\ act \in [Actors -> Acts]
  /\ \A d \in Deliveries : act[d].pc \in LivePCs /\ act[d].d = d
  /\ \A s \in Scans : act[s].pc \in ScanPCs /\ (act[s].pc \in Busy => act[s].d \in Deliveries)

CallTypes ==
  /\ pending \in [Scans -> Seq(Snapshot)]
  /\ bumps \subseteq [by : Actors, d : Deliveries, rc : Nat \union {Gone}]

\* Whatever an actor, a snapshot or a failDelivery call works on was persisted.
Known ==
  /\ \A d \in Deliveries : json[d] # Gone => d \in Range(order)
  /\ \A d \in Deliveries : act[d].pc = "new" => d \notin Range(order)
  /\ \A d \in Deliveries : d \notin Range(order) => act[d].pc \in {"new", "sending", "done"}
  /\ \A s \in Scans : act[s].pc \in Busy => act[s].d \in Range(order)
  /\ \A s \in Scans : \A i \in DOMAIN pending[s] : pending[s][i].d \in Range(order)
  /\ \A b \in bumps : b.d \in Range(order)

TypeInv ==
  /\ FileTypes
  /\ handled \in [Deliveries -> SUBSET Payloads]
  /\ ActTypes
  /\ CallTypes

LEMMA ActorKinds ==
  /\ Actors = Deliveries \union Scans
  /\ \A a \in Actors : IsLive(a) <=> a \in Deliveries
  /\ \A a \in Actors : ~IsLive(a) <=> a \in Scans
  /\ \A s \in Scans : s \notin Deliveries
BY DEF Actors, IsLive

\* What an actor's entry may become.
Fits(a, r) ==
  /\ r \in Acts
  /\ IsLive(a) => r.pc \in LivePCs /\ r.d = a
  /\ ~IsLive(a) => r.pc \in ScanPCs /\ (r.pc \in Busy => r.d \in Deliveries)

LEMMA ActStep ==
  ASSUME ActTypes, NEW a \in Actors, NEW r, Fits(a, r), act' = [act EXCEPT ![a] = r]
  PROVE  /\ ActTypes'
         /\ act'[a] = r
         /\ \A x \in Actors \ {a} : act'[x] = act[x]
<1>1. /\ act' \in [Actors -> Acts] /\ act'[a] = r
      /\ \A x \in Actors \ {a} : act'[x] = act[x]
  BY DEF ActTypes, Fits
<1>2. \A d \in Deliveries : act'[d].pc \in LivePCs /\ act'[d].d = d
  BY <1>1, ActorKinds DEF ActTypes, Fits
<1>3. \A s \in Scans : act'[s].pc \in ScanPCs /\ (act'[s].pc \in Busy => act'[s].d \in Deliveries)
  BY <1>1, ActorKinds DEF ActTypes, Fits
<1> QED
  BY <1>1, <1>2, <1>3 DEF ActTypes

\* Actor a is now at pc and works on d; the others are where they were.
View(a, pc, d) ==
  /\ ActTypes'
  /\ act'[a].pc = pc /\ act'[a].d = d
  /\ \A x \in Actors \ {a} : act'[x] = act[x]

\* No step of an actor: where each is and what it works on stays.
SameView ==
  /\ ActTypes'
  /\ \A x \in Actors : act'[x].pc = act[x].pc /\ act'[x].d = act[x].d

LEMMA GotoEffect ==
  ASSUME ActTypes, NEW a \in Actors, NEW pc, Goto(a, pc),
         IsLive(a) => pc \in LivePCs,
         ~IsLive(a) => pc \in ScanPCs /\ (pc \in Busy => act[a].pc \in Busy)
  PROVE  View(a, pc, act[a].d)
<1> DEFINE r == [act[a] EXCEPT !.pc = pc]
<1>1. act' = [act EXCEPT ![a] = r] /\ act[a] \in Acts
  BY DEF Goto, ActTypes
<1>2. r \in Acts /\ r.pc = pc /\ r.d = act[a].d
  BY <1>1 DEF Acts
<1> HIDE DEF r
<1>3. Fits(a, r)
  BY <1>2, ActorKinds DEF Fits, ActTypes
<1> QED
  BY <1>1, <1>2, <1>3, ActStep DEF View

LEMMA BeginEffect ==
  ASSUME ActTypes, NEW a \in Actors, NEW d \in Deliveries, IsLive(a) => d = a,
         BeginSending(a, d)
  PROVE  View(a, "sending", d)
<1> DEFINE r == [Idle("sending", d) EXCEPT !.tried = TRUE]
<1>1. act' = [act EXCEPT ![a] = r]
  BY DEF BeginSending
<1>2. r \in Acts /\ r.pc = "sending" /\ r.d = d
  <2>1. 1 \in 1 .. NPayloads + 1 /\ "sending" \in LivePCs \union ScanPCs
    BY DEF LivePCs
  <2>2. Idle("sending", d) \in Acts /\ Idle("sending", d).pc = "sending" /\ Idle("sending", d).d = d
    BY <2>1 DEF Acts, Idle
  <2> QED BY <2>2 DEF Acts
<1> HIDE DEF r
<1>3. Fits(a, r)
  BY <1>2 DEF Fits, LivePCs, ScanPCs
<1> QED
  BY <1>1, <1>2, <1>3, ActStep DEF View

LEMMA IdleEffect ==
  ASSUME ActTypes, NEW s \in Scans, NEW pc \in {"off", "load"},
         act' = [act EXCEPT ![s] = Idle(pc, Gone)]
  PROVE  View(s, pc, Gone)
<1> DEFINE r == Idle(pc, Gone)
<1>1. r \in Acts /\ r.pc = pc /\ r.d = Gone
  BY DEF Acts, Idle, ScanPCs
<1>2. act' = [act EXCEPT ![s] = r]
  OBVIOUS
<1> HIDE DEF r
<1>3. Fits(s, r) /\ s \in Actors
  BY <1>1, ActorKinds DEF Fits, Busy, ScanPCs
<1> QED
  BY <1>1, <1>2, <1>3, ActStep DEF View

LEMMA SendOkEffect ==
  ASSUME ActTypes, NEW a \in Actors, SendOk(a)
  PROVE  SameView /\ act[a].pc = "sending" /\ act[a].idx \in Payloads
<1> DEFINE r == [act[a] EXCEPT !.idx = @ + 1]
<1>1. /\ act' = [act EXCEPT ![a] = r] /\ act[a] \in Acts
      /\ act[a].pc = "sending" /\ act[a].idx <= NPayloads
  BY DEF SendOk, NextPayload, ActTypes
<1>2. r \in Acts /\ r.pc = act[a].pc /\ r.d = act[a].d /\ act[a].idx \in Payloads
  BY <1>1 DEF Acts, Payloads
<1> HIDE DEF r
<1>3. Fits(a, r)
  BY <1>2, ActorKinds DEF Fits, ActTypes
<1>4. /\ ActTypes' /\ act'[a] = r
      /\ \A x \in Actors \ {a} : act'[x] = act[x]
  BY <1>1, <1>3, ActStep
<1> QED
  BY <1>1, <1>2, <1>4 DEF SameView

-----------------------------------------------------------------------------
(* What each action does to the actors.                                    *)

\* A payload was seen through, or bestEffort goes on after its failure.
LooksSame ==
  /\ SameView
  /\ UNCHANGED <<files, pending, bumps, expired, bounds, acked, final, attempts, permanent>>

\* An actor leaves the payload loop without a failure to count.
Decides(a, pc) ==
  /\ act[a].pc = "sending" /\ View(a, pc, act[a].d)
  /\ UNCHANGED <<files, pending, bumps, expired, bounds, acked, final, attempts>>
  /\ \/ pc = "done" /\ ~HasEntry(a) /\ permanent' = permanent
     \/ pc = "ack" /\ HasEntry(a) /\ permanent' = permanent
     \/ pc = "move" /\ a \in Scans /\ permanent' = permanent \union {act[a].d}

\* An actor calls failDelivery.
Fails(a) ==
  /\ act[a].pc \in {"sending", "ack"} /\ HasEntry(a)
  /\ View(a, "failing", act[a].d) /\ StartBump(a, act[a].d)
  /\ UNCHANGED <<files, pending, expired, starts, overlaps, crashes, acked, final, attempts, permanent>>
  /\ diskErrors' \in {diskErrors, diskErrors + 1}

LEMMA FailingEffect ==
  ASSUME ActTypes, NEW a \in Actors, act[a].pc \in {"sending", "ack"}, Goto(a, "failing")
  PROVE  View(a, "failing", act[a].d)
BY GotoEffect DEF LivePCs, ScanPCs, Busy

LEMMA AckingEffect ==
  ASSUME ActTypes, NEW a \in Actors, act[a].pc = "sending", Goto(a, "ack")
  PROVE  View(a, "ack", act[a].d)
BY GotoEffect DEF LivePCs, ScanPCs, Busy

LEMMA DoneEffect ==
  ASSUME ActTypes, NEW a \in Actors, IsLive(a), Goto(a, "done")
  PROVE  View(a, "done", act[a].d)
BY GotoEffect DEF LivePCs

LEMMA MovingEffect ==
  ASSUME ActTypes, NEW a \in Actors, ~IsLive(a), act[a].pc = "sending", Goto(a, "move")
  PROVE  View(a, "move", act[a].d)
BY GotoEffect DEF ScanPCs, Busy

LEMMA ThrowsEffect ==
  ASSUME ActTypes, NEW a \in Actors, NEW kind, act[a].pc = "sending", Throws(a, kind),
         UNCHANGED <<files, pending, expired, bounds, acked, final, attempts>>
  PROVE  (\E pc \in {"done", "ack", "move"} : Decides(a, pc)) \/ Fails(a)
<1>1. CASE ~HasEntry(a)
  <2>1. IsLive(a)
    BY <1>1 DEF HasEntry
  <2>2. Goto(a, "done") /\ UNCHANGED bumps /\ permanent' = permanent
    BY <1>1, <2>1 DEF Throws
  <2> QED BY <1>1, <2>1, <2>2, DoneEffect DEF Decides
<1>2. CASE HasEntry(a) /\ kind = "abort"
  <2>1. Goto(a, "ack") /\ UNCHANGED bumps /\ permanent' = permanent
    BY <1>2 DEF Throws
  <2> QED BY <1>2, <2>1, AckingEffect DEF Decides
<1>3. CASE HasEntry(a) /\ kind = "permanent" /\ ~IsLive(a)
  <2>1. Goto(a, "move") /\ UNCHANGED bumps /\ permanent' = permanent \union {act[a].d}
    BY <1>3 DEF Throws
  <2> QED BY <1>3, <2>1, MovingEffect, ActorKinds DEF Decides
<1>4. CASE HasEntry(a) /\ kind # "abort" /\ ~(kind = "permanent" /\ ~IsLive(a))
  <2>1. Goto(a, "failing") /\ StartBump(a, act[a].d) /\ permanent' = permanent
    BY <1>4 DEF Throws
  <2> QED BY <1>4, <2>1, FailingEffect DEF Fails, bounds
<1> QED
  BY <1>1, <1>2, <1>3, <1>4

LEMMA BestEffortEffect ==
  ASSUME ActTypes, NEW a \in Actors, act[a].pc = "sending", act[a].idx <= NPayloads,
         NEW p \in BOOLEAN,
         act' = [act EXCEPT ![a].idx = @ + 1, ![a].partial = @ \/ p]
  PROVE  SameView
<1> DEFINE r == [act[a] EXCEPT !.idx = @ + 1, !.partial = @ \/ p]
<1>1. act' = [act EXCEPT ![a] = r] /\ act[a] \in Acts
  BY DEF ActTypes
<1>2. act[a].idx + 1 \in 1 .. NPayloads + 1
  BY <1>1 DEF Acts
<1>3. (act[a].partial \/ p) \in BOOLEAN
  OBVIOUS
<1>4. r \in Acts /\ r.pc = act[a].pc /\ r.d = act[a].d
  BY <1>1, <1>2, <1>3 DEF Acts
<1> HIDE DEF r
<1>5. Fits(a, r)
  BY <1>4, ActorKinds DEF Fits, ActTypes
<1>6. /\ ActTypes' /\ act'[a] = r
      /\ \A x \in Actors \ {a} : act'[x] = act[x]
  BY <1>1, <1>5, ActStep
<1> QED
  BY <1>4, <1>6 DEF SameView

\* What one step of the payload loop comes to.
LEMMA SendEffect ==
  ASSUME ActTypes, NEW a \in Actors, Send(a)
  PROVE  \/ LooksSame /\ act[a].pc = "sending"
         \/ \E pc \in {"done", "ack", "move"} : Decides(a, pc)
         \/ Fails(a)
<1>1. CASE SendOk(a)
  BY <1>1, SendOkEffect DEF SendOk, LooksSame
<1>2. CASE CoreReturns(a)
  <2>1. act[a].pc = "sending"
        /\ UNCHANGED <<files, pending, expired, bounds, acked, final, attempts, permanent>>
    BY <1>2 DEF CoreReturns, history
  <2>2. CASE ~HasEntry(a)
    <3>1. Goto(a, "done") /\ UNCHANGED bumps
      BY <1>2, <2>2 DEF CoreReturns
    <3> QED BY <2>1, <2>2, <3>1, DoneEffect DEF Decides, HasEntry
  <2>3. CASE HasEntry(a) /\ act[a].partial
    <3>1. Goto(a, "failing") /\ StartBump(a, act[a].d)
      BY <1>2, <2>3 DEF CoreReturns
    <3> QED BY <2>1, <2>3, <3>1, FailingEffect DEF Fails, bounds
  <2>4. CASE HasEntry(a) /\ ~act[a].partial
    <3>1. Goto(a, "ack") /\ UNCHANGED bumps
      BY <1>2, <2>4 DEF CoreReturns
    <3> QED BY <2>1, <2>4, <3>1, AckingEffect DEF Decides
  <2> QED BY <2>2, <2>3, <2>4
<1>3. ASSUME NEW kind \in Kinds, SendError(a, kind)
      PROVE  \/ LooksSame /\ act[a].pc = "sending"
             \/ \E pc \in {"done", "ack", "move"} : Decides(a, pc)
             \/ Fails(a)
  <2>1. /\ act[a].pc = "sending" /\ act[a].idx <= NPayloads
        /\ UNCHANGED <<files, pending, expired, bounds, acked, final, attempts>>
    BY <1>3 DEF SendError, NextPayload
  <2>2. CASE act[a].d \in BestEffort
    <3>1. /\ act' = [act EXCEPT ![a].idx = @ + 1,
                    ![a].partial = @ \/ (IsLive(a) /\ act[a].d \in ReportsErrors)]
          /\ UNCHANGED <<bumps, permanent>>
      BY <1>3, <2>2 DEF SendError
    <3> DEFINE p == IsLive(a) /\ act[a].d \in ReportsErrors
    <3>2. p \in BOOLEAN
      OBVIOUS
    <3>3. act' = [act EXCEPT ![a].idx = @ + 1, ![a].partial = @ \/ p]
      BY <3>1
    <3> HIDE DEF p
    <3>4. SameView
      BY <2>1, <3>2, <3>3, BestEffortEffect
    <3> QED BY <2>1, <3>1, <3>4 DEF LooksSame
  <2>3. CASE act[a].d \notin BestEffort
    BY <1>3, <2>1, <2>3, ThrowsEffect DEF SendError
  <2> QED BY <2>2, <2>3
<1>4. ASSUME NEW kind \in Kinds, CoreThrows(a, kind)
      PROVE  (\E pc \in {"done", "ack", "move"} : Decides(a, pc)) \/ Fails(a)
  <2>1. /\ act[a].pc = "sending" /\ Throws(a, kind)
        /\ UNCHANGED <<files, pending, expired, bounds, acked, final, attempts>>
    BY <1>4 DEF CoreThrows
  <2> QED BY <2>1, ThrowsEffect
<1> QED
  BY <1>1, <1>2, <1>3, <1>4 DEF Send

LEMMA AckEffect ==
  ASSUME ActTypes, NEW a \in Actors, Ack(a)
  PROVE  View(a, "unlink", act[a].d) /\ act[a].pc = "ack"
BY GotoEffect DEF Ack, LivePCs, ScanPCs, Busy

\* The catch of the wrapper, and that of the recovery loop.
LEMMA AckFailsEffect ==
  ASSUME ActTypes, NEW a \in Actors, AckFails(a)
  PROVE  \/ Fails(a)
         \/ IsLive(a) /\ View(a, "done", act[a].d) /\ act[a].pc = "ack" /\ UNCHANGED bumps
<1>1. /\ act[a].pc = "ack" /\ diskErrors' = diskErrors + 1
      /\ UNCHANGED <<files, pending, expired, starts, overlaps, crashes, acked, final, attempts, permanent>>
  BY DEF AckFails, DiskError, history
<1>2. CASE IsLive(a)
  BY <1>1, <1>2, DoneEffect DEF AckFails
<1>3. CASE ~IsLive(a)
  <2>1. Goto(a, "failing") /\ StartBump(a, act[a].d)
    BY <1>3 DEF AckFails
  <2> QED BY <1>1, <1>3, <2>1, FailingEffect DEF Fails, HasEntry
<1> QED
  BY <1>2, <1>3

LEMMA SettledEffect ==
  ASSUME ActTypes, NEW a \in Actors, Goto(a, Settled(a))
  PROVE  View(a, Settled(a), act[a].d)
BY GotoEffect DEF Settled, LivePCs, ScanPCs, Busy

LEMMA UnlinkEffect ==
  ASSUME ActTypes, NEW a \in Actors, Unlink(a)
  PROVE  View(a, Settled(a), act[a].d) /\ act[a].pc = "unlink"
BY SettledEffect DEF Unlink

LEMMA ScanMovesEffect ==
  ASSUME ActTypes, NEW s \in Scans, NEW pc \in ScanPCs \ Busy, Goto(s, pc)
  PROVE  View(s, pc, act[s].d)
BY GotoEffect, ActorKinds

\* A failDelivery call ends; so does the wait of whoever made only this one.
BumpEnds(b) ==
  /\ bumps' = bumps \ {b}
  /\ \/ act[b.by].pc = "failing" /\ View(b.by, Settled(b.by), act[b.by].d)
     \/ act[b.by].pc # "failing" /\ SameView

LEMMA EndBumpEffect ==
  ASSUME ActTypes, NEW b, b.by \in Actors, EndBump(b)
  PROVE  BumpEnds(b)
<1>1. CASE act[b.by].pc = "failing"
  BY <1>1, SettledEffect DEF EndBump, BumpEnds
<1>2. CASE act[b.by].pc # "failing"
  BY <1>2 DEF EndBump, BumpEnds, SameView, ActTypes
<1> QED
  BY <1>1, <1>2

LEMMA EntryFacts ==
  ASSUME CallTypes, NEW s \in Scans, AtEntry(s)
  PROVE  /\ act[s].pc = "next"
         /\ Entry(s) = pending[s][1] /\ Entry(s) \in Snapshot
         /\ 1 \in DOMAIN pending[s]
         /\ Entry(s).d \in Deliveries /\ Entry(s).rc \in Nat
         /\ Tail(pending[s]) \in Seq(Snapshot)
         /\ \A i \in DOMAIN Tail(pending[s]) :
              i + 1 \in DOMAIN pending[s] /\ Tail(pending[s])[i] = pending[s][i + 1]
<1>1. pending[s] \in Seq(Snapshot) /\ pending[s] # <<>> /\ act[s].pc = "next"
  BY DEF CallTypes, AtEntry
<1>2. /\ Tail(pending[s]) \in Seq(Snapshot)
      /\ Len(Tail(pending[s])) = Len(pending[s]) - 1
      /\ \A i \in 1 .. Len(Tail(pending[s])) : Tail(pending[s])[i] = pending[s][i + 1]
      /\ Len(pending[s]) \in Nat \ {0}
  BY <1>1, HeadTailProperties, EmptySeq
<1>3. /\ DOMAIN pending[s] = 1 .. Len(pending[s])
      /\ DOMAIN Tail(pending[s]) = 1 .. Len(Tail(pending[s]))
  BY <1>1, <1>2, LenProperties
<1>4. Entry(s) = pending[s][1] /\ 1 \in DOMAIN pending[s] /\ pending[s][1] \in Snapshot
  BY <1>1, <1>2, <1>3, ElementOfSeq DEF Entry
<1> QED
  BY <1>1, <1>2, <1>3, <1>4 DEF Snapshot

LEMMA GiveUpEffect ==
  ASSUME ActTypes, CallTypes, NEW s \in Scans, GiveUp(s)
  PROVE  View(s, "move", Entry(s).d)
<1> DEFINE e == Entry(s).d
           r == [[act[s] EXCEPT !.pc = "move"] EXCEPT !.d = e]
<1>1. e \in Deliveries
  BY EntryFacts DEF GiveUp
<1>2. act' = [act EXCEPT ![s].pc = "move", ![s].d = e]
  BY DEF GiveUp
<1> HIDE DEF e
<1>3. act' = [act EXCEPT ![s] = r] /\ act[s] \in Acts /\ s \in Actors
  BY <1>2, ActorKinds DEF ActTypes
<1>4. r \in Acts /\ r.pc = "move" /\ r.d = e
  BY <1>1, <1>3 DEF Acts, ScanPCs
<1> HIDE DEF r
<1>5. Fits(s, r)
  BY <1>1, <1>4, ActorKinds DEF Fits, ScanPCs
<1> QED
  BY <1>3, <1>4, <1>5, ActStep DEF View, e

LEMMA RetryEffect ==
  ASSUME ActTypes, CallTypes, NEW s \in Scans, Retry(s)
  PROVE  View(s, "sending", Entry(s).d)
<1>1. Entry(s).d \in Deliveries /\ s \in Actors /\ ~IsLive(s)
  BY EntryFacts, ActorKinds DEF Retry
<1> QED
  BY <1>1, BeginEffect DEF Retry

LEMMA CrashEffect ==
  ASSUME ActTypes, Crash
  PROVE  /\ ActTypes'
         /\ \A s \in Scans : act'[s].pc = "off"
         /\ \A d \in Deliveries : act'[d].pc = IF act[d].pc = "new" THEN "new" ELSE "done"
<1>1. act' = [a \in Actors |-> IF a \in Scans THEN Idle("off", Gone)
                               ELSE IF act[a].pc = "new" THEN act[a] ELSE Idle("done", a)]
  BY DEF Crash
<1>2. Idle("off", Gone) \in Acts /\ Idle("off", Gone).pc = "off"
  BY DEF Idle, Acts, ScanPCs
<1>3. \A d \in Deliveries : /\ Idle("done", d) \in Acts
                            /\ Idle("done", d).pc = "done" /\ Idle("done", d).d = d
  BY DEF Idle, Acts, LivePCs
<1>4. \A s \in Scans : act'[s] = Idle("off", Gone)
  BY <1>1, ActorKinds
<1>5. \A d \in Deliveries : act'[d] = IF act[d].pc = "new" THEN act[d] ELSE Idle("done", d)
  BY <1>1, ActorKinds
<1>6. \A d \in Deliveries :
        /\ act'[d] \in Acts /\ act'[d].d = d
        /\ act'[d].pc = IF act[d].pc = "new" THEN "new" ELSE "done"
  BY <1>3, <1>5, ActorKinds DEF ActTypes
<1>7. act' \in [Actors -> Acts]
  BY <1>1, <1>2, <1>4, <1>6, ActorKinds
<1> QED
  BY <1>2, <1>4, <1>6, <1>7 DEF ActTypes, LivePCs, ScanPCs, Busy

-----------------------------------------------------------------------------
(* The types and Known are inductive.                                      *)

\* Actor a goes on with its delivery; its file may leave the directory.
GoesOn(a) ==
  /\ act[a].pc \in {"sending", "ack", "unlink", "move"}
  /\ View(a, act'[a].pc, act[a].d)
  /\ act'[a].pc \in {"ack", "unlink", "move", Settled(a)}
  /\ act'[a].pc = "done" \/ HasEntry(a)
  /\ UNCHANGED <<order, pending, bumps>>
  /\ json' = json \/ json' = [json EXCEPT ![act[a].d] = Gone]

LEMMA RangeOrder ==
  ASSUME FileTypes
  PROVE  Range(order) \subseteq Deliveries
BY RangeOfSeq DEF FileTypes

LEMMA WorksOnDelivery ==
  ASSUME ActTypes, NEW a \in Actors, act[a].pc \in Busy
  PROVE  act[a].d \in Deliveries
BY ActorKinds DEF ActTypes

LEMMA ViewKnown ==
  ASSUME TypeInv, Known, NEW a \in Actors, NEW pc, View(a, pc, act[a].d),
         act[a].pc \in Busy, pc # "new",
         pc \in {"sending", "done"} \/ HasEntry(a),
         UNCHANGED <<order, pending>>,
         \A d \in Deliveries : json'[d] # Gone => d \in Range(order),
         \A b \in bumps' : b.d \in Range(order)
  PROVE  Known'
<1>1. \A d \in Deliveries : act'[d].pc = "new" => d \notin Range(order)
  BY ActorKinds DEF View, Known
<1>2. \A d \in Deliveries : d \notin Range(order) => act'[d].pc \in {"new", "sending", "done"}
  BY ActorKinds DEF View, Known, HasEntry
<1>3. \A s \in Scans : act'[s].pc \in Busy => act'[s].d \in Range(order)
  BY ActorKinds DEF View, Known
<1> QED
  BY <1>1, <1>2, <1>3 DEF Known

LEMMA SameViewKnown ==
  ASSUME TypeInv, Known, SameView, UNCHANGED <<order, pending>>,
         \A d \in Deliveries : json'[d] # Gone => d \in Range(order),
         \A b \in bumps' : b.d \in Range(order)
  PROVE  Known'
BY ActorKinds DEF SameView, Known

LEMMA GoesOnKnown ==
  ASSUME TypeInv, Known, NEW a \in Actors, GoesOn(a)
  PROVE  Known'
<1>1. act[a].pc \in Busy /\ act[a].d \in Deliveries
  BY WorksOnDelivery DEF GoesOn, Busy, TypeInv
<1>2. act'[a].pc # "new"
  BY DEF GoesOn, Settled
<1>3. \A d \in Deliveries : json'[d] # Gone => d \in Range(order)
  BY <1>1 DEF GoesOn, Known, TypeInv, FileTypes
<1> QED
  BY <1>1, <1>2, <1>3, ViewKnown DEF GoesOn, Known

LEMMA DecidesGoesOn ==
  ASSUME TypeInv, NEW a \in Actors, NEW pc \in {"done", "ack", "move"}, Decides(a, pc)
  PROVE  GoesOn(a)
<1>1. /\ act[a].pc = "sending" /\ View(a, pc, act[a].d) /\ act'[a].pc = pc
      /\ UNCHANGED <<order, pending, bumps, json>>
  BY DEF Decides, View, files
<1>2. pc = "done" \/ HasEntry(a)
  BY ActorKinds DEF Decides, HasEntry
<1>3. pc = "done" => IsLive(a)
  BY <1>2 DEF Decides, HasEntry
<1> QED
  BY <1>1, <1>2, <1>3 DEF GoesOn, Settled

LEMMA EntryOf ==
  ASSUME TypeInv, Known, NEW a \in Actors, act[a].pc \in Busy, HasEntry(a)
  PROVE  act[a].d \in Range(order)
BY ActorKinds DEF HasEntry, Known, TypeInv, ActTypes

LEMMA FailsTypes ==
  ASSUME TypeInv, Known, NEW a \in Actors, Fails(a)
  PROVE  FileTypes' /\ CallTypes' /\ Known'
<1>1. act[a].pc \in Busy /\ act[a].d \in Range(order) /\ act[a].d \in Deliveries
  BY EntryOf, WorksOnDelivery DEF Fails, Busy, TypeInv
<1>2. bumps' = bumps \union {[by |-> a, d |-> act[a].d, rc |-> Gone]}
  BY DEF Fails, StartBump
<1>3. FileTypes'
  BY DEF Fails, TypeInv, FileTypes, files
<1>4. CallTypes'
  BY <1>1, <1>2 DEF Fails, TypeInv, CallTypes
<1>5. /\ \A d \in Deliveries : json'[d] # Gone => d \in Range(order)
      /\ \A b \in bumps' : b.d \in Range(order)
      /\ UNCHANGED <<order, pending>>
  BY <1>1, <1>2 DEF Fails, Known, files
<1> QED
  BY <1>1, <1>3, <1>4, <1>5, ViewKnown DEF Fails

LEMMA SendTypes ==
  ASSUME TypeInv, Known, NEW a \in Actors, Send(a)
  PROVE  TypeInv' /\ Known'
<1>1. handled' \in [Deliveries -> SUBSET Payloads]
  <2>1. CASE SendOk(a)
    <3>1. act[a].idx \in Payloads
      BY <2>1, SendOkEffect DEF TypeInv
    <3> QED BY <2>1, <3>1 DEF SendOk, TypeInv
  <2>2. CASE CoreReturns(a) \/ \E kind \in Kinds : CoreThrows(a, kind)
    BY <2>2 DEF CoreReturns, CoreThrows, history, TypeInv
  <2>3. ASSUME NEW kind \in Kinds, SendError(a, kind)
        PROVE  handled' \in [Deliveries -> SUBSET Payloads]
    <3>1. act[a].idx \in 1 .. NPayloads + 1
      BY DEF TypeInv, ActTypes, Acts
    <3>2. act[a].idx .. NPayloads \subseteq Payloads
      BY <3>1 DEF Payloads
    <3>3. \/ handled' = handled
          \/ handled' = [handled EXCEPT ![act[a].d] = @ \union (act[a].idx .. NPayloads)]
      BY <2>3 DEF SendError
    <3> QED BY <3>2, <3>3 DEF TypeInv
  <2> QED BY <2>1, <2>2, <2>3 DEF Send
<1>2. CASE LooksSame
  <2>1. FileTypes' /\ CallTypes' /\ ActTypes'
    BY <1>2 DEF LooksSame, SameView, TypeInv, FileTypes, CallTypes, files, bounds
  <2>2. Known'
    BY <1>2, SameViewKnown DEF LooksSame, Known, files
  <2> QED BY <1>1, <2>1, <2>2 DEF TypeInv
<1>3. ASSUME NEW pc \in {"done", "ack", "move"}, Decides(a, pc)
      PROVE  TypeInv' /\ Known'
  <2>1. Known'
    BY <1>3, DecidesGoesOn, GoesOnKnown
  <2>2. act[a].d \in Deliveries
    BY <1>3, WorksOnDelivery DEF Decides, Busy, TypeInv
  <2>3. FileTypes' /\ CallTypes' /\ ActTypes'
    BY <1>3, <2>2 DEF Decides, View, TypeInv, FileTypes, CallTypes, files, bounds
  <2> QED BY <1>1, <2>1, <2>3 DEF TypeInv
<1>4. CASE Fails(a)
  BY <1>1, <1>4, FailsTypes DEF TypeInv, Fails, View
<1> QED
  BY <1>2, <1>3, <1>4, SendEffect DEF TypeInv

LEMMA AckTypes ==
  ASSUME TypeInv, Known, NEW a \in Actors, Ack(a)
  PROVE  TypeInv' /\ Known' /\ GoesOn(a)
<1>1. View(a, "unlink", act[a].d) /\ act[a].pc = "ack" /\ act'[a].pc = "unlink"
  BY AckEffect DEF TypeInv, View
<1>2. act[a].d \in Deliveries /\ HasEntry(a)
  BY <1>1, WorksOnDelivery, ActorKinds DEF Busy, TypeInv, Known, HasEntry
<1>3. /\ UNCHANGED <<failed, order, pending, bumps, expired, bounds, handled, attempts, permanent>>
      /\ json' = [json EXCEPT ![act[a].d] = Gone]
      /\ marker' \in {marker, marker \union {act[a].d}}
      /\ \/ acked' = acked /\ final' = final
         \/ acked' = acked \union {act[a].d} /\ final' \in {final, final \union {act[a].d}}
  BY DEF Ack
<1>4. FileTypes' /\ CallTypes'
  BY <1>2, <1>3 DEF TypeInv, FileTypes, CallTypes, bounds
<1>5. GoesOn(a)
  BY <1>1, <1>2, <1>3 DEF GoesOn
<1> QED
  BY <1>1, <1>3, <1>4, <1>5, GoesOnKnown DEF TypeInv, View

LEMMA AckFailsTypes ==
  ASSUME TypeInv, Known, NEW a \in Actors, AckFails(a)
  PROVE  TypeInv' /\ Known' /\ (Fails(a) \/ GoesOn(a))
<1>1. /\ UNCHANGED <<files, pending, expired, starts, overlaps, crashes, history>>
      /\ diskErrors' = diskErrors + 1
  BY DEF AckFails, DiskError
<1>2. CASE Fails(a)
  BY <1>1, <1>2, FailsTypes DEF TypeInv, Fails, View, history
<1>3. CASE IsLive(a) /\ View(a, "done", act[a].d) /\ act[a].pc = "ack" /\ UNCHANGED bumps
  <2>1. GoesOn(a)
    BY <1>1, <1>3 DEF GoesOn, View, Settled, files
  <2>2. FileTypes' /\ CallTypes'
    BY <1>1, <1>3 DEF TypeInv, FileTypes, CallTypes, files, history
  <2> QED BY <1>1, <1>3, <2>1, <2>2, GoesOnKnown DEF TypeInv, View, history
<1> QED
  BY <1>2, <1>3, AckFailsEffect DEF TypeInv

LEMMA UnlinkTypes ==
  ASSUME TypeInv, Known, NEW a \in Actors, Unlink(a)
  PROVE  TypeInv' /\ Known' /\ GoesOn(a)
<1>1. View(a, Settled(a), act[a].d) /\ act[a].pc = "unlink" /\ act'[a].pc = Settled(a)
  BY UnlinkEffect DEF TypeInv, View
<1>2. /\ UNCHANGED <<json, failed, order, pending, bumps, expired, bounds, history>>
      /\ marker' = marker \ {act[a].d}
  BY DEF Unlink
<1>3. FileTypes' /\ CallTypes'
  BY <1>2 DEF TypeInv, FileTypes, CallTypes, bounds, history
<1>4. act'[a].pc = "done" \/ HasEntry(a)
  BY <1>1 DEF Settled, HasEntry
<1>5. GoesOn(a)
  BY <1>1, <1>2, <1>4 DEF GoesOn
<1> QED
  BY <1>1, <1>2, <1>3, <1>5, GoesOnKnown DEF TypeInv, View, history

LEMMA MoveToFailedTypes ==
  ASSUME TypeInv, Known, NEW s \in Scans, MoveToFailed(s) \/ MoveFails(s)
  PROVE  TypeInv' /\ Known' /\ GoesOn(s)
<1>1. act[s].pc = "move" /\ Goto(s, "next") /\ s \in Actors /\ ~IsLive(s)
  BY ActorKinds DEF MoveToFailed, MoveFails
<1>2. View(s, "next", act[s].d) /\ act'[s].pc = "next"
  BY <1>1, ScanMovesEffect DEF TypeInv, View, ScanPCs, Busy
<1>3. act[s].d \in Deliveries
  BY <1>1, WorksOnDelivery DEF TypeInv, Busy
<1>4. /\ UNCHANGED <<marker, order, pending, bumps, expired, starts, overlaps, crashes, history>>
      /\ diskErrors' \in {diskErrors, diskErrors + 1}
      /\ json' = json \/ json' = [json EXCEPT ![act[s].d] = Gone]
      /\ failed' \in {failed, failed \union {act[s].d}}
  BY DEF MoveToFailed, MoveFails, DiskError, files, bounds
<1>5. FileTypes' /\ CallTypes'
  <2>1. json' \in [Deliveries -> Nat \union {Gone}] /\ failed' \subseteq Deliveries
    BY <1>3, <1>4 DEF TypeInv, FileTypes
  <2>2. diskErrors' \in Nat
    BY <1>4 DEF TypeInv, FileTypes
  <2> QED BY <1>4, <2>1, <2>2 DEF TypeInv, FileTypes, CallTypes, history
<1>6. GoesOn(s)
  BY <1>1, <1>2, <1>4 DEF GoesOn, Settled, HasEntry
<1> QED
  BY <1>1, <1>2, <1>4, <1>5, <1>6, GoesOnKnown DEF TypeInv, View, history

LEMMA BumpEndsKnown ==
  ASSUME TypeInv, Known, NEW b \in bumps, BumpEnds(b), UNCHANGED <<order, pending>>,
         \A d \in Deliveries : json'[d] # Gone => d \in Range(order)
  PROVE  Known' /\ ActTypes' /\ CallTypes'
<1>1. b.by \in Actors /\ bumps' \subseteq bumps
  BY DEF BumpEnds, TypeInv, CallTypes
<1>2. CallTypes'
  BY <1>1 DEF TypeInv, CallTypes
<1>3. \A c \in bumps' : c.d \in Range(order)
  BY <1>1 DEF Known
<1>4. CASE SameView
  BY <1>2, <1>3, <1>4, SameViewKnown DEF SameView
<1>5. CASE act[b.by].pc = "failing" /\ View(b.by, Settled(b.by), act[b.by].d)
  <2>1. Settled(b.by) = "done" \/ HasEntry(b.by)
    BY DEF Settled, HasEntry
  <2>2. Settled(b.by) # "new" /\ act[b.by].pc \in Busy
    BY <1>5 DEF Settled, Busy
  <2> QED BY <1>1, <1>2, <1>3, <1>5, <2>1, <2>2, ViewKnown DEF View
<1> QED
  BY <1>4, <1>5 DEF BumpEnds

\* What a failDelivery call does to its file.
LEMMA BumpTypes ==
  ASSUME TypeInv, Known, NEW b \in bumps, BumpRead(b) \/ BumpWrite(b) \/ BumpFails(b)
  PROVE  TypeInv' /\ Known'
<1>1. b.by \in Actors /\ b.d \in Deliveries /\ b.rc \in Nat \union {Gone} /\ b.d \in Range(order)
  BY DEF TypeInv, CallTypes, Known
<1>2. CASE BumpRead(b) /\ json[b.d] # Gone
  <2> DEFINE c == [b EXCEPT !.rc = json[b.d]]
  <2>1. UNCHANGED <<files, act, pending, expired, bounds, history>>
        /\ bumps' = (bumps \ {b}) \union {c}
    BY <1>2 DEF BumpRead
  <2>2. /\ c \in [by : Actors, d : Deliveries, rc : Nat \union {Gone}] /\ c.d = b.d
    BY <1>1, <1>2 DEF TypeInv, CallTypes, FileTypes
  <2> HIDE DEF c
  <2>3. TypeInv'
    BY <2>1, <2>2 DEF TypeInv, FileTypes, ActTypes, CallTypes, files, bounds, history
  <2>4. \A x \in bumps' : x.d \in Range(order)
    BY <1>1, <2>1, <2>2 DEF Known
  <2>5. SameView
    BY <2>1, <2>3 DEF SameView, TypeInv
  <2> QED BY <2>1, <2>3, <2>4, <2>5, SameViewKnown DEF Known, files
<1>3. CASE BumpRead(b) /\ json[b.d] = Gone
  <2>1. UNCHANGED <<files, pending, expired, bounds, history>> /\ EndBump(b)
    BY <1>3 DEF BumpRead
  <2>2. Known' /\ ActTypes' /\ CallTypes'
    BY <1>1, <2>1, EndBumpEffect, BumpEndsKnown DEF TypeInv, Known, files
  <2> QED BY <2>1, <2>2 DEF TypeInv, FileTypes, files, bounds, history
<1>4. CASE BumpWrite(b)
  <2>1. /\ UNCHANGED <<marker, failed, order, pending, bounds, history>> /\ EndBump(b)
        /\ expired' = expired \ {b.d}
        /\ b.rc # Gone /\ json' = [json EXCEPT ![b.d] = b.rc + 1]
    BY <1>4 DEF BumpWrite
  <2>2. json' \in [Deliveries -> Nat \union {Gone}]
    BY <1>1, <2>1 DEF TypeInv, FileTypes
  <2>3. \A d \in Deliveries : json'[d] # Gone => d \in Range(order)
    BY <1>1, <2>1 DEF TypeInv, FileTypes, Known
  <2>4. Known' /\ ActTypes' /\ CallTypes'
    BY <1>1, <2>1, <2>3, EndBumpEffect, BumpEndsKnown DEF TypeInv
  <2> QED BY <2>1, <2>2, <2>4 DEF TypeInv, FileTypes, bounds, history
<1>5. CASE BumpFails(b)
  <2>1. /\ UNCHANGED <<files, pending, expired, starts, overlaps, crashes, history>> /\ EndBump(b)
        /\ diskErrors' = diskErrors + 1
    BY <1>5 DEF BumpFails, DiskError
  <2>2. Known' /\ ActTypes' /\ CallTypes'
    BY <1>1, <2>1, EndBumpEffect, BumpEndsKnown DEF TypeInv, Known, files
  <2> QED BY <2>1, <2>2 DEF TypeInv, FileTypes, files, history
<1> QED
  BY <1>2, <1>3, <1>4, <1>5

\* Sending begins: the attempt is counted, up to the bound.
LEMMA CountTypes ==
  ASSUME attempts \in [Deliveries -> Nat], NEW a, NEW d \in Deliveries, BeginSending(a, d)
  PROVE  /\ attempts' \in [Deliveries -> Nat]
         /\ attempts'[d] <= attempts[d] + 1
         /\ \A x \in Deliveries \ {d} : attempts'[x] = attempts[x]
BY DEF BeginSending

LEMMA EnqueueTypes ==
  ASSUME TypeInv, Known, NEW d \in Deliveries, Enqueue(d)
  PROVE  TypeInv' /\ Known' /\ View(d, "sending", d)
<1>1. /\ act[d].pc = "new" /\ json' = [json EXCEPT ![d] = 0] /\ order' = Append(order, d)
      /\ BeginSending(d, d) /\ d \notin Range(order)
      /\ UNCHANGED <<marker, failed, pending, bumps, expired, bounds, handled, acked, final, permanent>>
  BY DEF Enqueue, Known
<1>2. View(d, "sending", d)
  BY <1>1, BeginEffect, ActorKinds DEF TypeInv
<1>3. order' \in Seq(Deliveries) /\ IsInjective(order')
  BY <1>1, InjectiveAppend DEF TypeInv, FileTypes
<1>4. Range(order') = Range(order) \union {d}
  BY <1>1, AppendRange DEF TypeInv, FileTypes
<1>5. json' \in [Deliveries -> Nat \union {Gone}]
      /\ \A x \in Deliveries \ {d} : json'[x] = json[x]
  BY <1>1 DEF TypeInv, FileTypes
<1>6. attempts' \in [Deliveries -> Nat]
  BY <1>1, CountTypes DEF TypeInv, FileTypes
<1>7. TypeInv'
  BY <1>1, <1>2, <1>3, <1>5, <1>6 DEF TypeInv, FileTypes, CallTypes, View, bounds
<1>8. Known'
  BY <1>1, <1>2, <1>4, <1>5, ActorKinds DEF Known, View
<1> QED
  BY <1>2, <1>7, <1>8

LEMMA EnqueueFailsTypes ==
  ASSUME TypeInv, Known, NEW d \in Deliveries, EnqueueFails(d)
  PROVE  TypeInv' /\ Known' /\ View(d, "sending", d)
<1>1. /\ act[d].pc = "new" /\ d \notin Range(order) /\ diskErrors' = diskErrors + 1
      /\ BeginSending(d, d)
      /\ UNCHANGED <<files, pending, bumps, expired, starts, overlaps, crashes, handled, acked, final, permanent>>
  BY DEF EnqueueFails, Known, DiskError
<1>2. View(d, "sending", d)
  BY <1>1, BeginEffect, ActorKinds DEF TypeInv
<1>3. attempts' \in [Deliveries -> Nat]
  BY <1>1, CountTypes DEF TypeInv, FileTypes
<1>4. TypeInv'
  BY <1>1, <1>2, <1>3 DEF TypeInv, FileTypes, CallTypes, View, files
<1>5. Known'
  BY <1>1, <1>2, ActorKinds DEF Known, View, files
<1> QED
  BY <1>2, <1>4, <1>5

LEMMA GatewayStartTypes ==
  ASSUME TypeInv, Known, NEW s \in Scans, NEW isLate \in BOOLEAN, GatewayStart(s, isLate)
  PROVE  TypeInv' /\ Known' /\ View(s, "load", Gone)
<1>1. /\ UNCHANGED <<files, pending, bumps, overlaps, crashes, diskErrors, history>>
      /\ expired' \in {expired, Deliveries} /\ starts' \in {starts, starts + 1}
  BY DEF GatewayStart
<1>2. View(s, "load", Gone)
  BY IdleEffect DEF GatewayStart, TypeInv
<1>3. TypeInv'
  BY <1>1, <1>2 DEF TypeInv, FileTypes, CallTypes, View, files, history
<1>4. Known'
  BY <1>1, <1>2, ActorKinds DEF Known, View, files, Busy
<1> QED
  BY <1>2, <1>3, <1>4

LEMMA ScanEndsTypes ==
  ASSUME TypeInv, Known, NEW s \in Scans, ScanEnds(s)
  PROVE  TypeInv' /\ Known' /\ View(s, "off", Gone)
<1>1. UNCHANGED <<files, pending, bumps, expired, bounds, history>>
  BY DEF ScanEnds
<1>2. View(s, "off", Gone)
  BY IdleEffect DEF ScanEnds, TypeInv
<1>3. TypeInv'
  BY <1>1, <1>2 DEF TypeInv, FileTypes, CallTypes, View, files, bounds, history
<1>4. Known'
  BY <1>1, <1>2, ActorKinds DEF Known, View, files, Busy
<1> QED
  BY <1>2, <1>3, <1>4

\* The snapshot of a scan: every entry with a file, once, with its count.
LEMMA LoadFacts ==
  ASSUME TypeInv, Known, NEW q \in OldestFirst({d \in Deliveries : json[d] # Gone})
  PROVE  /\ [i \in DOMAIN q |-> [d |-> q[i], rc |-> json[q[i]]]] \in Seq(Snapshot)
         /\ \A i \in DOMAIN q : q[i] \in Deliveries /\ json[q[i]] # Gone
         /\ \A i, j \in DOMAIN q : q[i] = q[j] => i = j
<1> DEFINE S == {d \in Deliveries : json[d] # Gone}
           p == [i \in DOMAIN q |-> [d |-> q[i], rc |-> json[q[i]]]]
<1>1. IsFiniteSet(Range(order))
  <2>1. order \in [1 .. Len(order) -> Range(order)] /\ Len(order) \in Nat
        /\ Range(order) = {order[i] : i \in 1 .. Len(order)}
    BY LenProperties, RangeEquality DEF TypeInv, FileTypes
  <2>2. order \in Surjection(1 .. Len(order), Range(order))
    BY <2>1 DEF Surjection
  <2>3. IsFiniteSet(1 .. Len(order))
    <3>1. \A m \in Nat : IsFiniteSet(1 .. m)
      <4>1. \A m \in Nat : 1 \in Int /\ m \in Int
        OBVIOUS
      <4> QED BY <4>1, FS_Interval, Zenon
    <3> QED BY <2>1, <3>1
  <2> QED BY <2>2, <2>3, FS_Surjection
<1>2. IsFiniteSet(S) /\ Cardinality(S) \in Nat
  <2>1. S \in SUBSET Range(order)
    BY DEF Known
  <2>2. IsFiniteSet(S)
    BY <1>1, <2>1, FS_Subset
  <2> QED BY <2>2, FS_CardinalityType
<1>3. q \in [1 .. Cardinality(S) -> S] /\ \A i, j \in 1 .. Cardinality(S) : i # j => q[i] # q[j]
  BY DEF OldestFirst, SetToSeqs
<1> DEFINE n == Cardinality(S)
<1> HIDE DEF n
<1>4. n \in Nat /\ DOMAIN q = 1 .. n /\ \A i \in 1 .. n : q[i] \in S
  BY <1>2, <1>3 DEF n
<1>5. p \in [1 .. n -> Snapshot]
  BY <1>4 DEF Snapshot, TypeInv, FileTypes
<1>6. p \in Seq(Snapshot)
  BY <1>4, <1>5, SeqDef
<1> QED
  BY <1>3, <1>4, <1>6 DEF n

LEMMA ScanLoadTypes ==
  ASSUME TypeInv, Known, NEW s \in Scans, ScanLoad(s)
  PROVE  /\ TypeInv' /\ Known' /\ View(s, "next", act[s].d)
         /\ \A t \in Scans \ {s} : pending'[t] = pending[t]
         /\ \A i \in DOMAIN pending'[s] :
              LET e == pending'[s][i] IN
              /\ e.d \in Deliveries /\ json[e.d] # Gone /\ e.rc = json[e.d]
              /\ \A j \in DOMAIN pending'[s] : pending'[s][j].d = e.d => i = j
<1>1. PICK q \in OldestFirst({d \in Deliveries : json[d] # Gone}) :
        pending' = [pending EXCEPT ![s] = [i \in DOMAIN q |-> [d |-> q[i], rc |-> json[q[i]]]]]
  BY DEF ScanLoad
<1> DEFINE p == [i \in DOMAIN q |-> [d |-> q[i], rc |-> json[q[i]]]]
<1>2. /\ p \in Seq(Snapshot)
      /\ \A i \in DOMAIN p : p[i].d \in Deliveries /\ json[p[i].d] # Gone /\ p[i].rc = json[p[i].d]
      /\ \A i, j \in DOMAIN p : p[i].d = p[j].d => i = j
  BY LoadFacts
<1>3. pending' = [pending EXCEPT ![s] = p]
  BY <1>1
<1> HIDE DEF p
<1>4. /\ pending' \in [Scans -> Seq(Snapshot)] /\ pending'[s] = p
      /\ \A t \in Scans \ {s} : pending'[t] = pending[t]
  BY <1>2, <1>3 DEF TypeInv, CallTypes
<1>5. /\ UNCHANGED <<json, failed, order, bumps, expired, starts, crashes, diskErrors, history>>
      /\ marker' = {} /\ act[s].pc = "load" /\ overlaps' \in {overlaps, overlaps + 1}
  BY DEF ScanLoad, CountOverlap
<1>6. View(s, "next", act[s].d)
  BY ScanMovesEffect DEF ScanLoad, TypeInv, ScanPCs, Busy
<1>7. TypeInv'
  BY <1>4, <1>5, <1>6 DEF TypeInv, FileTypes, CallTypes, View, history
<1>8. Known'
  <2>1. \A i \in DOMAIN p : p[i].d \in Range(order)
    BY <1>2 DEF Known
  <2>2. \A t \in Scans : \A i \in DOMAIN pending'[t] : pending'[t][i].d \in Range(order)
    BY <1>4, <2>1 DEF Known
  <2> QED BY <1>5, <1>6, <2>2, ActorKinds DEF Known, View, Busy
<1> QED
  BY <1>2, <1>4, <1>6, <1>7, <1>8

\* The entry at the head of the snapshot is taken up or passed over.
LEMMA TakeEntryTypes ==
  ASSUME TypeInv, Known, NEW s \in Scans, AtEntry(s), TakeEntry(s)
  PROVE  /\ pending' \in [Scans -> Seq(Snapshot)]
         /\ pending'[s] = Tail(pending[s])
         /\ \A t \in Scans \ {s} : pending'[t] = pending[t]
         /\ Entry(s).d \in Range(order)
         /\ \A t \in Scans : \A i \in DOMAIN pending'[t] : pending'[t][i].d \in Range(order)
<1>1. /\ Entry(s) = pending[s][1] /\ 1 \in DOMAIN pending[s]
      /\ Tail(pending[s]) \in Seq(Snapshot)
      /\ \A i \in DOMAIN Tail(pending[s]) :
           i + 1 \in DOMAIN pending[s] /\ Tail(pending[s])[i] = pending[s][i + 1]
  BY EntryFacts DEF TypeInv
<1> DEFINE p == Tail(pending[s])
<1>2. pending' = [pending EXCEPT ![s] = p]
  BY DEF TakeEntry
<1>3. \A i \in DOMAIN p : p[i].d \in Range(order)
  BY <1>1 DEF Known
<1>4. p \in Seq(Snapshot)
  BY <1>1
<1> HIDE DEF p
<1>5. /\ pending' \in [Scans -> Seq(Snapshot)] /\ pending'[s] = p
      /\ \A t \in Scans \ {s} : pending'[t] = pending[t]
  BY <1>2, <1>4 DEF TypeInv, CallTypes
<1> QED
  BY <1>1, <1>3, <1>5 DEF Known, p

LEMMA GiveUpTypes ==
  ASSUME TypeInv, Known, NEW s \in Scans, GiveUp(s)
  PROVE  TypeInv' /\ Known'
<1>1. UNCHANGED <<files, bumps, expired, bounds, history>> /\ AtEntry(s) /\ TakeEntry(s)
  BY DEF GiveUp
<1>2. View(s, "move", Entry(s).d)
  BY GiveUpEffect DEF TypeInv
<1>3. TypeInv'
  BY <1>1, <1>2, TakeEntryTypes DEF TypeInv, FileTypes, CallTypes, View, files, bounds, history
<1>4. Known'
  BY <1>1, <1>2, TakeEntryTypes, ActorKinds DEF Known, View, files
<1> QED
  BY <1>3, <1>4

LEMMA SkipEntryTypes ==
  ASSUME TypeInv, Known, NEW s \in Scans, SkipEntry(s)
  PROVE  TypeInv' /\ Known'
<1>1. UNCHANGED <<files, act, bumps, expired, bounds, history>> /\ AtEntry(s) /\ TakeEntry(s)
  BY DEF SkipEntry
<1>2. TypeInv'
  BY <1>1, TakeEntryTypes DEF TypeInv, FileTypes, CallTypes, ActTypes, files, bounds, history
<1>3. Known'
  BY <1>1, TakeEntryTypes DEF Known, files
<1> QED
  BY <1>2, <1>3

LEMMA RetryTypes ==
  ASSUME TypeInv, Known, NEW s \in Scans, Retry(s)
  PROVE  TypeInv' /\ Known'
<1>1. /\ UNCHANGED <<files, bumps, expired, bounds, handled, acked, final, permanent>>
      /\ AtEntry(s) /\ TakeEntry(s) /\ BeginSending(s, Entry(s).d)
  BY DEF Retry
<1>2. View(s, "sending", Entry(s).d)
  BY RetryEffect DEF TypeInv
<1>3. attempts' \in [Deliveries -> Nat]
  BY <1>1, CountTypes, EntryFacts DEF TypeInv, FileTypes
<1>4. TypeInv'
  BY <1>1, <1>2, <1>3, TakeEntryTypes DEF TypeInv, FileTypes, CallTypes, View, files, bounds
<1>5. Known'
  BY <1>1, <1>2, TakeEntryTypes, ActorKinds DEF Known, View, files
<1> QED
  BY <1>4, <1>5

LEMMA OverBudgetTypes ==
  ASSUME TypeInv, Known, NEW s \in Scans, OverBudget(s)
  PROVE  /\ TypeInv' /\ Known' /\ View(s, "deferring", act[s].d)
         /\ pending'[s] = <<>> /\ \A t \in Scans \ {s} : pending'[t] = pending[t]
<1> DEFINE C == {[by |-> s, d |-> pending[s][i].d, rc |-> Gone] : i \in DOMAIN pending[s]}
<1>1. /\ UNCHANGED <<files, expired, bounds, history>> /\ bumps' = bumps \union C
      /\ pending' = [pending EXCEPT ![s] = <<>>] /\ AtEntry(s)
  BY DEF OverBudget
<1>2. View(s, "deferring", act[s].d)
  BY ScanMovesEffect DEF OverBudget, TypeInv, ScanPCs, Busy
<1>3. \A i \in DOMAIN pending[s] : pending[s][i].d \in Deliveries /\ pending[s][i].d \in Range(order)
  BY RangeOrder DEF TypeInv, Known
<1>4. /\ C \subseteq [by : Actors, d : Deliveries, rc : Nat \union {Gone}]
      /\ \A c \in C : c.d \in Range(order)
  BY <1>3, ActorKinds
<1> HIDE DEF C
<1>5. <<>> \in Seq(Snapshot)
  BY EmptySeq
<1>6. /\ pending' \in [Scans -> Seq(Snapshot)] /\ pending'[s] = <<>>
      /\ \A t \in Scans \ {s} : pending'[t] = pending[t]
  BY <1>1, <1>5 DEF TypeInv, CallTypes
<1>7. TypeInv'
  BY <1>1, <1>2, <1>4, <1>6 DEF TypeInv, FileTypes, CallTypes, View, files, bounds, history
<1>8. DOMAIN pending'[s] = {}
  BY <1>6
<1>9. Known'
  BY <1>1, <1>2, <1>4, <1>6, <1>8, ActorKinds DEF Known, View, files, Busy
<1> QED
  BY <1>2, <1>6, <1>7, <1>9

LEMMA CrashTypes ==
  ASSUME TypeInv, Known, Crash
  PROVE  TypeInv' /\ Known' /\ \A s \in Scans : pending'[s] = <<>> /\ DOMAIN pending'[s] = {}
<1>1. /\ UNCHANGED <<files, expired, starts, overlaps, diskErrors, history>>
      /\ crashes' = crashes + 1 /\ bumps' = {} /\ pending' = [s \in Scans |-> <<>>]
  BY DEF Crash
<1>2. /\ ActTypes' /\ \A s \in Scans : act'[s].pc = "off"
      /\ \A d \in Deliveries : act'[d].pc = IF act[d].pc = "new" THEN "new" ELSE "done"
  BY CrashEffect DEF TypeInv
<1>3. <<>> \in Seq(Snapshot)
  BY EmptySeq
<1>4. \A s \in Scans : pending'[s] = <<>> /\ DOMAIN pending'[s] = {}
  BY <1>1
<1>5. TypeInv'
  BY <1>1, <1>2, <1>3 DEF TypeInv, FileTypes, CallTypes, files, history
<1>6. Known'
  BY <1>1, <1>2, <1>4 DEF Known, files, Busy
<1> QED
  BY <1>4, <1>5, <1>6

LEMMA TypeInit == Init => TypeInv /\ Known
<1> SUFFICES ASSUME Init PROVE TypeInv /\ Known
  OBVIOUS
<1>1. /\ json = [d \in Deliveries |-> Gone] /\ marker = {} /\ failed = {} /\ order = <<>>
      /\ bumps = {} /\ expired = {} /\ starts = 0 /\ overlaps = 0 /\ crashes = 0 /\ diskErrors = 0
      /\ handled = [d \in Deliveries |-> {}] /\ acked = {} /\ final = {} /\ permanent = {}
      /\ attempts = [d \in Deliveries |-> 0] /\ pending = [s \in Scans |-> <<>>]
  BY DEF Init
<1>2. order \in Seq(Deliveries) /\ <<>> \in Seq(Snapshot) /\ Range(order) = {} /\ IsInjective(order)
  BY <1>1, EmptySeq DEF Range, IsInjective
<1>3. FileTypes /\ CallTypes
  BY <1>1, <1>2 DEF FileTypes, CallTypes
<1>4. Idle("off", Gone) \in Acts /\ Idle("off", Gone).pc = "off"
  BY DEF Idle, Acts, ScanPCs
<1>5. \A d \in Deliveries : /\ Idle("new", d) \in Acts
                            /\ Idle("new", d).pc = "new" /\ Idle("new", d).d = d
  BY DEF Idle, Acts, LivePCs
<1>6. /\ \A s \in Scans : act[s] = Idle("off", Gone)
      /\ \A d \in Deliveries : act[d] = Idle("new", d)
      /\ act = [a \in Actors |-> act[a]]
  BY ActorKinds DEF Init
<1>7. act \in [Actors -> Acts]
  BY <1>4, <1>5, <1>6, ActorKinds
<1>8. ActTypes
  BY <1>4, <1>5, <1>6, <1>7 DEF ActTypes, LivePCs, ScanPCs, Busy
<1>9. \A s \in Scans : DOMAIN pending[s] = {}
  BY <1>1
<1>10. Known
  <2>1. \A d \in Deliveries : json[d] = Gone /\ d \notin Range(order)
    BY <1>1, <1>2
  <2>2. \A d \in Deliveries : act[d].pc = "new"
    BY <1>5, <1>6
  <2>3. \A s \in Scans : act[s].pc = "off"
    BY <1>4, <1>6
  <2> QED BY <1>1, <1>9, <2>1, <2>2, <2>3 DEF Known, Busy
<1> QED
  BY <1>1, <1>3, <1>8, <1>10 DEF TypeInv

LEMMA TypeNext == TypeInv /\ Known /\ [Next]_vars => TypeInv' /\ Known'
<1> SUFFICES ASSUME TypeInv, Known, [Next]_vars PROVE TypeInv' /\ Known'
  OBVIOUS
<1>1. CASE \E d \in Deliveries : Enqueue(d) \/ EnqueueFails(d)
  BY <1>1, EnqueueTypes, EnqueueFailsTypes
<1>2. CASE \E a \in Actors : Send(a) \/ Ack(a) \/ Unlink(a) \/ AckFails(a)
  BY <1>2, SendTypes, AckTypes, UnlinkTypes, AckFailsTypes
<1>3. CASE \E b \in bumps : BumpRead(b) \/ BumpWrite(b) \/ BumpFails(b)
  BY <1>3, BumpTypes
<1>4. CASE \E s \in Scans : ScanLoad(s) \/ OverBudget(s) \/ GiveUp(s) \/ SkipEntry(s) \/ Retry(s)
  BY <1>4, ScanLoadTypes, OverBudgetTypes, GiveUpTypes, SkipEntryTypes, RetryTypes
<1>5. CASE \E s \in Scans : MoveToFailed(s) \/ MoveFails(s) \/ ScanEnds(s)
                            \/ \E isLate \in BOOLEAN : GatewayStart(s, isLate)
  BY <1>5, MoveToFailedTypes, ScanEndsTypes, GatewayStartTypes
<1>6. CASE Crash
  BY <1>6, CrashTypes
<1>7. CASE UNCHANGED vars
  BY <1>7 DEF vars, files, bounds, history, TypeInv, Known, FileTypes, ActTypes, CallTypes
<1> QED
  BY <1>1, <1>2, <1>3, <1>4, <1>5, <1>6, <1>7 DEF Next, Settle, Bump, ScanStep, DiskFault

\* The type invariant holds, whatever overlaps.
THEOREM TypeCorrect == Spec => []DeliveryTypeOK
<1>1. Init => TypeInv /\ Known
  BY TypeInit
<1>2. TypeInv /\ Known /\ [Next]_vars => TypeInv' /\ Known'
  BY TypeNext
<1>3. TypeInv => DeliveryTypeOK
  BY DEF TypeInv, FileTypes, ActTypes, CallTypes, Acts, DeliveryTypeOK
<1> QED
  BY <1>1, <1>2, <1>3, PTL DEF Spec

-----------------------------------------------------------------------------
(***************************************************************************)
(* An actor has an entry in one place only: in its snapshot, under work,   *)
(* or in a failDelivery call.  Scans and live deliveries may still share   *)
(* an entry with each other.                                               *)
(***************************************************************************)
PendingOnce ==
  \A s \in Scans : \A i \in DOMAIN pending[s] :
    /\ act[s].pc \in Busy \union {"next"}
    /\ \A j \in DOMAIN pending[s] : pending[s][j].d = pending[s][i].d => i = j
    /\ act[s].pc \in Busy => act[s].d # pending[s][i].d

CallsOnce ==
  \A b \in bumps :
    /\ \/ act[b.by].pc = "failing" /\ act[b.by].d = b.d
       \/ act[b.by].pc = "deferring"
    /\ \A c \in bumps : c.by = b.by /\ c.d = b.d => c = b

Once == PendingOnce /\ CallsOnce

Sound == TypeInv /\ Known /\ Once

LEMMA PCFacts ==
  ASSUME TypeInv
  PROVE  /\ \A d \in Deliveries : act[d].d = d /\ d \in Actors /\ IsLive(d)
                                  /\ act[d].pc \notin {"off", "load", "next", "move", "deferring"}
         /\ \A s \in Scans : s \in Actors /\ ~IsLive(s) /\ s \notin Deliveries
                             /\ act[s].pc \notin {"new", "done"}
         /\ \A a \in Actors : a \in Deliveries \/ a \in Scans
BY ActorKinds DEF TypeInv, ActTypes, LivePCs, ScanPCs

LEMMA PendingTypes ==
  ASSUME TypeInv
  PROVE  \A s \in Scans : \A i \in DOMAIN pending[s] :
           pending[s][i] \in Snapshot /\ pending[s][i].d \in Deliveries /\ pending[s][i].rc \in Nat
<1> SUFFICES ASSUME NEW s \in Scans, NEW i \in DOMAIN pending[s]
             PROVE  pending[s][i] \in Snapshot /\ pending[s][i].d \in Deliveries /\ pending[s][i].rc \in Nat
  OBVIOUS
<1>1. pending[s] \in Seq(Snapshot)
  BY DEF TypeInv, CallTypes
<1>2. pending[s][i] \in Snapshot
  BY <1>1, ElementOfSeq, LenProperties
<1> QED
  BY <1>2 DEF Snapshot

LEMMA CallFacts ==
  ASSUME TypeInv, NEW b \in bumps
  PROVE  b.by \in Actors /\ b.d \in Deliveries /\ b.rc \in Nat \union {Gone}
BY DEF TypeInv, CallTypes

\* Only who waits for a failDelivery call has one in flight.
LEMMA NoCalls ==
  ASSUME Sound, NEW a \in Actors, act[a].pc \notin {"failing", "deferring"}, NEW b \in bumps
  PROVE  b.by # a
BY DEF Sound, Once, CallsOnce

\* Only a scan that goes through its entries has a snapshot.
LEMMA NoPending ==
  ASSUME Sound, NEW s \in Scans, act[s].pc \notin Busy \union {"next"}
  PROVE  DOMAIN pending[s] = {}
BY DEF Sound, Once, PendingOnce

LEMMA SameViewOnce ==
  ASSUME Sound, SameView, UNCHANGED <<pending, bumps>>
  PROVE  Once'
<1>1. PendingOnce'
  BY ActorKinds DEF Sound, Once, PendingOnce, SameView
<1>2. CallsOnce'
  BY CallFacts DEF Sound, Once, CallsOnce, SameView
<1> QED
  BY <1>1, <1>2 DEF Once

\* Actor a goes on with its delivery.
LEMMA ViewPending ==
  ASSUME Sound, NEW a \in Actors, NEW pc \in Busy \union {"next", "done"}, View(a, pc, act[a].d),
         UNCHANGED pending, act[a].pc \in Busy, pc = "done" => IsLive(a)
  PROVE  PendingOnce'
<1> SUFFICES ASSUME NEW s \in Scans, NEW i \in DOMAIN pending[s]
             PROVE  /\ act'[s].pc \in Busy \union {"next"}
                    /\ act'[s].pc \in Busy => act'[s].d # pending[s][i].d
                    /\ \A j \in DOMAIN pending[s] : pending[s][j].d = pending[s][i].d => i = j
  BY DEF PendingOnce
<1>1. /\ act[s].pc \in Busy \union {"next"}
      /\ \A j \in DOMAIN pending[s] : pending[s][j].d = pending[s][i].d => i = j
      /\ act[s].pc \in Busy => act[s].d # pending[s][i].d
  BY DEF Sound, Once, PendingOnce
<1>2. CASE s = a
  <2>1. act'[s].pc = pc /\ act'[s].d = act[s].d /\ pc # "done"
    BY <1>2, ActorKinds DEF View
  <2> QED BY <1>1, <1>2, <2>1
<1>3. CASE s # a
  <2>1. act'[s] = act[s]
    BY <1>3, ActorKinds DEF View
  <2> QED BY <1>1, <2>1
<1> QED
  BY <1>2, <1>3

LEMMA ViewCalls ==
  ASSUME Sound, NEW a \in Actors, \A x \in Actors \ {a} : act'[x] = act[x],
         bumps' \subseteq bumps, \A b \in bumps' : b.by # a
  PROVE  CallsOnce'
BY CallFacts DEF Sound, Once, CallsOnce

LEMMA GoesOnOnce ==
  ASSUME Sound, NEW a \in Actors, GoesOn(a)
  PROVE  Once'
<1>1. /\ act[a].pc \in Busy /\ act[a].pc \notin {"failing", "deferring"}
      /\ View(a, act'[a].pc, act[a].d) /\ UNCHANGED <<pending, bumps>>
      /\ act'[a].pc \in Busy \union {"next", "done"}
      /\ act'[a].pc = "done" => IsLive(a)
  BY DEF GoesOn, Busy, Settled
<1>2. PendingOnce'
  BY <1>1, ViewPending
<1>3. \A b \in bumps : b.by # a
  BY <1>1, NoCalls
<1>4. CallsOnce'
  BY <1>1, <1>3, ViewCalls DEF View
<1> QED
  BY <1>2, <1>4 DEF Once

LEMMA FailsOnce ==
  ASSUME Sound, NEW a \in Actors, Fails(a)
  PROVE  Once'
<1> DEFINE c == [by |-> a, d |-> act[a].d, rc |-> Gone]
<1>1. /\ act[a].pc \in {"sending", "ack"} /\ View(a, "failing", act[a].d)
      /\ UNCHANGED pending /\ bumps' = bumps \union {c}
  BY DEF Fails, StartBump
<1>2. PendingOnce'
  BY <1>1, ViewPending DEF Busy
<1>3. \A b \in bumps : b.by # a /\ b.by \in Actors
  BY <1>1, NoCalls, CallFacts DEF Sound
<1>4. /\ act'[a].pc = "failing" /\ act'[a].d = act[a].d
      /\ \A x \in Actors \ {a} : act'[x] = act[x]
  BY <1>1 DEF View
<1>5. c.by = a /\ c.d = act[a].d
  OBVIOUS
<1> HIDE DEF c
<1>6. CallsOnce'
  BY <1>1, <1>3, <1>4, <1>5 DEF Sound, Once, CallsOnce
<1> QED
  BY <1>2, <1>6 DEF Once

LEMMA SendOnce ==
  ASSUME Sound, NEW a \in Actors, Send(a)
  PROVE  Once'
<1>1. CASE LooksSame
  BY <1>1, SameViewOnce DEF LooksSame
<1>2. CASE \E pc \in {"done", "ack", "move"} : Decides(a, pc)
  BY <1>2, DecidesGoesOn, GoesOnOnce DEF Sound
<1>3. CASE Fails(a)
  BY <1>3, FailsOnce
<1> QED
  BY <1>1, <1>2, <1>3, SendEffect DEF Sound, TypeInv

\* Who waits for a single failDelivery call waits for this one.
LEMMA FailingCall ==
  ASSUME Sound, NEW b \in bumps, act[b.by].pc = "failing"
  PROVE  act[b.by].d = b.d /\ \A c \in bumps \ {b} : c.by # b.by
BY DEF Sound, Once, CallsOnce

LEMMA BumpEndsOnce ==
  ASSUME Sound, NEW b \in bumps, BumpEnds(b), UNCHANGED pending
  PROVE  Once'
<1>1. bumps' = bumps \ {b} /\ b.by \in Actors
  BY CallFacts DEF BumpEnds, Sound
<1>2. CASE SameView
  <2>1. PendingOnce'
    BY <1>2, ActorKinds DEF Sound, Once, PendingOnce, SameView
  <2>2. CallsOnce'
    BY <1>1, <1>2, CallFacts DEF Sound, Once, CallsOnce, SameView
  <2> QED BY <2>1, <2>2 DEF Once
<1>3. CASE act[b.by].pc = "failing" /\ View(b.by, Settled(b.by), act[b.by].d)
  <2>1. PendingOnce'
    BY <1>1, <1>3, ViewPending DEF Busy, Settled
  <2>2. CallsOnce'
    BY <1>1, <1>3, FailingCall, ViewCalls DEF View
  <2> QED BY <2>1, <2>2 DEF Once
<1> QED
  BY <1>2, <1>3 DEF BumpEnds

\* What a failDelivery call comes to: it reads, or it ends.
Reads(b) ==
  /\ b.rc = Gone /\ json[b.d] # Gone
  /\ bumps' = (bumps \ {b}) \union {[b EXCEPT !.rc = json[b.d]]}
  /\ SameView
  /\ UNCHANGED <<files, pending, bounds, history>>

Ends(b) ==
  /\ BumpEnds(b)
  /\ UNCHANGED <<marker, failed, order, pending, starts, overlaps, crashes, history>>
  /\ \/ json' = json /\ json[b.d] = Gone /\ diskErrors' = diskErrors
     \/ b.rc # Gone /\ json' = [json EXCEPT ![b.d] = b.rc + 1] /\ diskErrors' = diskErrors
     \/ json' = json /\ diskErrors' = diskErrors + 1

LEMMA BumpEffect ==
  ASSUME TypeInv, NEW b \in bumps, BumpRead(b) \/ BumpWrite(b) \/ BumpFails(b)
  PROVE  Reads(b) \/ Ends(b)
<1>1. b.by \in Actors /\ ActTypes
  BY CallFacts DEF TypeInv
<1>2. CASE BumpRead(b) /\ json[b.d] # Gone
  <2>1. SameView
    BY <1>1, <1>2 DEF BumpRead, SameView, ActTypes
  <2> QED BY <1>2, <2>1 DEF BumpRead, Reads
<1>3. CASE BumpRead(b) /\ json[b.d] = Gone
  BY <1>1, <1>3, EndBumpEffect DEF BumpRead, Ends, files, bounds
<1>4. CASE BumpWrite(b)
  BY <1>1, <1>4, EndBumpEffect DEF BumpWrite, Ends, bounds
<1>5. CASE BumpFails(b)
  BY <1>1, <1>5, EndBumpEffect DEF BumpFails, DiskError, Ends, files
<1> QED
  BY <1>2, <1>3, <1>4, <1>5

LEMMA ReadCall ==
  ASSUME TypeInv, NEW b \in bumps, Reads(b)
  PROVE  \E c : /\ c.by = b.by /\ c.d = b.d /\ c.rc = json[b.d]
                /\ bumps' = (bumps \ {b}) \union {c}
<1> DEFINE c == [b EXCEPT !.rc = json[b.d]]
<1>1. c.by = b.by /\ c.d = b.d /\ c.rc = json[b.d]
  BY DEF TypeInv, CallTypes
<1> QED
  BY <1>1 DEF Reads

LEMMA BumpOnce ==
  ASSUME Sound, NEW b \in bumps, BumpRead(b) \/ BumpWrite(b) \/ BumpFails(b)
  PROVE  Once'
<1>1. CASE Reads(b)
  <2>1. SameView /\ UNCHANGED pending
    BY <1>1 DEF Reads
  <2>2. PICK c : c.by = b.by /\ c.d = b.d /\ bumps' = (bumps \ {b}) \union {c}
    BY <1>1, ReadCall DEF Sound
  <2>3. PendingOnce'
    BY <2>1, ActorKinds DEF Sound, Once, PendingOnce, SameView
  <2>4. CallsOnce'
    BY <2>1, <2>2, CallFacts DEF Sound, Once, CallsOnce, SameView
  <2> QED BY <2>3, <2>4 DEF Once
<1>2. CASE Ends(b)
  BY <1>2, BumpEndsOnce DEF Ends
<1> QED
  BY <1>1, <1>2, BumpEffect DEF Sound

LEMMA BeginsOnce ==
  ASSUME Sound, NEW d \in Deliveries, Enqueue(d) \/ EnqueueFails(d)
  PROVE  Once'
<1>1. View(d, "sending", d) /\ UNCHANGED <<pending, bumps>> /\ act[d].pc = "new"
  BY EnqueueTypes, EnqueueFailsTypes DEF Sound, Enqueue, EnqueueFails
<1>2. d \in Actors /\ \A s \in Scans : act'[s] = act[s]
  BY <1>1, ActorKinds DEF View
<1>3. PendingOnce'
  BY <1>1, <1>2 DEF Sound, Once, PendingOnce
<1>4. CallsOnce'
  BY <1>1, <1>2, NoCalls, ViewCalls DEF View
<1> QED
  BY <1>3, <1>4 DEF Once

\* A scan goes where it has neither a snapshot nor a call.
LEMMA IdleOnce ==
  ASSUME Sound, NEW s \in Scans, NEW pc, View(s, pc, Gone), UNCHANGED <<pending, bumps>>,
         DOMAIN pending[s] = {}, \A b \in bumps : b.by # s
  PROVE  Once'
<1>1. s \in Actors /\ \A t \in Scans \ {s} : act'[t] = act[t]
  BY ActorKinds DEF View
<1>2. PendingOnce'
  BY <1>1 DEF Sound, Once, PendingOnce
<1>3. CallsOnce'
  BY <1>1, ViewCalls DEF View
<1> QED
  BY <1>2, <1>3 DEF Once

LEMMA StartAndEndOnce ==
  ASSUME Sound, NEW s \in Scans, ScanEnds(s) \/ \E isLate \in BOOLEAN : GatewayStart(s, isLate)
  PROVE  Once' /\ DOMAIN pending[s] = {} /\ \A b \in bumps : b.by # s
<1>1. CASE ScanEnds(s)
  <2>1. /\ UNCHANGED <<pending, bumps>> /\ View(s, "off", Gone)
        /\ \/ act[s].pc = "next" /\ pending[s] = <<>>
           \/ act[s].pc = "deferring" /\ \A b \in bumps : b.by # s
    BY <1>1, ScanEndsTypes DEF Sound, ScanEnds
  <2>2. DOMAIN pending[s] = {}
    <3>1. act[s].pc = "deferring" => DOMAIN pending[s] = {}
      BY NoPending DEF Busy
    <3>2. pending[s] = <<>> => DOMAIN pending[s] = {}
      OBVIOUS
    <3> QED BY <2>1, <3>1, <3>2
  <2>3. \A b \in bumps : b.by # s
    BY <2>1, NoCalls, ActorKinds
  <2> QED BY <2>1, <2>2, <2>3, IdleOnce
<1>2. ASSUME NEW isLate \in BOOLEAN, GatewayStart(s, isLate)
      PROVE  Once' /\ DOMAIN pending[s] = {} /\ \A b \in bumps : b.by # s
  <2>1. /\ UNCHANGED <<pending, bumps>> /\ View(s, "load", Gone) /\ act[s].pc = "off"
    BY <1>2, GatewayStartTypes DEF Sound, GatewayStart
  <2>2. DOMAIN pending[s] = {}
    BY <2>1, NoPending DEF Busy
  <2>3. \A b \in bumps : b.by # s
    BY <2>1, NoCalls, ActorKinds
  <2> QED BY <2>1, <2>2, <2>3, IdleOnce
<1> QED
  BY <1>1, <1>2

LEMMA ScanLoadOnce ==
  ASSUME Sound, NEW s \in Scans, ScanLoad(s)
  PROVE  Once'
<1>1. /\ View(s, "next", act[s].d) /\ act[s].pc = "load" /\ UNCHANGED bumps
      /\ \A t \in Scans \ {s} : pending'[t] = pending[t]
      /\ \A i, j \in DOMAIN pending'[s] : pending'[s][j].d = pending'[s][i].d => i = j
  BY ScanLoadTypes DEF Sound, ScanLoad
<1>2. s \in Actors /\ act'[s].pc = "next" /\ \A t \in Scans \ {s} : act'[t] = act[t]
  BY <1>1, ActorKinds DEF View
<1>3. PendingOnce'
  BY <1>1, <1>2 DEF Sound, Once, PendingOnce, Busy
<1>4. CallsOnce'
  BY <1>1, <1>2, NoCalls, ViewCalls DEF View
<1> QED
  BY <1>3, <1>4 DEF Once

\* The entries behind the head of a snapshot.
LEMMA TailOnce ==
  ASSUME Sound, NEW s \in Scans, AtEntry(s), TakeEntry(s)
  PROVE  /\ \A t \in Scans \ {s} : pending'[t] = pending[t]
         /\ \E i \in DOMAIN pending[s] : pending[s][i] = Entry(s)
         /\ \A i \in DOMAIN pending'[s] :
              /\ pending'[s][i].d # Entry(s).d
              /\ \A j \in DOMAIN pending'[s] : pending'[s][j].d = pending'[s][i].d => i = j
              /\ \E k \in DOMAIN pending[s] : pending'[s][i] = pending[s][k]
         /\ \A k \in DOMAIN pending[s] :
              pending[s][k].d = Entry(s).d \/ \E i \in DOMAIN pending'[s] : pending'[s][i] = pending[s][k]
<1> DEFINE q == Tail(pending[s])
<1>1. /\ act[s].pc = "next" /\ Entry(s) = pending[s][1] /\ 1 \in DOMAIN pending[s]
      /\ q \in Seq(Snapshot)
      /\ \A i \in DOMAIN q : i + 1 \in DOMAIN pending[s] /\ q[i] = pending[s][i + 1]
  BY EntryFacts DEF Sound, TypeInv
<1>2. \A i \in DOMAIN q : i \in Nat \ {0}
  BY <1>1, LenProperties
<1>3. pending'[s] = q /\ \A t \in Scans \ {s} : pending'[t] = pending[t]
  BY TakeEntryTypes DEF Sound
<1>4. \A i, j \in DOMAIN pending[s] : pending[s][i].d = pending[s][j].d => i = j
  BY DEF Sound, Once, PendingOnce
<1>5. \A k \in DOMAIN pending[s] : k # 1 => k - 1 \in DOMAIN q /\ q[k - 1] = pending[s][k]
  <2>1. pending[s] \in Seq(Snapshot) /\ pending[s] # <<>>
    BY DEF Sound, TypeInv, CallTypes, AtEntry
  <2>2. /\ Len(q) = Len(pending[s]) - 1 /\ Len(pending[s]) \in Nat \ {0} /\ q \in Seq(Snapshot)
        /\ \A i \in 1 .. Len(q) : q[i] = pending[s][i + 1]
    BY <2>1, HeadTailProperties, EmptySeq
  <2>3. DOMAIN pending[s] = 1 .. Len(pending[s]) /\ DOMAIN q = 1 .. Len(q)
    BY <2>1, <2>2, LenProperties
  <2> HIDE DEF q
  <2> SUFFICES ASSUME NEW k \in 1 .. Len(pending[s]), k # 1
               PROVE  k - 1 \in 1 .. Len(q) /\ q[k - 1] = pending[s][k]
    BY <2>3
  <2>4. k - 1 \in 1 .. Len(q) /\ (k - 1) + 1 = k
    BY <2>2
  <2>5. q[k - 1] = pending[s][(k - 1) + 1]
    BY <2>2, <2>4
  <2> QED BY <2>4, <2>5
<1> HIDE DEF q
<1>6. ASSUME NEW i \in DOMAIN q
      PROVE  q[i].d # Entry(s).d /\ \A j \in DOMAIN q : q[j].d = q[i].d => i = j
  <2>1. i + 1 \in DOMAIN pending[s] /\ q[i] = pending[s][i + 1] /\ i + 1 # 1
    BY <1>1, <1>2
  <2>2. q[i].d # Entry(s).d
    BY <1>1, <1>4, <2>1
  <2>3. ASSUME NEW j \in DOMAIN q, q[j].d = q[i].d PROVE i = j
    <3>1. i + 1 = j + 1
      BY <1>1, <1>4, <2>1, <2>3
    <3> QED BY <1>2, <3>1
  <2> QED BY <2>2, <2>3
<1>7. \A i \in DOMAIN q : \E k \in DOMAIN pending[s] : q[i] = pending[s][k]
  BY <1>1
<1>8. \A k \in DOMAIN pending[s] : pending[s][k].d = Entry(s).d \/ \E i \in DOMAIN q : q[i] = pending[s][k]
  BY <1>1, <1>5
<1> QED
  BY <1>1, <1>3, <1>6, <1>7, <1>8

LEMMA TakesUpOnce ==
  ASSUME Sound, NEW s \in Scans, AtEntry(s), TakeEntry(s), NEW pc \in {"move", "sending"},
         View(s, pc, Entry(s).d), UNCHANGED bumps
  PROVE  Once'
<1>1. s \in Actors /\ act[s].pc = "next"
  BY ActorKinds DEF AtEntry
<1>2. /\ act'[s].pc = pc /\ act'[s].d = Entry(s).d
      /\ \A t \in Scans \ {s} : act'[t] = act[t]
  BY ActorKinds DEF View
<1>3. PendingOnce'
  BY <1>2, TailOnce DEF Sound, Once, PendingOnce, Busy
<1>4. CallsOnce'
  BY <1>1, NoCalls, ViewCalls DEF View
<1> QED
  BY <1>3, <1>4 DEF Once

LEMMA SkipEntryOnce ==
  ASSUME Sound, NEW s \in Scans, SkipEntry(s)
  PROVE  Once'
<1>1. UNCHANGED <<act, bumps>> /\ AtEntry(s) /\ TakeEntry(s) /\ act[s].pc = "next"
  BY DEF SkipEntry, AtEntry
<1>2. PendingOnce'
  BY <1>1, TailOnce DEF Sound, Once, PendingOnce, Busy
<1>3. CallsOnce'
  BY <1>1 DEF Sound, Once, CallsOnce
<1> QED
  BY <1>2, <1>3 DEF Once

LEMMA OverBudgetOnce ==
  ASSUME Sound, NEW s \in Scans, OverBudget(s)
  PROVE  Once'
<1> DEFINE C == {[by |-> s, d |-> pending[s][i].d, rc |-> Gone] : i \in DOMAIN pending[s]}
<1>1. /\ bumps' = bumps \union C /\ act[s].pc = "next" /\ s \in Actors
      /\ View(s, "deferring", act[s].d)
      /\ DOMAIN pending'[s] = {} /\ \A t \in Scans \ {s} : pending'[t] = pending[t]
  <2>1. bumps' = bumps \union C /\ act[s].pc = "next" /\ s \in Actors
    BY ActorKinds DEF OverBudget, AtEntry
  <2> HIDE DEF C
  <2>2. /\ View(s, "deferring", act[s].d) /\ pending'[s] = <<>>
        /\ \A t \in Scans \ {s} : pending'[t] = pending[t]
    BY OverBudgetTypes DEF Sound
  <2> QED BY <2>1, <2>2
<1>2. \A c \in C : c.by = s /\ \A b \in C : b.d = c.d => b = c
  OBVIOUS
<1> HIDE DEF C
<1>3. /\ act'[s].pc = "deferring" /\ \A x \in Actors \ {s} : act'[x] = act[x]
      /\ \A t \in Scans \ {s} : act'[t] = act[t]
  BY <1>1, ActorKinds DEF View
<1>4. PendingOnce'
  BY <1>1, <1>3 DEF Sound, Once, PendingOnce
<1>5. \A b \in bumps : b.by # s /\ b.by \in Actors
  BY <1>1, NoCalls, CallFacts DEF Sound
<1>6. CallsOnce'
  BY <1>1, <1>2, <1>3, <1>5 DEF Sound, Once, CallsOnce
<1> QED
  BY <1>4, <1>6 DEF Once

LEMMA CrashOnce ==
  ASSUME Sound, Crash
  PROVE  Once'
<1>1. bumps' = {} /\ \A s \in Scans : DOMAIN pending'[s] = {}
  BY CrashTypes DEF Sound, Crash
<1> QED
  BY <1>1 DEF Once, PendingOnce, CallsOnce

LEMMA SoundInit == Init => Sound
<1> SUFFICES ASSUME Init PROVE Sound
  OBVIOUS
<1>1. TypeInv /\ Known
  BY TypeInit
<1>2. bumps = {} /\ \A s \in Scans : DOMAIN pending[s] = {}
  BY DEF Init
<1> QED
  BY <1>1, <1>2 DEF Sound, Once, PendingOnce, CallsOnce

LEMMA SoundNext == Sound /\ [Next]_vars => Sound'
<1> SUFFICES ASSUME Sound, [Next]_vars PROVE Once'
  BY TypeNext DEF Sound
<1>1. CASE \E d \in Deliveries : Enqueue(d) \/ EnqueueFails(d)
  BY <1>1, BeginsOnce
<1>2. CASE \E a \in Actors : Send(a) \/ Ack(a) \/ Unlink(a) \/ AckFails(a)
  BY <1>2, SendOnce, AckTypes, UnlinkTypes, AckFailsTypes, GoesOnOnce, FailsOnce DEF Sound
<1>3. CASE \E b \in bumps : BumpRead(b) \/ BumpWrite(b) \/ BumpFails(b)
  BY <1>3, BumpOnce
<1>4. CASE \E s \in Scans : ScanLoad(s) \/ OverBudget(s) \/ SkipEntry(s)
  BY <1>4, ScanLoadOnce, OverBudgetOnce, SkipEntryOnce
<1>5. CASE \E s \in Scans : GiveUp(s) \/ Retry(s)
  BY <1>5, GiveUpEffect, RetryEffect, TakesUpOnce DEF Sound, TypeInv, GiveUp, Retry
<1>6. CASE \E s \in Scans : MoveToFailed(s) \/ MoveFails(s)
  BY <1>6, MoveToFailedTypes, GoesOnOnce, ActorKinds DEF Sound
<1>7. CASE \E s \in Scans : ScanEnds(s) \/ \E isLate \in BOOLEAN : GatewayStart(s, isLate)
  BY <1>7, StartAndEndOnce
<1>8. CASE Crash
  BY <1>8, CrashOnce
<1>9. CASE UNCHANGED vars
  BY <1>9 DEF vars, Sound, Once, PendingOnce, CallsOnce
<1> QED
  BY <1>1, <1>2, <1>3, <1>4, <1>5, <1>6, <1>7, <1>8, <1>9
     DEF Next, Settle, Bump, ScanStep, DiskFault

-----------------------------------------------------------------------------
(***************************************************************************)
(* Who has an entry in hand: an attempt or deferral of it may still be     *)
(* counted (Holds), or it is on the way to failed/ (Moves).                *)
(***************************************************************************)
Trying == {"sending", "ack", "failing"}

Waiting(d) == {s \in Scans : \E i \in DOMAIN pending[s] : pending[s][i].d = d}
Calling(a, d) == \E b \in bumps : b.by = a /\ b.d = d

Holds(a, d) ==
  \/ act[a].d = d /\ act[a].pc \in Trying
  \/ a \in Waiting(d)
  \/ Calling(a, d)

Moves(a, d) == act[a].d = d /\ act[a].pc = "move"

Owed(d) == \E a \in Actors : Holds(a, d) \/ Moves(a, d)

SameHand(x, d) == (Holds(x, d)' <=> Holds(x, d)) /\ (Moves(x, d)' <=> Moves(x, d))

\* At most the hand of a on e changes.
HandsBut(a, e) == \A x \in Actors, d \in Deliveries : (x = a /\ d = e) \/ SameHand(x, d)

AllHands == \A x \in Actors, d \in Deliveries : SameHand(x, d)

Lets(a, e) == HandsBut(a, e) /\ ~Holds(a, e)' /\ ~Moves(a, e)'
SetsAside(a, e) == HandsBut(a, e) /\ ~Holds(a, e)' /\ Moves(a, e)'

LEMMA SameViewHands ==
  ASSUME SameView, UNCHANGED pending,
         \A x \in Actors, d \in Deliveries : Calling(x, d)' <=> Calling(x, d)
  PROVE  AllHands
<1> SUFFICES ASSUME NEW x \in Actors, NEW d \in Deliveries PROVE SameHand(x, d)
  BY DEF AllHands
<1>1. act'[x].pc = act[x].pc /\ act'[x].d = act[x].d
  BY DEF SameView
<1>2. Waiting(d)' = Waiting(d)
  BY DEF Waiting
<1> QED
  BY <1>1, <1>2 DEF SameHand, Holds, Moves

\* The hands of the actors that do not take part in a step.
LEMMA OtherHands ==
  ASSUME TypeInv, NEW a \in Actors, \A x \in Actors \ {a} : act'[x] = act[x],
         \A t \in Scans \ {a} : pending'[t] = pending[t],
         \A x \in Actors \ {a}, d \in Deliveries : Calling(x, d)' <=> Calling(x, d)
  PROVE  \A x \in Actors \ {a}, d \in Deliveries :
           SameHand(x, d) /\ (x \in Waiting(d)' <=> x \in Waiting(d))
<1> SUFFICES ASSUME NEW x \in Actors \ {a}, NEW d \in Deliveries
             PROVE  SameHand(x, d) /\ (x \in Waiting(d)' <=> x \in Waiting(d))
  OBVIOUS
<1>1. x \in Waiting(d)' <=> x \in Waiting(d)
  BY DEF Waiting
<1> QED
  BY <1>1 DEF SameHand, Holds, Moves

LEMMA SameCalls ==
  ASSUME UNCHANGED bumps
  PROVE  \A x, d : Calling(x, d)' <=> Calling(x, d)
BY DEF Calling

\* Actor a goes on with its delivery, or lets it go.
LEMMA GoesOnHands ==
  ASSUME Sound, NEW a \in Actors, NEW e, act[a].d = e, GoesOn(a)
  PROVE  /\ HandsBut(a, e)
         /\ Holds(a, e)' <=> act'[a].pc \in Trying
         /\ Moves(a, e)' <=> act'[a].pc = "move"
<1>1. /\ \A x \in Actors \ {a} : act'[x] = act[x]
      /\ act'[a].d = e /\ act[a].pc \in Busy \ {"failing"} /\ UNCHANGED <<pending, bumps>>
  BY DEF GoesOn, View, Busy
<1>2. \A x, d : Calling(x, d)' <=> Calling(x, d)
  BY <1>1, SameCalls
<1>3. \A d \in Deliveries : Waiting(d)' = Waiting(d)
  BY <1>1 DEF Waiting
<1>4. \A d \in Deliveries \ {e} : SameHand(a, d)
  BY <1>1, <1>2, <1>3 DEF SameHand, Holds, Moves
<1>5. HandsBut(a, e)
  BY <1>1, <1>2, <1>4, OtherHands DEF HandsBut, Sound
<1>6. a \notin Waiting(e)
  BY <1>1, PCFacts DEF Sound, Once, PendingOnce, Waiting
<1>7. ~Calling(a, e)
  BY <1>1, NoCalls DEF Calling, Busy
<1>8. e \in Deliveries
  BY <1>1, WorksOnDelivery DEF Sound, TypeInv
<1>9. Holds(a, e)' <=> act'[a].pc \in Trying
  BY <1>1, <1>2, <1>3, <1>6, <1>7, <1>8 DEF Holds
<1>10. Moves(a, e)' <=> act'[a].pc = "move"
  BY <1>1 DEF Moves
<1> QED
  BY <1>5, <1>9, <1>10

LEMMA AckHands ==
  ASSUME Sound, NEW a \in Actors, GoesOn(a), act[a].pc = "sending", act'[a].pc = "ack"
  PROVE  AllHands
<1> PICK e : act[a].d = e
  OBVIOUS
<1>1. HandsBut(a, e) /\ Holds(a, e)' /\ ~Moves(a, e)'
  BY GoesOnHands DEF Trying
<1>2. Holds(a, e) /\ ~Moves(a, e)
  BY DEF Holds, Moves, Trying
<1> QED
  BY <1>1, <1>2 DEF HandsBut, AllHands, SameHand

LEMMA LetsHands ==
  ASSUME Sound, NEW a \in Actors, NEW e, act[a].d = e, GoesOn(a),
         act'[a].pc \notin Trying \union {"move"}
  PROVE  Lets(a, e)
BY GoesOnHands DEF Lets

\* Unlinking the marker is no business with the entry any more.
LEMMA UnlinkHands ==
  ASSUME Sound, NEW a \in Actors, GoesOn(a), act[a].pc = "unlink", act'[a].pc = Settled(a)
  PROVE  AllHands
<1> PICK e : act[a].d = e
  OBVIOUS
<1>1. act'[a].pc \notin Trying \union {"move"}
  BY DEF Settled, Trying
<1>2. Lets(a, e)
  BY <1>1, LetsHands
<1>3. ~Holds(a, e) /\ ~Moves(a, e)
  <2>1. a \notin Waiting(e)
    BY PCFacts DEF Sound, Once, PendingOnce, Waiting, Busy
  <2>2. ~Calling(a, e)
    BY NoCalls DEF Calling
  <2> QED BY <2>1, <2>2 DEF Holds, Moves, Trying
<1> QED
  BY <1>2, <1>3 DEF Lets, HandsBut, AllHands, SameHand

LEMMA FailsHands ==
  ASSUME Sound, NEW a \in Actors, Fails(a)
  PROVE  AllHands
<1> PICK e : act[a].d = e
  OBVIOUS
<1>1. /\ \A x \in Actors \ {a} : act'[x] = act[x]
      /\ act'[a].d = e /\ act'[a].pc = "failing" /\ act[a].pc \in {"sending", "ack"}
      /\ UNCHANGED pending /\ bumps' = bumps \union {[by |-> a, d |-> e, rc |-> Gone]}
  BY DEF Fails, View, StartBump
<1>2. \A x, d : (x = a /\ d = e) \/ (Calling(x, d)' <=> Calling(x, d))
  BY <1>1 DEF Calling
<1>3. \A d \in Deliveries : Waiting(d)' = Waiting(d)
  BY <1>1 DEF Waiting
<1>4. Holds(a, e) /\ Holds(a, e)' /\ ~Moves(a, e) /\ ~Moves(a, e)'
  BY <1>1 DEF Holds, Moves, Trying
<1>5. \A d \in Deliveries : SameHand(a, d)
  BY <1>1, <1>2, <1>3, <1>4 DEF SameHand, Holds, Moves
<1>6. \A x \in Actors \ {a}, d \in Deliveries : SameHand(x, d)
  BY <1>1, <1>2, OtherHands DEF Sound
<1> QED
  BY <1>5, <1>6 DEF AllHands

LEMMA ReadsHands ==
  ASSUME Sound, NEW b \in bumps, Reads(b)
  PROVE  AllHands
<1>1. PICK c : c.by = b.by /\ c.d = b.d /\ bumps' = (bumps \ {b}) \union {c}
  BY ReadCall DEF Sound
<1>2. \A x, d : Calling(x, d)' <=> Calling(x, d)
  BY <1>1 DEF Calling
<1> QED
  BY <1>2, SameViewHands DEF Reads

LEMMA EndsHands ==
  ASSUME Sound, NEW b \in bumps, BumpEnds(b), UNCHANGED pending
  PROVE  Lets(b.by, b.d) /\ Holds(b.by, b.d)
<1> DEFINE a == b.by
           e == b.d
<1>1. a \in Actors /\ e \in Deliveries /\ bumps' = bumps \ {b}
  BY CallFacts DEF BumpEnds, Sound
<1>2. \A c \in bumps : c.by = a /\ c.d = e => c = b
  BY DEF Sound, Once, CallsOnce
<1>3. \A d \in Deliveries : Waiting(d)' = Waiting(d)
  BY DEF Waiting
<1>4. /\ ~Calling(a, e)' /\ Calling(a, e)
      /\ \A x \in Actors, d \in Deliveries : (x = a /\ d = e) \/ (Calling(x, d)' <=> Calling(x, d))
  BY <1>1, <1>2 DEF Calling
<1>5. act[a].pc \in {"failing", "deferring"}
  BY DEF Sound, Once, CallsOnce
<1>6. a \notin Waiting(e)
  <2>1. CASE act[a].pc = "failing"
    BY <2>1, FailingCall, PCFacts DEF Sound, Once, PendingOnce, Waiting, Busy
  <2>2. CASE act[a].pc = "deferring"
    BY <2>2, NoPending DEF Waiting, Busy
  <2> QED BY <1>5, <2>1, <2>2
<1>7. CASE SameView /\ act[a].pc # "failing"
  <2>1. \A x \in Actors : act'[x].pc = act[x].pc /\ act'[x].d = act[x].d
    BY <1>7 DEF SameView
  <2> HIDE DEF a, e
  <2>2. HandsBut(a, e)
    BY <1>1, <1>3, <1>4, <2>1 DEF HandsBut, SameHand, Holds, Moves
  <2>3. ~Holds(a, e)' /\ ~Moves(a, e)'
    BY <1>1, <1>3, <1>4, <1>5, <1>6, <1>7, <2>1 DEF Holds, Moves, Trying
  <2>4. Holds(a, e)
    BY <1>4 DEF Holds
  <2> QED BY <2>2, <2>3, <2>4 DEF Lets, a, e
<1>8. CASE act[a].pc = "failing" /\ View(a, Settled(a), act[a].d)
  <2>1. act[a].d = e
    BY <1>8, FailingCall
  <2>2. /\ \A x \in Actors \ {a} : act'[x] = act[x]
        /\ act'[a].pc \in {"done", "next"} /\ act'[a].d = e
    BY <1>8, <2>1 DEF View, Settled
  <2> HIDE DEF a, e
  <2>3. HandsBut(a, e)
    BY <1>1, <1>3, <1>4, <1>8, <2>1, <2>2 DEF HandsBut, SameHand, Holds, Moves
  <2>4. ~Holds(a, e)' /\ ~Moves(a, e)'
    BY <1>1, <1>3, <1>4, <1>6, <2>2 DEF Holds, Moves, Trying
  <2>5. Holds(a, e)
    BY <1>4 DEF Holds
  <2> QED BY <2>3, <2>4, <2>5 DEF Lets, a, e
<1> QED
  BY <1>7, <1>8 DEF BumpEnds

LEMMA BeginsHands ==
  ASSUME Sound, NEW e \in Deliveries, Enqueue(e) \/ EnqueueFails(e)
  PROVE  HandsBut(e, e) /\ Holds(e, e)' /\ ~Moves(e, e)'
<1>1. View(e, "sending", e) /\ UNCHANGED <<pending, bumps>> /\ act[e].d = e /\ act[e].pc = "new"
      /\ e \in Actors
  BY EnqueueTypes, EnqueueFailsTypes, PCFacts DEF Sound, Enqueue, EnqueueFails
<1>2. act'[e].pc = "sending" /\ act'[e].d = e /\ \A x \in Actors \ {e} : act'[x] = act[x]
  BY <1>1 DEF View
<1>3. \A x, d : Calling(x, d)' <=> Calling(x, d)
  BY <1>1, SameCalls
<1>4. \A d \in Deliveries : Waiting(d)' = Waiting(d)
  BY <1>1 DEF Waiting
<1>5. \A x \in Actors \ {e}, d \in Deliveries : SameHand(x, d)
  BY <1>1, <1>2, <1>3, OtherHands DEF Sound
<1>6. \A d \in Deliveries \ {e} : SameHand(e, d)
  BY <1>1, <1>2, <1>3, <1>4 DEF SameHand, Holds, Moves
<1>7. Holds(e, e)' /\ ~Moves(e, e)'
  BY <1>2 DEF Holds, Moves, Trying
<1> QED
  BY <1>5, <1>6, <1>7 DEF HandsBut

LEMMA StartAndEndHands ==
  ASSUME Sound, NEW s \in Scans, ScanEnds(s) \/ \E isLate \in BOOLEAN : GatewayStart(s, isLate)
  PROVE  AllHands
<1>1. /\ UNCHANGED <<pending, bumps>> /\ s \in Actors
      /\ act[s].pc \in {"off", "next", "deferring"}
      /\ act'[s].pc \in {"off", "load"} /\ \A x \in Actors \ {s} : act'[x] = act[x]
  <2>1. /\ UNCHANGED <<pending, bumps>> /\ act[s].pc \in {"off", "next", "deferring"}
        /\ \E pc \in {"off", "load"} : View(s, pc, Gone)
    BY ScanEndsTypes, GatewayStartTypes DEF Sound, ScanEnds, GatewayStart
  <2> QED BY <2>1, ActorKinds DEF View
<1>2. \A x, d : Calling(x, d)' <=> Calling(x, d)
  BY <1>1, SameCalls
<1>3. \A d \in Deliveries : Waiting(d)' = Waiting(d)
  BY <1>1 DEF Waiting
<1>4. \A x \in Actors \ {s}, d \in Deliveries : SameHand(x, d)
  BY <1>1, <1>2, OtherHands DEF Sound
<1>5. \A d \in Deliveries : SameHand(s, d)
  BY <1>1, <1>2, <1>3 DEF SameHand, Holds, Moves, Trying
<1> QED
  BY <1>4, <1>5 DEF AllHands

\* A scan loads: it takes up entries that have a file, and had none before.
LEMMA LoadHands ==
  ASSUME Sound, NEW s \in Scans, ScanLoad(s)
  PROVE  /\ \A x \in Actors \ {s}, d \in Deliveries :
              SameHand(x, d) /\ (x \in Waiting(d)' <=> x \in Waiting(d))
         /\ \A d \in Deliveries : /\ ~Holds(s, d) /\ ~Moves(s, d) /\ ~Moves(s, d)'
                                  /\ s \notin Waiting(d) /\ (Holds(s, d)' <=> s \in Waiting(d)')
                                  /\ s \in Waiting(d)' => json[d] # Gone
<1>1. /\ s \in Actors /\ act[s].pc = "load" /\ act'[s].pc = "next" /\ UNCHANGED bumps
      /\ \A x \in Actors \ {s} : act'[x] = act[x]
      /\ \A t \in Scans \ {s} : pending'[t] = pending[t]
      /\ \A i \in DOMAIN pending'[s] : json[pending'[s][i].d] # Gone
  BY ScanLoadTypes, ActorKinds DEF Sound, ScanLoad, View
<1>2. \A x, d : Calling(x, d)' <=> Calling(x, d)
  BY <1>1, SameCalls
<1>3. \A d \in Deliveries : s \notin Waiting(d) /\ ~Calling(s, d)
  BY <1>1, NoPending, NoCalls DEF Waiting, Calling, Busy
<1>4. \A x \in Actors \ {s}, d \in Deliveries :
        SameHand(x, d) /\ (x \in Waiting(d)' <=> x \in Waiting(d))
  BY <1>1, <1>2, OtherHands DEF Sound
<1>5. ASSUME NEW d \in Deliveries
      PROVE  /\ ~Holds(s, d) /\ ~Moves(s, d) /\ ~Moves(s, d)'
             /\ Holds(s, d)' <=> s \in Waiting(d)'
  BY <1>1, <1>2, <1>3 DEF Holds, Moves, Trying
<1>6. \A d \in Deliveries : s \in Waiting(d)' => json[d] # Gone
  BY <1>1 DEF Waiting
<1> QED
  BY <1>3, <1>4, <1>5, <1>6

\* The entry at the head leaves the snapshot.
LEMMA TakeHands ==
  ASSUME Sound, NEW s \in Scans, AtEntry(s), TakeEntry(s), NEW e, Entry(s).d = e, UNCHANGED bumps,
         \A x \in Actors \ {s} : act'[x] = act[x],
         \A d \in Deliveries \ {e} : act'[s].d = d => act'[s].pc \notin Trying \union {"move"}
  PROVE  /\ HandsBut(s, e) /\ Holds(s, e) /\ ~Moves(s, e)
         /\ s \in Waiting(e) /\ s \notin Waiting(e)' /\ ~Calling(s, e)'
         /\ \A x \in Scans, d \in Deliveries :
              (x = s /\ d = e) \/ (x \in Waiting(d)' <=> x \in Waiting(d))
<1>1. s \in Actors /\ act[s].pc = "next"
  BY ActorKinds DEF AtEntry
<1>2. \A x, d : Calling(x, d)' <=> Calling(x, d)
  BY SameCalls
<1>3. \A d : ~Calling(s, d)
  BY <1>1, NoCalls DEF Calling
<1>4. /\ \A t \in Scans \ {s} : pending'[t] = pending[t]
      /\ s \in Waiting(e)
      /\ s \notin Waiting(e)'
      /\ \A d \in Deliveries \ {e} : s \in Waiting(d)' <=> s \in Waiting(d)
  <2>1. \A t \in Scans \ {s} : pending'[t] = pending[t]
    BY TailOnce
  <2>2. s \in Waiting(e) /\ s \notin Waiting(e)'
    BY TailOnce DEF Waiting
  <2>3. ASSUME NEW d \in Deliveries \ {e} PROVE s \in Waiting(d)' <=> s \in Waiting(d)
    BY TailOnce DEF Waiting
  <2> QED BY <2>1, <2>2, <2>3
<1>5. \A x \in Actors \ {s}, d \in Deliveries :
        SameHand(x, d) /\ (x \in Waiting(d)' <=> x \in Waiting(d))
  BY <1>1, <1>2, <1>4, OtherHands DEF Sound
<1>6. \A d \in Deliveries \ {e} : SameHand(s, d)
  BY <1>1, <1>2, <1>4 DEF SameHand, Holds, Moves, Trying
<1>7. Holds(s, e) /\ ~Moves(s, e)
  BY <1>1, <1>4 DEF Holds, Moves
<1>8. HandsBut(s, e)
  BY <1>5, <1>6 DEF HandsBut
<1>9. \A x \in Scans : x \in Actors
  BY ActorKinds
<1> QED
  BY <1>2, <1>3, <1>4, <1>5, <1>7, <1>8, <1>9

LEMMA GiveUpHands ==
  ASSUME Sound, NEW s \in Scans, NEW e, Entry(s).d = e, GiveUp(s)
  PROVE  SetsAside(s, e)
<1>1. /\ AtEntry(s) /\ TakeEntry(s) /\ UNCHANGED bumps /\ act'[s].pc = "move" /\ act'[s].d = e
      /\ \A x \in Actors \ {s} : act'[x] = act[x]
  BY GiveUpEffect DEF Sound, TypeInv, GiveUp, View
<1>2. HandsBut(s, e) /\ s \notin Waiting(e)' /\ ~Calling(s, e)'
  BY <1>1, TakeHands
<1>3. ~Holds(s, e)' /\ Moves(s, e)'
  BY <1>1, <1>2 DEF Holds, Moves, Trying
<1> QED
  BY <1>2, <1>3 DEF SetsAside

LEMMA SkipEntryHands ==
  ASSUME Sound, NEW s \in Scans, NEW e, Entry(s).d = e, SkipEntry(s)
  PROVE  Lets(s, e)
<1>1. AtEntry(s) /\ TakeEntry(s) /\ UNCHANGED <<act, bumps>> /\ act[s].pc = "next"
  BY DEF SkipEntry, AtEntry
<1>2. HandsBut(s, e) /\ s \notin Waiting(e)' /\ ~Calling(s, e)'
  BY <1>1, TakeHands DEF Trying
<1>3. ~Holds(s, e)' /\ ~Moves(s, e)'
  BY <1>1, <1>2 DEF Holds, Moves, Trying
<1> QED
  BY <1>2, <1>3 DEF Lets

LEMMA RetryHands ==
  ASSUME Sound, NEW s \in Scans, Retry(s)
  PROVE  AllHands
<1> PICK e : Entry(s).d = e
  OBVIOUS
<1>1. /\ AtEntry(s) /\ TakeEntry(s) /\ UNCHANGED bumps /\ act'[s].pc = "sending" /\ act'[s].d = e
      /\ \A x \in Actors \ {s} : act'[x] = act[x]
  BY RetryEffect DEF Sound, TypeInv, Retry, View
<1>2. HandsBut(s, e) /\ Holds(s, e) /\ ~Moves(s, e)
  BY <1>1, TakeHands
<1>3. Holds(s, e)' /\ ~Moves(s, e)'
  BY <1>1 DEF Holds, Moves, Trying
<1> QED
  BY <1>2, <1>3 DEF AllHands, HandsBut, SameHand

LEMMA OverBudgetHands ==
  ASSUME Sound, NEW s \in Scans, OverBudget(s)
  PROVE  AllHands /\ \A d \in Deliveries : Waiting(d)' \subseteq Waiting(d)
<1> DEFINE C == {[by |-> s, d |-> pending[s][i].d, rc |-> Gone] : i \in DOMAIN pending[s]}
<1>1. /\ bumps' = bumps \union C /\ act[s].pc = "next" /\ s \in Actors
      /\ View(s, "deferring", act[s].d)
      /\ DOMAIN pending'[s] = {} /\ \A t \in Scans \ {s} : pending'[t] = pending[t]
  <2>1. bumps' = bumps \union C /\ act[s].pc = "next" /\ s \in Actors
    BY ActorKinds DEF OverBudget, AtEntry
  <2> HIDE DEF C
  <2>2. /\ View(s, "deferring", act[s].d) /\ pending'[s] = <<>>
        /\ \A t \in Scans \ {s} : pending'[t] = pending[t]
    BY OverBudgetTypes DEF Sound
  <2> QED BY <2>1, <2>2
<1>2. /\ \A c \in C : c.by = s /\ s \in Waiting(c.d)
      /\ \A d : s \in Waiting(d) => \E c \in C : c.d = d
  <2>1. ASSUME NEW i \in DOMAIN pending[s]
        PROVE  [by |-> s, d |-> pending[s][i].d, rc |-> Gone] \in C
    OBVIOUS
  <2>2. ASSUME NEW c \in C
        PROVE  c.by = s /\ \E i \in DOMAIN pending[s] : pending[s][i].d = c.d
    OBVIOUS
  <2>3. ASSUME NEW d, NEW i \in DOMAIN pending[s], pending[s][i].d = d
        PROVE  \E c \in C : c.d = d
    BY <2>1, <2>3
  <2> HIDE DEF C
  <2> QED BY <2>2, <2>3 DEF Waiting
<1> HIDE DEF C
<1>3. act'[s].pc = "deferring" /\ \A x \in Actors \ {s} : act'[x] = act[x]
  BY <1>1 DEF View
<1>4. \A x \in Actors \ {s}, d \in Deliveries : Calling(x, d)' <=> Calling(x, d)
  BY <1>1, <1>2 DEF Calling
<1>5. \A x \in Actors \ {s}, d \in Deliveries :
        SameHand(x, d) /\ (x \in Waiting(d)' <=> x \in Waiting(d))
  BY <1>1, <1>3, <1>4, OtherHands DEF Sound
<1>6. \A d \in Deliveries : Calling(s, d)' <=> s \in Waiting(d)
  <2>1. \A b \in bumps : b.by # s
    BY <1>1, NoCalls
  <2> QED BY <1>1, <1>2, <2>1 DEF Calling
<1>7. \A d \in Deliveries : ~Calling(s, d) /\ s \notin Waiting(d)'
  BY <1>1, NoCalls DEF Calling, Waiting
<1>8. \A d \in Deliveries : SameHand(s, d)
  BY <1>1, <1>3, <1>6, <1>7 DEF SameHand, Holds, Moves, Trying
<1>9. \A d \in Deliveries : Waiting(d)' \subseteq Scans
  BY DEF Waiting
<1> QED
  BY <1>5, <1>7, <1>8, <1>9, ActorKinds DEF AllHands

LEMMA CrashHands ==
  ASSUME Sound, Crash
  PROVE  \A x \in Actors, d \in Deliveries : ~Holds(x, d)' /\ ~Moves(x, d)' /\ Waiting(d)' = {}
<1>1. /\ bumps' = {} /\ \A s \in Scans : DOMAIN pending'[s] = {}
      /\ \A x \in Actors : act'[x].pc \in {"off", "new", "done"}
  BY CrashTypes, CrashEffect, ActorKinds DEF Sound, TypeInv, Crash
<1>2. \A d \in Deliveries : Waiting(d)' = {}
  BY <1>1 DEF Waiting
<1>3. \A x, d : ~Calling(x, d)'
  BY <1>1 DEF Calling
<1> QED
  BY <1>1, <1>2, <1>3 DEF Holds, Moves, Trying

-----------------------------------------------------------------------------
(***************************************************************************)
(* What an acknowledgement has settled while nobody else had the entry is  *)
(* settled for good: it has no file, so no scan takes it up again, and     *)
(* nobody is left who could write one.                                     *)
(***************************************************************************)
FinalOK == \A d \in final : d \in Range(order) /\ json[d] = Gone /\ ~Owed(d)

LEMMA HandsOwed ==
  ASSUME NEW a \in Actors, NEW e, HandsBut(a, e)
  PROVE  /\ \A d \in Deliveries \ {e} : Owed(d)' <=> Owed(d)
         /\ ~Holds(a, e)' /\ ~Moves(a, e)' => \A d \in Deliveries : Owed(d)' => Owed(d)
         /\ Holds(a, e) \/ Moves(a, e) => \A d \in Deliveries : Owed(d)' => Owed(d)
<1>1. ASSUME NEW d \in Deliveries \ {e} PROVE Owed(d)' <=> Owed(d)
  BY <1>1 DEF HandsBut, SameHand, Owed
<1>2. ASSUME ~Holds(a, e)' /\ ~Moves(a, e)', NEW d \in Deliveries PROVE Owed(d)' => Owed(d)
  BY <1>2 DEF HandsBut, SameHand, Owed
<1>3. ASSUME Holds(a, e) \/ Moves(a, e), NEW d \in Deliveries PROVE Owed(d)' => Owed(d)
  BY <1>3 DEF HandsBut, SameHand, Owed
<1> QED
  BY <1>1, <1>2, <1>3

LEMMA AllHandsOwed ==
  ASSUME AllHands
  PROVE  \A d \in Deliveries : Owed(d)' <=> Owed(d)
BY DEF AllHands, SameHand, Owed

\* A file is written for an entry that somebody has in hand, or for a new one.
\* No step but a load takes up an entry; a load takes up what has a file.
Revives(d) == json[d] # Gone \/ Owed(d) \/ d \notin Range(order)

Quiet == \A d \in Deliveries : json'[d] # Gone \/ Owed(d)' => Revives(d)

LEMMA AtRest ==
  ASSUME json' = json, \A d \in Deliveries : Owed(d)' => Owed(d)
  PROVE  Quiet
BY DEF Quiet, Revives

LEMMA GoesOnQuiet ==
  ASSUME Sound, NEW a \in Actors, GoesOn(a), act[a].pc # "unlink"
  PROVE  Quiet
<1> PICK e : act[a].d = e
  OBVIOUS
<1>1. e \in Deliveries /\ (json' = json \/ json' = [json EXCEPT ![e] = Gone])
  BY WorksOnDelivery DEF Sound, TypeInv, GoesOn, Busy
<1>2. \A d \in Deliveries : json'[d] # Gone => json[d] # Gone
  BY <1>1 DEF Sound, TypeInv, FileTypes
<1>3. Holds(a, e) \/ Moves(a, e)
  BY DEF GoesOn, Holds, Moves, Trying
<1>4. \A d \in Deliveries : Owed(d)' => Owed(d)
  BY <1>3, GoesOnHands, HandsOwed
<1> QED
  BY <1>2, <1>4 DEF Quiet, Revives

LEMMA SendQuiet ==
  ASSUME Sound, NEW a \in Actors, Send(a)
  PROVE  Quiet
<1>1. CASE LooksSame
  <2>1. AllHands
    BY <1>1, SameViewHands, SameCalls DEF LooksSame
  <2> QED BY <1>1, <2>1, AllHandsOwed, AtRest DEF LooksSame, files
<1>2. CASE \E pc \in {"done", "ack", "move"} : Decides(a, pc)
  BY <1>2, DecidesGoesOn, GoesOnQuiet DEF Sound, Decides
<1>3. CASE Fails(a)
  BY <1>3, FailsHands, AllHandsOwed, AtRest DEF Fails, files
<1> QED
  BY <1>1, <1>2, <1>3, SendEffect DEF Sound, TypeInv

LEMMA UnlinkQuiet ==
  ASSUME Sound, NEW a \in Actors, Unlink(a)
  PROVE  Quiet
<1>1. GoesOn(a) /\ act[a].pc = "unlink" /\ act'[a].pc = Settled(a) /\ json' = json
  BY UnlinkTypes, UnlinkEffect DEF Sound, TypeInv, Unlink, View
<1> QED
  BY <1>1, UnlinkHands, AllHandsOwed, AtRest

LEMMA BumpQuiet ==
  ASSUME Sound, NEW b \in bumps, BumpRead(b) \/ BumpWrite(b) \/ BumpFails(b)
  PROVE  Quiet
<1>1. CASE Reads(b)
  BY <1>1, ReadsHands, AllHandsOwed, AtRest DEF Reads, files
<1>2. CASE Ends(b)
  <2>1. Lets(b.by, b.d) /\ Holds(b.by, b.d) /\ b.by \in Actors /\ b.d \in Deliveries
    BY <1>2, EndsHands, CallFacts DEF Ends, Sound
  <2>2. \A d \in Deliveries : Owed(d)' => Owed(d)
    BY <2>1, HandsOwed DEF Lets
  <2>3. Owed(b.d)
    BY <2>1 DEF Owed
  <2>4. \A d \in Deliveries \ {b.d} : json'[d] = json[d]
    BY <1>2 DEF Ends, Sound, TypeInv, FileTypes
  <2> QED BY <2>2, <2>3, <2>4 DEF Quiet, Revives
<1> QED
  BY <1>1, <1>2, BumpEffect DEF Sound

LEMMA BeginsQuiet ==
  ASSUME Sound, NEW e \in Deliveries, Enqueue(e) \/ EnqueueFails(e)
  PROVE  Quiet
<1>1. \A d \in Deliveries \ {e} : json'[d] = json[d]
  BY DEF Enqueue, EnqueueFails, files, Sound, TypeInv, FileTypes
<1>2. e \notin Range(order) /\ e \in Actors
  BY ActorKinds DEF Enqueue, EnqueueFails, Sound, Known
<1>3. \A d \in Deliveries \ {e} : Owed(d)' => Owed(d)
  BY <1>2, BeginsHands, HandsOwed
<1> QED
  BY <1>1, <1>2, <1>3 DEF Quiet, Revives

LEMMA ScanQuiet ==
  ASSUME Sound, NEW s \in Scans, ScanStep(s) \/ MoveFails(s) \/ \E isLate \in BOOLEAN : GatewayStart(s, isLate)
  PROVE  Quiet
<1> s \in Actors
  BY ActorKinds
<1>1. CASE ScanLoad(s)
  <2>1. ASSUME NEW d \in Deliveries, Owed(d)' PROVE Revives(d)
    BY <1>1, <2>1, LoadHands DEF Owed, SameHand, Revives
  <2> QED BY <1>1, <2>1 DEF ScanLoad, Quiet, Revives
<1>2. CASE OverBudget(s) \/ Retry(s)
  BY <1>2, OverBudgetHands, RetryHands, AllHandsOwed, AtRest DEF OverBudget, Retry, files
<1>3. CASE GiveUp(s) \/ SkipEntry(s)
  <2> PICK e : Entry(s).d = e
    OBVIOUS
  <2>1. Holds(s, e)
    <3>1. s \in Waiting(e)
      BY <1>3, TailOnce DEF Waiting, GiveUp, SkipEntry
    <3> QED BY <3>1 DEF Holds
  <2>2. HandsBut(s, e) /\ json' = json
    BY <1>3, GiveUpHands, SkipEntryHands DEF GiveUp, SkipEntry, files, SetsAside, Lets
  <2> QED BY <2>1, <2>2, HandsOwed, AtRest
<1>4. CASE MoveToFailed(s) \/ MoveFails(s)
  BY <1>4, MoveToFailedTypes, GoesOnQuiet DEF Sound, MoveToFailed, MoveFails
<1>5. CASE ScanEnds(s) \/ \E isLate \in BOOLEAN : GatewayStart(s, isLate)
  BY <1>5, StartAndEndHands, AllHandsOwed, AtRest DEF ScanEnds, GatewayStart, files
<1> QED
  BY <1>1, <1>2, <1>3, <1>4, <1>5 DEF ScanStep

LEMMA NextQuiet == Sound /\ [Next]_vars => Quiet
<1> SUFFICES ASSUME Sound, [Next]_vars PROVE Quiet
  OBVIOUS
<1>1. CASE \E d \in Deliveries : Enqueue(d) \/ EnqueueFails(d)
  BY <1>1, BeginsQuiet
<1>2. CASE \E a \in Actors : Send(a) \/ Unlink(a)
  BY <1>2, SendQuiet, UnlinkQuiet
<1>3. ASSUME NEW a \in Actors, Ack(a) \/ AckFails(a) PROVE Quiet
  <2>1. act[a].pc = "ack" /\ (GoesOn(a) \/ Fails(a))
    BY <1>3, AckTypes, AckFailsTypes DEF Sound, Ack, AckFails
  <2>2. CASE Fails(a)
    BY <2>2, FailsHands, AllHandsOwed, AtRest DEF Fails, files
  <2> QED BY <2>1, <2>2, GoesOnQuiet
<1>4. CASE \E b \in bumps : BumpRead(b) \/ BumpWrite(b) \/ BumpFails(b)
  BY <1>4, BumpQuiet
<1>5. CASE \E s \in Scans : ScanStep(s) \/ MoveFails(s) \/ \E isLate \in BOOLEAN : GatewayStart(s, isLate)
  BY <1>5, ScanQuiet
<1>6. CASE Crash
  BY <1>6, CrashHands DEF Crash, files, Quiet, Revives, Owed
<1>7. CASE UNCHANGED vars
  <2>1. AllHands
    BY <1>7 DEF vars, AllHands, SameHand, Holds, Moves, Waiting, Calling
  <2> QED BY <1>7, <2>1, AllHandsOwed, AtRest DEF vars, files
<1> QED
  BY <1>1, <1>2, <1>3, <1>4, <1>5, <1>6, <1>7 DEF Next, Settle, Bump, DiskFault

\* Who acknowledges alone leaves nobody with the entry.
LEMMA AckAlone ==
  ASSUME Sound, NEW a \in Actors, Ack(a), NEW e, act[a].d = e, \A x \in Actors \ {a} : ~Has(x, e)
  PROVE  e \in Deliveries /\ e \in Range(order) /\ json'[e] = Gone /\ ~Owed(e)'
<1>1. /\ GoesOn(a) /\ act[a].pc = "ack" /\ act'[a].pc = "unlink"
      /\ json' = [json EXCEPT ![e] = Gone]
  BY AckTypes, AckEffect DEF Sound, TypeInv, Ack, View
<1>2. e \in Deliveries /\ e \in Range(order)
  BY <1>1, WorksOnDelivery, EntryOf DEF Sound, TypeInv, Busy, GoesOn
<1>3. Lets(a, e)
  BY <1>1, LetsHands DEF Trying
<1>4. \A x \in Actors \ {a} : ~Holds(x, e) /\ ~Moves(x, e)
  BY DEF Has, Holds, Moves, Waiting, Calling, Trying
<1>5. ~Owed(e)'
  BY <1>2, <1>3, <1>4 DEF Lets, HandsBut, SameHand, Owed
<1> QED
  BY <1>1, <1>2, <1>5 DEF Sound, TypeInv, FileTypes

\* Only an ack extends final, and only a new entry the order.
LEMMA FinalFrame ==
  ASSUME [Next]_vars
  PROVE  /\ final' = final \/ \E a \in Actors : Ack(a)
         /\ order' = order \/ \E x \in Deliveries : order' = Append(order, x)
<1>1. CASE \E x \in Deliveries : Enqueue(x) \/ EnqueueFails(x)
  BY <1>1 DEF Enqueue, EnqueueFails, files
<1>2. CASE \E a \in Actors : Send(a)
  BY <1>2 DEF Send, SendOk, CoreReturns, SendError, CoreThrows, files, history
<1>3. CASE \E a \in Actors : Settle(a) \/ AckFails(a)
  BY <1>3 DEF Settle, Ack, Unlink, AckFails, files, history
<1>4. CASE \E b \in bumps : BumpRead(b) \/ BumpWrite(b) \/ BumpFails(b)
  BY <1>4 DEF BumpRead, BumpWrite, BumpFails, files, history
<1>5. CASE \E s \in Scans : ScanLoad(s) \/ OverBudget(s) \/ GiveUp(s) \/ SkipEntry(s) \/ Retry(s)
  BY <1>5 DEF ScanLoad, OverBudget, GiveUp, SkipEntry, Retry, files, history
<1>6. CASE \E s \in Scans : MoveToFailed(s) \/ MoveFails(s) \/ ScanEnds(s)
                            \/ \E isLate \in BOOLEAN : GatewayStart(s, isLate)
  BY <1>6 DEF MoveToFailed, MoveFails, ScanEnds, GatewayStart, files, history
<1>7. CASE Crash \/ UNCHANGED vars
  BY <1>7 DEF Crash, vars, files, history
<1> QED
  BY <1>1, <1>2, <1>3, <1>4, <1>5, <1>6, <1>7 DEF Next, Bump, ScanStep, DiskFault

LEMMA FinalNext == Sound /\ FinalOK /\ [Next]_vars => FinalOK'
<1> SUFFICES ASSUME Sound, FinalOK, [Next]_vars, NEW d \in final'
             PROVE  d \in Range(order') /\ json'[d] = Gone /\ ~Owed(d)'
  BY DEF FinalOK
<1>1. d \in Range(order) => d \in Range(order')
  <2>1. CASE order' = order
    BY <2>1
  <2>2. ASSUME NEW x \in Deliveries, order' = Append(order, x)
        PROVE  d \in Range(order) => d \in Range(order')
    <3>1. Range(Append(order, x)) = Range(order) \union {x}
      BY AppendRange DEF Sound, TypeInv, FileTypes
    <3> QED BY <2>2, <3>1
  <2> QED BY <2>1, <2>2, FinalFrame
<1>2. CASE d \in final
  <2>1. d \in Range(order) /\ d \in Deliveries /\ ~Revives(d)
    BY <1>2, RangeOrder DEF FinalOK, Revives, Sound, TypeInv
  <2> QED BY <1>1, <2>1, NextQuiet DEF Quiet
<1>3. CASE d \notin final
  <2>1. PICK a \in Actors : Ack(a)
    BY <1>3, FinalFrame
  <2>2. act[a].d = d /\ \A x \in Actors \ {a} : ~Has(x, d)
    BY <1>3, <2>1 DEF Ack
  <2> QED BY <1>1, <2>1, <2>2, AckAlone
<1> QED
  BY <1>2, <1>3

LEMMA FinalStep == Sound /\ FinalOK /\ [Next]_vars => \A a \in Actors : SendOk(a) => act[a].d \notin final
<1> SUFFICES ASSUME FinalOK, NEW a \in Actors, SendOk(a) PROVE act[a].d \notin final
  OBVIOUS
<1>1. Holds(a, act[a].d)
  BY DEF SendOk, NextPayload, Holds, Trying
<1> QED
  BY <1>1 DEF FinalOK, Owed

\* What was acknowledged while nobody else worked on it is never sent again,
\* in this gateway start or a later one, however many scans and live
\* deliveries overlap, crash or fail to write: ackDelivery (delivery-queue-
\* storage.ts:159) takes the file away before anybody can load it again.
THEOREM FinalStaysFinal == Spec => FinalNeverSentAgain
<1>1. Init => Sound /\ FinalOK
  BY SoundInit DEF Init, FinalOK
<1>2. Sound /\ FinalOK /\ [Next]_vars => Sound' /\ FinalOK'
  BY SoundNext, FinalNext
<1>3. Sound /\ FinalOK /\ [Next]_vars => [\A a \in Actors : SendOk(a) => act[a].d \notin final]_vars
  BY FinalStep
<1> QED
  BY <1>1, <1>2, <1>3, PTL DEF Spec, FinalNeverSentAgain

-----------------------------------------------------------------------------
(***************************************************************************)
(* Gateway starts.  Each start, and the live delivery, may count one more  *)
(* failure against an entry.  The count in its file, and any count that a  *)
(* failDelivery call has read, leave room for all that may still come.     *)
(***************************************************************************)
MayCount(a, d) ==
  \/ a = d /\ act[a].pc = "new"
  \/ a \in Scans /\ act[a].pc = "load"
  \/ Holds(a, d)

Counters(d) == {a \in {d} \union Scans : MayCount(a, d)}

Room(d, n) == n + Cardinality(Counters(d)) <= starts + 1

FilesLeaveRoom ==
  \A d \in Deliveries : Room(d, 0) /\ \A n \in Nat : json[d] = n => Room(d, n)

CallsLeaveRoom == \A b \in bumps : \A n \in Nat : b.rc = n => Room(b.d, n)

PendingLate == \A s \in Scans : \A i \in DOMAIN pending[s] : pending[s][i].rc <= starts

MovesLate ==
  \A s \in Scans : act[s].pc = "move" /\ act[s].d \notin permanent => starts >= MaxRetries

CountsOK == FilesLeaveRoom /\ CallsLeaveRoom /\ PendingLate /\ MovesLate /\ GivenUpLate

Shrinks == \A d \in Deliveries : Counters(d)' \subseteq Counters(d)

KeepsRoom == \A d \in Deliveries, n \in Nat : Room(d, n) => Room(d, n)'

LEMMA CountersFinite ==
  ASSUME NEW d
  PROVE  /\ IsFiniteSet(Counters(d)) /\ Cardinality(Counters(d)) \in Nat
         /\ IsFiniteSet(Counters(d)') /\ Cardinality(Counters(d)') \in Nat
<1>1. IsFiniteSet(Scans \union {d})
  BY FS_AddElement
<1>2. Counters(d) \in SUBSET (Scans \union {d}) /\ Counters(d)' \in SUBSET (Scans \union {d})
  BY DEF Counters
<1>3. IsFiniteSet(Counters(d)) /\ IsFiniteSet(Counters(d)')
  BY <1>1, <1>2, FS_Subset
<1> QED
  BY <1>3, FS_CardinalityType

LEMMA RoomShrinks ==
  ASSUME TypeInv, Shrinks, UNCHANGED starts
  PROVE  KeepsRoom
<1> SUFFICES ASSUME NEW d \in Deliveries, NEW n \in Nat, Room(d, n) PROVE Room(d, n)'
  BY DEF KeepsRoom
<1> DEFINE C == Counters(d)
           D == Counters(d)'
<1>1. D \in SUBSET C /\ IsFiniteSet(C) /\ Cardinality(C) \in Nat /\ Cardinality(D) \in Nat
  BY CountersFinite DEF Shrinks
<1>2. n + Cardinality(C) <= starts + 1 /\ starts \in Nat
  BY DEF Room, TypeInv, FileTypes
<1> HIDE DEF C, D
<1>3. Cardinality(D) <= Cardinality(C)
  BY <1>1, FS_Subset
<1>4. n + Cardinality(D) <= starts' + 1
  BY <1>1, <1>2, <1>3
<1> QED
  BY <1>4 DEF Room, D

\* Who has counted its failure makes room for it.
LEMMA RoomCounted ==
  ASSUME TypeInv, Shrinks, UNCHANGED starts, NEW d \in Deliveries, NEW n \in Nat, Room(d, n),
         NEW a, a \in Counters(d), a \notin Counters(d)'
  PROVE  Room(d, n + 1)'
<1> DEFINE C == Counters(d)
           D == Counters(d)'
<1>1. /\ D \in SUBSET (C \ {a}) /\ a \in C
      /\ IsFiniteSet(C) /\ Cardinality(C) \in Nat /\ Cardinality(D) \in Nat
  BY CountersFinite DEF Shrinks
<1>2. n + Cardinality(C) <= starts + 1 /\ starts \in Nat
  BY DEF Room, TypeInv, FileTypes
<1> HIDE DEF C, D
<1>3. IsFiniteSet(C \ {a}) /\ Cardinality(C \ {a}) = Cardinality(C) - 1
  BY <1>1, FS_RemoveElement
<1>4. Cardinality(D) <= Cardinality(C \ {a})
  BY <1>1, <1>3, FS_Subset
<1>5. (n + 1) + Cardinality(D) <= starts' + 1
  BY <1>1, <1>2, <1>3, <1>4
<1> QED
  BY <1>5 DEF Room, D

\* A gateway start may count once more.
LEMMA RoomStarts ==
  ASSUME TypeInv, starts' = starts + 1, NEW s \in Scans,
         \A d \in Deliveries : Counters(d)' \subseteq Counters(d) \union {s}
  PROVE  KeepsRoom
<1> SUFFICES ASSUME NEW d \in Deliveries, NEW n \in Nat, Room(d, n) PROVE Room(d, n)'
  BY DEF KeepsRoom
<1> DEFINE C == Counters(d)
           D == Counters(d)'
<1>1. /\ D \in SUBSET (C \union {s})
      /\ IsFiniteSet(C) /\ Cardinality(C) \in Nat /\ Cardinality(D) \in Nat
  BY CountersFinite
<1>2. n + Cardinality(C) <= starts + 1 /\ starts \in Nat
  BY DEF Room, TypeInv, FileTypes
<1> HIDE DEF C, D
<1>3. IsFiniteSet(C \union {s}) /\ Cardinality(C \union {s}) <= Cardinality(C) + 1
      /\ Cardinality(C \union {s}) \in Nat
  <2>1. /\ IsFiniteSet(C \union {s})
        /\ Cardinality(C \union {s}) = IF s \in C THEN Cardinality(C) ELSE Cardinality(C) + 1
    BY <1>1, FS_AddElement
  <2> QED BY <1>1, <2>1
<1>4. Cardinality(D) <= Cardinality(C \union {s})
  BY <1>1, <1>3, FS_Subset
<1>5. n + Cardinality(D) <= starts' + 1
  BY <1>1, <1>2, <1>3, <1>4
<1> QED
  BY <1>5 DEF Room, D

\* Nobody begins, and no scan starts.
NoFresh == \A x \in Actors : act'[x].pc \in {"new", "load"} => act'[x].pc = act[x].pc

LEMMA HandsShrink ==
  ASSUME NoFresh, \A x \in Actors, d \in Deliveries : Holds(x, d)' => MayCount(x, d)
  PROVE  Shrinks
<1> SUFFICES ASSUME NEW d \in Deliveries, NEW x \in {d} \union Scans, MayCount(x, d)' PROVE MayCount(x, d)
  BY DEF Shrinks, Counters
<1> x \in Actors
  BY ActorKinds
<1> QED
  BY DEF NoFresh, MayCount

LEMMA AllHandsShrink ==
  ASSUME NoFresh, AllHands
  PROVE  Shrinks
BY HandsShrink DEF AllHands, SameHand, MayCount

LEMMA DropShrinks ==
  ASSUME NoFresh, NEW a \in Actors, NEW e, HandsBut(a, e), MayCount(a, e) \/ ~Holds(a, e)'
  PROVE  Shrinks
BY HandsShrink DEF HandsBut, SameHand, MayCount

LEMMA ViewNoFresh ==
  ASSUME NEW a, NEW pc, pc \notin {"new", "load"}, NEW d, View(a, pc, d)
  PROVE  NoFresh
BY DEF View, NoFresh

LEMMA SameViewNoFresh ==
  ASSUME SameView
  PROVE  NoFresh
BY DEF SameView, NoFresh

LEMMA GoesOnShrinks ==
  ASSUME Sound, NEW a \in Actors, GoesOn(a), act[a].pc \in Trying \/ act'[a].pc \notin Trying
  PROVE  Shrinks
<1> PICK e : act[a].d = e
  OBVIOUS
<1>1. NoFresh
  BY ViewNoFresh DEF GoesOn, Settled
<1>2. HandsBut(a, e) /\ (Holds(a, e)' <=> act'[a].pc \in Trying)
  BY GoesOnHands
<1>3. Holds(a, e) \/ ~Holds(a, e)'
  BY <1>2 DEF Holds
<1> QED
  BY <1>1, <1>2, <1>3, DropShrinks DEF MayCount

\* A step that counts no failure, and leaves the snapshots alone or shorter.
JsonGoes ==
  \A d \in Deliveries :
    json'[d] \in {json[d], 0, Gone} \/ \A n \in Nat : json'[d] = n => Room(d, n)'

CallsGo ==
  \A b \in bumps' : b \in bumps \/ b.rc = Gone \/ (b.d \in Deliveries /\ b.rc = json[b.d])

SnapshotsGo ==
  \A s \in Scans : \A i \in DOMAIN pending'[s] :
    \/ pending'[s][i].rc \in Nat /\ pending'[s][i].rc <= starts
    \/ \E k \in DOMAIN pending[s] : pending'[s][i] = pending[s][k]

MovesGo ==
  /\ permanent \subseteq permanent'
  /\ \A s \in Scans : act'[s].pc = "move" /\ act'[s].d \notin permanent' =>
       (act[s].pc = "move" /\ act'[s].d = act[s].d) \/ starts >= MaxRetries

FailedGoes ==
  failed' \subseteq failed \/ failed' \ permanent' = {} \/ starts >= MaxRetries

LEMMA CountsKeep ==
  ASSUME Sound, CountsOK, KeepsRoom, starts' \in {starts, starts + 1},
         JsonGoes, CallsGo, SnapshotsGo, MovesGo, FailedGoes
  PROVE  CountsOK'
<1>1. starts \in Nat /\ starts' \in Nat /\ starts <= starts' /\ MaxRetries \in Nat
  BY DeliveryAssumption DEF Sound, TypeInv, FileTypes
<1>2. FilesLeaveRoom'
  <2> SUFFICES ASSUME NEW d \in Deliveries, NEW n \in Nat
               PROVE  Room(d, 0)' /\ (json'[d] = n => Room(d, n)')
    BY DEF FilesLeaveRoom
  <2>1. Room(d, 0)'
    BY DEF CountsOK, FilesLeaveRoom, KeepsRoom
  <2>2. CASE json'[d] \in {json[d], 0, Gone}
    BY <2>1, <2>2, DeliveryAssumption DEF CountsOK, FilesLeaveRoom, KeepsRoom
  <2> QED BY <2>1, <2>2 DEF JsonGoes
<1>3. CallsLeaveRoom'
  <2> SUFFICES ASSUME NEW b \in bumps', NEW n \in Nat, b.rc = n PROVE Room(b.d, n)'
    BY DEF CallsLeaveRoom
  <2>1. CASE b \in bumps
    <3>1. b.d \in Deliveries
      BY <2>1, CallFacts DEF Sound
    <3> QED BY <2>1, <3>1 DEF CountsOK, CallsLeaveRoom, KeepsRoom
  <2>2. CASE b.d \in Deliveries /\ b.rc = json[b.d]
    BY <2>2 DEF CountsOK, FilesLeaveRoom, KeepsRoom
  <2> QED BY <2>1, <2>2, DeliveryAssumption DEF CallsGo
<1>4. PendingLate'
  <2> SUFFICES ASSUME NEW s \in Scans, NEW i \in DOMAIN pending'[s]
               PROVE  pending'[s][i].rc <= starts'
    BY DEF PendingLate
  <2>1. CASE \E k \in DOMAIN pending[s] : pending'[s][i] = pending[s][k]
    <3> PICK k \in DOMAIN pending[s] : pending'[s][i] = pending[s][k]
      BY <2>1
    <3>1. pending[s][k].rc <= starts /\ pending[s][k].rc \in Nat
      BY PendingTypes DEF CountsOK, PendingLate, Sound
    <3> QED BY <1>1, <3>1
  <2>2. CASE pending'[s][i].rc \in Nat /\ pending'[s][i].rc <= starts
    BY <1>1, <2>2
  <2> QED BY <2>1, <2>2 DEF SnapshotsGo
<1>5. MovesLate'
  BY <1>1 DEF CountsOK, MovesLate, MovesGo
<1>6. GivenUpLate'
  BY <1>1 DEF CountsOK, GivenUpLate, FailedGoes, MovesGo
<1> QED
  BY <1>2, <1>3, <1>4, <1>5, <1>6 DEF CountsOK

\* A step that leaves the snapshots and the starts alone.
LEMMA CountsAct ==
  ASSUME Sound, CountsOK, Shrinks, UNCHANGED <<pending, starts>>,
         JsonGoes, CallsGo, MovesGo, FailedGoes
  PROVE  CountsOK'
<1>1. KeepsRoom
  BY RoomShrinks DEF Sound
<1>2. SnapshotsGo
  BY DEF SnapshotsGo
<1> QED
  BY <1>1, <1>2, CountsKeep

LEMMA FailsCounts ==
  ASSUME Sound, CountsOK, NEW a \in Actors, Fails(a)
  PROVE  CountsOK'
<1>1. /\ UNCHANGED <<json, failed, pending, starts, permanent>>
      /\ bumps' = bumps \union {[by |-> a, d |-> act[a].d, rc |-> Gone]}
      /\ act'[a].pc = "failing" /\ \A x \in Actors \ {a} : act'[x] = act[x]
  BY DEF Fails, StartBump, View, files
<1>2. Shrinks
  BY FailsHands, ViewNoFresh, AllHandsShrink DEF Fails
<1>3. JsonGoes /\ CallsGo /\ FailedGoes
  BY <1>1 DEF JsonGoes, CallsGo, FailedGoes
<1>4. MovesGo
  BY <1>1, ActorKinds DEF MovesGo
<1> QED
  BY <1>1, <1>2, <1>3, <1>4, CountsAct

LEMMA SendCounts ==
  ASSUME Sound, CountsOK, NEW a \in Actors, Send(a)
  PROVE  CountsOK'
<1>1. CASE LooksSame
  <2>1. Shrinks
    BY <1>1, SameViewHands, SameCalls, SameViewNoFresh, AllHandsShrink DEF LooksSame
  <2>2. JsonGoes /\ CallsGo /\ FailedGoes /\ UNCHANGED <<pending, starts>>
    BY <1>1 DEF JsonGoes, CallsGo, FailedGoes, LooksSame, files, bounds
  <2>3. MovesGo
    BY <1>1, ActorKinds DEF MovesGo, LooksSame, SameView
  <2> QED BY <2>1, <2>2, <2>3, CountsAct
<1>2. ASSUME NEW pc \in {"done", "ack", "move"}, Decides(a, pc)
      PROVE  CountsOK'
  <2>1. Shrinks
    BY <1>2, DecidesGoesOn, GoesOnShrinks DEF Sound, Decides, Trying
  <2>2. /\ UNCHANGED <<files, pending, bumps, bounds>> /\ permanent \subseteq permanent'
        /\ act'[a].pc = "move" => act'[a].d \in permanent'
        /\ \A x \in Actors \ {a} : act'[x] = act[x]
    BY <1>2 DEF Decides, View
  <2>3. JsonGoes /\ CallsGo /\ FailedGoes /\ UNCHANGED <<pending, starts>>
    BY <2>2 DEF JsonGoes, CallsGo, FailedGoes, files, bounds
  <2>4. MovesGo
    BY <2>2, ActorKinds DEF MovesGo
  <2> QED BY <2>1, <2>3, <2>4, CountsAct
<1>3. CASE Fails(a)
  BY <1>3, FailsCounts
<1> QED
  BY <1>1, <1>2, <1>3, SendEffect DEF Sound, TypeInv

\* The other steps of an actor that settles its delivery.
LEMMA SettleCounts ==
  ASSUME Sound, CountsOK, NEW a \in Actors, Ack(a) \/ Unlink(a) \/ AckFails(a)
  PROVE  CountsOK'
<1>1. CASE Fails(a)
  BY <1>1, FailsCounts
<1>2. CASE GoesOn(a)
  <2>1. act[a].pc \in Trying \/ act'[a].pc \notin Trying
    BY UnlinkEffect DEF Ack, AckFails, Unlink, Trying, Settled, Sound, TypeInv, View
  <2>2. Shrinks
    BY <1>2, <2>1, GoesOnShrinks
  <2>3. /\ UNCHANGED <<failed, pending, bumps, starts, permanent>>
        /\ \A x \in Actors \ {a} : act'[x] = act[x]
        /\ act[a].pc \in {"ack", "unlink"} /\ act[a].d \in Deliveries
        /\ json' = json \/ json' = [json EXCEPT ![act[a].d] = Gone]
    BY <1>2, WorksOnDelivery
       DEF GoesOn, View, Ack, Unlink, AckFails, files, bounds, history, Sound, TypeInv, Busy
  <2>4. act'[a].pc # "move"
    BY <1>2, <2>3, AckEffect, UnlinkEffect, AckFailsEffect
       DEF Ack, Unlink, AckFails, Sound, TypeInv, View, Fails, Settled
  <2>5. MovesGo
    BY <2>3, <2>4, ActorKinds DEF MovesGo
  <2>6. JsonGoes /\ CallsGo /\ FailedGoes
    BY <2>3 DEF Sound, TypeInv, FileTypes, JsonGoes, CallsGo, FailedGoes
  <2> QED BY <2>2, <2>3, <2>5, <2>6, CountsAct
<1> QED
  BY <1>1, <1>2, AckTypes, UnlinkTypes, AckFailsTypes DEF Sound

\* A failDelivery call that has read a count had room for one more.
LEMMA BumpCounts ==
  ASSUME Sound, CountsOK, NEW b \in bumps, BumpRead(b) \/ BumpWrite(b) \/ BumpFails(b)
  PROVE  CountsOK'
<1>1. CASE Reads(b)
  <2>1. Shrinks
    BY <1>1, ReadsHands, SameViewNoFresh, AllHandsShrink DEF Reads
  <2>2. PICK c : c.by = b.by /\ c.d = b.d /\ c.rc = json[b.d] /\ bumps' = (bumps \ {b}) \union {c}
    BY <1>1, ReadCall DEF Sound
  <2>3. CallsGo
    BY <2>2, CallFacts DEF Sound, CallsGo
  <2>4. JsonGoes /\ FailedGoes /\ UNCHANGED <<pending, starts>>
    BY <1>1 DEF JsonGoes, FailedGoes, Reads, files, bounds
  <2>5. MovesGo
    BY <1>1, ActorKinds DEF MovesGo, Reads, SameView, history
  <2> QED BY <2>1, <2>3, <2>4, <2>5, CountsAct
<1>2. CASE Ends(b)
  <2>1. /\ Lets(b.by, b.d) /\ Holds(b.by, b.d) /\ b.by \in Actors /\ b.d \in Deliveries
        /\ b.rc \in Nat \union {Gone}
    BY <1>2, EndsHands, CallFacts DEF Ends, Sound
  <2>2. NoFresh
    BY <1>2, SameViewNoFresh, ViewNoFresh DEF Ends, BumpEnds, Settled
  <2>3. Shrinks
    BY <2>1, <2>2, DropShrinks DEF Lets
  <2>4. /\ UNCHANGED <<failed, pending, starts, permanent>> /\ bumps' \subseteq bumps
    BY <1>2 DEF Ends, BumpEnds, history
  <2>5. MovesGo
    BY <1>2, ActorKinds DEF MovesGo, Ends, BumpEnds, SameView, View, Settled, history
  <2>6. b.by \in {b.d} \union Scans
    <3>1. b.by \in Deliveries => b.by = b.d
      BY PCFacts DEF Sound, Once, CallsOnce
    <3> QED BY <2>1, <3>1, ActorKinds
  <2>7. ASSUME NEW d \in Deliveries
        PROVE  json'[d] \in {json[d], 0, Gone} \/ \A n \in Nat : json'[d] = n => Room(d, n)'
    <3>1. CASE json' = json \/ d # b.d
      BY <1>2, <3>1 DEF Ends, Sound, TypeInv, FileTypes
    <3>2. CASE b.rc # Gone /\ json' = [json EXCEPT ![b.d] = b.rc + 1] /\ d = b.d
      <4>1. b.rc \in Nat /\ json'[d] = b.rc + 1 /\ Room(d, b.rc)
        BY <2>1, <3>2 DEF CountsOK, CallsLeaveRoom, Sound, TypeInv, FileTypes
      <4>2. b.by \in Counters(d)
        BY <2>1, <2>6, <3>2 DEF Counters, MayCount
      <4>3. b.by \notin Counters(d)'
        <5>1. act'[b.by].pc \notin {"new", "load"}
          <6>1. act[b.by].pc \in {"failing", "deferring"}
            BY DEF Sound, Once, CallsOnce
          <6> QED BY <2>1, <2>2, <6>1 DEF NoFresh
        <5>2. ~Holds(b.by, d)'
          BY <2>1, <3>2 DEF Lets
        <5> QED BY <5>1, <5>2 DEF Counters, MayCount
      <4>4. Room(d, b.rc + 1)'
        BY <2>3, <2>4, <4>1, <4>2, <4>3, RoomCounted DEF Sound
      <4> QED BY <4>1, <4>4
    <3> QED BY <1>2, <3>1, <3>2 DEF Ends
  <2>8. JsonGoes
    BY <2>7 DEF JsonGoes
  <2>9. CallsGo /\ FailedGoes
    BY <2>4 DEF CallsGo, FailedGoes
  <2> QED BY <2>3, <2>4, <2>5, <2>8, <2>9, CountsAct
<1> QED
  BY <1>1, <1>2, BumpEffect DEF Sound

\* A delivery that begins may count one failure: it could before.
LEMMA BeginCounts ==
  ASSUME Sound, CountsOK, NEW e \in Deliveries, Enqueue(e) \/ EnqueueFails(e)
  PROVE  CountsOK'
<1>1. /\ View(e, "sending", e) /\ act[e].pc = "new" /\ e \in Actors
      /\ UNCHANGED <<failed, pending, bumps, starts, permanent>>
      /\ json' = json \/ json' = [json EXCEPT ![e] = 0]
  BY EnqueueTypes, EnqueueFailsTypes, ActorKinds
     DEF Sound, Enqueue, EnqueueFails, files, bounds
<1>2. MayCount(e, e) /\ HandsBut(e, e) /\ NoFresh
  BY <1>1, BeginsHands, ViewNoFresh DEF MayCount
<1>3. Shrinks
  BY <1>1, <1>2, DropShrinks
<1>4. JsonGoes /\ CallsGo /\ FailedGoes
  BY <1>1 DEF JsonGoes, CallsGo, FailedGoes, Sound, TypeInv, FileTypes
<1>5. MovesGo
  BY <1>1, ActorKinds DEF MovesGo, View
<1> QED
  BY <1>1, <1>3, <1>4, <1>5, CountsAct

\* A scan that has loaded an entry may count against it: it could before,
\* and there was room for that.
LEMMA LoadCounts ==
  ASSUME Sound, CountsOK, NEW s \in Scans, ScanLoad(s)
  PROVE  CountsOK'
<1>1. /\ View(s, "next", act[s].d) /\ act[s].pc = "load" /\ s \in Actors
      /\ UNCHANGED <<json, failed, bumps, starts, permanent>>
      /\ \A t \in Scans \ {s} : pending'[t] = pending[t]
      /\ \A i \in DOMAIN pending'[s] :
           pending'[s][i].d \in Deliveries /\ pending'[s][i].rc = json[pending'[s][i].d]
           /\ json[pending'[s][i].d] # Gone
  BY ScanLoadTypes, ActorKinds DEF Sound, ScanLoad, history
<1>2. NoFresh
  BY <1>1, ViewNoFresh
<1>3. \A d \in Deliveries : MayCount(s, d)
  BY <1>1 DEF MayCount
<1>4. \A x \in Actors, d \in Deliveries : Holds(x, d)' => MayCount(x, d)
  BY <1>3, LoadHands DEF SameHand, MayCount
<1>5. Shrinks
  BY <1>2, <1>4, HandsShrink
<1>6. JsonGoes /\ CallsGo /\ FailedGoes
  BY <1>1 DEF JsonGoes, CallsGo, FailedGoes
<1>7. MovesGo
  BY <1>1, ActorKinds DEF MovesGo, View
<1>8. ASSUME NEW d \in Deliveries, json[d] # Gone
      PROVE  json[d] \in Nat /\ json[d] <= starts
  <2>1. json[d] \in Nat /\ starts \in Nat
    BY <1>8 DEF Sound, TypeInv, FileTypes
  <2>2. Room(d, json[d])
    BY <2>1 DEF CountsOK, FilesLeaveRoom
  <2>3. s \in Counters(d)
    BY <1>3 DEF Counters
  <2>4. IsFiniteSet(Counters(d)) /\ Cardinality(Counters(d)) \in Nat
    BY CountersFinite
  <2>5. Cardinality(Counters(d)) # 0
    BY <2>3, <2>4, FS_EmptySet
  <2> QED BY <2>1, <2>2, <2>4, <2>5 DEF Room
<1>9. SnapshotsGo
  <2> SUFFICES ASSUME NEW t \in Scans, NEW i \in DOMAIN pending'[t]
               PROVE  \/ pending'[t][i].rc \in Nat /\ pending'[t][i].rc <= starts
                      \/ \E k \in DOMAIN pending[t] : pending'[t][i] = pending[t][k]
    BY DEF SnapshotsGo
  <2>1. CASE t = s
    BY <1>1, <1>8, <2>1
  <2>2. CASE t # s
    BY <1>1, <2>2
  <2> QED BY <2>1, <2>2
<1>10. KeepsRoom
  BY <1>1, <1>5, RoomShrinks DEF Sound
<1> QED
  BY <1>1, <1>6, <1>7, <1>9, <1>10, CountsKeep

\* The other steps of a scan with its entries.
LEMMA EntryCounts ==
  ASSUME Sound, CountsOK, NEW s \in Scans,
         OverBudget(s) \/ Retry(s) \/ SkipEntry(s) \/ GiveUp(s)
  PROVE  CountsOK'
<1> s \in Actors
  BY ActorKinds
<1>1. /\ UNCHANGED <<json, failed, starts, permanent>> /\ AtEntry(s) /\ act[s].pc = "next"
      /\ \E pc \in {"deferring", "sending", "next", "move"} : \E d : View(s, pc, d)
      /\ \A b \in bumps' : b \in bumps \/ b.rc = Gone
      /\ GiveUp(s) \/ act'[s].pc # "move"
  <2>1. CASE SkipEntry(s)
    BY <2>1 DEF SkipEntry, AtEntry, View, Sound, TypeInv, files, bounds, history, ActTypes
  <2>2. CASE OverBudget(s)
    <3> DEFINE C == {[by |-> s, d |-> pending[s][i].d, rc |-> Gone] : i \in DOMAIN pending[s]}
    <3>1. bumps' = bumps \union C /\ \A c \in C : c.rc = Gone
      BY <2>2 DEF OverBudget
    <3> HIDE DEF C
    <3>2. \A b \in bumps' : b \in bumps \/ b.rc = Gone
      BY <3>1
    <3>3. UNCHANGED <<json, failed, starts, permanent>> /\ AtEntry(s) /\ act[s].pc = "next"
      BY <2>2 DEF OverBudget, AtEntry, files, bounds, history
    <3>4. View(s, "deferring", act[s].d) /\ act'[s].pc = "deferring"
      BY <2>2, OverBudgetTypes DEF Sound, View
    <3> QED BY <3>2, <3>3, <3>4
  <2>3. CASE Retry(s)
    BY <2>3, RetryEffect DEF Sound, TypeInv, Retry, AtEntry, View, files, bounds
  <2>4. CASE GiveUp(s)
    BY <2>4, GiveUpEffect DEF Sound, TypeInv, GiveUp, AtEntry, View, files, bounds, history
  <2> QED BY <2>1, <2>2, <2>3, <2>4
<1>2. NoFresh
  BY <1>1, ViewNoFresh
<1>3. Shrinks
  <2> PICK e : Entry(s).d = e
    OBVIOUS
  <2>1. CASE OverBudget(s) \/ Retry(s)
    BY <1>2, <2>1, OverBudgetHands, RetryHands, AllHandsShrink
  <2>2. CASE SkipEntry(s) \/ GiveUp(s)
    BY <1>2, <2>2, SkipEntryHands, GiveUpHands, DropShrinks DEF Lets, SetsAside
  <2> QED BY <2>1, <2>2
<1>4. SnapshotsGo
  <2>1. CASE OverBudget(s)
    <3>1. DOMAIN pending'[s] = {} /\ \A t \in Scans \ {s} : pending'[t] = pending[t]
      BY <2>1, OverBudgetTypes DEF Sound
    <3> QED BY <3>1 DEF SnapshotsGo
  <2>2. CASE TakeEntry(s)
    BY <1>1, <2>2, TailOnce DEF SnapshotsGo
  <2> QED BY <2>1, <2>2 DEF Retry, SkipEntry, GiveUp
<1>5. JsonGoes /\ CallsGo /\ FailedGoes
  BY <1>1 DEF JsonGoes, CallsGo, FailedGoes
<1>6. GiveUp(s) => starts >= MaxRetries
  <2> SUFFICES ASSUME GiveUp(s) PROVE starts >= MaxRetries
    OBVIOUS
  <2>1. PICK i \in DOMAIN pending[s] : pending[s][i].rc >= MaxRetries
    <3>1. Entry(s).rc >= MaxRetries /\ \E i \in DOMAIN pending[s] : pending[s][i] = Entry(s)
      BY TailOnce DEF GiveUp
    <3> QED BY <3>1
  <2>2. pending[s][i].rc \in Nat /\ pending[s][i].rc <= starts
    BY PendingTypes DEF Sound, CountsOK, PendingLate
  <2> QED BY <2>1, <2>2, DeliveryAssumption DEF Sound, TypeInv, FileTypes
<1>7. MovesGo
  BY <1>1, <1>6, ActorKinds DEF MovesGo, View
<1>8. KeepsRoom
  BY <1>1, <1>3, RoomShrinks DEF Sound
<1> QED
  BY <1>1, <1>4, <1>5, <1>7, <1>8, CountsKeep

LEMMA MoveCounts ==
  ASSUME Sound, CountsOK, NEW s \in Scans, MoveToFailed(s) \/ MoveFails(s)
  PROVE  CountsOK'
<1> PICK e : act[s].d = e
  OBVIOUS
<1>1. /\ GoesOn(s) /\ act[s].pc = "move" /\ act'[s].pc = "next" /\ s \in Actors
      /\ UNCHANGED <<pending, bumps, starts, permanent>>
      /\ json' = json \/ json' = [json EXCEPT ![e] = Gone]
      /\ failed' \subseteq failed \union {e} /\ e \in Deliveries
      /\ \A x \in Actors \ {s} : act'[x] = act[x]
  <2>1. GoesOn(s) /\ act[s].pc = "move" /\ s \in Actors
    BY MoveToFailedTypes, ActorKinds DEF Sound, MoveToFailed, MoveFails
  <2>2. act'[s].pc = "next"
    BY <2>1 DEF MoveToFailed, MoveFails, Goto, Sound, TypeInv, ActTypes, Acts
  <2>3. e \in Deliveries
    BY <2>1, WorksOnDelivery DEF Sound, TypeInv, Busy
  <2> QED BY <2>1, <2>2, <2>3 DEF MoveToFailed, MoveFails, files, bounds, history, GoesOn, View
<1>2. Shrinks
  BY <1>1, GoesOnShrinks DEF Trying
<1>3. JsonGoes /\ CallsGo
  BY <1>1 DEF JsonGoes, CallsGo, Sound, TypeInv, FileTypes
<1>4. MovesGo
  BY <1>1, ActorKinds DEF MovesGo
<1>5. FailedGoes
  <2>1. CASE e \in permanent
    BY <1>1, <2>1 DEF FailedGoes, CountsOK, GivenUpLate
  <2>2. CASE e \notin permanent
    BY <1>1, <2>2 DEF FailedGoes, CountsOK, MovesLate
  <2> QED BY <2>1, <2>2
<1> QED
  BY <1>1, <1>2, <1>3, <1>4, <1>5, CountsAct

LEMMA ScanEndsCounts ==
  ASSUME Sound, CountsOK, NEW s \in Scans, ScanEnds(s)
  PROVE  CountsOK'
<1>1. View(s, "off", Gone) /\ UNCHANGED <<files, pending, bumps, bounds, history>> /\ s \in Actors
  BY ScanEndsTypes, ActorKinds DEF Sound, ScanEnds
<1>2. Shrinks
  BY <1>1, StartAndEndHands, ViewNoFresh, AllHandsShrink
<1>3. JsonGoes /\ CallsGo /\ FailedGoes
  BY <1>1 DEF JsonGoes, CallsGo, FailedGoes, files
<1>4. MovesGo
  BY <1>1, ActorKinds DEF MovesGo, View, history
<1> QED
  BY <1>1, <1>2, <1>3, <1>4, CountsAct DEF bounds

LEMMA GatewayStartCounts ==
  ASSUME Sound, CountsOK, MaxStarts # 0, NEW s \in Scans, NEW isLate \in BOOLEAN,
         GatewayStart(s, isLate)
  PROVE  CountsOK'
<1>1. /\ View(s, "load", Gone) /\ UNCHANGED <<json, failed, pending, bumps, permanent>>
      /\ starts' = starts + 1 /\ s \in Actors
  BY GatewayStartTypes, ActorKinds DEF Sound, GatewayStart, files, history
<1>2. \A x \in Actors \ {s} : act'[x] = act[x]
  BY <1>1 DEF View
<1>3. \A x \in Actors, d \in Deliveries : Holds(x, d)' => Holds(x, d)
  BY StartAndEndHands DEF AllHands, SameHand
<1>4. ASSUME NEW d \in Deliveries, NEW x \in {d} \union Scans, x # s, MayCount(x, d)'
      PROVE  MayCount(x, d)
  <2>1. x \in Actors
    BY ActorKinds
  <2> QED BY <1>2, <1>3, <1>4, <2>1 DEF MayCount
<1>5. \A d \in Deliveries : Counters(d)' \subseteq Counters(d) \union {s}
  BY <1>4 DEF Counters
<1>6. KeepsRoom
  BY <1>1, <1>5, RoomStarts DEF Sound
<1>7. JsonGoes /\ CallsGo /\ FailedGoes /\ SnapshotsGo
  BY <1>1 DEF JsonGoes, CallsGo, FailedGoes, SnapshotsGo
<1>8. MovesGo
  BY <1>1, ActorKinds DEF MovesGo, View
<1> QED
  BY <1>1, <1>6, <1>7, <1>8, CountsKeep

LEMMA CrashCounts ==
  ASSUME Sound, CountsOK, Crash
  PROVE  CountsOK'
<1>1. /\ UNCHANGED <<json, failed, starts, permanent>> /\ bumps' = {}
      /\ \A s \in Scans : act'[s].pc = "off" /\ DOMAIN pending'[s] = {}
      /\ \A d \in Deliveries : act'[d].pc = IF act[d].pc = "new" THEN "new" ELSE "done"
  BY CrashTypes, CrashEffect DEF Sound, TypeInv, Crash, files, history
<1>2. NoFresh
  BY <1>1, ActorKinds DEF NoFresh
<1>3. Shrinks
  BY <1>2, CrashHands, HandsShrink
<1>4. KeepsRoom
  BY <1>1, <1>3, RoomShrinks DEF Sound
<1>5. JsonGoes /\ CallsGo /\ FailedGoes /\ SnapshotsGo /\ MovesGo
  BY <1>1 DEF JsonGoes, CallsGo, FailedGoes, SnapshotsGo, MovesGo
<1> QED
  BY <1>1, <1>4, <1>5, CountsKeep

LEMMA CountsNext == Sound /\ CountsOK /\ MaxStarts # 0 /\ [Next]_vars => CountsOK'
<1> SUFFICES ASSUME Sound, CountsOK, MaxStarts # 0, [Next]_vars PROVE CountsOK'
  OBVIOUS
<1>1. CASE \E d \in Deliveries : Enqueue(d) \/ EnqueueFails(d)
  BY <1>1, BeginCounts
<1>2. CASE \E a \in Actors : Send(a) \/ Ack(a) \/ Unlink(a) \/ AckFails(a)
  BY <1>2, SendCounts, SettleCounts
<1>3. CASE \E b \in bumps : BumpRead(b) \/ BumpWrite(b) \/ BumpFails(b)
  BY <1>3, BumpCounts
<1>4. CASE \E s \in Scans : \/ ScanLoad(s) \/ OverBudget(s) \/ GiveUp(s) \/ SkipEntry(s)
                            \/ Retry(s) \/ MoveToFailed(s) \/ MoveFails(s) \/ ScanEnds(s)
  BY <1>4, LoadCounts, EntryCounts, MoveCounts, ScanEndsCounts
<1>5. CASE \E s \in Scans, isLate \in BOOLEAN : GatewayStart(s, isLate)
  BY <1>5, GatewayStartCounts
<1>6. CASE Crash
  BY <1>6, CrashCounts
<1>7. CASE UNCHANGED vars
  BY <1>7 DEF vars, files, bounds, history, CountsOK, FilesLeaveRoom, CallsLeaveRoom, PendingLate,
              MovesLate, GivenUpLate, Room, Counters, MayCount, Holds, Waiting, Calling
<1> QED
  BY <1>1, <1>2, <1>3, <1>4, <1>5, <1>6, <1>7 DEF Next, Settle, Bump, ScanStep, DiskFault

LEMMA CountsInit == Init => CountsOK
<1> SUFFICES ASSUME Init PROVE CountsOK
  OBVIOUS
<1>1. /\ \A a \in Actors : act[a].pc = IF a \in Scans THEN "off" ELSE "new"
      /\ bumps = {} /\ failed = {} /\ starts = 0
      /\ \A d \in Deliveries : json[d] = Gone
      /\ \A s \in Scans : DOMAIN pending[s] = {}
  BY DEF Init, Idle
<1>2. ASSUME NEW d \in Deliveries PROVE Room(d, 0)
  <2>1. Counters(d) \in SUBSET {d}
    BY <1>1, ActorKinds DEF Counters, MayCount, Holds, Waiting, Calling, Trying
  <2>2. IsFiniteSet({d}) /\ Cardinality({d}) = 1
    BY FS_Singleton
  <2>3. Cardinality(Counters(d)) <= 1 /\ Cardinality(Counters(d)) \in Nat
    BY <2>1, <2>2, FS_Subset, CountersFinite
  <2> QED BY <1>1, <2>3 DEF Room
<1>3. FilesLeaveRoom
  BY <1>1, <1>2, DeliveryAssumption DEF FilesLeaveRoom
<1>4. MovesLate
  BY <1>1, ActorKinds DEF MovesLate
<1> QED
  BY <1>1, <1>3, <1>4 DEF CountsOK, CallsLeaveRoom, PendingLate, GivenUpLate

\* Except for a permanent error, no file is given up before the
\* MAX_RETRIES-th gateway start, with scans and live deliveries overlapping
\* as they may: what the scan of a start counts against an entry, by failing
\* attempts or by deferrals, is one retry, and the live delivery counts one.
THEOREM GivenUpOnlyLate ==
  ASSUME MaxStarts # 0
  PROVE  Spec => []GivenUpLate
<1>1. Init => Sound /\ CountsOK
  BY SoundInit, CountsInit
<1>2. Sound /\ CountsOK /\ [Next]_vars => Sound' /\ CountsOK'
  BY SoundNext, CountsNext
<1>3. Sound /\ CountsOK => GivenUpLate
  BY DEF CountsOK
<1> QED
  BY <1>1, <1>2, <1>3, PTL DEF Spec

-----------------------------------------------------------------------------
(***************************************************************************)
(* The budget of attempts.  For each entry there is a count n that no file, *)
(* snapshot or failDelivery call is below, and no more attempts have begun *)
(* or may still be begun from a snapshot than n allows: one more than n,   *)
(* and one more for each overlapping load, crash and failing file          *)
(* operation.  Once nobody has the entry in hand, the failure of the last  *)
(* attempt has been counted or was one of those.                           *)
(***************************************************************************)
Spent == overlaps + crashes + diskErrors

Ledger(d, n) ==
  /\ json[d] # Gone => json[d] >= n
  /\ \A b \in bumps : b.d = d /\ b.rc # Gone => b.rc >= n
  /\ \A s \in Scans : \A i \in DOMAIN pending[s] : pending[s][i].d = d => pending[s][i].rc >= n
  /\ attempts[d] + Cardinality(Waiting(d)) <= n + Spent + 1
  /\ Owed(d) \/ json[d] = Gone \/ json[d] > n \/ attempts[d] <= n + Spent

Unbegun == \A d \in Deliveries : act[d].pc = "new" => attempts[d] = 0

BudgetOK ==
  /\ \A d \in Range(order) : \E n \in Nat : Ledger(d, n)
  /\ Unbegun
  /\ RetryBudget

\* A failDelivery call writes the count it has read, plus one.
Written(d) == \E b \in bumps : b.d = d /\ b.rc # Gone /\ json'[d] = b.rc + 1

\* What a step that begins and loads nothing may do to an entry: it keeps its
\* n.  Nobody lets the entry go but by taking its file away, by counting the
\* failure, by an error, or by skipping it in a snapshot.
KeepsEntry(d) ==
  /\ attempts'[d] = attempts[d]
  /\ json'[d] \in {json[d], Gone} \/ Written(d)
  /\ \A b \in bumps' : b \in bumps \/ b.rc = Gone \/ b.d # d \/ b.rc = json[d]
  /\ Waiting(d)' \subseteq Waiting(d)
  /\ \/ Owed(d) => Owed(d)'
     \/ json'[d] = Gone \/ Written(d)
     \/ Spent' = Spent + 1
     \/ Waiting(d)' # Waiting(d)

SnapshotsShrink ==
  \A s \in Scans : \A i \in DOMAIN pending'[s] :
    \E k \in DOMAIN pending[s] : pending'[s][i] = pending[s][k]

SpentGoes ==
  /\ overlaps' \in Nat /\ crashes' \in Nat /\ diskErrors' \in Nat
  /\ Spent' \in {Spent, Spent + 1}

UnbegunGoes ==
  \A d \in Deliveries : act'[d].pc = "new" => act[d].pc = "new" /\ attempts'[d] = attempts[d]

LEMMA SpentType ==
  ASSUME TypeInv
  PROVE  Spent \in Nat /\ \A d \in Deliveries : attempts[d] \in Nat
BY DEF TypeInv, FileTypes, Spent

LEMMA WaitingFinite ==
  ASSUME NEW d
  PROVE  /\ IsFiniteSet(Waiting(d)) /\ Cardinality(Waiting(d)) \in Nat
         /\ IsFiniteSet(Waiting(d)') /\ Cardinality(Waiting(d)') \in Nat
<1>1. Waiting(d) \in SUBSET Scans /\ Waiting(d)' \in SUBSET Scans
  BY DEF Waiting
<1>2. IsFiniteSet(Waiting(d)) /\ IsFiniteSet(Waiting(d)')
  BY <1>1, DeliveryAssumption, FS_Subset
<1> QED
  BY <1>2, FS_CardinalityType

LEMMA WaitingShrinks ==
  ASSUME NEW d, Waiting(d)' \subseteq Waiting(d)
  PROVE  /\ Cardinality(Waiting(d)') <= Cardinality(Waiting(d))
         /\ Waiting(d)' # Waiting(d) => Cardinality(Waiting(d)') + 1 <= Cardinality(Waiting(d))
<1> DEFINE C == Waiting(d)
           D == Waiting(d)'
<1>1. D \in SUBSET C /\ IsFiniteSet(C) /\ Cardinality(C) \in Nat /\ Cardinality(D) \in Nat
  BY WaitingFinite
<1> HIDE DEF C, D
<1>2. Cardinality(D) <= Cardinality(C)
  BY <1>1, FS_Subset
<1>3. ASSUME D # C PROVE Cardinality(D) + 1 <= Cardinality(C)
  <2>1. PICK s \in C : s \notin D
    BY <1>1, <1>3
  <2>2. IsFiniteSet(C \ {s}) /\ Cardinality(C \ {s}) = Cardinality(C) - 1
    BY <1>1, <2>1, FS_RemoveElement
  <2>3. D \in SUBSET (C \ {s})
    BY <1>1, <2>1
  <2>4. Cardinality(D) <= Cardinality(C \ {s})
    BY <2>2, <2>3, FS_Subset
  <2> QED BY <1>1, <2>2, <2>4
<1> QED
  BY <1>2, <1>3 DEF C, D

LEMMA LedgerKeep ==
  ASSUME Sound, NEW d \in Deliveries, NEW n \in Nat, Ledger(d, n),
         KeepsEntry(d), SnapshotsShrink, SpentGoes
  PROVE  Ledger(d, n)'
<1>1. /\ Spent \in Nat /\ Spent' \in Nat /\ Spent' >= Spent /\ attempts[d] \in Nat
      /\ Cardinality(Waiting(d)) \in Nat /\ Cardinality(Waiting(d)') \in Nat
      /\ json[d] \in Nat \union {Gone} /\ Gone \notin Int
  BY SpentType, WaitingFinite, DeliveryAssumption DEF Sound, SpentGoes, TypeInv, FileTypes
<1>2. Written(d) => json'[d] \in Nat /\ json'[d] > n
  <2> SUFFICES ASSUME NEW b \in bumps, b.d = d, b.rc # Gone, json'[d] = b.rc + 1
               PROVE  json'[d] \in Nat /\ json'[d] > n
    BY DEF Written
  <2>1. b.rc \in Nat /\ b.rc >= n
    BY CallFacts DEF Sound, Ledger
  <2> QED BY <2>1
<1>3. json'[d] # Gone => json'[d] >= n
  BY <1>1, <1>2 DEF KeepsEntry, Ledger
<1>4. \A b \in bumps' : b.d = d /\ b.rc # Gone => b.rc >= n
  BY <1>1 DEF KeepsEntry, Ledger
<1>5. \A s \in Scans : \A i \in DOMAIN pending'[s] : pending'[s][i].d = d => pending'[s][i].rc >= n
  BY DEF SnapshotsShrink, Ledger
<1>6. /\ Cardinality(Waiting(d)') <= Cardinality(Waiting(d))
      /\ Waiting(d)' # Waiting(d) => Cardinality(Waiting(d)') + 1 <= Cardinality(Waiting(d))
  BY WaitingShrinks DEF KeepsEntry
<1>7. attempts'[d] = attempts[d] /\ attempts[d] + Cardinality(Waiting(d)) <= n + Spent + 1
  BY DEF KeepsEntry, Ledger
<1>8. attempts'[d] + Cardinality(Waiting(d)') <= n + Spent' + 1
  BY <1>1, <1>6, <1>7
<1>9. Owed(d)' \/ json'[d] = Gone \/ json'[d] > n \/ attempts'[d] <= n + Spent'
  <2>1. CASE Waiting(d)' # Waiting(d)
    BY <1>1, <1>6, <1>7, <2>1
  <2>2. CASE Spent' = Spent + 1
    BY <1>1, <1>7, <2>2
  <2>3. CASE Owed(d) => Owed(d)'
    <3>1. CASE attempts[d] <= n + Spent
      BY <1>1, <1>7, <3>1
    <3>2. CASE Owed(d) \/ json[d] = Gone \/ json[d] > n
      BY <1>2, <2>3, <3>2 DEF KeepsEntry
    <3> QED BY <3>1, <3>2 DEF Ledger
  <2> QED BY <1>2, <2>1, <2>2, <2>3 DEF KeepsEntry
<1> QED
  BY <1>3, <1>4, <1>5, <1>8, <1>9 DEF Ledger

LEMMA BudgetKeep ==
  ASSUME Sound, BudgetOK, order' = order, \A d \in Range(order) : KeepsEntry(d),
         SnapshotsShrink, SpentGoes, UnbegunGoes
  PROVE  BudgetOK'
<1>1. \A d \in Range(order) : d \in Deliveries
  BY RangeOrder DEF Sound, TypeInv
<1>2. \A d \in Range(order') : \E n \in Nat : Ledger(d, n)'
  BY <1>1, LedgerKeep DEF BudgetOK
<1>3. Unbegun'
  BY DEF BudgetOK, Unbegun, UnbegunGoes
<1>4. RetryBudget'
  <2> SUFFICES ASSUME NEW d \in Range(order)
               PROVE  attempts'[d] <= MaxRetries + overlaps' + crashes' + diskErrors'
    BY DEF RetryBudget
  <2>1. attempts[d] <= MaxRetries + Spent
    BY SpentType, DeliveryAssumption DEF BudgetOK, RetryBudget, Spent, Sound, TypeInv, FileTypes
  <2>2. attempts'[d] <= MaxRetries + Spent'
    BY <1>1, <2>1, SpentType, DeliveryAssumption DEF Sound, KeepsEntry, SpentGoes
  <2> QED BY <2>2, DeliveryAssumption DEF Spent, SpentGoes
<1> QED
  BY <1>2, <1>3, <1>4 DEF BudgetOK

LEMMA SpentRule ==
  ASSUME TypeInv, UNCHANGED <<overlaps, crashes>>, diskErrors' \in {diskErrors, diskErrors + 1}
  PROVE  SpentGoes /\ (diskErrors' = diskErrors + 1 => Spent' = Spent + 1)
<1>1. overlaps \in Nat /\ crashes \in Nat /\ diskErrors \in Nat
  BY DEF TypeInv, FileTypes
<1>2. diskErrors' \in Nat
  BY <1>1
<1>3. Spent' = overlaps + crashes + diskErrors'
  BY DEF Spent
<1>4. diskErrors' = diskErrors + 1 => Spent' = Spent + 1
  BY <1>1, <1>3 DEF Spent
<1>5. Spent' \in {Spent, Spent + 1}
  BY <1>1, <1>3, <1>4 DEF Spent
<1> QED
  BY <1>1, <1>2, <1>4, <1>5 DEF SpentGoes

\* The steps that hand no entry on.
LEMMA HandsKeep ==
  ASSUME NEW d \in Deliveries, attempts'[d] = attempts[d], json'[d] = json[d],
         \A b \in bumps' : b \in bumps \/ b.rc = Gone \/ b.d # d \/ b.rc = json[d],
         Waiting(d)' \subseteq Waiting(d), Owed(d) => Owed(d)'
  PROVE  KeepsEntry(d)
BY DEF KeepsEntry

LEMMA FailsBudget ==
  ASSUME Sound, BudgetOK, NEW a \in Actors, Fails(a)
  PROVE  BudgetOK'
<1>1. /\ UNCHANGED <<json, order, pending, attempts, overlaps, crashes>>
      /\ diskErrors' \in {diskErrors, diskErrors + 1}
      /\ bumps' = bumps \union {[by |-> a, d |-> act[a].d, rc |-> Gone]}
      /\ act'[a].pc = "failing" /\ \A x \in Actors \ {a} : act'[x] = act[x]
  BY DEF Fails, StartBump, View, files
<1>2. AllHands
  BY FailsHands
<1>3. \A d \in Range(order) : KeepsEntry(d)
  <2> SUFFICES ASSUME NEW d \in Deliveries PROVE KeepsEntry(d)
    BY RangeOrder DEF Sound, TypeInv
  <2>1. Waiting(d)' = Waiting(d)
    BY <1>1 DEF Waiting
  <2> QED BY <1>1, <1>2, <2>1, AllHandsOwed, HandsKeep
<1>4. SnapshotsShrink
  BY <1>1 DEF SnapshotsShrink
<1>5. SpentGoes
  BY <1>1, SpentRule DEF Sound
<1>6. UnbegunGoes
  BY <1>1, ActorKinds DEF UnbegunGoes
<1> QED
  BY <1>1, <1>3, <1>4, <1>5, <1>6, BudgetKeep

LEMMA SendBudget ==
  ASSUME Sound, BudgetOK, NEW a \in Actors, Send(a)
  PROVE  BudgetOK'
<1>1. ASSUME UNCHANGED <<files, pending, bumps, bounds, attempts>>, NoFresh,
             \A d \in Range(order) : Owed(d) => Owed(d)'
      PROVE  BudgetOK'
  <2>1. \A d \in Range(order) : KeepsEntry(d)
    <3> SUFFICES ASSUME NEW d \in Range(order) PROVE KeepsEntry(d)
      OBVIOUS
    <3>1. d \in Deliveries
      BY RangeOrder DEF Sound, TypeInv
    <3>2. Waiting(d)' = Waiting(d)
      BY <1>1 DEF Waiting
    <3> QED BY <1>1, <3>1, <3>2, HandsKeep DEF files
  <2>2. SnapshotsShrink
    BY <1>1 DEF SnapshotsShrink
  <2>3. SpentGoes
    BY <1>1 DEF SpentGoes, Spent, Sound, TypeInv, FileTypes, bounds
  <2>4. UnbegunGoes
    BY <1>1, ActorKinds DEF UnbegunGoes, NoFresh
  <2> QED BY <1>1, <2>1, <2>2, <2>3, <2>4, BudgetKeep DEF files
<1>2. \A d \in Range(order) : d \in Deliveries
  BY RangeOrder DEF Sound, TypeInv
<1>3. CASE LooksSame
  <2>1. AllHands
    BY <1>3, SameViewHands, SameCalls DEF LooksSame
  <2>2. NoFresh
    BY <1>3, SameViewNoFresh DEF LooksSame
  <2> QED BY <1>1, <1>2, <1>3, <2>1, <2>2, AllHandsOwed DEF LooksSame
<1>4. ASSUME NEW pc \in {"done", "ack", "move"}, Decides(a, pc)
      PROVE  BudgetOK'
  <2> PICK e : act[a].d = e
    OBVIOUS
  <2>1. /\ GoesOn(a) /\ act'[a].pc = pc /\ act[a].pc = "sending"
        /\ UNCHANGED <<files, pending, bumps, bounds, attempts>>
        /\ pc = "done" => ~HasEntry(a)
    BY <1>4, DecidesGoesOn DEF Decides, View, Sound
  <2>2. NoFresh
    BY <1>4, ViewNoFresh DEF Decides
  <2>3. /\ HandsBut(a, e)
        /\ Holds(a, e)' <=> pc \in Trying
        /\ Moves(a, e)' <=> pc = "move"
    BY <2>1, GoesOnHands
  <2>4. pc = "done" => e \notin Range(order)
    BY <2>1, PCFacts DEF HasEntry, Sound, IsLive
  <2>5. ASSUME NEW d \in Range(order) PROVE Owed(d) => Owed(d)'
    <3>1. CASE d # e
      BY <1>2, <2>3, <3>1, HandsOwed
    <3>2. CASE d = e
      BY <2>3, <2>4, <3>2 DEF Owed, Trying
    <3> QED BY <3>1, <3>2
  <2> QED BY <1>1, <2>1, <2>2, <2>5
<1>5. CASE Fails(a)
  BY <1>5, FailsBudget
<1> QED
  BY <1>3, <1>4, <1>5, SendEffect DEF Sound, TypeInv

\* Who acknowledges or gives up takes the file away, unless that fails.
LEMMA SettleBudget ==
  ASSUME Sound, BudgetOK, NEW a \in Actors,
         \/ Ack(a) \/ Unlink(a) \/ AckFails(a)
         \/ a \in Scans /\ (MoveToFailed(a) \/ MoveFails(a))
  PROVE  BudgetOK'
<1>1. CASE Fails(a)
  BY <1>1, FailsBudget
<1>2. CASE GoesOn(a)
  <2> PICK e : act[a].d = e
    OBVIOUS
  <2>1. /\ e \in Deliveries /\ HandsBut(a, e)
        /\ UNCHANGED <<order, pending, bumps, attempts, overlaps, crashes>>
        /\ act'[a].pc # "new" /\ \A x \in Actors \ {a} : act'[x] = act[x]
    BY <1>2, GoesOnHands, WorksOnDelivery
       DEF GoesOn, View, Sound, TypeInv, Busy, Settled, Ack, Unlink, AckFails, MoveToFailed,
           MoveFails, files, bounds, history
  <2>2. /\ diskErrors' \in {diskErrors, diskErrors + 1}
        /\ \/ json' = [json EXCEPT ![e] = Gone]
           \/ json' = json /\ diskErrors' = diskErrors + 1
           \/ json' = json /\ Unlink(a)
    BY DEF Ack, Unlink, AckFails, MoveToFailed, MoveFails, DiskError, files, bounds, Sound,
           TypeInv, FileTypes
  <2>3. \A d \in Deliveries : Waiting(d)' = Waiting(d)
    BY <2>1 DEF Waiting
  <2>4. Unlink(a) => AllHands
    BY <1>2, UnlinkTypes, UnlinkEffect, UnlinkHands DEF Sound, TypeInv, Unlink, View
  <2>5. SpentGoes /\ (diskErrors' = diskErrors + 1 => Spent' = Spent + 1)
    BY <2>1, <2>2, SpentRule DEF Sound
  <2>6. ASSUME NEW d \in Deliveries PROVE KeepsEntry(d)
    <3>1. d # e => (Owed(d)' <=> Owed(d))
      BY <2>1, HandsOwed
    <3>2. Unlink(a) => (Owed(d)' <=> Owed(d))
      BY <2>4, AllHandsOwed
    <3>3. json'[d] \in {json[d], Gone}
      BY <2>2 DEF Sound, TypeInv, FileTypes
    <3>4. \/ Owed(d) => Owed(d)'
          \/ json'[d] = Gone \/ Spent' = Spent + 1
      <4>1. d = e /\ json' = [json EXCEPT ![e] = Gone] => json'[d] = Gone
        BY DEF Sound, TypeInv, FileTypes
      <4> QED BY <2>2, <2>5, <3>1, <3>2, <4>1
    <3>5. attempts'[d] = attempts[d] /\ bumps' = bumps /\ Waiting(d)' = Waiting(d)
      BY <2>1, <2>3
    <3> QED BY <3>3, <3>4, <3>5 DEF KeepsEntry
  <2>7. SnapshotsShrink
    BY <2>1 DEF SnapshotsShrink
  <2>8. UnbegunGoes
    BY <2>1, ActorKinds DEF UnbegunGoes
  <2>9. \A d \in Range(order) : KeepsEntry(d)
    BY <2>6, RangeOrder DEF Sound, TypeInv
  <2> QED BY <2>1, <2>5, <2>7, <2>8, <2>9, BudgetKeep
<1> QED
  BY <1>1, <1>2, AckTypes, UnlinkTypes, AckFailsTypes, MoveToFailedTypes DEF Sound

LEMMA BumpBudget ==
  ASSUME Sound, BudgetOK, NEW b \in bumps, BumpRead(b) \/ BumpWrite(b) \/ BumpFails(b)
  PROVE  BudgetOK'
<1>1. CASE Reads(b)
  <2>1. AllHands /\ NoFresh /\ UNCHANGED <<files, pending, bounds, history>>
    BY <1>1, ReadsHands, SameViewNoFresh DEF Reads
  <2>2. PICK c : c.by = b.by /\ c.d = b.d /\ c.rc = json[b.d] /\ bumps' = (bumps \ {b}) \union {c}
    BY <1>1, ReadCall DEF Sound
  <2>3. ASSUME NEW d \in Deliveries PROVE KeepsEntry(d)
    <3>1. Waiting(d)' = Waiting(d) /\ (Owed(d) => Owed(d)')
      BY <2>1, AllHandsOwed DEF Waiting
    <3>2. \A x \in bumps' : x \in bumps \/ x.rc = Gone \/ x.d # d \/ x.rc = json[d]
      BY <2>2
    <3> QED BY <2>1, <3>1, <3>2, HandsKeep DEF files, history
  <2>4. SnapshotsShrink
    BY <2>1 DEF SnapshotsShrink
  <2>5. SpentGoes
    BY <2>1 DEF SpentGoes, Spent, Sound, TypeInv, FileTypes, bounds
  <2>6. UnbegunGoes
    BY <2>1, ActorKinds DEF UnbegunGoes, NoFresh, history
  <2>7. \A d \in Range(order) : KeepsEntry(d)
    BY <2>3, RangeOrder DEF Sound, TypeInv
  <2> QED BY <2>1, <2>4, <2>5, <2>6, <2>7, BudgetKeep DEF files
<1>2. CASE Ends(b)
  <2> PICK e : b.d = e
    OBVIOUS
  <2>1. /\ HandsBut(b.by, e) /\ b.by \in Actors /\ e \in Deliveries
        /\ UNCHANGED <<order, pending, attempts, overlaps, crashes>> /\ bumps' \subseteq bumps
    BY <1>2, EndsHands, CallFacts DEF Ends, BumpEnds, Sound, Lets, history
  <2>2. NoFresh
    BY <1>2, SameViewNoFresh, ViewNoFresh DEF Ends, BumpEnds, Settled
  <2>3. /\ diskErrors' \in {diskErrors, diskErrors + 1}
        /\ \/ json' = json /\ json[e] = Gone
           \/ b.rc # Gone /\ json' = [json EXCEPT ![e] = b.rc + 1]
           \/ json' = json /\ diskErrors' = diskErrors + 1
    BY <1>2 DEF Ends
  <2>4. SpentGoes /\ (diskErrors' = diskErrors + 1 => Spent' = Spent + 1)
    BY <2>1, <2>3, SpentRule DEF Sound
  <2>5. ASSUME NEW d \in Deliveries PROVE KeepsEntry(d)
    <3>1. d # e => (Owed(d)' <=> Owed(d))
      BY <2>1, HandsOwed
    <3>2. Waiting(d)' = Waiting(d)
      BY <2>1 DEF Waiting
    <3>3. /\ json'[d] = json[d] \/ Written(d)
          /\ json'[d] = Gone \/ Written(d) \/ diskErrors' = diskErrors + 1 \/ d # e
      BY <2>3 DEF Written, Sound, TypeInv, FileTypes
    <3> QED BY <2>1, <2>4, <3>1, <3>2, <3>3 DEF KeepsEntry
  <2>6. SnapshotsShrink
    BY <2>1 DEF SnapshotsShrink
  <2>7. UnbegunGoes
    BY <2>1, <2>2, ActorKinds DEF UnbegunGoes, NoFresh
  <2>8. \A d \in Range(order) : KeepsEntry(d)
    BY <2>5, RangeOrder DEF Sound, TypeInv
  <2> QED BY <2>1, <2>4, <2>6, <2>7, <2>8, BudgetKeep
<1> QED
  BY <1>1, <1>2, BumpEffect DEF Sound

\* A scan that starts, ends, defers or passes over its entries.
LEMMA ScanBudget ==
  ASSUME Sound, BudgetOK, NEW s \in Scans,
         \/ OverBudget(s) \/ SkipEntry(s) \/ GiveUp(s)
         \/ ScanEnds(s) \/ \E isLate \in BOOLEAN : GatewayStart(s, isLate)
  PROVE  BudgetOK'
<1> s \in Actors
  BY ActorKinds
<1> PICK e : Entry(s).d = e
  OBVIOUS
<1>1. /\ UNCHANGED <<json, order, attempts, overlaps, crashes, diskErrors>>
      /\ \A b \in bumps' : b \in bumps \/ b.rc = Gone
      /\ \A d \in Deliveries : act'[d] = act[d]
  <2>1. CASE OverBudget(s)
    <3> DEFINE C == {[by |-> s, d |-> pending[s][i].d, rc |-> Gone] : i \in DOMAIN pending[s]}
    <3>1. bumps' = bumps \union C /\ \A c \in C : c.rc = Gone
      BY <2>1 DEF OverBudget
    <3> HIDE DEF C
    <3>2. \A b \in bumps' : b \in bumps \/ b.rc = Gone
      BY <3>1
    <3>3. View(s, "deferring", act[s].d)
      BY <2>1, OverBudgetTypes DEF Sound
    <3>4. \A d \in Deliveries : act'[d] = act[d]
      BY <3>3, ActorKinds DEF View
    <3> QED BY <2>1, <3>2, <3>4 DEF OverBudget, files, bounds, history
  <2>2. CASE SkipEntry(s)
    BY <2>2 DEF SkipEntry, files, bounds, history
  <2>3. CASE GiveUp(s)
    BY <2>3, GiveUpEffect, ActorKinds DEF Sound, TypeInv, GiveUp, View, files, bounds, history
  <2>4. CASE ScanEnds(s)
    BY <2>4, ScanEndsTypes, ActorKinds DEF Sound, ScanEnds, View, files, bounds, history
  <2>5. ASSUME NEW isLate \in BOOLEAN, GatewayStart(s, isLate)
        PROVE  /\ UNCHANGED <<json, order, attempts, overlaps, crashes, diskErrors>>
               /\ \A b \in bumps' : b \in bumps \/ b.rc = Gone
               /\ \A d \in Deliveries : act'[d] = act[d]
    BY <2>5, GatewayStartTypes, ActorKinds DEF Sound, GatewayStart, View, files, history
  <2> QED BY <2>1, <2>2, <2>3, <2>4, <2>5
<1>2. CASE OverBudget(s) \/ ScanEnds(s) \/ \E isLate \in BOOLEAN : GatewayStart(s, isLate)
  <2>1. AllHands
    BY <1>2, OverBudgetHands, StartAndEndHands
  <2>2. SnapshotsShrink
    <3>1. CASE OverBudget(s)
      <4>1. DOMAIN pending'[s] = {} /\ \A t \in Scans \ {s} : pending'[t] = pending[t]
        BY <3>1, OverBudgetTypes DEF Sound
      <4> QED BY <4>1 DEF SnapshotsShrink
    <3> QED BY <1>2, <3>1 DEF ScanEnds, GatewayStart, SnapshotsShrink
  <2>3. \A d \in Deliveries : Waiting(d)' \subseteq Waiting(d)
    <3>1. CASE OverBudget(s)
      BY <3>1, OverBudgetHands
    <3> QED BY <1>2, <3>1 DEF ScanEnds, GatewayStart, Waiting
  <2>4. ASSUME NEW d \in Deliveries PROVE KeepsEntry(d)
    BY <1>1, <2>1, <2>3, AllHandsOwed, HandsKeep
  <2>5. \A d \in Range(order) : KeepsEntry(d)
    BY <2>4, RangeOrder DEF Sound, TypeInv
  <2>6. SpentGoes /\ UnbegunGoes
    BY <1>1, SpentRule DEF Sound, UnbegunGoes
  <2> QED BY <1>1, <2>2, <2>5, <2>6, BudgetKeep
<1>3. CASE SkipEntry(s) \/ GiveUp(s)
  <2>1. /\ AtEntry(s) /\ TakeEntry(s) /\ UNCHANGED bumps
        /\ \A x \in Actors \ {s} : act'[x] = act[x]
        /\ act'[s].d = e \/ act'[s].pc \notin Trying \union {"move"}
    BY <1>3, GiveUpEffect
       DEF Sound, TypeInv, SkipEntry, GiveUp, AtEntry, View, Trying
  <2>2. /\ HandsBut(s, e) /\ s \in Waiting(e) /\ s \notin Waiting(e)'
        /\ \A x \in Scans, d \in Deliveries :
             (x = s /\ d = e) \/ (x \in Waiting(d)' <=> x \in Waiting(d))
    BY <2>1, TakeHands
  <2>3. SnapshotsShrink
    BY <2>1, TailOnce DEF SnapshotsShrink
  <2>4. ASSUME NEW d \in Deliveries PROVE KeepsEntry(d)
    <3>1. Waiting(d)' \subseteq Waiting(d)
      <4>1. \A x \in Waiting(d)' : x \in Scans
        BY DEF Waiting
      <4> QED BY <2>2, <4>1
    <3>2. CASE d # e
      <4>1. Owed(d)' <=> Owed(d)
        BY <2>2, <3>2, HandsOwed
      <4> QED BY <1>1, <3>1, <4>1, HandsKeep
    <3>3. CASE d = e
      BY <1>1, <2>2, <3>1, <3>3 DEF KeepsEntry
    <3> QED BY <3>2, <3>3
  <2>5. \A d \in Range(order) : KeepsEntry(d)
    BY <2>4, RangeOrder DEF Sound, TypeInv
  <2>6. SpentGoes /\ UnbegunGoes
    BY <1>1, SpentRule DEF Sound, UnbegunGoes
  <2> QED BY <1>1, <2>3, <2>5, <2>6, BudgetKeep
<1> QED
  BY <1>2, <1>3

LEMMA CrashBudget ==
  ASSUME Sound, BudgetOK, Crash
  PROVE  BudgetOK'
<1>1. /\ UNCHANGED <<json, order, attempts, overlaps, diskErrors>> /\ bumps' = {}
      /\ crashes' = crashes + 1
      /\ \A s \in Scans : DOMAIN pending'[s] = {}
      /\ \A d \in Deliveries : act'[d].pc = IF act[d].pc = "new" THEN "new" ELSE "done"
  BY CrashTypes, CrashEffect DEF Sound, TypeInv, Crash, files, history
<1>2. Spent' = Spent + 1 /\ SpentGoes
  <2>1. overlaps \in Nat /\ crashes \in Nat /\ diskErrors \in Nat
    BY DEF Sound, TypeInv, FileTypes
  <2>2. Spent' = overlaps + (crashes + 1) + diskErrors
    BY <1>1 DEF Spent
  <2> QED BY <1>1, <2>1, <2>2 DEF Spent, SpentGoes
<1>3. ASSUME NEW d \in Deliveries PROVE KeepsEntry(d)
  <2>1. Waiting(d)' = {}
    BY CrashHands, ActorKinds
  <2>2. \A b \in bumps' : b \in bumps
    BY <1>1
  <2> QED BY <1>1, <1>2, <2>1, <2>2 DEF KeepsEntry
<1>4. \A d \in Range(order) : KeepsEntry(d)
  BY <1>3, RangeOrder DEF Sound, TypeInv
<1>5. SnapshotsShrink /\ UnbegunGoes
  BY <1>1 DEF SnapshotsShrink, UnbegunGoes
<1> QED
  BY <1>1, <1>2, <1>4, <1>5, BudgetKeep

\* A delivery that could not be persisted has no entry to count against.
LEMMA EnqueueFailsBudget ==
  ASSUME Sound, BudgetOK, NEW e \in Deliveries, EnqueueFails(e)
  PROVE  BudgetOK'
<1>1. /\ View(e, "sending", e) /\ e \in Actors /\ e \notin Range(order)
      /\ UNCHANGED <<json, order, pending, bumps, overlaps, crashes>>
      /\ diskErrors' = diskErrors + 1
      /\ \A d \in Deliveries \ {e} : attempts'[d] = attempts[d]
  <2>1. View(e, "sending", e) /\ e \in Actors
    BY EnqueueFailsTypes, ActorKinds DEF Sound
  <2>2. e \notin Range(order)
    BY DEF Sound, Known, EnqueueFails
  <2>3. /\ UNCHANGED <<json, order, pending, bumps, overlaps, crashes>>
        /\ diskErrors' = diskErrors + 1
    BY DEF EnqueueFails, DiskError, files
  <2>4. \A d \in Deliveries \ {e} : attempts'[d] = attempts[d]
    BY DEF EnqueueFails, BeginSending, Sound, TypeInv, FileTypes
  <2> QED
    BY <2>1, <2>2, <2>3, <2>4
<1>2. HandsBut(e, e)
  BY BeginsHands
<1>3. \A d \in Range(order) : KeepsEntry(d)
  <2> SUFFICES ASSUME NEW d \in Range(order) PROVE KeepsEntry(d)
    OBVIOUS
  <2>1. d \in Deliveries /\ d # e
    BY <1>1, RangeOrder DEF Sound, TypeInv
  <2>2. Owed(d)' <=> Owed(d)
    BY <1>1, <1>2, <2>1, HandsOwed
  <2>3. Waiting(d)' = Waiting(d)
    BY <1>1 DEF Waiting
  <2> QED BY <1>1, <2>1, <2>2, <2>3, HandsKeep
<1>4. SnapshotsShrink
  BY <1>1 DEF SnapshotsShrink
<1>5. SpentGoes
  BY <1>1, SpentRule DEF Sound
<1>6. UnbegunGoes
  BY <1>1, ActorKinds DEF UnbegunGoes, View
<1> QED
  BY <1>1, <1>3, <1>4, <1>5, <1>6, BudgetKeep

\* The first attempt of an entry, whose count is 0.
LEMMA EnqueueBudget ==
  ASSUME Sound, BudgetOK, NEW e \in Deliveries, Enqueue(e)
  PROVE  BudgetOK'
<1>1. /\ View(e, "sending", e) /\ e \in Actors /\ e \notin Range(order) /\ act[e].pc = "new"
      /\ UNCHANGED <<pending, bumps, overlaps, crashes, diskErrors>>
      /\ json' = [json EXCEPT ![e] = 0] /\ order' = Append(order, e)
      /\ attempts'[e] \in {attempts[e], attempts[e] + 1}
      /\ \A d \in Deliveries \ {e} : attempts'[d] = attempts[d]
  <2>1. View(e, "sending", e) /\ e \in Actors
    BY EnqueueTypes, ActorKinds DEF Sound
  <2>2. e \notin Range(order) /\ act[e].pc = "new"
    BY DEF Sound, Known, Enqueue
  <2>3. /\ UNCHANGED <<pending, bumps, overlaps, crashes, diskErrors>>
        /\ json' = [json EXCEPT ![e] = 0] /\ order' = Append(order, e)
    BY DEF Enqueue, bounds
  <2>4. /\ attempts'[e] \in {attempts[e], attempts[e] + 1}
        /\ \A d \in Deliveries \ {e} : attempts'[d] = attempts[d]
    BY DEF Enqueue, BeginSending, Sound, TypeInv, FileTypes
  <2> QED BY <2>1, <2>2, <2>3, <2>4
<1>2. Range(order') = Range(order) \union {e}
  BY <1>1, AppendRange DEF Sound, TypeInv, FileTypes
<1>3. HandsBut(e, e) /\ Holds(e, e)'
  BY BeginsHands
<1>4. /\ Spent' = Spent /\ Spent \in Nat /\ MaxRetries \in Nat \ {0} /\ Gone \notin Int
      /\ overlaps \in Nat /\ crashes \in Nat /\ diskErrors \in Nat
  BY <1>1, SpentType, DeliveryAssumption DEF Spent, Sound, TypeInv, FileTypes
<1>5. attempts[e] = 0
  BY <1>1 DEF BudgetOK, Unbegun
<1>6. ASSUME NEW d \in Range(order) PROVE \E n \in Nat : Ledger(d, n)'
  <2>1. d \in Deliveries /\ d # e
    BY <1>1, RangeOrder DEF Sound, TypeInv
  <2>2. Owed(d)' <=> Owed(d)
    BY <1>1, <1>3, <2>1, HandsOwed
  <2>3. Waiting(d)' = Waiting(d)
    BY <1>1 DEF Waiting
  <2>4. json'[d] = json[d] /\ attempts'[d] = attempts[d]
    BY <1>1, <2>1 DEF Sound, TypeInv, FileTypes
  <2>5. KeepsEntry(d)
    BY <1>1, <2>1, <2>2, <2>3, <2>4, HandsKeep
  <2>6. SnapshotsShrink /\ SpentGoes
    BY <1>1, <1>4 DEF SnapshotsShrink, SpentGoes
  <2> QED BY <2>1, <2>5, <2>6, LedgerKeep DEF BudgetOK
<1>7. Ledger(e, 0)'
  <2>1. json'[e] = 0
    BY <1>1 DEF Sound, TypeInv, FileTypes
  <2>2. \A b \in bumps' : b.d # e
    BY <1>1 DEF Sound, Known
  <2>3. \A s \in Scans : \A i \in DOMAIN pending'[s] : pending'[s][i].d # e
    BY <1>1 DEF Sound, Known
  <2>4. Waiting(e)' = {}
    BY <2>3 DEF Waiting
  <2>5. Cardinality(Waiting(e)') = 0
    BY <2>4, FS_EmptySet
  <2>6. attempts'[e] + Cardinality(Waiting(e)') <= 0 + Spent' + 1
    BY <1>1, <1>4, <1>5, <2>5
  <2>7. Owed(e)'
    BY <1>1, <1>3 DEF Owed
  <2> QED BY <2>1, <2>2, <2>3, <2>6, <2>7 DEF Ledger
<1>8. Unbegun'
  BY <1>1, ActorKinds DEF Unbegun, BudgetOK, View
<1>9. RetryBudget'
  <2> SUFFICES ASSUME NEW d \in Range(order')
               PROVE  attempts'[d] <= MaxRetries + overlaps + crashes + diskErrors
    BY <1>1 DEF RetryBudget
  <2>1. CASE d = e
    BY <1>1, <1>4, <1>5, <2>1
  <2>2. CASE d # e
    <3>1. d \in Range(order) /\ d \in Deliveries
      BY <1>2, <2>2, RangeOrder DEF Sound, TypeInv
    <3> QED BY <1>1, <2>2, <3>1 DEF BudgetOK, RetryBudget
  <2> QED BY <2>1, <2>2
<1>10. \A d \in Range(order') : \E n \in Nat : Ledger(d, n)'
  BY <1>2, <1>6, <1>7
<1> QED
  BY <1>8, <1>9, <1>10 DEF BudgetOK

\* A retry takes the place of a snapshot entry that was below MAX_RETRIES.
LEMMA RetryKeepsBudget ==
  ASSUME Sound, BudgetOK, NEW s \in Scans, Retry(s)
  PROVE  BudgetOK'
<1> PICK e : Entry(s).d = e
  OBVIOUS
<1>1. /\ AtEntry(s) /\ TakeEntry(s) /\ s \in Actors /\ Entry(s).rc < MaxRetries
      /\ UNCHANGED <<json, order, bumps, overlaps, crashes, diskErrors>>
      /\ act'[s].pc = "sending" /\ act'[s].d = e
      /\ \A x \in Actors \ {s} : act'[x] = act[x]
  BY RetryEffect, ActorKinds DEF Sound, TypeInv, Retry, View, files, bounds
<1>2. PICK k \in DOMAIN pending[s] : pending[s][k] = Entry(s)
  BY <1>1, TailOnce
<1>3. e \in Deliveries /\ e \in Range(order) /\ Entry(s).rc \in Nat
  BY <1>2, PendingTypes DEF Sound, Known
<1>4. /\ attempts'[e] \in {attempts[e], attempts[e] + 1}
      /\ \A d \in Deliveries \ {e} : attempts'[d] = attempts[d]
  BY <1>3 DEF Retry, BeginSending, Sound, TypeInv, FileTypes
<1>5. /\ s \in Waiting(e) /\ s \notin Waiting(e)'
      /\ \A x \in Scans, d \in Deliveries :
           (x = s /\ d = e) \/ (x \in Waiting(d)' <=> x \in Waiting(d))
  BY <1>1, TakeHands
<1>6. \A d \in Deliveries : Waiting(d)' \subseteq Waiting(d)
  <2>1. \A d \in Deliveries : \A x \in Waiting(d)' : x \in Scans
    BY DEF Waiting
  <2> QED BY <1>5, <2>1
<1>7. \A d \in Deliveries : Owed(d)' <=> Owed(d)
  BY RetryHands, AllHandsOwed
<1>8. SnapshotsShrink
  BY <1>1, TailOnce DEF SnapshotsShrink
<1>9. /\ Spent' = Spent /\ Spent \in Nat /\ MaxRetries \in Nat /\ Gone \notin Int
      /\ overlaps \in Nat /\ crashes \in Nat /\ diskErrors \in Nat
  BY <1>1, SpentType, DeliveryAssumption DEF Spent, Sound, TypeInv, FileTypes
<1>10. ASSUME NEW d \in Range(order), d # e PROVE \E n \in Nat : Ledger(d, n)'
  <2>1. d \in Deliveries
    BY RangeOrder DEF Sound, TypeInv
  <2>2. KeepsEntry(d)
    BY <1>1, <1>4, <1>6, <1>7, <1>10, <2>1, HandsKeep
  <2>3. SpentGoes
    BY <1>1, <1>9 DEF SpentGoes
  <2> QED BY <1>8, <2>1, <2>2, <2>3, LedgerKeep DEF BudgetOK
<1>11. PICK n \in Nat : Ledger(e, n)
  BY <1>3 DEF BudgetOK
<1>12. /\ Cardinality(Waiting(e)') + 1 <= Cardinality(Waiting(e))
       /\ Cardinality(Waiting(e)) \in Nat /\ Cardinality(Waiting(e)') \in Nat
       /\ attempts[e] \in Nat /\ n <= Entry(s).rc
  BY <1>2, <1>3, <1>5, <1>6, <1>11, WaitingShrinks, WaitingFinite, SpentType DEF Sound, Ledger
<1>13. attempts'[e] + Cardinality(Waiting(e)') <= n + Spent' + 1
  BY <1>4, <1>9, <1>11, <1>12 DEF Ledger
<1>14. Ledger(e, n)'
  <2>1. Owed(e)'
    <3>1. Holds(s, e)'
      BY <1>1 DEF Holds, Trying
    <3> QED BY <1>1, <3>1 DEF Owed
  <2>2. \A t \in Scans : \A i \in DOMAIN pending'[t] : pending'[t][i].d = e => pending'[t][i].rc >= n
    BY <1>8, <1>11 DEF SnapshotsShrink, Ledger
  <2> QED BY <1>1, <1>11, <1>13, <2>1, <2>2 DEF Ledger
<1>15. Unbegun'
  <2> SUFFICES ASSUME NEW d \in Deliveries, act'[d].pc = "new" PROVE attempts'[d] = 0
    BY DEF Unbegun
  <2>1. act[d].pc = "new" /\ d \notin Range(order)
    BY <1>1, PCFacts DEF Sound, Known
  <2> QED BY <1>3, <1>4, <2>1 DEF BudgetOK, Unbegun
<1>16. RetryBudget'
  <2> SUFFICES ASSUME NEW d \in Range(order)
               PROVE  attempts'[d] <= MaxRetries + overlaps + crashes + diskErrors
    BY <1>1 DEF RetryBudget
  <2>1. CASE d = e
    <3>1. attempts'[e] \in Nat /\ n + 1 <= MaxRetries
      BY <1>1, <1>3, <1>4, <1>9, <1>12
    <3>2. attempts'[e] <= MaxRetries + Spent
      BY <1>9, <1>12, <1>13, <3>1
    <3> QED BY <1>9, <2>1, <3>1, <3>2 DEF Spent
  <2>2. CASE d # e
    <3>1. d \in Deliveries
      BY RangeOrder DEF Sound, TypeInv
    <3> QED BY <1>4, <2>2, <3>1 DEF BudgetOK, RetryBudget
  <2> QED BY <2>1, <2>2
<1>17. \A d \in Range(order') : \E m \in Nat : Ledger(d, m)'
  BY <1>1, <1>10, <1>14
<1> QED
  BY <1>15, <1>16, <1>17 DEF BudgetOK

\* A load.  If somebody has an entry that it finds, it is an overlapping one.
\* If nobody does, the count in each file it finds is exact and becomes n.
LEMMA LoadBudget ==
  ASSUME Sound, BudgetOK, NEW s \in Scans, ScanLoad(s)
  PROVE  BudgetOK'
<1> DEFINE Lone == \A d \in Deliveries, a \in Actors : json[d] # Gone => ~Has(a, d)
<1>1. /\ View(s, "next", act[s].d) /\ s \in Actors
      /\ UNCHANGED <<json, order, bumps, attempts, crashes, diskErrors>>
      /\ overlaps' \in {overlaps, overlaps + 1}
      /\ Lone \/ overlaps' = overlaps + 1
  <2>1. View(s, "next", act[s].d) /\ s \in Actors
    BY ScanLoadTypes, ActorKinds DEF Sound
  <2>2. UNCHANGED <<json, order, bumps, attempts, crashes, diskErrors>>
    BY DEF ScanLoad, history
  <2>3. overlaps' = overlaps + 1 \/ (Lone /\ overlaps' = overlaps)
    BY DEF ScanLoad, CountOverlap
  <2> QED BY <2>1, <2>2, <2>3
<1>2. /\ \A t \in Scans \ {s} : pending'[t] = pending[t]
      /\ \A i \in DOMAIN pending'[s] : pending'[s][i].rc = json[pending'[s][i].d]
  BY ScanLoadTypes DEF Sound
<1>3. /\ Spent \in Nat /\ Spent' \in Nat /\ Spent' >= Spent
      /\ overlaps' = overlaps + 1 => Spent' = Spent + 1
      /\ overlaps \in Nat /\ overlaps' \in Nat /\ crashes \in Nat /\ diskErrors \in Nat
      /\ MaxRetries \in Nat /\ Gone \notin Int
  <2>1. overlaps \in Nat /\ crashes \in Nat /\ diskErrors \in Nat
    BY DEF Sound, TypeInv, FileTypes
  <2>2. Spent' = overlaps' + crashes + diskErrors
    BY <1>1 DEF Spent
  <2>3. Spent = overlaps + crashes + diskErrors
    BY DEF Spent
  <2>4. overlaps' \in {overlaps, overlaps + 1}
    BY <1>1
  <2>5. MaxRetries \in Nat /\ Gone \notin Int
    BY DeliveryAssumption
  <2> HIDE DEF Lone
  <2>6. /\ Spent \in Nat /\ Spent' \in Nat /\ Spent' >= Spent
        /\ overlaps' = overlaps + 1 => Spent' = Spent + 1
    <3> DEFINE S == Spent
               T == Spent'
    <3>1. S = overlaps + crashes + diskErrors /\ T = overlaps' + crashes + diskErrors
      BY <2>2, <2>3
    <3> HIDE DEF S, T
    <3>2. ASSUME overlaps' = overlaps
          PROVE  S \in Nat /\ T \in Nat /\ T >= S /\ (overlaps' = overlaps + 1 => T = S + 1)
      BY <2>1, <3>1, <3>2
    <3>3. ASSUME overlaps' = overlaps + 1
          PROVE  S \in Nat /\ T \in Nat /\ T >= S /\ (overlaps' = overlaps + 1 => T = S + 1)
      BY <2>1, <3>1, <3>3
    <3>4. S \in Nat /\ T \in Nat /\ T >= S /\ (overlaps' = overlaps + 1 => T = S + 1)
      BY <2>4, <3>2, <3>3
    <3> QED BY <3>4 DEF S, T
  <2> QED BY <2>1, <2>4, <2>5, <2>6
<1>4. ASSUME NEW d \in Range(order) PROVE \E n \in Nat : Ledger(d, n)'
  <2> DEFINE C == Waiting(d)
             D == Waiting(d)'
  <2>1. PICK n \in Nat : Ledger(d, n)
    BY DEF BudgetOK
  <2>2. d \in Deliveries /\ attempts[d] \in Nat /\ json[d] \in Nat \union {Gone}
    BY RangeOrder, SpentType DEF Sound, TypeInv, FileTypes
  <2>3. /\ \A x \in Actors \ {s} : SameHand(x, d) /\ (x \in D <=> x \in C)
        /\ ~Holds(s, d) /\ ~Moves(s, d) /\ s \notin C /\ (Holds(s, d)' <=> s \in D)
        /\ s \in D => json[d] # Gone
    BY <2>2, LoadHands
  <2>4. Owed(d) => Owed(d)'
    BY <2>3 DEF Owed, SameHand
  <2>5. /\ IsFiniteSet(C) /\ Cardinality(C) \in Nat /\ Cardinality(D) \in Nat
        /\ IsFiniteSet(D)
    BY WaitingFinite
  <2>6. D \in SUBSET (C \union {s}) /\ (s \notin D => D \in SUBSET C)
    <3>1. \A x \in D : x \in Actors
      BY ActorKinds DEF Waiting
    <3> HIDE DEF C, D
    <3> QED BY <2>3, <3>1
  <2>7. attempts[d] + Cardinality(C) <= n + Spent + 1
    BY <2>1 DEF Ledger
  <2>8. CASE s \in D /\ Lone
    <3>1. json[d] \in Nat /\ json[d] >= n
      BY <2>1, <2>2, <2>3, <2>8 DEF Ledger
    <3>2. \A a \in Actors : ~Has(a, d)
      BY <1>3, <2>2, <2>8, <3>1
    <3>3. C = {} /\ ~Owed(d)
      BY <3>2, ActorKinds DEF Has, Owed, Holds, Moves, Waiting, Calling, Trying
    <3>4. \A b \in bumps : b.d # d
      BY <3>2, CallFacts DEF Has, Sound
    <3>5. Cardinality(D) <= 1
      <4> HIDE DEF C, D
      <4>1. D \in SUBSET {s}
        BY <2>6, <3>3
      <4>2. IsFiniteSet({s}) /\ Cardinality({s}) = 1
        BY FS_Singleton
      <4> QED BY <4>1, <4>2, FS_Subset
    <3>6. attempts[d] <= json[d] + Spent
      <4>1. json[d] > n \/ attempts[d] <= n + Spent
        BY <1>3, <2>1, <3>1, <3>3 DEF Ledger
      <4>2. attempts[d] <= n + Spent + 1
        BY <1>3, <2>2, <2>5, <2>7
      <4> QED BY <1>3, <2>2, <3>1, <4>1, <4>2
    <3>7. attempts'[d] + Cardinality(D) <= json'[d] + Spent' + 1
      BY <1>1, <1>3, <2>2, <2>5, <3>1, <3>5, <3>6
    <3>8. \A t \in Scans : \A i \in DOMAIN pending'[t] :
            pending'[t][i].d = d => pending'[t][i].rc >= json'[d]
      <4> SUFFICES ASSUME NEW t \in Scans, NEW i \in DOMAIN pending'[t], pending'[t][i].d = d
                   PROVE  pending'[t][i].rc >= json'[d]
        OBVIOUS
      <4>1. CASE t = s
        BY <1>1, <1>2, <3>1, <4>1
      <4>2. CASE t # s
        BY <1>2, <3>3, <4>2 DEF Waiting
      <4> QED BY <4>1, <4>2
    <3>9. Owed(d)'
      BY <1>1, <2>3, <2>8 DEF Owed
    <3>10. Ledger(d, json[d])'
      BY <1>1, <3>1, <3>4, <3>7, <3>8, <3>9 DEF Ledger
    <3> QED BY <1>1, <3>1, <3>10
  <2>9. CASE s \notin D \/ overlaps' = overlaps + 1
    <3>1. \/ Cardinality(D) <= Cardinality(C)
          \/ Cardinality(D) <= Cardinality(C) + 1 /\ Spent' = Spent + 1
      <4> HIDE DEF C, D
      <4>1. CASE s \notin D
        <5>1. D \in SUBSET C
          BY <2>6, <4>1
        <5> QED BY <2>5, <5>1, FS_Subset
      <4>2. CASE overlaps' = overlaps + 1
        <5>1. /\ IsFiniteSet(C \union {s}) /\ Cardinality(C \union {s}) \in Nat
              /\ Cardinality(C \union {s}) <= Cardinality(C) + 1
          <6>1. /\ IsFiniteSet(C \union {s})
                /\ Cardinality(C \union {s}) = IF s \in C THEN Cardinality(C) ELSE Cardinality(C) + 1
            BY <2>5, FS_AddElement
          <6> QED BY <2>5, <6>1
        <5>2. Cardinality(D) <= Cardinality(C \union {s})
          BY <2>6, <5>1, FS_Subset
        <5>3. Cardinality(D) <= Cardinality(C) + 1
          BY <2>5, <5>1, <5>2
        <5> QED BY <1>3, <4>2, <5>3
      <4> QED BY <2>9, <4>1, <4>2
    <3>2. attempts'[d] + Cardinality(D) <= n + Spent' + 1
      BY <1>1, <1>3, <2>2, <2>5, <2>7, <3>1
    <3>3. \A t \in Scans : \A i \in DOMAIN pending'[t] :
            pending'[t][i].d = d => pending'[t][i].rc >= n
      <4> SUFFICES ASSUME NEW t \in Scans, NEW i \in DOMAIN pending'[t], pending'[t][i].d = d
                   PROVE  pending'[t][i].rc >= n
        OBVIOUS
      <4>1. CASE t = s
        <5>1. json[d] # Gone
          <6>1. s \in D
            BY <4>1 DEF Waiting
          <6> QED BY <2>3, <6>1
        <5> QED BY <1>2, <2>1, <4>1, <5>1 DEF Ledger
      <4>2. CASE t # s
        BY <1>2, <2>1, <4>2 DEF Ledger
      <4> QED BY <4>1, <4>2
    <3>4. Owed(d)' \/ json'[d] = Gone \/ json'[d] > n \/ attempts'[d] <= n + Spent'
      <4>1. attempts[d] <= n + Spent => attempts[d] <= n + Spent'
        BY <1>3, <2>2
      <4> QED BY <1>1, <2>1, <2>4, <4>1 DEF Ledger
    <3>5. Ledger(d, n)'
      BY <1>1, <2>1, <3>2, <3>3, <3>4 DEF Ledger
    <3> QED BY <3>5
  <2> QED BY <1>1, <2>8, <2>9
<1>5. Unbegun'
  <2>1. \A d \in Deliveries : act'[d] = act[d]
    BY <1>1, ActorKinds DEF View
  <2> QED BY <1>1, <2>1 DEF BudgetOK, Unbegun
<1>6. RetryBudget'
  <2> SUFFICES ASSUME NEW d \in Range(order)
               PROVE  attempts[d] <= MaxRetries + overlaps' + crashes + diskErrors
    BY <1>1 DEF RetryBudget
  <2>1. attempts[d] \in Nat /\ attempts[d] <= MaxRetries + overlaps + crashes + diskErrors
    BY RangeOrder, SpentType DEF Sound, TypeInv, BudgetOK, RetryBudget
  <2> QED BY <1>1, <1>3, <2>1
<1> QED
  BY <1>1, <1>4, <1>5, <1>6 DEF BudgetOK

LEMMA BudgetNext == Sound /\ BudgetOK /\ [Next]_vars => BudgetOK'
<1> SUFFICES ASSUME Sound, BudgetOK, [Next]_vars PROVE BudgetOK'
  OBVIOUS
<1>1. CASE \E d \in Deliveries : Enqueue(d) \/ EnqueueFails(d)
  BY <1>1, EnqueueBudget, EnqueueFailsBudget
<1>2. CASE \E a \in Actors : Send(a) \/ Ack(a) \/ Unlink(a) \/ AckFails(a)
  BY <1>2, SendBudget, SettleBudget
<1>3. CASE \E b \in bumps : BumpRead(b) \/ BumpWrite(b) \/ BumpFails(b)
  BY <1>3, BumpBudget
<1>4. CASE \E s \in Scans : MoveToFailed(s) \/ MoveFails(s)
  BY <1>4, SettleBudget, ActorKinds
<1>5. CASE \E s \in Scans : OverBudget(s) \/ SkipEntry(s) \/ GiveUp(s) \/ ScanEnds(s)
                            \/ \E isLate \in BOOLEAN : GatewayStart(s, isLate)
  BY <1>5, ScanBudget
<1>6. CASE \E s \in Scans : ScanLoad(s) \/ Retry(s)
  BY <1>6, LoadBudget, RetryKeepsBudget
<1>7. CASE Crash
  BY <1>7, CrashBudget
<1>8. CASE UNCHANGED vars
  BY <1>8 DEF vars, files, bounds, history, BudgetOK, Ledger, Unbegun, RetryBudget, Spent, Owed, Holds,
              Moves, Waiting, Calling
<1> QED
  BY <1>1, <1>2, <1>3, <1>4, <1>5, <1>6, <1>7, <1>8
     DEF Next, Settle, Bump, ScanStep, DiskFault

\* Sending an entry is begun at most MAX_RETRIES times, plus once for each
\* overlapping load, crash and failing file operation: with any number of
\* scans beside any number of live deliveries.  An entry at MAX_RETRIES is
\* given up (delivery-queue-recovery.ts:237) and every other attempt that
\* fails is counted in its file, unless one of those got in the way.
THEOREM BudgetKept == Spec => []RetryBudget
<1>1. Init => Sound /\ BudgetOK
  <2> SUFFICES ASSUME Init PROVE BudgetOK
    BY SoundInit
  <2>1. Range(order) = {}
    BY DEF Init, Range
  <2>2. Unbegun
    BY DEF Init, Unbegun
  <2> QED BY <2>1, <2>2 DEF BudgetOK, RetryBudget
<1>2. Sound /\ BudgetOK /\ [Next]_vars => Sound' /\ BudgetOK'
  BY SoundNext, BudgetNext
<1>3. Sound /\ BudgetOK => RetryBudget
  BY DEF BudgetOK
<1> QED
  BY <1>1, <1>2, <1>3, PTL DEF Spec
=============================================================================
