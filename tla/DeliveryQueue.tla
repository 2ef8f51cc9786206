--------------------------- MODULE DeliveryQueue ---------------------------
(***************************************************************************)
(* The write-ahead queue of outbound messages: src/infra/outbound/         *)
(* delivery-queue-storage.ts (one JSON file per delivery),                 *)
(* delivery-queue-recovery.ts (the scan each gateway start runs) and the   *)
(* queue wrapper and payload loop of deliver.ts.                           *)
(*                                                                         *)
(* Two kinds of actor work on the files: the live delivery of a message,   *)
(* named by the delivery itself, and the recovery scans.  A scan works     *)
(* from the snapshot it loaded.  The files outlive a crash; the actors do  *)
(* not.                                                                    *)
(***************************************************************************)
EXTENDS Integers, Sequences, FiniteSets, SequencesExt

CONSTANTS
  Deliveries,      \* the messages handed to deliverOutboundPayloads
  Scans,           \* slots for recovery scans that may overlap
  BestEffort,      \* the deliveries sent with bestEffort
  ReportsErrors,   \* the deliveries whose live caller passes onError
  NPayloads,       \* payloads of a delivery
  MaxRetries,      \* MAX_RETRIES
  Gone,            \* "no such file"; also: a value not read yet
  MaxStarts,       \* bound: gateway starts (0: no bound)
  MaxOverlaps,     \* bound: scans that load an entry somebody works on
  MaxCrashes,      \* bound: crashes of the process
  MaxDiskErrors    \* bound: file operations that fail

Actors == Deliveries \union Scans
Payloads == 1 .. NPayloads

ASSUME DeliveryAssumption ==
  /\ Deliveries \intersect Scans = {}
  /\ BestEffort \subseteq Deliveries /\ ReportsErrors \subseteq Deliveries
  /\ NPayloads \in Nat \ {0} /\ MaxRetries \in Nat \ {0}
  /\ IsFiniteSet(Scans) /\ Gone \notin Int
  /\ MaxStarts \in Nat /\ MaxOverlaps \in Nat /\ MaxCrashes \in Nat
  /\ MaxDiskErrors \in Nat

VARIABLES
  json,        \* json[d]: retryCount in {id}.json, or Gone
  marker,      \* the deliveries with a {id}.delivered file
  failed,      \* the deliveries with a file in failed/
  order,       \* the deliveries persisted, in the order of enqueuedAt
  act,         \* act[a]: where actor a is
  pending,     \* pending[s]: the snapshot entries scan s has still to handle
  bumps,       \* the failDelivery calls in flight
  expired,     \* the deliveries whose backoff is known to have expired
  starts, overlaps, crashes, diskErrors,  \* counters of the bounds
  handled,     \* history: payloads sent, cancelled by a hook or aborted
  acked,       \* history: deliveries whose file an ack has renamed
  final,       \* history: those that nobody else worked on at the time
  attempts,    \* history: attempts[d] is how often sending d has begun
  permanent    \* history: deliveries a scan has seen a permanent error of

files == <<json, marker, failed, order>>
bounds == <<starts, overlaps, crashes, diskErrors>>
history == <<handled, acked, final, attempts, permanent>>
vars == <<files, act, pending, bumps, expired, bounds, history>>

Snapshot == [d : Deliveries, rc : Nat]
LivePCs == {"new", "sending", "ack", "unlink", "failing", "done"}
ScanPCs == {"off", "load", "next", "sending", "ack", "unlink", "failing",
            "move", "deferring"}

DeliveryTypeOK ==
  /\ json \in [Deliveries -> Nat \union {Gone}]
  /\ marker \subseteq Deliveries /\ failed \subseteq Deliveries
  /\ order \in Seq(Deliveries) /\ IsInjective(order)
  /\ act \in [Actors -> [pc : LivePCs \union ScanPCs,
                         d : Deliveries \union {Gone},
                         idx : 1 .. NPayloads + 1,
                         partial : BOOLEAN, tried : BOOLEAN]]
  /\ \A d \in Deliveries : act[d].pc \in LivePCs /\ act[d].d = d
  /\ \A s \in Scans : act[s].pc \in ScanPCs
  /\ pending \in [Scans -> Seq(Snapshot)]
  /\ bumps \subseteq [by : Actors, d : Deliveries, rc : Nat \union {Gone}]
  /\ expired \subseteq Deliveries
  /\ starts \in Nat /\ overlaps \in Nat /\ crashes \in Nat /\ diskErrors \in Nat
  /\ handled \in [Deliveries -> SUBSET Payloads]
  /\ acked \subseteq Deliveries /\ final \subseteq acked
  /\ permanent \subseteq Deliveries
  /\ attempts \in [Deliveries -> Nat]

Idle(pc, d) ==
  [pc |-> pc, d |-> d, idx |-> 1, partial |-> FALSE, tried |-> FALSE]

Init ==
  /\ json = [d \in Deliveries |-> Gone]
  /\ marker = {} /\ failed = {} /\ order = <<>>
  /\ act = [a \in Actors |-> IF a \in Scans THEN Idle("off", Gone)
                                            ELSE Idle("new", a)]
  /\ pending = [s \in Scans |-> <<>>]
  /\ bumps = {} /\ expired = {}
  /\ starts = 0 /\ overlaps = 0 /\ crashes = 0 /\ diskErrors = 0
  /\ handled = [d \in Deliveries |-> {}]
  /\ acked = {} /\ final = {} /\ permanent = {}
  /\ attempts = [d \in Deliveries |-> 0]

IsLive(a) == a \in Deliveries
LiveActive == \E d \in Deliveries : act[d].pc \notin {"new", "done"}
ScanActive == \E s \in Scans : act[s].pc # "off"

Goto(a, pc) == act' = [act EXCEPT ![a].pc = pc]

\* What an actor does when the settling of its delivery is over.
Settled(a) == IF IsLive(a) THEN "done" ELSE "next"

\* a works on d: it sends or settles it, has it in its snapshot, or records a
\* failure of it.
Has(a, d) ==
  \/ act[a].d = d /\ act[a].pc \in {"sending", "ack", "unlink", "failing", "move"}
  \/ a \in Scans /\ \E i \in DOMAIN pending[a] : pending[a][i].d = d
  \/ \E b \in bumps : b.by = a /\ b.d = d

\* A live delivery whose entry could not be written has no queueId.
HasEntry(a) == ~IsLive(a) \/ a \in Range(order)

DiskError == diskErrors < MaxDiskErrors /\ diskErrors' = diskErrors + 1

-----------------------------------------------------------------------------
(* Sending: enqueueDelivery, then one payload after another.               *)

\* Bound: attempts are counted up to one more than RetryBudget allows.
AttemptsCap == MaxRetries + MaxOverlaps + MaxCrashes + MaxDiskErrors + 1

BeginSending(a, d) ==
  /\ act' = [act EXCEPT ![a] = [Idle("sending", d) EXCEPT !.tried = TRUE]]
  /\ attempts' = [attempts EXCEPT ![d] = IF @ < AttemptsCap THEN @ + 1 ELSE @]

Enqueue(d) ==
  /\ act[d].pc = "new"
  /\ json' = [json EXCEPT ![d] = 0]
  /\ order' = Append(order, d)
  /\ BeginSending(d, d)
  /\ UNCHANGED <<marker, failed, pending, bumps, expired, bounds, handled, acked,
                 final, permanent>>

EnqueueFails(d) ==
  /\ act[d].pc = "new" /\ DiskError
  /\ BeginSending(d, d)
  /\ UNCHANGED <<files, pending, bumps, expired, starts, overlaps, crashes, handled, acked,
                 final, permanent>>

\* failDelivery(id): read the entry, then write it with retryCount + 1.
StartBump(a, d) == bumps' = bumps \union {[by |-> a, d |-> d, rc |-> Gone]}

\* Mutant: whatever a live delivery failed of, its entry is acknowledged.
Throws_AcksAll(a, kind) ==
  /\ IF ~HasEntry(a) THEN Goto(a, "done") /\ UNCHANGED bumps
     ELSE IF IsLive(a) THEN Goto(a, "ack") /\ UNCHANGED bumps
     ELSE Goto(a, "failing") /\ StartBump(a, act[a].d)
  /\ UNCHANGED permanent

\* deliverOutboundPayloads rejects: the wrapper's catch for a live delivery,
\* the recovery loop's catch for a scan.
Throws(a, kind) ==
  LET d == act[a].d IN
  /\ IF ~HasEntry(a) THEN Goto(a, "done") /\ UNCHANGED bumps
     ELSE IF kind = "abort" THEN Goto(a, "ack") /\ UNCHANGED bumps
     ELSE IF kind = "permanent" /\ ~IsLive(a)
          THEN Goto(a, "move") /\ UNCHANGED bumps
     ELSE Goto(a, "failing") /\ StartBump(a, d)
  /\ permanent' = IF kind = "permanent" /\ ~IsLive(a)
                  THEN permanent \union {d} ELSE permanent

NextPayload(a) ==
  /\ act[a].pc = "sending" /\ act[a].idx <= NPayloads

\* The channel accepts the payload, or the message_sending hook cancels it:
\* either way the loop has nothing left to do for it.
SendOk(a) ==
  /\ NextPayload(a)
  /\ handled' = [handled EXCEPT ![act[a].d] = @ \union {act[a].idx}]
  /\ act' = [act EXCEPT ![a].idx = @ + 1]
  /\ UNCHANGED <<files, pending, bumps, expired, bounds, acked, final, attempts,
                 permanent>>

\* A payload fails.  With bestEffort the loop goes on and only a caller's
\* onError makes the wrapper remember it; recovery passes no onError and no
\* abort signal.
SendError(a, kind) ==
  LET d == act[a].d IN
  /\ NextPayload(a)
  /\ kind = "abort" => IsLive(a)
  /\ IF d \in BestEffort
     THEN /\ act' = [act EXCEPT
                      ![a].idx = @ + 1,
                      ![a].partial = @ \/ (IsLive(a) /\ d \in ReportsErrors)]
          /\ UNCHANGED <<bumps, permanent>>
     ELSE Throws(a, kind)
  /\ handled' = IF kind = "abort"
                THEN [handled EXCEPT ![d] = @ \union (act[a].idx .. NPayloads)]
                ELSE handled
  /\ UNCHANGED <<files, pending, expired, bounds, acked, final, attempts>>

\* An error outside the payload loop, which bestEffort does not catch: no
\* channel handler, or the transcript mirror of what was sent.
CoreThrows(a, kind) ==
  /\ act[a].pc = "sending" /\ act[a].idx \in {1, NPayloads + 1}
  /\ kind \in {"transient", "permanent"}
  /\ Throws(a, kind)
  /\ UNCHANGED <<files, pending, expired, bounds, handled, acked, final, attempts>>

\* deliverOutboundPayloadsCore returns.
CoreReturns(a) ==
  /\ act[a].pc = "sending" /\ act[a].idx = NPayloads + 1
  /\ IF ~HasEntry(a) THEN Goto(a, "done") /\ UNCHANGED bumps
     ELSE IF act[a].partial
          THEN Goto(a, "failing") /\ StartBump(a, act[a].d)
     ELSE Goto(a, "ack") /\ UNCHANGED bumps
  /\ UNCHANGED <<files, pending, expired, bounds, history>>

-----------------------------------------------------------------------------
(* Settling: ackDelivery, failDelivery, moveToFailed.                      *)

\* Phase 1: rename {id}.json to {id}.delivered; ENOENT is not an error.
Ack(a) ==
  LET d == act[a].d
      there == json[d] # Gone IN
  /\ act[a].pc = "ack"
  /\ json' = [json EXCEPT ![d] = Gone]
  /\ marker' = IF there THEN marker \union {d} ELSE marker
  /\ acked' = IF there THEN acked \union {d} ELSE acked
  /\ final' = IF there /\ \A b \in Actors \ {a} : ~Has(b, d)
              THEN final \union {d} ELSE final
  /\ Goto(a, "unlink")
  /\ UNCHANGED <<failed, order, pending, bumps, expired, bounds, handled,
                 attempts, permanent>>

\* The rename fails: a live caller ignores it, the recovery loop's catch
\* takes it for a failed delivery.
AckFails(a) ==
  /\ act[a].pc = "ack" /\ DiskError
  /\ IF IsLive(a) THEN Goto(a, "done") /\ UNCHANGED bumps
                  ELSE Goto(a, "failing") /\ StartBump(a, act[a].d)
  /\ UNCHANGED <<files, pending, expired, starts, overlaps, crashes, history>>

\* Phase 2: unlink the marker.
Unlink(a) ==
  /\ act[a].pc = "unlink"
  /\ marker' = marker \ {act[a].d}
  /\ Goto(a, Settled(a))
  /\ UNCHANGED <<json, failed, order, pending, bumps, expired, bounds, history>>

\* A failDelivery call ends: whoever awaited only this one goes on.
EndBump(b) ==
  /\ bumps' = bumps \ {b}
  /\ IF act[b.by].pc = "failing" THEN Goto(b.by, Settled(b.by))
                                 ELSE UNCHANGED act

BumpRead(b) ==
  /\ b.rc = Gone
  /\ IF json[b.d] = Gone
     THEN EndBump(b)
     ELSE /\ bumps' = (bumps \ {b}) \union {[b EXCEPT !.rc = json[b.d]]}
          /\ UNCHANGED act
  /\ UNCHANGED <<files, pending, expired, bounds, history>>

\* Mutant: the failure is recorded without counting it.
BumpWrite_Uncounted(b) ==
  /\ b.rc # Gone
  /\ json' = [json EXCEPT ![b.d] = b.rc]
  /\ expired' = expired \ {b.d}
  /\ EndBump(b)
  /\ UNCHANGED <<marker, failed, order, pending, bounds, history>>

BumpWrite(b) ==
  /\ b.rc # Gone
  /\ json' = [json EXCEPT ![b.d] = b.rc + 1]
  /\ expired' = expired \ {b.d}
  /\ EndBump(b)
  /\ UNCHANGED <<marker, failed, order, pending, bounds, history>>

BumpFails(b) ==
  /\ DiskError /\ EndBump(b)
  /\ UNCHANGED <<files, pending, expired, starts, overlaps, crashes, history>>

MoveToFailed(s) ==
  LET d == act[s].d IN
  /\ act[s].pc = "move"
  /\ failed' = IF json[d] # Gone THEN failed \union {d} ELSE failed
  /\ json' = [json EXCEPT ![d] = Gone]
  /\ Goto(s, "next")
  /\ UNCHANGED <<marker, order, pending, bumps, expired, bounds, history>>

MoveFails(s) ==
  /\ act[s].pc = "move" /\ DiskError /\ Goto(s, "next")
  /\ UNCHANGED <<files, pending, bumps, expired, starts, overlaps, crashes, history>>

-----------------------------------------------------------------------------
(* recoverPendingDeliveries, started by every gateway start.               *)

\* A start does not wait for anybody: live deliveries go on, and after a restart
\* in place the scan of the start before does, too.
GatewayStart(s, isLate) ==
  /\ act[s].pc = "off"
  /\ IF MaxStarts = 0 THEN UNCHANGED starts
     ELSE starts < MaxStarts /\ starts' = starts + 1
  /\ expired' = IF isLate THEN Deliveries ELSE expired
  /\ act' = [act EXCEPT ![s] = Idle("load", Gone)]
  /\ UNCHANGED <<files, pending, bumps, overlaps, crashes, diskErrors, history>>

\* The sort of the entries that are in S by enqueuedAt.
OldestFirst(S) ==
  {q \in SetToSeqs(S) : \A i, j \in DOMAIN q :
     i < j => \E m, n \in DOMAIN order : m < n /\ order[m] = q[i] /\ order[n] = q[j]}

\* Bound: so many scans find an entry that somebody works on.
CountOverlap ==
  IF \E d \in Deliveries, a \in Actors : json[d] # Gone /\ Has(a, d)
  THEN overlaps < MaxOverlaps /\ overlaps' = overlaps + 1
  ELSE UNCHANGED overlaps

\* Mutant: the scan takes a .delivered marker for a pending entry.
ScanLoad_ReplaysMarkers(s) ==
  /\ act[s].pc = "load" /\ CountOverlap
  /\ marker' = {}
  /\ \E q \in OldestFirst({d \in Deliveries : json[d] # Gone \/ d \in marker}) :
       pending' = [pending EXCEPT ![s] = [i \in DOMAIN q |-> [d |-> q[i], rc |-> 0]]]
  /\ Goto(s, "next")
  /\ UNCHANGED <<json, failed, order, bumps, expired, starts, crashes, diskErrors, history>>

\* loadPendingDeliveries: remove the markers, read the entries, oldest first.
ScanLoad(s) ==
  /\ act[s].pc = "load" /\ CountOverlap
  /\ marker' = {}
  /\ \E q \in OldestFirst({d \in Deliveries : json[d] # Gone}) :
       pending' = [pending EXCEPT ![s] = [i \in DOMAIN q |-> [d |-> q[i], rc |-> json[q[i]]]]]
  /\ Goto(s, "next")
  /\ UNCHANGED <<json, failed, order, bumps, expired, starts, crashes, diskErrors, history>>

AtEntry(s) == act[s].pc = "next" /\ pending[s] # <<>>
Entry(s) == Head(pending[s])
TakeEntry(s) == pending' = [pending EXCEPT ![s] = Tail(@)]

\* The time budget is spent (only sending takes time): every entry left gets
\* a failDelivery of its own, all of them at once.
OverBudget(s) ==
  /\ AtEntry(s) /\ act[s].tried
  /\ bumps' = bumps \union
       {[by |-> s, d |-> pending[s][i].d, rc |-> Gone] : i \in DOMAIN pending[s]}
  /\ pending' = [pending EXCEPT ![s] = <<>>]
  /\ Goto(s, "deferring")
  /\ UNCHANGED <<files, expired, bounds, history>>

\* Mutant: given up one retry early.
GiveUp_Early(s) ==
  /\ AtEntry(s) /\ Entry(s).rc >= MaxRetries - 1
  /\ act' = [act EXCEPT ![s].pc = "move", ![s].d = Entry(s).d]
  /\ TakeEntry(s)
  /\ UNCHANGED <<files, bumps, expired, bounds, history>>

GiveUp(s) ==
  /\ AtEntry(s) /\ Entry(s).rc >= MaxRetries
  /\ act' = [act EXCEPT ![s].pc = "move", ![s].d = Entry(s).d]
  /\ TakeEntry(s)
  /\ UNCHANGED <<files, bumps, expired, bounds, history>>

\* isEntryEligibleForRecoveryRetry: a first replay is, a retried entry is
\* once its backoff has expired.
MayWait(entry) == entry.rc > 0 /\ entry.d \notin expired

SkipEntry(s) ==
  /\ AtEntry(s) /\ Entry(s).rc < MaxRetries /\ MayWait(Entry(s))
  /\ TakeEntry(s)
  /\ UNCHANGED <<files, act, bumps, expired, bounds, history>>

\* Mutant: one retry too many.
Retry_OneMore(s) ==
  /\ AtEntry(s) /\ Entry(s).rc <= MaxRetries
  /\ BeginSending(s, Entry(s).d)
  /\ TakeEntry(s)
  /\ UNCHANGED <<files, bumps, expired, bounds, handled, acked, final, permanent>>

Retry(s) ==
  /\ AtEntry(s) /\ Entry(s).rc < MaxRetries
  /\ BeginSending(s, Entry(s).d)
  /\ TakeEntry(s)
  /\ UNCHANGED <<files, bumps, expired, bounds, handled, acked, final, permanent>>

ScanEnds(s) ==
  /\ \/ act[s].pc = "next" /\ pending[s] = <<>>
     \/ act[s].pc = "deferring" /\ \A b \in bumps : b.by # s
  /\ act' = [act EXCEPT ![s] = Idle("off", Gone)]
  /\ UNCHANGED <<files, pending, bumps, expired, bounds, history>>

\* The process dies: no live delivery, scan or failDelivery goes on.
Crash ==
  /\ crashes < MaxCrashes /\ crashes' = crashes + 1
  /\ LiveActive \/ ScanActive
  /\ act' = [a \in Actors |->
       IF a \in Scans THEN Idle("off", Gone)
       ELSE IF act[a].pc = "new" THEN act[a] ELSE Idle("done", a)]
  /\ pending' = [s \in Scans |-> <<>>]
  /\ bumps' = {}
  /\ UNCHANGED <<files, expired, starts, overlaps, diskErrors, history>>

-----------------------------------------------------------------------------
Kinds == {"abort", "transient", "permanent"}

Send(a) ==
  \/ SendOk(a) \/ CoreReturns(a)
  \/ \E kind \in Kinds : SendError(a, kind) \/ CoreThrows(a, kind)

Settle(a) == Ack(a) \/ Unlink(a)

Bump(a) == \E b \in bumps : b.by = a /\ (BumpRead(b) \/ BumpWrite(b))

ScanStep(s) ==
  \/ ScanLoad(s) \/ OverBudget(s) \/ GiveUp(s) \/ SkipEntry(s) \/ Retry(s)
  \/ MoveToFailed(s) \/ ScanEnds(s)

DiskFault ==
  \/ \E d \in Deliveries : EnqueueFails(d)
  \/ \E a \in Actors : AckFails(a)
  \/ \E b \in bumps : BumpFails(b)
  \/ \E s \in Scans : MoveFails(s)

Next ==
  \/ \E d \in Deliveries : Enqueue(d)
  \/ \E a \in Actors : Send(a) \/ Settle(a) \/ Bump(a)
  \/ \E s \in Scans : ScanStep(s)
  \/ \E s \in Scans, isLate \in BOOLEAN : GatewayStart(s, isLate)
  \/ DiskFault
  \/ Crash

Spec == Init /\ [][Next]_vars

\* Every send resolves or rejects and every file operation completes; nobody
\* promises that a gateway starts again.
Fairness ==
  /\ \A a \in Actors : WF_vars(Send(a)) /\ WF_vars(Settle(a)) /\ WF_vars(Bump(a))
  /\ \A s \in Scans : WF_vars(ScanStep(s))

FairSpec == Spec /\ Fairness

-----------------------------------------------------------------------------
(* Properties.                                                             *)

AllHandled(d) == Payloads \subseteq handled[d]

(* An entry that was persisted leaves the queue only when each of its      *)
(* payloads was sent, cancelled or aborted, or when its file is in failed/ *)
(* for an operator: through crashes, partial sends, racing scans and file  *)
(* operations that fail.  (Deliveries without bestEffort.)                 *)
NothingLost ==
  \A d \in Range(order) \ BestEffort :
    json[d] # Gone \/ d \in failed \/ AllHandled(d)

(* The same for the deliveries sent with bestEffort: what the wrapper's    *)
(* bookkeeping of partial failures is for (deliver.ts:505-508).            *)
BestEffortKept ==
  \A d \in Range(order) \intersect BestEffort :
    json[d] # Gone \/ d \in failed \/ AllHandled(d)

(* Sending an entry is begun at most MAX_RETRIES times, plus once for each *)
(* crash or failing file operation that kept a failure from being counted, *)
(* and for each scan that found entries somebody else was working on: it   *)
(* works from a count that is out of date, and two failDelivery calls that *)
(* read the same count lose one of their updates.                          *)
RetryBudget ==
  \A d \in Range(order) :
    attempts[d] <= MaxRetries + overlaps + crashes + diskErrors

(* Except for a permanent error, a file reaches failed/ only in the        *)
(* MAX_RETRIES-th gateway start that saw it or later: a start counts at    *)
(* most one attempt or deferral against an entry, besides the live one,    *)
(* even if scans and live deliveries overlap.                              *)
GivenUpLate == (failed \ permanent # {}) => starts >= MaxRetries

(* What was acknowledged while nobody else worked on it is never sent      *)
(* again, in this start or a later one: the .delivered marker keeps the    *)
(* next scan from replaying it.                                            *)
FinalNeverSentAgain ==
  [][\A a \in Actors : SendOk(a) => act[a].d \notin final]_vars

(* The same for everything that was acknowledged.  A scan that loaded the  *)
(* entry before the ack breaks this.                                       *)
AckedNeverSentAgain ==
  [][\A a \in Actors : SendOk(a) => act[a].d \notin acked]_vars

(* What has been delivered in full is never replayed, which ackDelivery's  *)
(* comment promises for a crash between delivery and cleanup.              *)
DeliveredNeverReplayed ==
  [][\A a \in Actors : SendOk(a) => ~AllHandled(act[a].d)]_vars

(* If gateways keep starting with all backoffs expired, every entry        *)
(* eventually leaves the queue: delivered, or moved to failed/.            *)
LateStart == \E s \in Scans : GatewayStart(s, TRUE)

EntriesEventuallyLeave ==
  []<><<LateStart>>_vars =>
    \A d \in Deliveries : json[d] # Gone ~> json[d] = Gone
=============================================================================
