--------------------------- MODULE GatewayLockProofs ---------------------------
(***************************************************************************)
(* Proofs about GatewayLock: for any number of processes, starts, restarts *)
(* in place and crashes, a gateway that serves keeps its lock against every*)
(* process that looked at it while it served.                              *)
(***************************************************************************)
EXTENDS GatewayLock, TLAPS

\* Whom p has met still serves; p judges that owner and does not remove its file.
MetIsSafe ==
  \A p \in Procs : met[p] # NoOwner =>
    /\ Serving(met[p])
    /\ pc[p] = "judge" => seen[p] = met[p]
    /\ pc[p] # "remove"

IInv == LockTypeOK /\ MetIsSafe

-----------------------------------------------------------------------------
(* Types.                                                                  *)

LEMMA ConstantTypes ==
  /\ MaxStarts \in Nat /\ MaxStarts >= 1 /\ MaxRestarts \in Nat /\ MaxCrashes \in Nat
BY LockAssumption DEF LockAssumption

LEMMA OwnerTypes ==
  ASSUME LockTypeOK
  PROVE  /\ NoOwner \notin Owners
         /\ \A o \in Owners : o[1] \in Procs /\ o[2] \in Nat /\ o = <<o[1], o[2]>>
         /\ \A p \in Procs : /\ Me(p) \in Owners /\ Me(p)[1] = p /\ Me(p)[2] = starts[p]
                             /\ starts[p] \in Nat
<1>1. 0 .. MaxStarts \subseteq Nat
  BY ConstantTypes
<1>2. NoOwner \notin Owners
  BY <1>1, LockAssumption DEF LockAssumption, Owners
<1> QED
  BY <1>1, <1>2 DEF LockTypeOK, Owners, Me

\* A file that exists is a record of its three parts.
LEMMA FileTypes ==
  ASSUME LockTypeOK, file # NoFile
  PROVE  /\ file.by \in Owners /\ file.written \in BOOLEAN /\ file.old \in BOOLEAN
         /\ file \in [by : Owners, written : BOOLEAN, old : BOOLEAN]
BY DEF LockTypeOK

LEMMA ReadTypes ==
  ASSUME LockTypeOK, NEW p \in Procs, ReadPayload(p)
  PROVE  LockTypeOK'
<1> DEFINE owner == IF file # NoFile /\ file.written THEN file.by ELSE NoOwner
<1>1. owner \in Owners \union {NoOwner}
  BY FileTypes
<1>2. seen' = [seen EXCEPT ![p] = owner]
  BY DEF ReadPayload
<1>3. met' = [met EXCEPT ![p] =
                IF owner # NoOwner /\ Serving(owner) THEN owner ELSE NoOwner]
  BY DEF ReadPayload
<1>4. (IF owner # NoOwner /\ Serving(owner) THEN owner ELSE NoOwner)
        \in Owners \union {NoOwner}
  BY <1>1
<1> HIDE DEF owner
<1>5. seen' \in [Procs -> Owners \union {NoOwner}]
  BY <1>1, <1>2 DEF LockTypeOK
<1>6. met' \in [Procs -> Owners \union {NoOwner}]
  BY <1>3, <1>4 DEF LockTypeOK
<1>7. pc' \in [Procs -> PCs]
  BY DEF LockTypeOK, ReadPayload, Goto, PCs
<1> QED
  BY <1>5, <1>6, <1>7 DEF LockTypeOK, ReadPayload

LEMMA NextTypes ==
  ASSUME LockTypeOK, [Next]_vars
  PROVE  LockTypeOK'
<1> USE DEF LockTypeOK, Goto, PCs
<1>1. ASSUME NEW p \in Procs, Start(p) PROVE LockTypeOK'
  <2>1. starts[p] + 1 \in 0 .. MaxStarts
    BY <1>1, ConstantTypes DEF Start
  <2> QED
    BY <1>1, <2>1 DEF Start
<1>2. ASSUME NEW p \in Procs, Create(p) PROVE LockTypeOK'
  <2>1. Me(p) \in Owners
    BY OwnerTypes
  <2> QED
    BY <1>2, <2>1 DEF Create
<1>3. ASSUME NEW p \in Procs, WritePayload(p) PROVE LockTypeOK'
  <2>1. file' \in {NoFile} \union [by : Owners, written : BOOLEAN, old : BOOLEAN]
    BY <1>3 DEF WritePayload
  <2> QED
    BY <1>3, <2>1 DEF WritePayload
<1>4. ASSUME NEW p \in Procs, ReadPayload(p) PROVE LockTypeOK'
  BY <1>4, ReadTypes
<1>5. ASSUME NEW p \in Procs, Exists(p) \/ Judge(p) \/ Poll(p) \/ GiveUp(p) \/ StartFails(p)
      PROVE LockTypeOK'
  BY <1>5 DEF Exists, Judge, Poll, GiveUp, StartFails
<1>6. ASSUME NEW p \in Procs, RemoveLock(p) \/ Bind(p) PROVE LockTypeOK'
  BY <1>6 DEF RemoveLock, Bind
<1>7. ASSUME NEW p \in Procs, AfterFailure(p) \/ ReleaseAndExit(p) PROVE LockTypeOK'
  BY <1>7 DEF AfterFailure, ReleaseAndExit, ReleaseLockIfHeld
<1>8. ASSUME NEW p \in Procs, ReleaseAndRestart(p) PROVE LockTypeOK'
  <2>1. restarts + 1 \in 0 .. MaxRestarts
    BY <1>8, ConstantTypes DEF ReleaseAndRestart
  <2> QED
    BY <1>8, <2>1 DEF ReleaseAndRestart, ReleaseLockIfHeld
<1>9. ASSUME NEW p \in Procs, CloseServer(p) PROVE LockTypeOK'
  BY <1>9 DEF CloseServer, StopsServing
<1>10. ASSUME NEW p \in Procs, Crash(p) PROVE LockTypeOK'
  <2>1. crashes + 1 \in 0 .. MaxCrashes
    BY <1>10, ConstantTypes DEF Crash
  <2> QED
    BY <1>10, <2>1 DEF Crash, StopsServing
<1>11. ASSUME Age PROVE LockTypeOK'
  <2>1. file' \in [by : Owners, written : BOOLEAN, old : BOOLEAN]
    BY <1>11 DEF Age
  <2> QED
    BY <1>11, <2>1 DEF Age
<1>12. CASE UNCHANGED vars
  BY <1>12 DEF vars
<1> QED
  BY <1>1, <1>2, <1>3, <1>4, <1>5, <1>6, <1>7, <1>8, <1>9, <1>10, <1>11, <1>12
     DEF Next, Acquire, StartServer, Release

(* Types, for any processes, restarts in place and crashes.                *)
THEOREM TypeCorrect == Spec => []LockTypeOK
<1>1. Init => LockTypeOK
  BY ConstantTypes DEF Init, LockTypeOK, PCs
<1>2. LockTypeOK /\ [Next]_vars => LockTypeOK'
  BY NextTypes
<1> QED
  BY <1>1, <1>2, PTL DEF Spec

-----------------------------------------------------------------------------
(* A serving gateway keeps its lock.                                       *)

\* A step of one process that is neither serving nor about to, and after which it
\* neither judges nor removes, leaves those that were met alone.
LEMMA OwnMove ==
  ASSUME IInv, NEW p \in Procs, NEW l \in PCs \ {"judge", "remove"},
         pc[p] # "listening", Goto(p, l), met' = met, seen' = seen,
         starts' = starts \/ (pc[p] = "off" /\ starts' = [starts EXCEPT ![p] = @ + 1])
  PROVE  MetIsSafe'
<1> SUFFICES ASSUME NEW q \in Procs, met[q] # NoOwner
             PROVE  /\ Serving(met[q])'
                    /\ pc'[q] = "judge" => seen[q] = met[q]
                    /\ pc'[q] # "remove"
  BY DEF MetIsSafe
<1>1. /\ Serving(met[q]) /\ pc[q] # "remove"
      /\ pc[q] = "judge" => seen[q] = met[q]
  BY DEF IInv, MetIsSafe
<1>2. met[q] \in Owners
  BY DEF IInv, LockTypeOK
<1>3. met[q][1] \in Procs /\ met[q][1] # p
  BY <1>1, <1>2, OwnerTypes DEF IInv, Serving
<1>4. pc' = [pc EXCEPT ![p] = l] /\ pc \in [Procs -> PCs] /\ starts \in [Procs -> 0 .. MaxStarts]
  BY DEF Goto, IInv, LockTypeOK
<1>5. starts'[met[q][1]] = starts[met[q][1]]
  BY <1>3, <1>4
<1>6. Serving(met[q])'
  BY <1>1, <1>3, <1>4, <1>5 DEF Serving
<1> QED
  BY <1>1, <1>4, <1>6

\* Who has met a serving gateway judges it alive.
LEMMA JudgeStep ==
  ASSUME IInv, NEW p \in Procs, Judge(p)
  PROVE  MetIsSafe'
<1>1. CASE met[p] = NoOwner
  <2> SUFFICES ASSUME NEW q \in Procs, met[q] # NoOwner
               PROVE  /\ Serving(met[q])'
                      /\ pc'[q] = "judge" => seen[q] = met[q]
                      /\ pc'[q] # "remove"
    BY DEF MetIsSafe, Judge
  <2>1. q # p
    BY <1>1
  <2>2. /\ Serving(met[q]) /\ pc[q] # "remove"
        /\ pc[q] = "judge" => seen[q] = met[q]
    BY DEF IInv, MetIsSafe
  <2>3. met[q][1] \in Procs
    BY OwnerTypes DEF IInv, LockTypeOK
  <2>4. /\ \A r \in Procs \ {p} : pc'[r] = pc[r]
        /\ pc[p] = "judge" /\ starts' = starts /\ met' = met /\ seen' = seen
    BY DEF Judge, Goto, IInv, LockTypeOK
  <2> QED
    BY <2>1, <2>2, <2>3, <2>4 DEF Serving
<1>2. CASE met[p] # NoOwner
  <2>1. pc[p] = "judge" /\ seen[p] = met[p] /\ Serving(seen[p])
    BY <1>2 DEF IInv, MetIsSafe, Judge
  <2>2. seen[p] # NoOwner /\ seen[p][1] \in Procs
    BY <1>2, <2>1, OwnerTypes DEF IInv, LockTypeOK
  <2>3. ~OwnerDead(p)
    BY <2>1, <2>2 DEF OwnerDead, Listening, Alive, Serving
  <2>4. Goto(p, "wait")
    BY <2>2, <2>3 DEF Judge
  <2> QED
    BY <2>1, <2>4, OwnMove DEF Judge, PCs
<1> QED
  BY <1>1, <1>2

LEMMA ReadStep ==
  ASSUME IInv, NEW p \in Procs, ReadPayload(p)
  PROVE  MetIsSafe'
<1> DEFINE owner == IF file # NoFile /\ file.written THEN file.by ELSE NoOwner
<1> SUFFICES ASSUME NEW q \in Procs, met'[q] # NoOwner
             PROVE  /\ Serving(met[q])'
                    /\ pc'[q] = "judge" => seen'[q] = met'[q]
                    /\ pc'[q] # "remove"
  BY DEF MetIsSafe
<1>1. /\ pc' = [pc EXCEPT ![p] = "judge"] /\ pc[p] = "read" /\ starts' = starts
      /\ seen' = [seen EXCEPT ![p] = owner]
      /\ met' = [met EXCEPT ![p] =
                   IF owner # NoOwner /\ Serving(owner) THEN owner ELSE NoOwner]
  BY DEF ReadPayload, Goto
<1>2. /\ pc \in [Procs -> PCs] /\ seen \in [Procs -> Owners \union {NoOwner}]
      /\ met \in [Procs -> Owners \union {NoOwner}]
  BY DEF IInv, LockTypeOK
<1>3. owner # NoOwner => owner \in Owners
  BY FileTypes DEF IInv
<1> HIDE DEF owner
<1>4. Serving(met'[q]) /\ met'[q] \in Owners
  <2>1. CASE q = p
    BY <2>1, <1>1, <1>2, <1>3
  <2>2. CASE q # p
    BY <2>2, <1>1, <1>2 DEF IInv, MetIsSafe
  <2> QED
    BY <2>1, <2>2
<1>5. met'[q][1] \in Procs
  BY <1>4, OwnerTypes DEF IInv
<1>6. Serving(met[q])'
  BY <1>1, <1>2, <1>4, <1>5 DEF Serving
<1>7. pc'[q] = "judge" => seen'[q] = met'[q]
  <2>1. CASE q = p
    BY <2>1, <1>1, <1>2
  <2>2. CASE q # p
    BY <2>2, <1>1, <1>2 DEF IInv, MetIsSafe
  <2> QED
    BY <2>1, <2>2
<1>8. pc'[q] # "remove"
  BY <1>1, <1>2 DEF IInv, MetIsSafe
<1> QED
  BY <1>6, <1>7, <1>8

\* When p stops serving, those that had met it are free again.
LEMMA StopStep ==
  ASSUME IInv, NEW p \in Procs, CloseServer(p) \/ Crash(p)
  PROVE  MetIsSafe'
<1> SUFFICES ASSUME NEW q \in Procs, met'[q] # NoOwner
             PROVE  /\ Serving(met[q])'
                    /\ pc'[q] = "judge" => seen'[q] = met'[q]
                    /\ pc'[q] # "remove"
  BY DEF MetIsSafe
<1>1. PICK l \in {"release", "off"} : pc' = [pc EXCEPT ![p] = l]
  BY DEF CloseServer, Crash, Goto
<1>2. starts' = starts /\ seen' = seen /\ pc \in [Procs -> PCs]
  BY DEF CloseServer, Crash, IInv, LockTypeOK
<1>3. met'[q] = met[q] /\ met[q] # Me(p) /\ met[q] \in Owners
  BY DEF CloseServer, Crash, StopsServing, IInv, LockTypeOK
<1>4. /\ Serving(met[q]) /\ pc[q] # "remove"
      /\ pc[q] = "judge" => seen[q] = met[q]
  BY <1>3 DEF IInv, MetIsSafe
<1>5. met[q][1] \in Procs /\ met[q][1] # p
  BY <1>3, <1>4, OwnerTypes DEF IInv, Serving, Me
<1> QED
  BY <1>1, <1>2, <1>3, <1>4, <1>5 DEF Serving

LEMMA NextSafe ==
  ASSUME IInv, [Next]_vars
  PROVE  MetIsSafe'
<1>1. ASSUME NEW p \in Procs, Acquire(p) PROVE MetIsSafe'
  <2>1. CASE ReadPayload(p)
    BY <2>1, ReadStep
  <2>2. CASE Judge(p)
    BY <2>2, JudgeStep
  <2>3. CASE Create(p) \/ Exists(p) \/ WritePayload(p) \/ RemoveLock(p) \/ Poll(p)
    <3>1. /\ pc[p] # "listening" /\ met' = met /\ seen' = seen /\ starts' = starts
          /\ \E l \in PCs \ {"judge", "remove"} : Goto(p, l)
      BY <2>3 DEF Create, Exists, WritePayload, RemoveLock, Poll, PCs
    <3> QED
      BY <3>1, OwnMove
  <2> QED
    BY <1>1, <2>1, <2>2, <2>3 DEF Acquire
<1>2. ASSUME NEW p \in Procs, Start(p) \/ GiveUp(p) \/ StartServer(p) \/ Release(p)
      PROVE MetIsSafe'
  <2>1. /\ pc[p] # "listening" /\ met' = met /\ seen' = seen
        /\ \/ starts' = starts
           \/ pc[p] = "off" /\ starts' = [starts EXCEPT ![p] = @ + 1]
    BY <1>2 DEF Start, GiveUp, StartServer, Bind, StartFails, AfterFailure, Release,
                ReleaseAndExit, ReleaseAndRestart
  <2>2. \E l \in PCs \ {"judge", "remove"} : Goto(p, l)
    BY <1>2 DEF Start, GiveUp, StartServer, Bind, StartFails, AfterFailure, Release,
                ReleaseAndExit, ReleaseAndRestart, PCs
  <2> QED
    BY <2>1, <2>2, OwnMove
<1>3. ASSUME NEW p \in Procs, CloseServer(p) \/ Crash(p) PROVE MetIsSafe'
  BY <1>3, StopStep
<1>4. CASE Age \/ UNCHANGED vars
  BY <1>4 DEF Age, vars, IInv, MetIsSafe, Serving
<1> QED
  BY <1>1, <1>2, <1>3, <1>4 DEF Next

(* A process that read the lock of a serving gateway does not remove it while   *)
(* that gateway serves: with any number of contenders, starts, restarts in place*)
(* and crashes, and whatever age the file has.                                  *)
THEOREM ServingLockStays == Spec => []ServingKeepsLock
<1>1. Init => IInv
  BY ConstantTypes DEF Init, IInv, LockTypeOK, PCs, MetIsSafe
<1>2. IInv /\ [Next]_vars => IInv'
  BY NextTypes, NextSafe DEF IInv
<1>3. IInv => ServingKeepsLock
  BY DEF IInv, MetIsSafe, ServingKeepsLock
<1> QED
  BY <1>1, <1>2, <1>3, PTL DEF Spec
=============================================================================
