--------------------------- MODULE CronServiceProofs ---------------------------
(***************************************************************************)
(* Proofs about CronService, for every set of jobs and services and any    *)
(* number of edits, ticks, manual runs and crashes.                        *)
(*                                                                         *)
(* The types, and who may bring a disabled job back, are proved with       *)
(* reloads as well.  The rest is about a service that no reload replaces,  *)
(* where one locked step at a time is between the memory of the service    *)
(* and the store file.                                                     *)
(***************************************************************************)
EXTENDS CronService, FiniteSetTheorems, TLAPS

USE CronAssumption

-----------------------------------------------------------------------------
(***************************************************************************)
(* What the operations on a job and on a store return and leave alone.     *)
(***************************************************************************)
JobRecords ==
  {job \in [here : BOOLEAN, enabled : BOOLEAN, next : {"none", "later", "due"}, running : BOOLEAN,
            at : {"later", "due"}, last : {"none", "ok", "moved", "failed"}] :
     job.enabled => job.here}

GoodJobs == {job \in JobRecords : job.enabled \/ job.next = "none"}

\* Any store, and one whose jobs are normalized.
AnyStores == [Jobs -> JobRecords]
Stores == [Jobs -> GoodJobs]

\* Job b is enabled and marked as a is, and keeps the time of a if that is set.
Marks(a, b) == b.enabled = a.enabled /\ (a.enabled => b.running = a.running)
Same(a, b) == Marks(a, b) /\ (a.enabled /\ a.next # "none" => b.next = a.next)

\* A job without a next time has none to come.
Settled(store) == \A j \in Jobs : store[j].next = "none" => NextRunAt(j, store[j]) = "none"

LEMMA NewJobGood == NoJob \in GoodJobs /\ \A j \in Jobs : NewJob(j) \in GoodJobs
BY DEF NoJob, NewJob, GoodJobs, JobRecords

\* A missing job has nothing to come, and one whose last run was ok neither.
LEMMA NextRunAtValue ==
  ASSUME NEW j \in Jobs, NEW job \in GoodJobs
  PROVE  /\ NextRunAt(j, job) \in {"none", "later", "due"}
         /\ ~job.enabled => NextRunAt(j, job) = "none"
         /\ NextRunAt(j, job) = "none" <=> ~job.enabled \/ (j \notin Recurring /\ job.last = "ok")
BY DEF NextRunAt, GoodJobs, JobRecords

LEMMA NormalizedJob ==
  ASSUME NEW job \in JobRecords
  PROVE  Normalized(job) \in GoodJobs /\ Same(job, Normalized(job))
BY DEF Normalized, GoodJobs, JobRecords, Same, Marks, Due

LEMMA StoresAreStores == Stores \subseteq AnyStores
BY DEF Stores, AnyStores, GoodJobs

\* A time that is set is good for any enabled job.
LEMMA NextSet ==
  ASSUME NEW job \in GoodJobs, NEW n \in {"none", "later", "due"}, job.enabled \/ n = "none"
  PROVE  LET new == [job EXCEPT !.next = n] IN
         /\ new \in GoodJobs /\ Marks(job, new) /\ new.next = n
         /\ new.last = job.last /\ new.enabled = job.enabled
BY DEF GoodJobs, JobRecords, Marks

\* A time computed anew is none only where there is none to come.
LEMMA NextComputed ==
  ASSUME NEW j \in Jobs, NEW job \in GoodJobs, NEW new, new = [job EXCEPT !.next = NextRunAt(j, job)]
  PROVE  /\ new \in GoodJobs /\ Marks(job, new) /\ new.enabled = job.enabled
         /\ new.next = "none" => NextRunAt(j, new) = "none"
<1>1. NextRunAt(j, job) \in {"none", "later", "due"} /\ (job.enabled \/ NextRunAt(j, job) = "none")
  BY NextRunAtValue
<1>2. /\ new \in GoodJobs /\ Marks(job, new) /\ new.next = NextRunAt(j, job)
      /\ new.last = job.last /\ new.enabled = job.enabled
  BY <1>1, NextSet
<1> QED
  BY <1>2, NextRunAtValue

\* The times of a whole store: none is missing afterwards, marks stay, and
\* maintenance keeps what is due.
LEMMA MaintainedStore ==
  ASSUME NEW store \in AnyStores
  PROVE  /\ Maintained(store) \in Stores /\ Settled(Maintained(store))
         /\ \A j \in Jobs : Same(store[j], Maintained(store)[j])
<1>1. ASSUME NEW j \in Jobs
      PROVE  /\ Maintained(store)[j] \in GoodJobs /\ Same(store[j], Maintained(store)[j])
             /\ Maintained(store)[j].next = "none" => NextRunAt(j, Maintained(store)[j]) = "none"
  <2> DEFINE job == Normalized(store[j])
  <2>1. store[j] \in JobRecords
    BY DEF AnyStores
  <2>2. job \in GoodJobs /\ Same(store[j], job)
    BY <2>1, NormalizedJob
  <2>3. Maintained(store)[j] = IF job.next # "none" THEN job ELSE [job EXCEPT !.next = NextRunAt(j, job)]
    BY DEF Maintained
  <2> HIDE DEF job
  <2>4. CASE job.next # "none"
    BY <2>2, <2>3, <2>4
  <2>5. CASE job.next = "none"
    <3> DEFINE new == [job EXCEPT !.next = NextRunAt(j, job)]
    <3>1. /\ new \in GoodJobs /\ Marks(job, new)
          /\ new.next = "none" => NextRunAt(j, new) = "none"
      BY <2>2, NextComputed
    <3> HIDE DEF new
    <3> QED BY <2>2, <2>3, <2>5, <3>1 DEF Same, Marks, Due, new
  <2> QED BY <2>4, <2>5
<1>2. Maintained(store) = [j \in Jobs |-> Maintained(store)[j]]
  BY DEF Maintained
<1> QED
  BY <1>1, <1>2 DEF Stores, Settled

LEMMA RecomputedStore ==
  ASSUME NEW store \in AnyStores
  PROVE  /\ Recomputed(store) \in Stores /\ Settled(Recomputed(store))
         /\ \A j \in Jobs : Marks(store[j], Recomputed(store)[j])
<1>1. ASSUME NEW j \in Jobs
      PROVE  /\ Recomputed(store)[j] \in GoodJobs /\ Marks(store[j], Recomputed(store)[j])
             /\ Recomputed(store)[j].next = "none" => NextRunAt(j, Recomputed(store)[j]) = "none"
  <2> DEFINE job == Normalized(store[j])
  <2>1. store[j] \in JobRecords
    BY DEF AnyStores
  <2>2. job \in GoodJobs /\ Marks(store[j], job)
    BY <2>1, NormalizedJob DEF Same
  <2>3. Recomputed(store)[j] = IF job.next = "later" THEN job ELSE [job EXCEPT !.next = NextRunAt(j, job)]
    BY DEF Recomputed
  <2> HIDE DEF job
  <2>4. CASE job.next = "later"
    BY <2>2, <2>3, <2>4
  <2>5. CASE job.next # "later"
    <3> DEFINE new == [job EXCEPT !.next = NextRunAt(j, job)]
    <3>1. /\ new \in GoodJobs /\ Marks(job, new)
          /\ new.next = "none" => NextRunAt(j, new) = "none"
      BY <2>2, NextComputed
    <3> HIDE DEF new
    <3> QED BY <2>2, <2>3, <2>5, <3>1 DEF Marks, new
  <2> QED BY <2>4, <2>5
<1>2. Recomputed(store) = [j \in Jobs |-> Recomputed(store)[j]]
  BY DEF Recomputed
<1> QED
  BY <1>1, <1>2 DEF Stores, Settled

\* An outcome enables nothing.
LEMMA OutcomeJob ==
  ASSUME NEW j \in Jobs, NEW job \in JobRecords, NEW result,
         j \notin Recurring => result[j] \in Results
  PROVE  /\ Outcome(j, job, result) \in JobRecords
         /\ Outcome(j, job, result).enabled => job.enabled
<1>1. CASE ~job.here
  BY <1>1 DEF Outcome
<1>2. CASE job.here /\ j \in Recurring
  <2>1. NextRunAt(j, job) \in {"none", "later", "due"}
    BY DEF NextRunAt, JobRecords
  <2>2. Outcome(j, job, result) = [[job EXCEPT !.running = FALSE] EXCEPT !.next = NextRunAt(j, job)]
    BY <1>2 DEF Outcome
  <2> QED BY <2>1, <2>2 DEF JobRecords
<1>3. CASE job.here /\ j \notin Recurring
  <2> DEFINE r == result[j]
  <2>1. r \in Results
    BY <1>3
  <2>2. Outcome(j, job, result) =
          CASE r = "deleted" -> NoJob
            [] r = "retry" -> [[job EXCEPT !.running = FALSE] EXCEPT !.next = "later", !.last = "failed"]
            [] r \in {"ok", "failed"} ->
                 [[job EXCEPT !.running = FALSE] EXCEPT !.enabled = FALSE, !.next = "none",
                   !.last = IF r = "ok" /\ job.at = "later" THEN "moved" ELSE r]
    BY <1>3 DEF Outcome
  <2> HIDE DEF r
  <2>3. CASE r = "deleted"
    BY <2>2, <2>3 DEF NoJob, JobRecords
  <2>4. CASE r = "retry"
    BY <2>2, <2>4 DEF JobRecords
  <2>5. CASE r \in {"ok", "failed"}
    BY <2>2, <2>5 DEF JobRecords
  <2> QED BY <2>1, <2>3, <2>4, <2>5 DEF Results
<1> QED
  BY <1>1, <1>2, <1>3

\* The outcomes of an owner leave the jobs alone that it did not run.
LEMMA AppliedStore ==
  ASSUME NEW store \in Stores, NEW o \in Owners, NEW result \in ResultsOf(run[o])
  PROVE  /\ Applied(store, o, result) \in AnyStores
         /\ \A j \in Jobs : Applied(store, o, result)[j].enabled => store[j].enabled
         /\ \A j \in Jobs \ run[o] : Applied(store, o, result)[j] = store[j]
<1>1. ASSUME NEW j \in Jobs
      PROVE  /\ Applied(store, o, result)[j] \in JobRecords
             /\ Applied(store, o, result)[j].enabled => store[j].enabled
             /\ j \notin run[o] => Applied(store, o, result)[j] = store[j]
  <2>1. store[j] \in JobRecords
    BY DEF Stores, GoodJobs
  <2>2. Applied(store, o, result)[j] = IF j \in run[o] THEN Outcome(j, store[j], result) ELSE store[j]
    BY DEF Applied
  <2>3. j \in run[o] /\ j \notin Recurring => result[j] \in Results
    BY DEF ResultsOf
  <2> QED BY <2>1, <2>2, <2>3, OutcomeJob
<1>2. Applied(store, o, result) = [j \in Jobs |-> Applied(store, o, result)[j]]
  BY DEF Applied
<1> QED
  BY <1>1, <1>2 DEF AnyStores

-----------------------------------------------------------------------------
(***************************************************************************)
(* What a step does to the store, from what it starts: the file, or the    *)
(* service's own copy.                                                     *)
(***************************************************************************)
TypeInv ==
  /\ disk \in Stores /\ mem \in [Services -> Stores]
  /\ stage \in [Services -> {"off", "clear", "plan", "catchup", "applied", "finish", "on"}]
  /\ deferred \in [Services -> SUBSET Jobs]
  /\ timer \in [Services -> BOOLEAN]
  /\ tick \in [Services -> {"idle", "collect", "run", "end"}]
  /\ run \in [Owners -> SUBSET Jobs] /\ asked \in [Services -> SUBSET Jobs]
  /\ current \in Services
  /\ disowned \in [Jobs -> BOOLEAN]

\* Service s has written its copy.
Saved(s) ==
  /\ disk' \in Stores /\ mem' \in [Services -> Stores]
  /\ mem'[s] = disk' /\ \A t \in Services \ {s} : mem'[t] = mem[t]

LEMMA SaveTypes ==
  ASSUME TypeInv, NEW s \in Services, NEW store \in Stores, Save(s, store)
  PROVE  Saved(s) /\ disk' = store
BY DEF TypeInv, Save, Saved

\* Some jobs of a store get a marker.
WithMarks(store, B) == [j \in Jobs |-> [store[j] EXCEPT !.running = @ \/ j \in B]]

LEMMA MarkedStore ==
  ASSUME NEW store \in Stores, NEW B \in SUBSET Jobs, NEW new, new = WithMarks(store, B)
  PROVE  /\ new \in Stores
         /\ \A j \in Jobs : /\ new[j].enabled = store[j].enabled /\ new[j].next = store[j].next
                            /\ Due(store[j]) => Due(new[j])
         /\ \A j \in B : new[j].running
         /\ \A j \in Jobs \ B : Same(store[j], new[j])
         /\ Settled(store) => Settled(new)
<1>1. ASSUME NEW j \in Jobs
      PROVE  /\ new[j] \in GoodJobs /\ new[j].enabled = store[j].enabled /\ new[j].next = store[j].next
             /\ new[j].last = store[j].last /\ (j \in B => new[j].running)
             /\ (j \notin B => new[j].running = store[j].running)
  <2>1. store[j] \in GoodJobs
    BY DEF Stores
  <2>2. new[j] = [store[j] EXCEPT !.running = @ \/ j \in B]
    BY DEF WithMarks
  <2> QED BY <2>1, <2>2 DEF GoodJobs, JobRecords
<1>2. new \in Stores
  BY <1>1 DEF Stores, WithMarks
<1>3. \A j \in Jobs \ B : Same(store[j], new[j])
  BY <1>1 DEF Same, Marks, Due
<1>4. \A j \in Jobs : Due(store[j]) => Due(new[j])
  BY <1>1 DEF Due
<1>5. ASSUME Settled(store), NEW j \in Jobs, new[j].next = "none"
      PROVE  NextRunAt(j, new[j]) = "none"
  <2>1. store[j] \in GoodJobs /\ new[j] \in GoodJobs
    BY <1>1 DEF Stores
  <2>2. NextRunAt(j, store[j]) = "none"
    BY <1>1, <1>5 DEF Settled
  <2> QED BY <1>1, <2>1, <2>2, NextRunAtValue
<1> QED
  BY <1>1, <1>2, <1>3, <1>4, <1>5 DEF Settled

LEMMA SameTransitive ==
  ASSUME NEW a, NEW b, NEW c
  PROVE  /\ Marks(a, b) /\ Marks(b, c) => Marks(a, c)
         /\ Same(a, b) /\ Same(b, c) => Same(a, c)
         /\ Same(a, a)
BY DEF Same, Marks

LEMMA ClearMarkersEffect ==
  ASSUME TypeInv, NEW s \in Services, ClearMarkers(s)
  PROVE  /\ Saved(s)
         /\ \A j \in Jobs : disk'[j].enabled = disk[j].enabled /\ (Due(disk[j]) => Due(disk'[j]))
         /\ Settled(disk) => Settled(disk')
<1> DEFINE new == [j \in Jobs |-> [disk[j] EXCEPT !.running = FALSE]]
<1>1. ASSUME NEW j \in Jobs
      PROVE  /\ disk[j] \in GoodJobs /\ new[j] \in GoodJobs
             /\ new[j].enabled = disk[j].enabled /\ new[j].next = disk[j].next /\ new[j].last = disk[j].last
  <2>1. disk[j] \in GoodJobs
    BY DEF TypeInv, Stores
  <2> QED BY <2>1 DEF GoodJobs, JobRecords
<1>2. new \in Stores
  BY <1>1 DEF Stores
<1>3. Save(s, new)
  BY DEF ClearMarkers
<1>4. Saved(s) /\ disk' = new
  <2> HIDE DEF new
  <2> QED BY <1>2, <1>3, SaveTypes
<1>5. Settled(disk) => Settled(new)
  <2> HIDE DEF new
  <2> QED BY <1>1, NextRunAtValue DEF Settled
<1> QED
  BY <1>1, <1>4, <1>5 DEF Due

LEMMA PlanCatchupEffect ==
  ASSUME TypeInv, NEW s \in Services, PlanCatchup(s)
  PROVE  \/ UNCHANGED <<storeVars, run, deferred>>
         \/ /\ Saved(s)
            /\ \E chosen \in SUBSET Jobs :
                 /\ run' = [run EXCEPT ![<<s, "start">>] = chosen]
                 /\ \A j \in chosen : mem[s][j].enabled /\ ~mem[s][j].running /\ disk'[j].enabled /\ disk'[j].running
                 /\ \A j \in Jobs \ chosen : Same(mem[s][j], disk'[j])
            /\ \A j \in Jobs : /\ disk'[j].enabled = mem[s][j].enabled
                               /\ Due(mem[s][j]) => Due(disk'[j])
            /\ Settled(mem[s]) => Settled(disk')
            /\ deferred' \in [Services -> SUBSET Jobs]
<1>1. PICK missed \in SUBSET {j \in Jobs : MayBeMissed(s, j)} :
        \/ UNCHANGED <<storeVars, deferred, run>>
        \/ \E chosen \in SUBSET missed :
             /\ Save(s, [j \in Jobs |-> [mem[s][j] EXCEPT !.running = @ \/ j \in chosen]])
             /\ run' = [run EXCEPT ![<<s, "start">>] = chosen]
             /\ deferred' = [deferred EXCEPT ![s] = missed \ chosen]
  BY DEF PlanCatchup
<1>2. ASSUME NEW chosen \in SUBSET missed,
             Save(s, [j \in Jobs |-> [mem[s][j] EXCEPT !.running = @ \/ j \in chosen]])
      PROVE  /\ Saved(s)
             /\ \A j \in chosen : mem[s][j].enabled /\ ~mem[s][j].running /\ disk'[j].enabled /\ disk'[j].running
             /\ \A j \in Jobs \ chosen : Same(mem[s][j], disk'[j])
             /\ \A j \in Jobs : disk'[j].enabled = mem[s][j].enabled /\ (Due(mem[s][j]) => Due(disk'[j]))
             /\ Settled(mem[s]) => Settled(disk')
  <2> DEFINE new == WithMarks(mem[s], chosen)
  <2>1. mem[s] \in Stores /\ chosen \in SUBSET Jobs
    BY DEF TypeInv
  <2>2. /\ new \in Stores
        /\ \A j \in Jobs : new[j].enabled = mem[s][j].enabled /\ (Due(mem[s][j]) => Due(new[j]))
        /\ \A j \in chosen : new[j].running
        /\ \A j \in Jobs \ chosen : Same(mem[s][j], new[j])
        /\ Settled(mem[s]) => Settled(new)
    BY <2>1, MarkedStore
  <2>3. Save(s, new)
    BY <1>2 DEF WithMarks
  <2> HIDE DEF new
  <2>4. Saved(s) /\ disk' = new
    BY <2>2, <2>3, SaveTypes
  <2>5. \A j \in chosen : mem[s][j].enabled /\ ~mem[s][j].running
    BY DEF MayBeMissed
  <2> QED BY <2>1, <2>2, <2>4, <2>5
<1>3. CASE UNCHANGED <<storeVars, deferred, run>>
  BY <1>3
<1>4. CASE \E chosen \in SUBSET missed :
             /\ Save(s, [j \in Jobs |-> [mem[s][j] EXCEPT !.running = @ \/ j \in chosen]])
             /\ run' = [run EXCEPT ![<<s, "start">>] = chosen]
             /\ deferred' = [deferred EXCEPT ![s] = missed \ chosen]
  <2>1. PICK chosen \in SUBSET missed :
             /\ Save(s, [j \in Jobs |-> [mem[s][j] EXCEPT !.running = @ \/ j \in chosen]])
             /\ run' = [run EXCEPT ![<<s, "start">>] = chosen]
             /\ deferred' = [deferred EXCEPT ![s] = missed \ chosen]
    BY <1>4
  <2>2. chosen \in SUBSET Jobs /\ missed \ chosen \in SUBSET Jobs
    OBVIOUS
  <2>3. deferred' \in [Services -> SUBSET Jobs]
    BY <2>1, <2>2 DEF TypeInv
  <2> QED BY <1>2, <2>1, <2>2, <2>3
<1> QED
  BY <1>1, <1>3, <1>4

LEMMA ApplyCatchupEffect ==
  ASSUME TypeInv, NEW s \in Services, ApplyCatchup(s)
  PROVE  /\ Saved(s) /\ Settled(disk')
         /\ \A j \in Jobs : disk'[j].enabled => mem[s][j].enabled
         /\ \A j \in Jobs \ run[<<s, "start">>] : Marks(mem[s][j], disk'[j])
         /\ \A j \in Jobs \ (run[<<s, "start">>] \union deferred[s]) : Same(mem[s][j], disk'[j])
<1> DEFINE o == <<s, "start">>
           Moved(store) == [j \in Jobs |-> IF j \in deferred[s] /\ store[j].enabled
                                            THEN [store[j] EXCEPT !.next = "later"] ELSE store[j]]
<1>1. o \in Owners /\ mem[s] \in Stores
  BY DEF Owners, TypeInv
<1>2. PICK result \in ResultsOf(run[o]) : Save(s, Maintained(Moved(Applied(mem[s], o, result))))
  BY DEF ApplyCatchup
<1> DEFINE applied == Applied(mem[s], o, result)
           new == Maintained(Moved(applied))
<1>3. /\ applied \in AnyStores
      /\ \A j \in Jobs : applied[j].enabled => mem[s][j].enabled
      /\ \A j \in Jobs \ run[o] : applied[j] = mem[s][j]
  <2> HIDE DEF o
  <2> QED BY <1>1, <1>2, AppliedStore
<1>4. Save(s, new)
  BY <1>2
<1> HIDE DEF o, applied
<1>5. ASSUME NEW j \in Jobs
      PROVE  /\ Moved(applied)[j] \in JobRecords
             /\ Marks(applied[j], Moved(applied)[j])
             /\ j \notin deferred[s] => Moved(applied)[j] = applied[j]
  <2>1. applied[j] \in JobRecords
    BY <1>3 DEF AnyStores
  <2> QED BY <2>1 DEF JobRecords, Marks
<1>6. Moved(applied) \in AnyStores
  BY <1>5 DEF AnyStores
<1> HIDE DEF Moved
<1>7. new \in Stores /\ Settled(new) /\ \A j \in Jobs : Same(Moved(applied)[j], new[j])
  BY <1>6, MaintainedStore
<1> HIDE DEF new
<1>8. Saved(s) /\ disk' = new
  BY <1>4, <1>7, SaveTypes
<1>9. \A j \in Jobs : Marks(applied[j], new[j]) /\ (j \notin deferred[s] => Same(applied[j], new[j]))
  BY <1>5, <1>7, SameTransitive DEF Same
<1>10. \A j \in Jobs : new[j].enabled = applied[j].enabled
  BY <1>9 DEF Marks
<1>11. \A j \in Jobs \ run[o] : Marks(mem[s][j], new[j]) /\ (j \notin deferred[s] => Same(mem[s][j], new[j]))
  BY <1>3, <1>9
<1> QED
  BY <1>3, <1>7, <1>8, <1>10, <1>11 DEF o

LEMMA FinishStartEffect ==
  ASSUME TypeInv, NEW s \in Services, FinishStart(s)
  PROVE  \/ UNCHANGED storeVars
         \/ Saved(s) /\ Settled(disk') /\ \A j \in Jobs : Marks(mem[s][j], disk'[j])
<1>1. mem[s] \in AnyStores
  BY StoresAreStores DEF TypeInv
<1>2. CASE Recomputed(mem[s]) = mem[s]
  BY <1>2 DEF FinishStart
<1>3. CASE Recomputed(mem[s]) # mem[s]
  <2>1. Save(s, Recomputed(mem[s]))
    BY <1>3 DEF FinishStart
  <2> QED BY <1>1, <2>1, RecomputedStore, SaveTypes
<1> QED
  BY <1>2, <1>3

LEMMA FinishStartTimer ==
  ASSUME TypeInv, NEW s \in Services, FinishStart(s)
  PROVE  timer'[s] = HasNext(mem'[s])
<1>1. mem'[s] = Recomputed(mem[s])
  BY DEF FinishStart, Save, storeVars, TypeInv
<1>2. timer' = [timer EXCEPT ![s] = HasNext(Recomputed(mem[s]))]
  BY DEF FinishStart, ArmTimer
<1> QED
  BY <1>1, <1>2 DEF TypeInv

\* Maintenance changes no time of a store in which none is missing.
LEMMA MaintainedSettled ==
  ASSUME NEW store \in Stores, Settled(store)
  PROVE  HasNext(Maintained(store)) = HasNext(store)
<1>1. ASSUME NEW j \in Jobs
      PROVE  /\ Maintained(store)[j].enabled = store[j].enabled
             /\ store[j].enabled => Maintained(store)[j].next = store[j].next
  <2> DEFINE job == Normalized(store[j])
  <2>1. store[j] \in GoodJobs
    BY DEF Stores
  <2>2. job.enabled = store[j].enabled /\ (store[j].enabled => job = store[j])
    BY <2>1 DEF Normalized, GoodJobs, JobRecords
  <2>3. Maintained(store)[j] = IF job.next # "none" THEN job ELSE [job EXCEPT !.next = NextRunAt(j, job)]
    BY DEF Maintained
  <2>4. job \in GoodJobs
    BY <2>1, NormalizedJob DEF GoodJobs
  <2>5. store[j].enabled /\ job.next = "none" => NextRunAt(j, job) = "none"
    BY <2>2 DEF Settled
  <2> HIDE DEF job
  <2> QED BY <2>2, <2>3, <2>4, <2>5 DEF GoodJobs, JobRecords
<1> QED
  BY <1>1 DEF HasNext

LEMMA CollectDueEffect ==
  ASSUME TypeInv, NEW s \in Services, CollectDue(s)
  PROVE  /\ Saved(s)
         /\ Settled(disk) => Settled(disk') /\ HasNext(disk') = HasNext(disk)
         /\ \A j \in Jobs : disk'[j].enabled = disk[j].enabled /\ (Due(disk[j]) => Due(disk'[j]))
         /\ \E due \in SUBSET Jobs :
              /\ run' = [run EXCEPT ![<<s, "tick">>] = due]
              /\ \A j \in due : disk[j].enabled /\ ~disk[j].running /\ disk'[j].enabled /\ disk'[j].running
              /\ \A j \in Jobs \ due : Same(disk[j], disk'[j])
<1> DEFINE due == {j \in Jobs : Runnable(disk[j])}
           marked == WithMarks(disk, due)
           new == IF due = {} THEN Maintained(disk) ELSE marked
<1>1. Save(s, new) /\ run' = [run EXCEPT ![<<s, "tick">>] = due]
  BY DEF CollectDue, WithMarks
<1>2. disk \in Stores /\ disk \in AnyStores /\ due \in SUBSET Jobs
  BY StoresAreStores DEF TypeInv
<1>3. \A j \in due : disk[j].enabled /\ ~disk[j].running
  BY DEF Runnable, Due
<1> HIDE DEF due
<1>4. /\ marked \in Stores
      /\ \A j \in Jobs : marked[j].enabled = disk[j].enabled /\ (Due(disk[j]) => Due(marked[j]))
      /\ \A j \in Jobs : marked[j].next = disk[j].next
      /\ \A j \in due : marked[j].running
      /\ \A j \in Jobs \ due : Same(disk[j], marked[j])
      /\ Settled(disk) => Settled(marked)
  BY <1>2, MarkedStore
<1>5. /\ Maintained(disk) \in Stores /\ Settled(Maintained(disk))
      /\ \A j \in Jobs : Same(disk[j], Maintained(disk)[j])
      /\ Settled(disk) => HasNext(Maintained(disk)) = HasNext(disk)
  BY <1>2, MaintainedStore, MaintainedSettled
<1> HIDE DEF marked
<1>6. /\ new \in Stores
      /\ \A j \in Jobs : new[j].enabled = disk[j].enabled /\ (Due(disk[j]) => Due(new[j]))
      /\ \A j \in due : new[j].running
      /\ \A j \in Jobs \ due : Same(disk[j], new[j])
      /\ Settled(disk) => Settled(new) /\ HasNext(new) = HasNext(disk)
  <2>1. CASE due = {}
    BY <1>5, <2>1 DEF Same, Marks, Due
  <2>2. CASE due # {}
    <3>1. HasNext(marked) = HasNext(disk)
      BY <1>4 DEF HasNext
    <3> QED BY <1>4, <2>2, <3>1
  <2> QED BY <2>1, <2>2
<1> HIDE DEF new
<1>7. Saved(s) /\ disk' = new
  BY <1>1, <1>6, SaveTypes
<1> QED
  BY <1>1, <1>2, <1>3, <1>6, <1>7

LEMMA ApplyOutcomesEffect ==
  ASSUME TypeInv, NEW s \in Services, ApplyOutcomes(s)
  PROVE  /\ Saved(s) /\ Settled(disk')
         /\ \A j \in Jobs : disk'[j].enabled => disk[j].enabled
         /\ \A j \in Jobs \ run[<<s, "tick">>] : Same(disk[j], disk'[j])
<1> DEFINE o == <<s, "tick">>
<1>1. o \in Owners /\ disk \in Stores
  BY DEF Owners, TypeInv
<1>2. PICK result \in ResultsOf(run[o]) : Save(s, Maintained(Applied(disk, o, result)))
  BY DEF ApplyOutcomes
<1> DEFINE applied == Applied(disk, o, result)
           new == Maintained(applied)
<1> HIDE DEF o
<1>3. /\ applied \in AnyStores
      /\ \A j \in Jobs : applied[j].enabled => disk[j].enabled
      /\ \A j \in Jobs \ run[o] : applied[j] = disk[j]
  BY <1>1, <1>2, AppliedStore
<1> HIDE DEF applied
<1>4. new \in Stores /\ Settled(new) /\ \A j \in Jobs : Same(applied[j], new[j])
  BY <1>3, MaintainedStore
<1>5. Save(s, new)
  BY <1>2 DEF applied
<1> HIDE DEF new
<1>6. Saved(s) /\ disk' = new
  BY <1>4, <1>5, SaveTypes
<1>7. \A j \in Jobs : new[j].enabled = applied[j].enabled
  BY <1>4 DEF Same, Marks
<1>8. \A j \in Jobs \ run[o] : Same(disk[j], new[j])
  BY <1>3, <1>4
<1> QED
  BY <1>3, <1>4, <1>6, <1>7, <1>8 DEF o

LEMMA ReadEffect ==
  ASSUME TypeInv, NEW s \in Services, Read(s)
  PROVE  /\ Saved(s) /\ disk' = Maintained(mem[s]) /\ Settled(disk')
         /\ \A j \in Jobs : Same(mem[s][j], disk'[j])
<1>1. mem[s] \in AnyStores
  BY StoresAreStores DEF TypeInv
<1> QED
  BY <1>1, MaintainedStore, SaveTypes DEF Read

\* An edit of one job leaves the others as they are.
LEMMA OneJobEdited ==
  ASSUME TypeInv, NEW s \in Services, NEW j \in Jobs, NEW job \in GoodJobs,
         Edit(s, [mem[s] EXCEPT ![j] = job])
  PROVE  /\ Saved(s) /\ timer' = [timer EXCEPT ![s] = HasNext(disk')]
         /\ disk'[j] = job /\ \A i \in Jobs \ {j} : disk'[i] = mem[s][i]
<1> DEFINE new == [mem[s] EXCEPT ![j] = job]
<1>1. mem[s] \in Stores
  BY DEF TypeInv
<1>2. new \in Stores /\ new[j] = job /\ \A i \in Jobs \ {j} : new[i] = mem[s][i]
  BY <1>1 DEF Stores
<1>3. Save(s, new) /\ ArmTimer(s, new)
  BY DEF Edit
<1> HIDE DEF new
<1>4. Saved(s) /\ disk' = new
  BY <1>2, <1>3, SaveTypes
<1> QED
  BY <1>2, <1>3, <1>4 DEF ArmTimer

LEMMA SameJobs ==
  ASSUME NEW a, NEW b, NEW X, \A i \in X : b[i] = a[i]
  PROVE  \A i \in X : Same(a[i], b[i])
BY DEF Same, Marks

LEMMA AddEffect ==
  ASSUME TypeInv, NEW s \in Services, NEW j \in Jobs, Add(s, j)
  PROVE  /\ Saved(s) /\ Settled(disk') /\ timer' = [timer EXCEPT ![s] = HasNext(disk')]
         /\ \A i \in Jobs \ {j} : Marks(mem[s][i], disk'[i])
<1> DEFINE edited == [mem[s] EXCEPT ![j] = NewJob(j)]
           new == Recomputed(edited)
<1>1. mem[s] \in Stores
  BY DEF TypeInv
<1>2. edited \in Stores /\ \A i \in Jobs \ {j} : edited[i] = mem[s][i]
  BY <1>1, NewJobGood DEF Stores
<1>3. Save(s, new) /\ ArmTimer(s, new)
  BY DEF Add, Edit
<1> HIDE DEF edited
<1>4. new \in Stores /\ Settled(new) /\ \A i \in Jobs : Marks(edited[i], new[i])
  BY <1>2, StoresAreStores, RecomputedStore
<1> HIDE DEF new
<1>5. Saved(s) /\ disk' = new
  BY <1>3, <1>4, SaveTypes
<1> QED
  BY <1>2, <1>3, <1>4, <1>5 DEF ArmTimer

\* What the other edits make of their job.
LEMMA EditEffect ==
  ASSUME TypeInv, NEW s \in Services, NEW j \in Jobs,
         Disable(s, j) \/ Enable(s, j) \/ Reschedule(s, j) \/ Remove(s, j)
  PROVE  /\ Saved(s) /\ timer' = [timer EXCEPT ![s] = HasNext(disk')]
         /\ \A i \in Jobs \ {j} : disk'[i] = mem[s][i]
         /\ disk'[j].next = "none" => NextRunAt(j, disk'[j]) = "none" \/ disk'[j] = mem[s][j]
         /\ disk'[j].enabled => mem[s][j].enabled \/ Enable(s, j)
         /\ Marks(mem[s][j], disk'[j]) \/ ~mem[s][j].enabled \/ Disable(s, j) \/ Remove(s, j)
<1> DEFINE job == mem[s][j]
<1>1. job \in GoodJobs
  BY DEF TypeInv, Stores
<1>2. CASE Disable(s, j)
  <2> DEFINE new == [job EXCEPT !.enabled = FALSE, !.next = "none", !.running = FALSE]
  <2>1. new \in GoodJobs /\ ~new.enabled
    BY <1>1 DEF GoodJobs, JobRecords
  <2>2. Edit(s, [mem[s] EXCEPT ![j] = new])
    BY <1>2 DEF Disable, TypeInv, Stores
  <2> HIDE DEF new
  <2> QED BY <1>2, <2>1, <2>2, OneJobEdited, NextRunAtValue
<1>3. CASE Enable(s, j)
  <2> DEFINE on == [job EXCEPT !.enabled = TRUE]
             new == [on EXCEPT !.next = NextRunAt(j, on)]
  <2>1. on \in GoodJobs /\ on.enabled /\ on.running = job.running
    BY <1>1, <1>3 DEF Enable, GoodJobs, JobRecords
  <2>2. Edit(s, [mem[s] EXCEPT ![j] = new])
    BY <1>3 DEF Enable
  <2> HIDE DEF on
  <2>3. /\ new \in GoodJobs /\ Marks(on, new)
        /\ new.next = "none" => NextRunAt(j, new) = "none"
    BY <2>1, NextComputed
  <2> HIDE DEF new
  <2>4. Marks(job, new) \/ ~job.enabled
    BY <2>1, <2>3 DEF Marks
  <2> QED BY <1>3, <2>2, <2>3, <2>4, OneJobEdited
<1>4. CASE Reschedule(s, j)
  <2> DEFINE moved == IF j \in Recurring THEN job
                      ELSE [job EXCEPT !.at = "later", !.last = IF @ = "ok" THEN "moved" ELSE @]
             new == IF moved.enabled THEN [moved EXCEPT !.next = NextRunAt(j, moved)]
                    ELSE [moved EXCEPT !.next = "none", !.running = FALSE]
  <2>1. moved \in GoodJobs /\ moved.enabled = job.enabled /\ moved.running = job.running
    BY <1>1 DEF GoodJobs, JobRecords
  <2>2. Edit(s, [mem[s] EXCEPT ![j] = new])
    BY <1>4 DEF Reschedule
  <2> HIDE DEF moved
  <2>3. CASE moved.enabled
    <3>1. new = [moved EXCEPT !.next = NextRunAt(j, moved)]
      BY <2>3
    <3> HIDE DEF new
    <3>2. /\ new \in GoodJobs /\ Marks(moved, new) /\ new.enabled = moved.enabled
          /\ new.next = "none" => NextRunAt(j, new) = "none"
      BY <2>1, <3>1, NextComputed
    <3>3. Marks(job, new)
      BY <2>1, <3>2 DEF Marks
    <3> QED BY <2>1, <2>2, <3>2, <3>3, OneJobEdited
  <2>4. CASE ~moved.enabled
    <3>1. new \in GoodJobs /\ ~new.enabled
      BY <2>1, <2>4 DEF GoodJobs, JobRecords
    <3> HIDE DEF new
    <3> QED BY <2>1, <2>2, <2>4, <3>1, OneJobEdited, NextRunAtValue
  <2> QED BY <2>3, <2>4
<1>5. CASE Remove(s, j)
  <2>1. NoJob \in GoodJobs /\ ~NoJob.enabled
    BY NewJobGood DEF NoJob
  <2>2. Edit(s, [mem[s] EXCEPT ![j] = NoJob])
    BY <1>5 DEF Remove
  <2> QED BY <1>5, <2>1, <2>2, OneJobEdited, NextRunAtValue
<1> QED
  BY <1>2, <1>3, <1>4, <1>5

\* The edits leave a store without a missing time.
LEMMA EditSettles ==
  ASSUME TypeInv, NEW s \in Services, NEW j \in Jobs, Settled(mem[s]),
         Disable(s, j) \/ Enable(s, j) \/ Reschedule(s, j) \/ Remove(s, j)
  PROVE  Settled(disk')
BY EditEffect DEF Settled

LEMMA PreflightManualEffect ==
  ASSUME TypeInv, NEW s \in Services, NEW j \in Jobs, PreflightManual(s, j)
  PROVE  /\ mem' \in [Services -> Stores]
         /\ mem'[s] = Maintained(mem[s]) /\ \A t \in Services \ {s} : mem'[t] = mem[t]
         /\ \A i \in Jobs : Same(mem[s][i], mem'[s][i])
         /\ Settled(mem'[s])
<1>1. mem[s] \in AnyStores
  BY StoresAreStores DEF TypeInv
<1>2. mem' = [mem EXCEPT ![s] = Maintained(mem[s])]
  BY DEF PreflightManual
<1> QED
  BY <1>1, <1>2, MaintainedStore DEF TypeInv

LEMMA ReserveManualStore ==
  ASSUME TypeInv, NEW s \in Services, NEW j \in Jobs, ReserveManual(s, j),
         mem[s][j].here, ~mem[s][j].running
  PROVE  /\ Saved(s)
         /\ \A i \in Jobs \ {j} : disk'[i] = mem[s][i]
         /\ disk'[j].running /\ disk'[j].enabled = mem[s][j].enabled /\ disk'[j].next = mem[s][j].next
         /\ NextRunAt(j, mem[s][j]) = "none" => NextRunAt(j, disk'[j]) = "none"
<1> DEFINE new == [mem[s] EXCEPT ![j].running = TRUE]
<1>1. mem[s] \in Stores /\ mem[s][j] \in GoodJobs
  BY DEF TypeInv, Stores
<1>2. /\ new \in Stores /\ new[j] \in GoodJobs /\ new[j].running /\ new[j].enabled = mem[s][j].enabled
      /\ new[j].next = mem[s][j].next /\ new[j].last = mem[s][j].last
      /\ \A i \in Jobs \ {j} : new[i] = mem[s][i]
  BY <1>1 DEF Stores, GoodJobs, JobRecords
<1>3. Save(s, new)
  BY DEF ReserveManual
<1> HIDE DEF new
<1>4. Saved(s) /\ disk' = new
  BY <1>2, <1>3, SaveTypes
<1>5. NextRunAt(j, mem[s][j]) = "none" => NextRunAt(j, new[j]) = "none"
  BY <1>1, <1>2, NextRunAtValue
<1> QED BY <1>2, <1>4, <1>5

LEMMA ReserveManualEffect ==
  ASSUME TypeInv, NEW s \in Services, NEW j \in Jobs, ReserveManual(s, j)
  PROVE  \/ UNCHANGED <<storeVars, run, disowned>>
         \/ /\ Saved(s)
            /\ \A i \in Jobs \ {j} : disk'[i] = mem[s][i]
            /\ ~mem[s][j].running /\ disk'[j].running
            /\ run' = [run EXCEPT ![<<s, "manual">>] = {j}]
            /\ disowned' = [disowned EXCEPT ![j] = @ \/ ~disk'[j].enabled]
<1>1. CASE ~(mem[s][j].here /\ ~mem[s][j].running)
  BY <1>1 DEF ReserveManual
<1>2. CASE mem[s][j].here /\ ~mem[s][j].running
  BY <1>2, ReserveManualStore DEF ReserveManual
<1> QED
  BY <1>1, <1>2

LEMMA FinishManualEffect ==
  ASSUME TypeInv, NEW s \in Services, NEW j \in Jobs, FinishManual(s, j)
  PROVE  \/ UNCHANGED <<storeVars, timer>>
         \/ /\ Saved(s) /\ Settled(disk') /\ timer' = [timer EXCEPT ![s] = HasNext(disk')]
            /\ \A i \in Jobs \ {j} : Same(disk[i], disk'[i])
            /\ disk'[j].enabled => disk[j].enabled \/ mem[s][j].enabled
<1>1. CASE ~mem[s][j].here
  BY <1>1 DEF FinishManual
<1>2. CASE mem[s][j].here
  <2>1. PICK result \in ResultsOf({j}) :
          LET store == Maintained(Merged(j, Outcome(j, mem[s][j], result))) IN
          Save(s, store) /\ ArmTimer(s, store)
    BY <1>2 DEF FinishManual
  <2> DEFINE job == Outcome(j, mem[s][j], result)
             merged == Merged(j, job)
             new == Maintained(merged)
  <2>2. mem[s][j] \in JobRecords /\ (j \notin Recurring => result[j] \in Results)
    BY <2>1 DEF ResultsOf, TypeInv, Stores, GoodJobs
  <2>3. job \in JobRecords /\ (job.enabled => mem[s][j].enabled)
    BY <2>2, OutcomeJob
  <2>4. Save(s, new) /\ ArmTimer(s, new)
    BY <2>1
  <2> HIDE DEF job
  <2>5. disk \in AnyStores
    BY StoresAreStores DEF TypeInv
  <2>6. /\ merged \in AnyStores
        /\ \A i \in Jobs \ {j} : merged[i] = disk[i]
        /\ merged[j].enabled => disk[j].enabled \/ mem[s][j].enabled
    <3>1. CASE ~job.here
      <4>1. merged = [disk EXCEPT ![j] = NoJob]
        BY <3>1 DEF Merged
      <4>2. NoJob \in JobRecords /\ ~NoJob.enabled
        BY NewJobGood DEF GoodJobs, NoJob
      <4> HIDE DEF merged
      <4> QED BY <2>5, <4>1, <4>2 DEF AnyStores
    <3>2. CASE job.here /\ disk[j].here
      <4> DEFINE placed == [job EXCEPT !.at = disk[j].at]
      <4>1. merged = [disk EXCEPT ![j] = placed]
        BY <3>2 DEF Merged
      <4>2. placed \in JobRecords /\ placed.enabled = job.enabled
        BY <2>3, <2>5 DEF AnyStores, JobRecords
      <4> HIDE DEF merged, placed
      <4> QED BY <2>3, <2>5, <4>1, <4>2 DEF AnyStores
    <3>3. CASE job.here /\ ~disk[j].here
      BY <2>5, <3>3 DEF Merged
    <3> QED BY <3>1, <3>2, <3>3
  <2> HIDE DEF merged
  <2>7. new \in Stores /\ Settled(new) /\ \A i \in Jobs : Same(merged[i], new[i])
    BY <2>6, MaintainedStore
  <2> HIDE DEF new
  <2>8. Saved(s) /\ disk' = new
    BY <2>4, <2>7, SaveTypes
  <2>9. new[j].enabled = merged[j].enabled
    BY <2>7 DEF Same, Marks
  <2>10. \A i \in Jobs \ {j} : Same(disk[i], new[i])
    BY <2>6, <2>7
  <2> QED BY <2>4, <2>6, <2>7, <2>8, <2>9, <2>10 DEF ArmTimer
<1> QED
  BY <1>1, <1>2

LEMMA SameDue ==
  ASSUME NEW a, NEW b, Same(a, b), Due(a)
  PROVE  Due(b)
BY DEF Same, Marks, Due

\* Time turns a time to come into a due slot, and does nothing else.
LEMMA ElapsedJob ==
  ASSUME NEW job \in GoodJobs
  PROVE  /\ Elapsed(job) \in GoodJobs /\ Marks(job, Elapsed(job))
         /\ Elapsed(job).next = IF job.next = "later" /\ job.here THEN "due" ELSE job.next
         /\ Elapsed(job).last = job.last
BY DEF Elapsed, GoodJobs, JobRecords, Marks

LEMMA ElapsedSame ==
  ASSUME NEW a \in GoodJobs, NEW b \in GoodJobs, Same(a, b)
  PROVE  Same(Elapsed(a), Elapsed(b))
<1>1. a.enabled => a.here /\ b.here
  BY DEF Same, Marks, GoodJobs, JobRecords
<1> QED
  BY <1>1, ElapsedJob DEF Same, Marks, GoodJobs

LEMMA ElapsedStore ==
  ASSUME NEW store \in Stores, NEW j \in Jobs, NEW new, new = [store EXCEPT ![j] = Elapsed(@)]
  PROVE  /\ new \in Stores
         /\ \A i \in Jobs : /\ Marks(store[i], new[i]) /\ (Due(store[i]) => Due(new[i]))
                            /\ new[i].next = "none" <=> store[i].next = "none"
                            /\ new[i].last = store[i].last
<1>1. store[j] \in GoodJobs
  BY DEF Stores
<1>2. /\ Elapsed(store[j]) \in GoodJobs /\ Marks(store[j], Elapsed(store[j]))
      /\ Elapsed(store[j]).next = "none" <=> store[j].next = "none"
      /\ Due(store[j]) => Due(Elapsed(store[j]))
      /\ Elapsed(store[j]).last = store[j].last
  BY <1>1, ElapsedJob DEF Due, Marks
<1>3. new \in Stores /\ new[j] = Elapsed(store[j]) /\ \A i \in Jobs \ {j} : new[i] = store[i]
  BY <1>2 DEF Stores
<1>4. ASSUME NEW i \in Jobs
      PROVE  /\ Marks(store[i], new[i]) /\ (Due(store[i]) => Due(new[i]))
             /\ new[i].next = "none" <=> store[i].next = "none"
             /\ new[i].last = store[i].last
  <2>1. CASE i = j
    BY <1>2, <1>3, <2>1
  <2>2. CASE i # j
    BY <1>3, <2>2 DEF Marks
  <2> QED BY <2>1, <2>2
<1> QED
  BY <1>3, <1>4

LEMMA ElapsedKeeps ==
  ASSUME NEW store \in Stores, NEW j \in Jobs, NEW new, new = [store EXCEPT ![j] = Elapsed(@)]
  PROVE  HasNext(new) = HasNext(store) /\ (Settled(store) => Settled(new))
<1>1. new \in Stores
  BY ElapsedStore
<1>2. ASSUME Settled(store), NEW i \in Jobs, new[i].next = "none"
      PROVE  NextRunAt(i, new[i]) = "none"
  <2>1. store[i] \in GoodJobs /\ new[i] \in GoodJobs
    BY <1>1 DEF Stores
  <2>2. /\ new[i].last = store[i].last /\ new[i].enabled = store[i].enabled
        /\ NextRunAt(i, store[i]) = "none"
    BY <1>2, ElapsedStore DEF Settled, Marks
  <2> QED BY <2>1, <2>2, NextRunAtValue
<1> QED
  BY <1>2, ElapsedStore DEF HasNext, Settled, Marks

LEMMA TimePassesEffect ==
  ASSUME TypeInv, NEW j \in Jobs, TimePasses(j)
  PROVE  /\ disk' = [disk EXCEPT ![j] = Elapsed(@)] /\ disk' \in Stores
         /\ mem' \in [Services -> Stores]
         /\ \A s \in Services : mem'[s] = [mem[s] EXCEPT ![j] = Elapsed(@)]
<1>1. \A s \in Services : mem[s] \in Stores /\ [mem[s] EXCEPT ![j] = Elapsed(@)] \in Stores
  BY ElapsedStore DEF TypeInv
<1>2. disk \in Stores
  BY DEF TypeInv
<1>3. /\ disk' = [disk EXCEPT ![j] = Elapsed(@)]
      /\ mem' = [s \in Services |-> [mem[s] EXCEPT ![j] = Elapsed(@)]]
  BY DEF TimePasses
<1>4. disk' \in Stores
  BY <1>2, <1>3, ElapsedStore
<1> QED
  BY <1>1, <1>3, <1>4

LEMMA ReleaseTypes ==
  ASSUME TypeInv, NEW o \in Owners, Release(o)
  PROVE  run' \in [Owners -> SUBSET Jobs] /\ disowned' \in [Jobs -> BOOLEAN]
<1>1. run' = [run EXCEPT ![o] = {}] /\ run \in [Owners -> SUBSET Jobs]
  BY DEF Release, TypeInv
<1>2. disowned' = [j \in Jobs |-> disowned[j] /\ \E p \in Owners \ {o} : j \in run[p]]
  BY DEF Release
<1>3. \A j \in Jobs : (disowned[j] /\ \E p \in Owners \ {o} : j \in run[p]) \in BOOLEAN
  OBVIOUS
<1> QED
  BY <1>1, <1>2, <1>3

-----------------------------------------------------------------------------
(***************************************************************************)
(* Types, with and without reloads.                                        *)
(***************************************************************************)
LEMMA TypeInit == Init => TypeInv
<1> SUFFICES ASSUME Init PROVE TypeInv
  OBVIOUS
<1>1. NoJob \in GoodJobs /\ \A j \in Jobs : NewJob(j) \in GoodJobs
  BY NewJobGood
<1>2. disk \in Stores
  BY <1>1 DEF Init, Stores
<1>3. [j \in Jobs |-> NoJob] \in Stores
  BY <1>1 DEF Stores
<1>4. mem \in [Services -> Stores]
  BY <1>3 DEF Init
<1> QED
  BY <1>2, <1>4 DEF Init, TypeInv

LEMMA StartTypes ==
  ASSUME TypeInv, NEW s \in Services, Start(s) \/ Starting(s)
  PROVE  TypeInv'
<1>1. CASE Start(s)
  BY <1>1 DEF Start, TypeInv, storeVars, timerVars
<1>2. CASE ClearMarkers(s)
  <2>1. /\ stage' = [stage EXCEPT ![s] = "plan"]
        /\ disowned' \in [Jobs -> BOOLEAN]
        /\ UNCHANGED <<deferred, timer, tick, run, asked, current>>
    <3>1. disowned' = [j \in Jobs |-> disowned[j] \/ (j \in {i \in Jobs : disk[i].running} /\ \E o \in Owners : j \in run[o])]
      BY <1>2 DEF ClearMarkers
    <3> QED BY <1>2, <3>1 DEF ClearMarkers, TypeInv, timerVars
  <2> QED BY <1>2, <2>1, ClearMarkersEffect DEF TypeInv, Saved
<1>3. CASE PlanCatchup(s)
  <2>1. /\ stage' = [stage EXCEPT ![s] = "finish"] \/ stage' = [stage EXCEPT ![s] = "catchup"]
        /\ UNCHANGED <<timer, tick, asked, current, disowned>>
    BY <1>3 DEF PlanCatchup, timerVars
  <2>2. <<s, "start">> \in Owners
    BY DEF Owners
  <2>3. disk' \in Stores /\ mem' \in [Services -> Stores] /\ run' \in [Owners -> SUBSET Jobs] /\ deferred' \in [Services -> SUBSET Jobs]
    BY <1>3, <2>2, PlanCatchupEffect DEF TypeInv, Saved, storeVars
  <2> QED BY <2>1, <2>3 DEF TypeInv
<1>4. CASE ApplyCatchup(s)
  <2>1. <<s, "start">> \in Owners
    BY DEF Owners
  <2>2. run' \in [Owners -> SUBSET Jobs] /\ disowned' \in [Jobs -> BOOLEAN]
    BY <1>4, <2>1, ReleaseTypes DEF ApplyCatchup
  <2>3. disk' \in Stores /\ mem' \in [Services -> Stores]
    BY <1>4, ApplyCatchupEffect DEF Saved
  <2> QED BY <1>4, <2>2, <2>3 DEF ApplyCatchup, TypeInv, timerVars
<1>5. CASE FinishStart(s)
  <2>1. disk' \in Stores /\ mem' \in [Services -> Stores]
    BY <1>5, FinishStartEffect DEF Saved, storeVars, TypeInv
  <2>2. timer' \in [Services -> BOOLEAN]
    BY <1>5 DEF FinishStart, ArmTimer, HasNext, TypeInv
  <2> QED BY <1>5, <2>1, <2>2 DEF FinishStart, TypeInv
<1> QED
  BY <1>1, <1>2, <1>3, <1>4, <1>5 DEF Starting

LEMMA TickTypes ==
  ASSUME TypeInv, NEW s \in Services, TimerFires(s) \/ Ticking(s)
  PROVE  TypeInv'
<1>1. <<s, "tick">> \in Owners
  BY DEF Owners
<1>2. CASE TimerFires(s)
  BY <1>2 DEF TimerFires, ArmRecheckTimer, TypeInv, storeVars, startVars
<1>3. CASE CollectDue(s)
  <2>1. disk' \in Stores /\ mem' \in [Services -> Stores] /\ run' \in [Owners -> SUBSET Jobs]
    BY <1>1, <1>3, CollectDueEffect DEF Saved, TypeInv
  <2>2. tick' \in [Services -> {"idle", "collect", "run", "end"}]
    BY <1>3 DEF CollectDue, TypeInv
  <2> QED BY <1>3, <2>1, <2>2 DEF CollectDue, TypeInv, startVars
<1>4. CASE ApplyOutcomes(s)
  <2>1. run' \in [Owners -> SUBSET Jobs] /\ disowned' \in [Jobs -> BOOLEAN]
    BY <1>1, <1>4, ReleaseTypes DEF ApplyOutcomes
  <2>2. disk' \in Stores /\ mem' \in [Services -> Stores]
    BY <1>4, ApplyOutcomesEffect DEF Saved
  <2> QED BY <1>4, <2>1, <2>2 DEF ApplyOutcomes, TypeInv, startVars
<1>5. CASE EndTick(s)
  <2>1. timer' \in [Services -> BOOLEAN]
    BY <1>5 DEF EndTick, ArmTimer, HasNext, TypeInv
  <2> QED BY <1>5, <2>1 DEF EndTick, TypeInv, storeVars, startVars
<1> QED
  BY <1>2, <1>3, <1>4, <1>5 DEF Ticking

LEMMA ReadTypes ==
  ASSUME TypeInv, NEW s \in Services, Read(s)
  PROVE  TypeInv'
BY ReadEffect DEF Read, Saved, TypeInv, startVars, timerVars

LEMMA UserTypes ==
  ASSUME TypeInv, NEW s \in Services, NEW j \in Jobs,
         UserEdits(s, j) \/ PreflightManual(s, j) \/ ReserveManual(s, j) \/ FinishManual(s, j)
  PROVE  TypeInv'
<1>1. <<s, "manual">> \in Owners
  BY DEF Owners
<1>3. CASE UserEdits(s, j)
  <2>1. disk' \in Stores /\ mem' \in [Services -> Stores]
    BY <1>3, AddEffect, EditEffect DEF UserEdits, Saved
  <2>2. timer' \in [Services -> BOOLEAN]
    BY <1>3, AddEffect, EditEffect DEF UserEdits, HasNext, TypeInv
  <2>3. disowned' \in [Jobs -> BOOLEAN]
    BY <1>3 DEF UserEdits, Add, Disable, Enable, Reschedule, Remove, TypeInv
  <2>4. UNCHANGED <<stage, deferred, tick, run, asked, current>>
    BY <1>3 DEF UserEdits, Add, Disable, Enable, Reschedule, Remove, Edit, startVars
  <2> QED BY <2>1, <2>2, <2>3, <2>4 DEF TypeInv
<1>4. CASE PreflightManual(s, j)
  BY <1>4, PreflightManualEffect DEF PreflightManual, TypeInv, startVars, timerVars
<1>5. CASE ReserveManual(s, j)
  <2>1. disk' \in Stores /\ mem' \in [Services -> Stores]
    BY <1>5, ReserveManualEffect DEF Saved, TypeInv, storeVars
  <2>2. run' \in [Owners -> SUBSET Jobs]
    BY <1>1, <1>5, ReserveManualEffect DEF TypeInv
  <2>3. disowned' \in [Jobs -> BOOLEAN]
    BY <1>5 DEF ReserveManual, TypeInv
  <2> QED BY <1>5, <2>1, <2>2, <2>3 DEF ReserveManual, TypeInv, startVars, timerVars
<1>6. CASE FinishManual(s, j)
  <2>1. run' \in [Owners -> SUBSET Jobs] /\ disowned' \in [Jobs -> BOOLEAN]
    BY <1>1, <1>6, ReleaseTypes DEF FinishManual
  <2>2. disk' \in Stores /\ mem' \in [Services -> Stores] /\ timer' \in [Services -> BOOLEAN]
    BY <1>6, FinishManualEffect DEF Saved, TypeInv, HasNext, storeVars
  <2> QED BY <1>6, <2>1, <2>2 DEF FinishManual, TypeInv, startVars
<1> QED
  BY <1>3, <1>4, <1>5, <1>6

LEMMA WorldTypes ==
  ASSUME TypeInv,
         Crash \/ (\E j \in Jobs : TimePasses(j)) \/ (\E t \in Services : Reload(t)) \/ UNCHANGED vars
  PROVE  TypeInv'
<1>1. CASE Crash
  <2>1. [j \in Jobs |-> NoJob] \in Stores
    BY NewJobGood DEF Stores
  <2>2. mem' \in [Services -> Stores]
    BY <1>1, <2>1 DEF Crash
  <2> QED BY <1>1, <2>2 DEF Crash, TypeInv
<1>2. CASE \E j \in Jobs : TimePasses(j)
  BY <1>2, TimePassesEffect DEF TimePasses, TypeInv, startVars, timerVars
<1>3. CASE \E t \in Services : Reload(t)
  BY <1>3 DEF Reload, TypeInv, storeVars
<1>4. CASE UNCHANGED vars
  BY <1>4 DEF vars, storeVars, startVars, timerVars, TypeInv
<1> QED
  BY <1>1, <1>2, <1>3, <1>4

LEMMA TypeNext == TypeInv /\ [Next \/ \E t \in Services : Reload(t)]_vars => TypeInv'
<1> SUFFICES ASSUME TypeInv, [Next \/ \E t \in Services : Reload(t)]_vars PROVE TypeInv'
  OBVIOUS
<1>1. CASE \E s \in Services : Start(s) \/ Starting(s)
  BY <1>1, StartTypes
<1>2. CASE \E s \in Services : TimerFires(s) \/ Ticking(s)
  BY <1>2, TickTypes
<1>3. CASE \E s \in Services, j \in Jobs :
             UserEdits(s, j) \/ PreflightManual(s, j) \/ ReserveManual(s, j) \/ FinishManual(s, j)
  BY <1>3, UserTypes
<1>4. CASE \E s \in Services : Read(s)
  BY <1>4, ReadTypes
<1>5. CASE Crash \/ (\E j \in Jobs : TimePasses(j)) \/ (\E t \in Services : Reload(t)) \/ UNCHANGED vars
  BY <1>5, WorldTypes
<1> QED
  BY <1>1, <1>2, <1>3, <1>4, <1>5 DEF Next

LEMMA TypesHold == TypeInv => CronTypeOK
<1> SUFFICES ASSUME TypeInv PROVE CronTypeOK
  OBVIOUS
<1>1. \A store \in {disk} \cup {mem[s] : s \in Services} : \A j \in Jobs : store[j] \in GoodJobs
  BY DEF TypeInv, Stores
<1> QED
  BY <1>1 DEF TypeInv, CronTypeOK, GoodJobs, JobRecords

\* Every variable has its type, also with a reload's second service on the
\* store: a job that is not enabled has no next time in any copy.
THEOREM TypeCorrect == (Spec => []CronTypeOK) /\ (ReloadSpec => []CronTypeOK)
<1>1. TypeInv /\ [Next]_vars => TypeInv'
  BY TypeNext
<1>2. TypeInv /\ [Next \/ \E t \in Services : Reload(t)]_vars => TypeInv'
  BY TypeNext
<1>3. Spec => []CronTypeOK
  BY <1>1, TypeInit, TypesHold, PTL DEF Spec
<1>4. ReloadSpec => []CronTypeOK
  BY <1>2, TypeInit, TypesHold, PTL DEF ReloadSpec
<1> QED
  BY <1>3, <1>4

-----------------------------------------------------------------------------
(***************************************************************************)
(* One service on the store: only the service that serves acts, its copy   *)
(* agrees with the file, and a run has its marker in both.                 *)
(***************************************************************************)
Calm ==
  /\ \A s \in Services \ {current} : stage[s] = "off"
  /\ \A s \in Services : ~Serving(s) =>
       ~timer[s] /\ tick[s] = "idle" /\ asked[s] = {} /\ run[<<s, "manual">>] = {}
  /\ \A s \in Services : /\ stage[s] # "catchup" => run[<<s, "start">>] = {}
                         /\ tick[s] # "run" => run[<<s, "tick">>] = {}
                         /\ asked[s] # {} => run[<<s, "manual">>] = {}

Copies == \A s \in Services : Serving(s) => \A j \in Jobs : Same(disk[j], mem[s][j])

RunsOK ==
  \A j \in Jobs : ~disowned[j] =>
    /\ \A o \in Owners : j \in run[o] => disk[j].enabled /\ disk[j].running
    /\ \A o, p \in Owners : j \in run[o] /\ j \in run[p] => o = p

Inv == TypeInv /\ Calm /\ Copies /\ RunsOK

LEMMA OwnerKinds ==
  /\ \A s \in Services : <<s, "start">> \in Owners /\ <<s, "tick">> \in Owners /\ <<s, "manual">> \in Owners
  /\ \A o \in Owners : \E s \in Services : o = <<s, "start">> \/ o = <<s, "tick">> \/ o = <<s, "manual">>
BY DEF Owners

LEMMA NoRuns ==
  ASSUME Calm, NEW s \in Services, s = current, ~Serving(s)
  PROVE  \A o \in Owners : run[o] = {}
<1>1. \A t \in Services : ~Serving(t) /\ stage[t] # "catchup"
  BY DEF Calm, Serving
<1>2. \A t \in Services : run[<<t, "start">>] = {} /\ run[<<t, "tick">>] = {} /\ run[<<t, "manual">>] = {}
  BY <1>1 DEF Calm
<1> QED
  BY <1>2, OwnerKinds

\* A step of the service that serves disturbs no other.
LEMMA CalmMoves ==
  ASSUME Calm, NEW s \in Services, s = current, current' = current,
         \A t \in Services \ {s} : UNCHANGED <<stage[t], timer[t], tick[t], asked[t], run[<<t, "start">>],
                                              run[<<t, "tick">>], run[<<t, "manual">>]>>,
         stage'[s] \notin {"off", "clear"},
         stage'[s] # "catchup" => run'[<<s, "start">>] = {},
         tick'[s] # "run" => run'[<<s, "tick">>] = {},
         asked'[s] # {} => run'[<<s, "manual">>] = {}
  PROVE  Calm'
<1>1. \A t \in Services \ {current'} : stage'[t] = "off"
  BY DEF Calm
<1>2. ASSUME NEW t \in Services, ~Serving(t)'
      PROVE  ~timer'[t] /\ tick'[t] = "idle" /\ asked'[t] = {} /\ run'[<<t, "manual">>] = {}
  <2>1. t # s
    BY <1>2 DEF Serving
  <2>2. ~timer[t] /\ tick[t] = "idle" /\ asked[t] = {} /\ run[<<t, "manual">>] = {}
    BY <2>1 DEF Calm, Serving
  <2>3. timer'[t] = timer[t]
    BY <2>1
  <2> QED BY <2>1, <2>2, <2>3
<1>3. ASSUME NEW t \in Services
      PROVE  /\ stage'[t] # "catchup" => run'[<<t, "start">>] = {}
             /\ tick'[t] # "run" => run'[<<t, "tick">>] = {}
             /\ asked'[t] # {} => run'[<<t, "manual">>] = {}
  BY DEF Calm
<1> QED
  BY <1>1, <1>2, <1>3 DEF Calm

LEMMA StartCalm ==
  ASSUME TypeInv, Calm, NEW s \in Services, Start(s) \/ Starting(s)
  PROVE  Calm'
<1>1. CASE Start(s)
  BY <1>1 DEF Start, Calm, Serving, TypeInv, storeVars, timerVars
<1>2. CASE ClearMarkers(s)
  BY <1>2 DEF ClearMarkers, Calm, Serving, TypeInv, timerVars
<1>3. CASE PlanCatchup(s)
  <2>1. /\ stage[s] = "plan" /\ UNCHANGED <<timer, tick, asked, current>>
        /\ \/ stage' = [stage EXCEPT ![s] = "finish"] /\ UNCHANGED run
           \/ /\ stage' = [stage EXCEPT ![s] = "catchup"]
              /\ \E chosen : run' = [run EXCEPT ![<<s, "start">>] = chosen]
    BY <1>3 DEF PlanCatchup, timerVars
  <2>2. s = current
    BY <2>1 DEF Calm
  <2>3. /\ stage'[s] \in {"finish", "catchup"}
        /\ \A t \in Services \ {s} : stage'[t] = stage[t]
        /\ \A o \in Owners \ {<<s, "start">>} : run'[o] = run[o]
    BY <2>1, OwnerKinds DEF TypeInv
  <2>4. stage'[s] # "catchup" => run'[<<s, "start">>] = {}
    BY <2>1 DEF Calm, TypeInv
  <2>5. /\ tick[s] # "run" => run[<<s, "tick">>] = {}
        /\ asked[s] # {} => run[<<s, "manual">>] = {}
    BY DEF Calm
  <2> QED BY <2>1, <2>2, <2>3, <2>4, <2>5, OwnerKinds, CalmMoves
<1>4. CASE ApplyCatchup(s)
  <2>1. /\ stage[s] = "catchup" /\ stage' = [stage EXCEPT ![s] = "applied"]
        /\ run' = [run EXCEPT ![<<s, "start">>] = {}] /\ UNCHANGED <<timer, tick, asked, current>>
    BY <1>4 DEF ApplyCatchup, Release, timerVars
  <2>2. run'[<<s, "start">>] = {} /\ \A o \in Owners \ {<<s, "start">>} : run'[o] = run[o]
    BY <2>1, OwnerKinds DEF TypeInv
  <2>3. stage'[s] = "applied" /\ \A t \in Services \ {s} : stage'[t] = stage[t]
    BY <2>1 DEF TypeInv
  <2>4. s = current
    BY <2>1 DEF Calm
  <2>5. /\ tick[s] # "run" => run[<<s, "tick">>] = {}
        /\ asked[s] # {} => run[<<s, "manual">>] = {}
    BY DEF Calm
  <2> QED BY <2>1, <2>2, <2>3, <2>4, <2>5, OwnerKinds, CalmMoves
<1>5. CASE FinishStart(s)
  <2>1. stage[s] \notin {"off", "clear", "catchup"} /\ stage' = [stage EXCEPT ![s] = "on"]
    BY <1>5 DEF FinishStart
  <2>2. UNCHANGED <<tick, asked, run, current>> /\ \A t \in Services \ {s} : timer'[t] = timer[t]
    BY <1>5 DEF FinishStart, ArmTimer, TypeInv
  <2>3. s = current
    BY <2>1 DEF Calm
  <2>4. stage'[s] = "on" /\ \A t \in Services \ {s} : stage'[t] = stage[t]
    BY <2>1 DEF TypeInv
  <2>5. /\ run[<<s, "start">>] = {}
        /\ tick[s] # "run" => run[<<s, "tick">>] = {}
        /\ asked[s] # {} => run[<<s, "manual">>] = {}
    BY <2>1 DEF Calm
  <2> QED BY <2>2, <2>3, <2>4, <2>5, CalmMoves
<1> QED
  BY <1>1, <1>2, <1>3, <1>4, <1>5 DEF Starting

LEMMA TickCalm ==
  ASSUME TypeInv, Calm, NEW s \in Services, TimerFires(s) \/ Ticking(s)
  PROVE  Calm' /\ Serving(s)
<1>1. CASE TimerFires(s)
  BY <1>1 DEF TimerFires, ArmRecheckTimer, Calm, Serving, TypeInv, startVars
<1>2. CASE CollectDue(s)
  BY <1>2, OwnerKinds DEF CollectDue, Calm, Serving, TypeInv, startVars
<1>3. CASE ApplyOutcomes(s)
  BY <1>3, OwnerKinds DEF ApplyOutcomes, Release, Calm, Serving, TypeInv, startVars
<1>4. CASE EndTick(s)
  BY <1>4 DEF EndTick, ArmTimer, Calm, Serving, TypeInv, startVars
<1> QED
  BY <1>1, <1>2, <1>3, <1>4 DEF Ticking

LEMMA UserCalm ==
  ASSUME TypeInv, Calm, NEW s \in Services, NEW j \in Jobs,
         UserEdits(s, j) \/ PreflightManual(s, j) \/ ReserveManual(s, j) \/ FinishManual(s, j)
  PROVE  Calm' /\ Serving(s)
<1>1. CASE UserEdits(s, j)
  <2>1. /\ Serving(s) /\ UNCHANGED <<stage, tick, run, asked, current>>
        /\ \E armed : timer' = [timer EXCEPT ![s] = armed]
    BY <1>1 DEF UserEdits, Add, Disable, Enable, Reschedule, Remove, Edit, ArmTimer, startVars
  <2> QED BY <2>1 DEF Calm, Serving, TypeInv
<1>2. CASE PreflightManual(s, j)
  BY <1>2 DEF PreflightManual, Calm, Serving, TypeInv, startVars, timerVars
<1>3. CASE ReserveManual(s, j)
  <2>1. Serving(s)
    BY <1>3 DEF ReserveManual, Calm
  <2>2. /\ asked' = [asked EXCEPT ![s] = {}] /\ UNCHANGED <<stage, timer, tick, current>>
        /\ UNCHANGED run \/ run' = [run EXCEPT ![<<s, "manual">>] = {j}]
    BY <1>3 DEF ReserveManual, startVars, timerVars
  <2>3. \A o \in Owners \ {<<s, "manual">>} : run'[o] = run[o]
    BY <2>2, OwnerKinds DEF TypeInv
  <2>4. s = current /\ stage[s] \notin {"off", "clear"}
    BY <2>1 DEF Serving
  <2>5. /\ stage[s] # "catchup" => run[<<s, "start">>] = {}
        /\ tick[s] # "run" => run[<<s, "tick">>] = {}
    BY DEF Calm
  <2>6. asked'[s] = {} /\ \A t \in Services \ {s} : asked'[t] = asked[t]
    BY <2>2 DEF TypeInv
  <2>7. Calm'
    BY <2>2, <2>3, <2>4, <2>5, <2>6, OwnerKinds, CalmMoves
  <2> QED BY <2>1, <2>7
<1>4. CASE FinishManual(s, j)
  <2>1. Serving(s)
    BY <1>4 DEF FinishManual, Calm
  <2>2. /\ run' = [run EXCEPT ![<<s, "manual">>] = {}] /\ UNCHANGED <<stage, tick, asked, current>>
        /\ \A t \in Services \ {s} : timer'[t] = timer[t]
    BY <1>4, FinishManualEffect DEF FinishManual, Release, startVars, TypeInv
  <2>3. run'[<<s, "manual">>] = {} /\ \A o \in Owners \ {<<s, "manual">>} : run'[o] = run[o]
    BY <2>2, OwnerKinds DEF TypeInv
  <2>4. s = current /\ stage[s] \notin {"off", "clear"}
    BY <2>1 DEF Serving
  <2>5. /\ stage[s] # "catchup" => run[<<s, "start">>] = {}
        /\ tick[s] # "run" => run[<<s, "tick">>] = {}
    BY DEF Calm
  <2>6. Calm'
    BY <2>2, <2>3, <2>4, <2>5, OwnerKinds, CalmMoves
  <2> QED BY <2>1, <2>6
<1> QED
  BY <1>1, <1>2, <1>3, <1>4

LEMMA WorldCalm ==
  ASSUME TypeInv, Calm,
         Crash \/ (\E j \in Jobs : TimePasses(j)) \/ (\E s \in Services : Read(s)) \/ UNCHANGED vars
  PROVE  Calm'
<1>1. CASE Crash
  BY <1>1, OwnerKinds DEF Crash, Calm, Serving
<1>2. CASE UNCHANGED <<stage, timer, tick, asked, run, current>>
  BY <1>2 DEF Calm, Serving
<1> QED
  BY <1>1, <1>2 DEF TimePasses, Read, vars, startVars, timerVars

LEMMA CalmNext == TypeInv /\ Calm /\ [Next]_vars => Calm'
<1> SUFFICES ASSUME TypeInv, Calm, [Next]_vars PROVE Calm'
  OBVIOUS
<1>1. CASE \E s \in Services : Start(s) \/ Starting(s)
  BY <1>1, StartCalm
<1>2. CASE \E s \in Services : TimerFires(s) \/ Ticking(s)
  BY <1>2, TickCalm
<1>3. CASE \E s \in Services, j \in Jobs :
             UserEdits(s, j) \/ PreflightManual(s, j) \/ ReserveManual(s, j) \/ FinishManual(s, j)
  BY <1>3, UserCalm
<1>4. CASE Crash \/ (\E j \in Jobs : TimePasses(j)) \/ (\E s \in Services : Read(s)) \/ UNCHANGED vars
  BY <1>4, WorldCalm
<1> QED
  BY <1>1, <1>2, <1>3, <1>4 DEF Next

-----------------------------------------------------------------------------
\* Every save leaves one copy and the file the same.
LEMMA SavedCopies ==
  ASSUME Calm', NEW s \in Services, s = current', Saved(s)
  PROVE  Copies'
BY SameTransitive DEF Copies, Serving, Saved

LEMMA CopiesNext == TypeInv /\ Calm /\ Calm' /\ Copies /\ [Next]_vars => Copies'
<1> SUFFICES ASSUME TypeInv, Calm, Calm', Copies, [Next]_vars PROVE Copies'
  OBVIOUS
<1>1. ASSUME NEW s \in Services, Start(s) \/ Starting(s) PROVE Copies'
  <2>1. CASE Start(s)
    BY <2>1 DEF Start, Copies, Serving, TypeInv, storeVars
  <2>2. CASE ClearMarkers(s) \/ ApplyCatchup(s) \/ FinishStart(s)
    <3>1. s = current /\ current' = current
      BY <2>2 DEF Calm, ClearMarkers, ApplyCatchup, FinishStart
    <3>2. FinishStart(s) => \A t \in Services : Serving(t)' => Serving(t)
      BY <3>1 DEF FinishStart, Calm, Serving
    <3>3. FinishStart(s) /\ UNCHANGED storeVars => Copies'
      BY <3>2 DEF Copies, storeVars
    <3> QED BY <3>3, <2>2, <3>1, ClearMarkersEffect, ApplyCatchupEffect, FinishStartEffect, SavedCopies
  <2>3. CASE PlanCatchup(s)
    <3>1. s = current /\ current' = current /\ Serving(s)
      BY <2>3 DEF Calm, PlanCatchup, Serving
    <3>2. UNCHANGED storeVars => Copies'
      BY <3>1 DEF Calm, Copies, Serving, storeVars
    <3> QED BY <2>3, <3>1, <3>2, PlanCatchupEffect, SavedCopies
  <2> QED BY <1>1, <2>1, <2>2, <2>3 DEF Starting
<1>2. ASSUME NEW s \in Services, TimerFires(s) \/ Ticking(s) PROVE Copies'
  <2>1. Serving(s)
    BY <1>2, TickCalm
  <2>2. CASE TimerFires(s) \/ EndTick(s)
    BY <2>2 DEF TimerFires, EndTick, Copies, Serving, storeVars, startVars
  <2>3. CASE CollectDue(s) \/ ApplyOutcomes(s)
    <3>1. s = current'
      BY <2>1, <2>3 DEF Serving, CollectDue, ApplyOutcomes
    <3> QED BY <2>3, <3>1, CollectDueEffect, ApplyOutcomesEffect, SavedCopies
  <2> QED BY <1>2, <2>2, <2>3 DEF Ticking
<1>3. ASSUME NEW s \in Services, NEW j \in Jobs,
             UserEdits(s, j) \/ PreflightManual(s, j) \/ ReserveManual(s, j) \/ FinishManual(s, j)
      PROVE  Copies'
  <2>1. Serving(s) /\ s = current
    BY <1>3, UserCalm DEF Serving
  <2>2. CASE UserEdits(s, j)
    <3>1. Saved(s)
      BY <2>2, AddEffect, EditEffect DEF UserEdits
    <3>2. current' = current
      BY <2>2 DEF UserEdits, Add, Disable, Enable, Reschedule, Remove, Edit
    <3> QED BY <2>1, <3>1, <3>2, SavedCopies
  <2>3. CASE PreflightManual(s, j)
    <3>1. \A i \in Jobs : Same(disk[i], mem'[s][i])
      BY <2>1, <2>3, PreflightManualEffect, SameTransitive DEF Copies
    <3>2. disk' = disk /\ current' = current
      BY <2>3 DEF PreflightManual
    <3> QED BY <2>1, <3>1, <3>2 DEF Copies, Serving
  <2>4. CASE ReserveManual(s, j)
    <3>1. current' = current /\ stage' = stage
      BY <2>4 DEF ReserveManual, startVars
    <3>2. UNCHANGED storeVars => Copies'
      BY <3>1 DEF Copies, Serving, storeVars
    <3> QED BY <2>1, <2>4, <3>1, <3>2, ReserveManualEffect, SavedCopies
  <2>5. CASE FinishManual(s, j)
    <3>1. current' = current /\ stage' = stage
      BY <2>5 DEF FinishManual, startVars
    <3>2. UNCHANGED storeVars => Copies'
      BY <3>1 DEF Copies, Serving, storeVars
    <3>3. UNCHANGED storeVars \/ Saved(s)
      BY <2>5, FinishManualEffect
    <3> QED BY <2>1, <3>1, <3>2, <3>3, SavedCopies
  <2> QED BY <1>3, <2>2, <2>3, <2>4, <2>5
<1>4. ASSUME NEW s \in Services, Read(s) PROVE Copies'
  <2>1. s = current'
    BY <1>4 DEF Read, Serving
  <2> QED BY <1>4, <2>1, ReadEffect, SavedCopies
<1>5. CASE Crash
  BY <1>5 DEF Crash, Copies, Serving
<1>6. ASSUME NEW j \in Jobs, TimePasses(j) PROVE Copies'
  <2>1. UNCHANGED <<current, stage>>
    BY <1>6 DEF TimePasses, startVars
  <2>2. ASSUME NEW s \in Services, Serving(s), NEW i \in Jobs PROVE Same(disk'[i], mem'[s][i])
    <3>1. disk[i] \in GoodJobs /\ mem[s][i] \in GoodJobs /\ Same(disk[i], mem[s][i])
      BY <2>2 DEF TypeInv, Stores, Copies
    <3>2. disk' = [disk EXCEPT ![j] = Elapsed(@)] /\ mem'[s] = [mem[s] EXCEPT ![j] = Elapsed(@)]
      BY <1>6, TimePassesEffect
    <3>3. disk \in [Jobs -> GoodJobs] /\ mem[s] \in [Jobs -> GoodJobs]
      BY DEF TypeInv, Stores
    <3>4. /\ disk'[i] = IF i = j THEN Elapsed(disk[i]) ELSE disk[i]
          /\ mem'[s][i] = IF i = j THEN Elapsed(mem[s][i]) ELSE mem[s][i]
      BY <3>2, <3>3
    <3> QED BY <3>1, <3>4, ElapsedSame
  <2> QED BY <2>1, <2>2 DEF Copies, Serving
<1>7. CASE UNCHANGED vars
  BY <1>7 DEF vars, storeVars, startVars, Copies, Serving
<1> QED
  BY <1>1, <1>2, <1>3, <1>4, <1>5, <1>6, <1>7 DEF Next

-----------------------------------------------------------------------------
\* Runs go on, or end and take their disownment with them.
LEMMA RunsStay ==
  ASSUME RunsOK, UNCHANGED run, \A j \in Jobs : disowned[j] => disowned'[j],
         \A j \in Jobs : Marks(disk[j], disk'[j]) \/ disowned'[j] \/ \A o \in Owners : j \notin run[o]
  PROVE  RunsOK'
BY DEF RunsOK, Marks

LEMMA RunsRelease ==
  ASSUME TypeInv, RunsOK, NEW o \in Owners, Release(o),
         \A j \in Jobs \ run[o] : Marks(disk[j], disk'[j])
  PROVE  RunsOK'
<1>1. run'[o] = {} /\ \A p \in Owners \ {o} : run'[p] = run[p]
  BY DEF Release, TypeInv
<1>2. ASSUME NEW j \in Jobs, NEW p \in Owners, j \in run'[p], ~disowned'[j]
      PROVE  p # o /\ j \in run[p] /\ ~disowned[j]
  BY <1>1, <1>2 DEF Release
<1>3. ASSUME NEW j \in Jobs, NEW p \in Owners, j \in run'[p], ~disowned'[j]
      PROVE  disk'[j].enabled /\ disk'[j].running
  <2>1. p # o /\ j \in run[p] /\ ~disowned[j]
    BY <1>2, <1>3
  <2>2. j \notin run[o] /\ disk[j].enabled /\ disk[j].running
    BY <2>1 DEF RunsOK
  <2> QED BY <2>2 DEF Marks
<1>4. ASSUME NEW j \in Jobs, NEW p \in Owners, NEW q \in Owners,
             j \in run'[p], j \in run'[q], ~disowned'[j]
      PROVE  p = q
  BY <1>2, <1>4 DEF RunsOK
<1> QED
  BY <1>3, <1>4 DEF RunsOK

\* An owner that runs nothing takes jobs that nobody else runs.
LEMMA RunsTake ==
  ASSUME TypeInv, RunsOK, NEW o \in Owners, NEW taken \in SUBSET Jobs, run[o] = {},
         run' = [run EXCEPT ![o] = taken],
         \A j \in Jobs : disowned[j] => disowned'[j],
         \A j \in taken : ~disowned'[j] =>
           disk'[j].enabled /\ disk'[j].running /\ \A p \in Owners : j \notin run[p],
         \A j \in Jobs \ taken : Marks(disk[j], disk'[j])
  PROVE  RunsOK'
<1>1. run'[o] = taken /\ \A p \in Owners \ {o} : run'[p] = run[p]
  BY DEF TypeInv
<1>2. ASSUME NEW j \in taken, ~disowned'[j]
      PROVE  /\ disk'[j].enabled /\ disk'[j].running
             /\ \A p \in Owners : j \in run'[p] => p = o
  BY <1>1, <1>2
<1>3. ASSUME NEW j \in Jobs \ taken, ~disowned'[j]
      PROVE  /\ \A p \in Owners : j \in run'[p] => p # o /\ j \in run[p]
             /\ ~disowned[j] /\ Marks(disk[j], disk'[j])
  BY <1>1, <1>3
<1>4. ASSUME NEW j \in Jobs, ~disowned'[j], NEW p \in Owners, j \in run'[p]
      PROVE  disk'[j].enabled /\ disk'[j].running
  <2>1. CASE j \in taken
    BY <1>2, <1>4, <2>1
  <2>2. CASE j \notin taken
    BY <1>3, <1>4, <2>2 DEF RunsOK, Marks
  <2> QED BY <2>1, <2>2
<1>5. ASSUME NEW j \in Jobs, ~disowned'[j], NEW p \in Owners, NEW q \in Owners,
             j \in run'[p], j \in run'[q]
      PROVE  p = q
  <2>1. CASE j \in taken
    BY <1>2, <1>5, <2>1
  <2>2. CASE j \notin taken
    BY <1>3, <1>5, <2>2 DEF RunsOK
  <2> QED BY <2>1, <2>2
<1> QED
  BY <1>4, <1>5 DEF RunsOK

\* A job without its marker in the copy of the serving service is not run,
\* unless it is disowned.
LEMMA UnmarkedIdle ==
  ASSUME Inv, NEW s \in Services, Serving(s), NEW j \in Jobs, ~disowned[j],
         ~mem[s][j].running \/ ~mem[s][j].enabled
  PROVE  \A o \in Owners : j \notin run[o]
<1>1. Marks(disk[j], mem[s][j])
  BY DEF Inv, Copies, Same
<1> QED
  BY <1>1 DEF Inv, RunsOK, Marks

LEMMA StartRuns ==
  ASSUME Inv, NEW s \in Services, Start(s) \/ Starting(s)
  PROVE  RunsOK'
<1> USE DEF Inv
<1>1. CASE Start(s)
  BY <1>1 DEF Start, RunsOK, storeVars
<1>2. CASE ClearMarkers(s)
  <2>1. s = current /\ ~Serving(s) /\ UNCHANGED run
    BY <1>2 DEF ClearMarkers, Calm, Serving
  <2>2. \A o \in Owners : run'[o] = {}
    BY <2>1, NoRuns
  <2> QED BY <2>2 DEF RunsOK
<1>3. CASE PlanCatchup(s)
  <2>1. Serving(s) /\ run[<<s, "start">>] = {} /\ UNCHANGED disowned
    BY <1>3 DEF PlanCatchup, Calm, Serving
  <2>2. CASE UNCHANGED <<storeVars, run, deferred>>
    BY <2>1, <2>2 DEF RunsOK, storeVars
  <2>3. CASE Saved(s) /\ \E chosen \in SUBSET Jobs :
                 /\ run' = [run EXCEPT ![<<s, "start">>] = chosen]
                 /\ \A j \in chosen : mem[s][j].enabled /\ ~mem[s][j].running /\ disk'[j].enabled /\ disk'[j].running
                 /\ \A j \in Jobs \ chosen : Same(mem[s][j], disk'[j])
    <3>1. PICK chosen \in SUBSET Jobs :
                 /\ run' = [run EXCEPT ![<<s, "start">>] = chosen]
                 /\ \A j \in chosen : mem[s][j].enabled /\ ~mem[s][j].running /\ disk'[j].enabled /\ disk'[j].running
                 /\ \A j \in Jobs \ chosen : Same(mem[s][j], disk'[j])
      BY <2>3
    <3>2. \A j \in Jobs \ chosen : Marks(disk[j], disk'[j])
      BY <2>1, <3>1, SameTransitive DEF Copies, Same
    <3>3. \A j \in chosen : ~disowned[j] => \A p \in Owners : j \notin run[p]
      BY <2>1, <3>1, UnmarkedIdle
    <3> QED BY <2>1, <3>1, <3>2, <3>3, OwnerKinds, RunsTake
  <2> QED BY <1>3, <2>2, <2>3, PlanCatchupEffect
<1>4. CASE ApplyCatchup(s)
  <2>1. Serving(s) /\ Release(<<s, "start">>)
    BY <1>4 DEF ApplyCatchup, Calm, Serving
  <2>2. \A j \in Jobs \ run[<<s, "start">>] : Marks(disk[j], disk'[j])
    BY <1>4, <2>1, ApplyCatchupEffect, SameTransitive DEF Copies, Same
  <2> QED BY <2>1, <2>2, OwnerKinds, RunsRelease
<1>5. CASE FinishStart(s)
  <2>1. Serving(s) /\ UNCHANGED <<run, disowned>>
    BY <1>5 DEF FinishStart, Calm, Serving
  <2>2. \A j \in Jobs : Marks(disk[j], disk'[j])
    BY <1>5, <2>1, FinishStartEffect, SameTransitive DEF Copies, Same, storeVars
  <2> QED BY <2>1, <2>2, RunsStay
<1> QED
  BY <1>1, <1>2, <1>3, <1>4, <1>5 DEF Starting

LEMMA TickRuns ==
  ASSUME Inv, NEW s \in Services, TimerFires(s) \/ Ticking(s)
  PROVE  RunsOK'
<1> USE DEF Inv
<1>1. CASE TimerFires(s) \/ EndTick(s)
  BY <1>1 DEF TimerFires, EndTick, RunsOK, storeVars
<1>2. CASE CollectDue(s)
  <2>1. run[<<s, "tick">>] = {} /\ UNCHANGED disowned
    BY <1>2 DEF CollectDue, Calm
  <2>2. PICK due \in SUBSET Jobs :
              /\ run' = [run EXCEPT ![<<s, "tick">>] = due]
              /\ \A j \in due : disk[j].enabled /\ ~disk[j].running /\ disk'[j].enabled /\ disk'[j].running
              /\ \A j \in Jobs \ due : Same(disk[j], disk'[j])
    BY <1>2, CollectDueEffect
  <2>3. \A j \in due : ~disowned[j] => \A p \in Owners : j \notin run[p]
    BY <2>2 DEF RunsOK
  <2>4. \A j \in Jobs \ due : Marks(disk[j], disk'[j])
    BY <2>2 DEF Same
  <2> QED BY <2>1, <2>2, <2>3, <2>4, OwnerKinds, RunsTake
<1>3. CASE ApplyOutcomes(s)
  <2>1. Release(<<s, "tick">>)
    BY <1>3 DEF ApplyOutcomes
  <2>2. \A j \in Jobs \ run[<<s, "tick">>] : Marks(disk[j], disk'[j])
    BY <1>3, ApplyOutcomesEffect DEF Same
  <2> QED BY <2>1, <2>2, OwnerKinds, RunsRelease
<1> QED
  BY <1>1, <1>2, <1>3 DEF Ticking

LEMMA UserRuns ==
  ASSUME Inv, NEW s \in Services, NEW j \in Jobs,
         UserEdits(s, j) \/ PreflightManual(s, j) \/ ReserveManual(s, j) \/ FinishManual(s, j)
  PROVE  RunsOK'
<1> USE DEF Inv
<1>1. Serving(s) /\ \A i \in Jobs : Marks(disk[i], mem[s][i])
  BY UserCalm DEF Copies, Same
<1>2. CASE Add(s, j)
  <2>1. UNCHANGED <<run, disowned>> /\ \A o \in Owners : j \notin run[o]
    BY <1>2 DEF Add, Unknown, Edit
  <2>2. \A i \in Jobs \ {j} : Marks(disk[i], disk'[i])
    BY <1>1, <1>2, AddEffect, SameTransitive
  <2> QED BY <2>1, <2>2, RunsStay
<1>3. CASE Disable(s, j) \/ Enable(s, j) \/ Reschedule(s, j) \/ Remove(s, j)
  <2>1. /\ UNCHANGED run /\ \A i \in Jobs : disowned[i] => disowned'[i]
        /\ Disable(s, j) \/ Remove(s, j) => disowned'[j] \/ \A o \in Owners : j \notin run[o]
    BY <1>3 DEF Disable, Enable, Reschedule, Remove, Edit, TypeInv
  <2>2. \A i \in Jobs \ {j} : Marks(disk[i], disk'[i])
    BY <1>1, <1>3, EditEffect
  <2>3. Marks(disk[j], disk'[j]) \/ disowned'[j] \/ \A o \in Owners : j \notin run[o]
    <3>1. CASE Marks(mem[s][j], disk'[j])
      BY <1>1, <3>1, SameTransitive
    <3>2. CASE ~mem[s][j].enabled
      BY <1>1, <2>1, <3>2, UnmarkedIdle
    <3> QED BY <1>3, <2>1, <3>1, <3>2, EditEffect
  <2> QED BY <2>1, <2>2, <2>3, RunsStay
<1>4. CASE PreflightManual(s, j)
  BY <1>4 DEF PreflightManual, RunsOK
<1>5. CASE ReserveManual(s, j)
  <2>1. CASE UNCHANGED <<storeVars, run, disowned>>
    BY <2>1 DEF RunsOK, storeVars
  <2>2. CASE /\ Saved(s)
             /\ \A i \in Jobs \ {j} : disk'[i] = mem[s][i]
             /\ ~mem[s][j].running /\ disk'[j].running
             /\ run' = [run EXCEPT ![<<s, "manual">>] = {j}]
             /\ disowned' = [disowned EXCEPT ![j] = @ \/ ~disk'[j].enabled]
    <3>1. run[<<s, "manual">>] = {}
      BY <1>5 DEF ReserveManual, Calm
    <3>2. \A i \in Jobs : disowned[i] => disowned'[i]
      BY <2>2 DEF TypeInv
    <3>3. ~disowned'[j] => disk'[j].enabled /\ ~disowned[j]
      BY <2>2 DEF TypeInv
    <3>4. ~disowned'[j] => \A p \in Owners : j \notin run[p]
      BY <1>1, <2>2, <3>3, UnmarkedIdle
    <3>5. \A i \in Jobs \ {j} : Marks(disk[i], disk'[i])
      BY <1>1, <2>2
    <3> DEFINE taken == {j}
    <3>6. /\ taken \in SUBSET Jobs /\ run' = [run EXCEPT ![<<s, "manual">>] = taken]
          /\ \A i \in taken : ~disowned'[i] =>
               disk'[i].enabled /\ disk'[i].running /\ \A p \in Owners : i \notin run[p]
          /\ \A i \in Jobs \ taken : Marks(disk[i], disk'[i])
      BY <2>2, <3>3, <3>4, <3>5
    <3> HIDE DEF taken
    <3> QED BY <3>1, <3>2, <3>6, OwnerKinds, RunsTake
  <2> QED BY <1>5, <2>1, <2>2, ReserveManualEffect
<1>6. CASE FinishManual(s, j)
  <2>1. Release(<<s, "manual">>) /\ j \in run[<<s, "manual">>]
    BY <1>6 DEF FinishManual
  <2>2. \A i \in Jobs \ run[<<s, "manual">>] : Marks(disk[i], disk'[i])
    <3>1. CASE UNCHANGED <<storeVars, timer>>
      BY <3>1, SameTransitive DEF Same, storeVars
    <3> QED BY <1>6, <2>1, <3>1, FinishManualEffect DEF Same
  <2> QED BY <2>1, <2>2, OwnerKinds, RunsRelease
<1> QED
  BY <1>2, <1>3, <1>4, <1>5, <1>6 DEF UserEdits

LEMMA WorldRuns ==
  ASSUME Inv,
         Crash \/ (\E j \in Jobs : TimePasses(j)) \/ (\E s \in Services : Read(s)) \/ UNCHANGED vars
  PROVE  RunsOK'
<1> USE DEF Inv
<1>1. CASE Crash
  BY <1>1 DEF Crash, RunsOK
<1>2. ASSUME NEW j \in Jobs, TimePasses(j) PROVE RunsOK'
  <2>1. \A i \in Jobs : Marks(disk[i], disk'[i])
    BY <1>2, TimePassesEffect, ElapsedStore DEF TypeInv
  <2> QED BY <1>2, <2>1, RunsStay DEF TimePasses
<1>3. ASSUME NEW s \in Services, Read(s) PROVE RunsOK'
  <2>1. Serving(s) /\ UNCHANGED <<run, disowned>>
    BY <1>3 DEF Read
  <2>2. \A j \in Jobs : Marks(disk[j], disk'[j])
    BY <1>3, <2>1, ReadEffect, SameTransitive DEF Copies, Same
  <2> QED BY <2>1, <2>2, RunsStay
<1>4. CASE UNCHANGED vars
  BY <1>4 DEF vars, storeVars, RunsOK
<1> QED
  BY <1>1, <1>2, <1>3, <1>4

LEMMA InvNext == Inv /\ [Next]_vars => Inv'
<1> SUFFICES ASSUME Inv, [Next]_vars PROVE Inv'
  OBVIOUS
<1>1. TypeInv' /\ Calm' /\ Copies'
  BY TypeNext, CalmNext, CopiesNext DEF Inv
<1>2. CASE \E s \in Services : Start(s) \/ Starting(s)
  BY <1>1, <1>2, StartRuns DEF Inv
<1>3. CASE \E s \in Services : TimerFires(s) \/ Ticking(s)
  BY <1>1, <1>3, TickRuns DEF Inv
<1>4. CASE \E s \in Services, j \in Jobs :
             UserEdits(s, j) \/ PreflightManual(s, j) \/ ReserveManual(s, j) \/ FinishManual(s, j)
  BY <1>1, <1>4, UserRuns DEF Inv
<1>5. CASE Crash \/ (\E j \in Jobs : TimePasses(j)) \/ (\E s \in Services : Read(s)) \/ UNCHANGED vars
  BY <1>1, <1>5, WorldRuns DEF Inv
<1> QED
  BY <1>2, <1>3, <1>4, <1>5 DEF Next

LEMMA InvInit == Init => Inv
<1> SUFFICES ASSUME Init PROVE Inv
  OBVIOUS
<1>1. Calm
  BY OwnerKinds DEF Init, Calm
<1>2. Copies /\ RunsOK
  BY DEF Init, Copies, Serving, RunsOK
<1> QED
  BY <1>1, <1>2, TypeInit DEF Inv

-----------------------------------------------------------------------------
(***************************************************************************)
(* One run per job.                                                        *)
(***************************************************************************)

\* A job never runs twice at once, whoever starts it, as long as nobody
\* disables or removes it during a run: a run has its marker in the file and in
\* the copy of the serving service, and nobody takes a job with a marker.
THEOREM OneRun == Spec => []OneRunPerJob
<1>1. Inv => OneRunPerJob
  <2> SUFFICES ASSUME RunsOK, NEW j \in Jobs, ~disowned[j] PROVE Cardinality(RunsOf(j)) <= 1
    BY DEF Inv, OneRunPerJob
  <2>1. CASE RunsOf(j) = {}
    BY <2>1, FS_EmptySet
  <2>2. CASE RunsOf(j) # {}
    <3>1. PICK o : o \in RunsOf(j)
      BY <2>2
    <3>2. RunsOf(j) = {o}
      BY <3>1 DEF RunsOf, RunsOK
    <3>3. Cardinality({o}) = 1
      BY FS_Singleton
    <3>4. Cardinality(RunsOf(j)) = 1
      BY <3>2, <3>3
    <3> QED BY <3>4
  <2> QED BY <2>1, <2>2
<1> QED
  BY <1>1, InvInit, InvNext, PTL DEF Spec

-----------------------------------------------------------------------------
(***************************************************************************)
(* The timer.                                                              *)
(***************************************************************************)
\* No copy of the store misses a time, and the serving service and the file agree
\* on whether there is one.
AllSettled == Settled(disk) /\ \A s \in Services : Settled(mem[s])

NextAgrees == \A s \in Services : Serving(s) => HasNext(mem[s]) = HasNext(disk)

Armed == AllSettled /\ NextAgrees /\ TimerArmed

\* A save by the serving service, which arms the timer unless a tick is under way.
LEMMA ArmedSaved ==
  ASSUME Calm', AllSettled, NEW s \in Services, s = current', Saved(s), Settled(disk'),
         stage'[s] = "on" =>
           /\ tick'[s] = "idle" => timer'[s] = HasNext(disk')
           /\ tick'[s] \in {"collect", "run"} => timer'[s] \/ ~HasNext(disk')
  PROVE  Armed'
<1>1. \A t \in Services : (Serving(t)' \/ stage'[t] = "on") => t = s
  BY DEF Calm, Serving
<1>2. mem'[s] = disk' /\ \A t \in Services \ {s} : mem'[t] = mem[t]
  BY DEF Saved
<1>3. AllSettled'
  BY <1>2 DEF AllSettled
<1>4. NextAgrees'
  BY <1>1, <1>2 DEF NextAgrees
<1>5. TimerArmed'
  BY <1>1, <1>2 DEF TimerArmed
<1> QED
  BY <1>3, <1>4, <1>5 DEF Armed

\* A step that leaves the stores alone, and services serve that did before.
LEMMA ArmedKept ==
  ASSUME Armed, UNCHANGED storeVars, \A t \in Services : Serving(t)' => Serving(t),
         TimerArmed'
  PROVE  Armed'
BY DEF Armed, AllSettled, NextAgrees, storeVars

LEMMA StartArmed ==
  ASSUME Inv, Inv', Armed, NEW s \in Services, Start(s) \/ Starting(s)
  PROVE  Armed'
<1>1. s = current /\ current' = current
  BY DEF Inv, Calm, Start, Starting, ClearMarkers, PlanCatchup, ApplyCatchup, FinishStart
<1>2. AllSettled
  BY DEF Armed
<1>3. ASSUME stage'[s] # "on" PROVE TimerArmed'
  BY <1>1, <1>3 DEF TimerArmed, Inv, Calm
<1>4. CASE Start(s)
  <2>1. stage'[s] = "clear" /\ UNCHANGED storeVars
    BY <1>4 DEF Start, Inv, TypeInv
  <2>2. \A t \in Services : ~Serving(t)'
    BY <1>1, <2>1 DEF Inv, Calm, Serving
  <2> QED BY <1>3, <2>1, <2>2, ArmedKept
<1>5. CASE ClearMarkers(s)
  <2>1. stage'[s] = "plan"
    BY <1>5 DEF ClearMarkers, Inv, TypeInv
  <2>2. Saved(s) /\ Settled(disk')
    BY <1>2, <1>5, ClearMarkersEffect DEF Inv, AllSettled
  <2> QED BY <1>1, <1>2, <2>1, <2>2, ArmedSaved DEF Inv
<1>6. CASE PlanCatchup(s)
  <2>1. stage'[s] \in {"finish", "catchup"} /\ stage[s] = "plan"
    BY <1>6 DEF PlanCatchup, Inv, TypeInv
  <2>2. UNCHANGED storeVars \/ (Saved(s) /\ Settled(disk'))
    BY <1>2, <1>6, PlanCatchupEffect DEF Inv, AllSettled
  <2>3. \A t \in Services : Serving(t)' => Serving(t)
    BY <1>1, <2>1 DEF Serving
  <2>4. CASE UNCHANGED storeVars
    BY <1>3, <2>1, <2>3, <2>4, ArmedKept
  <2>5. CASE Saved(s) /\ Settled(disk')
    BY <1>1, <1>2, <2>1, <2>5, ArmedSaved DEF Inv
  <2> QED BY <2>2, <2>4, <2>5
<1>7. CASE ApplyCatchup(s)
  <2>1. stage'[s] = "applied"
    BY <1>7 DEF ApplyCatchup, Inv, TypeInv
  <2>2. Saved(s) /\ Settled(disk')
    BY <1>7, ApplyCatchupEffect DEF Inv
  <2> QED BY <1>1, <1>2, <2>1, <2>2, ArmedSaved DEF Inv
<1>8. CASE FinishStart(s)
  <2>1. timer'[s] = HasNext(mem'[s])
    BY <1>8, FinishStartTimer DEF Inv
  <2>2. stage[s] \in {"applied", "finish"}
    BY <1>8 DEF FinishStart
  <2>3. \A t \in Services : (Serving(t)' => Serving(t)) /\ (stage'[t] = "on" => t = s)
    BY <1>1, <2>2 DEF Serving, Inv, Calm
  <2>4. TimerArmed'
    BY <2>1, <2>3 DEF TimerArmed
  <2>5. CASE UNCHANGED storeVars
    BY <2>3, <2>4, <2>5, ArmedKept
  <2>6. CASE Saved(s) /\ Settled(disk')
    <3>1. timer'[s] = HasNext(disk')
      BY <2>1, <2>6 DEF Saved
    <3> QED BY <1>1, <1>2, <2>6, <3>1, ArmedSaved DEF Inv
  <2> QED BY <1>8, <2>5, <2>6, FinishStartEffect DEF Inv
<1> QED
  BY <1>4, <1>5, <1>6, <1>7, <1>8 DEF Starting

LEMMA TickArmed ==
  ASSUME Inv, Inv', Armed, NEW s \in Services, TimerFires(s) \/ Ticking(s)
  PROVE  Armed'
<1>1. s = current /\ Serving(s)
  BY TickCalm DEF Inv, Serving
<1>2. stage' = stage /\ current' = current
  BY DEF TimerFires, Ticking, CollectDue, ApplyOutcomes, EndTick, startVars
<1>3. \A t \in Services : (Serving(t)' => Serving(t)) /\ (stage'[t] = "on" => t = s)
  BY <1>1, <1>2 DEF Inv, Calm, Serving
<1>4. CASE TimerFires(s)
  <2>1. UNCHANGED storeVars /\ timer'[s] /\ tick'[s] # "idle"
    BY <1>4 DEF TimerFires, ArmRecheckTimer, Inv, TypeInv
  <2>2. TimerArmed'
    BY <1>3, <2>1 DEF TimerArmed
  <2> QED BY <1>3, <2>1, <2>2, ArmedKept
<1>5. CASE CollectDue(s)
  <2>1. tick'[s] # "idle" /\ tick[s] = "collect" /\ timer' = timer
    BY <1>5 DEF CollectDue, Inv, TypeInv
  <2>2. Saved(s) /\ Settled(disk') /\ HasNext(disk') = HasNext(disk)
    BY <1>5, CollectDueEffect DEF Inv, Armed, AllSettled
  <2>3. HasNext(mem[s]) = HasNext(disk)
    BY <1>1 DEF Armed, NextAgrees
  <2>4. stage'[s] = "on" => timer[s] \/ ~HasNext(mem[s])
    BY <1>2, <2>1 DEF Armed, TimerArmed
  <2>5. stage'[s] = "on" => timer'[s] \/ ~HasNext(disk')
    BY <2>1, <2>2, <2>3, <2>4
  <2> QED BY <1>1, <1>2, <2>1, <2>2, <2>5, ArmedSaved DEF Inv, Armed
<1>6. CASE ApplyOutcomes(s)
  <2>1. tick'[s] = "end"
    BY <1>6 DEF ApplyOutcomes, Inv, TypeInv
  <2> QED BY <1>1, <1>2, <1>6, <2>1, ApplyOutcomesEffect, ArmedSaved DEF Inv, Armed
<1>7. CASE EndTick(s)
  <2>1. timer'[s] = HasNext(mem'[s]) /\ UNCHANGED storeVars
    BY <1>7 DEF EndTick, ArmTimer, storeVars, Inv, TypeInv
  <2>2. TimerArmed'
    BY <1>3, <2>1 DEF TimerArmed
  <2> QED BY <1>3, <2>1, <2>2, ArmedKept
<1> QED
  BY <1>4, <1>5, <1>6, <1>7 DEF Ticking

LEMMA UserArmed ==
  ASSUME Inv, Inv', Armed, NEW s \in Services, NEW j \in Jobs,
         UserEdits(s, j) \/ PreflightManual(s, j) \/ ReserveManual(s, j) \/ FinishManual(s, j)
  PROVE  Armed'
<1>1. s = current /\ Serving(s)
  BY UserCalm DEF Inv, Serving
<1>2. stage' = stage /\ tick' = tick /\ current' = current
  BY DEF UserEdits, Add, Disable, Enable, Reschedule, Remove, Edit, PreflightManual, ReserveManual,
         FinishManual, startVars, timerVars
<1>3. \A t \in Services : (Serving(t)' <=> Serving(t)) /\ (Serving(t) \/ stage[t] = "on" => t = s)
  BY <1>1, <1>2 DEF Inv, Calm, Serving
<1>4. AllSettled /\ Settled(mem[s]) /\ mem[s] \in Stores
  BY DEF Armed, AllSettled, Inv, TypeInv
<1>5. stage[s] = "on" =>
        /\ tick[s] = "idle" => timer[s] = HasNext(mem[s])
        /\ tick[s] \in {"collect", "run"} => timer[s] \/ ~HasNext(mem[s])
  BY DEF Armed, TimerArmed
<1>6. CASE UserEdits(s, j)
  <2>1. Saved(s) /\ timer' = [timer EXCEPT ![s] = HasNext(disk')]
    BY <1>6, AddEffect, EditEffect DEF UserEdits, Inv
  <2>2. Settled(disk')
    BY <1>4, <1>6, AddEffect, EditSettles DEF UserEdits, Inv
  <2>3. timer'[s] = HasNext(disk')
    BY <2>1 DEF Inv, TypeInv
  <2> QED BY <1>1, <1>2, <1>4, <2>1, <2>2, <2>3, ArmedSaved DEF Inv
<1>7. CASE PreflightManual(s, j)
  <2>1. /\ Settled(mem'[s]) /\ mem'[s] = Maintained(mem[s]) /\ UNCHANGED <<disk, timer>>
        /\ \A t \in Services \ {s} : mem'[t] = mem[t]
    BY <1>7, PreflightManualEffect DEF PreflightManual, timerVars, Inv
  <2>2. HasNext(mem'[s]) = HasNext(mem[s])
    BY <1>4, <2>1, MaintainedSettled
  <2>3. AllSettled'
    BY <1>4, <2>1 DEF AllSettled
  <2>4. NextAgrees'
    BY <1>3, <2>1, <2>2 DEF Armed, NextAgrees
  <2>5. TimerArmed'
    BY <1>2, <1>3, <1>5, <2>1, <2>2 DEF TimerArmed
  <2> QED BY <2>3, <2>4, <2>5 DEF Armed
<1>8. CASE ReserveManual(s, j)
  <2>1. timer' = timer
    BY <1>8 DEF ReserveManual, timerVars
  <2>2. CASE ~(mem[s][j].here /\ ~mem[s][j].running)
    <3>1. UNCHANGED storeVars
      BY <1>8, <2>2 DEF ReserveManual
    <3>2. TimerArmed'
      BY <1>2, <2>1, <3>1 DEF Armed, TimerArmed, storeVars
    <3> QED BY <1>3, <3>1, <3>2, ArmedKept
  <2>3. CASE mem[s][j].here /\ ~mem[s][j].running
    <3>1. /\ Saved(s)
          /\ \A i \in Jobs \ {j} : disk'[i] = mem[s][i]
          /\ disk'[j].enabled = mem[s][j].enabled /\ disk'[j].next = mem[s][j].next
          /\ NextRunAt(j, mem[s][j]) = "none" => NextRunAt(j, disk'[j]) = "none"
      BY <1>8, <2>3, ReserveManualStore DEF Inv
    <3>2. HasNext(disk') = HasNext(mem[s])
      <4>1. \A i \in Jobs : disk'[i].enabled = mem[s][i].enabled /\ disk'[i].next = mem[s][i].next
        BY <3>1
      <4> QED BY <4>1 DEF HasNext
    <3>3. Settled(disk')
      BY <1>4, <3>1 DEF Settled
    <3> QED BY <1>1, <1>2, <1>4, <1>5, <2>1, <3>1, <3>2, <3>3, ArmedSaved DEF Inv
  <2> QED BY <2>2, <2>3
<1>9. CASE FinishManual(s, j)
  <2>1. CASE UNCHANGED <<storeVars, timer>>
    <3>1. TimerArmed'
      BY <1>2, <2>1 DEF Armed, TimerArmed, storeVars
    <3> QED BY <1>3, <2>1, <3>1, ArmedKept
  <2>2. CASE Saved(s) /\ Settled(disk') /\ timer' = [timer EXCEPT ![s] = HasNext(disk')]
    <3>1. timer'[s] = HasNext(disk')
      BY <2>2 DEF Inv, TypeInv
    <3> QED BY <1>1, <1>2, <1>4, <2>2, <3>1, ArmedSaved DEF Inv
  <2> QED BY <1>9, <2>1, <2>2, FinishManualEffect DEF Inv
<1> QED
  BY <1>6, <1>7, <1>8, <1>9

LEMMA WorldArmed ==
  ASSUME Inv, Inv', Armed,
         Crash \/ (\E j \in Jobs : TimePasses(j)) \/ (\E s \in Services : Read(s)) \/ UNCHANGED vars
  PROVE  Armed'
<1>1. CASE Crash
  <2>1. \A t \in Services : mem'[t] = [j \in Jobs |-> NoJob] /\ stage'[t] = "off"
    BY <1>1 DEF Crash
  <2>2. Settled([j \in Jobs |-> NoJob])
    BY NewJobGood, NextRunAtValue DEF Settled, NoJob
  <2> QED BY <1>1, <2>1, <2>2 DEF Crash, Armed, AllSettled, NextAgrees, TimerArmed, Serving
<1>2. ASSUME NEW j \in Jobs, TimePasses(j) PROVE Armed'
  <2>1. UNCHANGED <<stage, timer, tick, current>>
    BY <1>2 DEF TimePasses, startVars, timerVars
  <2>2. disk \in Stores /\ \A s \in Services : mem[s] \in Stores
    BY DEF Inv, TypeInv
  <2>3. /\ HasNext(disk') = HasNext(disk) /\ (Settled(disk) => Settled(disk'))
        /\ \A s \in Services : HasNext(mem'[s]) = HasNext(mem[s]) /\ (Settled(mem[s]) => Settled(mem'[s]))
    BY <1>2, <2>2, TimePassesEffect, ElapsedKeeps DEF Inv
  <2> QED BY <2>1, <2>3 DEF Armed, AllSettled, NextAgrees, TimerArmed, Serving
<1>3. ASSUME NEW s \in Services, Read(s) PROVE Armed'
  <2>1. s = current' /\ UNCHANGED <<stage, timer, tick>>
    BY <1>3 DEF Read, Serving, startVars, timerVars
  <2>2. Saved(s) /\ disk' = Maintained(mem[s]) /\ Settled(disk')
    BY <1>3, ReadEffect DEF Inv
  <2>3. HasNext(disk') = HasNext(mem[s])
    BY <2>2, MaintainedSettled DEF Armed, AllSettled, Inv, TypeInv
  <2>4. AllSettled /\ (stage[s] = "on" =>
          /\ tick[s] = "idle" => timer[s] = HasNext(mem[s])
          /\ tick[s] \in {"collect", "run"} => timer[s] \/ ~HasNext(mem[s]))
    BY DEF Armed, TimerArmed
  <2> QED BY <2>1, <2>2, <2>3, <2>4, ArmedSaved DEF Inv
<1>4. CASE UNCHANGED vars
  BY <1>4 DEF vars, storeVars, startVars, timerVars, Armed, AllSettled, NextAgrees, TimerArmed, Serving
<1> QED
  BY <1>1, <1>2, <1>3, <1>4

LEMMA ArmedNext == Inv /\ Inv' /\ Armed /\ [Next]_vars => Armed'
<1> SUFFICES ASSUME Inv, Inv', Armed, [Next]_vars PROVE Armed'
  OBVIOUS
<1>1. CASE \E s \in Services : Start(s) \/ Starting(s)
  BY <1>1, StartArmed
<1>2. CASE \E s \in Services : TimerFires(s) \/ Ticking(s)
  BY <1>2, TickArmed
<1>3. CASE \E s \in Services, j \in Jobs :
             UserEdits(s, j) \/ PreflightManual(s, j) \/ ReserveManual(s, j) \/ FinishManual(s, j)
  BY <1>3, UserArmed
<1>4. CASE Crash \/ (\E j \in Jobs : TimePasses(j)) \/ (\E s \in Services : Read(s)) \/ UNCHANGED vars
  BY <1>4, WorldArmed
<1> QED
  BY <1>1, <1>2, <1>3, <1>4 DEF Next

\* The scheduler is never left without a timer, nor with one that has nothing
\* to wait for, and a timer that fires during a tick leaves another one:
\* maintenance finds no missing time in any copy of the store.
THEOREM SchedulerArmed == Spec => []TimerArmed
<1>1. Init => Armed
  <2> SUFFICES ASSUME Init PROVE Armed
    OBVIOUS
  <2>1. \A s \in Services : stage[s] = "off" /\ mem[s] = [j \in Jobs |-> NoJob]
    BY DEF Init
  <2>2. Settled([j \in Jobs |-> NoJob])
    BY NewJobGood, NextRunAtValue DEF Settled, NoJob
  <2>3. \A j \in Jobs : disk[j] \in {NoJob, NewJob(j)}
    BY DEF Init
  <2>4. Settled(disk)
    <3>1. ASSUME NEW j \in Jobs, disk[j].next = "none" PROVE NextRunAt(j, disk[j]) = "none"
      <4>1. disk[j] = NoJob
        BY <2>3, <3>1 DEF NewJob
      <4> QED BY <4>1, NewJobGood, NextRunAtValue DEF NoJob
    <3> QED BY <3>1 DEF Settled
  <2> QED BY <2>1, <2>2, <2>4 DEF Armed, AllSettled, NextAgrees, TimerArmed, Serving
<1>2. Armed => TimerArmed
  BY DEF Armed
<1> QED
  BY <1>1, <1>2, InvInit, InvNext, ArmedNext, PTL DEF Spec

-----------------------------------------------------------------------------
(***************************************************************************)
(* What a step may do to a job: its own outcome, an edit or a start moves  *)
(* its slot, and only the user enables it.                                 *)
(***************************************************************************)
MovesSlot(j) ==
  \/ \E o \in Owners : j \in run[o] \ run'[o]
  \/ \E s \in Services : FinishStart(s) \/ j \in deferred[s]
  \/ \E s \in Services : UserEdits(s, j) \/ \E i \in Jobs : Add(s, i)

SlotStep(j) == Due(disk[j]) /\ disk'[j].next # "due" => MovesSlot(j)

Enables(j) == \E s \in Services : Enable(s, j) \/ Add(s, j)

SwitchStep(j) == ~disk[j].enabled /\ disk'[j].enabled => Enables(j)

LEMMA CopyAgrees ==
  ASSUME Inv, NEW s \in Services, Serving(s), NEW j \in Jobs
  PROVE  /\ Same(disk[j], mem[s][j]) /\ mem[s][j].enabled = disk[j].enabled
         /\ Due(disk[j]) => Due(mem[s][j])
BY SameDue DEF Inv, Copies, Same, Marks

LEMMA StartSteps ==
  ASSUME Inv, NEW s \in Services, Start(s) \/ Starting(s), NEW j \in Jobs
  PROVE  SlotStep(j) /\ SwitchStep(j)
<1> USE DEF SlotStep, SwitchStep
<1>1. CASE Start(s)
  BY <1>1 DEF Start, storeVars, Due
<1>2. CASE ClearMarkers(s)
  BY <1>2, ClearMarkersEffect DEF Inv, Due
<1>3. CASE PlanCatchup(s)
  <2>1. Serving(s)
    BY <1>3 DEF PlanCatchup, Inv, Calm, Serving
  <2>2. CASE UNCHANGED <<storeVars, run, deferred>>
    BY <2>2 DEF storeVars, Due
  <2>3. CASE disk'[j].enabled = mem[s][j].enabled /\ (Due(mem[s][j]) => Due(disk'[j]))
    BY <2>1, <2>3, CopyAgrees DEF Due
  <2> QED BY <1>3, <2>2, <2>3, PlanCatchupEffect DEF Inv
<1>4. CASE ApplyCatchup(s)
  <2>1. Serving(s) /\ run' = [run EXCEPT ![<<s, "start">>] = {}]
    BY <1>4 DEF ApplyCatchup, Release, Inv, Calm, Serving
  <2>2. /\ disk'[j].enabled => mem[s][j].enabled
        /\ j \notin run[<<s, "start">>] \union deferred[s] => Same(mem[s][j], disk'[j])
    BY <1>4, ApplyCatchupEffect DEF Inv
  <2>3. j \in run[<<s, "start">>] \union deferred[s] => MovesSlot(j)
    BY <2>1, OwnerKinds DEF MovesSlot, Inv, TypeInv
  <2> QED BY <2>1, <2>2, <2>3, CopyAgrees, SameDue DEF Due
<1>5. CASE FinishStart(s)
  <2>1. Serving(s) /\ MovesSlot(j)
    BY <1>5 DEF FinishStart, Inv, Calm, Serving, MovesSlot
  <2>2. disk'[j] = disk[j] \/ Marks(mem[s][j], disk'[j])
    BY <1>5, FinishStartEffect DEF Inv, storeVars
  <2> QED BY <2>1, <2>2, CopyAgrees DEF Marks
<1> QED
  BY <1>1, <1>2, <1>3, <1>4, <1>5 DEF Starting

LEMMA TickSteps ==
  ASSUME Inv, NEW s \in Services, TimerFires(s) \/ Ticking(s), NEW j \in Jobs
  PROVE  SlotStep(j) /\ SwitchStep(j)
<1> USE DEF SlotStep, SwitchStep
<1>1. CASE TimerFires(s) \/ EndTick(s)
  BY <1>1 DEF TimerFires, EndTick, storeVars, Due
<1>2. CASE CollectDue(s)
  BY <1>2, CollectDueEffect DEF Inv, Due
<1>3. CASE ApplyOutcomes(s)
  <2>1. run' = [run EXCEPT ![<<s, "tick">>] = {}]
    BY <1>3 DEF ApplyOutcomes, Release
  <2>2. j \in run[<<s, "tick">>] => MovesSlot(j)
    BY <2>1, OwnerKinds DEF MovesSlot, Inv, TypeInv
  <2>3. /\ disk'[j].enabled => disk[j].enabled
        /\ j \notin run[<<s, "tick">>] => Same(disk[j], disk'[j])
    BY <1>3, ApplyOutcomesEffect DEF Inv
  <2> QED BY <2>2, <2>3, SameDue DEF Due
<1> QED
  BY <1>1, <1>2, <1>3 DEF Ticking

LEMMA UserSteps ==
  ASSUME Inv, NEW s \in Services, NEW i \in Jobs, NEW j \in Jobs,
         UserEdits(s, i) \/ PreflightManual(s, i) \/ ReserveManual(s, i) \/ FinishManual(s, i)
  PROVE  SlotStep(j) /\ SwitchStep(j)
<1> USE DEF SlotStep, SwitchStep
<1>1. Serving(s)
  BY UserCalm DEF Inv
<1>2. mem[s][j].enabled = disk[j].enabled /\ (Due(disk[j]) => Due(mem[s][j]))
  BY <1>1, CopyAgrees
<1>3. CASE Add(s, i)
  <2>1. MovesSlot(j)
    BY <1>3 DEF MovesSlot
  <2>2. CASE i = j
    BY <1>3, <2>1, <2>2 DEF Enables
  <2>3. CASE i # j
    BY <1>2, <1>3, <2>1, <2>3, AddEffect DEF Inv, Marks
  <2> QED BY <2>2, <2>3
<1>4. CASE Disable(s, i) \/ Enable(s, i) \/ Reschedule(s, i) \/ Remove(s, i)
  <2>1. CASE i = j
    <3>1. MovesSlot(j)
      BY <1>4, <2>1 DEF MovesSlot, UserEdits
    <3>2. disk'[j].enabled => mem[s][j].enabled \/ Enable(s, j)
      BY <1>4, <2>1, EditEffect DEF Inv
    <3> QED BY <1>2, <3>1, <3>2 DEF Enables
  <2>2. CASE i # j
    BY <1>2, <1>4, <2>2, EditEffect DEF Inv, Due
  <2> QED BY <2>1, <2>2
<1>5. CASE PreflightManual(s, i)
  BY <1>5 DEF PreflightManual, Due
<1>6. CASE ReserveManual(s, i)
  <2>1. CASE ~(mem[s][i].here /\ ~mem[s][i].running)
    BY <1>6, <2>1 DEF ReserveManual, storeVars, Due
  <2>2. CASE mem[s][i].here /\ ~mem[s][i].running
    <3>1. disk'[j].enabled = mem[s][j].enabled /\ disk'[j].next = mem[s][j].next
      <4>1. CASE i = j
        BY <1>6, <2>2, <4>1, ReserveManualStore DEF Inv
      <4>2. CASE i # j
        BY <1>6, <2>2, <4>2, ReserveManualStore DEF Inv
      <4> QED BY <4>1, <4>2
    <3> QED BY <1>2, <3>1 DEF Due
  <2> QED BY <2>1, <2>2
<1>7. CASE FinishManual(s, i)
  <2>1. run' = [run EXCEPT ![<<s, "manual">>] = {}] /\ i \in run[<<s, "manual">>]
    BY <1>7 DEF FinishManual, Release
  <2>2. i = j => MovesSlot(j)
    BY <2>1, OwnerKinds DEF MovesSlot, Inv, TypeInv
  <2>3. \/ UNCHANGED disk
        \/ /\ i # j => Same(disk[j], disk'[j])
           /\ i = j => (disk'[j].enabled => disk[j].enabled \/ mem[s][j].enabled)
    BY <1>7, FinishManualEffect DEF Inv, storeVars
  <2> QED BY <1>2, <2>2, <2>3, SameDue DEF Due, Same, Marks
<1> QED
  BY <1>3, <1>4, <1>5, <1>6, <1>7 DEF UserEdits

LEMMA TimeSteps ==
  ASSUME TypeInv, NEW i \in Jobs, TimePasses(i), NEW j \in Jobs
  PROVE  Marks(disk[j], disk'[j]) /\ (Due(disk[j]) => Due(disk'[j]))
<1>1. disk \in Stores
  BY DEF TypeInv
<1>2. disk' = [disk EXCEPT ![i] = Elapsed(@)]
  BY TimePassesEffect
<1>3. Marks(disk[j], disk'[j])
  BY <1>1, <1>2, ElapsedStore
<1>4. disk'[j] = disk[j] \/ disk'[j] = Elapsed(disk[j])
  BY <1>1, <1>2 DEF Stores
<1>5. disk[j] \in GoodJobs
  BY <1>1 DEF Stores
<1>6. disk[j].next = "due" => disk'[j].next = "due"
  BY <1>4, <1>5, ElapsedJob
<1> QED
  BY <1>3, <1>6 DEF Marks, Due

LEMMA WorldSteps ==
  ASSUME Inv, NEW j \in Jobs,
         Crash \/ (\E i \in Jobs : TimePasses(i)) \/ (\E s \in Services : Read(s)) \/ UNCHANGED vars
  PROVE  SlotStep(j) /\ SwitchStep(j)
<1> USE DEF SlotStep, SwitchStep
<1>1. CASE Crash \/ UNCHANGED vars
  BY <1>1 DEF Crash, vars, storeVars, Due
<1>2. ASSUME NEW i \in Jobs, TimePasses(i) PROVE SlotStep(j) /\ SwitchStep(j)
  BY <1>2, TimeSteps DEF Inv, Marks, Due
<1>3. ASSUME NEW s \in Services, Read(s) PROVE SlotStep(j) /\ SwitchStep(j)
  <2>1. Serving(s) /\ Same(mem[s][j], disk'[j])
    BY <1>3, ReadEffect DEF Read, Inv
  <2> QED BY <2>1, CopyAgrees, SameDue DEF Due, Same, Marks
<1> QED
  BY <1>1, <1>2, <1>3

LEMMA JobSteps == Inv /\ [Next]_vars => \A j \in Jobs : SlotStep(j) /\ SwitchStep(j)
<1> SUFFICES ASSUME Inv, [Next]_vars, NEW j \in Jobs PROVE SlotStep(j) /\ SwitchStep(j)
  OBVIOUS
<1>1. CASE \E s \in Services : Start(s) \/ Starting(s)
  BY <1>1, StartSteps
<1>2. CASE \E s \in Services : TimerFires(s) \/ Ticking(s)
  BY <1>2, TickSteps
<1>3. CASE \E s \in Services, i \in Jobs :
             UserEdits(s, i) \/ PreflightManual(s, i) \/ ReserveManual(s, i) \/ FinishManual(s, i)
  BY <1>3, UserSteps
<1>4. CASE Crash \/ (\E i \in Jobs : TimePasses(i)) \/ (\E s \in Services : Read(s)) \/ UNCHANGED vars
  BY <1>4, WorldSteps
<1> QED
  BY <1>1, <1>2, <1>3, <1>4 DEF Next

\* No tick, catch-up or manual run moves a due slot of an enabled job away
\* without a run of that job, whatever copy of the store it saves.
THEOREM NoSlotSkipped == Spec => SlotsKept
<1>1. Inv /\ [Next]_vars =>
        [\A j \in Jobs : Due(disk[j]) /\ disk'[j].next # "due" =>
         \/ \E o \in Owners : j \in run[o] \ run'[o]
         \/ \E s \in Services : FinishStart(s) \/ j \in deferred[s]
         \/ \E s \in Services : UserEdits(s, j) \/ \E i \in Jobs : Add(s, i)]_vars
  BY JobSteps DEF SlotStep, MovesSlot
<1> QED
  BY <1>1, InvInit, InvNext, PTL DEF Spec, SlotsKept

-----------------------------------------------------------------------------
(***************************************************************************)
(* Who enables a job when services replace each other: every save starts   *)
(* from the file or from the memory of the service that saves.             *)
(***************************************************************************)
EnablesOrOld(j) == Enables(j) \/ \E s \in Services : mem[s][j].enabled

LEMMA OldCopySteps ==
  ASSUME TypeInv, [Next \/ \E t \in Services : Reload(t)]_vars, NEW j \in Jobs,
         ~disk[j].enabled, disk'[j].enabled
  PROVE  \E s \in Services : Enable(s, j) \/ Add(s, j) \/ mem[s][j].enabled
<1> SUFFICES EnablesOrOld(j)
  BY DEF EnablesOrOld, Enables
<1>1. ASSUME NEW s \in Services, Start(s) \/ Starting(s) PROVE EnablesOrOld(j)
  <2>1. CASE Start(s)
    BY <2>1 DEF Start, storeVars
  <2>2. CASE ClearMarkers(s)
    BY <2>2, ClearMarkersEffect
  <2>3. CASE PlanCatchup(s)
    BY <2>3, PlanCatchupEffect DEF EnablesOrOld, storeVars
  <2>4. CASE ApplyCatchup(s)
    BY <2>4, ApplyCatchupEffect DEF EnablesOrOld
  <2>5. CASE FinishStart(s)
    BY <2>5, FinishStartEffect DEF EnablesOrOld, storeVars, Marks
  <2> QED BY <1>1, <2>1, <2>2, <2>3, <2>4, <2>5 DEF Starting
<1>2. ASSUME NEW s \in Services, TimerFires(s) \/ Ticking(s) PROVE EnablesOrOld(j)
  <2>1. CASE TimerFires(s) \/ EndTick(s)
    BY <2>1 DEF TimerFires, EndTick, storeVars
  <2>2. CASE CollectDue(s)
    BY <2>2, CollectDueEffect
  <2>3. CASE ApplyOutcomes(s)
    BY <2>3, ApplyOutcomesEffect
  <2> QED BY <1>2, <2>1, <2>2, <2>3 DEF Ticking
<1>3. ASSUME NEW s \in Services, NEW i \in Jobs,
             UserEdits(s, i) \/ PreflightManual(s, i) \/ ReserveManual(s, i) \/ FinishManual(s, i)
      PROVE  EnablesOrOld(j)
  <2>1. CASE Add(s, i)
    <3>1. CASE i = j
      BY <2>1, <3>1 DEF EnablesOrOld, Enables
    <3>2. CASE i # j
      BY <2>1, <3>2, AddEffect DEF EnablesOrOld, Marks
    <3> QED BY <3>1, <3>2
  <2>2. CASE Disable(s, i) \/ Enable(s, i) \/ Reschedule(s, i) \/ Remove(s, i)
    <3>1. CASE i = j
      BY <2>2, <3>1, EditEffect DEF EnablesOrOld, Enables
    <3>2. CASE i # j
      BY <2>2, <3>2, EditEffect DEF EnablesOrOld
    <3> QED BY <3>1, <3>2
  <2>3. CASE PreflightManual(s, i)
    BY <2>3 DEF PreflightManual
  <2>4. CASE ReserveManual(s, i)
    <3>1. CASE ~(mem[s][i].here /\ ~mem[s][i].running)
      BY <2>4, <3>1 DEF ReserveManual, storeVars
    <3>2. CASE mem[s][i].here /\ ~mem[s][i].running
      BY <2>4, <3>2, ReserveManualStore DEF EnablesOrOld
    <3> QED BY <3>1, <3>2
  <2>5. CASE FinishManual(s, i)
    BY <2>5, FinishManualEffect DEF EnablesOrOld, storeVars, Same, Marks
  <2> QED BY <1>3, <2>1, <2>2, <2>3, <2>4, <2>5 DEF UserEdits
<1>4. ASSUME NEW i \in Jobs, TimePasses(i) PROVE EnablesOrOld(j)
  BY <1>4, TimeSteps DEF Marks
<1>5. ASSUME NEW s \in Services, Read(s) PROVE EnablesOrOld(j)
  BY <1>5, ReadEffect DEF EnablesOrOld, Same, Marks
<1>6. CASE Crash \/ (\E t \in Services : Reload(t)) \/ UNCHANGED vars
  BY <1>6 DEF Crash, Reload, vars, storeVars
<1> QED
  BY <1>1, <1>2, <1>3, <1>4, <1>5, <1>6 DEF Next

\* Only the user enables a job: while no reload replaces the service, the outcome
\* of a run that a disabled or removed job still had does not bring it back, and
\* after a reload at most from a copy in which it is still enabled.
THEOREM DisabledStaysDisabled ==
  (Spec => DisableSticks) /\ (ReloadSpec => DisabledUnlessOutdated)
<1>1. Inv /\ [Next]_vars =>
        [\A j \in Jobs : ~disk[j].enabled /\ disk'[j].enabled =>
           \E s \in Services : Enable(s, j) \/ Add(s, j)]_vars
  BY JobSteps DEF SwitchStep, Enables
<1>2. TypeInv /\ [Next \/ \E t \in Services : Reload(t)]_vars =>
        [\A j \in Jobs : ~disk[j].enabled /\ disk'[j].enabled =>
           \E s \in Services : Enable(s, j) \/ Add(s, j) \/ mem[s][j].enabled]_vars
  BY OldCopySteps
<1>3. TypeInv /\ [Next \/ \E t \in Services : Reload(t)]_vars => TypeInv'
  BY TypeNext
<1>4. Spec => DisableSticks
  BY <1>1, InvInit, InvNext, PTL DEF Spec, DisableSticks
<1>5. ReloadSpec => DisabledUnlessOutdated
  BY <1>2, <1>3, TypeInit, PTL DEF ReloadSpec, DisabledUnlessOutdated
<1> QED
  BY <1>4, <1>5

=============================================================================
