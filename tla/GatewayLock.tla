---------------------------- MODULE GatewayLock ----------------------------
(***************************************************************************)
(* The lock file that keeps a second gateway from starting,                *)
(* src/infra/gateway-lock.ts, together with what its callers do with it    *)
(* (cli/gateway-cli/run-loop.ts): acquire, start the server, which binds   *)
(* the port, serve, close the server, release, exit or start again in the  *)
(* same process.  Processes crash at any step; the file stays.             *)
(*                                                                         *)
(* A process start is an incarnation <<p, n>>: on Linux the payload's      *)
(* startTime tells a process from an earlier one with the same pid.        *)
(***************************************************************************)
EXTENDS Integers, FiniteSets

CONSTANTS
  Procs,       \* the processes that start gateways on one config and port
  Supervised,  \* does a start that finds the lock taken try again?
  NoFile,      \* the lock file does not exist
  NoOwner,     \* the lock file holds no payload (yet)
  MaxStarts,   \* bound: starts of each process
  MaxRestarts, \* bound: in-process restarts
  MaxCrashes   \* bound: crashes

ASSUME LockAssumption ==
  /\ Supervised \in BOOLEAN
  /\ MaxStarts \in Nat \ {0} /\ MaxRestarts \in Nat /\ MaxCrashes \in Nat
  /\ NoOwner \notin Procs \X Nat
  /\ NoFile \notin [by : Procs \X Nat, written : BOOLEAN, old : BOOLEAN]

VARIABLES
  pc,        \* pc[p]: where process p is
  starts,    \* starts[p]: the number of p's current incarnation
  lock,      \* lock[p]: does the run loop hold a lock handle?
  served,    \* served[p]: has a start succeeded (~isFirstStart)?
  file,      \* NoFile, or who created it, whether its payload is written, and
             \* whether it is older than staleMs
  seen,      \* seen[p]: the owner p read from the file, or NoOwner
  met,       \* history: met[p] is the owner p read if it was serving then and
             \* has served ever since, or NoOwner
  restarts, crashes   \* counters of the bounds

vars == <<pc, starts, lock, served, file, seen, met, restarts, crashes>>

PCs == {"off", "open", "write", "read", "judge", "remove", "wait", "starting",
        "listening", "failed", "idle", "release"}
Acquiring == {"open", "write", "read", "judge", "remove", "wait"}
Owners == Procs \X (0 .. MaxStarts)

LockTypeOK ==
  /\ pc \in [Procs -> PCs]
  /\ starts \in [Procs -> 0 .. MaxStarts]
  /\ lock \in [Procs -> BOOLEAN] /\ served \in [Procs -> BOOLEAN]
  /\ file \in {NoFile} \union
       [by : Owners, written : BOOLEAN, old : BOOLEAN]
  /\ seen \in [Procs -> Owners \union {NoOwner}]
  /\ met \in [Procs -> Owners \union {NoOwner}]
  /\ restarts \in 0 .. MaxRestarts /\ crashes \in 0 .. MaxCrashes

Init ==
  /\ pc = [p \in Procs |-> "off"]
  /\ starts = [p \in Procs |-> 0]
  /\ lock = [p \in Procs |-> FALSE] /\ served = [p \in Procs |-> FALSE]
  /\ file = NoFile
  /\ seen = [p \in Procs |-> NoOwner] /\ met = [p \in Procs |-> NoOwner]
  /\ restarts = 0 /\ crashes = 0

Me(p) == <<p, starts[p]>>
Alive(owner) == pc[owner[1]] # "off" /\ starts[owner[1]] = owner[2]
Serving(owner) == pc[owner[1]] = "listening" /\ starts[owner[1]] = owner[2]
Goto(p, l) == pc' = [pc EXCEPT ![p] = l]
Listening == \E p \in Procs : pc[p] = "listening"

\* p stops serving: nobody has met it any more.
StopsServing(p) == met' = [q \in Procs |-> IF met[q] = Me(p) THEN NoOwner ELSE met[q]]

-----------------------------------------------------------------------------
(* acquireGatewayLock.                                                     *)

Start(p) ==
  /\ pc[p] = "off" /\ starts[p] < MaxStarts
  /\ starts' = [starts EXCEPT ![p] = @ + 1]
  /\ served' = [served EXCEPT ![p] = FALSE]
  /\ Goto(p, "open")
  /\ UNCHANGED <<lock, file, seen, met, restarts, crashes>>

\* open(lockPath, "wx") creates the file ...
Create(p) ==
  /\ pc[p] = "open" /\ file = NoFile
  /\ file' = [by |-> Me(p), written |-> FALSE, old |-> FALSE]
  /\ Goto(p, "write")
  /\ UNCHANGED <<starts, lock, served, seen, met, restarts, crashes>>

\* ... or fails with EEXIST.
Exists(p) ==
  /\ pc[p] = "open" /\ file # NoFile
  /\ Goto(p, "read")
  /\ UNCHANGED <<starts, lock, served, file, seen, met, restarts, crashes>>

\* The payload goes to the file p created, whatever has the path by now.
WritePayload(p) ==
  /\ pc[p] = "write"
  /\ file' = IF file # NoFile /\ file.by = Me(p)
             THEN [file EXCEPT !.written = TRUE] ELSE file
  /\ lock' = [lock EXCEPT ![p] = TRUE]
  /\ Goto(p, "starting")
  /\ UNCHANGED <<starts, served, seen, met, restarts, crashes>>

ReadPayload(p) ==
  /\ pc[p] = "read"
  /\ LET owner == IF file # NoFile /\ file.written THEN file.by ELSE NoOwner IN
     /\ seen' = [seen EXCEPT ![p] = owner]
     /\ met' = [met EXCEPT ![p] =
          IF owner # NoOwner /\ Serving(owner) THEN owner ELSE NoOwner]
  /\ Goto(p, "judge")
  /\ UNCHANGED <<starts, lock, served, file, restarts, crashes>>

\* resolveGatewayOwnerStatus: when nobody listens on the port the owner is dead,
\* whoever it is; otherwise its pid and start time decide.
OwnerDead(p) == ~Listening \/ ~Alive(seen[p])

\* Mutant: without a payload the lock is never stale.
FileStale_Never == FALSE

\* No payload: the age of the file decides (a missing file is not stale).
FileStale == file # NoFile /\ file.old

\* Mutant: the age decides for an owner that is alive, too.
Judge_ByAge(p) ==
  /\ pc[p] = "judge"
  /\ IF FileStale \/ (seen[p] # NoOwner /\ OwnerDead(p))
     THEN Goto(p, "remove") ELSE Goto(p, "wait")
  /\ UNCHANGED <<starts, lock, served, file, seen, met, restarts, crashes>>

Judge(p) ==
  /\ pc[p] = "judge"
  /\ IF IF seen[p] # NoOwner THEN OwnerDead(p) ELSE FileStale
     THEN Goto(p, "remove") ELSE Goto(p, "wait")
  /\ UNCHANGED <<starts, lock, served, file, seen, met, restarts, crashes>>

\* rm(lockPath): whichever file has that path now.
RemoveLock(p) ==
  /\ pc[p] = "remove"
  /\ file' = NoFile
  /\ Goto(p, "open")
  /\ UNCHANGED <<starts, lock, served, seen, met, restarts, crashes>>

Poll(p) ==
  /\ pc[p] = "wait" /\ Goto(p, "open")
  /\ UNCHANGED <<starts, lock, served, file, seen, met, restarts, crashes>>

\* The timeout: "gateway already running".  The process exits; under a
\* supervisor its first acquisition is tried again, the one of a restart in
\* place is not.
GiveUp(p) ==
  /\ pc[p] = "wait"
  /\ Goto(p, IF Supervised /\ ~served[p] THEN "open" ELSE "off")
  /\ UNCHANGED <<starts, lock, served, file, seen, met, restarts, crashes>>

\* The file passes staleMs (30 s).
Age ==
  /\ file # NoFile /\ ~file.old
  /\ file' = [file EXCEPT !.old = TRUE]
  /\ UNCHANGED <<pc, starts, lock, served, seen, met, restarts, crashes>>

-----------------------------------------------------------------------------
(* The run loop.                                                           *)

\* startGatewayServer binds the port ...
Bind(p) ==
  /\ pc[p] = "starting" /\ ~Listening
  /\ served' = [served EXCEPT ![p] = TRUE]
  /\ Goto(p, "listening")
  /\ UNCHANGED <<starts, lock, file, seen, met, restarts, crashes>>

\* ... or throws: the port is taken, or for a reason of its own.
StartFails(p) ==
  /\ pc[p] = "starting" /\ Goto(p, "failed")
  /\ UNCHANGED <<starts, lock, served, file, seen, met, restarts, crashes>>

\* releaseLockIfHeld: lock.release() removes the file at the path.
ReleaseLockIfHeld(p) ==
  /\ file' = IF lock[p] THEN NoFile ELSE file
  /\ lock' = [lock EXCEPT ![p] = FALSE]

\* Bug: a process that stays up without a server keeps its lock.
AfterFailure_KeepsLock(p) ==
  /\ pc[p] = "failed"
  /\ IF served[p] THEN Goto(p, "idle") /\ UNCHANGED <<lock, file>>
                  ELSE Goto(p, "off") /\ ReleaseLockIfHeld(p)
  /\ UNCHANGED <<starts, served, seen, met, restarts, crashes>>

\* A first start that failed ends the process, a later one leaves it up without
\* a server; the lock is released either way.
AfterFailure(p) ==
  /\ pc[p] = "failed"
  /\ ReleaseLockIfHeld(p)
  /\ Goto(p, IF served[p] THEN "idle" ELSE "off")
  /\ UNCHANGED <<starts, served, seen, met, restarts, crashes>>

\* A signal ends the server, if there is one.
CloseServer(p) ==
  /\ pc[p] \in {"listening", "idle"}
  /\ StopsServing(p)
  /\ Goto(p, "release")
  /\ UNCHANGED <<starts, lock, served, file, seen, restarts, crashes>>

\* The lock is released; then the process exits ...
ReleaseAndExit(p) ==
  /\ pc[p] = "release"
  /\ ReleaseLockIfHeld(p)
  /\ Goto(p, "off")
  /\ UNCHANGED <<starts, served, seen, met, restarts, crashes>>

\* ... or starts over in place, and acquires the lock again if it had one.
ReleaseAndRestart(p) ==
  /\ pc[p] = "release" /\ restarts < MaxRestarts
  /\ restarts' = restarts + 1
  /\ ReleaseLockIfHeld(p)
  /\ Goto(p, IF lock[p] THEN "open" ELSE "starting")
  /\ UNCHANGED <<starts, served, seen, met, crashes>>

Crash(p) ==
  /\ pc[p] # "off" /\ crashes < MaxCrashes
  /\ crashes' = crashes + 1
  /\ StopsServing(p)
  /\ lock' = [lock EXCEPT ![p] = FALSE]
  /\ Goto(p, "off")
  /\ UNCHANGED <<starts, served, file, seen, restarts>>

Acquire(p) ==
  \/ Create(p) \/ Exists(p) \/ WritePayload(p) \/ ReadPayload(p)
  \/ Judge(p) \/ RemoveLock(p) \/ Poll(p)

StartServer(p) == Bind(p) \/ StartFails(p) \/ AfterFailure(p)

Release(p) == ReleaseAndExit(p) \/ ReleaseAndRestart(p)

Next ==
  \/ \E p \in Procs :
       \/ Start(p) \/ Acquire(p) \/ GiveUp(p) \/ StartServer(p)
       \/ CloseServer(p) \/ Release(p) \/ Crash(p)
  \/ Age

Spec == Init /\ [][Next]_vars

\* A process that runs makes its steps, and time passes.
Fairness ==
  /\ \A p \in Procs : /\ WF_vars(Acquire(p)) /\ WF_vars(StartServer(p))
                      /\ WF_vars(Release(p))
  /\ WF_vars(Age)

FairSpec == Spec /\ Fairness

-----------------------------------------------------------------------------
(* Properties.                                                             *)

(* A serving gateway keeps its lock against everybody who looks: a process *)
(* that read its payload while it was serving is not about to remove the   *)
(* file as long as it serves, however old the file is.  (A process that    *)
(* looked before, while it was starting, may be: LockOwned.)               *)
ServingKeepsLock == \A p \in Procs : pc[p] = "remove" => met[p] = NoOwner

(* Two gateways with a lock handle each, which a takeover of a gateway that*)
(* is starting brings about, do not stay: the port decides between them,   *)
(* and who does not get it gives its handle back.                          *)
BreachEnds ==
  \A p, q \in Procs :
    p # q => (lock[p] /\ lock[q] ~> ~(lock[p] /\ lock[q]))

(* At most one gateway believes that it holds the lock.  The code does not *)
(* keep this: the probe takes a gateway that is starting for a dead one.   *)
LockExclusive == \A p, q \in Procs : lock[p] /\ lock[q] => p = q

(* The file of a gateway stays until the gateway releases it, so that      *)
(* releasing removes nobody else's.  The code does not keep this either.   *)
LockOwned ==
  \A p \in Procs : lock[p] => file # NoFile /\ file.by = Me(p) /\ file.written

(* A start is refused for lack of a payload only while another gateway     *)
(* process is up: what "gateway already running" says.                     *)
DeniedOnlyByGateway ==
  [][\A p \in Procs : GiveUp(p) /\ seen[p] = NoOwner =>
       \E q \in Procs \ {p} : pc[q] # "off"]_vars

(* Whatever file a crash left behind, a supervised start that finds it does*)
(* not wait for ever: some process gets the lock, or none tries any more.  *)
LockNotStuck ==
  (\E p \in Procs : pc[p] \in Acquiring) ~>
    (\E q \in Procs : lock[q]) \/ (\A q \in Procs : pc[q] \notin Acquiring)
=============================================================================
