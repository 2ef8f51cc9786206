------------------------- MODULE ChannelManagerProofs -------------------------
(***************************************************************************)
(* Proofs about ChannelManager without the stopAccount hook, for any number*)
(* of boots, calls and restart attempts.                                   *)
(***************************************************************************)
EXTENDS ChannelManager, TLAPS

-----------------------------------------------------------------------------
(* The inductive invariant.                                                *)

Live(r) == pc[r] \in {"running", "backoff"}

\* A boot that counts as a restart has attempts left.
Budgeted(r) ==
  Live(r) \/ (pc[r] = "configuring" /\ auto[r]) => restartAttempts <= MaxAttempts

\* The maps name boots that are not over.
Entries ==
  /\ starting # NoBoot => pc[starting] = "configuring"
  /\ tasks # NoBoot => Live(tasks)
  /\ aborts # NoBoot => pc[aborts] # "over"

\* A waiting call has aborted its task.  When the task is over, what else there
\* is has been aborted as well: the cleanup takes the entries of nobody's provider.
CallOK(c) ==
  /\ call[c].stage # "hook"
  /\ call[c].stage = "waiting" /\ call[c].task # NoBoot =>
       aborted[call[c].task] /\ pc[call[c].task] # "configuring"
  /\ CanResume(c) =>
       \A r \in Boots : ~Live(r) /\ (pc[r] = "configuring" => aborted[r])

\* After a stop every boot was aborted, and a call waits for the provider.
Stopped(r) ==
  /\ Live(r) => \E c \in Calls : call[c].stage = "waiting" /\ call[c].task = r
  /\ pc[r] = "configuring" => aborted[r]

IInv ==
  /\ ChannelTypeOK
  /\ ProviderUnderControl
  /\ Entries
  /\ \A r \in Boots : Budgeted(r)
  /\ \A c \in Calls : CallOK(c)
  /\ ~wanted => \A r \in Boots : Stopped(r)

LEMMA Types ==
  ASSUME ChannelTypeOK
  PROVE  /\ starting \in Boots \cup {NoBoot}
         /\ aborts \in Boots \cup {NoBoot}
         /\ tasks \in Boots \cup {NoBoot}
         /\ restartAttempts \in Nat
         /\ \A r \in Boots : r # NoBoot
         /\ \A c \in Calls : call[c].task \in Boots \cup {NoBoot}
BY ChannelAssumption DEF ChannelTypeOK, Boots, NoBoot

LEMMA InitInv == Init => IInv
<1> SUFFICES ASSUME Init PROVE IInv
  OBVIOUS
<1>1. ChannelTypeOK
  <2>1. {manuallyStopped, running, wanted, userStopped, down} \subseteq BOOLEAN
    BY DEF Init
  <2>2. restartAttempts \in 0 .. MaxAttempts + 1
    BY ChannelAssumption DEF Init
  <2>3. NoCall \in [for : Purposes \cup {"none"}, stage : {"idle", "hook", "waiting", "stopped"},
                    task : Boots \cup {NoBoot}]
    BY DEF NoCall
  <2> QED
    BY <2>1, <2>2, <2>3 DEF Init, ChannelTypeOK
<1>2. ProviderUnderControl /\ Entries /\ \A r \in Boots : Budgeted(r)
  BY DEF Init, ProviderUnderControl, Entries, Budgeted, Live
<1>3. \A c \in Calls : CallOK(c)
  BY DEF Init, CallOK, CanResume, NoCall, Live
<1>4. \A r \in Boots : Stopped(r)
  BY DEF Init, Stopped, Live
<1> QED
  BY <1>1, <1>2, <1>3, <1>4 DEF IInv

-----------------------------------------------------------------------------
(* Starting an account, by whatever caller.                                *)

CallsKept ==
  /\ call' \in [Calls -> [for : Purposes \cup {"none"}, stage : {"idle", "hook", "waiting", "stopped"},
                          task : Boots \cup {NoBoot}]]
  /\ \A c \in Calls : call'[c] = call[c] \/ call'[c] = NoCall

LEMMA StartPreserves ==
  ASSUME IInv, StartAccount(FALSE, tasks, pc), CallsKept,
         \A c \in Calls : ~CanResume(c),
         restartAttempts' \in {restartAttempts, 0},
         manuallyStopped' = manuallyStopped, wanted' = TRUE, userStopped' \in BOOLEAN
  PROVE  IInv'
<1>1. CASE tasks # NoBoot \/ starting # NoBoot
  <2>1. UNCHANGED <<bootVars, storeVars, down, running, manuallyStopped>>
    BY <1>1, Types DEF StartAccount, Reserve, Reject, bootVars, storeVars, IInv
  <2>2. ChannelTypeOK'
    BY <2>1, Types, ChannelAssumption DEF IInv, ChannelTypeOK, CallsKept, bootVars, storeVars
  <2>3. (ProviderUnderControl /\ Entries)'
    BY <2>1 DEF IInv, ProviderUnderControl, Entries, Live, bootVars, storeVars
  <2>4. \A r \in Boots : Budgeted(r)'
    BY <2>1, ChannelAssumption DEF IInv, Budgeted, Live, bootVars
  <2>5. \A c \in Calls : CallOK(c)'
    BY <2>1 DEF IInv, CallsKept, NoCall, CallOK, CanResume, Over, Live, bootVars
  <2> QED
    BY <2>2, <2>3, <2>4, <2>5 DEF IInv
<1>2. ASSUME tasks = NoBoot, starting = NoBoot, Reserve(FALSE, pc), UNCHANGED <<tasks, running>>
      PROVE  IInv'
  <2>1. PICK b \in Free :
          /\ pc' = [pc EXCEPT ![b] = "configuring"]
          /\ auto' = [auto EXCEPT ![b] = FALSE]
          /\ aborted' = [aborted EXCEPT ![b] = FALSE]
          /\ starting' = b /\ aborts' = b /\ down' = down
    BY <1>2 DEF Reserve
  <2>2. b \in Boots /\ b # NoBoot /\ pc[b] = "over" /\ \A c \in Calls : call[c].task # b
    BY Types DEF Free, IInv
  <2>3. ChannelTypeOK'
    <3>1. {starting', aborts', tasks'} \subseteq Boots \cup {NoBoot}
      BY <1>2, <2>1, <2>2
    <3>2. {manuallyStopped', running', wanted', userStopped', down'} \subseteq BOOLEAN
      BY <1>2, <2>1 DEF IInv, ChannelTypeOK
    <3>3. restartAttempts' \in 0 .. MaxAttempts + 1
      BY ChannelAssumption DEF IInv, ChannelTypeOK
    <3> QED
      BY <2>1, <2>2, <3>1, <3>2, <3>3 DEF IInv, ChannelTypeOK, CallsKept
  <2>4. \A r \in Boots : ~Live(r) /\ pc[r] # "configuring"
    BY <1>2, Types DEF IInv, ProviderUnderControl, Live
  <2>5. \A r \in Boots : pc'[r] = IF r = b THEN "configuring" ELSE pc[r]
    BY <2>1 DEF IInv, ChannelTypeOK
  <2>6. (ProviderUnderControl /\ Entries)'
    BY <1>2, <2>1, <2>2, <2>4, <2>5 DEF ProviderUnderControl, Entries, Live
  <2>7. \A r \in Boots : Budgeted(r)'
    BY <2>1, <2>2, <2>4, <2>5 DEF IInv, ChannelTypeOK, Budgeted, Live
  <2>8. \A c \in Calls : CallOK(c)'
    BY <2>1, <2>2, <2>5 DEF IInv, ChannelTypeOK, CallsKept, NoCall, CallOK, CanResume, Over, Live
  <2> QED
    BY <2>3, <2>6, <2>7, <2>8 DEF IInv
<1>3. ASSUME tasks = NoBoot, starting = NoBoot, Reject(pc), tasks' = tasks, running' \in {running, FALSE}
      PROVE  IInv'
  <2>1. ChannelTypeOK'
    <3>1. {starting', aborts', tasks'} \subseteq Boots \cup {NoBoot}
      BY <1>3 DEF Reject
    <3>2. {manuallyStopped', running', wanted', userStopped', down'} \subseteq BOOLEAN
      BY <1>3 DEF IInv, ChannelTypeOK, Reject
    <3>3. restartAttempts' \in 0 .. MaxAttempts + 1
      BY ChannelAssumption DEF IInv, ChannelTypeOK
    <3> QED
      BY <1>3, <3>1, <3>2, <3>3 DEF IInv, ChannelTypeOK, CallsKept, Reject
  <2>2. \A r \in Boots : ~Live(r) /\ pc[r] # "configuring"
    BY <1>3, Types DEF IInv, ProviderUnderControl, Live
  <2>3. (ProviderUnderControl /\ Entries)' /\ \A r \in Boots : Budgeted(r)'
    BY <1>3, <2>2 DEF Reject, ProviderUnderControl, Entries, Budgeted, Live
  <2>4. \A c \in Calls : CallOK(c)'
    BY <1>3, <2>2 DEF Reject, IInv, CallsKept, NoCall, CallOK, CanResume, Over, Live
  <2> QED
    BY <2>1, <2>3, <2>4 DEF IInv
<1> QED
  BY <1>1, <1>2, <1>3 DEF StartAccount

-----------------------------------------------------------------------------
(* The end of a boot, and the start of its provider.                       *)

LEMMA ConfiguringFacts ==
  ASSUME IInv, NEW r \in Boots, pc[r] = "configuring"
  PROVE  /\ tasks = NoBoot /\ starting = r /\ (aborts = r \/ aborted[r])
         /\ \A q \in Boots : ~Live(q) /\ (pc[q] = "configuring" => q = r)
         /\ aborts # NoBoot => aborts = r
         /\ \A c \in Calls : call[c].stage = "waiting" => call[c].task # r
<1>1. tasks = NoBoot /\ starting = r /\ (aborts = r \/ aborted[r])
  BY DEF IInv, ProviderUnderControl
<1>2. \A q \in Boots : ~Live(q) /\ (pc[q] = "configuring" => q = r)
  BY <1>1, Types DEF IInv, ProviderUnderControl, Live
<1>3. aborts # NoBoot => aborts = r
  BY <1>1, <1>2, Types DEF IInv, ChannelTypeOK, Entries, Live
<1>4. \A c \in Calls : call[c].stage = "waiting" => call[c].task # r
  BY Types DEF IInv, CallOK
<1> QED
  BY <1>1, <1>2, <1>3, <1>4

\* Kept by every step but those of calls.
CallsSame == call' = call /\ wanted' = wanted /\ userStopped' = userStopped

LEMMA EndStartPreserves ==
  ASSUME IInv, NEW r \in Boots, pc[r] = "configuring", EndStart(r),
         restartAttempts' \in {restartAttempts, 0},
         {manuallyStopped', running', down'} \subseteq BOOLEAN
  PROVE  IInv'
<1>1. /\ tasks = NoBoot /\ starting = r
      /\ \A q \in Boots : ~Live(q) /\ (pc[q] = "configuring" => q = r)
      /\ aborts # NoBoot => aborts = r
  BY ConfiguringFacts
<1>2. tasks' = NoBoot /\ starting' = NoBoot /\ aborts' = NoBoot
  BY <1>1 DEF EndStart, Without
<1>3. \A q \in Boots : pc'[q] = IF q = r THEN "over" ELSE pc[q]
  BY DEF EndStart, IInv, ChannelTypeOK
<1>4. \A q \in Boots : ~Live(q)' /\ pc'[q] # "configuring"
  BY <1>1, <1>3 DEF Live
<1>5. ChannelTypeOK'
  <2>1. restartAttempts' \in 0 .. MaxAttempts + 1
    BY ChannelAssumption DEF IInv, ChannelTypeOK
  <2>2. {starting', aborts', tasks'} \subseteq Boots \cup {NoBoot}
    BY <1>2
  <2>3. {manuallyStopped', running', wanted', userStopped', down'} \subseteq BOOLEAN
    BY DEF EndStart, IInv, ChannelTypeOK
  <2> QED
    BY <2>1, <2>2, <2>3 DEF EndStart, IInv, ChannelTypeOK
<1>6. (ProviderUnderControl /\ Entries)' /\ \A q \in Boots : Budgeted(q)' /\ Stopped(q)'
  BY <1>2, <1>4 DEF ProviderUnderControl, Entries, Budgeted, Stopped, Live
<1>7. \A c \in Calls : CallOK(c)'
  <2> TAKE c \in Calls
  <2>1. call[c].task \in Boots \cup {NoBoot}
    BY Types DEF IInv
  <2> QED
    BY <1>4, <2>1 DEF IInv, EndStart, CallOK, CanResume
<1> QED
  BY <1>5, <1>6, <1>7 DEF IInv

LEMMA BootPreserves ==
  ASSUME IInv, NEW r \in Boots, Boot(r)
  PROVE  IInv'
<1>1. pc[r] = "configuring" /\ ~aborted[r]
  BY DEF Boot, MayBoot
<1>2. /\ tasks = NoBoot /\ starting = r /\ aborts = r
      /\ \A q \in Boots : ~Live(q) /\ (pc[q] = "configuring" => q = r)
      /\ \A c \in Calls : call[c].stage = "waiting" => call[c].task # r
  BY <1>1, ConfiguringFacts
<1>3. tasks' = r /\ starting' = NoBoot /\ aborts' = r
  BY <1>2 DEF Boot, Without
<1>4. \A q \in Boots : pc'[q] = IF q = r THEN "running" ELSE pc[q]
  BY DEF Boot, IInv, ChannelTypeOK
<1>5. r # NoBoot
  BY Types DEF IInv
<1>6. ChannelTypeOK'
  <2>1. restartAttempts' \in 0 .. MaxAttempts + 1
    BY ChannelAssumption DEF IInv, ChannelTypeOK, Boot
  <2>2. {starting', aborts', tasks'} \subseteq Boots \cup {NoBoot}
    BY <1>3
  <2>3. {manuallyStopped', running', wanted', userStopped', down'} \subseteq BOOLEAN
    BY DEF Boot, IInv, ChannelTypeOK
  <2> QED
    BY <2>1, <2>2, <2>3 DEF Boot, IInv, ChannelTypeOK
<1>7. (ProviderUnderControl /\ Entries)'
  BY <1>2, <1>3, <1>4, <1>5 DEF ProviderUnderControl, Entries, Live
<1>8. \A q \in Boots : Budgeted(q)'
  BY <1>1, <1>2, <1>4, ChannelAssumption DEF Boot, IInv, Budgeted, Live
<1>9. \A c \in Calls : ~CanResume(c)
  BY <1>1 DEF IInv, CallOK
<1>10. \A c \in Calls : CallOK(c)'
  BY <1>2, <1>4, <1>9 DEF Boot, IInv, CallOK, CanResume, Over
<1>11. wanted
  BY <1>1 DEF IInv, Stopped
<1> QED
  BY <1>6, <1>7, <1>8, <1>10, <1>11 DEF IInv, Boot

-----------------------------------------------------------------------------
(* The end of a provider and of its backoff.                               *)

LEMMA LiveFacts ==
  ASSUME IInv, NEW r \in Boots, Live(r)
  PROVE  /\ tasks = r /\ aborts = r /\ starting = NoBoot /\ r # NoBoot
         /\ \A q \in Boots : pc[q] # "configuring" /\ (Live(q) => q = r)
         /\ \A c \in Calls : ~CanResume(c)
         /\ restartAttempts \in 0 .. MaxAttempts
         /\ ~wanted => aborted[r]
<1>1. tasks = r /\ aborts = r /\ r # NoBoot
  BY Types DEF IInv, ProviderUnderControl, Live
<1>2. \A q \in Boots : pc[q] # "configuring" /\ (Live(q) => q = r)
  BY <1>1 DEF IInv, ProviderUnderControl, Live
<1>3. starting = NoBoot
  BY <1>2, Types DEF IInv, Entries
<1>4. \A c \in Calls : ~CanResume(c)
  BY DEF IInv, CallOK
<1>5. restartAttempts \in 0 .. MaxAttempts
  BY ChannelAssumption DEF IInv, ChannelTypeOK, Budgeted
<1>6. ~wanted => aborted[r]
  BY <1>1 DEF IInv, Stopped, CallOK
<1> QED
  BY <1>1, <1>2, <1>3, <1>4, <1>5, <1>6

LEMMA EndTaskPreserves ==
  ASSUME IInv, NEW r \in Boots, Live(r), EndTask(r),
         restartAttempts' \in 0 .. MaxAttempts + 1,
         {running', down'} \subseteq BOOLEAN
  PROVE  IInv'
<1>1. /\ tasks = r /\ aborts = r /\ starting = NoBoot
      /\ \A q \in Boots : pc[q] # "configuring" /\ (Live(q) => q = r)
  BY LiveFacts
<1>2. tasks' = NoBoot /\ starting' = NoBoot /\ aborts' = NoBoot
  BY <1>1 DEF EndTask, Without
<1>3. \A q \in Boots : pc'[q] = IF q = r THEN "over" ELSE pc[q]
  BY DEF EndTask, IInv, ChannelTypeOK
<1>4. \A q \in Boots : ~Live(q)' /\ pc'[q] # "configuring"
  BY <1>1, <1>3 DEF Live
<1>5. ChannelTypeOK'
  <2>1. {starting', aborts', tasks'} \subseteq Boots \cup {NoBoot}
    BY <1>2
  <2>2. {manuallyStopped', running', wanted', userStopped', down'} \subseteq BOOLEAN
    BY DEF EndTask, IInv, ChannelTypeOK
  <2> QED
    BY <2>1, <2>2 DEF EndTask, IInv, ChannelTypeOK
<1>6. (ProviderUnderControl /\ Entries)' /\ \A q \in Boots : Budgeted(q)' /\ Stopped(q)'
  BY <1>2, <1>4 DEF ProviderUnderControl, Entries, Budgeted, Stopped, Live
<1>7. \A c \in Calls : CallOK(c)'
  <2> TAKE c \in Calls
  <2>1. call[c].task \in Boots \cup {NoBoot}
    BY Types DEF IInv
  <2> QED
    BY <1>4, <2>1 DEF IInv, EndTask, CallOK, CanResume
<1> QED
  BY <1>5, <1>6, <1>7 DEF IInv

LEMMA ProviderExitsPreserves ==
  ASSUME IInv, NEW r \in Boots, ProviderExits(r)
  PROVE  IInv'
<1>1. Live(r) /\ pc[r] = "running"
  BY DEF ProviderExits, Live
<1>2. /\ tasks = r /\ aborts = r /\ starting = NoBoot /\ r # NoBoot
      /\ \A q \in Boots : pc[q] # "configuring" /\ (Live(q) => q = r)
      /\ \A c \in Calls : ~CanResume(c)
      /\ restartAttempts \in 0 .. MaxAttempts
  BY <1>1, LiveFacts
<1>3. CASE manuallyStopped \/ restartAttempts + 1 > MaxAttempts
  <2>1. EndTask(r) /\ restartAttempts' \in {restartAttempts, restartAttempts + 1}
        /\ running' = FALSE /\ down' = down
    BY <1>3 DEF ProviderExits
  <2>2. restartAttempts' \in 0 .. MaxAttempts + 1
    <3>1. restartAttempts \in 0 .. MaxAttempts
      BY <1>2
    <3> QED
      BY <2>1, <3>1, ChannelAssumption
  <2>3. {running', down'} \subseteq BOOLEAN
    BY <2>1 DEF IInv, ChannelTypeOK
  <2> QED
    BY <1>1, <2>1, <2>2, <2>3, EndTaskPreserves
<1>4. CASE ~manuallyStopped /\ restartAttempts + 1 <= MaxAttempts
  <2>1. /\ restartAttempts' = restartAttempts + 1 /\ running' = FALSE
        /\ pc' = [pc EXCEPT ![r] = "backoff"] /\ down' = ~aborted[r]
        /\ UNCHANGED <<auto, aborted, storeVars, manuallyStopped, call, wanted, userStopped>>
    BY <1>2, <1>4, ChannelAssumption DEF ProviderExits
  <2>2. \A q \in Boots : pc'[q] = IF q = r THEN "backoff" ELSE pc[q]
    BY <2>1 DEF IInv, ChannelTypeOK
  <2>3. ChannelTypeOK'
    <3>1. restartAttempts' \in 0 .. MaxAttempts + 1
      BY <1>2, <1>4, <2>1, ChannelAssumption
    <3>2. {manuallyStopped', running', wanted', userStopped', down'} \subseteq BOOLEAN
      BY <2>1 DEF IInv, ChannelTypeOK
    <3> QED
      BY <2>1, <3>1, <3>2 DEF IInv, ChannelTypeOK, storeVars
  <2>4. (ProviderUnderControl /\ Entries)'
    BY <1>2, <2>1, <2>2 DEF ProviderUnderControl, Entries, Live, storeVars
  <2>5. \A q \in Boots : Budgeted(q)'
    BY <1>2, <1>4, <2>1, <2>2, ChannelAssumption DEF Budgeted, Live
  <2>6. \A c \in Calls : CallOK(c)'
    BY <1>1, <1>2, <2>1, <2>2 DEF IInv, CallOK, CanResume, Over, Live
  <2>7. (~wanted => \A q \in Boots : Stopped(q))'
    BY <1>1, <2>1, <2>2 DEF IInv, Stopped, Live
  <2> QED
    BY <2>3, <2>4, <2>5, <2>6, <2>7 DEF IInv
<1> QED
  BY <1>2, <1>3, <1>4, ChannelAssumption

LEMMA BackoffAbortedPreserves ==
  ASSUME IInv, NEW r \in Boots, BackoffAborted(r)
  PROVE  IInv'
<1>1. Live(r) /\ EndTask(r)
  BY DEF BackoffAborted, Live
<1>2. restartAttempts' \in 0 .. MaxAttempts + 1 /\ {running', down'} \subseteq BOOLEAN
  BY DEF BackoffAborted, IInv, ChannelTypeOK
<1> QED
  BY <1>1, <1>2, EndTaskPreserves

LEMMA BackoffEndsPreserves ==
  ASSUME IInv, NEW r \in Boots, BackoffEnds(r)
  PROVE  IInv'
<1>1. Live(r) /\ pc[r] = "backoff" /\ ~aborted[r]
  BY DEF BackoffEnds, Live
<1>2. /\ tasks = r /\ aborts = r /\ starting = NoBoot /\ r # NoBoot
      /\ \A q \in Boots : pc[q] # "configuring" /\ (Live(q) => q = r)
      /\ \A c \in Calls : ~CanResume(c)
      /\ restartAttempts \in 0 .. MaxAttempts
      /\ wanted
  BY <1>1, LiveFacts
<1>3. CASE manuallyStopped
  <2>1. EndTask(r) /\ UNCHANGED <<restartAttempts, running, down>>
    BY <1>3 DEF BackoffEnds
  <2>2. restartAttempts' \in 0 .. MaxAttempts + 1 /\ {running', down'} \subseteq BOOLEAN
    BY <2>1 DEF IInv, ChannelTypeOK
  <2> QED
    BY <1>1, <2>1, <2>2, EndTaskPreserves
<1>4. CASE ~manuallyStopped
  <2> DEFINE over == [pc EXCEPT ![r] = "over"]
  <2>1. /\ tasks' = NoBoot
        /\ \/ Reserve(TRUE, over) /\ running' = running
           \/ Reject(over) /\ running' \in {running, FALSE}
        /\ UNCHANGED <<manuallyStopped, call, wanted, userStopped, restartAttempts>>
    BY <1>2, <1>4 DEF BackoffEnds, StartAccount, Without
  <2>2. \A q \in Boots : over[q] = IF q = r THEN "over" ELSE pc[q]
    BY DEF IInv, ChannelTypeOK
  <2>3. \A q \in Boots : over[q] = "over"
    BY <1>2, <2>2 DEF IInv, ChannelTypeOK, Live
  <2>4. over \in [Boots -> {"configuring", "running", "backoff", "over"}]
    BY DEF IInv, ChannelTypeOK
  <2>5. \A c \in Calls : call[c].stage = "waiting" => call[c].task \in Boots /\ call[c].task # r
    <3> SUFFICES ASSUME NEW c \in Calls, call[c].stage = "waiting"
                 PROVE  call[c].task \in Boots /\ call[c].task # r
      OBVIOUS
    <3>1. call[c].task \in Boots \cup {NoBoot}
      BY Types DEF IInv
    <3>2. call[c].task # NoBoot
      BY <1>2, Types DEF IInv, CanResume, Over
    <3> QED
      BY <1>1, <3>1, <3>2 DEF IInv, CallOK
  <2>6. \A c \in Calls : ~(call[c].stage = "waiting")
    BY <1>1, <1>2, <2>5 DEF IInv, ChannelTypeOK, CallOK, CanResume, Over, Live
  <2>7. CASE Reserve(TRUE, over) /\ running' = running
    <3> HIDE DEF over
    <3>1. PICK b \in Free :
            /\ pc' = [over EXCEPT ![b] = "configuring"]
            /\ auto' = [auto EXCEPT ![b] = TRUE]
            /\ aborted' = [aborted EXCEPT ![b] = FALSE]
            /\ starting' = b /\ aborts' = b /\ down' = down
      BY <2>7 DEF Reserve
    <3>2. b \in Boots /\ b # NoBoot
      BY Types DEF Free, IInv
    <3>3. \A q \in Boots : pc'[q] = IF q = b THEN "configuring" ELSE "over"
      BY <2>3, <2>4, <3>1, <3>2
    <3>4. ChannelTypeOK'
      <4>1. {starting', aborts', tasks'} \subseteq Boots \cup {NoBoot}
        BY <2>1, <3>1, <3>2
      <4>2. {manuallyStopped', running', wanted', userStopped', down'} \subseteq BOOLEAN
        BY <2>1, <2>7, <3>1 DEF IInv, ChannelTypeOK
      <4> QED
        BY <2>1, <2>4, <3>1, <3>2, <4>1, <4>2 DEF IInv, ChannelTypeOK
    <3>5. (ProviderUnderControl /\ Entries)'
      BY <2>1, <3>1, <3>2, <3>3 DEF ProviderUnderControl, Entries, Live
    <3>6. \A q \in Boots : Budgeted(q)'
      BY <1>2, <2>1, ChannelAssumption DEF Budgeted
    <3>7. \A c \in Calls : CallOK(c)'
      BY <2>1, <2>6 DEF IInv, CallOK, CanResume
    <3> QED
      BY <1>2, <2>1, <3>4, <3>5, <3>6, <3>7 DEF IInv
  <2>8. CASE Reject(over) /\ running' \in {running, FALSE}
    <3> HIDE DEF over
    <3>1. ChannelTypeOK'
      <4>1. {starting', aborts', tasks'} \subseteq Boots \cup {NoBoot}
        BY <2>1, <2>8 DEF Reject, IInv, ChannelTypeOK
      <4>2. {manuallyStopped', running', wanted', userStopped', down'} \subseteq BOOLEAN
        BY <2>1, <2>8 DEF IInv, ChannelTypeOK, Reject
      <4> QED
        BY <2>1, <2>4, <2>8, <4>1, <4>2 DEF IInv, ChannelTypeOK, Reject
    <3>2. (ProviderUnderControl /\ Entries)' /\ \A q \in Boots : Budgeted(q)'
      BY <1>2, <2>1, <2>3, <2>8 DEF Reject, ProviderUnderControl, Entries, Budgeted, Live
    <3>3. \A c \in Calls : CallOK(c)'
      BY <2>1, <2>6 DEF IInv, CallOK, CanResume
    <3> QED
      BY <1>2, <2>1, <3>1, <3>2, <3>3 DEF IInv
  <2> QED
    BY <2>1, <2>7, <2>8
<1> QED
  BY <1>3, <1>4

-----------------------------------------------------------------------------
(* Stop calls.                                                             *)

LEMMA StopChannelPreserves ==
  ASSUME IInv, ~StopHook, NEW c \in Calls, NEW purpose \in Purposes, StopChannel(c, purpose)
  PROVE  IInv'
<1>1. /\ call[c] = NoCall
      /\ aborted' = [r \in Boots |-> aborted[r] \/ r = aborts]
      /\ call' = [call EXCEPT ![c] =
           [for |-> purpose, task |-> tasks,
            stage |-> IF NothingToStop THEN "stopped" ELSE "waiting"]]
      /\ UNCHANGED <<pc, auto, storeVars, restartAttempts, running>>
      /\ wanted' = FALSE
  BY DEF StopChannel, StopAccount
<1>2. /\ call'[c].task = tasks
      /\ call'[c].stage = IF NothingToStop THEN "stopped" ELSE "waiting"
      /\ \A d \in Calls : d # c => call'[d] = call[d]
  BY <1>1 DEF IInv, ChannelTypeOK
<1>3. ChannelTypeOK'
  <2>1. tasks \in Boots \cup {NoBoot}
    BY Types DEF IInv
  <2>2. {manuallyStopped', running', wanted', userStopped', down'} \subseteq BOOLEAN
    <3>1. manuallyStopped' \in BOOLEAN /\ userStopped' \in BOOLEAN
      BY DEF StopChannel, StopAccount
    <3> QED
      BY <1>1, <3>1 DEF StopChannel, IInv, ChannelTypeOK
  <2> QED
    BY <1>1, <2>1, <2>2 DEF IInv, ChannelTypeOK, storeVars
<1>4. \A r \in Boots : aborted'[r] = (aborted[r] \/ r = aborts)
  BY <1>1
<1>5. (ProviderUnderControl /\ Entries)' /\ \A r \in Boots : Budgeted(r)'
  BY <1>1, <1>4 DEF IInv, ProviderUnderControl, Entries, Budgeted, Live, storeVars
<1>6. \A r \in Boots : pc[r] = "configuring" => aborted'[r]
  BY <1>4 DEF IInv, ProviderUnderControl
<1>7. ASSUME NEW r \in Boots, Live(r)
      PROVE  r = tasks /\ aborted'[r] /\ call'[c].stage = "waiting" /\ call'[c].task = r
  <2>1. tasks = r /\ aborts = r /\ r # NoBoot
    BY <1>7, LiveFacts
  <2> QED
    BY <1>2, <1>4, <2>1 DEF NothingToStop
<1>8. \A r \in Boots : Stopped(r)'
  BY <1>1, <1>6, <1>7 DEF Stopped, Live
<1>9. CallOK(c)'
  <2>1. call'[c].stage # "hook"
    BY <1>2
  <2>2. tasks # NoBoot => tasks \in Boots /\ Live(tasks)
    BY Types DEF IInv, Entries
  <2>3. tasks # NoBoot => aborted'[tasks] /\ pc[tasks] # "configuring" /\ pc[tasks] # "over"
    BY <1>7, <2>2 DEF Live
  <2>4. CanResume(c)' => tasks = NoBoot
    BY <1>1, <1>2, <2>2, <2>3 DEF CanResume, Over
  <2> QED
    BY <1>1, <1>2, <1>6, <1>7, <2>1, <2>3, <2>4, Types DEF CallOK, Live, IInv
<1>10. ASSUME NEW d \in Calls, d # c
       PROVE  CallOK(d)'
  <2>1. call'[d] = call[d] /\ call[d].task \in Boots \cup {NoBoot}
    BY <1>2, <1>10, Types DEF IInv
  <2> QED
    BY <1>1, <1>4, <2>1 DEF IInv, CallOK, CanResume, Over, Live
<1> QED
  BY <1>1, <1>3, <1>5, <1>8, <1>9, <1>10 DEF IInv

LEMMA StopResumesPreserves ==
  ASSUME IInv, NEW c \in Calls, StopResumes(c)
  PROVE  IInv'
<1>1. CanResume(c)
  BY DEF StopResumes, IInv, CallOK
<1>2. /\ aborts' = NoBoot /\ tasks' = NoBoot /\ running' = FALSE
      /\ call' = [call EXCEPT ![c].stage = "stopped", ![c].task = NoBoot]
      /\ UNCHANGED <<bootVars, starting, manuallyStopped, restartAttempts, history>>
  BY <1>1 DEF StopResumes, CanResume
<1>3. \A r \in Boots : ~Live(r) /\ (pc[r] = "configuring" => aborted[r])
  BY <1>1 DEF IInv, CallOK
<1>4. /\ call'[c].stage = "stopped" /\ call'[c].task = NoBoot
      /\ \A d \in Calls : d # c => call'[d] = call[d]
  BY <1>2 DEF IInv, ChannelTypeOK
<1>5. ChannelTypeOK'
  <2>1. {starting', aborts', tasks'} \subseteq Boots \cup {NoBoot}
    BY <1>2 DEF IInv, ChannelTypeOK
  <2>2. {manuallyStopped', running', wanted', userStopped', down'} \subseteq BOOLEAN
    BY <1>2 DEF IInv, ChannelTypeOK, history
  <2>3. call' \in [Calls -> [for : Purposes \cup {"none"}, stage : {"idle", "hook", "waiting", "stopped"},
                             task : Boots \cup {NoBoot}]]
    BY <1>2 DEF IInv, ChannelTypeOK
  <2> QED
    BY <1>2, <2>1, <2>2, <2>3 DEF IInv, ChannelTypeOK, bootVars
<1>6. (ProviderUnderControl /\ Entries)'
  BY <1>2, <1>3 DEF IInv, ProviderUnderControl, Entries, Live, bootVars
<1>7. \A r \in Boots : Budgeted(r)'
  BY <1>2 DEF IInv, Budgeted, Live, bootVars
<1>8. CallOK(c)'
  BY <1>4 DEF CallOK, CanResume
<1>9. ASSUME NEW d \in Calls, d # c
      PROVE  CallOK(d)'
  <2>1. call'[d] = call[d] /\ pc' = pc /\ aborted' = aborted
    BY <1>2, <1>4, <1>9 DEF bootVars
  <2>2. CallOK(d)
    BY DEF IInv
  <2> QED
    BY <2>1, <2>2 DEF CallOK, CanResume, Over, Live
<1>10. (~wanted => \A r \in Boots : Stopped(r))'
  BY <1>2, <1>3 DEF Stopped, Live, bootVars
<1> QED
  BY <1>5, <1>6, <1>7, <1>8, <1>9, <1>10 DEF IInv

LEMMA StopReturnsPreserves ==
  ASSUME IInv, NEW c \in Calls, StopReturns(c)
  PROVE  IInv'
<1>1. /\ call[c].stage = "stopped"
      /\ running' \in {FALSE, running}
      /\ call' = [call EXCEPT ![c] = NoCall]
      /\ UNCHANGED <<bootVars, storeVars, manuallyStopped, restartAttempts, history>>
  BY DEF StopReturns
<1>2. call'[c] = NoCall /\ \A d \in Calls : d # c => call'[d] = call[d]
  BY <1>1 DEF IInv, ChannelTypeOK
<1>3. ChannelTypeOK'
  <2>1. {manuallyStopped', running', wanted', userStopped', down'} \subseteq BOOLEAN
    BY <1>1 DEF IInv, ChannelTypeOK, history
  <2>2. NoCall \in [for : Purposes \cup {"none"}, stage : {"idle", "hook", "waiting", "stopped"},
                    task : Boots \cup {NoBoot}]
    BY DEF NoCall
  <2> QED
    BY <1>1, <2>1, <2>2 DEF IInv, ChannelTypeOK, bootVars, storeVars
<1>4. (ProviderUnderControl /\ Entries)' /\ \A r \in Boots : Budgeted(r)'
  BY <1>1 DEF IInv, ProviderUnderControl, Entries, Budgeted, Live, bootVars, storeVars
<1>5. \A d \in Calls : CallOK(d)'
  BY <1>1, <1>2 DEF IInv, NoCall, CallOK, CanResume, Over, Live, bootVars
<1>6. (~wanted => \A r \in Boots : Stopped(r))'
  BY <1>1, <1>2 DEF IInv, Stopped, Live, bootVars, history
<1> QED
  BY <1>3, <1>4, <1>5, <1>6 DEF IInv

LEMMA RestartStoppedPreserves ==
  ASSUME IInv, NEW c \in Calls, RestartStopped(c), \A d \in Calls : ~CanResume(d)
  PROVE  IInv'
<1>1. CallsKept
  <2>1. NoCall \in [for : Purposes \cup {"none"}, stage : {"idle", "hook", "waiting", "stopped"},
                    task : Boots \cup {NoBoot}]
    BY DEF NoCall
  <2> QED
    BY <2>1 DEF RestartStopped, CallsKept, IInv, ChannelTypeOK
<1>2. /\ StartAccount(FALSE, tasks, pc)
      /\ restartAttempts' \in {restartAttempts, 0} /\ manuallyStopped' = manuallyStopped
      /\ wanted' = TRUE /\ userStopped' \in BOOLEAN
  BY DEF RestartStopped
<1> QED
  BY <1>1, <1>2, StartPreserves

-----------------------------------------------------------------------------
LEMMA StepInv ==
  ASSUME IInv, ~StopHook, [Next]_vars
  PROVE  IInv'
<1>1. CASE UNCHANGED vars
  <2>1. UNCHANGED <<pc, auto, aborted, starting, aborts, tasks, manuallyStopped,
                    restartAttempts, running, call, wanted, userStopped, down>>
    BY <1>1 DEF vars, bootVars, storeVars, history
  <2>2. ChannelTypeOK' /\ ProviderUnderControl' /\ Entries' /\ \A r \in Boots : Budgeted(r)'
    BY <2>1 DEF IInv, ChannelTypeOK, ProviderUnderControl, Entries, Budgeted, Live
  <2>3. \A c \in Calls : CallOK(c)'
    BY <2>1 DEF IInv, CallOK, CanResume, Over, Live
  <2>4. (~wanted => \A r \in Boots : Stopped(r))'
    BY <2>1 DEF IInv, Stopped, Live
  <2> QED
    BY <2>2, <2>3, <2>4 DEF IInv
<1>2. CASE \E r \in Boots : BackoffAborted(r)
  BY <1>2, BackoffAbortedPreserves
<1>3. ASSUME NEW c \in Calls, Stopping(c),
             call[c].stage = "stopped" => ~\E d \in Calls : CanResume(d)
      PROVE  IInv'
  <2>1. CASE RestartStopped(c)
    BY <1>3, <2>1, RestartStoppedPreserves DEF RestartStopped
  <2> QED
    BY <1>3, <2>1, StopResumesPreserves, StopReturnsPreserves DEF Stopping
<1>4. CASE ~Microtask /\ Callback
  <2>1. \A c \in Calls : ~CanResume(c)
    BY <1>4 DEF Microtask
  <2>2. ASSUME UNCHANGED call
        PROVE  CallsKept
    BY <2>2 DEF CallsKept, IInv, ChannelTypeOK
  <2>3. CASE StartChannel
    BY <2>1, <2>2, <2>3, StartPreserves DEF StartChannel
  <2>4. ASSUME NEW r \in Boots, Starting(r)
        PROVE  IInv'
    <3>1. CASE Boot(r)
      BY <3>1, BootPreserves
    <3>2. CASE NotConfigured(r)
      <4>1. {manuallyStopped', running', down'} \subseteq BOOLEAN
        BY <3>2 DEF NotConfigured, IInv, ChannelTypeOK
      <4> QED
        BY <3>2, <4>1, EndStartPreserves DEF NotConfigured
    <3>3. CASE AbandonStart(r)
      <4>1. {manuallyStopped', running', down'} \subseteq BOOLEAN
        BY <3>3 DEF AbandonStart, IInv, ChannelTypeOK
      <4> QED
        BY <3>3, <4>1, EndStartPreserves DEF AbandonStart
    <3>4. CASE BootThrows(r)
      <4>1. {manuallyStopped', running', down'} \subseteq BOOLEAN
        BY <3>4 DEF BootThrows, IInv, ChannelTypeOK
      <4> QED
        BY <3>4, <4>1, EndStartPreserves DEF BootThrows
    <3> QED
      BY <2>4, <3>1, <3>2, <3>3, <3>4 DEF Starting
  <2>5. CASE \E r \in Boots : ProviderExits(r) \/ BackoffEnds(r)
    BY <2>5, ProviderExitsPreserves, BackoffEndsPreserves
  <2>6. CASE \E c \in Calls, purpose \in {"stop", "reload", "logout"} : StopChannel(c, purpose)
    BY <2>6, StopChannelPreserves DEF Purposes
  <2>7. CASE \E c \in Calls : MonitorStops(c)
    BY <2>7, StopChannelPreserves DEF MonitorStops, Purposes
  <2>8. CASE MonitorStarts
    <3>1. userStopped' \in BOOLEAN
      BY <2>8 DEF MonitorStarts, IInv, ChannelTypeOK
    <3> QED
      BY <2>1, <2>2, <2>8, <3>1, StartPreserves DEF MonitorStarts
  <2> QED
    BY <1>4, <2>3, <2>4, <2>5, <2>6, <2>7, <2>8 DEF Callback
<1> QED
  BY <1>1, <1>2, <1>3, <1>4 DEF Next

LEMMA StoppedSticks == ASSUME IInv PROVE StopSticks
<1> SUFFICES ASSUME ~wanted, \A c \in Calls : call[c].stage \notin {"hook", "waiting"},
                    NEW r \in Boots
             PROVE  ~Live(r) /\ (pc[r] = "configuring" => ~MayBoot(r))
  BY DEF StopSticks, Live
<1> QED
  BY DEF IInv, Stopped, MayBoot

(* Crashes are counted up to the limit, whatever the monitor, stops and     *)
(* lost starts do to the counter, and every variable has its type.          *)
THEOREM ChannelTypeCorrect == ASSUME ~StopHook PROVE Spec => []ChannelTypeOK
<1>1. Init => IInv
  BY InitInv
<1>2. IInv /\ [Next]_vars => IInv'
  BY StepInv
<1>3. IInv => ChannelTypeOK
  BY DEF IInv
<1> QED
  BY <1>1, <1>2, <1>3, PTL DEF Spec

(* Without a stopAccount hook there is never a second provider, and every   *)
(* one can be stopped (startChannelInternal, stopChannel).                  *)
THEOREM OneProvider == ASSUME ~StopHook PROVE Spec => []ProviderUnderControl
<1>1. Init => IInv
  BY InitInv
<1>2. IInv /\ [Next]_vars => IInv'
  BY StepInv
<1>3. IInv => ProviderUnderControl
  BY DEF IInv
<1> QED
  BY <1>1, <1>2, <1>3, PTL DEF Spec

(* Without the hook, a stop that has returned leaves nothing that runs and  *)
(* nothing that would start the account by itself.                          *)
THEOREM StopsHold == ASSUME ~StopHook PROVE Spec => []StopSticks
<1>1. Init => IInv
  BY InitInv
<1>2. IInv /\ [Next]_vars => IInv'
  BY StepInv
<1>3. IInv => StopSticks
  BY StoppedSticks
<1> QED
  BY <1>1, <1>2, <1>3, PTL DEF Spec
=============================================================================
