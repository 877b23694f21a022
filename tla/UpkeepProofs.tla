---------------------------- MODULE UpkeepProofs ----------------------------
(***************************************************************************)
(* What the service does beside answering requests: it keeps its catalogs   *)
(* current (CatalogSync) and its Grok credential renewed (CredentialGate).   *)
(*                                                                           *)
(* For any number of versions, attempts and restarts and any period, the     *)
(* live routing only advances to what is on disk, the watch describes it,    *)
(* and the attempts are bounded.  For any set of requests, at most one       *)
(* renewal runs and nobody misses its end.                                   *)
(***************************************************************************)
EXTENDS CatalogSync, CredentialGate, TLAPS

\* What a running synchronization has published is still on disk, unless the
\* picker was uninstalled meanwhile.
ReceiptOnDisk == pc \in {"verify", "publish"} => disk \in {receipt, Absent}

\* A synchronization starts from no attempt and only repeats while there is one
\* left.
AttemptsLeft ==
  /\ pc \in {"wait", "refresh"} => attempt = 0
  /\ pc = "sync" => attempt < MaxAttempts

IInv == TypeOK /\ AttemptsLeft /\ ReceiptOnDisk /\ WatchDescribesLive

-------------------------------------------------------------------------------

\* The inputs on disk are a picker's.
LEMMA CurrentPicker ==
  ASSUME TypeOK
  PROVE  Current \in Picker
BY DEF TypeOK, Current, Picker

\* The task starts with nothing attempted, received or watched.
LEMMA InitHolds == Init => IInv
<1> SUFFICES ASSUME Init PROVE IInv
  OBVIOUS
<1>1. native \in Versions /\ grok \in Versions /\ 0 \in Versions
  BY CatalogSyncAssumption DEF Init, Versions
<1>2. disk \in Picker /\ live \in Picker
  BY <1>1 DEF Init, Boot, Picker
<1>3. pc \in {"refresh", "sync"} /\ attempt = 0 /\ 0 < MaxAttempts
  BY CatalogSyncAssumption DEF Init, Boot
<1>4. TypeOK
  <2>1. /\ 0 \in 0 .. MaxAttempts /\ 0 \in 0 .. MaxRestarts
        /\ 0 \in 0 .. Period /\ Period \in 0 .. Period
    BY CatalogSyncAssumption
  <2>2. QED
    BY <1>1, <1>2, <1>3, <2>1 DEF Init, TypeOK
<1>5. QED
  BY <1>3, <1>4 DEF Init, IInv, AttemptsLeft, ReceiptOnDisk, WatchDescribesLive

\* A synchronization that ends without a publication.
LEMMA DeferKeeps ==
  ASSUME IInv, NEW kept \in {watch, Absent}, Defer(kept)
  PROVE  IInv'
BY CatalogSyncAssumption
   DEF IInv, TypeOK, AttemptsLeft, ReceiptOnDisk, WatchDescribesLive, Defer, inputs, Picker,
       Versions

\* The steps of the task.
LEMMA TaskKeeps ==
  ASSUME IInv, Task
  PROVE  IInv'
<1> USE CatalogSyncAssumption DEF IInv, inputs, timers
<1>1. CASE SyncDisk
  <2>1. Current \in Picker
    BY CurrentPicker
  <2>2. TypeOK'
    BY <1>1, <2>1 DEF SyncDisk, TypeOK, AttemptsLeft, Picker, Versions
  <2>3. QED
    BY <1>1, <2>2 DEF SyncDisk, AttemptsLeft, ReceiptOnDisk, WatchDescribesLive
<1>2. CASE SyncFails \/ NothingInstalled \/ VerifyGivesUp
  BY <1>2, DeferKeeps DEF SyncFails, NothingInstalled, VerifyGivesUp
<1>3. CASE VerifyAgain
  BY <1>3 DEF VerifyAgain, TypeOK, AttemptsLeft, ReceiptOnDisk, WatchDescribesLive, Picker,
              Versions
<1>4. CASE Verified
  BY <1>4 DEF Verified, TypeOK, AttemptsLeft, ReceiptOnDisk, WatchDescribesLive, Picker,
              Versions
<1>5. CASE Publish
  BY <1>5 DEF Publish, TypeOK, AttemptsLeft, ReceiptOnDisk, WatchDescribesLive, Picker,
              Versions
<1>6. CASE PollNative
  BY <1>6 DEF PollNative, Decide, TypeOK, AttemptsLeft, ReceiptOnDisk, WatchDescribesLive,
              Picker, Versions
<1>7. CASE RefreshTick
  BY <1>7 DEF RefreshTick, TypeOK, AttemptsLeft, ReceiptOnDisk, WatchDescribesLive, Picker,
              Versions
<1>8. CASE RefreshSucceeds
  BY <1>8 DEF RefreshSucceeds, TypeOK, AttemptsLeft, ReceiptOnDisk, WatchDescribesLive,
              Picker, Versions
<1>9. CASE RefreshFails
  BY <1>9 DEF RefreshFails, Decide, TypeOK, AttemptsLeft, ReceiptOnDisk, WatchDescribesLive,
              Picker, Versions
<1>10. QED
  BY <1>1, <1>2, <1>3, <1>4, <1>5, <1>6, <1>7, <1>8, <1>9 DEF Task

\* The steps of everybody else.
LEMMA EnvironmentKeeps ==
  ASSUME IInv, Elapse \/ InputChanges \/ PickerUninstalled \/ Restart
  PROVE  IInv'
<1> USE CatalogSyncAssumption DEF IInv, inputs, timers
<1>1. CASE Elapse
  <2>1. ASSUME NEW time \in 0 .. Period PROVE Less(time) \in 0 .. Period
    BY DEF Less
  <2>2. QED
    BY <1>1, <2>1 DEF Elapse, TypeOK, AttemptsLeft, ReceiptOnDisk, WatchDescribesLive,
                      Picker, Versions
<1>2. CASE InputChanges
  BY <1>2 DEF InputChanges, TypeOK, AttemptsLeft, ReceiptOnDisk, WatchDescribesLive, Picker,
              Versions
<1>3. CASE PickerUninstalled
  BY <1>3 DEF PickerUninstalled, TypeOK, AttemptsLeft, ReceiptOnDisk, WatchDescribesLive,
              Picker, Versions
<1>4. CASE Restart
  <2>1. live' \in Picker
    BY <1>4 DEF Restart, Boot, TypeOK, Picker
  <2>2. pc' \in {"refresh", "sync"} /\ attempt' = 0 /\ watch' = Absent
    BY <1>4 DEF Restart, Boot
  <2>3. /\ 0 \in 0 .. MaxAttempts /\ restarts + 1 \in 0 .. MaxRestarts
        /\ 0 \in 0 .. Period /\ Period \in 0 .. Period
    BY <1>4 DEF Restart, TypeOK
  <2>4. /\ UNCHANGED <<native, grok, disk>> /\ restarts' = restarts + 1
        /\ started' = FALSE /\ receipt' = Absent
        /\ untilPoll' = Period /\ untilRefresh' = Period /\ untilRetry' = 0
    BY <1>4 DEF Restart
  <2>5. TypeOK'
    BY <2>1, <2>2, <2>3, <2>4 DEF TypeOK, Picker, Versions
  <2>6. QED
    BY <2>2, <2>5 DEF AttemptsLeft, ReceiptOnDisk, WatchDescribesLive
<1>5. QED
  BY <1>1, <1>2, <1>3, <1>4

\* IInv is an invariant.
LEMMA InvariantHolds == Spec => []IInv
<1>1. IInv /\ UNCHANGED vars => IInv'
  BY DEF IInv, TypeOK, AttemptsLeft, ReceiptOnDisk, WatchDescribesLive, vars, inputs, timers,
         Picker, Versions
<1>2. IInv /\ [Next]_vars => IInv'
  BY <1>1, TaskKeeps, EnvironmentKeeps DEF Next
<1>3. QED
  BY <1>2, InitHolds, PTL DEF Spec

-------------------------------------------------------------------------------

\* The type invariant, with the bound on the attempts of one synchronization.
THEOREM TypeCorrect == Spec => []TypeOK
<1>1. IInv => TypeOK
  BY DEF IInv
<1>2. QED
  BY <1>1, InvariantHolds, PTL

\* The watch a poll compares with is that of the live routing.
THEOREM WatchDescribesLiveHolds == Spec => []WatchDescribesLive
<1>1. IInv => WatchDescribesLive
  BY DEF IInv
<1>2. QED
  BY <1>1, InvariantHolds, PTL

\* The live routing never gets ahead of the picker on disk.
THEOREM LiveFollowsDiskHolds == Spec => LiveFollowsDisk
<1>1. IInv /\ [Next]_vars => [live' # live /\ restarts' = restarts => disk \in {live', Absent}]_vars
  <2> SUFFICES ASSUME IInv, Next, live' # live, restarts' = restarts
               PROVE  disk \in {live', Absent}
    BY DEF vars, inputs, timers
  <2>1. ~Restart
    BY CatalogSyncAssumption DEF IInv, TypeOK, Restart
  <2>2. Publish
    BY <2>1 DEF Next, Task, SyncDisk, SyncFails, NothingInstalled, VerifyAgain, VerifyGivesUp,
               Verified, PollNative, RefreshTick, RefreshSucceeds, RefreshFails, Elapse,
               InputChanges, PickerUninstalled, Defer
  <2>3. QED
    BY <2>2 DEF Publish, IInv, ReceiptOnDisk
<1>2. QED
  BY <1>1, InvariantHolds, PTL DEF Spec, LiveFollowsDisk

-------------------------------------------------------------------------------
(* The shared renewal of CredentialGate. *)

\* Every request starts at its first load, with the gate free.
LEMMA RenewalTypeInit == RenewalInit => RenewalTypeOK
<1> SUFFICES ASSUME RenewalInit PROVE RenewalTypeOK
  OBVIOUS
<1> USE DEF RenewalInit, FileStates, Locations, Leading, Results
<1>1. file \in FileStates /\ changes \in 0 .. MaxChanges /\ generation \in Nat
  BY ChangesAssumption
<1>2. where \in [Requests -> Locations] /\ result \in [Requests -> Results]
  OBVIOUS
<1>3. initial \in [Requests -> {"none", "stale"}] /\ seen \in [Requests -> Nat]
  OBVIOUS
<1>4. late \in [Requests -> BOOLEAN] /\ inFlight \in BOOLEAN
  OBVIOUS
<1> QED
  BY <1>1, <1>2, <1>3, <1>4 DEF RenewalTypeOK

\* The steps of one request, and of its environment.
LEMMA RenewalTypeStep == RenewalTypeOK /\ [RenewalNext]_renewalVars => RenewalTypeOK'
<1> SUFFICES ASSUME RenewalTypeOK, [RenewalNext]_renewalVars PROVE RenewalTypeOK'
  OBVIOUS
<1> USE ChangesAssumption
    DEF RenewalTypeOK, FileStates, Locations, Leading, Results, Goto, Return
<1>1. ASSUME NEW r \in Requests, Load(r) PROVE RenewalTypeOK'
  BY <1>1 DEF Load
<1>2. ASSUME NEW r \in Requests, Lead(r) PROVE RenewalTypeOK'
  BY <1>2 DEF Lead
<1>3. ASSUME NEW r \in Requests, Join(r) PROVE RenewalTypeOK'
  BY <1>3 DEF Join
<1>4. ASSUME NEW r \in Requests, Recheck(r) PROVE RenewalTypeOK'
  BY <1>4 DEF Recheck
<1>5. ASSUME NEW r \in Requests, Reload(r) PROVE RenewalTypeOK'
  BY <1>5 DEF Reload
<1>6. ASSUME NEW r \in Requests, RunHelper(r) PROVE RenewalTypeOK'
  BY <1>6 DEF RunHelper
<1>7. ASSUME NEW r \in Requests, Poll(r) PROVE RenewalTypeOK'
  BY <1>7 DEF Poll
<1>8. ASSUME NEW r \in Requests, EndRenewal(r) PROVE RenewalTypeOK'
  <2>1. \A q \in Requests : where'[q] \in Locations
    BY <1>8 DEF EndRenewal
  <2>2. where' \in [Requests -> Locations]
    BY <1>8, <2>1 DEF EndRenewal
  <2>3. generation' \in Nat
    BY <1>8 DEF EndRenewal
  <2>4. inFlight' \in BOOLEAN
    BY <1>8, Zenon DEF EndRenewal
  <2>5. UNCHANGED <<file, changes, result, initial, late, seen>>
    BY <1>8 DEF EndRenewal
  <2>6. file' \in FileStates /\ changes' \in 0 .. MaxChanges
    BY <2>5
  <2>7. result' \in [Requests -> Results] /\ initial' \in [Requests -> {"none", "stale"}]
    BY <2>5
  <2>8. late' \in [Requests -> BOOLEAN] /\ seen' \in [Requests -> Nat]
    BY <2>5
  <2> QED
    BY <2>2, <2>3, <2>4, <2>6, <2>7, <2>8
<1>9. ASSUME NEW r \in Requests, SpuriousWakeup(r) \/ WaitTimesOut(r) \/ Expire(r)
      PROVE  RenewalTypeOK'
  BY <1>9 DEF SpuriousWakeup, WaitTimesOut, Expire
<1>10. ASSUME FileChanges PROVE RenewalTypeOK'
  BY <1>10 DEF FileChanges
<1>11. ASSUME UNCHANGED renewalVars PROVE RenewalTypeOK'
  BY <1>11 DEF renewalVars
<1> QED
  BY <1>1, <1>2, <1>3, <1>4, <1>5, <1>6, <1>7, <1>8, <1>9, <1>10, <1>11
     DEF RenewalNext, Running, Done

\* The type invariant of the shared renewal: no request is ever outside the
\* locations load_with_renewal_grace has.
THEOREM RenewalTypeCorrect == RenewalSpec => []RenewalTypeOK
  BY RenewalTypeInit, RenewalTypeStep, PTL DEF RenewalSpec

\* A step that changes nobody's leadership and leaves the gate alone.
LEMMA SameLeaders ==
  ASSUME OneRenewal, GateHeld, inFlight' = inFlight,
         \A q \in Requests : where'[q] \in Leading <=> where[q] \in Leading
  PROVE  OneRenewal' /\ GateHeld'
  BY DEF OneRenewal, GateHeld

\* One renewal at a time, and the gate is taken exactly while it runs.
LEMMA LeaderStep ==
  RenewalTypeOK /\ OneRenewal /\ GateHeld /\ [RenewalNext]_renewalVars => OneRenewal' /\ GateHeld'
<1> SUFFICES ASSUME RenewalTypeOK, OneRenewal, GateHeld, [RenewalNext]_renewalVars
             PROVE  OneRenewal' /\ GateHeld'
  OBVIOUS
<1> DEFINE Same == \A q \in Requests : where'[q] \in Leading <=> where[q] \in Leading
<1>1. ASSUME NEW r \in Requests, Load(r) \/ Join(r) \/ Recheck(r) \/ Reload(r)
      PROVE  inFlight' = inFlight /\ Same
  BY <1>1 DEF Load, Join, Recheck, Reload, Return, Goto, RenewalTypeOK, Leading
<1>2. ASSUME NEW r \in Requests, RunHelper(r) \/ Poll(r) \/ SpuriousWakeup(r) \/ WaitTimesOut(r)
      PROVE  inFlight' = inFlight /\ Same
  BY <1>2 DEF RunHelper, Poll, SpuriousWakeup, WaitTimesOut, Return, Goto, RenewalTypeOK, Leading
<1>3. ASSUME (\E r \in Requests : Expire(r)) \/ FileChanges \/ UNCHANGED renewalVars
      PROVE  inFlight' = inFlight /\ Same
  BY <1>3 DEF Expire, FileChanges, renewalVars
<1>4. ASSUME NEW r \in Requests, Lead(r) PROVE OneRenewal' /\ GateHeld'
  <2>1. \A q \in Requests : where[q] \notin Leading
    BY <1>4 DEF Lead, GateHeld
  <2>2. \A q \in Requests : where'[q] \in Leading <=> q = r
    BY <1>4, <2>1 DEF Lead, Goto, RenewalTypeOK, Leading
  <2>3. inFlight' = TRUE
    BY <1>4 DEF Lead
  <2> QED
    BY <2>2, <2>3 DEF OneRenewal, GateHeld
<1>5. ASSUME NEW r \in Requests, EndRenewal(r) PROVE OneRenewal' /\ GateHeld'
  <2>1. \A q \in Requests : where[q] \in Leading => q = r
    BY <1>5 DEF EndRenewal, OneRenewal, Leading
  <2>2. \A q \in Requests : where'[q] \notin Leading
    BY <1>5, <2>1 DEF EndRenewal, Leading
  <2>3. inFlight' = FALSE
    BY <1>5 DEF EndRenewal
  <2> QED
    BY <2>2, <2>3 DEF OneRenewal, GateHeld
<1> QED
  BY <1>1, <1>2, <1>3, <1>4, <1>5, SameLeaders DEF RenewalNext, Running, Done

\* A sleeper sleeps on the renewal that is running.
LEMMA WakeupStep ==
  RenewalTypeOK /\ GateHeld /\ OneRenewal /\ NoLostWakeup /\ [RenewalNext]_renewalVars
    => NoLostWakeup'
<1> SUFFICES ASSUME RenewalTypeOK, GateHeld, OneRenewal, NoLostWakeup, [RenewalNext]_renewalVars,
                    NEW q \in Requests, where'[q] = "asleep"
             PROVE  inFlight' /\ seen'[q] = generation'
  BY DEF NoLostWakeup
<1> USE DEF NoLostWakeup
<1>1. ASSUME NEW r \in Requests, Load(r) \/ Reload(r) \/ RunHelper(r) \/ Poll(r)
      PROVE  inFlight' /\ seen'[q] = generation'
  BY <1>1 DEF Load, Reload, RunHelper, Poll, Return, Goto, RenewalTypeOK
<1>2. ASSUME NEW r \in Requests, Lead(r) PROVE inFlight' /\ seen'[q] = generation'
  BY <1>2 DEF Lead, Goto, RenewalTypeOK
<1>3. ASSUME NEW r \in Requests, Join(r) PROVE inFlight' /\ seen'[q] = generation'
  BY <1>3 DEF Join, Return, Goto, RenewalTypeOK
<1>4. ASSUME NEW r \in Requests, Recheck(r) PROVE inFlight' /\ seen'[q] = generation'
  BY <1>4 DEF Recheck, Return, Goto, RenewalTypeOK
<1>5. ASSUME NEW r \in Requests, SpuriousWakeup(r) \/ WaitTimesOut(r) \/ Expire(r)
      PROVE  inFlight' /\ seen'[q] = generation'
  BY <1>5 DEF SpuriousWakeup, WaitTimesOut, Expire, Return, Goto, RenewalTypeOK
<1>6. ASSUME NEW r \in Requests, EndRenewal(r) PROVE inFlight' /\ seen'[q] = generation'
  BY <1>6 DEF EndRenewal
<1>7. ASSUME FileChanges \/ UNCHANGED renewalVars PROVE inFlight' /\ seen'[q] = generation'
  BY <1>7 DEF FileChanges, renewalVars
<1> QED
  BY <1>1, <1>2, <1>3, <1>4, <1>5, <1>6, <1>7 DEF RenewalNext, Running, Done

\* The inductive invariant.  NoLostWakeup alone is not inductive: that a sleeper's
\* renewal is still the running one rests on there being one leader, which rests
\* on the gate being taken exactly while it runs.
GateOpen == RenewalTypeOK /\ OneRenewal /\ GateHeld /\ NoLostWakeup

\* Every step of load_with_renewal_grace, and of its environment, keeps it.
LEMMA GateStep == GateOpen /\ [RenewalNext]_renewalVars => GateOpen'
  BY RenewalTypeStep, LeaderStep, WakeupStep DEF GateOpen

\* It holds before the first request.
LEMMA GateInit == RenewalInit => GateOpen
<1>2. RenewalInit => OneRenewal /\ GateHeld /\ NoLostWakeup
  BY DEF RenewalInit, OneRenewal, GateHeld, NoLostWakeup, Leading
<1> QED
  BY RenewalTypeInit, <1>2 DEF GateOpen

\* However many requests find the credential stale, at most one of them runs
\* the official helper (credential.rs, load_with_renewal_grace).
THEOREM OneRenewalHolds == RenewalSpec => []OneRenewal
<1>1. GateOpen => OneRenewal
  BY DEF GateOpen
<1> QED
  BY <1>1, GateInit, GateStep, PTL DEF RenewalSpec

\* The gate is never left taken by a renewal that ended.
THEOREM GateHeldHolds == RenewalSpec => []GateHeld
<1>1. GateOpen => GateHeld
  BY DEF GateOpen
<1> QED
  BY <1>1, GateInit, GateStep, PTL DEF RenewalSpec

\* No waiter misses the completion it sleeps for.
THEOREM NoLostWakeupHolds == RenewalSpec => []NoLostWakeup
<1>1. GateOpen => NoLostWakeup
  BY DEF GateOpen
<1> QED
  BY <1>1, GateInit, GateStep, PTL DEF RenewalSpec

=============================================================================
