----------------------------- MODULE CatalogSync -----------------------------
(***************************************************************************)
(* maintain_catalogs and sync_runtime_picker of src/src/main.rs: the task   *)
(* of the resident service that follows Codex's models_cache.json and the   *)
(* Grok catalog cache, republishes the merged picker on disk, and only then *)
(* advances the live routing.                                               *)
(*                                                                          *)
(* An input file is its version.  Time is kept in count-downs: an hour is   *)
(* Period units, and a unit may pass between any two steps, also while a    *)
(* synchronization or a refresh runs.                                       *)
(***************************************************************************)
EXTENDS Naturals

CONSTANTS
  Absent,         \* no watch, no receipt, no picker on disk
  MaxVersion,     \* bound: versions of each input
  BadVersions,    \* versions of models_cache.json that cannot be admitted
  Period,         \* poll, refresh and retry interval (all 60 minutes)
  MaxAttempts,    \* CATALOG_SYNC_MAX_ATTEMPTS
  RefreshOnStart, \* GrokConfig::refresh_on_start
  MaxRestarts     \* bound: restarts of the service

ASSUME CatalogSyncAssumption ==
  /\ MaxVersion \in Nat /\ BadVersions \subseteq 1 .. MaxVersion
  /\ Period \in Nat \ {0} /\ MaxAttempts \in Nat \ {0} /\ RefreshOnStart \in BOOLEAN
  /\ MaxRestarts \in Nat

VARIABLES
  native,       \* version of models_cache.json on disk
  grok,         \* version of state/models.json on disk
  disk,         \* the inputs the installed picker was generated from
  live,         \* the inputs the running allowlists come from
  pc,           \* where the task is
  started,      \* has the startup synchronization ended?
  attempt,      \* attempts of the running synchronization
  receipt,      \* the inputs its last publication read
  watch,        \* the CatalogInputWatch kept between cycles: what it expects
  untilPoll,    \* time to the next Native poll
  untilRefresh, \* time to the next Grok refresh
  untilRetry,   \* time until sync_retry_after
  restarts      \* restarts so far

inputs == <<native, grok>>
timers == <<untilPoll, untilRefresh, untilRetry>>
vars == <<inputs, disk, live, pc, started, attempt, receipt, watch, timers, restarts>>

Versions == 0 .. MaxVersion

Picker == [native : Versions, grok : Versions]

Current == [native |-> native, grok |-> grok]

\* inputs_changed: a missing watch counts as a change.  A kept watch has a stamp
\* of both files it verified, a new one compares their SHA-256 identities.
InputsChanged(expected) == expected # Current

\* What main and bind load before the task starts: the Grok cache as it is, and
\* the Native route of the installed picker.
Boot(pcStart, liveAtStart) ==
  /\ pcStart = IF RefreshOnStart THEN "refresh" ELSE "sync"
  /\ liveAtStart = [native |-> disk.native, grok |-> grok]

\* The service finds an installed picker that may be older than its inputs.
Init ==
  /\ native \in {0, 1} \cap Versions /\ grok \in {0, 1} \cap Versions
  /\ disk = [native |-> 0, grok |-> 0]
  /\ Boot(pc, live)
  /\ started = FALSE
  /\ attempt = 0 /\ receipt = Absent /\ watch = Absent
  /\ untilPoll = Period /\ untilRefresh = Period /\ untilRetry = 0
  /\ restarts = 0

------------------------------------------------------------------------------
(* One synchronization. *)

\* sync_installed_picker_catalog reads both inputs and publishes on disk.
SyncDisk ==
  /\ pc = "sync" /\ disk # Absent /\ native \notin BadVersions
  /\ disk' = Current
  /\ receipt' = Current
  /\ attempt' = attempt + 1
  /\ pc' = "verify"
  /\ UNCHANGED <<inputs, live, started, watch, timers, restarts>>

\* The synchronization ends without a publication; the watch decides whether
\* later polls still see a change, and none of them retries within the hour.
Defer(kept) ==
  /\ watch' = kept
  /\ untilRetry' = Period
  /\ attempt' = 0
  /\ pc' = "wait" /\ started' = TRUE
  /\ UNCHANGED <<inputs, disk, live, receipt, untilPoll, untilRefresh, restarts>>

\* An input is missing or malformed: the last known good picker stays.
SyncFails ==
  /\ pc \in {"sync", "verify"} /\ disk # Absent /\ native \in BadVersions
  /\ Defer(watch)

\* The picker was uninstalled while the service runs.
NothingInstalled == pc = "sync" /\ disk = Absent /\ Defer(Absent)

\* The inputs are compared with the identities just published; a change starts
\* over, and the attempts are bounded.
VerifyAgain ==
  /\ pc = "verify" /\ InputsChanged(receipt)
  /\ attempt < MaxAttempts
  /\ pc' = "sync"
  /\ UNCHANGED <<inputs, disk, live, started, attempt, receipt, watch, timers, restarts>>

\* Faulty variant: the watch of the abandoned attempt is kept.
VerifyGivesUpWatching ==
  /\ pc = "verify" /\ InputsChanged(receipt)
  /\ attempt = MaxAttempts
  /\ Defer(receipt)

VerifyGivesUp ==
  /\ pc = "verify" /\ InputsChanged(receipt)
  /\ attempt = MaxAttempts
  /\ Defer(watch)

Verified ==
  /\ pc = "verify" /\ ~InputsChanged(receipt)
  /\ pc' = "publish"
  /\ UNCHANGED <<inputs, disk, live, started, attempt, receipt, watch, timers, restarts>>

\* Faulty variants: what is published, or watched, is read again at the end.
PublishLatest ==
  /\ pc = "publish"
  /\ live' = Current
  /\ watch' = Current
  /\ untilRetry' = 0
  /\ attempt' = 0
  /\ pc' = "wait" /\ started' = TRUE
  /\ UNCHANGED <<inputs, disk, receipt, untilPoll, untilRefresh, restarts>>

PublishWatchingLatest ==
  /\ pc = "publish"
  /\ live' = receipt
  /\ watch' = Current
  /\ untilRetry' = 0
  /\ attempt' = 0
  /\ pc' = "wait" /\ started' = TRUE
  /\ UNCHANGED <<inputs, disk, receipt, untilPoll, untilRefresh, restarts>>

\* NativeRouteHandle::replace_catalog, then the new watch takes over.
Publish ==
  /\ pc = "publish"
  /\ live' = receipt
  /\ watch' = receipt
  /\ untilRetry' = 0
  /\ attempt' = 0
  /\ pc' = "wait" /\ started' = TRUE
  /\ UNCHANGED <<inputs, disk, receipt, untilPoll, untilRefresh, restarts>>

------------------------------------------------------------------------------
(* The cycle. *)

\* After a tick: synchronize when the inputs may have changed and no earlier
\* failure still has to wait.
Decide == pc' = IF InputsChanged(watch) /\ untilRetry = 0 THEN "sync" ELSE "wait"

PollNative ==
  /\ pc = "wait" /\ untilPoll = 0
  /\ untilPoll' = Period
  /\ Decide
  /\ UNCHANGED <<inputs, disk, live, started, attempt, receipt, watch, untilRefresh, untilRetry, restarts>>

RefreshTick ==
  /\ RefreshOnStart
  /\ pc = "wait" /\ untilRefresh = 0
  /\ untilRefresh' = Period
  /\ pc' = "refresh"
  /\ UNCHANGED <<inputs, disk, live, started, attempt, receipt, watch, untilPoll, untilRetry, restarts>>

\* refresh_catalog persists what it fetched; a synchronization follows at once.
RefreshSucceeds ==
  /\ pc = "refresh"
  /\ grok' \in {grok, grok + 1} \cap Versions
  /\ untilRetry' = 0
  /\ watch' = Absent
  /\ pc' = "sync"
  /\ UNCHANGED <<native, disk, live, started, attempt, receipt, untilPoll, untilRefresh, restarts>>

\* No credential, no network: the cycle goes on with the inputs it has.
RefreshFails ==
  /\ pc = "refresh"
  /\ Decide
  /\ UNCHANGED <<inputs, disk, live, started, attempt, receipt, watch, timers, restarts>>

------------------------------------------------------------------------------
(* The environment. *)

Less(time) == IF time = 0 THEN 0 ELSE time - 1

\* The intervals start to run when the startup synchronization has ended.
Elapse ==
  /\ started
  /\ untilPoll > 0 \/ untilRefresh > 0 \/ untilRetry > 0
  /\ untilPoll' = Less(untilPoll)
  /\ untilRefresh' = Less(untilRefresh)
  /\ untilRetry' = Less(untilRetry)
  /\ UNCHANGED <<inputs, disk, live, pc, started, attempt, receipt, watch, restarts>>

\* Codex rewrites its model cache; `catalog refresh` rewrites the Grok cache.
InputChanges ==
  /\ \/ native' \in {native + 1} \cap Versions /\ UNCHANGED grok
     \/ grok' \in {grok + 1} \cap Versions /\ UNCHANGED native
  /\ UNCHANGED <<disk, live, pc, started, attempt, receipt, watch, timers, restarts>>

\* `picker uninstall` removes the picker of a running service.
PickerUninstalled ==
  /\ disk # Absent /\ disk' = Absent
  /\ UNCHANGED <<inputs, live, pc, started, attempt, receipt, watch, timers, restarts>>

\* launchd restarts the service after a crash: everything but the files is lost.
Restart ==
  /\ disk # Absent /\ restarts < MaxRestarts
  /\ restarts' = restarts + 1
  /\ Boot(pc', live')
  /\ started' = FALSE
  /\ attempt' = 0 /\ receipt' = Absent /\ watch' = Absent
  /\ untilPoll' = Period /\ untilRefresh' = Period /\ untilRetry' = 0
  /\ UNCHANGED <<inputs, disk>>

Task ==
  \/ SyncDisk \/ SyncFails \/ NothingInstalled
  \/ VerifyAgain \/ VerifyGivesUp \/ Verified \/ Publish
  \/ PollNative \/ RefreshTick \/ RefreshSucceeds \/ RefreshFails

Next == Task \/ Elapse \/ InputChanges \/ PickerUninstalled \/ Restart

Spec == Init /\ [][Next]_vars

\* The runtime polls the task, and time passes.
FairSpec == Spec /\ WF_vars(Task) /\ WF_vars(Elapse)

------------------------------------------------------------------------------
(* Properties. *)

\* Every variable stays in its type; the attempts of a synchronization are
\* counted from zero and never exceed CATALOG_SYNC_MAX_ATTEMPTS.
TypeOK ==
  /\ native \in Versions /\ grok \in Versions
  /\ disk \in Picker \cup {Absent} /\ live \in Picker
  /\ pc \in {"wait", "refresh", "sync", "verify", "publish"}
  /\ started \in BOOLEAN
  /\ attempt \in 0 .. MaxAttempts
  /\ pc \in {"verify", "publish"} => receipt \in Picker
  /\ receipt \in Picker \cup {Absent} /\ watch \in Picker \cup {Absent}
  /\ untilPoll \in 0 .. Period /\ untilRefresh \in 0 .. Period /\ untilRetry \in 0 .. Period
  /\ restarts \in 0 .. MaxRestarts

\* While the service runs, the live routing only ever advances to the picker that
\* is on disk (unless it has just been uninstalled): a freshly fetched or read
\* candidate never gets ahead of it.
LiveFollowsDisk ==
  [][live' # live /\ restarts' = restarts => disk \in {live', Absent}]_vars

\* A poll that finds nothing to do is right: the watch a later poll compares
\* with is the one of the routing that is live, also after failed attempts.
WatchDescribesLive == watch # Absent => watch = live

\* When both inputs rest on admissible versions and the picker stays installed,
\* the running allowlists end up being those of the inputs, whatever changed,
\* failed or timed out before.
InputsReachRouting ==
  <>[](disk # Absent /\ native \notin BadVersions) => <>[](live = Current)

=============================================================================
