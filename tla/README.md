# Verification of grok-codex-bridge

This directory holds TLA+ models of the bridge, the TLC configurations that
check them, and proofs checked by TLAPS.  Every definition is translated from
the Rust source under `src/src/`; `PROJECT.json` maps each one to its lines.

Run a configuration with `tlc -config MCPickerFaults.cfg MCPickerTransaction`,
the proofs of a module with `tlapm UpkeepProofs.tla`.

## Inventory

The bridge is a loopback HTTP service that Codex (inside ChatGPT.app) uses as
its model provider. It sends Native models to the ChatGPT or OpenAI upstream and
Grok models to the Grok upstream, and a set of commands installs it, publishes a
merged model picker for Codex and takes it back.

| part | source | state it keeps | operations | what makes it correct |
|---|---|---|---|---|
| picker transactions | `lifecycle.rs` 390-1500 | generated catalog, native route, managed state, `config.toml`, private backups | `install_picker`, `sync_installed_picker_catalog`, `uninstall_picker` | atomic as a whole, never an old text in `config.toml`, a usable rollback receipt |
| picker artifacts | `picker.rs` | contents and identities of those files | generate, validate, encode | the managed state names the files beside it; what a picker lists, the routing serves |
| catalog maintenance | `main.rs` 720-1015 | timers, the watch, the retry time | poll, refresh, synchronize, publish | the live routing follows the disk and reaches the inputs |
| live routing | `server.rs`, `catalog.rs`, `native.rs` | Grok allowlist and Native route, one lock each | `replace_catalog`, routing read, `/models` | one table, replaced at once, nobody starved |
| Grok credential | `credential.rs` | cache, renewal gate | load, renew, join a renewal | one helper at a time, every waiter answered |
| Grok responses | `server.rs` 407-789, `grok.rs`, `protocol.rs` 2797-3133 | attempt count, held back events, validator state | send, retry, forward, finish | one attempt reaches the client, in order, with an end |
| Native responses | `server.rs` 800-919, `native.rs` 245-400 | shared attempt count and deadline | send, back off, stream | a bounded number of sends, an answer in time |
| service lifecycle | `launchd.rs` | launchd's registration | bootstrap, kickstart, bootout, print | the state it reports is reached |
| picker activation | `picker_activation.rs` | prior service status | stop, publish, start, verify, roll back | picker and service agree, also after a failure |
| desktop transition | `desktop_transition.rs` | captured process ids | quit, wait, mutate, relaunch | the mutation meets no running Desktop; the Desktop comes back |
| request protocol | `protocol.rs` 1-2796, 3134-3700 | none (per request) | normalise histories, tools, namespaces, schemas, numbers; restore calls; sanitize for Native | pairs, names, numbers and secrets survive any sequence of turns with either model |
| bridge install, uninstall | `lifecycle.rs` 1-389, 1500-2642 | install root, manifest, profile, LaunchAgent, backups | install, preflight, uninstall | the user's own files come back; a failure leaves all or nothing |
| doctor | `lifecycle.rs` | none | read and report | its verdict decides whether a replaced runtime is kept |
| commands | `main.rs`, `cli.rs` | none | `mode`, `switch`, `service`, `picker`, `uninstall` | the parts above, one around the other, in an order that never shows a half made switch |
| configuration | `config.rs` | none | parse, validate | - |
| runtime replacement | `scripts/replace-installed-bridge.sh` | installed binary and launcher, staged and rollback copies | replace, roll back | one matching pair behind a loaded service |
| native uninstaller | `scripts/uninstall-native.rb` | none | recover Native Codex without the binary | - |
| launcher | `scripts/macos-switch-launcher`, `scripts/grok-codex.sh` | none | start `switch`, show a log | - |

How they interact.  A mode switch runs the desktop transition around picker
activation; activation stops the service, runs `install_picker` and starts the
service; the started service loads the route file and the Grok cache, serves
requests with them, and its catalog task runs `sync_installed_picker_catalog`
and then `replace_catalog`.  The commands and the service share files and no
lock; Codex Desktop and the user write `config.toml`, Codex writes
`models_cache.json`, and the official Grok tools own the credential file.

What is hard: file operations of two processes and of Desktop interleave;
a process dies, a write or its directory sync fails, and a compensation fails
too; inputs change while they are read; two locks are taken one inside the
other; retries, Retry-After and silences race one deadline; a waiter's deadline
races the renewal it waits for.  `PROJECT.json` lists each hazard at its line.

## Modules

### PickerTransaction, PickerPublication

The four files and the backups are `disk` and `backups`; `op` holds what the
service and the command line are doing (`entry`, what the transaction read;
`next`, what it publishes; `todo`, the files still to write or to restore).
`BeginInstall`, `BeginSync` and `BeginUninstall` read, validate and make the new
backup; `WriteNext` is one `atomic_write` or `remove_file`; `WriteFails`,
`WriteUnsynced`, `UndoNext`, `UndoFails`, `Abort`, `Finish` and their failing
forms are the error paths, in the order of the code (`InstallUndo`, `SyncUndo`,
`UninstallUndo`).  `RollbackConfig` and `DropBackup` are the part of an uninstall
that is not compensated.  A catalog is the versions of its inputs, a
configuration the bridge's markers and keys and the version of the user's text;
an identity (length and SHA-256) is the content itself.

`PickerPublication` is the promise: publish, withdraw and a user's edit are one
step each, and a failure that is compensated is no step at all.  A `mishap` is a
failure the code does not compensate (a death, a directory that cannot be
synced, a backup that cannot be deleted, a second failure): after one the
promise is only that the text is the user's.  `ImplementsPublication` maps a
running transaction to the files as it read them.

Abstractions: file modes and permissions; the sync of the directory after the
last removal; a backup written partly; the reads of one `Begin` are one step
(with `Overlap` the writes after them interleave); edits of
`config.toml` happen between transactions; a compensation
of an uninstall restores all files, where the code leaves those it has not yet
removed; restoring a file with the content it still has changes nothing.
`RemoveManaged` states what `toml_edit` does with comments around a removed key:
the one before the key goes, the one after it stays.

### PickerActivation, DesktopTransition, ModeSwitch

`PickerActivation` is `activate_picker`: `stage` is the operation of its sequence
and of its rollback, `call` the `launchctl` call the operation makes, `polls` the
polls of `service_uninstall` and `service_install`.  `GiveUp` is the error path
of every stage (`post_publication_failure`, `restore_prior_service`) and
`CallFails` a call that fails before or after it took effect.  launchd and the
process of the service are actions of their own (`ServiceLeaves`,
`ProcessStarts`, `ProcessDies`): `bootout` returns while the service is still
leaving, and KeepAlive starts a process that loads whatever is published then.

`DesktopTransition` is `transition_with_operations`: two inspections of the
process table, TERM, the wait with its deadline, the mutation, `open -a`.
Applications and their app-servers start and exit by themselves, and the user
may open the application at any time.

`ModeSwitch` is `desktop_switch_command`: the activation is the mutation of the
transition.  The published picker and the count of faults are shared, everything
else belongs to one part.

Abstractions: publishing and removing the picker are one step (their steps are
`PickerTransaction`'s; a publication over an older picker may fail at its very end,
when the backup of the older one cannot be deleted, and stay; what a failing
compensation leaves is `PickerTransaction`'s); a successful `bootstrap` is complete
when it returns; nobody else boots the service out; process ids are not reused (the
code reads a process's command again before it signals it); TERM to all captured processes is one step; the replacement of
the runtime before the transition is `RuntimeReplacement`.

### CatalogSync

`maintain_catalogs` and `sync_runtime_picker`.  An input is a version; `disk` and
`live` are the inputs the installed picker and the running allowlists come from.
`untilPoll`, `untilRefresh` and `untilRetry` count down (an hour is `Period` = 2
units, so that half an hour may pass while a synchronization runs); a version in
`BadVersions` cannot be admitted.  The disk transaction is one step here (its
steps are `PickerTransaction`'s), and so is `replace_catalog` (its steps, and
its refusal, are `RoutePublication`'s).  The isolated provider, which has no
picker to synchronize, is left to `RoutePublication`.

### PickerCatalog, RoutePublication, RoutingTable

`PickerCatalog` is what a picker is made of and when it is refused: Native's rows,
a row per Grok model (listed in a merged picker, a hidden copy of the fallback's
row in compatibility mode), and the route published with them.  The checks of a
row's fields are one Boolean, `valid`.  `RoutePublication` publishes the tables of
the pickers that are admitted (`Candidates`), so that `PickerServed` relates the
two files of a picker to the classification of requests.

Both locks with tokio's fair queue, the publisher's order (catalog, route,
write, release) and the readers' (catalog, route, classify).  A request may be
dropped at every await.  `Classify` is the match of
`route_authorized_responses`.  `RoutingTable` is an atomic table: a publication
comes into force where the route is written, because nobody can read until the
catalog follows.

### CredentialGate

`load_with_renewal_grace`, one process per request.  A critical section of the
mutex is one action; waiting on the condition variable is `asleep`, ended by a
notification, for no reason, or by the deadline.  The file may change at any
time (the official tools own it).  The in-memory cache is keyed by the file's
length and time and returns what a read would.  A poisoned mutex is not
modelled: no critical section panics.

### NativeRetry

`native_response_started` and `post_with_started` with the shared count and
deadline, in whole seconds; a timer may fire up to `Lag` late.

### GrokStream

The attempt loop, the events held back, the validator's state and the end of the
body.  An event is its kind and its attempt.  The wall clock of the retries is
the flag `late`, which may be raised at any time; `RateLimited` also lets the
upstream's Retry-After exceed what is left.  The event source is modelled by what
the code makes of its errors.

### Conversation and its projections

`Conversation` is Codex and the models around `protocol.rs`: Codex records what its
user says, what tools return and what models answer, and declares tools anew in
every turn.  `StartGrok`, `Prepare`, `RefuseHistory` and `SendToGrok` are the way of
one request to Grok, `GrokAnswers` the way back (`restore_response_event`,
`mark_reasoning_ciphertext`), `StartNative` the history a Native model gets
(`sanitize_unreplayable_history_for_native`).  Its parts:

- `HistoryProjection`: `parse_input` and `project_input_for_xai`, one item per step,
  with the open batch of calls and the comments moved in front of it;
- `ToolProjection`: `parse_tools`, `merge_discovered_tool_search_specs`,
  `project_tools_for_xai` and the tool choice;
- `NamespaceProjection`: the map between namespaced tools and flat names.  A name is
  the sequence of its parts between the delimiters, so that joining is
  concatenation and two pairs may have one flat name;
- `SchemaProjection`: literals against types, merged unions, what Grok refuses.  For
  `ToolProjection` a schema is only projected (`OfferedSchema`) and accepted or not
  (`TakenSchema`), both parameters; `ToolSchemas` brings the two together, and
  `MCConversation` gives them the operators of `SchemaProjection`;
- `ArgumentNumbers`: integers written as floats, with the edge of 64 bits.

An item has the fields that decide what is done with it; `valid` stands for the
checks of the others.  Texts, images, parameters that are copied and the bytes of
a request are left out; a request is one step of Codex, so two requests of one
conversation do not overlap (they share no state).  The Native requests are those
Codex sends on the Responses path with `store: false`; for any other
(`protocol.rs:946`, `server.rs:990`) the history is not sanitized, and
`StateStaysHome` says nothing of it.

### BridgeLifecycle, RuntimeReplacement

`install`, `preflight_uninstall`, `uninstall` and the commands of `main.rs` around
them.  `disk` is the Codex profile and the LaunchAgent, `root` the install root,
`bin` the runtimes in it, `cmd` the running command with its position, its
receipts and the targets it has changed.  Any call may fail (`write`, `remove`,
`unlink`, `launchctl`), fail after its effect (`unsynced`), remove a tree in part
(`partial`), and the process may die (`crash`); the user writes, deletes and
repairs both files while no command changes them.  A failing installation removes
its stage tree and its backups without a look at the result
(`let _ = fs::remove_dir_all`, `cleanup_prepared_backup`): with the fault `leftover`
any of them stays, and the command reports its first error as if they were gone.
`RuntimeReplacement` is `replace-installed-bridge.sh` over the same installation,
each of its steps with its failure, and the cleanup of its trap, which under
`set -e` itself ends when a move of its rollback fails (`move`).

Abstractions: the stage tree is written in one step; when that fails it is removed
again, or stays (`leftover`, also for `create_stage_tree`, which removes nothing when
it fails half way); a backup or a temporary file that was written in part is left
out, nothing refers to it; a tree whose existence cannot be read
(`lifecycle.rs:1890`) is one whose removal fails;
the removal of the picker is one step (`PickerTransaction` has its steps); after a
rollback that failed the user repairs by hand; commands do not run at the same
time; the user's edits while a command is between its reads and its writes are
left out; the credential check in front of a replacement changes nothing here.

## Runs

| run | question | result |
|---|---|---|
| `picker_faults` | one fault of any kind anywhere in installs, syncs and uninstalls, with edits and new inputs between them | the transactions implement `PickerPublication`; receipt and backups are right after every compensated failure, and no sync changes the mode |
| `picker_disorder` | two faults, compensations that fail too, and `picker uninstall` beside a synchronizing service | the user's text is never replaced by an older one |
| `mode_switch` | a switch from any service and desktop, with two failing calls, slow launchd, dying processes and an impatient user | service, picker and desktop agree at the end, nothing is changed under a running process, and there is an end |
| `credential_gate` | three requests, a file that goes bad again | one helper, no lost wakeup, every request answered |
| `catalog_sync` | refreshes, polls, failures and a restart | the live routing follows the disk and reaches the inputs |
| `route_publication` | publisher and two requests over two locks, with every kind of picker | an atomic table; every row of the picker in force is served; nobody waits for ever |
| `native_retry` | every mix of failures, Retry-After and silence | at most four sends, none late, an answer in time |
| `grok_stream` | every stream of four events over four attempts | one attempt is forwarded, in order, with an end |
| `conversation` | up to three turns of Grok and Native, in nine scenarios | results stand behind their calls, nothing recorded is lost, calls are replayed as they were made, nobody's encrypted state reaches the other, the conversation keeps its id, and a conversation nothing is wrong with by itself (`Legal`) is never refused |
| `bridge_lifecycle` | two installations, two edits, a replacement and two faults of any kind | the user's files are never lost, a failure leaves no half of the bridge (what a failing cleanup leaves is a copy), and the service always has a runtime behind it |

Each run checks what a reader could doubt; the type invariants are no runs'
properties: those of `CredentialGate`, `NativeRetry`, `GrokStream`, `CatalogSync`,
`PickerTransaction` and `ModeSwitch` are proved, the others document the state.

Runs that find what a document says and the code does not do (the quotations are
in `PROJECT.json` under `findings`):

| run | what the counterexample shows |
|---|---|
| `switch_prior` | an older picker is published and the service is not loaded; the new picker is published, `launchctl bootstrap` fails, and the rollback, in which nothing fails, removes the picker: none is published, although one was |
| `grok_body` | a body that breaks before output is not retried |

### Observations

Met while reading and modelling, without a run of their own:

- `lifecycle.rs:988`: deleting the private backup may fail after `config.toml` was
  rolled back, in `rollback_picker_config`, outside the part `uninstall_picker`
  compensates.  The next uninstall finds a configuration that is no longer the
  managed one and stops; `docs/spec.md:131` promises a state that can be retried.
- `lifecycle.rs:1345`: removing the managed keys with `toml_edit` takes the begin
  marker, a comment of the first removed key, and leaves the end marker, a comment
  of what follows.  The next install refuses the partial marker.
- `lifecycle.rs:720`: a sync writes `config.toml` after a rewrite; the comment at
  `lifecycle.rs:555` says it leaves the configuration untouched.
- `lifecycle.rs:521`, `721`, `1217`: an edit of `config.toml` between the read and the
  rename is lost; `docs/spec.md:101` says unrelated settings are kept.
- `lifecycle.rs:817`: `picker uninstall` while the service runs can meet a sync
  half way, and part of the artifacts stays.
- `lifecycle.rs:541`: when only the deletion of the superseded backup fails, the
  install reports a failure with the new picker in place, and the activation restarts
  the service over it (`PublishFails` of `PickerActivation`; `PriorPickerRestored`
  is not about this case).
- `credential.rs:146`: a request that read the stale file before a renewal ended
  runs the helper again after it; `README.md:274` says a renewal is shared.
- `main.rs:809`: a failed synchronization is tried again at its own retry time, and
  the poll that comes before it finds nothing due; `README.md:177` says the next
  hourly cycle.
- `desktop_transition.rs:4`: the mutation runs when the *captured* processes are
  gone.  A desktop opened by its user during the wait is neither captured nor
  restarted, and keeps the models it read.

- `lifecycle.rs:705`: a sync renames its files one after the other, the managed state
  last.  A death in between leaves files whose identity the state does not name;
  the checks at `lifecycle.rs:579` then refuse every later sync, install and
  uninstall, while the comment at `lifecycle.rs:556` and `docs/spec.md:77` call the
  sync one recoverable operation.
- `lifecycle.rs:1370`: the fallback of the compatibility mode is the `model` of
  `config.toml`.  If that is a Grok model, the switch to Native, and every sync in
  that mode, is refused.
- `protocol.rs:3055`: any event after `response.failed` sets the validator back to
  streaming, and the end of the body adds a synthetic `response.completed`; the
  comment at `protocol.rs:2841` and `README.md:125` say it is never added then.

Of the request protocol:

- A second call with an id whose output was already seen leaves its batch open: the
  comments after it are all moved in front of it.
- `ensure_provider_name` (`protocol.rs:1556`) looks at other namespaced tools only.  A
  replayed call of a namespace that is gone may get the flat name of a plain tool;
  two pairs with one flat name (`a__b`, `c` and `a`, `b__c`) make the request refused,
  although the comment above it wants replays to be admitted.
- A tool choice may name a function that is then left out because of its schema.
- When unions are merged (`protocol.rs:2115`), the first branch's schema of a property
  wins and constrains calls of other branches, and a branch that is skipped makes
  `required` too strong.  `CallsStayValid` is stated for unions that are free of both.
- The float 2^63 becomes the integer 2^63 - 1.  The scenario of numbers leaves this
  one out, and the theorem about `CallsReplayed` excepts it (`ExactNumbers`).
- A call with malformed arguments, two different discoveries of one tool, or more
  than 128 discovered tools make every later Grok request of that conversation
  refused.  These are what `Legal` excludes: it is computed from a scenario, and
  `MCConversation` asserts which scenarios are legal (`LegalScenariosAssumption`).
- Ids Grok gave reach Native if Grok left no reasoning in the history;
  `README.md:125` says item ids are excluded.

Of installing, uninstalling and replacing:

- `atomic_write` (`lifecycle.rs:2482`) may fail after its rename.  `profile_mutated` is
  then still false: the profile is not restored, and the backup of the user's text
  is deleted.  `OriginalsKept` and `FailuresUndone` except this kind of fault
  (`Undoable`).
- A failed installation may leave its stage tree and its backups when their removal
  fails too (`lifecycle.rs:211`, `218`, `225`, `255`, `1868`); it reports the first error
  and nothing of these.  They are copies of what is there, and a later installation
  chooses other names.
- `rollback_install` (`lifecycle.rs:1872`) deletes the backups also when it could not
  restore a file; it reports that its rollback failed.
- An uninstall whose `remove_dir_all` fails half way, or whose directory sync fails
  after the removal, puts profile and LaunchAgent back over a broken root and starts
  the service again; the next preflight refuses (`docs/spec.md:131` wants it
  repeatable).
- When the service cannot be started again, that error takes the place of a failed
  rollback of the uninstall.
- When a backup cannot be deleted at the very end, an uninstall that removed
  everything reports a failure; after an earlier death it may start a service whose
  root is gone.
- The picker is not published again when a later step of an uninstall fails.
- `doctor --native-compatibility` does not look at the launcher, the picker and the
  tree that `preflight_uninstall` requires.
- After a death in the middle of an installation the next one backs up the bridge's
  own files as the originals.
- `replace-installed-bridge.sh:158`: when `service uninstall` fails after the service
  stopped, `stopped` is still 0 and it stays stopped; `docs/spec.md:58` says its
  state is restored.  When a move of the rollback fails (lines 108 to 113), `set -e` ends the
  trap: nothing of a failed rollback is reported, the service stays stopped, and the
  binary may be the old one beside the new launcher or beside none.
  `ReplacedAsPair` excepts this fault.  A signal between `mv` and `replaced=1` keeps the new binary
  beside the old launcher; a kill between the moves of the launcher leaves none.

### Bounds

Picker: three backup names (one in the receipt, one being made, one left by an
earlier fault; symmetric), two versions of each input.  `picker_faults` has two
edits of `config.toml`, enough for a rewrite, its publication and a rewrite of
that, and one fault, the case the code compensates; `picker_disorder` two
faults, so that a compensation fails too, with an edit before or after.  Edits are
a rewrite of the whole file, settings appended, or the managed keys stripped.
Switch: two polls (the last one differs from the others), two faults (a step and
its rollback), three application ids (the captured one, one the user opens, one
the transition opens) and two servers.  Catalog: three versions, the middle one
inadmissible, so that a change while generating, a failure and a later good
version all occur; three attempts as in the code.  Routing: one Native and two Grok
models, one of which moves into Native's catalog; two upstreams, both modes, no
picker, and six inputs no picker can be made of; two requests, so that readers and the writer queue
behind each other.  Credential: three requests (leader, waiter, latecomer).
Native: the code's back-offs 1, 2, 4 with a deadline of 12 seconds in place of 60,
so that both the count and the deadline end requests; Retry-After 0, 3 and 13
(now, within, beyond).  Grok: four events, three retries.
Conversation: three turns of a Grok or a Native model (a turn, the other model's,
and the first one's again), up to seven items, three tools at most on offer.  A
scenario fixes what may happen: batches of parallel calls answered in any order and
twice, histories cut in the middle of a batch, turns of both models, searches that
find a namespace again and again, numbers on both sides of the largest integer,
items of newer and older clients, items and tools that are refused, and schemas
with two levels of unions and references.  Every scenario is explored
completely.  Bridge: three backup names, two installations (the second meets what
the first left), two edits, one new version of the runtime and two faults, so that
a rollback fails too.

### Fairness

`CredentialGate`: threads run, and the deadline of the request that renews comes;
nothing about waiters, which shows that the end of a renewal wakes them.
`CatalogSync`: the runtime polls the task and time passes.  `RoutePublication`:
the task and every request that can go on does; clients may leave or stay.
`NativeRetry`: the request's own steps and its timers, nothing about the
upstream.  `ModeSwitch`: the coordinator's own steps and its deadline; no call has
to fail, and neither launchd nor a process that got TERM has to do anything.
Deadlock checking is off where the system really stops: all requests answered,
the switch over, all bounds used up.

## Proofs

`NativeRetryProofs` proves the type invariant, `SendsBounded`, `AnswerInTime` and
`NoSendAfterDeadline` for every table of back-offs, every deadline and every set
of Retry-After values.  `SendsBounded` speaks of sends and the code of attempts:
`Budget` relates the two
(sends never outnumber attempts, and a request that sleeps or starts again has
attempts left), and `AnswerInTime` needs for sleepers that a back-off ends by
the deadline.  `SleepKeeps` and `FinishKeeps` are the two ways
every failure goes on, stated once.

`RoutePublicationProofs` proves `SnapshotCurrent`, `ModeKept` and `PickerServed` for any
number of requests and any set of pickers.  `CatalogHeld` is the heart of the inductive
invariant: the publisher holds the catalog alone from its first lock to its
commit, and a request holds it from its first read to its answer, so neither can
be inside the other's critical section although the route's own lock is free by
then.  `SameKind` (a publication has a route exactly if the service has one) makes
`ModeKept` inductive.  `PickerServed` follows from it: an admitted
picker's slugs are Native's or Grok's and never both, so its rows are served unless
the mode changed since `bind`, which `ModeKept` excludes; `RouteOfAdmitted` shows
that its route is one.  It needs `AbsentAssumption` (no model and no route is the
absent one) and `PickersAssumption`.  `OneRequest` states what a step of one request must do to
keep the invariant, and `RequestKeeps` applies it to each of them.
`ImplementsTableHolds` is the refinement: under the same invariant every step is one
step of `RoutingTable` or none.  The table changes where the publisher commits both
halves, and a request classifies where it reads the route, with the catalog it read
before and still holds; the steps that only take, wait for or release a lock are
stutters.  It needs `AskAssumption` (a request is not the absent one).

`ModeSwitchProofs` proves the type invariant, `ServesPublished`, `OutcomeAsReported`,
`ChangesQuietly` and `DesktopReturns` for any number of polls, faults and processes, from
`SwitchAssumption`.  The activation's invariant says
what the order of its stages is for: `Stopped` (wherever the picker is published
or taken back the service is gone, unless it is known not to stop) makes `Serves`
inductive, and `Called` ties every call to its stage.  Its lemmas `StepKeeps` and
`ElsewhereKeeps` carry it into the switch, where `Same...` identify the two
instances of the activation.  `DesktopReturns` needs `Known` (a process that runs
or was captured has read a picker, so a new process never takes its id) and
`Quiet` (an application that runs beside the captured ones is its user's, and
one id is left for the relaunch).

`GrokRequestProofs` is about both halves of a request to Grok.  Of its answer
(`GrokStream`) it proves the type invariant, `ForwardedInOrder`, `EndsWithTerminal`
and `NoResendAfterOutput` for every retry limit and any sequence of events.  The heart
of the invariant is `Kept`: what was given together with what is held back is exactly
what the one attempt received, and nothing is given before an event commits the
response.  `Validated` ties the state of the validator to the events it has seen,
which is what makes a terminal event part of every complete answer.

Of what is sent (`Conversation`) it proves `ResultsPaired`, `RecordKept` and
`ConversationKept`, for any scenarios, schemas and limits and any number of items and
turns; of `ScenariosAssumption` they need only that a history is a sequence.  The
invariant `ConversationInv` has these parts:

- `Sourced`, `IdsKept`, `Paired`: each parsed item is one of the history, in its order,
  and every result stands behind a call of its id, alone (`ParseKeeps`).
- `Projected`: `Batched` says of the loop of `project_input_for_xai` that a result that
  is still to come belongs to an open call, that the batch begins where `batchStart`
  says, and that no comment stands inside it.  Comments are moved in front of it in
  one step, which shifts every item behind (`Moved`...): `MovePaired` shows that a
  result keeps its call and gets no comment between the two.
- `RecordInv`: what was read is sent or held back, each item once (`Complete`), and two
  items out of order are a comment and an item behind which a call was running all
  the time (`Ordered`, `HeldBack`, `RunningSince`).  This needs that two calls of a
  history have different ids (`CallsOnce`): with one id for two calls a batch may be
  closed by the result of the other, and the property is false.
- `OpeningsRead`, `Requested`, `Anchored`: the first item that can be sent is fixed by
  the history's beginning, which Codex never changes; a result is never that item
  (`AnchorOpens`), because its call stands in front of it.

It also proves `CallsReplayed`, `StateStaysHome` and `NativeKept`, for any scenarios whose
items are genuine (`ScenariosAssumption`: an item of a model is marked as that model's,
a call names what the model called, lists are sequences).  Three things make them hold:

- `EntriesMade`: every entry of the map has the flat name of its pair.  The map is built
  by folds over lists of tools inside folds over items, so this is an induction over
  data; `Folding` states it once for a fold with any operator and any invariant
  (`FoldKeeps`, `FoldAppend`, `FoldAlike`), and is instantiated with each operator of
  `ToolProjection`.  With it `HonestInv` gives every parsed call the name its model
  called, also where the namespace is gone and `Ensured` adds the entry.
- `ValuesSent`: `Canonical` writes an integer's float as the integer and keeps its value.
  This is false for the one float 2^63, so that the theorem about `CallsReplayed` has the
  hypothesis `ExactNumbers`: no model writes that number.  It is true of all scenarios
  of `conversation`.
- `HonestItems` and `NativeInv`: reasoning in a history is Grok's exactly if the sanitizer
  recognizes it, and `Sanitized` keeps pairs because what it removes is no call and no
  result (`PairsOf`, again by `Folding`).

Last, `LegalAcceptedHolds`: a conversation nothing is wrong with by itself is never
refused, whatever was found, declared and dropped in whatever turn.  `Legal` says what
this means of a scenario alone: items from outside are well formed and results follow
their calls, the tools of every catalog are `Compatible` with all that can be found, the
choice can be met by what is declared, discovery comes with declared tools, and no two
pairs that anything names have one flat name.  What there is to prove is that no step
makes something wrong of it.

- A tool means what Grok is told and what the map says of its name (`Meaning`).  Names
  are never given a second meaning, and the tools of a request stay among those of the
  scenario (`Merged`), through `WithFound`, `HistoryMerges` and each of the folds.  The
  limit of 128 is a counting argument: the list has each tool once (`ToolsMade`), so as
  long as one of the compatible tools is missing there is room for it (`RoomLeft`).
- `LegalInv`: what was recorded is legal item by item (`LegalItem`), results stand behind
  their calls, and every pair in the map is one the conversation uses (`NamesUsed`), so
  that the name of a replayed call never meets another pair's (`Ensured`).
- `CallsRead`: the parser has the call of every result it meets.

It needs `ScenariosAssumption` and `MaxToolsAssumption`.

`UpkeepProofs` is about what the service does beside answering.  Of catalog maintenance
(`CatalogSync`) it proves the type invariant, `WatchDescribesLive` and
`LiveFollowsDisk` for any versions, any number of attempts and restarts and any
period.  `ReceiptOnDisk` is what `LiveFollowsDisk` needs: between the disk
transaction and the publication nothing but an uninstall changes the picker on disk.

Of the shared renewal it proves for every set of requests that the type invariant,
`OneRenewal`, `GateHeld` and `NoLostWakeup` hold, from `ChangesAssumption` alone.
`GateOpen` is the inductive invariant.  That a sleeper waits for the running
renewal (`NoLostWakeup`) is not inductive alone: when a renewal is published one
must know that no other leader keeps the gate, which is `OneRenewal`, and that
follows only with `GateHeld`, since a new leader looks at the gate and not at
the others.  `LeaderStep` and `WakeupStep` have one step per action.

`PickerTransactionProofs` proves five properties and the type invariant for any
number of backup names, edits, versions and faults, from `AbsentAssumption` (an absent
file is told from every file) and `BoundsAssumption`.

- `TInv` types the files and says of every transaction that its plan renders the
  user's text as it is (`Snapshot`, `Transaction`).  `TypeCorrect` and `UserTextKept`
  follow from it, also with an uninstall beside a sync and with compensations that
  fail: a plan made from one text never meets another one.
- `SyncKeepsMode` needs `Roles` (an installation runs only while the service is not
  loaded) and `OneMode` (whatever runs beside a sync found the same mode).
- `ReceiptValid` needs `RInv`: at each file of a transaction the receipt on disk is the
  old one with its backup, or the new one with its own (`PublicationReceipts`,
  `RemovalReceipts`).  The run has one fault, and the theorem says the same: with a
  second one a compensation fails and the receipt may be lost.  It excludes, like the
  two below, an uninstall that runs beside a sync (`Overlap`), which
  `docs/spec.md` leaves to the commands around and `picker_disorder` explores.
- `OwnedBackups` needs `IInv`: as long as no failure went uncompensated, every file is
  as the transaction read it or as it publishes it, in the order of its list, and there
  are exactly the backups this place in the list has (`PublicationStep`,
  `RemovalStep`).
- `ImplementsPublication` follows from the same invariant: a step that ends a
  transaction leaves all files published, withdrawn or as they were, so that what the
  world sees changes in one step.

`BridgeLifecycleProofs` proves the five properties of `bridge_lifecycle` for any number
of installations, edits, faults, backup names and versions, for the commands composed
with the replacement of the runtime, from `BridgeAbsentAssumption` (the absent file,
text, receipt and manifest are none) and `VersionsAssumption`.

- `OriginalsKept`.  `Somewhere` is the promise itself; it is not inductive, because a
  text is in its backup only as long as nobody deletes it.  `Installing` and
  `Uninstalling` say for each stage of a command why overwriting a file or deleting a
  backup is safe there: in an installation a file is either as it was found or the
  bridge's with the text saved, in an uninstall it is the bridge's or holds what its
  backup holds, and a backup goes only when the file holds its text.  `Numbered` makes
  a text say which file it belongs to, so that a text found in one file is not taken
  for the other's.  `WriteKeeps` and `DropKeeps` are the two ways a step can lose a
  text, stated once.  The invariant holds as long as the state is `Trusted`: no failure
  outside of what the code undoes, and no rollback reported as failed.
- `UninstallRestores` holds after every failure and death.  `RootMatched` says that a
  backup and the permissions beside it are those of the file the installation found,
  `InstallMatched` how they come about, and `UninstallMatched` in which order files,
  tree and backups go back: that a backup still exists when its file is restored and
  is gone when success is reported is one invariant, `MatchInv`.
- `FailuresUndone` needs both, and `UndoneInv`: `Dated` (a text of the bridge is no
  younger than the last installation, and what an installation found is older than
  what it writes), which shows that no file is the failed installation's; `SomeGone`
  (cleanups delete some of the command's own backups and touch nothing else), so
  that what stays holds the text of the file it was made from; and `PuttingBack` (an
  uninstall that gives up has put back the files off its undo list, and says so if
  it could not).
- `RuntimeBehindService` needs `BehindInv`: an uninstall removes the tree only
  behind a stopped service (`UninstallMatched`), and a service is not started again
  behind a removed tree, because the LaunchAgent is then absent or its user's
  (`Untouched`).
- `ReplacedAsPair` needs `PairInv`: between commands both runtimes are of one version,
  and at each stage of the script `Replacement` says which of the four files is which
  version, so that the trap puts the right ones back.  It says nothing of the pair
  once a command died or a move of the trap failed (`Torn`).

Only model-checked: liveness (fairness and ENABLED are beyond the prover); the type
invariant of `RoutePublication` (that `Remove` of a sequence yields a sequence needs an
induction over the sequence, which is not done); and one invariant, `CallsStayValid`,
because the operators on schemas are RECURSIVE.

## Plan

Done: the modules above.  What could follow, in this order:

1. `auth ensure` with the official login in `CredentialGate`.
2. The replacement of the runtime in front of `ModeSwitch`, as one command.

## Not modelled

- The optional reports of `doctor`, which read only; `config.rs` and the command line,
  which parse once; the launcher, which shows a log; `uninstall-native.rb`, a
  recovery by hand with its own copy of the checks.
- The official login of Grok: an interactive program that owns its file.
- Images and search requests: one pass-through request each.
- The parameters of a request that are copied, the text formats, plists and TOML as
  text, the wording of errors and logs.
- What Codex does with what it receives, beyond recording it.
