-------------------------- MODULE PickerTransaction --------------------------
(***************************************************************************)
(* The picker transactions of src/src/lifecycle.rs: install_picker,         *)
(* sync_installed_picker_catalog and uninstall_picker, over the files they  *)
(* own.  Each transaction is a sequence of atomic file replacements with    *)
(* compensation; between two of them the process may be killed, a call may  *)
(* fail, and the other process (the resident service, or a command line)    *)
(* may take a step.  Codex Desktop edits config.toml between transactions.  *)
(*                                                                          *)
(* A catalog is abstracted to the version of the input it is built from, a  *)
(* configuration to the part the bridge owns (markers, keys) and the        *)
(* version of the text its user owns.  An artifact identity (path, length,  *)
(* SHA-256) is the content itself.                                          *)
(***************************************************************************)
EXTENDS Naturals, Sequences

CONSTANTS
  Absent,       \* no such file, no backup, no user text
  BackupIds,    \* names unique_backup_path may choose
  MaxEdits,     \* bound: edits of config.toml
  MaxVersions,  \* bound: refreshes of each catalog input
  MaxFaults,    \* bound: injected faults
  FaultKinds,   \* which faults happen, see Fault below
  EditKinds,    \* how config.toml is edited, see EditConfig below
  Overlap       \* may `picker uninstall` run while the service is loaded?

ASSUME BoundsAssumption ==
  /\ MaxEdits \in Nat /\ MaxVersions \in Nat /\ MaxFaults \in Nat
  /\ FaultKinds \subseteq {"write", "fsync", "remove", "unlink", "fallback", "crash"}
  /\ EditKinds \subseteq {"rewrite", "append", "strip"}
  /\ Overlap \in BOOLEAN
  /\ Absent \notin Nat

VARIABLES
  disk,      \* generated catalog, native route, config.toml, managed state
  backups,   \* private backup files beside config.toml
  op,        \* op[p]: the transaction process p is running
  native,    \* version of Codex's models_cache.json
  grok,      \* version of the Grok catalog cache, state/models.json
  serviceUp, \* is the resident service loaded?
  userText,  \* the text the user last gave config.toml
  faults     \* the faults injected so far

vars == <<disk, backups, op, native, grok, serviceUp, userText, faults>>

Procs == {"service", "cli"}
Files == {"generated", "route", "config", "state"}
Modes == {"grok", "native"}

------------------------------------------------------------------------------
(* Contents of the files. *)

Text == (0 .. MaxEdits) \cup {Absent}

Config == [marks : {"none", "both", "end"}, keys : {"none", "ours", "other"}, text : Text]

Generated == [mode : Modes, native : 0 .. MaxVersions, grok : 0 .. MaxVersions]

Route == [mode : Modes, native : 0 .. MaxVersions]

Receipt == [id : BackupIds, content : Config]

Rollback == Receipt \cup {Absent}

State == [generated : Generated, route : Route, config : Config, rollback : Rollback]

\* Absent is no content: an absent file is told from every file.
ASSUME AbsentAssumption ==
  /\ Absent \notin BackupIds /\ Absent \notin Receipt
  /\ Absent \notin Generated /\ Absent \notin Route
  /\ Absent \notin Config /\ Absent \notin State

\* A user's configuration that the bridge has never touched.
Plain(text) == [marks |-> "none", keys |-> "none", text |-> text]

TextOf(config) == IF config = Absent THEN Absent ELSE config.text

\* The bridge's keys and table are removed by a syntax-aware editor: the begin
\* marker is a comment attached to the first removed key and goes with it, the
\* end marker belongs to whatever follows the block and stays.
RemoveManaged(config) ==
  [marks |-> IF config.marks = "none" THEN "none" ELSE "end",
   keys |-> "none", text |-> config.text]

\* One marker pair is replaced in place, no marker inserts the block, and a
\* single left-over marker is a conflict.
Renders(base) == base.marks # "end"

RenderPickerConfig(base) == [marks |-> "both", keys |-> "ours", text |-> base.text]

ValidBackup(rollback) == rollback # Absent => backups[rollback.id] = rollback.content

\* A backup name is new: no file and no receipt uses it.
FreshIds ==
  {b \in BackupIds : /\ backups[b] = Absent
                     /\ \A p \in Procs : op[p].fresh # b
                     /\ disk["state"] # Absent /\ disk["state"].rollback # Absent
                          => disk["state"].rollback.id # b}

------------------------------------------------------------------------------
(* A running transaction.  entry: the files as it read them; next: what it  *)
(* publishes; todo: the files still to write, or to restore while undoing;  *)
(* fresh: the backup it made; old: the backup it retires or must recreate.  *)

NoFiles == [f \in Files |-> Absent]

Idle == [kind |-> "idle", pc |-> "idle", entry |-> NoFiles, next |-> NoFiles,
         todo |-> <<>>, fresh |-> Absent, old |-> Absent]

AllIdle == \A p \in Procs : op[p] = Idle

\* A mishap is a failure the transactions do not compensate: a death, a directory
\* that cannot be synced, a backup that cannot be deleted, a second failure.
Fault(kind) ==
  /\ kind \in FaultKinds /\ faults.count < MaxFaults
  /\ faults' = [count |-> faults.count + 1,
                mishap |-> kind \notin {"write", "remove"} \/ faults.count > 0]

\* The plan prepare_picker_config makes: what it renders the managed block
\* into, the rollback receipt, the backup it writes and the one it supersedes.
Plan(base, rollback, fresh, old) ==
  [base |-> base, rollback |-> rollback, fresh |-> fresh, old |-> old]

UnchangedPlan(prior, config) ==
  IF prior # Absent /\ config = prior.config
  THEN {Plan(config, prior.rollback, Absent, Absent)} ELSE {}

\* Faulty variant: the receipt of the first installation is kept for a
\* configuration that has been rewritten since.
RewrittenKeepingReceipt(prior, config) ==
  IF prior # Absent /\ config \notin {Absent, prior.config} /\ config.keys = "ours"
  THEN {Plan(RemoveManaged(config), prior.rollback, Absent, Absent)}
  ELSE {}

RewrittenPlans(prior, config) ==
  IF prior # Absent /\ config \notin {Absent, prior.config} /\ config.keys = "ours"
  THEN LET base == RemoveManaged(config)
       IN  {Plan(base, [id |-> b, content |-> base], b, prior.rollback) : b \in FreshIds}
  ELSE {}

FirstPlans(prior, config) ==
  CASE prior = Absent /\ config = Absent -> {Plan(Plain(Absent), Absent, Absent, Absent)}
    [] prior = Absent /\ config # Absent /\ config = Plain(config.text) ->
         {Plan(config, [id |-> b, content |-> config], b, Absent) : b \in FreshIds}
    [] OTHER -> {}

PreparePickerConfig(prior, config) ==
  UnchangedPlan(prior, config) \cup RewrittenPlans(prior, config)
    \cup FirstPlans(prior, config)

BackupsWith(plan) ==
  IF plan.fresh = Absent THEN backups
  ELSE [backups EXCEPT ![plan.fresh] = plan.rollback.content]

NextFiles(mode, plan) ==
  LET generated == [mode |-> mode, native |-> native, grok |-> grok]
      route     == [mode |-> mode, native |-> native]
      config    == RenderPickerConfig(plan.base)
      state     == [generated |-> generated, route |-> route, config |-> config,
                    rollback |-> plan.rollback]
  IN  [f \in Files |-> CASE f = "generated" -> generated [] f = "route" -> route
                         [] f = "config" -> config [] f = "state" -> state]

PublishOrder == <<"generated", "route", "config", "state">>

\* Faulty variant: a failure at config.toml leaves the generated catalog behind.
InstallUndoPartly(f) ==
  CASE f = "generated" -> <<>>
    [] f = "route"     -> <<"generated">>
    [] f = "config"    -> <<"route">>
    [] f = "state"     -> <<"config", "generated", "route", "state">>

\* Files that failing at f leaves to restore, in the order the code restores them.
InstallUndo(f) ==
  CASE f = "generated" -> <<>>
    [] f = "route"     -> <<"generated">>
    [] f = "config"    -> <<"route", "generated">>
    [] f = "state"     -> <<"config", "generated", "route", "state">>

\* A sync writes, and restores, only the files that change.
Differing(entry, next) == {f \in Files : entry[f] # next[f]}

Only(f, changed) == IF f \in changed THEN <<f>> ELSE <<>>

Changed(entry, next) ==
  LET changed == Differing(entry, next)
  IN  Only("generated", changed) \o Only("route", changed)
        \o Only("config", changed) \o Only("state", changed)

SyncUndo(f, changed) ==
  CASE f = "generated" -> <<>>
    [] f = "route"     -> Only("generated", changed)
    [] f = "config"    -> Only("route", changed) \o Only("generated", changed)
    [] f = "state"     -> Only("config", changed) \o Only("route", changed)
                            \o Only("generated", changed)

RemovalOrder == <<"generated", "route", "state">>

UninstallUndo(f) ==
  CASE f = "generated" -> <<"config">>
    [] f = "route"     -> <<"generated", "config">>
    [] f = "state"     -> <<"route", "generated", "config">>

UndoOf(o, f) ==
  CASE o.kind = "install"   -> InstallUndo(f)
    [] o.kind = "sync"      -> SyncUndo(f, Differing(o.entry, o.next))
    [] o.kind = "uninstall" -> UninstallUndo(f)

------------------------------------------------------------------------------
(* Starting a transaction: every read, every validation and the backup. *)

Publishing(kind, plan, mode, todo) ==
  [kind |-> kind, pc |-> "write", entry |-> disk, next |-> NextFiles(mode, plan),
   todo |-> todo, fresh |-> plan.fresh, old |-> plan.old]

\* A plan that cannot be published: a superseded backup that is no longer what
\* its receipt says, or a configuration that still holds one marker.
Refused(plan) == ~ValidBackup(plan.old) \/ ~Renders(plan.base)

\* install_picker, called by picker activation once the service has stopped.
BeginInstall(mode) ==
  /\ op["cli"] = Idle /\ ~serviceUp
  /\ \E plan \in PreparePickerConfig(disk["state"], disk["config"]) :
       /\ ~Refused(plan)
       /\ op' = [op EXCEPT !["cli"] = Publishing("install", plan, mode, PublishOrder)]
       /\ backups' = BackupsWith(plan)
  /\ UNCHANGED <<disk, native, grok, serviceUp, userText, faults>>

\* sync_installed_picker_catalog, run by the service while an installed picker
\* still has the artifacts its managed state names; it keeps the installed mode.
SyncAccepts ==
  /\ disk["state"] # Absent
  /\ disk["generated"] = disk["state"].generated
  /\ disk["route"] = disk["state"].route

BeginSync ==
  /\ op["service"] = Idle /\ serviceUp
  /\ SyncAccepts
  /\ \E plan \in PreparePickerConfig(disk["state"], disk["config"]) :
       LET mode == disk["route"].mode
           todo == Changed(disk, NextFiles(mode, plan))
       IN  /\ ~Refused(plan)
           /\ todo # <<>>
           /\ op' = [op EXCEPT !["service"] = Publishing("sync", plan, mode, todo)]
           /\ backups' = BackupsWith(plan)
  /\ UNCHANGED <<disk, native, grok, serviceUp, userText, faults>>

\* prepare_picker_config makes the new backup before it looks at the superseded
\* receipt, and an invalid one makes it return with the backup left behind.
PrepareRefused ==
  /\ \/ op["cli"] = Idle /\ ~serviceUp
     \/ op["service"] = Idle /\ serviceUp /\ SyncAccepts
  /\ \E plan \in PreparePickerConfig(disk["state"], disk["config"]) :
       /\ plan.fresh # Absent /\ ~ValidBackup(plan.old)
       /\ backups' = BackupsWith(plan)
  /\ UNCHANGED <<disk, op, native, grok, serviceUp, userText, faults>>

\* So does install_picker when the configuration names no Native model to fall
\* back to.  (A rendering conflict removes the backup again: nothing changes.)
FallbackMissing ==
  /\ op["cli"] = Idle /\ ~serviceUp
  /\ \E plan \in PreparePickerConfig(disk["state"], disk["config"]) :
       /\ plan.fresh # Absent /\ ValidBackup(plan.old)
       /\ backups' = BackupsWith(plan)
  /\ Fault("fallback")
  /\ UNCHANGED <<disk, op, native, grok, serviceUp, userText>>

\* What preflight_uninstall and uninstall_picker require of a present picker.
UninstallAccepts ==
  /\ SyncAccepts
  /\ disk["config"] # Absent
  /\ disk["config"] = disk["state"].config \/ disk["config"].keys = "ours"
  /\ ValidBackup(disk["state"].rollback)

BeginUninstall ==
  /\ op["cli"] = Idle
  /\ ~serviceUp \/ Overlap
  /\ UninstallAccepts
  /\ op' = [op EXCEPT !["cli"] =
       [kind |-> "uninstall", pc |-> "config", entry |-> disk, next |-> NoFiles,
        todo |-> RemovalOrder, fresh |-> Absent, old |-> disk["state"].rollback]]
  /\ UNCHANGED <<disk, backups, native, grok, serviceUp, userText, faults>>

------------------------------------------------------------------------------
(* The files of a transaction, one atomic replacement or removal at a time. *)

Step(p, o) == op' = [op EXCEPT ![p] = o]

After(o, todo, pc) == [o EXCEPT !.todo = todo, !.pc = IF todo = <<>> THEN pc ELSE @]

\* After(o, ...) continues a transaction; an uninstall that has removed its
\* last file is over, a publication still has to retire the superseded backup.
Continue(o) ==
  LET rest == After(o, Tail(o.todo), "finish")
  IN  IF rest.pc = "finish" /\ (o.kind = "uninstall" \/ o.old = Absent) THEN Idle ELSE rest

\* After a failure at f: the undo list, then the backups.
Undoing(o, f) == After([o EXCEPT !.pc = "undo"], UndoOf(o, f), "abort")

Removes(o) == o.kind = "uninstall"

\* atomic_write or remove_file succeeds.  A removal needs the file to be there.
WriteNext(p) ==
  LET o == op[p]  f == Head(o.todo)
  IN  /\ o.pc = "write"
      /\ Removes(o) => disk[f] # Absent
      /\ disk' = [disk EXCEPT ![f] = o.next[f]]
      /\ Step(p, Continue(o))
      /\ UNCHANGED <<backups, native, grok, serviceUp, userText, faults>>

\* The call fails and leaves the file alone.
WriteFails(p) ==
  LET o == op[p]  f == Head(o.todo)
  IN  /\ o.pc = "write"
      /\ \/ ~Removes(o) /\ Fault("write")
         \/ Removes(o) /\ disk[f] # Absent /\ Fault("remove")
         \/ Removes(o) /\ disk[f] = Absent /\ UNCHANGED faults
      /\ Step(p, Undoing(o, f))
      /\ UNCHANGED <<disk, backups, native, grok, serviceUp, userText>>

\* atomic_write renames the file and then fails to sync its directory.
WriteUnsynced(p) ==
  LET o == op[p]  f == Head(o.todo)
  IN  /\ o.pc = "write" /\ ~Removes(o)
      /\ Fault("fsync")
      /\ disk' = [disk EXCEPT ![f] = o.next[f]]
      /\ Step(p, Undoing(o, f))
      /\ UNCHANGED <<backups, native, grok, serviceUp, userText>>

\* restore_optional_file, or atomic_write of the bytes an uninstall had read.
UndoNext(p) ==
  LET o == op[p]
  IN  /\ o.pc = "undo"
      /\ disk' = [disk EXCEPT ![Head(o.todo)] = o.entry[Head(o.todo)]]
      /\ Step(p, After(o, Tail(o.todo), "abort"))
      /\ UNCHANGED <<backups, native, grok, serviceUp, userText, faults>>

\* A failed restore ends an install or a sync at once; an uninstall records
\* the error and restores the rest.
UndoFails(p) ==
  LET o == op[p]
  IN  /\ o.pc = "undo"
      /\ Fault("write")
      /\ Step(p, IF Removes(o) THEN After(o, Tail(o.todo), "abort") ELSE Idle)
      /\ UNCHANGED <<disk, backups, native, grok, serviceUp, userText>>

\* The end of a failed transaction: PickerConfigPlan::abort deletes the backup
\* this transaction made, an uninstall recreates the one it had deleted.
Abort(p) ==
  LET o == op[p]
  IN  /\ o.pc = "abort"
      /\ backups' = CASE Removes(o) /\ o.old # Absent -> [backups EXCEPT ![o.old.id] = o.old.content]
                      [] ~Removes(o) /\ o.fresh # Absent -> [backups EXCEPT ![o.fresh] = Absent]
                      [] OTHER -> backups
      /\ Step(p, Idle)
      /\ UNCHANGED <<disk, native, grok, serviceUp, userText, faults>>

AbortFails(p) ==
  LET o == op[p]
  IN  /\ o.pc = "abort"
      /\ \/ Removes(o) /\ o.old # Absent /\ Fault("write")
         \/ ~Removes(o) /\ o.fresh # Absent /\ Fault("unlink")
      /\ Step(p, Idle)
      /\ UNCHANGED <<disk, backups, native, grok, serviceUp, userText>>

\* Faulty variant: the superseded backup is never deleted.
FinishKeepingBackup(p) ==
  /\ op[p].pc = "finish"
  /\ Step(p, Idle)
  /\ UNCHANGED <<disk, backups, native, grok, serviceUp, userText, faults>>

\* PickerConfigPlan::finish deletes the superseded backup, if it is still valid.
Finish(p) ==
  LET o == op[p]
  IN  /\ o.pc = "finish"
      /\ backups' = IF ValidBackup(o.old) THEN [backups EXCEPT ![o.old.id] = Absent] ELSE backups
      /\ Step(p, Idle)
      /\ UNCHANGED <<disk, native, grok, serviceUp, userText, faults>>

FinishFails(p) ==
  /\ op[p].pc = "finish"
  /\ Fault("unlink")
  /\ Step(p, Idle)
  /\ UNCHANGED <<disk, backups, native, grok, serviceUp, userText>>

------------------------------------------------------------------------------
(* An uninstall first gives config.toml back: rollback_picker_config. *)

\* Faulty variant: the backup is restored over a rewritten configuration.
RolledBackToBackup(o) == IF o.old # Absent THEN o.old.content ELSE Absent

\* The configuration the uninstall leaves: the exact backup (or no file) when
\* config.toml is still the one published, else what a rewrite left of it.
RolledBack(o) ==
  IF disk["config"] # o.entry["state"].config THEN RemoveManaged(disk["config"])
  ELSE IF o.old # Absent THEN o.old.content ELSE Absent

\* An exact restore needs its backup; a rewritten configuration does not.
RollbackRefused(o) ==
  \/ disk["config"] = Absent
  \/ disk["config"] = o.entry["state"].config /\ ~ValidBackup(o.old)
  \/ disk["config"] # o.entry["state"].config /\ disk["config"].keys # "ours"

RollbackConfig ==
  LET o == op["cli"]
  IN  /\ o.pc = "config" /\ ~RollbackRefused(o)
      /\ disk' = [disk EXCEPT !["config"] = RolledBack(o)]
      /\ Step("cli", [o EXCEPT !.pc = IF o.old = Absent THEN "write" ELSE "backup"])
      /\ UNCHANGED <<backups, native, grok, serviceUp, userText, faults>>

\* Nothing is compensated yet: the uninstall just returns the error.
RollbackConfigFails ==
  LET o == op["cli"]
  IN  /\ o.pc = "config"
      /\ IF RollbackRefused(o) THEN UNCHANGED faults ELSE Fault("write")
      /\ Step("cli", Idle)
      /\ UNCHANGED <<disk, backups, native, grok, serviceUp, userText>>

RollbackConfigUnsynced ==
  LET o == op["cli"]
  IN  /\ o.pc = "config" /\ ~RollbackRefused(o)
      /\ Fault("fsync")
      /\ disk' = [disk EXCEPT !["config"] = RolledBack(o)]
      /\ Step("cli", Idle)
      /\ UNCHANGED <<backups, native, grok, serviceUp, userText>>

\* The backup the configuration was restored from is deleted; when that fails
\* the uninstall returns with config.toml already rolled back.
DropBackup ==
  LET o == op["cli"]
  IN  /\ o.pc = "backup" /\ ValidBackup(o.old)
      /\ backups' = [backups EXCEPT ![o.old.id] = Absent]
      /\ Step("cli", [o EXCEPT !.pc = "write"])
      /\ UNCHANGED <<disk, native, grok, serviceUp, userText, faults>>

DropBackupFails ==
  LET o == op["cli"]
  IN  /\ o.pc = "backup"
      /\ IF ValidBackup(o.old) THEN Fault("unlink") ELSE UNCHANGED faults
      /\ Step("cli", Idle)
      /\ UNCHANGED <<disk, backups, native, grok, serviceUp, userText>>

------------------------------------------------------------------------------
(* The environment. *)

\* The process dies: its transaction stops where it is.
Crash(p) ==
  /\ op[p] # Idle
  /\ Fault("crash")
  /\ Step(p, Idle)
  /\ UNCHANGED <<disk, backups, native, grok, serviceUp, userText>>

\* Faulty variant: the service is killed logically while its sync thread goes on.
StopServiceAnyTime ==
  /\ serviceUp
  /\ serviceUp' = FALSE
  /\ UNCHANGED <<disk, backups, op, native, grok, userText, faults>>

\* Activation and `service uninstall` boot the service out.  It shuts down
\* gracefully, and a running sync has no suspension point, so it ends first.
StopService ==
  /\ serviceUp /\ AllIdle
  /\ serviceUp' = FALSE
  /\ UNCHANGED <<disk, backups, op, native, grok, userText, faults>>

StartService ==
  /\ ~serviceUp /\ op["cli"] = Idle
  /\ serviceUp' = TRUE
  /\ UNCHANGED <<disk, backups, op, native, grok, userText, faults>>

NextText == IF userText = Absent THEN 0 ELSE userText + 1

\* The user or Desktop writes config.toml: "rewrite" serialises it anew without
\* comments, "append" edits it in place, "strip" drops or changes our keys.  An
\* edit between the reading and the writing of a transaction is left out.
EditConfig(kind) ==
  LET config == disk["config"]
  IN  /\ kind \in EditKinds /\ NextText \in Text
      /\ AllIdle
      /\ userText' = NextText
      /\ disk' = [disk EXCEPT !["config"] =
           CASE config = Absent -> Plain(NextText)
             [] config # Absent /\ kind = "rewrite" ->
                  [config EXCEPT !.text = NextText, !.marks = "none"]
             [] config # Absent /\ kind = "append" -> [config EXCEPT !.text = NextText]
             [] config # Absent /\ kind = "strip" ->
                  [config EXCEPT !.text = NextText,
                                 !.keys = IF @ = "none" THEN "none" ELSE "other"]]
      /\ UNCHANGED <<backups, op, native, grok, serviceUp, faults>>

RefreshNative ==
  /\ native < MaxVersions
  /\ native' = native + 1
  /\ UNCHANGED <<disk, backups, op, grok, serviceUp, userText, faults>>

RefreshGrok ==
  /\ grok < MaxVersions
  /\ grok' = grok + 1
  /\ UNCHANGED <<disk, backups, op, native, serviceUp, userText, faults>>

------------------------------------------------------------------------------

Init ==
  /\ userText \in {Absent, 0}
  /\ disk = [NoFiles EXCEPT !["config"] = IF userText = Absent THEN Absent ELSE Plain(0)]
  /\ backups = [b \in BackupIds |-> Absent]
  /\ op = [p \in Procs |-> Idle]
  /\ native = 0 /\ grok = 0
  /\ serviceUp = FALSE
  /\ faults = [count |-> 0, mishap |-> FALSE]

Begin == (\E mode \in Modes : BeginInstall(mode)) \/ BeginSync \/ BeginUninstall
  \/ PrepareRefused \/ FallbackMissing

Advance(p) ==
  \/ WriteNext(p) \/ UndoNext(p) \/ Abort(p) \/ Finish(p)
  \/ WriteFails(p) \/ WriteUnsynced(p) \/ UndoFails(p) \/ AbortFails(p) \/ FinishFails(p)

AdvanceRollback ==
  \/ RollbackConfig \/ DropBackup
  \/ RollbackConfigFails \/ RollbackConfigUnsynced \/ DropBackupFails

Environment ==
  \/ StopService \/ StartService \/ RefreshNative \/ RefreshGrok
  \/ \E kind \in EditKinds : EditConfig(kind)

Next ==
  \/ Begin \/ AdvanceRollback \/ Environment
  \/ \E p \in Procs : Advance(p) \/ Crash(p)

Spec == Init /\ [][Next]_vars

------------------------------------------------------------------------------
(* Properties. *)

DiskType ==
  /\ disk["generated"] \in Generated \cup {Absent}
  /\ disk["route"] \in Route \cup {Absent}
  /\ disk["config"] \in Config \cup {Absent}
  /\ disk["state"] \in State \cup {Absent}

\* Every variable stays in its type; in particular a transaction only ever
\* holds steps it can take next.
TypeOK ==
  /\ DOMAIN disk = Files /\ DiskType
  /\ backups \in [BackupIds -> Config \cup {Absent}]
  /\ DOMAIN op = Procs
  /\ \A p \in Procs :
       /\ op[p].kind \in {"idle", "install", "sync", "uninstall"}
       /\ op[p].pc \in {"idle", "config", "backup", "write", "undo", "abort", "finish"}
       /\ op[p].pc \in {"write", "undo"} => op[p].todo # <<>>
       /\ op[p].todo \in Seq(Files)
       /\ op[p].fresh \in BackupIds \cup {Absent}
       /\ op[p].old \in Rollback
  /\ native \in 0 .. MaxVersions /\ grok \in 0 .. MaxVersions
  /\ serviceUp \in BOOLEAN /\ userText \in Text /\ faults \in [count : 0 .. MaxFaults, mishap : BOOLEAN]

\* What the user last wrote into config.toml is there after every file
\* operation of every transaction, whatever fails or dies: rendering, rolling
\* back to a backup and compensating never bring an older text back.
UserTextKept == TextOf(disk["config"]) = userText

\* Whenever config.toml is the file the managed state published, the receipt an
\* uninstall would use is on disk and holds exactly the text config.toml holds.
\* (A failing uninstall restores config.toml before it recreates the backup.)
ReceiptValid ==
  LET state == disk["state"]
  IN  state # Absent /\ disk["config"] = state.config /\ op["cli"].kind # "uninstall" =>
        /\ ValidBackup(state.rollback)
        /\ TextOf(IF state.rollback = Absent THEN Absent ELSE state.rollback.content)
             = TextOf(state.config)

Withdrawn(files) ==
  /\ files["generated"] = Absent /\ files["route"] = Absent /\ files["state"] = Absent
  /\ files["config"] # Absent => files["config"].keys # "ours"

Described(files) ==
  /\ files["state"] # Absent
  /\ files["generated"] = files["state"].generated
  /\ files["route"] = files["state"].route

\* Between transactions the only backup on disk is the one the state names: an
\* aborted plan removes its backup and a finished one its predecessor's.
OwnedBackups ==
  AllIdle /\ ~faults.mishap =>
    {b \in BackupIds : backups[b] # Absent} =
      IF disk["state"] = Absent \/ disk["state"].rollback = Absent THEN {}
      ELSE {disk["state"].rollback.id}

\* Only an installation changes the mode the picker is published in: a sync that
\* planned its files before the switch never writes them after it.
SyncKeepsMode ==
  [][op["service"] # Idle /\ op["cli"] = Idle /\ disk["route"] # Absent /\ disk'["route"] # Absent
       => disk'["route"].mode = disk["route"].mode]_vars

\* The abstract promise: while a transaction runs the world still sees the files
\* as it read them; when it ends they are published, withdrawn or unchanged.
Visible ==
  IF AllIdle THEN disk ELSE op[CHOOSE p \in Procs : op[p] # Idle].entry

Coherent(files) ==
  /\ Described(files)
  /\ files["route"] = [mode |-> files["generated"].mode, native |-> files["generated"].native]

Torn == [mode |-> "torn", native |-> 0, grok |-> 0]

VisiblePicker ==
  CASE Withdrawn(Visible)                        -> Absent
    [] ~Withdrawn(Visible) /\ Coherent(Visible)  -> Visible["generated"]
    [] ~Withdrawn(Visible) /\ ~Coherent(Visible) -> Torn

VisibleManaged == Visible["config"] # Absent /\ Visible["config"].keys = "ours"

Publication ==
  INSTANCE PickerPublication
    WITH Pickers <- Generated, Texts <- 0 .. MaxEdits,
         picker <- VisiblePicker, managed <- VisibleManaged,
         text <- TextOf(Visible["config"]), mishap <- faults.mishap

\* Installs, syncs and uninstalls implement the abstract publication: every
\* interleaving of their file operations, and every compensation of a failed
\* one, is one atomic step or none; whatever else happens, the text is kept.
ImplementsPublication == Publication!Spec

==============================================================================
