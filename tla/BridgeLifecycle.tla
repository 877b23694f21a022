--------------------------- MODULE BridgeLifecycle ---------------------------
(* install, preflight_uninstall, uninstall and doctor of lifecycle.rs, with *)
(* the commands of main.rs around them.  An installation is a tree, the     *)
(* install root, and two files outside of it: a Codex profile and a         *)
(* LaunchAgent, which may replace files of the user.  Any call may fail and *)
(* the process may die between two of them; the user writes the two files   *)
(* while no command changes them.                                           *)
(*                                                                          *)
(* A file is its text and its permissions.  A text is who wrote it and a    *)
(* number: the user's texts differ, a profile holds the random capability   *)
(* of its installation, the LaunchAgent is the same in every installation.  *)
EXTENDS Naturals, Sequences

CONSTANTS
  Absent,
  BackupIds,    \* names unique_backup_path may choose
  MaxInstalls,  \* bound: installations
  MaxEdits,     \* bound: files the user writes or deletes
  MaxFaults,    \* bound: failures and deaths
  FaultKinds    \* which failures happen, see Fault

ASSUME BridgeBoundsAssumption ==
  /\ MaxInstalls \in Nat /\ MaxEdits \in Nat /\ MaxFaults \in Nat
  /\ FaultKinds \subseteq {"write", "remove", "unlink", "launchctl", "check", "crash",
                           "unsynced", "partial", "leftover", "move"}

Texts == [by : {"user", "bridge"}, n : Nat]
Files == [text : Texts, mode : {"private", "public"}]
Records == [backup : BackupIds, mode : {"private", "public"}]

Targets == {"profile", "agent"}
Roots == [install : Nat, receipts : [Targets -> Records \cup {Absent}],
          original : [Targets -> Files \cup {Absent}], picker : BOOLEAN, whole : BOOLEAN]

ASSUME BridgeAbsentAssumption == Absent \notin Texts \cup Files \cup Records \cup Roots

VARIABLES
  disk,      \* the profile and the LaunchAgent
  backups,   \* private backups beside them
  root,      \* the install root: its manifest, its picker, and whether it is whole
  bin,       \* the runtimes in its bin directory, by name
  stages,    \* stage trees beside it
  service,   \* "loaded" or "not_loaded"
  cmd,       \* the running command
  outcome,   \* what the last one reported
  mine,      \* what the user wrote and did not write over
  count      \* installations, edits and faults so far

vars == <<disk, backups, root, bin, stages, service, cmd, outcome, mine, count>>

Runtimes == {"binary", "launcher", "newBinary", "newLauncher", "oldBinary", "oldLauncher"}

Installed(f, install) ==
  IF f = "profile"
  THEN [text |-> [by |-> "bridge", n |-> install], mode |-> "private"]
  ELSE [text |-> [by |-> "bridge", n |-> 0], mode |-> "public"]

\* The permissions prepare_external_target takes: a profile is 0600, a
\* LaunchAgent 0644 or 0600.
Permitted(f, file) == f = "agent" \/ file.mode = "private"

NoReceipts == [f \in Targets |-> Absent]
NoRuntimes == [r \in Runtimes |-> Absent]

\* id: the installation a command is about; receipts: its backups; original:
\* the files as install read them (for uninstall, and in the root, only to state
\* what it restores); changed: the targets known to be written.
\* Then what the replacement of a runtime keeps: see RuntimeReplacement.
Idle == [kind |-> "none", pc |-> "idle", todo |-> <<>>, id |-> 0,
         receipts |-> NoReceipts, original |-> NoReceipts, changed |-> {},
         failed |-> FALSE, prior |-> "not_loaded",
         version |-> 0, stopped |-> FALSE, replaced |-> {}]

Excepted == {"launchctl", "crash", "unsynced", "partial", "leftover", "move"}

\* write: a call fails without effect.  remove: so does a removal.  unlink: a
\* backup is not deleted.  launchctl: a launchctl call fails.  check: what was
\* put in place does not pass.  crash: the process dies.  unsynced: a call has
\* its effect and fails after it.  partial: a tree is removed in part.  leftover:
\* what a failing command removes again, its errors ignored, stays (with the
\* failure before it one fault).  move: a move of the script's rollback fails.
\* The kinds a property excepts are remembered.
Fault(kind) ==
  /\ kind \in FaultKinds /\ count.faults < MaxFaults
  /\ count' = [count EXCEPT !.faults = @ + 1, !.kinds = @ \cup ({kind} \cap Excepted)]

At(kind, pc) == cmd.kind = kind /\ cmd.pc = pc

Goto(pc) == cmd' = [cmd EXCEPT !.pc = pc]
Advance(c, then) ==
  [c EXCEPT !.todo = Tail(@), !.pc = IF Len(c.todo) = 1 THEN then ELSE @]
End(report) == cmd' = Idle /\ outcome' = report

\* Bound: after a rollback that failed the user repairs by hand, and no further
\* command is modelled.
Ready == cmd = Idle /\ outcome # "rollback_failed"

fileVars == <<disk, backups, root, bin, stages, service, mine>>

-----------------------------------------------------------------------------
(* install                                                                  *)

\* A backup name is new.
FreshIds ==
  {b \in BackupIds : /\ backups[b] = Absent
                     /\ root # Absent => \A f \in Targets :
                          root.receipts[f] # Absent => root.receipts[f].backup # b
                     /\ \A f \in Targets :
                          cmd.receipts[f] # Absent => cmd.receipts[f].backup # b}

Without(receipts) ==
  [b \in BackupIds |->
     IF \E f \in Targets : receipts[f] # Absent /\ receipts[f].backup = b
     THEN Absent ELSE backups[b]]

\* InstallPaths::validate: only a root that does not exist.
Installable == root = Absent

\* Everything is written into a stage tree first; when that fails the tree is
\* removed again.
BeginInstall ==
  /\ Ready /\ Installable /\ count.installs < MaxInstalls
  /\ LET n == count.installs + 1 IN
     /\ stages' = stages \cup {n}
     /\ cmd' = [Idle EXCEPT !.kind = "install", !.pc = "prepare", !.id = n,
                            !.todo = <<"profile", "agent">>]
     /\ outcome' = "none"
     /\ count' = [count EXCEPT !.installs = n]
  /\ UNCHANGED <<disk, backups, root, bin, service, mine>>

\* prepare_external_target
Prepare ==
  /\ At("install", "prepare")
  /\ LET f == Head(cmd.todo)
         then == Advance([cmd EXCEPT !.original[f] = disk[f]], "manifest")
     IN  IF disk[f] = Absent
         THEN cmd' = then /\ UNCHANGED backups
         ELSE /\ Permitted(f, disk[f])
              /\ \E b \in FreshIds :
                   /\ backups' = [backups EXCEPT ![b] = disk[f].text]
                   /\ cmd' = [then EXCEPT !.receipts[f] =
                                [backup |-> b, mode |-> disk[f].mode]]
  /\ UNCHANGED <<disk, root, bin, stages, service, outcome, mine, count>>

\* cleanup_prepared_backup ignores its errors: the backups of `kept` stay.
Discard(kept) ==
  backups' = Without([f \in Targets |-> IF f \in kept THEN Absent ELSE cmd.receipts[f]])

\* The backups made so far and the stage tree go, but for those that stay
\* because their removal fails too; the first error is the one reported.
Abandon(kept, tree) ==
  /\ Discard(kept)
  /\ stages' = (stages \ {cmd.id}) \cup tree
  /\ End("failed")
  /\ UNCHANGED <<disk, root, bin, service, mine>>

PrepareRefused ==
  /\ At("install", "prepare")
  /\ LET file == disk[Head(cmd.todo)]
     IN  file # Absent /\ ~Permitted(Head(cmd.todo), file)
  /\ \/ Abandon({}, {}) /\ UNCHANGED count
     \/ /\ Fault("leftover")
        /\ \E kept \in SUBSET Targets, tree \in SUBSET {cmd.id} : Abandon(kept, tree)

\* A stage tree that could be created in part only is not even tried to remove.
PrepareFails ==
  /\ At("install", "prepare") \/ At("install", "manifest")
  /\ \/ Fault("write") /\ Abandon({}, {})
     \/ /\ Fault("leftover")
        /\ \E kept \in SUBSET Targets, tree \in SUBSET {cmd.id} : Abandon(kept, tree)

WriteManifest ==
  /\ At("install", "manifest")
  /\ cmd' = [cmd EXCEPT !.pc = "write", !.todo = <<"profile", "agent">>]
  /\ UNCHANGED <<fileVars, outcome, count>>

WriteTarget ==
  /\ At("install", "write")
  /\ LET f == Head(cmd.todo) IN
     /\ disk' = [disk EXCEPT ![f] = Installed(f, cmd.id)]
     /\ cmd' = Advance([cmd EXCEPT !.changed = @ \cup {f}], "rename")
  /\ UNCHANGED <<backups, root, bin, stages, service, outcome, mine, count>>

\* Faulty variant: the profile is not put back.
UndoingAgent(c) ==
  [c EXCEPT !.todo = <<"agent">>, !.pc = IF "agent" \in c.changed THEN "undo" ELSE "undone"]

\* The undo list of both commands: the targets written, the last one first; the
\* profile is always written before the LaunchAgent.
Undoing(c) ==
  LET todo == IF "agent" \in c.changed THEN <<"agent", "profile">>
              ELSE IF "profile" \in c.changed THEN <<"profile">> ELSE <<>>
  IN  [c EXCEPT !.todo = todo, !.pc = IF todo = <<>> THEN "undone" ELSE "undo"]

\* atomic_write fails before or, with its file in place, after its rename.
WriteTargetFails ==
  /\ At("install", "write")
  /\ \/ Fault("write") /\ UNCHANGED disk
     \/ /\ Fault("unsynced")
        /\ disk' = [disk EXCEPT ![Head(cmd.todo)] = Installed(Head(cmd.todo), cmd.id)]
  /\ cmd' = Undoing(cmd)
  /\ UNCHANGED <<backups, root, bin, stages, service, outcome, mine>>

RenameRoot ==
  /\ At("install", "rename")
  /\ root' = [install |-> cmd.id, receipts |-> cmd.receipts, original |-> cmd.original,
              picker |-> FALSE, whole |-> TRUE]
  /\ bin' = [NoRuntimes EXCEPT !["binary"] = 0, !["launcher"] = 0]
  /\ stages' = stages \ {cmd.id}
  /\ Goto("sync")
  /\ UNCHANGED <<disk, backups, service, outcome, mine, count>>

SyncRoot ==
  /\ At("install", "sync")
  /\ End("ok")
  /\ UNCHANGED <<fileVars, count>>

RenameFails ==
  /\ At("install", "rename") \/ At("install", "sync")
  /\ Fault("write")
  /\ cmd' = Undoing(cmd)
  /\ UNCHANGED <<fileVars, outcome>>

\* rollback_install: a target that cannot be restored is reported.
UndoTarget ==
  /\ At("install", "undo")
  /\ disk' = [disk EXCEPT ![Head(cmd.todo)] = cmd.original[Head(cmd.todo)]]
  /\ cmd' = Advance(cmd, "undone")
  /\ UNCHANGED <<backups, root, bin, stages, service, outcome, mine, count>>

UndoFails ==
  /\ cmd.pc = "undo"
  /\ Fault("write")
  /\ cmd' = Advance([cmd EXCEPT !.failed = TRUE], "undone")
  /\ UNCHANGED <<fileVars, outcome>>

Report == IF cmd.failed THEN "rollback_failed" ELSE "failed"

\* The backups go whether or not they were needed, as far as they can be
\* removed, and the tree where it is; only for the tree a failure is reported.
UndoRoot ==
  /\ At("install", "undone")
  /\ \/ Discard({}) /\ UNCHANGED count
     \/ Fault("leftover") /\ \E kept \in SUBSET Targets : Discard(kept)
  /\ stages' = stages \ {cmd.id}
  /\ root' = Absent /\ bin' = NoRuntimes
  /\ End(Report)
  /\ UNCHANGED <<disk, service, mine>>

UndoRootFails ==
  /\ At("install", "undone")
  /\ \/ Fault("remove") /\ Discard({})
     \/ Fault("leftover") /\ \E kept \in SUBSET Targets : Discard(kept)
  /\ End("rollback_failed")
  /\ UNCHANGED <<disk, root, bin, stages, service, mine>>

Install ==
  \/ BeginInstall \/ Prepare \/ PrepareRefused \/ PrepareFails \/ WriteManifest
  \/ WriteTarget \/ WriteTargetFails \/ RenameRoot \/ SyncRoot \/ RenameFails
  \/ UndoTarget \/ UndoRoot \/ UndoRootFails

-----------------------------------------------------------------------------
(* uninstall                                                                *)

BackupsThere(receipts) ==
  \A f \in Targets : receipts[f] # Absent => backups[receipts[f].backup] # Absent

\* The manifest and what it names inside the root; the two runtimes; the two
\* files, exactly as they were installed.
ManifestValid == root # Absent /\ root.whole
BinaryInstalled == bin["binary"] # Absent
LauncherInstalled == bin["launcher"] # Absent
ProfileExact == disk["profile"] = Installed("profile", root.install)
AgentExact == disk["agent"] = Installed("agent", root.install)

\* doctor --native-compatibility does not look at the launcher.
DoctorPasses ==
  /\ ManifestValid /\ BinaryInstalled
  /\ ProfileExact /\ BackupsThere(root.receipts) /\ AgentExact

\* validate_managed_install
Accepted == DoctorPasses /\ LauncherInstalled

\* uninstall_command: preflight_uninstall, and the status of the service.
BeginUninstall ==
  /\ Ready /\ Accepted
  /\ cmd' = [Idle EXCEPT !.kind = "uninstall", !.pc = "stop", !.id = root.install,
                         !.receipts = root.receipts, !.original = root.original,
                         !.prior = service]
  /\ outcome' = "none"
  /\ UNCHANGED <<fileVars, count>>

\* Faulty variant: a service that takes long to stop is not waited for.
StopLater ==
  /\ At("uninstall", "stop")
  /\ service' \in {service, "not_loaded"}
  /\ Goto("validate")
  /\ UNCHANGED <<disk, backups, root, bin, stages, outcome, mine, count>>

StopService ==
  /\ At("uninstall", "stop")
  /\ service' = "not_loaded"
  /\ Goto("validate")
  /\ UNCHANGED <<disk, backups, root, bin, stages, outcome, mine, count>>

\* launchctl fails, or the service takes longer to stop than the command waits.
StopFails ==
  /\ At("uninstall", "stop")
  /\ Fault("launchctl")
  /\ service' \in {service, "not_loaded"}
  /\ End("failed")
  /\ UNCHANGED <<disk, backups, root, bin, stages, mine>>

\* Faulty variant: what the preflight saw is taken for what is there.
ValidateNothing ==
  /\ At("uninstall", "validate")
  /\ Goto("picker")
  /\ UNCHANGED <<fileVars, outcome, count>>

\* Stopping took its time: uninstall validates everything again.
Validate ==
  /\ At("uninstall", "validate")
  /\ Goto(IF Accepted THEN "picker" ELSE "restart")
  /\ UNCHANGED <<fileVars, outcome, count>>

\* uninstall_picker_if_present is a transaction of its own (PickerTransaction):
\* it removes the picker, or fails and leaves it there.
RemovePicker ==
  /\ At("uninstall", "picker")
  /\ root' = [root EXCEPT !.picker = FALSE]
  /\ cmd' = [cmd EXCEPT !.pc = "restore", !.todo = <<"profile", "agent">>]
  /\ UNCHANGED <<disk, backups, bin, stages, service, outcome, mine, count>>

RemovePickerFails ==
  /\ At("uninstall", "picker") /\ root.picker
  /\ Fault("remove")
  /\ Goto("restart")
  /\ UNCHANGED <<fileVars, outcome>>

\* Faulty variant: the file gets the permissions install writes, not its own.
PreviousText(f) ==
  LET r == cmd.receipts[f]
  IN  IF r = Absent THEN Absent
      ELSE [text |-> backups[r.backup], mode |-> Installed(f, 0).mode]

\* RestorePlan::apply
Previous(f) ==
  LET r == cmd.receipts[f]
  IN  IF r = Absent THEN Absent ELSE [text |-> backups[r.backup], mode |-> r.mode]

Restore ==
  /\ At("uninstall", "restore")
  /\ LET f == Head(cmd.todo) IN
     /\ disk' = [disk EXCEPT ![f] = Previous(f)]
     /\ cmd' = Advance([cmd EXCEPT !.changed = @ \cup {f}], "tree")
  /\ UNCHANGED <<backups, root, bin, stages, service, outcome, mine, count>>

RestoreFails ==
  /\ At("uninstall", "restore")
  /\ \/ Fault("write") /\ UNCHANGED disk
     \/ Fault("unsynced") /\ disk' = [disk EXCEPT ![Head(cmd.todo)] = Previous(Head(cmd.todo))]
  /\ cmd' = Undoing(cmd)
  /\ UNCHANGED <<backups, root, bin, stages, service, outcome, mine>>

RemoveTree ==
  /\ At("uninstall", "tree")
  /\ root' = Absent /\ bin' = NoRuntimes
  /\ cmd' = [cmd EXCEPT !.pc = "finish", !.todo = <<"profile", "agent">>]
  /\ UNCHANGED <<disk, backups, stages, service, outcome, mine, count>>

RemoveTreeFails ==
  /\ At("uninstall", "tree")
  /\ \/ Fault("remove") /\ UNCHANGED <<root, bin>>
     \/ Fault("partial") /\ root' = [root EXCEPT !.whole = FALSE] /\ UNCHANGED bin
     \/ Fault("unsynced") /\ root' = Absent /\ bin' = NoRuntimes
  /\ cmd' = Undoing(cmd)
  /\ UNCHANGED <<disk, backups, stages, service, outcome, mine>>

\* RestorePlan::rollback puts the installed files back.
UndoRestore ==
  /\ At("uninstall", "undo")
  /\ disk' = [disk EXCEPT ![Head(cmd.todo)] = Installed(Head(cmd.todo), cmd.id)]
  /\ cmd' = Advance(cmd, "undone")
  /\ UNCHANGED <<backups, root, bin, stages, service, outcome, mine, count>>

UninstallUndone ==
  /\ At("uninstall", "undone")
  /\ Goto("restart")
  /\ UNCHANGED <<fileVars, outcome, count>>

\* RestorePlan::finish deletes the backups when everything else is done.
Finish ==
  /\ At("uninstall", "finish")
  /\ LET r == cmd.receipts[Head(cmd.todo)]
     IN  backups' = IF r = Absent THEN backups ELSE [backups EXCEPT ![r.backup] = Absent]
  /\ IF Len(cmd.todo) = 1 THEN End("ok")
     ELSE cmd' = Advance(cmd, "finish") /\ UNCHANGED outcome
  /\ UNCHANGED <<disk, root, bin, stages, service, mine, count>>

FinishFails ==
  /\ At("uninstall", "finish") /\ cmd.receipts[Head(cmd.todo)] # Absent
  /\ Fault("unlink")
  /\ Goto("restart")
  /\ UNCHANGED <<fileVars, outcome>>

\* service_install takes the LaunchAgent only as the bridge writes it, and
\* launchctl no service that is loaded.
Startable == service = "not_loaded" /\ disk["agent"] = Installed("agent", 0)

\* It is refused, or launchctl fails in one of its two calls.
StartRefused ==
  \/ ~Startable /\ UNCHANGED <<service, count>>
  \/ Startable /\ Fault("launchctl") /\ service' \in {service, "loaded"}

\* A failed uninstall starts the service again if it was loaded; when that
\* fails, its error takes the place of the first one.
Restart ==
  /\ At("uninstall", "restart")
  /\ \/ cmd.prior = "not_loaded" /\ End(Report) /\ UNCHANGED <<service, count>>
     \/ cmd.prior = "loaded" /\ Startable /\ service' = "loaded" /\ End(Report) /\ UNCHANGED count
     \/ cmd.prior = "loaded" /\ StartRefused /\ End("failed")
  /\ UNCHANGED <<disk, backups, root, bin, stages, mine>>

Uninstall ==
  \/ BeginUninstall \/ StopService \/ StopFails \/ Validate \/ RemovePicker
  \/ RemovePickerFails \/ Restore \/ RestoreFails \/ RemoveTree \/ RemoveTreeFails
  \/ UndoRestore \/ UninstallUndone \/ Finish \/ FinishFails \/ Restart

-----------------------------------------------------------------------------
(* Around the two commands.                                                 *)

\* The process of a command dies; what it did stays.
Crash ==
  /\ cmd # Idle /\ Fault("crash")
  /\ End("crashed")
  /\ UNCHANGED fileVars

\* `service install` and `service uninstall` of the installed binary.
ServiceCommand ==
  /\ cmd = Idle /\ root # Absent /\ bin["binary"] # Absent
  /\ \/ Startable /\ service' = "loaded"
     \/ service' = "not_loaded"
  /\ UNCHANGED <<disk, backups, root, bin, stages, cmd, outcome, mine, count>>

\* `picker install`, the transaction of PickerTransaction, when it succeeds.
PickerInstall ==
  /\ cmd = Idle /\ root # Absent
  /\ root' = [root EXCEPT !.picker = TRUE]
  /\ UNCHANGED <<disk, backups, bin, stages, service, cmd, outcome, mine, count>>

\* The user writes, deletes or repairs one of the files, while no command has
\* begun to change them.
UserMayEdit ==
  cmd.kind \in {"none", "replace"} \/ cmd.pc \in {"stop", "validate"}

Held(f) == IF disk[f] = Absent THEN {} ELSE {[target |-> f, text |-> disk[f].text]}

UserWrites ==
  /\ UserMayEdit /\ count.edits < MaxEdits
  /\ \E f \in Targets, mode \in {"private", "public"} :
       LET text == [by |-> "user", n |-> count.edits]
       IN  /\ disk' = [disk EXCEPT ![f] = [text |-> text, mode |-> mode]]
           /\ mine' = (mine \ Held(f)) \cup {[target |-> f, text |-> text]}
  /\ count' = [count EXCEPT !.edits = @ + 1]
  /\ UNCHANGED <<backups, root, bin, stages, service, cmd, outcome>>

UserDeletes ==
  /\ UserMayEdit
  /\ \E f \in Targets : /\ disk[f] # Absent
                        /\ disk' = [disk EXCEPT ![f] = Absent]
                        /\ mine' = mine \ Held(f)
  /\ UNCHANGED <<backups, root, bin, stages, service, cmd, outcome, count>>

UserRepairs ==
  /\ cmd = Idle /\ root # Absent
  /\ \E f \in Targets : /\ disk' = [disk EXCEPT ![f] = Installed(f, root.install)]
                        /\ mine' = mine \ Held(f)
  /\ UNCHANGED <<backups, root, bin, stages, service, cmd, outcome, count>>

Environment == Crash \/ ServiceCommand \/ PickerInstall \/ UserWrites \/ UserDeletes \/ UserRepairs

Init ==
  /\ disk = [f \in Targets |-> Absent] /\ mine = {}
  /\ backups = [b \in BackupIds |-> Absent]
  /\ root = Absent /\ bin = NoRuntimes /\ stages = {}
  /\ service = "not_loaded" /\ cmd = Idle /\ outcome = "none"
  /\ count = [installs |-> 0, edits |-> 0, faults |-> 0, kinds |-> {}]

BridgeNext == Install \/ Uninstall \/ UndoFails \/ Environment

-----------------------------------------------------------------------------
(* Properties.  Two kinds of failure are outside of what the code undoes,   *)
(* see the README: a call that fails after its effect, and a tree that is   *)
(* removed in part.  After a failed rollback was reported anything may be.  *)

Undoable == count.kinds \cap {"unsynced", "partial"} = {}
Warned == cmd.failed \/ outcome = "rollback_failed"

\* What the user wrote into a profile or a LaunchAgent is there, or in a backup,
\* through any installations, removals, failures and deaths, as long as no
\* command says its rollback failed (prepare_external_target, rollback_install
\* and RestorePlan; docs/spec.md:56).
OriginalsKept ==
  Undoable /\ ~Warned =>
    \A m \in mine :
      \/ disk[m.target] # Absent /\ disk[m.target].text = m.text
      \/ \E b \in BackupIds : backups[b] = m.text

Ends(kind, report) == cmd.kind = kind /\ cmd' = Idle /\ outcome' = report

\* An uninstall that succeeds leaves both files as the installation found them,
\* with their permissions, no backup of it, and no service (docs/spec.md:127).
UninstallRestores ==
  [][Ends("uninstall", "ok") =>
       /\ disk' = cmd.original
       /\ root' = Absent /\ service' = "not_loaded"
       /\ \A f \in Targets : cmd.receipts[f] # Absent =>
            backups'[cmd.receipts[f].backup] = Absent]_vars

\* A command that fails, and does not say that its rollback failed, leaves no
\* half.  An installation leaves no root and none of its files: the user's are
\* as it read them, and what is left of its backups, which are removed without a
\* look at the result, is a copy of those; no backup and no stage tree where all
\* removals succeeded.  An uninstall leaves all files and their backups, so that
\* it can be tried again, or none but a backup (docs/spec.md:131).
FailuresUndone ==
  [][Undoable' =>
       /\ Ends("install", "failed") =>
            /\ root' = Absent
            /\ \A f \in Targets :
                 /\ disk'[f] # Absent => disk'[f].text # [by |-> "bridge", n |-> cmd.id]
                 /\ cmd.receipts[f] # Absent =>
                      /\ disk'[f] = cmd.original[f]
                      /\ backups'[cmd.receipts[f].backup] \in {Absent, disk'[f].text}
            /\ "leftover" \notin count'.kinds =>
                 /\ cmd.id \notin stages'
                 /\ \A f \in Targets : cmd.receipts[f] # Absent =>
                      backups'[cmd.receipts[f].backup] = Absent
       /\ Ends("uninstall", "failed") /\ ~cmd.failed =>
            \/ /\ root' # Absent
               /\ \A f \in Targets : cmd.receipts[f] # Absent =>
                    backups'[cmd.receipts[f].backup] # Absent
               /\ \A f \in cmd.changed : disk'[f] = Installed(f, cmd.id)
            \/ root' = Absent /\ disk' = cmd.original]_vars

\* A loaded service has its root and its binary, whatever else was started,
\* failed or replaced meanwhile (uninstall_command stops it first, and starts it
\* again only with what it needs).
RuntimeBehindService ==
  Undoable /\ "crash" \notin count.kinds /\ service = "loaded" =>
    root # Absent /\ bin["binary"] # Absent

=============================================================================
