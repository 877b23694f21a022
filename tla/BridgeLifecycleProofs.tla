------------------------ MODULE BridgeLifecycleProofs ------------------------
(*****************************************************************************)
(* Proofs about BridgeLifecycle, with the replacement of the runtime, for    *)
(* any number of installations, edits, faults, versions and backup names:    *)
(* what the user wrote is never lost, an uninstall restores it, a command    *)
(* that fails leaves no half, a replacement ends with one pair, and a        *)
(* service has what it runs.                                                 *)
(*****************************************************************************)
EXTENDS RuntimeReplacement, TLAPS

\* The files of a list, and the lists of the commands.
Left(todo) == {todo[k] : k \in DOMAIN todo}

Todos == {<<>>, <<"profile">>, <<"agent">>, <<"profile", "agent">>, <<"agent", "profile">>}

Recorded(receipts) == receipts \in [Targets -> Records \cup {Absent}]

\* A command is a record like Idle, its list is one of Todos.
CmdShaped(c) ==
  /\ DOMAIN c = DOMAIN Idle
  /\ c.todo \in Todos /\ c.id \in Nat /\ c.changed \subseteq Targets
  /\ Recorded(c.receipts) /\ c.original \in [Targets -> Files \cup {Absent}]

\* The types the proofs need.
Shaped ==
  /\ disk \in [Targets -> Files \cup {Absent}]
  /\ backups \in [BackupIds -> Texts \cup {Absent}]
  /\ mine \subseteq [target : Targets, text : Texts]
  /\ root # Absent => root \in Roots
  /\ CmdShaped(cmd)

\* The texts of the user are told apart by their numbers.
Aged(text) == text.by = "user" => text.n < count.edits

\* A text the user wrote into one file is not taken for the other's.
Belongs(f, text) == \A m \in mine : m.text = text => m.target = f

BackedUp(receipts, f) == IF receipts[f] = Absent THEN Absent ELSE backups[receipts[f].backup]

\* Every text is older than the next one, and belongs to the file it is in, or
\* was in when it was backed up.
Numbered ==
  /\ \A m \in mine : m.text.by = "user" /\ Aged(m.text)
  /\ \A b \in BackupIds : backups[b] # Absent => Aged(backups[b])
  /\ \A f \in Targets :
       /\ disk[f] # Absent => Aged(disk[f].text) /\ Belongs(f, disk[f].text)
       /\ root # Absent => Belongs(f, BackedUp(root.receipts, f))
       /\ Belongs(f, BackedUp(cmd.receipts, f))

\* Every text of the user is in its file or in a backup.
Somewhere ==
  \A m \in mine :
    \/ disk[m.target] # Absent /\ disk[m.target].text = m.text
    \/ \E b \in BackupIds : backups[b] = m.text

\* Install: what it found is still there, or it is in a backup and the file is
\* the bridge's; and when the undo list has been worked off it is there.
Prepared(f) == cmd.pc # "prepare" \/ f \notin Left(cmd.todo)
Found(f) == disk[f] = cmd.original[f]
Saved(f) == BackedUp(cmd.receipts, f) = IF cmd.original[f] = Absent THEN Absent
                                        ELSE cmd.original[f].text

Installing ==
  cmd.kind = "install" =>
    /\ cmd.pc \in {"prepare", "manifest", "write", "rename", "sync", "undo", "undone"}
    /\ cmd.pc \in {"prepare", "manifest"} => root = Absent
    /\ cmd.pc \in {"prepare", "manifest"} => cmd.changed = {} /\ ~cmd.failed
    /\ \A f \in Targets :
         /\ IF Prepared(f) THEN Saved(f) ELSE cmd.receipts[f] = Absent
         /\ Prepared(f) => Found(f) \/ disk[f] = Installed(f, cmd.id)
         /\ Prepared(f) /\ cmd.pc \notin {"undo", "undone"} /\ f \notin cmd.changed => Found(f)
         /\ cmd.pc = "undo" /\ f \notin Left(cmd.todo) => cmd.failed \/ Found(f)
         /\ cmd.pc = "undone" => cmd.failed \/ Found(f)

\* Uninstall: a file is the bridge's or holds what its backup holds, and the
\* backups go when the files hold it.
Bridges(f) == disk[f] # Absent => disk[f].text.by = "bridge"
Returned(f) ==
  LET text == BackedUp(cmd.receipts, f)
  IN  text # Absent => disk[f] # Absent /\ disk[f].text = text

Uninstalling ==
  cmd.kind = "uninstall" =>
    /\ cmd.pc \in {"stop", "validate", "picker", "restore", "tree", "finish", "undo", "undone",
                   "restart"}
    /\ cmd.pc \in {"stop", "validate", "picker", "restore", "tree"} =>
         root # Absent /\ cmd.receipts = root.receipts
    /\ cmd.pc \in {"picker", "restore"} => BackupsThere(cmd.receipts)
    /\ \A f \in Targets :
         /\ cmd.pc = "picker" => Bridges(f)
         /\ cmd.pc \in {"restore", "tree", "undo"} =>
              Bridges(f) \/ (disk[f] # Absent /\ disk[f].text = BackedUp(cmd.receipts, f))
         /\ cmd.pc = "restore" /\ f \notin Left(cmd.todo) => Returned(f)
         /\ cmd.pc \in {"tree", "finish"} => Returned(f)

\* What an uninstall needs to restore a file is there.
Recoverable ==
  cmd.kind = "uninstall" =>
    /\ cmd.pc \in {"picker", "restore", "tree"} => root # Absent
    /\ cmd.pc = "restore" => BackupsThere(cmd.receipts)

\* A step that is about a file has one.
Working ==
  cmd.pc \in {"prepare", "write", "undo", "restore", "finish"} => cmd.todo # <<>>

\* No command runs once one has reported that its rollback failed.
Counted ==
  /\ DOMAIN count = {"installs", "edits", "faults", "kinds"}
  /\ count.edits \in Nat /\ count.installs \in Nat
  /\ outcome = "rollback_failed" => cmd = Idle

\* No failure that is not undone happened, and no command reported one.
Trusted == Undoable /\ outcome # "rollback_failed"

\* The inductive invariant.
IInv ==
  /\ Counted
  /\ Trusted => Shaped /\ Working /\ Numbered /\ Somewhere /\ Installing /\ Uninstalling

-----------------------------------------------------------------------------
(* The list of files still to do.                                           *)

\* The first file of a list, and the files of the rest.
LEMMA TodoFacts ==
  ASSUME NEW todo \in Todos
  PROVE  /\ Left(todo) \subseteq Targets
         /\ todo = <<>> => Left(todo) = {}
         /\ todo # <<>> => /\ Head(todo) \in Targets /\ Tail(todo) \in Todos
                          /\ Left(todo) = Left(Tail(todo)) \cup {Head(todo)}
                          /\ Head(todo) \notin Left(Tail(todo))
                          /\ (Len(todo) = 1 <=> Tail(todo) = <<>>)
<1>1. Left(<<>>) = {}
  BY DEF Left
<1>2. ASSUME NEW f PROVE Left(<<f>>) = {f}
  BY DEF Left
<1>3. ASSUME NEW f, NEW g PROVE Left(<<f, g>>) = {f, g}
  BY DEF Left
<1>4. ASSUME NEW f PROVE Head(<<f>>) = f /\ Tail(<<f>>) = <<>> /\ Len(<<f>>) = 1 /\ <<f>> # <<>>
  OBVIOUS
<1>5. ASSUME NEW f, NEW g
      PROVE  /\ Head(<<f, g>>) = f /\ Tail(<<f, g>>) = <<g>> /\ Len(<<f, g>>) = 2
             /\ <<f, g>> # <<>>
  OBVIOUS
<1>6. CASE todo = <<>>
  BY <1>1, <1>6
<1>7. ASSUME NEW f \in Targets, todo = <<f>>
      PROVE  Left(todo) \subseteq Targets /\ Head(todo) = f /\ Tail(todo) = <<>> /\ Len(todo) = 1
             /\ Left(todo) = {f} /\ todo # <<>>
  BY <1>2, <1>4, <1>7
<1>8. ASSUME NEW f \in Targets, NEW g \in Targets, f # g, todo = <<f, g>>
      PROVE  Left(todo) \subseteq Targets /\ Head(todo) = f /\ Tail(todo) = <<g>> /\ Len(todo) = 2
             /\ Left(todo) = {f, g} /\ todo # <<>> /\ Left(<<g>>) = {g} /\ <<g>> # <<>>
  BY <1>2, <1>3, <1>4, <1>5, <1>8
<1>9. CASE \E f \in Targets : todo = <<f>>
  BY <1>1, <1>7, <1>9 DEF Todos
<1>10. CASE \E f \in Targets, g \in Targets : f # g /\ todo = <<f, g>>
  <2>1. PICK f \in Targets, g \in Targets : f # g /\ todo = <<f, g>>
    BY <1>10
  <2>2. <<g>> \in Todos
    BY DEF Todos, Targets
  <2>3. QED
    BY <1>8, <2>1, <2>2
<1>11. QED
  BY <1>6, <1>9, <1>10 DEF Todos, Targets

-----------------------------------------------------------------------------
(* Shapes.                                                                  *)

\* No command is a command without files and receipts.
LEMMA IdleShaped ==
  CmdShaped(Idle) /\ Idle.pc = "idle" /\ Idle.kind = "none" /\ Idle.receipts = NoReceipts
BY DEF CmdShaped, Idle, NoReceipts, Todos, Recorded

\* Nothing that is written is the absent file.
LEMMA TextsAbsent ==
  /\ \A t \in Texts : t # Absent
  /\ \A x \in Files : x # Absent
  /\ \A r \in Records : r # Absent
  /\ \A r \in Roots : r # Absent
BY BridgeAbsentAssumption

\* The manifest of an installation, also when its picker or its tree changes.
LEMMA RootFacts ==
  ASSUME Shaped, root # Absent
  PROVE  /\ Recorded(root.receipts) /\ root.install \in Nat
         /\ root.original \in [Targets -> Files \cup {Absent}]
         /\ \A b \in BOOLEAN :
              /\ [root EXCEPT !.picker = b] \in Roots /\ [root EXCEPT !.picker = b] # Absent
              /\ [root EXCEPT !.picker = b].receipts = root.receipts
              /\ [root EXCEPT !.picker = b].original = root.original
              /\ [root EXCEPT !.picker = b].install = root.install
              /\ [root EXCEPT !.whole = b] \in Roots /\ [root EXCEPT !.whole = b] # Absent
              /\ [root EXCEPT !.whole = b].receipts = root.receipts
              /\ [root EXCEPT !.whole = b].original = root.original
              /\ [root EXCEPT !.whole = b].install = root.install
<1>1. root \in Roots
  BY DEF Shaped
<1>2. \A b \in BOOLEAN : [root EXCEPT !.picker = b] \in Roots /\ [root EXCEPT !.whole = b] \in Roots
  BY <1>1 DEF Roots
<1>3. QED
  BY <1>1, <1>2, TextsAbsent DEF Roots, Recorded

\* What the bridge installs is a file, and its text the bridge's.
LEMMA InstalledFile ==
  ASSUME NEW f, NEW n \in Nat
  PROVE  Installed(f, n) \in Files /\ Installed(f, n).text.by = "bridge"
BY DEF Installed, Files, Texts

\* Advancing only drops the first file, and goes on after the last.
LEMMA AdvanceShaped ==
  ASSUME NEW c, CmdShaped(c), c.todo # <<>>, NEW then
  PROVE  /\ CmdShaped(Advance(c, then))
         /\ Advance(c, then).todo = Tail(c.todo)
         /\ Advance(c, then).pc = IF Tail(c.todo) = <<>> THEN then ELSE c.pc
         /\ \A k \in DOMAIN Idle \ {"pc", "todo"} : Advance(c, then)[k] = c[k]
<1> DEFINE d == Advance(c, then)
<1>1. \A k \in DOMAIN Idle \ {"pc", "todo"} : d[k] = c[k]
  BY DEF CmdShaped, Advance
<1>2. DOMAIN d = DOMAIN Idle
  BY DEF CmdShaped, Advance
<1>3. d.todo = Tail(c.todo) /\ d.pc = IF Len(c.todo) = 1 THEN then ELSE c.pc
  BY DEF CmdShaped, Advance, Idle
<1>4. Tail(c.todo) \in Todos /\ (Len(c.todo) = 1 <=> Tail(c.todo) = <<>>)
  <2>1. c.todo \in Todos
    BY DEF CmdShaped
  <2>2. QED
    BY <2>1, TodoFacts
<1>5. d.id = c.id /\ d.changed = c.changed /\ d.receipts = c.receipts /\ d.original = c.original
  BY <1>1 DEF Idle
<1>6. QED
  BY <1>1, <1>2, <1>3, <1>4, <1>5 DEF CmdShaped

\* Every file known to be written is on the undo list.
LEMMA UndoingShaped ==
  ASSUME NEW c, CmdShaped(c)
  PROVE  /\ CmdShaped(Undoing(c))
         /\ Left(Undoing(c).todo) = IF "agent" \in c.changed THEN Targets ELSE c.changed
         /\ Undoing(c).pc \in {"undo", "undone"}
         /\ Undoing(c).pc = "undone" <=> Undoing(c).todo = <<>>
         /\ \A k \in DOMAIN Idle \ {"pc", "todo"} : Undoing(c)[k] = c[k]
<1>1. /\ Left(<<>>) = {} /\ Left(<<"profile">>) = {"profile"}
      /\ Left(<<"agent", "profile">>) = Targets
  BY DEF Left, Targets
<1>2. <<"profile">> # <<>> /\ <<"agent", "profile">> # <<>>
  OBVIOUS
<1> DEFINE d == Undoing(c)
<1>3. \A k \in DOMAIN Idle \ {"pc", "todo"} : d[k] = c[k]
  BY DEF CmdShaped, Undoing
<1>4. DOMAIN d = DOMAIN Idle
  BY DEF CmdShaped, Undoing
<1>5. /\ d.todo = IF "agent" \in c.changed THEN <<"agent", "profile">>
                  ELSE IF "profile" \in c.changed THEN <<"profile">> ELSE <<>>
      /\ d.pc = IF d.todo = <<>> THEN "undone" ELSE "undo"
  BY DEF CmdShaped, Undoing, Idle
<1>6. d.id = c.id /\ d.changed = c.changed /\ d.receipts = c.receipts /\ d.original = c.original
  BY <1>3 DEF Idle
<1>7. d.todo \in Todos
  BY <1>5 DEF Todos
<1>8. Left(d.todo) = IF "agent" \in c.changed THEN Targets ELSE c.changed
  BY <1>1, <1>5 DEF CmdShaped, Targets
<1>9. QED
  BY <1>2, <1>3, <1>4, <1>5, <1>6, <1>7, <1>8 DEF CmdShaped

\* Before the first command.
LEMMA InitShaped == Init => Counted /\ Shaped /\ Working
BY IdleShaped DEF Init, Counted, Shaped, Working, Idle

\* A record field of the running command.
LEMMA CmdFields ==
  ASSUME NEW c, CmdShaped(c)
  PROVE  /\ \A p : /\ CmdShaped([c EXCEPT !.pc = p])
                  /\ [c EXCEPT !.pc = p].pc = p
                  /\ \A k \in DOMAIN Idle \ {"pc"} : [c EXCEPT !.pc = p][k] = c[k]
         /\ \A f \in Targets : /\ CmdShaped([c EXCEPT !.changed = @ \cup {f}])
                              /\ \A k \in DOMAIN Idle \ {"changed"} :
                                   [c EXCEPT !.changed = @ \cup {f}][k] = c[k]
BY DEF CmdShaped, Idle

\* A fault leaves the counts of installations and edits, and what it is not
\* undone after stays remembered.
LEMMA FaultFacts ==
  ASSUME Counted, NEW kind, Fault(kind)
  PROVE  /\ DOMAIN count' = DOMAIN count
         /\ count'.edits = count.edits /\ count'.installs = count.installs
         /\ Undoable' => Undoable /\ kind \notin {"unsynced", "partial"}
<1>1. /\ count'.kinds = count.kinds \cup ({kind} \cap Excepted)
      /\ DOMAIN count' = DOMAIN count
      /\ count'.edits = count.edits /\ count'.installs = count.installs
  BY DEF Counted, Fault
<1>2. QED
  BY <1>1 DEF Undoable, Excepted

\* Backups of the running command go, and nothing else happens to any.
SomeGone ==
  /\ backups' = [b \in BackupIds |-> backups'[b]]
  /\ \A b \in BackupIds :
       \/ backups'[b] = backups[b]
       \/ /\ backups'[b] = Absent
          /\ \E f \in Targets : cmd.receipts[f] # Absent /\ cmd.receipts[f].backup = b

\* A cleanup whose removals may fail discards some of the backups.
LEMMA DiscardFacts ==
  ASSUME NEW kept, Discard(kept)
  PROVE  SomeGone
<1> DEFINE receipts == [f \in Targets |-> IF f \in kept THEN Absent ELSE cmd.receipts[f]]
<1>1. \A f \in Targets : receipts[f] # Absent => receipts[f] = cmd.receipts[f]
  OBVIOUS
<1>2. backups' = Without(receipts)
  BY DEF Discard
<1> HIDE DEF receipts
<1>3. QED
  BY <1>1, <1>2 DEF Without, SomeGone

\* How a failing preparation and an undone installation end.
LEMMA AbandonFacts ==
  ASSUME PrepareRefused \/ PrepareFails
  PROVE  /\ cmd.kind = "install" /\ cmd.pc \in {"prepare", "manifest"}
         /\ cmd' = Idle /\ outcome' = "failed"
         /\ SomeGone /\ UNCHANGED <<disk, root, bin, service, mine>>
         /\ count' = count \/ \E kind : Fault(kind)
<1>1. PICK kept, tree : Abandon(kept, tree)
  BY DEF PrepareRefused, PrepareFails
<1>2. Discard(kept) /\ UNCHANGED <<disk, root, bin, service, mine>> /\ End("failed")
  BY <1>1 DEF Abandon
<1>3. SomeGone
  BY <1>2, DiscardFacts
<1>4. QED
  BY <1>2, <1>3 DEF PrepareRefused, PrepareFails, At, End

\* The same of the last step of a rollback.
LEMMA UndoRootFacts ==
  ASSUME UndoRoot \/ UndoRootFails
  PROVE  /\ cmd.kind = "install" /\ cmd.pc = "undone"
         /\ cmd' = Idle /\ SomeGone /\ UNCHANGED <<disk, service, mine>>
         /\ UndoRoot => root' = Absent /\ bin' = NoRuntimes /\ outcome' = Report
         /\ UndoRootFails => UNCHANGED <<root, bin, stages>> /\ outcome' = "rollback_failed"
         /\ count' = count \/ \E kind : Fault(kind)
<1>1. \E kept : Discard(kept)
  BY DEF UndoRoot, UndoRootFails
<1>2. SomeGone
  BY <1>1, DiscardFacts
<1>3. QED
  BY <1>2 DEF UndoRoot, UndoRootFails, At, End

\* The file an action is about is the first of its list.
LEMMA HeadTarget ==
  ASSUME Shaped, cmd.todo # <<>>
  PROVE  Head(cmd.todo) \in Targets
BY TodoFacts DEF Shaped, CmdShaped

\* What a step does to the list, in terms of the next command.
LEMMA Advanced ==
  ASSUME NEW c, CmdShaped(c), c.todo # <<>>, NEW then, cmd' = Advance(c, then)
  PROVE  /\ CmdShaped(cmd') /\ cmd'.todo = Tail(c.todo)
         /\ \/ cmd'.pc = c.pc /\ cmd'.todo # <<>>
            \/ cmd'.pc = then /\ cmd'.todo = <<>>
         /\ cmd'.kind = c.kind /\ cmd'.id = c.id /\ cmd'.receipts = c.receipts
         /\ cmd'.original = c.original /\ cmd'.changed = c.changed /\ cmd'.failed = c.failed
<1>1. /\ CmdShaped(cmd') /\ cmd'.todo = Tail(c.todo)
      /\ \A k \in DOMAIN Idle \ {"pc", "todo"} : cmd'[k] = c[k]
  BY AdvanceShaped
<1>2. cmd'.pc = IF Tail(c.todo) = <<>> THEN then ELSE c.pc
  BY AdvanceShaped
<1>3. /\ cmd'.kind = c.kind /\ cmd'.id = c.id /\ cmd'.receipts = c.receipts
      /\ cmd'.original = c.original /\ cmd'.changed = c.changed /\ cmd'.failed = c.failed
  BY <1>1 DEF Idle
<1>4. QED
  BY <1>1, <1>2, <1>3

\* The same of the next command.
LEMMA Undone ==
  ASSUME CmdShaped(cmd), cmd' = Undoing(cmd)
  PROVE  /\ Left(cmd'.todo) = IF "agent" \in cmd.changed THEN Targets ELSE cmd.changed
         /\ cmd'.pc \in {"undo", "undone"} /\ (cmd'.pc = "undone" <=> cmd'.todo = <<>>)
         /\ cmd'.kind = cmd.kind /\ cmd'.id = cmd.id /\ cmd'.receipts = cmd.receipts
         /\ cmd'.original = cmd.original /\ cmd'.changed = cmd.changed /\ cmd'.failed = cmd.failed
<1>1. \A k \in DOMAIN Idle \ {"pc", "todo"} : cmd'[k] = cmd[k]
  BY UndoingShaped
<1>2. /\ cmd'.kind = cmd.kind /\ cmd'.id = cmd.id /\ cmd'.receipts = cmd.receipts
      /\ cmd'.original = cmd.original /\ cmd'.changed = cmd.changed /\ cmd'.failed = cmd.failed
  BY <1>1 DEF Idle
<1>3. QED
  BY <1>2, UndoingShaped

\* A command that advances keeps the shapes.
LEMMA AdvanceKeepsShape ==
  ASSUME Shaped, Working, NEW c, CmdShaped(c), c.todo # <<>>,
         NEW then \in {"manifest", "rename", "undone", "tree"},
         cmd' = Advance(c, then)
  PROVE  CmdShaped(cmd') /\ Working'
BY Advanced DEF Working

\* A command that begins to undo keeps the shapes.
LEMMA UndoingKeepsShape ==
  ASSUME Shaped, Working, cmd' = Undoing(cmd)
  PROVE  CmdShaped(cmd') /\ Working'
<1>1. CmdShaped(cmd') /\ cmd'.pc \in {"undo", "undone"} /\ (cmd'.pc = "undone" <=> cmd'.todo = <<>>)
  BY UndoingShaped DEF Shaped
<1>2. QED
  BY <1>1 DEF Working

\* A command that runs has not reported anything.
LEMMA NotReported ==
  ASSUME Counted, cmd.kind # "none"
  PROVE  outcome # "rollback_failed"
BY IdleShaped DEF Counted

\* The steps of install keep the shapes.
LEMMA InstallShaped ==
  ASSUME Counted, Shaped, Working, Install
  PROVE  Shaped' /\ Working'
<1>1. CASE BeginInstall
  BY <1>1, IdleShaped DEF BeginInstall, Ready, CmdShaped, Todos, Idle, Counted, Shaped, Working
<1>2. CASE Prepare
  <2> DEFINE f == Head(cmd.todo)
             kept == [cmd EXCEPT !.original[f] = disk[f]]
  <2>1. /\ cmd.kind = "install" /\ cmd.pc = "prepare" /\ cmd.todo # <<>>
        /\ UNCHANGED <<disk, root, outcome, mine, count>>
    BY <1>2 DEF Prepare, At, Working
  <2>2. f \in Targets
    BY <2>1, HeadTarget
  <2>3. CASE disk[f] = Absent
    <3>1. CmdShaped(kept) /\ kept.todo = cmd.todo
      BY <2>2 DEF Shaped, CmdShaped, Idle
    <3>2. cmd' = Advance(kept, "manifest") /\ UNCHANGED backups
      BY <1>2, <2>3 DEF Prepare
    <3>3. CmdShaped(cmd') /\ Working'
      BY <2>1, <2>2, <3>1, <3>2, AdvanceKeepsShape
    <3>4. QED
      BY <2>1, <3>2, <3>3 DEF Shaped
  <2>4. CASE disk[f] # Absent
    <3> DEFINE advanced == Advance(kept, "manifest")
    <3>1. PICK b \in BackupIds :
            /\ backups' = [backups EXCEPT ![b] = disk[f].text]
            /\ cmd' = [advanced EXCEPT !.receipts[f] = [backup |-> b, mode |-> disk[f].mode]]
      BY <1>2, <2>4 DEF Prepare, FreshIds
    <3>2. disk[f] \in Files
      BY <2>2, <2>4 DEF Shaped
    <3>3. CmdShaped(kept) /\ kept.todo = cmd.todo
      BY <2>2 DEF Shaped, CmdShaped, Idle
    <3>4. CmdShaped(advanced) /\ (advanced.pc = "manifest" \/ advanced.todo # <<>>)
      BY <2>1, <3>3, AdvanceShaped
    <3>5. [backup |-> b, mode |-> disk[f].mode] \in Records
      BY <3>2 DEF Files, Records
    <3>6. CmdShaped(cmd') /\ cmd'.pc = advanced.pc /\ cmd'.todo = advanced.todo
      BY <2>2, <3>1, <3>4, <3>5 DEF CmdShaped, Recorded, Idle
    <3>7. backups' \in [BackupIds -> Texts \cup {Absent}]
      BY <3>1, <3>2 DEF Shaped, Files
    <3>8. advanced.pc \in {"manifest", "prepare"}
      BY <2>1, <3>3, AdvanceShaped DEF Idle, CmdShaped
    <3>9. QED
      BY <2>1, <2>2, <3>4, <3>6, <3>7, <3>8 DEF Shaped, Working
  <2>5. QED
    BY <2>3, <2>4
<1>3. CASE PrepareRefused \/ PrepareFails
  BY <1>3, AbandonFacts, IdleShaped DEF SomeGone, Shaped, Working
<1>4. CASE WriteManifest
  BY <1>4 DEF WriteManifest, CmdShaped, Idle, Todos, Shaped, Working, At, fileVars
<1>5. CASE WriteTarget
  <2> DEFINE f == Head(cmd.todo)
             written == [cmd EXCEPT !.changed = @ \cup {f}]
  <2>1. /\ cmd.kind = "install" /\ cmd.pc = "write" /\ cmd.todo # <<>>
        /\ disk' = [disk EXCEPT ![f] = Installed(f, cmd.id)]
        /\ cmd' = Advance(written, "rename")
        /\ UNCHANGED <<backups, root, outcome, mine, count>>
    BY <1>5 DEF WriteTarget, At, Working
  <2>2. f \in Targets
    BY <2>1, HeadTarget
  <2>3. CmdShaped(written) /\ written.todo = cmd.todo
    BY <2>2, CmdFields DEF Shaped, Idle
  <2>4. CmdShaped(cmd') /\ Working'
    BY <2>1, <2>2, <2>3, AdvanceKeepsShape
  <2>5. disk' \in [Targets -> Files \cup {Absent}]
    BY <2>1, <2>2, InstalledFile DEF Shaped, CmdShaped
  <2>6. QED
    BY <2>1, <2>4, <2>5 DEF Shaped
<1>6. CASE WriteTargetFails
  <2>1. /\ cmd.kind = "install" /\ cmd.pc = "write" /\ cmd.todo # <<>>
        /\ disk' \in {disk, [disk EXCEPT ![Head(cmd.todo)] = Installed(Head(cmd.todo), cmd.id)]}
        /\ cmd' = Undoing(cmd)
        /\ UNCHANGED <<backups, root, outcome, mine>>
        /\ \E kind : Fault(kind)
    BY <1>6 DEF WriteTargetFails, At, Working
  <2>2. Head(cmd.todo) \in Targets
    BY <2>1, HeadTarget
  <2>3. CmdShaped(cmd') /\ Working'
    BY <2>1, <2>2, UndoingKeepsShape
  <2>4. disk' \in [Targets -> Files \cup {Absent}]
    BY <2>1, <2>2, InstalledFile DEF Shaped, CmdShaped
  <2>5. QED
    BY <2>1, <2>3, <2>4, FaultFacts DEF Shaped
<1>7. CASE RenameRoot
  <2>1. /\ cmd' = [cmd EXCEPT !.pc = "sync"] /\ UNCHANGED <<disk, backups, mine>>
        /\ root' = [install |-> cmd.id, receipts |-> cmd.receipts, original |-> cmd.original,
                    picker |-> FALSE, whole |-> TRUE]
    BY <1>7 DEF RenameRoot, Goto
  <2>2. root' \in Roots
    BY <2>1 DEF Roots, Shaped, CmdShaped, Recorded
  <2>3. CmdShaped(cmd') /\ cmd'.pc = "sync"
    BY <2>1, CmdFields DEF Shaped
  <2>4. QED
    BY <2>1, <2>2, <2>3 DEF Shaped, Working
<1>8. CASE SyncRoot
  BY <1>8, IdleShaped DEF SyncRoot, End, Shaped, Working, fileVars
<1>9. CASE RenameFails
  <2>1. /\ cmd.kind = "install" /\ cmd' = Undoing(cmd) /\ Fault("write")
        /\ UNCHANGED <<disk, backups, root, outcome, mine>>
    BY <1>9 DEF RenameFails, At, fileVars
  <2>2. CmdShaped(cmd') /\ Working'
    BY <2>1, UndoingKeepsShape
  <2>3. QED
    BY <2>1, <2>2, FaultFacts DEF Shaped
<1>10. CASE UndoTarget
  <2>1. /\ cmd.kind = "install" /\ cmd.pc = "undo" /\ cmd.todo # <<>>
        /\ disk' = [disk EXCEPT ![Head(cmd.todo)] = cmd.original[Head(cmd.todo)]]
        /\ cmd' = Advance(cmd, "undone")
        /\ UNCHANGED <<backups, root, outcome, mine, count>>
    BY <1>10 DEF UndoTarget, At, Working
  <2>2. Head(cmd.todo) \in Targets
    BY <2>1, HeadTarget
  <2>3. CmdShaped(cmd') /\ Working'
    BY <2>1, <2>2, AdvanceKeepsShape DEF Shaped
  <2>4. disk' \in [Targets -> Files \cup {Absent}]
    BY <2>1, <2>2 DEF Shaped, CmdShaped
  <2>5. QED
    BY <2>1, <2>3, <2>4 DEF Shaped
<1>11. CASE UndoRoot \/ UndoRootFails
  BY <1>11, UndoRootFacts, IdleShaped DEF SomeGone, Shaped, Working
<1>12. QED
  BY <1>1, <1>2, <1>3, <1>4, <1>5, <1>6, <1>7, <1>8, <1>9, <1>10, <1>11 DEF Install

\* What uninstall restores is a file, or none where there was none.
LEMMA PreviousFile ==
  ASSUME Shaped, NEW f \in Targets, BackupsThere(cmd.receipts)
  PROVE  IF cmd.receipts[f] = Absent THEN Previous(f) = Absent ELSE Previous(f) \in Files
<1>1. CASE cmd.receipts[f] = Absent
  BY <1>1 DEF Previous
<1>2. CASE cmd.receipts[f] # Absent
  <2>1. cmd.receipts[f] \in Records
    BY <1>2 DEF Shaped, CmdShaped, Recorded
  <2>2. backups[cmd.receipts[f].backup] \in Texts
    BY <1>2, <2>1 DEF BackupsThere, Shaped, Records
  <2>3. QED
    BY <1>2, <2>1, <2>2 DEF Previous, Files, Records
<1>3. QED
  BY <1>1, <1>2

\* The steps of uninstall keep the shapes.
LEMMA UninstallShaped ==
  ASSUME Counted, Shaped, Working, Recoverable, Uninstall
  PROVE  Shaped' /\ Working'
<1>1. CASE BeginUninstall
  <2>1. /\ root # Absent /\ UNCHANGED fileVars
        /\ cmd' = [Idle EXCEPT !.kind = "uninstall", !.pc = "stop", !.id = root.install,
                               !.receipts = root.receipts, !.original = root.original,
                               !.prior = service]
    BY <1>1 DEF BeginUninstall, Accepted, DoctorPasses, ManifestValid
  <2>2. CmdShaped(cmd') /\ cmd'.pc = "stop"
    BY <2>1, IdleShaped, RootFacts DEF CmdShaped, Idle
  <2>3. QED
    BY <2>1, <2>2 DEF fileVars, Shaped, Working
<1>2. CASE StopService \/ Validate \/ UninstallUndone \/ FinishFails \/ RemovePickerFails
  <2>1. UNCHANGED <<disk, backups, root, mine>>
    BY <1>2 DEF StopService, Validate, UninstallUndone, FinishFails, RemovePickerFails, fileVars
  <2>2. PICK pc \in {"validate", "picker", "restart"} : cmd' = [cmd EXCEPT !.pc = pc]
    BY <1>2 DEF StopService, Validate, UninstallUndone, FinishFails, RemovePickerFails, Goto
  <2>3. CmdShaped(cmd') /\ cmd'.pc = pc
    BY <2>2, CmdFields DEF Shaped
  <2>4. QED
    BY <2>1, <2>3 DEF Shaped, Working
<1>3. CASE StopFails \/ Restart
  BY <1>3, IdleShaped, FaultFacts DEF StopFails, Restart, StartRefused, End, Shaped, Working
<1>4. CASE RemovePicker
  <2>1. /\ root # Absent /\ root' = [root EXCEPT !.picker = FALSE]
        /\ UNCHANGED <<disk, backups, mine>>
        /\ cmd' = [cmd EXCEPT !.pc = "restore", !.todo = <<"profile", "agent">>]
    BY <1>4 DEF RemovePicker, At, Recoverable
  <2>2. CmdShaped(cmd') /\ cmd'.todo # <<>>
    BY <2>1 DEF Shaped, CmdShaped, Idle, Todos
  <2>3. root' \in Roots
    BY <2>1, RootFacts
  <2>4. QED
    BY <2>1, <2>2, <2>3 DEF Shaped, Working
<1>5. CASE Restore
  <2> DEFINE f == Head(cmd.todo)
             written == [cmd EXCEPT !.changed = @ \cup {f}]
  <2>1. /\ cmd.pc = "restore" /\ cmd.todo # <<>> /\ BackupsThere(cmd.receipts)
        /\ disk' = [disk EXCEPT ![f] = Previous(f)]
        /\ cmd' = Advance(written, "tree")
        /\ UNCHANGED <<backups, root, outcome, mine, count>>
    BY <1>5 DEF Restore, At, Working, Recoverable
  <2>2. f \in Targets
    BY <2>1, HeadTarget
  <2>3. CmdShaped(written) /\ written.todo = cmd.todo
    BY <2>2, CmdFields DEF Shaped, Idle
  <2>4. CmdShaped(cmd') /\ Working'
    BY <2>1, <2>3, AdvanceKeepsShape
  <2>5. Previous(f) \in Files \cup {Absent}
    BY <2>1, <2>2, PreviousFile
  <2>6. QED
    BY <2>1, <2>4, <2>5 DEF Shaped
<1>6. CASE RestoreFails \/ RemoveTreeFails
  <2>1. cmd' = Undoing(cmd) /\ UNCHANGED <<backups, mine>>
    BY <1>6 DEF RestoreFails, RemoveTreeFails
  <2>2. CmdShaped(cmd') /\ Working'
    BY <2>1, UndoingKeepsShape
  <2>3. disk' \in [Targets -> Files \cup {Absent}]
    <3>1. CASE UNCHANGED disk
      BY <3>1 DEF Shaped
    <3>2. CASE RestoreFails /\ disk' = [disk EXCEPT ![Head(cmd.todo)] = Previous(Head(cmd.todo))]
      <4>1. cmd.todo # <<>> /\ BackupsThere(cmd.receipts)
        BY <3>2 DEF RestoreFails, At, Working, Recoverable
      <4>2. Head(cmd.todo) \in Targets
        BY <4>1, HeadTarget
      <4>3. Previous(Head(cmd.todo)) \in Files \cup {Absent}
        BY <4>1, <4>2, PreviousFile
      <4>4. QED
        BY <3>2, <4>3 DEF Shaped
    <3>3. QED
      BY <1>6, <3>1, <3>2 DEF RestoreFails, RemoveTreeFails
  <2>4. root' # Absent => root' \in Roots
    <3>1. root' = root \/ root' = Absent \/ (root' = [root EXCEPT !.whole = FALSE] /\ root # Absent)
      BY <1>6 DEF RestoreFails, RemoveTreeFails, At, Recoverable
    <3>2. QED
      BY <3>1, RootFacts DEF Shaped
  <2>5. QED
    BY <2>1, <2>2, <2>3, <2>4 DEF Shaped
<1>7. CASE RemoveTree
  BY <1>7 DEF RemoveTree, CmdShaped, Idle, Todos, Shaped, Working, At
<1>8. CASE UndoRestore
  <2>1. /\ cmd.pc = "undo" /\ cmd.todo # <<>>
        /\ disk' = [disk EXCEPT ![Head(cmd.todo)] = Installed(Head(cmd.todo), cmd.id)]
        /\ cmd' = Advance(cmd, "undone")
        /\ UNCHANGED <<backups, root, outcome, mine, count>>
    BY <1>8 DEF UndoRestore, At, Working
  <2>2. Head(cmd.todo) \in Targets
    BY <2>1, HeadTarget
  <2>3. CmdShaped(cmd') /\ Working'
    BY <2>1, AdvanceKeepsShape DEF Shaped
  <2>4. disk' \in [Targets -> Files \cup {Absent}]
    BY <2>1, <2>2, InstalledFile DEF Shaped, CmdShaped
  <2>5. QED
    BY <2>1, <2>3, <2>4 DEF Shaped
<1>9. CASE Finish
  <2>1. /\ cmd.pc = "finish" /\ cmd.todo # <<>>
        /\ UNCHANGED <<disk, root, mine, count>>
        /\ \/ cmd' = Idle
           \/ cmd' = Advance(cmd, "finish") /\ Len(cmd.todo) # 1
    BY <1>9 DEF Finish, At, Working, End
  <2>2. backups' \in [BackupIds -> Texts \cup {Absent}]
    BY <1>9 DEF Finish, Shaped
  <2>3. CASE cmd' = Idle
    BY <2>1, <2>2, <2>3, IdleShaped DEF Shaped, Working
  <2>4. CASE cmd' = Advance(cmd, "finish") /\ Len(cmd.todo) # 1
    <3>1. Tail(cmd.todo) # <<>>
      BY <2>1, <2>4, TodoFacts DEF Shaped, CmdShaped
    <3>2. CmdShaped(cmd') /\ cmd'.todo # <<>>
      BY <2>1, <2>4, <3>1, Advanced DEF Shaped
    <3>3. QED
      BY <2>1, <2>2, <3>2 DEF Shaped, Working
  <2>5. QED
    BY <2>1, <2>3, <2>4
<1>10. QED
  BY <1>1, <1>2, <1>3, <1>4, <1>5, <1>6, <1>7, <1>8, <1>9 DEF Uninstall

\* A replacement changes neither the files outside of the root nor their backups.
LEMMA ReplaceFacts ==
  ASSUME CmdShaped(cmd), Replace
  PROVE  /\ UNCHANGED <<disk, backups, root, mine>>
         /\ CmdShaped(cmd') /\ cmd'.kind \in {"none", "replace"}
         /\ cmd'.receipts \in {cmd.receipts, NoReceipts}
         /\ cmd'.pc \notin {"prepare", "write", "undo", "restore", "finish"}
<1> DEFINE Goal == /\ CmdShaped(cmd') /\ cmd'.kind \in {"none", "replace"}
                   /\ cmd'.receipts \in {cmd.receipts, NoReceipts}
                   /\ cmd'.pc \notin {"prepare", "write", "undo", "restore", "finish"}
<1>1. UNCHANGED <<disk, backups, root, mine>>
  BY DEF Replace, BeginReplace, Stage, StageFails, Shutdown, ShutdownFails, SwapBinary,
         SetLauncherAside, SwapLauncher, SwapFails, VerifyPair, VerifyFails, Start, StartFails,
         Doctor, CleanUp, RollbackStop, RollbackStopFails, RollbackPair, RollbackPairFails,
         RollbackStart, rest, fileVars
<1>2. ASSUME cmd' = Idle PROVE Goal
  BY <1>2, IdleShaped
<1>3. ASSUME BeginReplace PROVE Goal
  <2>1. PICK v : cmd' = [Idle EXCEPT !.kind = "replace", !.pc = "stage", !.version = v]
    BY <1>3 DEF BeginReplace
  <2>2. DOMAIN cmd' = DOMAIN Idle /\ cmd'.kind = "replace" /\ cmd'.pc = "stage"
    BY <2>1 DEF Idle
  <2>3. \A k \in DOMAIN Idle \ {"kind", "pc", "version"} : cmd'[k] = Idle[k]
    BY <2>1
  <2>4. QED
    BY <2>2, <2>3, IdleShaped DEF CmdShaped, Idle
<1>4. ASSUME cmd.kind = "replace", DOMAIN cmd' = DOMAIN Idle,
             cmd'.pc \in {"shutdown", "binary", "setaside", "launcher", "verify", "start",
                          "doctor", "cleanup", "rollback", "restart"},
             \A k \in DOMAIN Idle \ {"pc", "stopped", "replaced"} : cmd'[k] = cmd[k]
      PROVE  Goal
  BY <1>4 DEF CmdShaped, Idle
<1>5. ASSUME Stage \/ StageFails \/ Shutdown \/ ShutdownFails \/ SwapBinary \/ SetLauncherAside
             \/ SwapLauncher \/ SwapFails \/ VerifyPair \/ VerifyFails \/ Start \/ StartFails
             \/ RollbackStop \/ RollbackPair
      PROVE  Goal
  <2>1. cmd.kind = "replace"
    BY <1>5 DEF Stage, StageFails, Shutdown, ShutdownFails, SwapBinary, SetLauncherAside,
            SwapLauncher, SwapFails, VerifyPair, VerifyFails, Start, StartFails, RollbackStop,
            RollbackPair, Replacing, At
  <2>2. /\ DOMAIN cmd' = DOMAIN Idle
        /\ cmd'.pc \in {"shutdown", "binary", "setaside", "launcher", "verify", "start",
                         "doctor", "cleanup", "rollback", "restart"}
        /\ \A k \in DOMAIN Idle \ {"pc", "stopped", "replaced"} : cmd'[k] = cmd[k]
    <3>1. DOMAIN cmd = DOMAIN Idle
      BY DEF CmdShaped
    <3>2. ASSUME NEW pc, cmd' = [cmd EXCEPT !.pc = pc]
          PROVE  /\ DOMAIN cmd' = DOMAIN Idle /\ cmd'.pc = pc
                 /\ \A k \in DOMAIN Idle \ {"pc", "stopped", "replaced"} : cmd'[k] = cmd[k]
      BY <3>1, <3>2 DEF Idle
    <3>3. CASE Stage \/ StageFails \/ SwapLauncher \/ SwapFails \/ VerifyPair \/ VerifyFails
               \/ Start \/ StartFails \/ RollbackStop \/ RollbackPair
      BY <3>2, <3>3 DEF Stage, StageFails, SwapLauncher, SwapFails, VerifyPair, VerifyFails, Start,
                        StartFails, RollbackStop, RollbackPair, Goto, Fails
    <3>4. CASE Shutdown \/ ShutdownFails
      BY <3>1, <3>4 DEF Shutdown, ShutdownFails, Idle
    <3>5. CASE SwapBinary \/ SetLauncherAside
      BY <3>1, <3>5 DEF SwapBinary, SetLauncherAside, Idle
    <3>6. QED
      BY <1>5, <3>3, <3>4, <3>5
  <2>3. QED
    BY <1>4, <2>1, <2>2
<1>6. ASSUME Doctor PROVE Goal
  <2>1. cmd' = Idle \/ Fails
    BY <1>6 DEF Doctor, End
  <2>2. CASE Fails
    <3>1. cmd.kind = "replace" /\ cmd' = [cmd EXCEPT !.pc = "cleanup"]
      BY <1>6, <2>2 DEF Doctor, Replacing, At, Fails
    <3>2. DOMAIN cmd = DOMAIN Idle
      BY DEF CmdShaped
    <3>3. /\ DOMAIN cmd' = DOMAIN Idle /\ cmd'.pc = "cleanup"
          /\ \A k \in DOMAIN Idle \ {"pc", "stopped", "replaced"} : cmd'[k] = cmd[k]
      BY <3>1, <3>2 DEF Idle
    <3>4. QED
      BY <1>4, <3>1, <3>3
  <2>3. QED
    BY <1>2, <2>1, <2>2
<1>7. ASSUME CleanUp \/ RollbackStopFails \/ RollbackPairFails \/ RollbackStart PROVE Goal
  BY <1>2, <1>7 DEF CleanUp, RollbackStopFails, RollbackPairFails, RollbackStart, End
<1>8. QED
  BY <1>1, <1>3, <1>5, <1>6, <1>7 DEF Replace

\* So do all others.
LEMMA OtherShaped ==
  ASSUME Counted, Shaped, Working, UndoFails \/ Environment \/ Replace
  PROVE  Shaped' /\ Working'
<1>1. CASE UndoFails
  <2> DEFINE marked == [cmd EXCEPT !.failed = TRUE]
  <2>1. /\ cmd.todo # <<>> /\ cmd' = Advance(marked, "undone")
        /\ UNCHANGED <<disk, backups, root, mine>>
    BY <1>1 DEF UndoFails, Working, fileVars
  <2>2. CmdShaped(marked) /\ marked.todo = cmd.todo
    BY DEF Shaped, CmdShaped, Idle
  <2>3. CmdShaped(cmd') /\ Working'
    BY <2>1, <2>2, AdvanceKeepsShape
  <2>4. QED
    BY <2>1, <2>3 DEF Shaped
<1>2. CASE Crash
  BY <1>2, IdleShaped DEF Crash, End, Shaped, Working, fileVars
<1>3. CASE ServiceCommand
  BY <1>3 DEF ServiceCommand, Shaped, Working
<1>4. CASE PickerInstall
  <2>1. /\ root # Absent /\ root' = [root EXCEPT !.picker = TRUE]
        /\ UNCHANGED <<disk, backups, mine, cmd>>
    BY <1>4 DEF PickerInstall
  <2>2. root' \in Roots
    BY <2>1, RootFacts
  <2>3. QED
    BY <2>1, <2>2 DEF Shaped, Working
<1>5. CASE UserWrites
  <2>1. PICK f \in Targets, mode \in {"private", "public"} :
          /\ disk' = [disk EXCEPT ![f] = [text |-> [by |-> "user", n |-> count.edits], mode |-> mode]]
          /\ mine' = (mine \ Held(f))
                       \cup {[target |-> f, text |-> [by |-> "user", n |-> count.edits]]}
    BY <1>5 DEF UserWrites
  <2>2. [by |-> "user", n |-> count.edits] \in Texts
    BY DEF Counted, Texts
  <2>3. /\ disk' \in [Targets -> Files \cup {Absent}]
        /\ mine' \subseteq [target : Targets, text : Texts]
    BY <2>1, <2>2 DEF Shaped, Files
  <2>4. UNCHANGED <<backups, root, cmd>>
    BY <1>5 DEF UserWrites
  <2>5. QED
    BY <2>3, <2>4 DEF Shaped, Working
<1>6. CASE UserDeletes
  BY <1>6 DEF UserDeletes, Shaped, Working
<1>7. CASE UserRepairs
  <2>1. PICK f \in Targets : /\ disk' = [disk EXCEPT ![f] = Installed(f, root.install)]
                            /\ mine' = mine \ Held(f)
    BY <1>7 DEF UserRepairs
  <2>2. root # Absent /\ UNCHANGED <<backups, root, cmd>>
    BY <1>7 DEF UserRepairs
  <2>3. Installed(f, root.install) \in Files
    BY <2>2, InstalledFile, RootFacts
  <2>4. QED
    BY <2>1, <2>2, <2>3 DEF Shaped, Working
<1>8. CASE Replace
  BY <1>8, ReplaceFacts DEF Shaped, Working
<1>9. QED
  BY <1>1, <1>2, <1>3, <1>4, <1>5, <1>6, <1>7, <1>8 DEF Environment

-----------------------------------------------------------------------------
(* The texts of the user.                                                   *)

\* The receipts of the next root and of the next command are known ones.
Receipted ==
  /\ \/ root' = Absent
     \/ root'.receipts = cmd.receipts
     \/ root # Absent /\ root'.receipts = root.receipts
  /\ \/ cmd'.receipts = NoReceipts
     \/ cmd'.receipts = cmd.receipts
     \/ root # Absent /\ cmd'.receipts = root.receipts

\* What a receipt names belongs to its file, also when backups go.
LEMMA ReceiptsBelong ==
  ASSUME Shaped, Numbered, Receipted, mine' = mine,
         \A b \in BackupIds : backups'[b] \in {backups[b], Absent}
  PROVE  \A f \in Targets : /\ root' # Absent => Belongs(f, BackedUp(root.receipts, f))'
                           /\ Belongs(f, BackedUp(cmd.receipts, f))'
<1> DEFINE Known(r) == \A f \in Targets : Belongs(f, BackedUp(r, f))
<1>1. \A f \in Targets : Belongs(f, Absent)
  BY TextsAbsent DEF Belongs, Shaped
<1>2. Known(NoReceipts) /\ Known(cmd.receipts) /\ (root # Absent => Known(root.receipts))
  BY <1>1 DEF Numbered, BackedUp, NoReceipts
<1>3. /\ Recorded(NoReceipts) /\ Recorded(cmd.receipts)
      /\ root # Absent => Recorded(root.receipts)
  BY RootFacts DEF Shaped, CmdShaped, Recorded, NoReceipts
<1>4. ASSUME NEW r, Recorded(r), Known(r), NEW f \in Targets
      PROVE  \A m \in mine : m.text = (IF r[f] = Absent THEN Absent ELSE backups'[r[f].backup])
                              => m.target = f
  <2>1. r[f] # Absent => r[f].backup \in BackupIds
    BY <1>4 DEF Recorded, Records
  <2>2. QED
    BY <1>1, <1>4, <2>1 DEF Belongs, BackedUp
<1>5. QED
  BY <1>2, <1>3, <1>4 DEF Receipted, Belongs, BackedUp

\* One file is written: its text has an owner, and what it overwrites is there
\* or in a backup.
LEMMA WriteKeeps ==
  ASSUME Shaped, Numbered, Somewhere, Receipted,
         NEW f \in Targets, \A g \in Targets \ {f} : disk'[g] = disk[g],
         backups' = backups, mine' = mine, count'.edits = count.edits,
         disk'[f] # Absent => Aged(disk'[f].text) /\ Belongs(f, disk'[f].text),
         \A m \in mine : m.target = f /\ disk[f] # Absent /\ disk[f].text = m.text =>
           \/ disk'[f] # Absent /\ disk'[f].text = m.text
           \/ \E b \in BackupIds : backups[b] = m.text
  PROVE  Numbered' /\ Somewhere'
<1>1. Somewhere'
  BY DEF Somewhere, Shaped
<1>2. \A g \in Targets : disk'[g] # Absent => Aged(disk'[g].text) /\ Belongs(g, disk'[g].text)
  BY DEF Numbered
<1>3. Numbered'
  BY <1>2, ReceiptsBelong DEF Numbered, Aged, Belongs
<1>4. QED
  BY <1>1, <1>3

\* Backups go whose texts are in their files.
LEMMA DropKeeps ==
  ASSUME Shaped, Numbered, Somewhere, Receipted,
         UNCHANGED <<disk, mine>>, count'.edits = count.edits,
         \A b \in BackupIds : backups'[b] \in {backups[b], Absent},
         \A m \in mine, b \in BackupIds : backups'[b] # backups[b] /\ backups[b] = m.text =>
           disk[m.target] # Absent /\ disk[m.target].text = m.text
  PROVE  Numbered' /\ Somewhere'
<1>1. Somewhere'
  BY DEF Somewhere
<1>2. Numbered'
  BY ReceiptsBelong DEF Numbered, Aged, Belongs
<1>3. QED
  BY <1>1, <1>2

\* Steps that change neither a file nor a backup.
LEMMA QuietKeeps ==
  ASSUME Shaped, Numbered, Somewhere, Receipted,
         UNCHANGED <<disk, backups, mine>>, count'.edits = count.edits
  PROVE  Numbered' /\ Somewhere'
BY DropKeeps

-----------------------------------------------------------------------------
(* install.                                                                 *)

\* The backups that go are those of the receipts, and each was of a file that
\* is as install found it.
LEMMA BackupsGo ==
  ASSUME Shaped, Numbered, SomeGone,
         \A f \in Targets : cmd.receipts[f] # Absent => Saved(f) /\ Found(f)
  PROVE  /\ \A b \in BackupIds : backups'[b] \in {backups[b], Absent}
         /\ \A m \in mine, b \in BackupIds : backups'[b] # backups[b] /\ backups[b] = m.text =>
              disk[m.target] # Absent /\ disk[m.target].text = m.text
<1>1. \A b \in BackupIds :
        \/ backups'[b] = backups[b]
        \/ /\ backups'[b] = Absent
           /\ \E f \in Targets : cmd.receipts[f] # Absent /\ cmd.receipts[f].backup = b
  BY DEF SomeGone
<1>2. ASSUME NEW m \in mine, NEW b \in BackupIds, backups'[b] # backups[b], backups[b] = m.text
      PROVE  disk[m.target] # Absent /\ disk[m.target].text = m.text
  <2>1. PICK f \in Targets : cmd.receipts[f] # Absent /\ cmd.receipts[f].backup = b
    BY <1>1, <1>2
  <2>2. BackedUp(cmd.receipts, f) = m.text
    BY <1>2, <2>1 DEF BackedUp
  <2>3. m.target = f
    BY <2>2 DEF Numbered, Belongs
  <2>4. m.text # Absent
    BY TextsAbsent DEF Shaped
  <2>5. QED
    BY <2>1, <2>2, <2>3, <2>4 DEF Saved, Found
<1>3. QED
  BY <1>1, <1>2

\* A command that ends has nothing more to keep.
LEMMA IdleKeeps ==
  cmd' = Idle => Installing' /\ Uninstalling'
BY IdleShaped DEF Installing, Uninstalling

\* What is found is backed up under a name that neither the root nor the command
\* uses.
LEMMA PrepareKeeps ==
  ASSUME Counted, Shaped, Working, Numbered, Somewhere, Installing, Prepare
  PROVE  Numbered' /\ Somewhere' /\ Installing'
<1>0. PICK f : f = Head(cmd.todo)
  OBVIOUS
<1> DEFINE kept == [cmd EXCEPT !.original[f] = disk[f]]
           advanced == Advance(kept, "manifest")
<1>1. /\ cmd.kind = "install" /\ cmd.pc = "prepare" /\ cmd.todo # <<>>
      /\ UNCHANGED <<disk, root, mine, count>> /\ root = Absent
  BY DEF Prepare, At, Working, Installing
<1>2. f \in Targets
  BY <1>0, <1>1, HeadTarget
<1>3. \A g \in Targets : IF Prepared(g) THEN Saved(g) /\ Found(g) ELSE cmd.receipts[g] = Absent
  BY <1>1 DEF Installing, Prepared
<1>4. ~Prepared(f) /\ cmd.receipts[f] = Absent
  <2>1. f \in Left(cmd.todo)
    BY <1>0, <1>1, TodoFacts DEF Shaped, CmdShaped
  <2>2. QED
    BY <1>1, <1>2, <1>3, <2>1 DEF Prepared
<1>5. /\ CmdShaped(kept) /\ kept.todo = cmd.todo /\ kept.kind = "install" /\ kept.pc = "prepare"
      /\ kept.receipts = cmd.receipts /\ kept.changed = {} /\ ~kept.failed
      /\ kept.original = [cmd.original EXCEPT ![f] = disk[f]]
  BY <1>1, <1>2 DEF Shaped, CmdShaped, Idle, Installing
<1>6. /\ CmdShaped(advanced) /\ advanced.todo = Tail(cmd.todo)
      /\ \/ advanced.pc = "prepare"
         \/ advanced.pc = "manifest" /\ advanced.todo = <<>>
      /\ advanced.kind = "install" /\ advanced.receipts = cmd.receipts /\ advanced.changed = {}
      /\ ~advanced.failed /\ advanced.original = [cmd.original EXCEPT ![f] = disk[f]]
  <2>1. /\ CmdShaped(advanced) /\ advanced.todo = Tail(kept.todo)
        /\ advanced.pc = IF Tail(kept.todo) = <<>> THEN "manifest" ELSE kept.pc
        /\ \A k \in DOMAIN Idle \ {"pc", "todo"} : advanced[k] = kept[k]
    BY <1>1, <1>5, AdvanceShaped
  <2> HIDE DEF kept, advanced
  <2>2. /\ advanced.kind = kept.kind /\ advanced.receipts = kept.receipts
        /\ advanced.changed = kept.changed /\ advanced.failed = kept.failed
        /\ advanced.original = kept.original
    BY <2>1 DEF Idle
  <2>3. QED
    BY <1>5, <2>1, <2>2
<1>7. /\ Left(advanced.todo) = Left(cmd.todo) \ {f}
      /\ advanced.pc = "manifest" => Left(advanced.todo) = {}
  <2> HIDE DEF kept, advanced
  <2>1. cmd.todo \in Todos
    BY DEF Shaped, CmdShaped
  <2>2. Left(cmd.todo) = Left(Tail(cmd.todo)) \cup {f} /\ f \notin Left(Tail(cmd.todo))
    BY <1>0, <1>1, <2>1, TodoFacts
  <2>3. Left(<<>>) = {}
    BY DEF Left
  <2>4. QED
    BY <1>6, <2>2, <2>3
<1>8. ASSUME cmd'.kind = "install", cmd'.pc = advanced.pc, cmd'.todo = advanced.todo,
             cmd'.changed = {}, ~cmd'.failed,
             cmd'.original = [cmd.original EXCEPT ![f] = disk[f]],
             \A g \in Targets \ {f} : /\ cmd'.receipts[g] = cmd.receipts[g]
                                    /\ BackedUp(cmd.receipts, g)' = BackedUp(cmd.receipts, g),
             BackedUp(cmd.receipts, f)' = IF disk[f] = Absent THEN Absent ELSE disk[f].text
      PROVE  Installing'
  <2> HIDE DEF kept, advanced
  <2>1. \A g \in Targets : /\ Prepared(g)' <=> (Prepared(g) \/ g = f)
                           /\ cmd'.original[g] = IF g = f THEN disk[f] ELSE cmd.original[g]
    BY <1>1, <1>2, <1>6, <1>7, <1>8 DEF Prepared, Shaped, CmdShaped
  <2>2. \A g \in Targets : IF Prepared(g)' THEN Saved(g)' /\ Found(g)' ELSE cmd'.receipts[g] = Absent
    BY <1>1, <1>3, <1>8, <2>1 DEF Saved, Found, BackedUp
  <2>3. QED
    BY <1>1, <1>6, <1>8, <2>2 DEF Installing
<1>9. CASE disk[f] = Absent
  <2>1. cmd' = advanced /\ backups' = backups
    BY <1>0, <1>9 DEF Prepare
  <2> HIDE DEF kept, advanced
  <2>2. BackedUp(cmd.receipts, f)' = Absent
    BY <1>4, <1>6, <2>1 DEF BackedUp
  <2>3. \A g \in Targets : BackedUp(cmd.receipts, g)' = BackedUp(cmd.receipts, g)
    BY <1>6, <2>1 DEF BackedUp
  <2>4. Installing'
    BY <1>6, <1>8, <1>9, <2>1, <2>2, <2>3
  <2>5. Numbered' /\ Somewhere'
    BY <1>1, <1>6, <2>1, QuietKeeps DEF Receipted
  <2>6. QED
    BY <2>4, <2>5
<1>10. CASE disk[f] # Absent
  <2>1. PICK b \in FreshIds :
          /\ backups' = [backups EXCEPT ![b] = disk[f].text]
          /\ cmd' = [advanced EXCEPT !.receipts[f] = [backup |-> b, mode |-> disk[f].mode]]
    BY <1>0, <1>10 DEF Prepare
  <2> HIDE DEF kept, advanced
  <2>2. /\ cmd'.kind = "install" /\ cmd'.pc = advanced.pc /\ cmd'.todo = advanced.todo
        /\ cmd'.changed = {} /\ ~cmd'.failed
        /\ cmd'.original = [cmd.original EXCEPT ![f] = disk[f]]
        /\ cmd'.receipts = [cmd.receipts EXCEPT ![f] = [backup |-> b, mode |-> disk[f].mode]]
    BY <1>6, <2>1 DEF CmdShaped, Idle
  <2>3. /\ b \in BackupIds /\ backups[b] = Absent
        /\ \A g \in Targets : cmd.receipts[g] # Absent => cmd.receipts[g].backup # b
    BY <2>1 DEF FreshIds
  <2>4. /\ disk[f] \in Files /\ disk[f].text \in Texts
        /\ [backup |-> b, mode |-> disk[f].mode] \in Records
    BY <1>2, <1>10, <2>3 DEF Shaped, Files, Records
  <2>5. \A c \in BackupIds : backups'[c] = IF c = b THEN disk[f].text ELSE backups[c]
    BY <2>1 DEF Shaped
  <2>6. \A g \in Targets : cmd'.receipts[g] = IF g = f THEN [backup |-> b, mode |-> disk[f].mode]
                                              ELSE cmd.receipts[g]
    BY <2>2 DEF Shaped, CmdShaped, Recorded
  <2>7. BackedUp(cmd.receipts, f)' = disk[f].text
    BY <1>2, <2>3, <2>4, <2>5, <2>6, TextsAbsent DEF BackedUp
  <2>8. \A g \in Targets \ {f} : BackedUp(cmd.receipts, g)' = BackedUp(cmd.receipts, g)
    BY <2>3, <2>5, <2>6 DEF BackedUp, Shaped, CmdShaped, Recorded, Records
  <2>9. Installing'
    BY <1>8, <1>10, <2>2, <2>6, <2>7, <2>8
  <2>10. Somewhere'
    BY <1>1, <2>3, <2>5, TextsAbsent DEF Somewhere, Shaped
  <2>11. Numbered'
    <3>1. \A c \in BackupIds : backups'[c] # Absent => Aged(backups'[c])
      BY <1>2, <1>10, <2>5 DEF Numbered
    <3>2. \A g \in Targets : Belongs(g, BackedUp(cmd.receipts, g)')
      BY <1>2, <1>10, <2>7, <2>8 DEF Numbered, BackedUp
    <3>3. QED
      BY <1>1, <3>1, <3>2 DEF Numbered, Aged, Belongs
  <2>12. QED
    BY <2>9, <2>10, <2>11
<1>11. QED
  BY <1>9, <1>10

\* An installation that fails begins to undo what it has written.
LEMMA InstallUndoes ==
  ASSUME Counted, Shaped, Numbered, Somewhere, Installing,
         cmd.kind = "install", cmd.pc \in {"write", "rename", "sync"}, cmd' = Undoing(cmd),
         UNCHANGED <<disk, backups, root, mine>>, count'.edits = count.edits
  PROVE  Numbered' /\ Somewhere' /\ Installing'
<1>1. /\ Left(cmd'.todo) = IF "agent" \in cmd.changed THEN Targets ELSE cmd.changed
      /\ cmd'.pc \in {"undo", "undone"} /\ (cmd'.pc = "undone" <=> cmd'.todo = <<>>)
      /\ cmd'.kind = "install" /\ cmd'.id = cmd.id /\ cmd'.receipts = cmd.receipts
      /\ cmd'.original = cmd.original /\ cmd.changed \subseteq Targets
  BY Undone DEF Shaped, CmdShaped
<1>2. Numbered' /\ Somewhere'
  BY <1>1, QuietKeeps DEF Receipted
<1>3. \A f \in Targets : /\ Saved(f)' /\ (Found(f)' \/ disk'[f] = Installed(f, cmd'.id))
                         /\ f \notin cmd.changed => Found(f)'
  BY <1>1 DEF Installing, Prepared, Saved, Found, BackedUp
<1>4. \A f \in Targets : /\ cmd'.pc = "undo" /\ f \notin Left(cmd'.todo) => Found(f)'
                         /\ cmd'.pc = "undone" => Found(f)'
  <2>1. Left(<<>>) = {}
    BY DEF Left
  <2>2. \A f \in Targets : f \notin Left(cmd'.todo) => f \notin cmd.changed
    BY <1>1
  <2>3. QED
    BY <1>1, <1>3, <2>1, <2>2
<1>5. Installing'
  BY <1>1, <1>3, <1>4 DEF Installing, Prepared
<1>6. QED
  BY <1>2, <1>5

\* The steps of install lose no text.
LEMMA InstallKeeps ==
  ASSUME Counted, Shaped, Working, Numbered, Somewhere, Installing, Install, Trusted'
  PROVE  Numbered' /\ Somewhere' /\ Installing'
<1>1. CASE BeginInstall
  <2>1. /\ cmd.receipts = NoReceipts /\ UNCHANGED <<disk, backups, root, mine>>
        /\ root = Absent /\ count'.edits = count.edits
        /\ cmd' = [Idle EXCEPT !.kind = "install", !.pc = "prepare", !.id = count.installs + 1,
                               !.todo = <<"profile", "agent">>]
    BY <1>1, IdleShaped DEF BeginInstall, Ready, Installable, Counted
  <2>2. /\ cmd'.kind = "install" /\ cmd'.pc = "prepare" /\ cmd'.todo = <<"profile", "agent">>
        /\ cmd'.receipts = NoReceipts /\ cmd'.changed = {} /\ cmd'.failed = FALSE
    BY <2>1 DEF Idle
  <2>3. Left(cmd'.todo) = Targets
    BY <2>2 DEF Left, Targets
  <2>4. Numbered' /\ Somewhere'
    BY <2>1, <2>2, QuietKeeps DEF Receipted
  <2>5. Installing'
    BY <2>1, <2>2, <2>3 DEF Installing, Prepared, NoReceipts
  <2>6. QED
    BY <2>4, <2>5
<1>2. CASE Prepare
  BY <1>2, PrepareKeeps
<1>3. CASE PrepareRefused \/ PrepareFails
  <2>1. /\ cmd.kind = "install" /\ cmd.pc \in {"prepare", "manifest"}
        /\ count'.edits = count.edits
    BY <1>3, AbandonFacts, FaultFacts
  <2>2. root = Absent /\ UNCHANGED <<disk, root, mine>> /\ cmd' = Idle /\ SomeGone
    BY <1>3, <2>1, AbandonFacts DEF Installing
  <2>3. \A f \in Targets : cmd.receipts[f] # Absent => Saved(f) /\ Found(f)
    BY <2>1 DEF Installing
  <2>4. Numbered' /\ Somewhere'
    BY <2>1, <2>2, <2>3, BackupsGo, DropKeeps, IdleShaped DEF Receipted
  <2>5. QED
    BY <2>2, <2>4, IdleKeeps
<1>4. CASE WriteManifest
  <2>1. /\ cmd.kind = "install" /\ cmd.pc = "manifest"
        /\ UNCHANGED <<disk, backups, root, mine, count>>
        /\ cmd' = [cmd EXCEPT !.pc = "write", !.todo = <<"profile", "agent">>]
    BY <1>4 DEF WriteManifest, At, fileVars
  <2>2. /\ cmd'.kind = "install" /\ cmd'.pc = "write" /\ cmd'.receipts = cmd.receipts
        /\ cmd'.original = cmd.original /\ cmd'.id = cmd.id /\ cmd'.changed = cmd.changed
    BY <2>1 DEF Shaped, CmdShaped, Idle
  <2>3. Numbered' /\ Somewhere'
    BY <2>1, <2>2, QuietKeeps DEF Receipted
  <2>4. Installing'
    BY <2>1, <2>2 DEF Installing, Prepared, Saved, Found, BackedUp
  <2>5. QED
    BY <2>3, <2>4
<1>5. CASE WriteTarget
  <2> DEFINE f == Head(cmd.todo)
             written == [cmd EXCEPT !.changed = @ \cup {f}]
  <2>1. /\ cmd.kind = "install" /\ cmd.pc = "write" /\ cmd.todo # <<>>
        /\ disk' = [disk EXCEPT ![f] = Installed(f, cmd.id)]
        /\ cmd' = Advance(written, "rename")
        /\ UNCHANGED <<backups, root, mine, count>>
    BY <1>5 DEF WriteTarget, At, Working
  <2>2. f \in Targets
    BY <2>1, HeadTarget
  <2>3. /\ CmdShaped(written) /\ written.todo = cmd.todo /\ written.changed = cmd.changed \cup {f}
        /\ written.kind = "install" /\ written.pc = "write" /\ written.id = cmd.id
        /\ written.receipts = cmd.receipts /\ written.original = cmd.original
    BY <2>1, <2>2 DEF Shaped, CmdShaped, Idle
  <2>4. /\ cmd'.kind = "install" /\ cmd'.pc \in {"write", "rename"}
        /\ cmd'.receipts = cmd.receipts /\ cmd'.original = cmd.original /\ cmd'.id = cmd.id
        /\ cmd'.changed = cmd.changed \cup {f}
    BY <2>1, <2>3, Advanced
  <2>5. Found(f) \/ disk[f] = Installed(f, cmd.id)
    BY <2>1, <2>2 DEF Installing, Prepared
  <2>6. Saved(f)
    BY <2>1, <2>2 DEF Installing, Prepared
  <2>7. Numbered' /\ Somewhere'
    <3>1. Installed(f, cmd.id).text.by = "bridge" /\ Installed(f, cmd.id) \in Files
      BY InstalledFile DEF Shaped, CmdShaped
    <3>2. Aged(Installed(f, cmd.id).text) /\ Belongs(f, Installed(f, cmd.id).text)
      BY <3>1 DEF Aged, Belongs, Numbered
    <3>3. ASSUME NEW m \in mine, m.target = f, disk[f] # Absent, disk[f].text = m.text
          PROVE  \E b \in BackupIds : backups[b] = m.text
      <4>1. m.text.by = "user" /\ m.text # Absent
        BY TextsAbsent DEF Numbered, Shaped
      <4>2. Found(f)
        BY <2>5, <3>1, <3>3, <4>1
      <4>3. BackedUp(cmd.receipts, f) = m.text
        BY <2>6, <3>3, <4>2 DEF Saved, Found
      <4>4. cmd.receipts[f] \in Records /\ backups[cmd.receipts[f].backup] = m.text
        BY <2>2, <4>1, <4>3 DEF BackedUp, Shaped, CmdShaped, Recorded
      <4>5. QED
        BY <4>4 DEF Records
    <3>4. Receipted /\ count'.edits = count.edits
      BY <2>1, <2>4 DEF Receipted, Installing
    <3> HIDE DEF f, written
    <3>5. disk'[f] = Installed(f, cmd.id) /\ \A g \in Targets \ {f} : disk'[g] = disk[g]
      BY <2>1, <2>2 DEF Shaped
    <3>6. QED
      BY <2>1, <2>2, <3>2, <3>3, <3>4, <3>5, WriteKeeps
  <2>8. Installing'
    <3>1. \A g \in Targets : disk'[g] = IF g = f THEN Installed(f, cmd.id) ELSE disk[g]
      BY <2>1 DEF Shaped
    <3>2. \A g \in Targets : /\ Saved(g) /\ (Found(g) \/ disk[g] = Installed(g, cmd.id))
                             /\ g \notin cmd.changed => Found(g)
      BY <2>1 DEF Installing, Prepared
    <3> HIDE DEF f, written
    <3>3. \A g \in Targets : /\ Saved(g)' /\ (Found(g)' \/ disk'[g] = Installed(g, cmd'.id))
                             /\ g \notin cmd'.changed => Found(g)'
      BY <2>1, <2>4, <3>1, <3>2 DEF Saved, Found, BackedUp
    <3>4. QED
      BY <2>4, <3>3 DEF Installing, Prepared
  <2>9. QED
    BY <2>7, <2>8
<1>6. CASE WriteTargetFails \/ RenameFails
  <2>1. /\ cmd.kind = "install" /\ cmd.pc \in {"write", "rename", "sync"} /\ cmd' = Undoing(cmd)
        /\ UNCHANGED <<disk, backups, root, mine>> /\ count'.edits = count.edits
    BY <1>6, FaultFacts DEF WriteTargetFails, RenameFails, At, fileVars, Trusted
  <2>2. QED
    BY <2>1, InstallUndoes
<1>7. CASE RenameRoot
  <2>1. /\ cmd.kind = "install" /\ cmd.pc = "rename" /\ cmd' = [cmd EXCEPT !.pc = "sync"]
        /\ UNCHANGED <<disk, backups, mine, count>> /\ root'.receipts = cmd.receipts
    BY <1>7 DEF RenameRoot, At, Goto
  <2>2. /\ cmd'.kind = "install" /\ cmd'.pc = "sync" /\ cmd'.id = cmd.id
        /\ cmd'.receipts = cmd.receipts /\ cmd'.original = cmd.original /\ cmd'.changed = cmd.changed
    BY <2>1 DEF Shaped, CmdShaped, Idle
  <2>3. Numbered' /\ Somewhere'
    BY <2>1, <2>2, QuietKeeps DEF Receipted
  <2>4. Installing'
    BY <2>1, <2>2 DEF Installing, Prepared, Saved, Found, BackedUp
  <2>5. QED
    BY <2>3, <2>4
<1>8. CASE SyncRoot
  <2>1. cmd' = Idle /\ UNCHANGED <<disk, backups, root, mine, count>>
    BY <1>8 DEF SyncRoot, End, fileVars
  <2>2. Receipted
    BY <2>1, IdleShaped DEF Receipted
  <2>3. QED
    BY <2>1, <2>2, QuietKeeps, IdleKeeps
<1>9. CASE UndoTarget
  <2>0. PICK f : f = Head(cmd.todo)
    OBVIOUS
  <2>1. /\ cmd.kind = "install" /\ cmd.pc = "undo" /\ cmd.todo # <<>>
        /\ disk' = [disk EXCEPT ![f] = cmd.original[f]]
        /\ cmd' = Advance(cmd, "undone")
        /\ UNCHANGED <<backups, root, mine, count>>
    BY <1>9, <2>0 DEF UndoTarget, At, Working
  <2>2. f \in Targets /\ CmdShaped(cmd)
    BY <2>0, <2>1, HeadTarget DEF Shaped
  <2>3. /\ cmd'.todo = Tail(cmd.todo)
        /\ \/ cmd'.pc = "undo"
           \/ cmd'.pc = "undone" /\ cmd'.todo = <<>>
        /\ cmd'.kind = "install" /\ cmd'.id = cmd.id /\ cmd'.receipts = cmd.receipts
        /\ cmd'.original = cmd.original /\ cmd'.failed = cmd.failed
    BY <2>1, <2>2, Advanced
  <2>4. \A g \in Targets : disk'[g] = IF g = f THEN cmd.original[f] ELSE disk[g]
    BY <2>1 DEF Shaped
  <2>5. \A g \in Targets : /\ Saved(g) /\ (Found(g) \/ disk[g] = Installed(g, cmd.id))
                           /\ g \notin Left(cmd.todo) => cmd.failed \/ Found(g)
    BY <2>1 DEF Installing, Prepared
  <2>6. Numbered' /\ Somewhere'
    <3>1. disk'[f] # Absent => Aged(disk'[f].text) /\ Belongs(f, disk'[f].text)
      <4>1. cmd.original[f] # Absent => /\ cmd.original[f].text = BackedUp(cmd.receipts, f)
                                        /\ cmd.original[f].text \in Texts
        BY <2>2, <2>5 DEF Saved, CmdShaped, Files
      <4>2. BackedUp(cmd.receipts, f) # Absent => Aged(BackedUp(cmd.receipts, f))
        BY <2>2 DEF BackedUp, Numbered, CmdShaped, Recorded, Records
      <4>3. QED
        BY <2>2, <2>4, <4>1, <4>2, TextsAbsent DEF Numbered
    <3>2. ASSUME NEW m \in mine, m.target = f, disk[f] # Absent, disk[f].text = m.text
          PROVE  disk'[f] # Absent /\ disk'[f].text = m.text
      <4>1. Installed(f, cmd.id).text.by = "bridge" /\ m.text.by = "user"
        BY <2>2, InstalledFile DEF CmdShaped, Numbered
      <4>2. Found(f)
        BY <2>2, <2>5, <3>2, <4>1
      <4>3. QED
        BY <2>2, <2>4, <3>2, <4>2 DEF Found
    <3>3. Receipted
      BY <2>1, <2>3 DEF Receipted
    <3>4. QED
      BY <2>1, <2>2, <2>4, <3>1, <3>2, <3>3, WriteKeeps
  <2>7. \A g \in Targets : /\ Saved(g)' /\ (Found(g)' \/ disk'[g] = Installed(g, cmd'.id))
                           /\ g \notin Left(cmd'.todo) => cmd'.failed \/ Found(g)'
    <3>1. Left(cmd.todo) = Left(Tail(cmd.todo)) \cup {f}
      BY <2>0, <2>1, <2>2, TodoFacts DEF CmdShaped
    <3>2. QED
      BY <2>1, <2>3, <2>4, <2>5, <3>1 DEF Saved, Found, BackedUp
  <2>8. Left(<<>>) = {}
    BY DEF Left
  <2>9. Installing'
    BY <2>3, <2>7, <2>8 DEF Installing, Prepared
  <2>10. QED
    BY <2>6, <2>9
<1>10. CASE UndoRoot
  <2>1. /\ cmd.kind = "install" /\ cmd.pc = "undone" /\ ~cmd.failed
        /\ root' = Absent /\ cmd' = Idle /\ UNCHANGED <<disk, mine>>
        /\ SomeGone /\ count'.edits = count.edits
    BY <1>10, UndoRootFacts, FaultFacts DEF Report, Trusted
  <2>2. \A f \in Targets : Saved(f) /\ Found(f)
    BY <2>1 DEF Installing, Prepared
  <2>3. Receipted
    BY <2>1, IdleShaped DEF Receipted
  <2>4. Numbered' /\ Somewhere'
    BY <2>1, <2>2, <2>3, BackupsGo, DropKeeps
  <2>5. QED
    BY <2>1, <2>4, IdleKeeps
<1>11. ~UndoRootFails
  BY UndoRootFacts DEF Trusted
<1>12. QED
  BY <1>1, <1>2, <1>3, <1>4, <1>5, <1>6, <1>7, <1>8, <1>9, <1>10, <1>11 DEF Install

-----------------------------------------------------------------------------
(* uninstall.                                                               *)

\* An uninstall that fails begins to put the installed files back.
LEMMA UninstallUndoes ==
  ASSUME Counted, Shaped, Numbered, Somewhere, Uninstalling,
         cmd.kind = "uninstall", cmd.pc \in {"restore", "tree"}, cmd' = Undoing(cmd),
         UNCHANGED <<disk, backups, root, mine>>, count'.edits = count.edits
  PROVE  Numbered' /\ Somewhere' /\ Uninstalling'
<1>1. /\ cmd'.pc \in {"undo", "undone"} /\ cmd'.kind = "uninstall"
      /\ cmd'.receipts = cmd.receipts
  BY Undone DEF Shaped
<1>2. Numbered' /\ Somewhere'
  BY <1>1, QuietKeeps DEF Receipted
<1>3. Uninstalling'
  BY <1>1 DEF Uninstalling, Bridges, BackedUp
<1>4. QED
  BY <1>2, <1>3

\* The steps of uninstall lose no text.
LEMMA UninstallKeeps ==
  ASSUME Counted, Shaped, Working, Numbered, Somewhere, Uninstalling, Uninstall, Trusted'
  PROVE  Numbered' /\ Somewhere' /\ Uninstalling'
<1>1. CASE BeginUninstall
  <2>1. /\ root # Absent /\ UNCHANGED <<disk, backups, root, mine, count>>
        /\ cmd' = [Idle EXCEPT !.kind = "uninstall", !.pc = "stop", !.id = root.install,
                               !.receipts = root.receipts, !.original = root.original,
                               !.prior = service]
    BY <1>1 DEF BeginUninstall, Accepted, DoctorPasses, ManifestValid, fileVars
  <2>2. cmd'.kind = "uninstall" /\ cmd'.pc = "stop" /\ cmd'.receipts = root.receipts
    BY <2>1 DEF Idle
  <2>3. Numbered' /\ Somewhere'
    BY <2>1, <2>2, QuietKeeps DEF Receipted
  <2>4. QED
    BY <2>1, <2>2, <2>3 DEF Uninstalling
<1>2. CASE StopService \/ Validate \/ UninstallUndone \/ FinishFails \/ RemovePickerFails
  <2>1. /\ UNCHANGED <<disk, backups, root, mine>> /\ count'.edits = count.edits
        /\ cmd.kind = "uninstall"
    BY <1>2, FaultFacts DEF StopService, Validate, UninstallUndone, FinishFails, RemovePickerFails,
                            At, fileVars
  <2>2. \/ cmd' = [cmd EXCEPT !.pc = "validate"] /\ cmd.pc = "stop"
        \/ cmd' = [cmd EXCEPT !.pc = "picker"] /\ cmd.pc = "validate" /\ Accepted
        \/ cmd' = [cmd EXCEPT !.pc = "restart"]
    BY <1>2 DEF StopService, Validate, UninstallUndone, FinishFails, RemovePickerFails, Goto, At
  <2>3. /\ cmd'.kind = "uninstall" /\ cmd'.receipts = cmd.receipts
        /\ \/ cmd'.pc = "validate" /\ cmd.pc = "stop"
           \/ cmd'.pc = "picker" /\ cmd.pc = "validate" /\ Accepted
           \/ cmd'.pc = "restart"
    BY <2>1, <2>2 DEF Shaped, CmdShaped, Idle
  <2>4. Numbered' /\ Somewhere'
    BY <2>1, <2>3, QuietKeeps DEF Receipted
  <2>5. CASE cmd'.pc = "picker"
    <3>1. cmd.receipts = root.receipts /\ root # Absent
      BY <2>1, <2>3, <2>5 DEF Uninstalling
    <3>2. BackupsThere(cmd.receipts) /\ \A f \in Targets : Bridges(f)
      BY <2>3, <2>5, <3>1 DEF Accepted, DoctorPasses, ProfileExact, AgentExact, Bridges, Installed,
                              Targets
    <3>3. QED
      BY <2>1, <2>3, <2>4, <2>5, <3>1, <3>2 DEF Uninstalling, BackupsThere, Bridges
  <2>6. CASE cmd'.pc # "picker"
    BY <2>1, <2>3, <2>4, <2>6 DEF Uninstalling
  <2>7. QED
    BY <2>5, <2>6
<1>3. CASE StopFails \/ Restart
  <2>1. cmd' = Idle /\ UNCHANGED <<disk, backups, root, mine>> /\ count'.edits = count.edits
    BY <1>3, FaultFacts DEF StopFails, Restart, StartRefused, End
  <2>2. Receipted
    BY <2>1, IdleShaped DEF Receipted
  <2>3. QED
    BY <2>1, <2>2, QuietKeeps, IdleKeeps
<1>4. CASE RemovePicker
  <2>1. /\ cmd.kind = "uninstall" /\ cmd.pc = "picker" /\ root # Absent
        /\ root' = [root EXCEPT !.picker = FALSE] /\ UNCHANGED <<disk, backups, mine, count>>
        /\ cmd' = [cmd EXCEPT !.pc = "restore", !.todo = <<"profile", "agent">>]
    BY <1>4 DEF RemovePicker, At, Uninstalling
  <2>2. /\ cmd'.kind = "uninstall" /\ cmd'.pc = "restore" /\ cmd'.receipts = cmd.receipts
        /\ cmd'.todo = <<"profile", "agent">>
        /\ root' # Absent /\ root'.receipts = root.receipts
    BY <2>1, RootFacts DEF Shaped, CmdShaped, Idle
  <2>3. Left(cmd'.todo) = Targets
    BY <2>2 DEF Left, Targets
  <2>4. Numbered' /\ Somewhere'
    BY <2>1, <2>2, QuietKeeps DEF Receipted
  <2>5. Uninstalling'
    BY <2>1, <2>2, <2>3 DEF Uninstalling, Bridges, BackupsThere
  <2>6. QED
    BY <2>4, <2>5
<1>5. CASE Restore
  <2>0. PICK f : f = Head(cmd.todo)
    OBVIOUS
  <2> DEFINE written == [cmd EXCEPT !.changed = @ \cup {f}]
  <2>1. /\ cmd.kind = "uninstall" /\ cmd.pc = "restore" /\ cmd.todo # <<>>
        /\ BackupsThere(cmd.receipts)
        /\ disk' = [disk EXCEPT ![f] = Previous(f)]
        /\ cmd' = Advance(written, "tree")
        /\ UNCHANGED <<backups, root, mine, count>>
    BY <1>5, <2>0 DEF Restore, At, Working, Uninstalling
  <2>2. f \in Targets /\ CmdShaped(cmd)
    BY <2>0, <2>1, HeadTarget DEF Shaped
  <2>3. /\ CmdShaped(written) /\ written.todo = cmd.todo
        /\ written.kind = "uninstall" /\ written.pc = "restore" /\ written.receipts = cmd.receipts
    BY <2>1, <2>2 DEF CmdShaped, Idle
  <2>4. /\ cmd'.kind = "uninstall" /\ cmd'.receipts = cmd.receipts
        /\ cmd'.todo = Tail(cmd.todo)
        /\ \/ cmd'.pc = "restore"
           \/ cmd'.pc = "tree" /\ cmd'.todo = <<>>
    <3> HIDE DEF written
    <3>1. QED
      BY <2>1, <2>3, Advanced
  <2> HIDE DEF written
  <2>5. \A g \in Targets : disk'[g] = IF g = f THEN Previous(f) ELSE disk[g]
    BY <2>1 DEF Shaped
  <2>6. IF BackedUp(cmd.receipts, f) = Absent THEN Previous(f) = Absent
        ELSE /\ Previous(f) # Absent /\ Previous(f).text = BackedUp(cmd.receipts, f)
             /\ Aged(Previous(f).text) /\ Belongs(f, Previous(f).text)
    <3>1. CASE cmd.receipts[f] = Absent
      BY <3>1 DEF BackedUp, Previous
    <3>2. CASE cmd.receipts[f] # Absent
      <4>1. cmd.receipts[f].backup \in BackupIds /\ backups[cmd.receipts[f].backup] # Absent
        BY <2>1, <2>2, <3>2 DEF BackupsThere, CmdShaped, Recorded, Records
      <4>2. /\ Previous(f).text = backups[cmd.receipts[f].backup]
            /\ BackedUp(cmd.receipts, f) = backups[cmd.receipts[f].backup]
        BY <3>2 DEF Previous, BackedUp
      <4>3. Previous(f) # Absent
        BY <2>1, <2>2, <3>2, PreviousFile, TextsAbsent
      <4>4. QED
        BY <2>2, <4>1, <4>2, <4>3 DEF Numbered
    <3>3. QED
      BY <3>1, <3>2
  <2>7. \A g \in Targets : /\ \/ Bridges(g)
                              \/ disk[g] # Absent /\ disk[g].text = BackedUp(cmd.receipts, g)
                           /\ g \notin Left(cmd.todo) => Returned(g)
    BY <2>1 DEF Uninstalling
  <2>8. Numbered' /\ Somewhere'
    <3>1. disk'[f] # Absent => Aged(disk'[f].text) /\ Belongs(f, disk'[f].text)
      BY <2>2, <2>5, <2>6
    <3>2. ASSUME NEW m \in mine, m.target = f, disk[f] # Absent, disk[f].text = m.text
          PROVE  disk'[f] # Absent /\ disk'[f].text = m.text
      <4>1. m.text.by = "user" /\ m.text # Absent
        BY TextsAbsent DEF Numbered, Shaped
      <4>2. BackedUp(cmd.receipts, f) = m.text
        BY <2>2, <2>7, <3>2, <4>1 DEF Bridges
      <4>3. QED
        BY <2>2, <2>5, <2>6, <4>1, <4>2
    <3>3. Receipted
      BY <2>1, <2>4 DEF Receipted
    <3>4. QED
      BY <2>1, <2>2, <2>5, <3>1, <3>2, <3>3, WriteKeeps
  <2>9. \A g \in Targets : /\ \/ Bridges(g)'
                              \/ disk'[g] # Absent /\ disk'[g].text = BackedUp(cmd.receipts, g)'
                           /\ g \notin Left(cmd'.todo) => Returned(g)'
    <3>1. Left(cmd.todo) = Left(Tail(cmd.todo)) \cup {f}
      BY <2>0, <2>1, <2>2, TodoFacts DEF CmdShaped
    <3>2. QED
      BY <2>1, <2>4, <2>5, <2>6, <2>7, <3>1 DEF Bridges, Returned, BackedUp
  <2>10. Left(<<>>) = {}
    BY DEF Left
  <2>11. Uninstalling'
    BY <2>1, <2>4, <2>9, <2>10 DEF Uninstalling, BackupsThere
  <2>12. QED
    BY <2>8, <2>11
<1>6. CASE RestoreFails \/ RemoveTreeFails
  <2>1. /\ cmd.kind = "uninstall" /\ cmd.pc \in {"restore", "tree"}
        /\ cmd' = Undoing(cmd) /\ UNCHANGED <<disk, backups, root, mine>>
        /\ count'.edits = count.edits
    BY <1>6, FaultFacts DEF RestoreFails, RemoveTreeFails, At, Trusted
  <2>2. QED
    BY <2>1, UninstallUndoes
<1>7. CASE RemoveTree
  <2>1. /\ cmd.kind = "uninstall" /\ cmd.pc = "tree" /\ root' = Absent
        /\ UNCHANGED <<disk, backups, mine, count>>
        /\ cmd' = [cmd EXCEPT !.pc = "finish", !.todo = <<"profile", "agent">>]
    BY <1>7 DEF RemoveTree, At
  <2>2. cmd'.kind = "uninstall" /\ cmd'.pc = "finish" /\ cmd'.receipts = cmd.receipts
    BY <2>1 DEF Shaped, CmdShaped, Idle
  <2>3. Numbered' /\ Somewhere'
    BY <2>1, <2>2, QuietKeeps DEF Receipted
  <2>4. Uninstalling'
    BY <2>1, <2>2 DEF Uninstalling, Returned, BackedUp
  <2>5. QED
    BY <2>3, <2>4
<1>8. CASE UndoRestore
  <2>0. PICK f : f = Head(cmd.todo)
    OBVIOUS
  <2>1. /\ cmd.kind = "uninstall" /\ cmd.pc = "undo" /\ cmd.todo # <<>>
        /\ disk' = [disk EXCEPT ![f] = Installed(f, cmd.id)]
        /\ cmd' = Advance(cmd, "undone")
        /\ UNCHANGED <<backups, root, mine, count>>
    BY <1>8, <2>0 DEF UndoRestore, At, Working
  <2>2. f \in Targets /\ CmdShaped(cmd)
    BY <2>0, <2>1, HeadTarget DEF Shaped
  <2>3. cmd'.kind = "uninstall" /\ cmd'.receipts = cmd.receipts /\ cmd'.pc \in {"undo", "undone"}
    BY <2>1, <2>2, Advanced
  <2>4. \A g \in Targets : disk'[g] = IF g = f THEN Installed(f, cmd.id) ELSE disk[g]
    BY <2>1 DEF Shaped
  <2>5. Installed(f, cmd.id).text.by = "bridge"
    BY <2>2, InstalledFile DEF CmdShaped
  <2>6. \A g \in Targets : \/ Bridges(g)
                           \/ disk[g] # Absent /\ disk[g].text = BackedUp(cmd.receipts, g)
    BY <2>1 DEF Uninstalling
  <2>7. Numbered' /\ Somewhere'
    <3>1. disk'[f] # Absent => Aged(disk'[f].text) /\ Belongs(f, disk'[f].text)
      BY <2>2, <2>4, <2>5 DEF Aged, Belongs, Numbered
    <3>2. ASSUME NEW m \in mine, m.target = f, disk[f] # Absent, disk[f].text = m.text
          PROVE  \E b \in BackupIds : backups[b] = m.text
      <4>1. m.text.by = "user" /\ m.text # Absent
        BY TextsAbsent DEF Numbered, Shaped
      <4>2. BackedUp(cmd.receipts, f) = m.text
        BY <2>2, <2>6, <3>2, <4>1 DEF Bridges
      <4>3. QED
        BY <2>2, <4>1, <4>2 DEF BackedUp, CmdShaped, Recorded, Records
    <3>3. Receipted
      BY <2>1, <2>3 DEF Receipted
    <3>4. QED
      BY <2>1, <2>2, <2>4, <3>1, <3>2, <3>3, WriteKeeps
  <2>8. Uninstalling'
    BY <2>1, <2>3, <2>4, <2>5, <2>6 DEF Uninstalling, Bridges, BackedUp
  <2>9. QED
    BY <2>7, <2>8
<1>9. CASE Finish
  <2>0. PICK r : r = cmd.receipts[Head(cmd.todo)]
    OBVIOUS
  <2>1. /\ cmd.kind = "uninstall" /\ cmd.pc = "finish" /\ cmd.todo # <<>>
        /\ backups' = IF r = Absent THEN backups ELSE [backups EXCEPT ![r.backup] = Absent]
        /\ UNCHANGED <<disk, root, mine, count>>
        /\ cmd' = Idle \/ cmd' = Advance(cmd, "finish")
    BY <1>9, <2>0 DEF Finish, At, Working, End
  <2>2. PICK f \in Targets : r = cmd.receipts[f]
    BY <2>0, <2>1, HeadTarget
  <2>3. \A g \in Targets : Returned(g)
    BY <2>1 DEF Uninstalling
  <2>4. /\ \A b \in BackupIds : backups'[b] \in {backups[b], Absent}
        /\ \A b \in BackupIds : backups'[b] # backups[b] => r # Absent /\ r.backup = b
    BY <2>1 DEF Shaped
  <2>5. ASSUME NEW m \in mine, NEW b \in BackupIds, backups'[b] # backups[b], backups[b] = m.text
        PROVE  disk[m.target] # Absent /\ disk[m.target].text = m.text
    <3>1. BackedUp(cmd.receipts, f) = m.text /\ m.text # Absent
      BY <2>2, <2>4, <2>5, TextsAbsent DEF BackedUp, Shaped
    <3>2. m.target = f
      BY <3>1 DEF Numbered, Belongs
    <3>3. QED
      BY <2>3, <3>1, <3>2 DEF Returned
  <2>6. CASE cmd' = Idle
    <3>1. Receipted
      BY <2>1, <2>6, IdleShaped DEF Receipted
    <3>2. Numbered' /\ Somewhere'
      BY <2>1, <2>4, <2>5, <3>1, DropKeeps
    <3>3. QED
      BY <2>6, <3>2, IdleKeeps
  <2>7. CASE cmd' = Advance(cmd, "finish")
    <3>1. cmd'.kind = "uninstall" /\ cmd'.pc = "finish" /\ cmd'.receipts = cmd.receipts
      BY <2>1, <2>7, Advanced DEF Shaped
    <3>2. Receipted
      BY <2>1, <3>1 DEF Receipted
    <3>3. Numbered' /\ Somewhere'
      BY <2>1, <2>4, <2>5, <3>2, DropKeeps
    <3>4. \A g \in Targets : BackedUp(cmd.receipts, g)' \in {BackedUp(cmd.receipts, g), Absent}
      BY <2>4, <3>1 DEF BackedUp, Shaped, CmdShaped, Recorded, Records
    <3>5. Uninstalling'
      BY <2>1, <2>3, <3>1, <3>4 DEF Uninstalling, Returned, BackedUp
    <3>6. QED
      BY <3>3, <3>5
  <2>8. QED
    BY <2>1, <2>6, <2>7
<1>10. QED
  BY <1>1, <1>2, <1>3, <1>4, <1>5, <1>6, <1>7, <1>8, <1>9 DEF Uninstall

-----------------------------------------------------------------------------
(* Around the commands, and the replacement of the runtime.                 *)

\* A new text of the user is nobody else's, and what the user overwrites does not
\* count as lost.
LEMMA UserKeeps ==
  ASSUME Counted, Shaped, Numbered, Somewhere, Installing, Uninstalling,
         UserWrites \/ UserDeletes \/ UserRepairs
  PROVE  Numbered' /\ Somewhere' /\ Installing' /\ Uninstalling'
<1> DEFINE text == [by |-> "user", n |-> count.edits]
<1>1. UserMayEdit /\ backups' = backups /\ root' = root /\ cmd' = cmd
  BY IdleShaped DEF UserMayEdit, UserWrites, UserDeletes, UserRepairs
<1>2. PICK f \in Targets :
        /\ \A g \in Targets \ {f} : disk'[g] = disk[g]
        /\ \/ /\ UserWrites /\ mine' = (mine \ Held(f)) \cup {[target |-> f, text |-> text]}
              /\ disk'[f].text = text /\ disk'[f] # Absent /\ count'.edits = count.edits + 1
           \/ /\ mine' = mine \ Held(f) /\ count'.edits = count.edits
              /\ disk'[f] # Absent => disk'[f].text.by = "bridge"
  <2>1. CASE UserWrites
    <3>1. PICK f \in Targets, mode \in {"private", "public"} :
            /\ disk' = [disk EXCEPT ![f] = [text |-> text, mode |-> mode]]
            /\ mine' = (mine \ Held(f)) \cup {[target |-> f, text |-> text]}
      BY <2>1 DEF UserWrites
    <3>2. [text |-> text, mode |-> mode] # Absent
      BY TextsAbsent DEF Counted, Texts, Files
    <3>3. disk'[f] = [text |-> text, mode |-> mode] /\ \A g \in Targets \ {f} : disk'[g] = disk[g]
      BY <3>1 DEF Shaped
    <3>4. count'.edits = count.edits + 1
      BY <2>1 DEF UserWrites, Counted
    <3>5. QED
      BY <2>1, <3>1, <3>2, <3>3, <3>4
  <2>2. CASE UserDeletes
    <3>1. PICK f \in Targets : disk' = [disk EXCEPT ![f] = Absent] /\ mine' = mine \ Held(f)
      BY <2>2 DEF UserDeletes
    <3>2. count' = count
      BY <2>2 DEF UserDeletes
    <3>3. disk'[f] = Absent /\ \A g \in Targets \ {f} : disk'[g] = disk[g]
      BY <3>1 DEF Shaped
    <3>4. QED
      BY <3>1, <3>2, <3>3
  <2>3. CASE UserRepairs
    <3>1. PICK f \in Targets : /\ disk' = [disk EXCEPT ![f] = Installed(f, root.install)]
                              /\ mine' = mine \ Held(f)
      BY <2>3 DEF UserRepairs
    <3>2. root # Absent /\ count' = count
      BY <2>3 DEF UserRepairs
    <3>3. Installed(f, root.install).text.by = "bridge"
      BY <3>2, InstalledFile, RootFacts
    <3>4. disk'[f] = Installed(f, root.install) /\ \A g \in Targets \ {f} : disk'[g] = disk[g]
      BY <3>1 DEF Shaped
    <3>5. QED
      BY <3>1, <3>2, <3>3, <3>4
  <2>4. QED
    BY <2>1, <2>2, <2>3
<1>3. ASSUME NEW m \in mine, m \notin Held(f), m.target = f, disk[f] # Absent
      PROVE  disk[f].text # m.text
  <2>1. m = [target |-> m.target, text |-> m.text]
    BY DEF Shaped
  <2>2. QED
    BY <1>3, <2>1 DEF Held
<1>4. Somewhere'
  <2>1. ASSUME NEW m \in mine, m \notin Held(f)
        PROVE  \/ disk'[m.target] # Absent /\ disk'[m.target].text = m.text
               \/ \E b \in BackupIds : backups[b] = m.text
    BY <1>2, <1>3, <2>1 DEF Somewhere, Shaped
  <2>2. CASE mine' = mine \ Held(f)
    BY <1>1, <2>1, <2>2 DEF Somewhere
  <2>3. CASE /\ mine' = (mine \ Held(f)) \cup {[target |-> f, text |-> text]}
             /\ disk'[f].text = text /\ disk'[f] # Absent
    BY <1>1, <2>1, <2>3 DEF Somewhere
  <2>4. QED
    BY <1>2, <2>2, <2>3
<1>5. \A g \in Targets : Belongs(g, Absent)
  BY TextsAbsent DEF Belongs, Shaped
<1>6. ASSUME NEW r, Recorded(r), NEW g \in Targets
      PROVE  BackedUp(r, g) = Absent \/ Aged(BackedUp(r, g))
  BY <1>6 DEF BackedUp, Recorded, Records, Numbered
<1>7. text.by = "user" /\ text.n = count.edits /\ text # Absent /\ count.edits \in Nat
  BY TextsAbsent DEF Counted, Texts
<1> HIDE DEF text
<1>8. ASSUME NEW g \in Targets, NEW t, t = Absent \/ Aged(t), Belongs(g, t)
      PROVE  \A m \in mine' : m.text = t => m.target = g
  <2>1. t # text
    BY <1>7, <1>8 DEF Aged
  <2>2. QED
    BY <1>2, <1>8, <2>1 DEF Belongs
<1>9. ASSUME NEW t, Aged(t), t.by = "user" => t.n \in Nat
      PROVE  t.by = "user" => t.n < count'.edits
  BY <1>2, <1>7, <1>9 DEF Aged
<1>10. Numbered'
  <2>1. \A m \in mine' : m.text.by = "user" /\ m.text.n < count'.edits
    <3>1. \A m \in mine : m.text \in Texts /\ m.text.n \in Nat
      BY DEF Shaped, Texts
    <3>2. QED
      BY <1>2, <1>7, <3>1 DEF Numbered, Aged
  <2>2. \A b \in BackupIds : backups'[b] # Absent =>
          (backups'[b].by = "user" => backups'[b].n < count'.edits)
    BY <1>1, <1>9 DEF Numbered, Shaped, Texts
  <2>3. \A g \in Targets, m \in mine' :
          /\ root' # Absent /\ m.text = BackedUp(root.receipts, g) => m.target = g
          /\ m.text = BackedUp(cmd.receipts, g) => m.target = g
    BY <1>1, <1>6, <1>8, RootFacts DEF Numbered, Shaped, CmdShaped
  <2>4. \A g \in Targets \ {f} : disk'[g] # Absent =>
          /\ disk'[g].text.by = "user" => disk'[g].text.n < count'.edits
          /\ \A m \in mine' : m.text = disk'[g].text => m.target = g
    BY <1>2, <1>8, <1>9 DEF Numbered, Shaped, Files, Texts
  <2>5. disk'[f] # Absent =>
          /\ disk'[f].text.by = "user" => disk'[f].text.n < count'.edits
          /\ \A m \in mine' : m.text = disk'[f].text => m.target = f
    <3>1. CASE disk'[f].text = text /\ count'.edits = count.edits + 1
               /\ mine' = (mine \ Held(f)) \cup {[target |-> f, text |-> text]}
      <4>1. \A m \in mine : m.text # text
        BY <1>7 DEF Numbered, Aged
      <4>2. QED
        BY <1>7, <3>1, <4>1
    <3>2. CASE disk'[f] # Absent => disk'[f].text.by = "bridge"
      BY <2>1, <3>2
    <3>3. QED
      BY <1>2, <3>1, <3>2
  <2>6. QED
    BY <1>1, <2>1, <2>2, <2>3, <2>4, <2>5 DEF Numbered, Aged, Belongs, BackedUp
<1>11. Installing' /\ Uninstalling'
  BY <1>1 DEF UserMayEdit, Installing, Uninstalling
<1>12. QED
  BY <1>4, <1>10, <1>11

\* Nor do the steps of the environment and of the replacement.
LEMMA OtherKeeps ==
  ASSUME Counted, Shaped, Working, Numbered, Somewhere, Installing, Uninstalling,
         UndoFails \/ Environment \/ Replace, Trusted'
  PROVE  Numbered' /\ Somewhere' /\ Installing' /\ Uninstalling'
<1>1. CASE UndoFails
  <2> DEFINE marked == [cmd EXCEPT !.failed = TRUE]
  <2>1. /\ cmd.pc = "undo" /\ cmd.todo # <<>> /\ cmd' = Advance(marked, "undone")
        /\ UNCHANGED <<disk, backups, root, mine>> /\ count'.edits = count.edits
    BY <1>1, FaultFacts DEF UndoFails, Working, fileVars
  <2>2. /\ CmdShaped(marked) /\ marked.todo = cmd.todo /\ marked.failed = TRUE
        /\ marked.kind = cmd.kind /\ marked.receipts = cmd.receipts /\ marked.pc = "undo"
        /\ marked.original = cmd.original /\ marked.id = cmd.id
    BY <2>1 DEF Shaped, CmdShaped, Idle
  <2> HIDE DEF marked
  <2>3. /\ cmd'.kind = cmd.kind /\ cmd'.receipts = cmd.receipts /\ cmd'.pc \in {"undo", "undone"}
        /\ cmd'.original = cmd.original /\ cmd'.id = cmd.id /\ cmd'.failed = TRUE
    BY <2>1, <2>2, Advanced
  <2>4. Numbered' /\ Somewhere'
    BY <2>1, <2>3, QuietKeeps DEF Receipted
  <2>5. Installing'
    BY <2>1, <2>3 DEF Installing, Prepared, Saved, Found, BackedUp
  <2>6. Uninstalling'
    BY <2>1, <2>3 DEF Uninstalling, Bridges, BackedUp
  <2>7. QED
    BY <2>4, <2>5, <2>6
<1>2. CASE Crash
  <2>1. cmd' = Idle /\ UNCHANGED <<disk, backups, root, mine>> /\ count'.edits = count.edits
    BY <1>2, FaultFacts DEF Crash, End, fileVars
  <2>2. Receipted
    BY <2>1, IdleShaped DEF Receipted
  <2>3. QED
    BY <2>1, <2>2, QuietKeeps, IdleKeeps
<1>3. CASE ServiceCommand \/ PickerInstall
  <2>1. /\ cmd' = Idle /\ cmd = Idle /\ UNCHANGED <<disk, backups, mine, count>>
        /\ root # Absent /\ root'.receipts = root.receipts
    BY <1>3, RootFacts DEF ServiceCommand, PickerInstall
  <2>2. Receipted
    BY <2>1 DEF Receipted
  <2>3. QED
    BY <2>1, <2>2, QuietKeeps, IdleKeeps
<1>4. CASE UserWrites \/ UserDeletes \/ UserRepairs
  BY <1>4, UserKeeps
<1>5. CASE Replace
  <2>1. /\ UNCHANGED <<disk, backups, root, mine>> /\ cmd'.kind \in {"none", "replace"}
        /\ cmd'.receipts \in {cmd.receipts, NoReceipts}
    BY <1>5, ReplaceFacts DEF Shaped
  <2>2. count'.edits = count.edits
    BY <1>5, FaultFacts
       DEF Replace, BeginReplace, Stage, StageFails, Shutdown, ShutdownFails, SwapBinary,
           SetLauncherAside, SwapLauncher, SwapFails, VerifyPair, VerifyFails, Start, StartFails,
           StartRefused, Doctor, CleanUp, RollbackStop, RollbackStopFails, RollbackPair,
           RollbackPairFails, RollbackStart
  <2>3. Receipted
    BY <2>1 DEF Receipted
  <2>4. Installing' /\ Uninstalling'
    BY <2>1 DEF Installing, Uninstalling
  <2>5. QED
    BY <2>1, <2>2, <2>3, <2>4, QuietKeeps
<1>6. QED
  BY <1>1, <1>2, <1>3, <1>4, <1>5 DEF Environment

-----------------------------------------------------------------------------
(* The theorem.                                                             *)

\* What is counted and reported, for every step.
LEMMA Reports ==
  ASSUME Next
  PROVE  /\ BeginInstall \/ UserWrites \/ count' = count \/ (\E kind : Fault(kind))
         /\ cmd' = Idle \/ outcome' = outcome \/ outcome' = "none"
<1>1. CASE Install
  BY <1>1, AbandonFacts, UndoRootFacts
     DEF Install, BeginInstall, Prepare, WriteManifest, WriteTarget, WriteTargetFails,
         RenameRoot, SyncRoot, RenameFails, UndoTarget, End
<1>2. CASE Uninstall
  BY <1>2 DEF Uninstall, BeginUninstall, StopService, StopFails, Validate, RemovePicker,
              RemovePickerFails, Restore, RestoreFails, RemoveTree, RemoveTreeFails,
              UndoRestore, UninstallUndone, Finish, FinishFails, Restart, StartRefused, End
<1>3. CASE UndoFails \/ Environment
  BY <1>3 DEF UndoFails, Environment, Crash, ServiceCommand, PickerInstall, UserDeletes,
              UserRepairs, UserWrites, End
<1>4. CASE Replace
  BY <1>4 DEF Replace, BeginReplace, Stage, StageFails, Shutdown, ShutdownFails, SwapBinary,
              SetLauncherAside, SwapLauncher, SwapFails, VerifyPair, VerifyFails, Start,
              StartFails, Doctor, CleanUp, RollbackStop, RollbackStopFails, RollbackPair,
              RollbackPairFails, RollbackStart, StartRefused, Fails, End
<1>5. QED
  BY <1>1, <1>2, <1>3, <1>4 DEF Next, BridgeNext

\* After a rollback that failed only the user and the service go on.
LEMMA NoCommandAfter ==
  ASSUME Counted, Next, outcome = "rollback_failed"
  PROVE  cmd' = Idle /\ outcome' = outcome
<1>1. cmd = Idle
  BY DEF Counted
<1>2. ~Install /\ ~Uninstall /\ ~UndoFails
  BY <1>1, IdleShaped DEF Ready, At, Install, Uninstall, UndoFails, BeginInstall, Prepare,
                          PrepareRefused, PrepareFails, WriteManifest, WriteTarget,
                          WriteTargetFails, RenameRoot, SyncRoot, RenameFails, UndoTarget,
                          UndoRoot, UndoRootFails, BeginUninstall, StopService, StopFails,
                          Validate, RemovePicker, RemovePickerFails, Restore, RestoreFails,
                          RemoveTree, RemoveTreeFails, UndoRestore, UninstallUndone, Finish,
                          FinishFails, Restart
<1>3. ~Replace
  BY <1>1, IdleShaped DEF Ready, Replacing, At, Replace, BeginReplace, Stage, StageFails,
                          Shutdown, ShutdownFails, SwapBinary, SetLauncherAside,
                          SwapLauncher, SwapFails, VerifyPair, VerifyFails, Start,
                          StartFails, Doctor, CleanUp, RollbackStop, RollbackStopFails,
                          RollbackPair, RollbackPairFails, RollbackStart
<1>4. Environment
  BY <1>2, <1>3 DEF Next, BridgeNext
<1>5. QED
  BY <1>1, <1>4 DEF Environment, Crash, ServiceCommand, PickerInstall, UserWrites, UserDeletes,
                    UserRepairs

\* What cannot be undone, and a failed rollback, are not forgotten.
LEMMA CountedKeeps ==
  ASSUME Counted, Next
  PROVE  Counted' /\ (Trusted' => Trusted)
<1>1. /\ DOMAIN count' = DOMAIN count /\ count'.edits \in Nat /\ count'.installs \in Nat
      /\ Undoable' => Undoable
  <2>1. CASE BeginInstall \/ UserWrites
    BY <2>1 DEF BeginInstall, UserWrites, Counted, Undoable
  <2>2. CASE count' = count
    BY <2>2 DEF Counted, Undoable
  <2>3. CASE \E kind : Fault(kind)
    BY <2>3, FaultFacts DEF Counted
  <2>4. QED
    BY <2>1, <2>2, <2>3, Reports
<1>2. CASE outcome = "rollback_failed"
  BY <1>1, <1>2, NoCommandAfter DEF Counted, Trusted
<1>3. CASE outcome # "rollback_failed"
  BY <1>1, <1>3, Reports DEF Counted, Trusted
<1>4. QED
  BY <1>2, <1>3

\* A command is of one kind to its end.
LEMMA KindKept ==
  ASSUME DOMAIN cmd = DOMAIN Idle
  PROVE  /\ Install => cmd'.kind \in {"install", "none"}
         /\ Uninstall => cmd'.kind \in {"uninstall", "none"}
<1>1. ASSUME NEW c, DOMAIN c = DOMAIN Idle
      PROVE  /\ \A then : Advance(c, then).kind = c.kind
             /\ Undoing(c).kind = c.kind
  BY <1>1 DEF Advance, Undoing, Idle
<1>2. DOMAIN cmd = DOMAIN Idle
  OBVIOUS
<1>3. ASSUME Install PROVE cmd'.kind \in {"install", "none"}
  <2>1. CASE BeginInstall
    BY <2>1, IdleShaped DEF BeginInstall, Idle
  <2>2. CASE Prepare \/ WriteTarget \/ UndoTarget
    BY <1>2, <2>2 DEF Prepare, WriteTarget, UndoTarget, Advance, At, Idle
  <2>3. CASE WriteTargetFails \/ RenameFails
    BY <1>1, <1>2, <2>3 DEF WriteTargetFails, RenameFails, At
  <2>4. CASE WriteManifest \/ RenameRoot
    BY <1>2, <2>4 DEF WriteManifest, RenameRoot, Goto, At, Idle
  <2>5. CASE PrepareRefused \/ PrepareFails \/ SyncRoot \/ UndoRoot \/ UndoRootFails
    BY <2>5, IdleShaped, AbandonFacts, UndoRootFacts DEF SyncRoot, End
  <2>6. QED
    BY <1>3, <2>1, <2>2, <2>3, <2>4, <2>5 DEF Install
<1>4. ASSUME Uninstall PROVE cmd'.kind \in {"uninstall", "none"}
  <2>1. CASE BeginUninstall
    BY <2>1, IdleShaped DEF BeginUninstall, Idle
  <2>2. CASE Restore \/ UndoRestore \/ Finish
    BY <1>2, <2>2, IdleShaped DEF Restore, UndoRestore, Finish, Advance, At, Idle, End
  <2>3. CASE RestoreFails \/ RemoveTreeFails
    BY <1>1, <1>2, <2>3 DEF RestoreFails, RemoveTreeFails, At
  <2>4. CASE StopService \/ Validate \/ RemovePicker \/ RemovePickerFails \/ RemoveTree
             \/ UninstallUndone \/ FinishFails
    BY <1>2, <2>4 DEF StopService, Validate, RemovePicker, RemovePickerFails, RemoveTree,
                      UninstallUndone, FinishFails, Goto, At, Idle
  <2>5. CASE StopFails \/ Restart
    BY <2>5, IdleShaped DEF StopFails, Restart, End
  <2>6. QED
    BY <1>4, <2>1, <2>2, <2>3, <2>4, <2>5 DEF Uninstall
<1>5. QED
  BY <1>3, <1>4

\* Before the first command there is nothing to lose.
LEMMA InitHolds == Init => IInv
<1> SUFFICES ASSUME Init PROVE IInv
  OBVIOUS
<1>1. Counted /\ Shaped /\ Working
  BY InitShaped
<1>2. cmd = Idle /\ mine = {} /\ root = Absent
  BY DEF Init
<1>3. \A f \in Targets : BackedUp(cmd.receipts, f) = Absent /\ disk[f] = Absent
  BY <1>2, IdleShaped DEF BackedUp, NoReceipts, Init
<1>4. \A b \in BackupIds : backups[b] = Absent
  BY DEF Init
<1>5. Numbered /\ Somewhere
  BY <1>2, <1>3, <1>4 DEF Numbered, Somewhere, Belongs
<1>6. Installing /\ Uninstalling
  BY <1>2, IdleShaped DEF Installing, Uninstalling
<1>7. QED
  BY <1>1, <1>5, <1>6 DEF IInv

\* Every step keeps the invariant.
LEMMA StepKeeps ==
  ASSUME IInv, Next
  PROVE  IInv'
<1>1. Counted' /\ (Trusted' => Trusted)
  BY CountedKeeps DEF IInv
<1>2. ASSUME Trusted'
      PROVE  Shaped' /\ Working' /\ Numbered' /\ Somewhere' /\ Installing' /\ Uninstalling'
  <2>1. Counted /\ Shaped /\ Working /\ Numbered /\ Somewhere /\ Installing /\ Uninstalling
    BY <1>1, <1>2 DEF IInv
  <2>2. Undoable'
    BY <1>2 DEF Trusted
  <2>3. CASE Install
    <3>1. cmd'.kind # "uninstall"
      BY <2>1, <2>3, KindKept DEF Shaped, CmdShaped
    <3>2. Uninstalling'
      BY <3>1 DEF Uninstalling
    <3>3. QED
      BY <1>2, <2>1, <2>3, <3>2, InstallShaped, InstallKeeps
  <2>4. CASE Uninstall
    <3>1. cmd'.kind # "install"
      BY <2>1, <2>4, KindKept DEF Shaped, CmdShaped
    <3>2. Installing'
      BY <3>1 DEF Installing
    <3>3. QED
      BY <1>2, <2>1, <2>4, <3>2, UninstallShaped, UninstallKeeps DEF Uninstalling, Recoverable
  <2>5. CASE UndoFails \/ Environment \/ Replace
    BY <1>2, <2>1, <2>5, OtherShaped, OtherKeeps
  <2>6. QED
    BY <2>3, <2>4, <2>5 DEF Next, BridgeNext
<1>3. QED
  BY <1>1, <1>2 DEF IInv

\* And so does no step.
LEMMA StutterKeeps ==
  ASSUME IInv, UNCHANGED vars
  PROVE  IInv'
BY DEF IInv, vars, Counted, Trusted, Undoable, Shaped, Working, Numbered, Aged, Belongs, BackedUp,
       Somewhere, Installing, Prepared, Saved, Found, Uninstalling, Bridges, Returned,
       BackupsThere

\* Whatever is installed, removed, replaced or repaired, fails or dies, in any
\* number and order: what the user wrote into a profile or a LaunchAgent is in
\* its file or in a backup, unless a command said that its rollback failed.
THEOREM OriginalsKeptHolds == Spec => []OriginalsKept
<1>1. IInv /\ [Next]_vars => IInv'
  BY StepKeeps, StutterKeeps
<1>2. IInv => OriginalsKept
  BY DEF IInv, Trusted, Somewhere, OriginalsKept, Warned
<1>3. QED
  BY <1>1, <1>2, InitHolds, PTL DEF Spec

-----------------------------------------------------------------------------
(* The runtime and its replacement.                                         *)

Whole == DOMAIN cmd = DOMAIN Idle /\ DOMAIN bin = Runtimes

\* A command, or the rollback of a script, died where it was.
Torn == {"crash", "move"} \cap count.kinds # {}

\* Two runtimes are of one version, unless that happened.
Paired(b, r) == Torn \/ bin[b] = bin[r]

\* What a replacement has done when it is at a step: which runtimes it exchanged,
\* which copies exist, and whether the service is still loaded.
Swapped ==
  /\ cmd.pc \in {"stage", "shutdown", "binary"} => cmd.replaced = {}
  /\ cmd.pc = "setaside" => cmd.replaced = {"binary"}
  /\ cmd.pc \in {"launcher", "verify", "start", "doctor"} => cmd.replaced = {"binary", "launcher"}
  /\ cmd.pc \in {"cleanup", "rollback"} =>
       cmd.replaced \in {{}, {"binary"}, {"binary", "launcher"}}
  /\ cmd.pc = "rollback" => cmd.replaced # {}
  /\ cmd.pc \in {"shutdown", "binary"} =>
       bin["newBinary"] = cmd.version /\ bin["oldBinary"] = bin["binary"]
  /\ cmd.pc \in {"shutdown", "binary", "setaside", "launcher"} =>
       bin["newLauncher"] = cmd.version
  /\ cmd.pc \in {"setaside", "launcher", "verify", "start", "doctor"} =>
       bin["binary"] = cmd.version
  /\ cmd.pc \in {"verify", "start", "doctor"} => bin["launcher"] = cmd.version

\* The old pair is installed, or there to be put back.
OldPair ==
  /\ cmd.pc = "restart" \/ cmd.replaced = {} => Paired("binary", "launcher")
  /\ cmd.pc # "restart" /\ cmd.replaced = {"binary"} => Paired("oldBinary", "launcher")
  /\ cmd.pc # "restart" /\ cmd.replaced = {"binary", "launcher"} =>
       Paired("oldBinary", "oldLauncher")
  /\ cmd.pc # "restart" /\ cmd.replaced # {} => bin["oldBinary"] # Absent

Served ==
  /\ cmd.pc \in {"stage", "shutdown", "doctor"} => service = "loaded"
  /\ cmd.pc \in {"stage", "shutdown"} => ~cmd.stopped
  /\ cmd.pc = "binary" => cmd.stopped
  /\ cmd.pc = "cleanup" /\ cmd.replaced = {} =>
       cmd.stopped \/ service = "loaded" \/ "launchctl" \in count.kinds

Replacement ==
  /\ root # Absent /\ bin["binary"] # Absent /\ cmd.version \in Nat
  /\ cmd.pc \in {"stage", "shutdown", "binary", "setaside", "launcher", "verify", "start",
                 "doctor", "cleanup", "rollback", "restart"}
  /\ Swapped /\ OldPair /\ Served

\* The invariant of the runtimes.
PairInv ==
  /\ Counted /\ Whole
  /\ cmd.kind # "replace" /\ outcome # "rollback_failed" => Paired("binary", "launcher")
  /\ cmd.kind = "replace" => Replacement

\* A failure that has happened is not forgotten.
LEMMA FaultsKept ==
  ASSUME Counted, NEW kind, Fault(kind)
  PROVE  count.kinds \subseteq count'.kinds /\ (kind \in Excepted => kind \in count'.kinds)
BY DEF Counted, Fault

\* A step of the replacement that goes on: only these fields of the command change.
LEMMA ReplaceGoes ==
  ASSUME Whole, NEW c, DOMAIN c = DOMAIN Idle
  PROVE  /\ \A pc : /\ DOMAIN [c EXCEPT !.pc = pc] = DOMAIN Idle
                    /\ [c EXCEPT !.pc = pc].pc = pc /\ [c EXCEPT !.pc = pc].kind = c.kind
                    /\ [c EXCEPT !.pc = pc].version = c.version
                    /\ [c EXCEPT !.pc = pc].replaced = c.replaced
                    /\ [c EXCEPT !.pc = pc].stopped = c.stopped
         /\ \A pc, s : /\ DOMAIN [c EXCEPT !.stopped = s, !.pc = pc] = DOMAIN Idle
                       /\ [c EXCEPT !.stopped = s, !.pc = pc].pc = pc
                       /\ [c EXCEPT !.stopped = s, !.pc = pc].kind = c.kind
                       /\ [c EXCEPT !.stopped = s, !.pc = pc].version = c.version
                       /\ [c EXCEPT !.stopped = s, !.pc = pc].replaced = c.replaced
                       /\ [c EXCEPT !.stopped = s, !.pc = pc].stopped = s
         /\ \A pc, r : /\ DOMAIN [c EXCEPT !.replaced = r, !.pc = pc] = DOMAIN Idle
                       /\ [c EXCEPT !.replaced = r, !.pc = pc].pc = pc
                       /\ [c EXCEPT !.replaced = r, !.pc = pc].kind = c.kind
                       /\ [c EXCEPT !.replaced = r, !.pc = pc].version = c.version
                       /\ [c EXCEPT !.replaced = r, !.pc = pc].replaced = r
                       /\ [c EXCEPT !.replaced = r, !.pc = pc].stopped = c.stopped
BY DEF Idle

\* The next command, in terms of the fields a replacement uses.
Goes(pc, stopped, replaced) ==
  /\ DOMAIN cmd' = DOMAIN Idle /\ cmd'.kind = "replace" /\ cmd'.version = cmd.version
  /\ cmd'.pc = pc /\ cmd'.stopped = stopped /\ cmd'.replaced = replaced

\* How the steps of a replacement change its command.
LEMMA ReplaceCommands ==
  ASSUME Whole, cmd.kind = "replace"
  PROVE  /\ \A pc : Goto(pc) => Goes(pc, cmd.stopped, cmd.replaced)
         /\ Fails => Goes("cleanup", cmd.stopped, cmd.replaced)
         /\ Shutdown => Goes("binary", TRUE, cmd.replaced)
         /\ ShutdownFails => \E s \in BOOLEAN : Goes("cleanup", s, cmd.replaced)
         /\ SwapBinary => Goes("setaside", cmd.stopped, {"binary"})
         /\ SetLauncherAside => Goes("launcher", cmd.stopped, cmd.replaced \cup {"launcher"})
         /\ \A report : End(report) => cmd'.kind = "none" /\ DOMAIN cmd' = DOMAIN Idle
<1>1. DOMAIN cmd = DOMAIN Idle
  BY DEF Whole
<1>2. ASSUME NEW pc PROVE Goto(pc) => Goes(pc, cmd.stopped, cmd.replaced)
  BY <1>1, ReplaceGoes DEF Goto, Goes
<1>3. Fails => Goes("cleanup", cmd.stopped, cmd.replaced)
  BY <1>1, ReplaceGoes DEF Fails, Goes
<1>4. Shutdown => Goes("binary", TRUE, cmd.replaced)
  BY <1>1, ReplaceGoes DEF Shutdown, Goes
<1>5. ShutdownFails => \E s \in BOOLEAN : Goes("cleanup", s, cmd.replaced)
  BY <1>1, ReplaceGoes DEF ShutdownFails, Goes
<1>6. SwapBinary => Goes("setaside", cmd.stopped, {"binary"})
  BY <1>1, ReplaceGoes DEF SwapBinary, Goes
<1>7. SetLauncherAside => Goes("launcher", cmd.stopped, cmd.replaced \cup {"launcher"})
  BY <1>1, ReplaceGoes DEF SetLauncherAside, Goes
<1>8. ASSUME NEW report PROVE End(report) => cmd'.kind = "none" /\ DOMAIN cmd' = DOMAIN Idle
  BY IdleShaped DEF End
<1>9. QED
  BY <1>2, <1>3, <1>4, <1>5, <1>6, <1>7, <1>8

\* What a step of the replacement must keep, and what its end shows.
Exchanged ==
  /\ Whole'
  /\ cmd'.kind # "replace" /\ outcome' # "rollback_failed" => Paired("binary", "launcher")'
  /\ cmd'.kind = "replace" => Replacement'

Ended ==
  /\ Ends("replace", "ok") =>
       /\ service' = "loaded" /\ DoctorPasses
       /\ bin'["binary"] = cmd.version /\ bin'["launcher"] = cmd.version
  /\ Ends("replace", "failed") =>
       /\ {"crash", "move"} \cap count'.kinds # {} \/ bin'["binary"] = bin'["launcher"]
       /\ service' = "loaded" \/ {"launchctl", "move"} \cap count'.kinds # {}

\* The pair is compared with the new one, and the service is there.
LEMMA BeginExchange ==
  ASSUME PairInv, BeginReplace
  PROVE  Exchanged /\ cmd.kind = "none"
<1>1. /\ cmd = Idle /\ cmd.kind = "none" /\ outcome # "rollback_failed" /\ root # Absent
      /\ bin["binary"] # Absent /\ UNCHANGED <<root, bin, count>> /\ service' = "loaded"
  BY IdleShaped DEF BeginReplace, Ready
<1>2. PICK v \in 1 .. MaxVersions :
        cmd' = [Idle EXCEPT !.kind = "replace", !.pc = "stage", !.version = v]
  BY DEF BeginReplace
<1>3. /\ DOMAIN cmd' = DOMAIN Idle /\ cmd'.kind = "replace" /\ cmd'.pc = "stage"
      /\ cmd'.version = v /\ cmd'.replaced = {} /\ cmd'.stopped = FALSE
  BY <1>2 DEF Idle
<1>4. v \in Nat
  BY VersionsAssumption
<1>5. Paired("binary", "launcher")
  BY <1>1 DEF PairInv
<1>6. Replacement'
  BY <1>1, <1>3, <1>4, <1>5 DEF Replacement, Swapped, OldPair, Served, Paired, Torn
<1>7. QED
  BY <1>1, <1>3, <1>6 DEF Exchanged, PairInv, Whole

\* The steps that go forward.
LEMMA ForwardExchange ==
  ASSUME PairInv, cmd.kind = "replace",
         Stage \/ Shutdown \/ SwapBinary \/ SetLauncherAside \/ SwapLauncher \/ VerifyPair \/ Start
  PROVE  Exchanged /\ cmd'.kind = "replace"
<1>1. Whole /\ Replacement /\ DOMAIN bin = Runtimes
  BY DEF PairInv, Whole
<1>2. CASE Stage
  <2>1. /\ cmd.pc = "stage" /\ UNCHANGED <<root, service, count>>
        /\ Goes("shutdown", cmd.stopped, cmd.replaced)
    BY <1>1, <1>2, ReplaceCommands DEF Stage, Replacing, At
  <2>2. /\ DOMAIN bin' = Runtimes /\ bin'["newBinary"] = cmd.version
        /\ bin'["newLauncher"] = cmd.version /\ bin'["oldBinary"] = bin["binary"]
        /\ bin'["binary"] = bin["binary"] /\ bin'["launcher"] = bin["launcher"]
    BY <1>1, <1>2 DEF Stage, Runtimes
  <2>3. Replacement'
    BY <1>1, <2>1, <2>2 DEF Replacement, Swapped, OldPair, Served, Paired, Torn, Goes
  <2>4. QED
    BY <2>1, <2>2, <2>3 DEF Exchanged, Whole, Goes
<1>3. CASE Shutdown
  <2>1. /\ cmd.pc = "shutdown" /\ UNCHANGED <<root, bin, count>> /\ service' = "not_loaded"
        /\ Goes("binary", TRUE, cmd.replaced)
    BY <1>1, <1>3, ReplaceCommands DEF Shutdown, Replacing, At
  <2>2. Replacement'
    BY <1>1, <2>1 DEF Replacement, Swapped, OldPair, Served, Paired, Torn, Goes
  <2>3. QED
    BY <1>1, <2>1, <2>2 DEF Exchanged, Whole, Goes
<1>4. CASE SwapBinary
  <2>1. /\ cmd.pc = "binary" /\ UNCHANGED <<root, service, count>>
        /\ Goes("setaside", cmd.stopped, {"binary"})
    BY <1>1, <1>4, ReplaceCommands DEF SwapBinary, Replacing, At
  <2>2. /\ DOMAIN bin' = Runtimes /\ bin'["binary"] = bin["newBinary"]
        /\ bin'["newLauncher"] = bin["newLauncher"] /\ bin'["oldBinary"] = bin["oldBinary"]
        /\ bin'["launcher"] = bin["launcher"]
    BY <1>1, <1>4 DEF SwapBinary, Move, Runtimes
  <2>3. bin'["binary"] = cmd.version /\ cmd.version # Absent /\ bin'["oldBinary"] # Absent
    BY <1>1, <2>1, <2>2, VersionsAssumption DEF Replacement, Swapped
  <2>4. Replacement'
    BY <1>1, <2>1, <2>2, <2>3 DEF Replacement, Swapped, OldPair, Served, Paired, Torn, Goes
  <2>5. QED
    BY <2>1, <2>2, <2>4 DEF Exchanged, Whole, Goes
<1>5. CASE SetLauncherAside
  <2>1. /\ cmd.pc = "setaside" /\ UNCHANGED <<root, service, count>>
        /\ Goes("launcher", cmd.stopped, cmd.replaced \cup {"launcher"})
    BY <1>1, <1>5, ReplaceCommands DEF SetLauncherAside, Replacing, At
  <2>2. /\ DOMAIN bin' = Runtimes /\ bin'["oldLauncher"] = bin["launcher"]
        /\ bin'["newLauncher"] = bin["newLauncher"] /\ bin'["oldBinary"] = bin["oldBinary"]
        /\ bin'["binary"] = bin["binary"]
    BY <1>1, <1>5 DEF SetLauncherAside, Move, Runtimes
  <2>3. cmd.replaced = {"binary"} /\ cmd.replaced \cup {"launcher"} = {"binary", "launcher"}
    BY <1>1, <2>1 DEF Replacement, Swapped
  <2>4. Replacement'
    BY <1>1, <2>1, <2>2, <2>3 DEF Replacement, Swapped, OldPair, Served, Paired, Torn, Goes
  <2>5. QED
    BY <2>1, <2>2, <2>4 DEF Exchanged, Whole, Goes
<1>6. CASE SwapLauncher
  <2>1. /\ cmd.pc = "launcher" /\ UNCHANGED <<root, service, count>>
        /\ Goes("verify", cmd.stopped, cmd.replaced)
    BY <1>1, <1>6, ReplaceCommands DEF SwapLauncher, Replacing, At
  <2>2. /\ DOMAIN bin' = Runtimes /\ bin'["launcher"] = bin["newLauncher"]
        /\ bin'["oldLauncher"] = bin["oldLauncher"] /\ bin'["oldBinary"] = bin["oldBinary"]
        /\ bin'["binary"] = bin["binary"]
    BY <1>1, <1>6 DEF SwapLauncher, Move, Runtimes
  <2>3. Replacement'
    BY <1>1, <2>1, <2>2 DEF Replacement, Swapped, OldPair, Served, Paired, Torn, Goes
  <2>4. QED
    BY <2>1, <2>2, <2>3 DEF Exchanged, Whole, Goes
<1>7. CASE VerifyPair
  <2>1. /\ cmd.pc = "verify" /\ UNCHANGED <<root, bin, service, count>>
        /\ Goes("start", cmd.stopped, cmd.replaced)
    BY <1>1, <1>7, ReplaceCommands DEF VerifyPair, Replacing, At, fileVars
  <2>2. Replacement'
    BY <1>1, <2>1 DEF Replacement, Swapped, OldPair, Served, Paired, Torn, Goes
  <2>3. QED
    BY <1>1, <2>1, <2>2 DEF Exchanged, Whole, Goes
<1>8. CASE Start
  <2>1. /\ cmd.pc = "start" /\ UNCHANGED <<root, bin, count>> /\ service' = "loaded"
        /\ Goes("doctor", cmd.stopped, cmd.replaced)
    BY <1>1, <1>8, ReplaceCommands DEF Start, Replacing, At
  <2>2. Replacement'
    BY <1>1, <2>1 DEF Replacement, Swapped, OldPair, Served, Paired, Torn, Goes
  <2>3. QED
    BY <1>1, <2>1, <2>2 DEF Exchanged, Whole, Goes
<1>9. QED
  BY <1>2, <1>3, <1>4, <1>5, <1>6, <1>7, <1>8

\* The steps that fail go to the script's trap.
LEMMA FailingExchange ==
  ASSUME PairInv, cmd.kind = "replace",
         StageFails \/ ShutdownFails \/ SwapFails \/ VerifyFails \/ StartFails
  PROVE  Exchanged /\ cmd'.kind = "replace"
<1>1. Whole /\ Replacement /\ Counted
  BY DEF PairInv
<1>2. /\ UNCHANGED <<root, bin>> /\ count.kinds \subseteq count'.kinds
      /\ (Torn => Torn')
  BY <1>1, FaultsKept DEF StageFails, ShutdownFails, SwapFails, VerifyFails, StartFails,
                          StartRefused, Torn, fileVars
<1>3. CASE ShutdownFails
  <2>1. cmd.pc = "shutdown" /\ "launchctl" \in count'.kinds
    BY <1>1, <1>3, FaultsKept DEF ShutdownFails, Replacing, At, Excepted
  <2>2. PICK s \in BOOLEAN : Goes("cleanup", s, cmd.replaced)
    BY <1>1, <1>3, ReplaceCommands
  <2>3. Replacement'
    BY <1>1, <1>2, <2>1, <2>2 DEF Replacement, Swapped, OldPair, Served, Paired, Torn, Goes
  <2>4. QED
    BY <1>1, <1>2, <2>2, <2>3 DEF Exchanged, Whole, Goes
<1>4. CASE StageFails \/ SwapFails \/ VerifyFails \/ StartFails
  <2>1. /\ Goes("cleanup", cmd.stopped, cmd.replaced)
        /\ \/ cmd.pc = "stage" /\ service' = service
           \/ cmd.pc \in {"binary", "setaside", "launcher", "verify", "start"}
    BY <1>1, <1>4, ReplaceCommands
       DEF StageFails, SwapFails, VerifyFails, StartFails, Replacing, At, fileVars
  <2>2. cmd.pc = "binary" => cmd.stopped \/ "launchctl" \in count'.kinds
    BY <1>1 DEF Replacement, Served
  <2>3. Replacement'
    BY <1>1, <1>2, <2>1, <2>2 DEF Replacement, Swapped, OldPair, Served, Paired, Torn, Goes
  <2>4. QED
    BY <1>1, <1>2, <2>1, <2>3 DEF Exchanged, Whole, Goes
<1>5. QED
  BY <1>3, <1>4

\* The trap stops the service, puts back what was exchanged, and starts it again.
LEMMA TrapExchange ==
  ASSUME PairInv, cmd.kind = "replace",
         \/ CleanUp \/ RollbackStop \/ RollbackStopFails \/ RollbackPair \/ RollbackPairFails
         \/ RollbackStart
  PROVE  Exchanged /\ Ended
<1>1. Whole /\ Replacement /\ DOMAIN bin = Runtimes /\ UNCHANGED root
  BY DEF PairInv, Whole, CleanUp, RollbackStop, RollbackStopFails, RollbackPair,
         RollbackPairFails, RollbackStart
<1>2. /\ DOMAIN StagedGone(bin) = Runtimes /\ StagedGone(bin)["binary"] = bin["binary"]
      /\ StagedGone(bin)["launcher"] = bin["launcher"]
  BY <1>1 DEF StagedGone, Runtimes
<1>3. CASE CleanUp
  <2>1. /\ cmd.pc = "cleanup" /\ cmd.replaced = {} /\ bin' = StagedGone(bin)
        /\ \/ /\ service' = IF cmd.stopped THEN "loaded" ELSE service
              /\ End("failed") /\ UNCHANGED count
           \/ End("rollback_failed")
    BY <1>3 DEF CleanUp, Replacing, At
  <2>2. cmd'.kind = "none" /\ DOMAIN cmd' = DOMAIN Idle
    BY <1>1, <2>1, ReplaceCommands
  <2>3. outcome' \in {"failed", "rollback_failed"}
    BY <2>1 DEF End
  <2>4. CASE outcome' = "failed"
    <3>1. UNCHANGED count /\ service' = IF cmd.stopped THEN "loaded" ELSE service
      BY <2>1, <2>4 DEF End
    <3>2. Paired("binary", "launcher") /\ (service' = "loaded" \/ "launchctl" \in count'.kinds)
      BY <1>1, <2>1, <3>1 DEF Replacement, OldPair, Served
    <3>3. QED
      BY <1>2, <2>1, <2>2, <2>4, <3>1, <3>2 DEF Exchanged, Ended, Ends, Whole, Paired, Torn
  <2>5. CASE outcome' = "rollback_failed"
    BY <1>2, <2>1, <2>2, <2>5 DEF Exchanged, Ended, Ends, Whole
  <2>6. QED
    BY <2>3, <2>4, <2>5
<1>4. CASE RollbackStop
  <2>1. /\ cmd.pc = "cleanup" /\ cmd.replaced # {} /\ UNCHANGED <<bin, count>>
        /\ Goes("rollback", cmd.stopped, cmd.replaced)
    BY <1>1, <1>4, ReplaceCommands DEF RollbackStop, Replacing, At
  <2>2. Replacement'
    BY <1>1, <2>1 DEF Replacement, Swapped, OldPair, Served, Paired, Torn, Goes
  <2>3. QED
    BY <1>1, <2>1, <2>2, IdleShaped DEF Exchanged, Ended, Ends, Whole, Goes
<1>5. CASE RollbackStopFails
  <2>1. bin' = StagedGone(bin) /\ End("rollback_failed")
    BY <1>5 DEF RollbackStopFails
  <2>2. cmd'.kind = "none" /\ DOMAIN cmd' = DOMAIN Idle /\ outcome' = "rollback_failed"
    BY <1>1, <2>1, ReplaceCommands DEF End
  <2>3. QED
    BY <1>2, <2>1, <2>2 DEF Exchanged, Ended, Ends, Whole
<1>6. CASE RollbackPair
  <2>1. /\ cmd.pc = "rollback" /\ UNCHANGED count
        /\ Goes("restart", cmd.stopped, cmd.replaced)
    BY <1>1, <1>6, ReplaceCommands DEF RollbackPair, Replacing, At
  <2>2. /\ DOMAIN bin' = Runtimes /\ bin'["binary"] = bin["oldBinary"]
        /\ bin'["launcher"] = IF "launcher" \in cmd.replaced THEN bin["oldLauncher"]
                              ELSE bin["launcher"]
    BY <1>1, <1>6 DEF RollbackPair, Runtimes
  <2>3. /\ cmd.replaced \in {{"binary"}, {"binary", "launcher"}}
        /\ bin["oldBinary"] # Absent
        /\ Paired("oldBinary", IF "launcher" \in cmd.replaced THEN "oldLauncher" ELSE "launcher")
    BY <1>1, <2>1 DEF Replacement, Swapped, OldPair
  <2>4. Paired("binary", "launcher")'
    BY <2>1, <2>2, <2>3 DEF Paired, Torn
  <2>5. Replacement'
    BY <1>1, <2>1, <2>2, <2>3, <2>4 DEF Replacement, Swapped, OldPair, Served, Goes
  <2>6. QED
    BY <2>1, <2>2, <2>5, IdleShaped DEF Exchanged, Ended, Ends, Whole, Goes
<1>7. CASE RollbackStart
  <2>1. /\ cmd.pc = "restart" /\ bin' = StagedGone(bin)
        /\ \/ service' = "loaded" /\ End("failed") /\ UNCHANGED count
           \/ End("rollback_failed")
    BY <1>7 DEF RollbackStart, Replacing, At
  <2>2. cmd'.kind = "none" /\ DOMAIN cmd' = DOMAIN Idle
    BY <1>1, <2>1, ReplaceCommands
  <2>3. Paired("binary", "launcher")
    BY <1>1, <2>1 DEF Replacement, OldPair
  <2>4. \/ service' = "loaded" /\ outcome' = "failed" /\ UNCHANGED count
        \/ outcome' = "rollback_failed"
    BY <2>1 DEF End
  <2>5. QED
    BY <1>2, <2>1, <2>2, <2>3, <2>4 DEF Exchanged, Ended, Ends, Whole, Paired, Torn
<1>8. CASE RollbackPairFails
  <2>1. /\ "move" \in count'.kinds /\ DOMAIN bin' = Runtimes /\ End("failed")
    BY <1>1, <1>8, FaultsKept DEF RollbackPairFails, Runtimes, Excepted, PairInv
  <2>2. cmd'.kind = "none" /\ DOMAIN cmd' = DOMAIN Idle /\ outcome' = "failed"
    BY <1>1, <2>1, ReplaceCommands DEF End
  <2>3. QED
    BY <2>1, <2>2 DEF Exchanged, Ended, Ends, Whole, Paired, Torn
<1>9. QED
  BY <1>3, <1>4, <1>5, <1>6, <1>7, <1>8

\* A replacement doctor passes is kept.
LEMMA DoctorExchange ==
  ASSUME PairInv, cmd.kind = "replace", Doctor
  PROVE  Exchanged /\ Ended
<1>1. /\ Whole /\ Replacement /\ DOMAIN bin = Runtimes /\ cmd.pc = "doctor"
      /\ UNCHANGED <<root, service, count>>
  BY DEF PairInv, Whole, Doctor, Replacing, At, rest
<1>2. CASE DoctorPasses
  <2>1. /\ DOMAIN bin' = Runtimes /\ bin'["binary"] = bin["binary"]
        /\ bin'["launcher"] = bin["launcher"] /\ End("ok")
    BY <1>1, <1>2 DEF Doctor, Runtimes
  <2>2. cmd'.kind = "none" /\ DOMAIN cmd' = DOMAIN Idle /\ outcome' = "ok"
    BY <1>1, <2>1, ReplaceCommands DEF End
  <2>3. bin["binary"] = cmd.version /\ bin["launcher"] = cmd.version /\ service = "loaded"
    BY <1>1 DEF Replacement, Swapped, Served
  <2>4. QED
    BY <1>1, <1>2, <2>1, <2>2, <2>3 DEF Exchanged, Ended, Ends, Whole, Paired, Torn
<1>3. CASE ~DoctorPasses
  <2>1. Goes("cleanup", cmd.stopped, cmd.replaced) /\ bin' = bin
    BY <1>1, <1>3, ReplaceCommands DEF Doctor
  <2>2. Replacement'
    BY <1>1, <2>1 DEF Replacement, Swapped, OldPair, Served, Paired, Torn, Goes
  <2>3. QED
    BY <1>1, <2>1, <2>2, IdleShaped DEF Exchanged, Ended, Ends, Whole, Goes
<1>4. QED
  BY <1>2, <1>3

\* Every step of a replacement.
LEMMA ReplaceExchange ==
  ASSUME PairInv, Replace
  PROVE  Exchanged /\ Ended
<1>1. CASE BeginReplace
  BY <1>1, BeginExchange DEF Ended, Ends
<1>2. ASSUME ~BeginReplace PROVE cmd.kind = "replace"
  BY <1>2 DEF Replace, Stage, StageFails, Shutdown, ShutdownFails, SwapBinary, SetLauncherAside,
              SwapLauncher, SwapFails, VerifyPair, VerifyFails, Start, StartFails, Doctor, CleanUp,
              RollbackStop, RollbackStopFails, RollbackPair, RollbackPairFails, RollbackStart,
              Replacing, At
<1>3. cmd'.kind = "replace" => Ended
  BY IdleShaped DEF Ended, Ends
<1>4. QED
  BY <1>1, <1>2, <1>3, ForwardExchange, FailingExchange, TrapExchange, DoctorExchange DEF Replace

\* The next command of an installation and of a removal is a command.
LEMMA CommandsForm ==
  ASSUME DOMAIN cmd = DOMAIN Idle, Install \/ Uninstall \/ UndoFails
  PROVE  DOMAIN cmd' = DOMAIN Idle
<1>1. ASSUME NEW c, DOMAIN c = DOMAIN Idle
      PROVE  DOMAIN Undoing(c) = DOMAIN Idle /\ \A then : DOMAIN Advance(c, then) = DOMAIN Idle
  BY <1>1 DEF Undoing, Advance
<1>2. CASE BeginInstall \/ BeginUninstall
  BY <1>2 DEF BeginInstall, BeginUninstall
<1>3. CASE Prepare
  <2>1. PICK c : c = [cmd EXCEPT !.original[Head(cmd.todo)] = disk[Head(cmd.todo)]]
    OBVIOUS
  <2>2. DOMAIN c = DOMAIN Idle
    BY <2>1
  <2>3. PICK advanced : advanced = Advance(c, "manifest")
    OBVIOUS
  <2>4. DOMAIN advanced = DOMAIN Idle
    BY <1>1, <2>2, <2>3
  <2>5. \/ cmd' = advanced
        \/ \E r : cmd' = [advanced EXCEPT !.receipts[Head(cmd.todo)] = r]
    BY <1>3, <2>1, <2>3 DEF Prepare
  <2>6. QED
    BY <2>4, <2>5
<1>4. CASE PrepareRefused \/ PrepareFails \/ SyncRoot \/ UndoRoot \/ UndoRootFails \/ StopFails
           \/ Restart
  BY <1>4, AbandonFacts, UndoRootFacts DEF SyncRoot, StopFails, Restart, End
<1>5. CASE WriteManifest \/ RenameRoot \/ StopService \/ Validate \/ RemovePicker
           \/ RemovePickerFails \/ RemoveTree \/ UninstallUndone \/ FinishFails
  BY <1>5 DEF WriteManifest, RenameRoot, StopService, Validate, RemovePicker, RemovePickerFails,
              RemoveTree, UninstallUndone, FinishFails, Goto
<1>6. CASE WriteTarget \/ Restore \/ UndoTarget \/ UndoRestore \/ UndoFails
  BY <1>1, <1>6 DEF WriteTarget, Restore, UndoTarget, UndoRestore, UndoFails
<1>7. CASE WriteTargetFails \/ RenameFails \/ RestoreFails \/ RemoveTreeFails
  BY <1>1, <1>7 DEF WriteTargetFails, RenameFails, RestoreFails, RemoveTreeFails
<1>8. CASE Finish
  BY <1>1, <1>8 DEF Finish, End
<1>9. QED
  BY <1>2, <1>3, <1>4, <1>5, <1>6, <1>7, <1>8 DEF Install, Uninstall

\* The other commands put a pair in place or take one away, and only the one that is
\* replacing runs.
LEMMA OtherExchange ==
  ASSUME PairInv, BridgeNext
  PROVE  Exchanged /\ Ended
<1>1. /\ Whole /\ Counted /\ DOMAIN bin = Runtimes /\ DOMAIN cmd = DOMAIN Idle
      /\ Next
  BY DEF PairInv, Whole, Next
<1>2. outcome' # "rollback_failed" => outcome # "rollback_failed"
  BY <1>1, NoCommandAfter
<1>3. Torn => Torn'
  <2>1. BeginInstall \/ UserWrites \/ count' = count \/ \E kind : Fault(kind)
    BY <1>1, Reports
  <2>2. QED
    BY <1>1, <2>1, FaultsKept DEF BeginInstall, UserWrites, Counted, Torn
<1>4. CASE Install \/ Uninstall \/ UndoFails
  <2>1. cmd.kind # "replace" /\ cmd'.kind # "replace" /\ DOMAIN cmd' = DOMAIN Idle
    <3>1. DOMAIN cmd' = DOMAIN Idle
      BY <1>1, <1>4, CommandsForm
    <3>2. CASE Install
      <4>1. cmd.kind # "replace"
        BY <3>2, IdleShaped DEF Install, BeginInstall, Prepare, PrepareRefused, PrepareFails,
              WriteManifest, WriteTarget, WriteTargetFails, RenameRoot, SyncRoot, RenameFails,
              UndoTarget, UndoRoot, UndoRootFails, At, Ready
      <4>2. QED
        BY <1>1, <3>1, <3>2, <4>1, KindKept
    <3>3. CASE Uninstall
      <4>1. cmd.kind # "replace"
        BY <3>3, IdleShaped DEF Uninstall, BeginUninstall, StopService, StopFails, Validate,
              RemovePicker, RemovePickerFails, Restore, RestoreFails, RemoveTree, RemoveTreeFails,
              UndoRestore, UninstallUndone, Finish, FinishFails, Restart, At, Ready
      <4>2. QED
        BY <1>1, <3>1, <3>3, <4>1, KindKept
    <3>4. CASE UndoFails
      <4>1. cmd.pc = "undo" /\ cmd' = Advance([cmd EXCEPT !.failed = TRUE], "undone")
        BY <3>4 DEF UndoFails
      <4>2. cmd'.kind = cmd.kind
        BY <1>1, <4>1 DEF Advance, Idle
      <4>3. QED
        BY <3>1, <4>1, <4>2 DEF PairInv, Replacement
    <3>5. QED
      BY <1>4, <3>2, <3>3, <3>4
  <2>2. bin' \in {bin, NoRuntimes, [NoRuntimes EXCEPT !["binary"] = 0, !["launcher"] = 0]}
    BY <1>4, AbandonFacts, UndoRootFacts
            DEF Install, BeginInstall, Prepare, WriteManifest,
                WriteTarget, WriteTargetFails, RenameRoot, SyncRoot, RenameFails, UndoTarget,
                Uninstall, BeginUninstall, StopService, StopFails,
                Validate, RemovePicker, RemovePickerFails, Restore, RestoreFails, RemoveTree,
                RemoveTreeFails, UndoRestore, UninstallUndone, Finish, FinishFails, Restart,
                UndoFails, fileVars
  <2>3. DOMAIN bin' = Runtimes /\ (bin' = bin \/ bin'["binary"] = bin'["launcher"])
    BY <1>1, <2>2 DEF NoRuntimes, Runtimes
  <2>4. outcome' # "rollback_failed" => Paired("binary", "launcher")'
    BY <1>2, <1>3, <2>1, <2>3 DEF PairInv, Paired, Torn
  <2>5. QED
    BY <2>1, <2>3, <2>4 DEF Exchanged, Ended, Ends, Whole
<1>5. CASE Environment
  <2>1. CASE Crash
    <3>1. /\ cmd' = Idle /\ outcome' = "crashed" /\ bin' = bin /\ "crash" \in count'.kinds
      BY <1>1, <2>1, FaultsKept DEF Crash, End, fileVars, Excepted
    <3>2. QED
      BY <1>1, <3>1, IdleShaped DEF Exchanged, Ended, Ends, Whole, Paired, Torn
  <2>2. CASE ServiceCommand \/ PickerInstall \/ UserWrites \/ UserDeletes \/ UserRepairs
    <3>1. /\ UNCHANGED <<bin, cmd, outcome>> /\ count'.kinds = count.kinds
          /\ \/ cmd = Idle
             \/ UNCHANGED <<root, service>>
      BY <1>1, <2>2 DEF ServiceCommand, PickerInstall, UserWrites, UserDeletes, UserRepairs, Counted
    <3>2. cmd.kind = "replace" => Replacement'
      BY <3>1, IdleShaped DEF PairInv, Replacement, Swapped, OldPair, Served, Paired, Torn
    <3>3. QED
      BY <1>1, <3>1, <3>2, IdleShaped DEF PairInv, Exchanged, Ended, Ends, Whole, Paired, Torn
  <2>3. QED
    BY <1>5, <2>1, <2>2 DEF Environment
<1>6. QED
  BY <1>4, <1>5 DEF BridgeNext

\* Every step keeps the runtimes paired, and a replacement ends as it should.
LEMMA StepExchange ==
  ASSUME PairInv, Next
  PROVE  PairInv' /\ Ended
<1>1. Exchanged /\ Ended
  BY ReplaceExchange, OtherExchange DEF Next
<1>2. Counted'
  BY CountedKeeps DEF PairInv
<1>3. QED
  BY <1>1, <1>2 DEF Exchanged, PairInv

\* A replacement ends with one pair: whatever fails, in any number of replacements of
\* any versions, the new one checked and served, or, when it fails and reports no failed
\* rollback, the pair it found (scripts/replace-installed-bridge.sh).
THEOREM ReplacedAsPairHolds == Spec => ReplacedAsPair
<1>1. Init => PairInv
  <2>1. SUFFICES ASSUME Init PROVE PairInv
    OBVIOUS
  <2>2. Counted
    BY <2>1, InitShaped
  <2>3. cmd = Idle /\ DOMAIN bin = Runtimes /\ bin["binary"] = bin["launcher"]
    BY <2>1 DEF Init, NoRuntimes, Runtimes
  <2>4. QED
    BY <2>2, <2>3, IdleShaped DEF PairInv, Whole, Paired, Torn
<1>2. PairInv /\ [Next]_vars => PairInv'
  <2>1. SUFFICES ASSUME PairInv, UNCHANGED vars PROVE PairInv'
    BY StepExchange
  <2>2. QED
    BY <2>1 DEF vars, PairInv, Counted, Whole, Paired, Torn, Replacement, Swapped, OldPair, Served
<1>3. PairInv /\ [Next]_vars => [Ended]_vars
  BY StepExchange
<1>4. QED
  BY <1>1, <1>2, <1>3, PTL DEF Spec, ReplacedAsPair, Ended

-----------------------------------------------------------------------------
(* What an uninstall restores.                                              *)

\* The first file of the list is done with, and the command goes on.
Worked(f, then) ==
  /\ f \in Targets /\ f \in Left(cmd.todo) /\ Left(cmd'.todo) = Left(cmd.todo) \ {f}
  /\ cmd'.kind = cmd.kind /\ cmd'.id = cmd.id /\ cmd'.prior = cmd.prior
  /\ \/ cmd'.pc = cmd.pc
     \/ cmd'.pc = then /\ Left(cmd'.todo) = {}

\* Every step that works on the first file of a list does so.
LEMMA WorkedOff ==
  ASSUME CmdShaped(cmd), cmd.todo # <<>>, NEW then, NEW c, CmdShaped(c),
         c.todo = cmd.todo, c.pc = cmd.pc, c.kind = cmd.kind, c.id = cmd.id, c.prior = cmd.prior,
         cmd' = Advance(c, then)
  PROVE  /\ Worked(Head(cmd.todo), then)
         /\ cmd'.receipts = c.receipts /\ cmd'.original = c.original
         /\ cmd'.changed = c.changed /\ cmd'.failed = c.failed
<1>1. /\ cmd'.todo = Tail(cmd.todo)
      /\ cmd'.pc = IF cmd'.todo = <<>> THEN then ELSE cmd.pc
      /\ \A k \in DOMAIN Idle \ {"pc", "todo"} : cmd'[k] = c[k]
  BY AdvanceShaped
<1>2. /\ Head(cmd.todo) \in Targets /\ Left(cmd.todo) = Left(cmd'.todo) \cup {Head(cmd.todo)}
      /\ Head(cmd.todo) \notin Left(cmd'.todo)
  BY <1>1, TodoFacts DEF CmdShaped
<1>3. cmd'.todo = <<>> => Left(cmd'.todo) = {}
  BY DEF Left
<1>4. /\ cmd'.kind = c.kind /\ cmd'.id = c.id /\ cmd'.prior = c.prior
      /\ cmd'.receipts = c.receipts /\ cmd'.original = c.original
      /\ cmd'.changed = c.changed /\ cmd'.failed = c.failed
  BY <1>1 DEF Idle
<1>5. QED
  BY <1>1, <1>2, <1>3, <1>4 DEF Worked

\* prepare_external_target reads the first file and backs it up under a new name.
LEMMA PrepareGoes ==
  ASSUME Shaped, Working, Prepare
  PROVE  \E f \in Targets :
           /\ Worked(f, "manifest") /\ cmd'.changed = cmd.changed /\ cmd'.failed = cmd.failed
           /\ cmd'.original = [cmd.original EXCEPT ![f] = disk[f]]
           /\ \/ /\ disk[f] = Absent /\ backups' = backups /\ cmd'.receipts = cmd.receipts
              \/ /\ disk[f] # Absent
                 /\ \E b \in FreshIds :
                      /\ backups' = [backups EXCEPT ![b] = disk[f].text]
                      /\ cmd'.receipts =
                           [cmd.receipts EXCEPT ![f] = [backup |-> b, mode |-> disk[f].mode]]
<1>0. PICK f : f = Head(cmd.todo)
  OBVIOUS
<1>1. /\ cmd.kind = "install" /\ cmd.pc = "prepare" /\ cmd.todo # <<>> /\ CmdShaped(cmd)
      /\ f \in Targets
  BY <1>0, HeadTarget DEF Prepare, At, Working, Shaped
<1>2. PICK kept : kept = [cmd EXCEPT !.original[f] = disk[f]]
  OBVIOUS
<1>3. /\ CmdShaped(kept) /\ kept.todo = cmd.todo /\ kept.kind = cmd.kind /\ kept.pc = cmd.pc
      /\ kept.receipts = cmd.receipts /\ kept.changed = cmd.changed /\ kept.failed = cmd.failed
      /\ kept.id = cmd.id /\ kept.prior = cmd.prior
      /\ kept.original = [cmd.original EXCEPT ![f] = disk[f]]
  BY <1>1, <1>2 DEF Shaped, CmdShaped, Idle
<1>4. CASE disk[f] = Absent
  <2>1. cmd' = Advance(kept, "manifest") /\ backups' = backups
    BY <1>0, <1>2, <1>4 DEF Prepare
  <2>2. QED
    BY <1>0, <1>1, <1>3, <1>4, <2>1, WorkedOff
<1>5. CASE disk[f] # Absent
  <2>1. PICK advanced : advanced = Advance(kept, "manifest")
    OBVIOUS
  <2>2. PICK b \in FreshIds :
          /\ backups' = [backups EXCEPT ![b] = disk[f].text]
          /\ cmd' = [advanced EXCEPT !.receipts[f] = [backup |-> b, mode |-> disk[f].mode]]
    BY <1>0, <1>2, <1>5, <2>1 DEF Prepare
  <2>3. /\ CmdShaped(advanced) /\ advanced.todo = Tail(cmd.todo)
        /\ advanced.pc = IF advanced.todo = <<>> THEN "manifest" ELSE cmd.pc
        /\ \A k \in DOMAIN Idle \ {"pc", "todo"} : advanced[k] = kept[k]
    <3>1. CmdShaped(kept) /\ kept.todo # <<>>
      BY <1>1, <1>3
    <3>2. /\ CmdShaped(advanced) /\ advanced.todo = Tail(kept.todo)
          /\ advanced.pc = IF Tail(kept.todo) = <<>> THEN "manifest" ELSE kept.pc
          /\ \A k \in DOMAIN Idle \ {"pc", "todo"} : advanced[k] = kept[k]
      BY <2>1, <3>1, AdvanceShaped
    <3>3. kept.todo = cmd.todo /\ kept.pc = cmd.pc
      BY <1>3
    <3>4. QED
      BY <3>2, <3>3
  <2>4. /\ advanced.kind = cmd.kind /\ advanced.id = cmd.id /\ advanced.prior = cmd.prior
        /\ advanced.receipts = cmd.receipts /\ advanced.original = kept.original
        /\ advanced.changed = cmd.changed /\ advanced.failed = cmd.failed
    BY <1>3, <2>3 DEF Idle
  <2>5. /\ cmd'.kind = cmd.kind /\ cmd'.id = cmd.id /\ cmd'.prior = cmd.prior
        /\ cmd'.original = kept.original /\ cmd'.changed = cmd.changed
        /\ cmd'.failed = cmd.failed /\ cmd'.todo = Tail(cmd.todo)
        /\ cmd'.pc = IF cmd'.todo = <<>> THEN "manifest" ELSE cmd.pc
        /\ cmd'.receipts = [cmd.receipts EXCEPT ![f] = [backup |-> b, mode |-> disk[f].mode]]
    BY <2>2, <2>3, <2>4 DEF CmdShaped, Idle
  <2>6. f \in Left(cmd.todo) /\ Left(cmd'.todo) = Left(cmd.todo) \ {f}
    BY <1>0, <1>1, <2>5, TodoFacts DEF CmdShaped
  <2>7. Left(<<>>) = {}
    BY DEF Left
  <2>8. Worked(f, "manifest")
    BY <1>1, <2>5, <2>6, <2>7 DEF Worked
  <2>9. QED
    BY <1>1, <1>3, <1>5, <2>2, <2>5, <2>8
<1>6. QED
  BY <1>4, <1>5

\* The command of an installation goes on, with what it has prepared, or ends.
LEMMA InstallGoes ==
  ASSUME Shaped, Working, Install, ~BeginInstall, ~Prepare
  PROVE  /\ cmd.kind = "install"
         /\ \/ /\ cmd' = Idle
               /\ PrepareRefused \/ PrepareFails \/ SyncRoot \/ UndoRoot \/ UndoRootFails
            \/ /\ cmd'.kind = "install" /\ cmd'.id = cmd.id /\ cmd'.receipts = cmd.receipts
               /\ cmd'.original = cmd.original
               /\ cmd'.pc \in {"write", "rename", "sync", "undo", "undone"}
               /\ cmd'.pc = "sync" => RenameRoot
<1> DEFINE Same(c) ==
             /\ c.kind = "install" /\ c.id = cmd.id /\ c.receipts = cmd.receipts
             /\ c.original = cmd.original
             /\ c.pc \in {"write", "rename", "sync", "undo", "undone"}
             /\ c.pc = "sync" => RenameRoot
<1>1. cmd.kind = "install" /\ CmdShaped(cmd)
  BY DEF Install, PrepareRefused, PrepareFails, WriteManifest, WriteTarget, WriteTargetFails,
         RenameRoot, SyncRoot, RenameFails, UndoTarget, UndoRoot, UndoRootFails, At, Shaped
<1>2. CASE PrepareRefused \/ PrepareFails \/ SyncRoot \/ UndoRoot \/ UndoRootFails
  BY <1>1, <1>2, AbandonFacts, UndoRootFacts DEF SyncRoot, End
<1>3. CASE WriteManifest \/ RenameRoot
  <2>1. Same(cmd')
    BY <1>1, <1>3 DEF WriteManifest, RenameRoot, Goto, CmdShaped, Idle
  <2>2. QED
    BY <1>1, <2>1
<1>4. CASE WriteTarget
  <2>1. /\ cmd.pc = "write" /\ cmd.todo # <<>>
        /\ cmd' = Advance([cmd EXCEPT !.changed = @ \cup {Head(cmd.todo)}], "rename")
    BY <1>4 DEF WriteTarget, At, Working
  <2>2. PICK c : c = [cmd EXCEPT !.changed = @ \cup {Head(cmd.todo)}]
    OBVIOUS
  <2>3. /\ CmdShaped(c) /\ c.todo = cmd.todo /\ c.pc = cmd.pc /\ c.kind = cmd.kind
        /\ c.id = cmd.id /\ c.prior = cmd.prior /\ c.receipts = cmd.receipts
        /\ c.original = cmd.original
    BY <1>1, <2>1, <2>2, CmdFields, HeadTarget DEF Idle
  <2>4. /\ Worked(Head(cmd.todo), "rename")
        /\ cmd'.receipts = c.receipts /\ cmd'.original = c.original
    BY <1>1, <2>1, <2>2, <2>3, WorkedOff
  <2>5. QED
    BY <1>1, <2>1, <2>3, <2>4 DEF Worked
<1>5. CASE UndoTarget
  <2>1. cmd.pc = "undo" /\ cmd.todo # <<>> /\ cmd' = Advance(cmd, "undone")
    BY <1>5 DEF UndoTarget, At, Working
  <2>2. /\ Worked(Head(cmd.todo), "undone")
        /\ cmd'.receipts = cmd.receipts /\ cmd'.original = cmd.original
    BY <1>1, <2>1, WorkedOff
  <2>3. QED
    BY <1>1, <2>1, <2>2 DEF Worked
<1>6. CASE WriteTargetFails \/ RenameFails
  <2>1. cmd' = Undoing(cmd)
    BY <1>6 DEF WriteTargetFails, RenameFails
  <2>2. QED
    BY <1>1, <2>1, Undone
<1>7. QED
  BY <1>2, <1>3, <1>4, <1>5, <1>6 DEF Install

\* The command of an uninstall goes on, about the same installation, or ends.
LEMMA UninstallGoes ==
  ASSUME Shaped, Working, Uninstall, ~BeginUninstall
  PROVE  /\ cmd.kind = "uninstall"
         /\ \/ cmd' = Idle /\ (StopFails \/ Finish \/ Restart)
            \/ /\ cmd'.kind = "uninstall" /\ cmd'.id = cmd.id /\ cmd'.receipts = cmd.receipts
               /\ cmd'.original = cmd.original
<1> DEFINE Same(c) ==
             /\ c.kind = "uninstall" /\ c.id = cmd.id /\ c.receipts = cmd.receipts
             /\ c.original = cmd.original
<1>1. cmd.kind = "uninstall" /\ CmdShaped(cmd)
  BY DEF Uninstall, StopService, StopFails, Validate, RemovePicker, RemovePickerFails, Restore,
         RestoreFails, RemoveTree, RemoveTreeFails, UndoRestore, UninstallUndone, Finish,
         FinishFails, Restart, At, Shaped
<1>2. CASE StopFails \/ Restart
  BY <1>1, <1>2 DEF StopFails, Restart, End
<1>3. CASE StopService \/ Validate \/ RemovePicker \/ RemovePickerFails \/ RemoveTree
           \/ UninstallUndone \/ FinishFails
  <2>1. Same(cmd')
    BY <1>1, <1>3 DEF StopService, Validate, RemovePicker, RemovePickerFails, RemoveTree,
                      UninstallUndone, FinishFails, Goto, CmdShaped, Idle
  <2>2. QED
    BY <1>1, <2>1
<1>4. CASE Restore
  <2>1. /\ cmd.pc = "restore" /\ cmd.todo # <<>>
        /\ cmd' = Advance([cmd EXCEPT !.changed = @ \cup {Head(cmd.todo)}], "tree")
    BY <1>4 DEF Restore, At, Working
  <2>2. PICK c : c = [cmd EXCEPT !.changed = @ \cup {Head(cmd.todo)}]
    OBVIOUS
  <2>3. /\ CmdShaped(c) /\ c.todo = cmd.todo /\ c.pc = cmd.pc /\ c.kind = cmd.kind
        /\ c.id = cmd.id /\ c.prior = cmd.prior /\ c.receipts = cmd.receipts
        /\ c.original = cmd.original
    BY <1>1, <2>1, <2>2, CmdFields, HeadTarget DEF Idle
  <2>4. /\ Worked(Head(cmd.todo), "tree")
        /\ cmd'.receipts = c.receipts /\ cmd'.original = c.original
    BY <1>1, <2>1, <2>2, <2>3, WorkedOff
  <2>5. QED
    BY <1>1, <2>3, <2>4 DEF Worked
<1>5. CASE UndoRestore \/ Finish
  <2>1. /\ cmd.todo # <<>>
        /\ \/ cmd' = Idle /\ Finish
           \/ \E then : cmd' = Advance(cmd, then)
    BY <1>5 DEF UndoRestore, Finish, At, Working, End
  <2>2. CASE \E then : cmd' = Advance(cmd, then)
    <3>1. PICK then : cmd' = Advance(cmd, then)
      BY <2>2
    <3>2. /\ Worked(Head(cmd.todo), then)
          /\ cmd'.receipts = cmd.receipts /\ cmd'.original = cmd.original
      BY <1>1, <2>1, <3>1, WorkedOff
    <3>3. QED
      BY <1>1, <3>2 DEF Worked
  <2>3. QED
    BY <1>1, <2>1, <2>2
<1>6. CASE RestoreFails \/ RemoveTreeFails
  <2>1. cmd' = Undoing(cmd)
    BY <1>6 DEF RestoreFails, RemoveTreeFails
  <2>2. QED
    BY <1>1, <2>1, Undone
<1>7. QED
  BY <1>2, <1>3, <1>4, <1>5, <1>6 DEF Uninstall

\* What a backup says about the file it was made of.
Matches(receipts, original, f) ==
  IF original[f] = Absent THEN receipts[f] = Absent
  ELSE /\ receipts[f] # Absent
       /\ original[f] = [text |-> backups[receipts[f].backup], mode |-> receipts[f].mode]

\* The backups of an installation are of the files it found.
RootMatched == root # Absent => \A f \in Targets : Matches(root.receipts, root.original, f)

InstallMatched ==
  cmd.kind = "install" =>
    /\ cmd.pc \in {"prepare", "manifest"} => root = Absent
    /\ \A f \in Targets :
         /\ Matches(cmd.receipts, cmd.original, f)
         /\ cmd.pc = "prepare" /\ f \in Left(cmd.todo) => cmd.original[f] = Absent

\* What an uninstall has put back is what the installation found, then its tree goes,
\* then its backups.
UninstallMatched ==
  cmd.kind = "uninstall" =>
    /\ cmd.pc \in {"stop", "validate", "picker", "restore", "tree"} => root # Absent
    /\ cmd.pc = "finish" => root = Absent
    /\ root # Absent => cmd.receipts = root.receipts /\ cmd.original = root.original
    /\ cmd.pc # "stop" => service = "not_loaded"
    /\ \A f \in Targets :
         /\ cmd.pc = "restore" /\ f \notin Left(cmd.todo) => disk[f] = cmd.original[f]
         /\ cmd.pc \in {"tree", "finish"} => disk[f] = cmd.original[f]
         /\ cmd.pc = "finish" /\ f \notin Left(cmd.todo) /\ cmd.receipts[f] # Absent =>
              backups[cmd.receipts[f].backup] = Absent

\* The inductive invariant, for every failure.
MatchInv ==
  /\ Counted /\ Shaped /\ Working
  /\ outcome # "rollback_failed" => RootMatched /\ InstallMatched /\ UninstallMatched

\* The files an uninstall still has to restore have their backups.
LEMMA MatchedRecoverable ==
  ASSUME Shaped, RootMatched, UninstallMatched
  PROVE  Recoverable
<1>1. SUFFICES ASSUME cmd.kind = "uninstall", cmd.pc \in {"picker", "restore", "tree"}
               PROVE  root # Absent /\ BackupsThere(cmd.receipts)
  BY DEF Recoverable
<1>2. root # Absent /\ cmd.receipts = root.receipts /\ cmd.original = root.original
  BY <1>1 DEF UninstallMatched
<1>3. ASSUME NEW f \in Targets, cmd.receipts[f] # Absent
      PROVE  backups[cmd.receipts[f].backup] # Absent
  <2>1. /\ cmd.original[f] # Absent
        /\ cmd.original[f].text = backups[cmd.receipts[f].backup]
    <3>1. Matches(cmd.receipts, cmd.original, f)
      BY <1>2 DEF RootMatched
    <3>2. QED
      BY <1>3, <3>1 DEF Matches
  <2>2. cmd.original[f] \in Files
    BY <2>1 DEF Shaped, CmdShaped
  <2>3. QED
    BY <2>1, <2>2, TextsAbsent DEF Files
<1>4. QED
  BY <1>2, <1>3 DEF BackupsThere

\* What is restored is what the installation found.
LEMMA PreviousOriginal ==
  ASSUME NEW f, Matches(cmd.receipts, cmd.original, f)
  PROVE  Previous(f) = cmd.original[f]
BY DEF Matches, Previous

\* The root stays as it is or goes, and so do the backups.
LEMMA RootKeeps ==
  ASSUME RootMatched, backups' = backups,
         \/ root' = Absent
         \/ root # Absent /\ root'.receipts = root.receipts /\ root'.original = root.original
  PROVE  RootMatched'
BY DEF RootMatched, Matches

\* The steps of install keep what the backups are of.
LEMMA InstallMatches ==
  ASSUME Counted, Shaped, Working, RootMatched, InstallMatched, Install,
         outcome' # "rollback_failed"
  PROVE  RootMatched' /\ InstallMatched' /\ UninstallMatched'
<1>0. UninstallMatched'
  <2>1. cmd'.kind # "uninstall"
    BY KindKept DEF Shaped, CmdShaped
  <2>2. QED
    BY <2>1 DEF UninstallMatched
<1>1. CASE BeginInstall
  <2>1. /\ root = Absent /\ UNCHANGED <<root, backups>>
        /\ cmd' = [Idle EXCEPT !.kind = "install", !.pc = "prepare", !.id = count.installs + 1,
                               !.todo = <<"profile", "agent">>]
    BY <1>1 DEF BeginInstall, Installable
  <2>2. cmd'.pc = "prepare" /\ cmd'.receipts = NoReceipts /\ cmd'.original = NoReceipts
    BY <2>1 DEF Idle
  <2>3. QED
    BY <1>0, <2>1, <2>2 DEF RootMatched, InstallMatched, Matches, NoReceipts
<1>2. CASE Prepare
  <2>1. PICK f \in Targets :
           /\ Worked(f, "manifest")
           /\ cmd'.original = [cmd.original EXCEPT ![f] = disk[f]]
           /\ \/ /\ disk[f] = Absent /\ backups' = backups /\ cmd'.receipts = cmd.receipts
              \/ /\ disk[f] # Absent
                 /\ \E b \in FreshIds :
                      /\ backups' = [backups EXCEPT ![b] = disk[f].text]
                      /\ cmd'.receipts =
                           [cmd.receipts EXCEPT ![f] = [backup |-> b, mode |-> disk[f].mode]]
    BY <1>2, PrepareGoes
  <2>2. /\ cmd.kind = "install" /\ cmd.pc = "prepare" /\ root = Absent /\ root' = root
    BY <1>2 DEF Prepare, At, InstallMatched
  <2>3. /\ \A g \in Targets : Matches(cmd.receipts, cmd.original, g)
        /\ cmd.original[f] = Absent /\ cmd.receipts[f] = Absent
    BY <2>1, <2>2 DEF InstallMatched, Worked, Matches
  <2>4. \A g \in Targets : cmd'.original[g] = IF g = f THEN disk[f] ELSE cmd.original[g]
    BY <2>1 DEF Shaped, CmdShaped
  <2>5. \A g \in Targets : Matches(cmd.receipts, cmd.original, g)'
    <3>1. CASE backups' = backups /\ cmd'.receipts = cmd.receipts /\ disk[f] = Absent
      BY <2>3, <2>4, <3>1 DEF Matches
    <3>2. CASE /\ disk[f] # Absent
               /\ \E b \in FreshIds :
                    /\ backups' = [backups EXCEPT ![b] = disk[f].text]
                    /\ cmd'.receipts =
                         [cmd.receipts EXCEPT ![f] = [backup |-> b, mode |-> disk[f].mode]]
      <4>1. PICK b \in FreshIds :
              /\ backups' = [backups EXCEPT ![b] = disk[f].text]
              /\ cmd'.receipts = [cmd.receipts EXCEPT ![f] = [backup |-> b, mode |-> disk[f].mode]]
        BY <3>2
      <4>2. /\ b \in BackupIds
            /\ \A g \in Targets : cmd.receipts[g] # Absent => cmd.receipts[g].backup # b
        BY DEF FreshIds
      <4>3. /\ disk[f] = [text |-> disk[f].text, mode |-> disk[f].mode]
            /\ [backup |-> b, mode |-> disk[f].mode] \in Records
        BY <3>2, <4>2 DEF Shaped, Files, Records
      <4>4. \A c \in BackupIds : backups'[c] = IF c = b THEN disk[f].text ELSE backups[c]
        BY <4>1, <4>2 DEF Shaped
      <4>5. \A g \in Targets : cmd'.receipts[g] = IF g = f THEN [backup |-> b, mode |-> disk[f].mode]
                                                  ELSE cmd.receipts[g]
        BY <4>1 DEF Shaped, CmdShaped, Recorded
      <4>6. Matches(cmd.receipts, cmd.original, f)'
        BY <2>4, <3>2, <4>2, <4>3, <4>4, <4>5, TextsAbsent DEF Matches
      <4>7. ASSUME NEW g \in Targets, g # f PROVE Matches(cmd.receipts, cmd.original, g)'
        <5>1. cmd'.receipts[g] = cmd.receipts[g] /\ cmd'.original[g] = cmd.original[g]
          BY <2>4, <4>5, <4>7
        <5>2. cmd.receipts[g] # Absent => cmd.receipts[g].backup \in BackupIds \ {b}
          BY <4>2 DEF Shaped, CmdShaped, Recorded, Records
        <5>3. QED
          BY <2>3, <4>4, <5>1, <5>2 DEF Matches
      <4>8. QED
        BY <4>6, <4>7
    <3>3. QED
      BY <2>1, <3>1, <3>2
  <2>6. \A g \in Targets : cmd'.pc = "prepare" /\ g \in Left(cmd'.todo) => cmd'.original[g] = Absent
    BY <2>1, <2>2, <2>4 DEF Worked, InstallMatched
  <2>7. QED
    BY <1>0, <2>2, <2>5, <2>6 DEF RootMatched, InstallMatched
<1>3. CASE PrepareRefused \/ PrepareFails \/ UndoRoot
  <2>1. cmd' = Idle /\ root' = Absent
    BY <1>3, AbandonFacts, UndoRootFacts DEF InstallMatched
  <2>2. QED
    BY <1>0, <2>1, IdleShaped DEF RootMatched, InstallMatched
<1>4. CASE SyncRoot
  <2>1. cmd' = Idle /\ root' = root /\ backups' = backups
    BY <1>4 DEF SyncRoot, End, fileVars
  <2>2. QED
    BY <1>0, <2>1, IdleShaped, RootKeeps DEF InstallMatched, RootMatched
<1>5. CASE WriteManifest \/ WriteTarget \/ WriteTargetFails \/ RenameFails \/ UndoTarget
           \/ RenameRoot
  <2>1. /\ backups' = backups
        /\ root' = root \/ (root'.receipts = cmd.receipts /\ root'.original = cmd.original)
    BY <1>5 DEF WriteManifest, WriteTarget, WriteTargetFails, RenameFails, UndoTarget, RenameRoot,
                fileVars
  <2>2. /\ cmd.kind = "install"
        /\ \/ cmd' = Idle
           \/ /\ cmd'.receipts = cmd.receipts /\ cmd'.original = cmd.original
              /\ cmd'.pc \notin {"prepare", "manifest"}
    <3>1. ~BeginInstall /\ ~Prepare
      BY <1>5, IdleShaped DEF WriteManifest, WriteTarget, WriteTargetFails, RenameFails, UndoTarget,
                  RenameRoot, At, BeginInstall, Ready, Prepare
    <3>2. QED
      BY <3>1, InstallGoes
  <2>3. InstallMatched'
    BY <2>1, <2>2, IdleShaped DEF InstallMatched, Matches
  <2>4. RootMatched'
    BY <2>1, <2>2 DEF InstallMatched, RootMatched, Matches
  <2>5. QED
    BY <1>0, <2>3, <2>4
<1>6. ~UndoRootFails
  BY DEF UndoRootFails, End
<1>7. QED
  BY <1>1, <1>2, <1>3, <1>4, <1>5, <1>6 DEF Install

\* The steps of uninstall restore what was found.
LEMMA UninstallMatches ==
  ASSUME Counted, Shaped, Working, RootMatched, UninstallMatched, Uninstall
  PROVE  RootMatched' /\ InstallMatched' /\ UninstallMatched'
<1>0. InstallMatched'
  <2>1. cmd'.kind # "install"
    BY KindKept DEF Shaped, CmdShaped
  <2>2. QED
    BY <2>1 DEF InstallMatched
<1>1. CASE BeginUninstall
  <2>1. /\ root # Absent /\ UNCHANGED <<root, backups>>
        /\ cmd' = [Idle EXCEPT !.kind = "uninstall", !.pc = "stop", !.id = root.install,
                               !.receipts = root.receipts, !.original = root.original,
                               !.prior = service]
    BY <1>1 DEF BeginUninstall, Accepted, DoctorPasses, ManifestValid, fileVars
  <2>2. cmd'.pc = "stop" /\ cmd'.receipts = root.receipts /\ cmd'.original = root.original
    BY <2>1 DEF Idle
  <2>3. QED
    BY <1>0, <2>1, <2>2 DEF RootMatched, UninstallMatched, Matches
<1>2. CASE StopService \/ Validate \/ UninstallUndone \/ FinishFails \/ RemovePickerFails
  <2>1. /\ UNCHANGED <<disk, backups, root>> /\ cmd.kind = "uninstall"
        /\ service' = "not_loaded"
    BY <1>2 DEF StopService, Validate, UninstallUndone, FinishFails, RemovePickerFails, At, fileVars,
                UninstallMatched
  <2>2. \/ cmd' = [cmd EXCEPT !.pc = "validate"] /\ cmd.pc = "stop"
        \/ cmd' = [cmd EXCEPT !.pc = "picker"] /\ cmd.pc = "validate"
        \/ cmd' = [cmd EXCEPT !.pc = "restart"]
    BY <1>2 DEF StopService, Validate, UninstallUndone, FinishFails, RemovePickerFails, Goto, At
  <2>3. /\ cmd'.receipts = cmd.receipts /\ cmd'.original = cmd.original
        /\ \/ cmd'.pc \in {"validate", "picker"} /\ cmd.pc \in {"stop", "validate"}
           \/ cmd'.pc = "restart"
    BY <2>2 DEF Shaped, CmdShaped, Idle
  <2>4. UninstallMatched'
    BY <2>1, <2>3 DEF UninstallMatched
  <2>5. QED
    BY <1>0, <2>1, <2>4 DEF RootMatched, Matches
<1>3. CASE StopFails \/ Restart
  <2>1. cmd' = Idle /\ UNCHANGED <<backups, root>>
    BY <1>3 DEF StopFails, Restart, End
  <2>2. QED
    BY <1>0, <2>1, IdleShaped DEF RootMatched, Matches, UninstallMatched
<1>4. CASE RemovePicker
  <2>1. /\ cmd.kind = "uninstall" /\ cmd.pc = "picker" /\ root # Absent
        /\ root' = [root EXCEPT !.picker = FALSE] /\ UNCHANGED <<disk, backups, service>>
        /\ cmd' = [cmd EXCEPT !.pc = "restore", !.todo = <<"profile", "agent">>]
    BY <1>4 DEF RemovePicker, At, UninstallMatched
  <2>2. /\ cmd'.kind = "uninstall" /\ cmd'.pc = "restore" /\ cmd'.receipts = cmd.receipts
        /\ cmd'.original = cmd.original /\ cmd'.todo = <<"profile", "agent">>
    BY <2>1 DEF Shaped, CmdShaped, Idle
  <2>3. root' # Absent /\ root'.receipts = root.receipts /\ root'.original = root.original
    BY <2>1, RootFacts
  <2>4. Left(cmd'.todo) = Targets
    BY <2>2 DEF Left, Targets
  <2>5. UninstallMatched'
    BY <2>1, <2>2, <2>3, <2>4 DEF UninstallMatched
  <2>6. QED
    BY <1>0, <2>1, <2>3, <2>5, RootKeeps
<1>5. CASE Restore
  <2>1. /\ cmd.kind = "uninstall" /\ cmd.pc = "restore" /\ cmd.todo # <<>> /\ CmdShaped(cmd)
        /\ disk' = [disk EXCEPT ![Head(cmd.todo)] = Previous(Head(cmd.todo))]
        /\ cmd' = Advance([cmd EXCEPT !.changed = @ \cup {Head(cmd.todo)}], "tree")
        /\ UNCHANGED <<root, backups, service>>
    BY <1>5 DEF Restore, At, Working, Shaped
  <2>2. PICK c : c = [cmd EXCEPT !.changed = @ \cup {Head(cmd.todo)}]
    OBVIOUS
  <2>3. /\ CmdShaped(c) /\ c.todo = cmd.todo /\ c.pc = cmd.pc /\ c.kind = cmd.kind
        /\ c.id = cmd.id /\ c.prior = cmd.prior /\ c.receipts = cmd.receipts
        /\ c.original = cmd.original
    BY <2>1, <2>2, CmdFields, HeadTarget DEF Idle
  <2>4. /\ Worked(Head(cmd.todo), "tree")
        /\ cmd'.receipts = cmd.receipts /\ cmd'.original = cmd.original
    BY <2>1, <2>2, <2>3, WorkedOff
  <2>5. \A f \in Targets : Matches(cmd.receipts, cmd.original, f)
    BY <2>1 DEF UninstallMatched, RootMatched
  <2>6. PICK f \in Targets : f = Head(cmd.todo)
    BY <2>4 DEF Worked
  <2>7. \A g \in Targets : disk'[g] = IF g = f THEN cmd.original[f] ELSE disk[g]
    BY <2>1, <2>5, <2>6, PreviousOriginal DEF Shaped
  <2>8. /\ cmd'.kind = "uninstall" /\ Left(cmd'.todo) = Left(cmd.todo) \ {f}
        /\ \/ cmd'.pc = "restore"
           \/ cmd'.pc = "tree" /\ Left(cmd'.todo) = {}
    BY <2>1, <2>4, <2>6 DEF Worked
  <2>9. \A g \in Targets : g \notin Left(cmd'.todo) => disk'[g] = cmd'.original[g]
    BY <2>1, <2>4, <2>7, <2>8 DEF UninstallMatched
  <2>10. UninstallMatched'
    BY <2>1, <2>4, <2>8, <2>9 DEF UninstallMatched
  <2>11. QED
    BY <1>0, <2>1, <2>10 DEF RootMatched, Matches
<1>6. CASE RestoreFails \/ RemoveTreeFails
  <2>1. /\ cmd.kind = "uninstall" /\ cmd.pc \in {"restore", "tree"} /\ cmd' = Undoing(cmd)
        /\ UNCHANGED <<backups, service>>
        /\ root' = root \/ root' = Absent \/ root' = [root EXCEPT !.whole = FALSE]
    BY <1>6 DEF RestoreFails, RemoveTreeFails, At
  <2>2. /\ cmd'.pc \in {"undo", "undone"} /\ cmd'.receipts = cmd.receipts
        /\ cmd'.original = cmd.original
    BY <2>1, Undone DEF Shaped
  <2>3. root # Absent
    BY <2>1 DEF UninstallMatched
  <2>4. \/ root' = Absent
        \/ root'.receipts = root.receipts /\ root'.original = root.original
    BY <2>1, <2>3, RootFacts
  <2>5. UninstallMatched'
    BY <2>1, <2>2, <2>3, <2>4 DEF UninstallMatched
  <2>6. QED
    BY <1>0, <2>1, <2>3, <2>4, <2>5, RootKeeps
<1>7. CASE RemoveTree
  <2>1. /\ cmd.kind = "uninstall" /\ cmd.pc = "tree" /\ root' = Absent
        /\ UNCHANGED <<disk, backups, service>>
        /\ cmd' = [cmd EXCEPT !.pc = "finish", !.todo = <<"profile", "agent">>]
    BY <1>7 DEF RemoveTree, At
  <2>2. /\ cmd'.pc = "finish" /\ cmd'.receipts = cmd.receipts /\ cmd'.original = cmd.original
        /\ cmd'.todo = <<"profile", "agent">>
    BY <2>1 DEF Shaped, CmdShaped, Idle
  <2>3. Left(cmd'.todo) = Targets
    BY <2>2 DEF Left, Targets
  <2>4. QED
    BY <1>0, <2>1, <2>2, <2>3 DEF UninstallMatched, RootMatched
<1>8. CASE UndoRestore
  <2>1. /\ cmd.kind = "uninstall" /\ cmd.pc = "undo" /\ cmd.todo # <<>> /\ CmdShaped(cmd)
        /\ cmd' = Advance(cmd, "undone") /\ UNCHANGED <<root, backups, service>>
    BY <1>8 DEF UndoRestore, At, Working, Shaped
  <2>2. /\ Worked(Head(cmd.todo), "undone")
        /\ cmd'.receipts = cmd.receipts /\ cmd'.original = cmd.original
    BY <2>1, WorkedOff
  <2>3. cmd'.pc \in {"undo", "undone"}
    BY <2>1, <2>2 DEF Worked
  <2>4. QED
    BY <1>0, <2>1, <2>2, <2>3 DEF UninstallMatched, RootMatched, Matches
<1>9. CASE Finish
  <2>0. PICK r : r = cmd.receipts[Head(cmd.todo)]
    OBVIOUS
  <2>1. /\ cmd.kind = "uninstall" /\ cmd.pc = "finish" /\ cmd.todo # <<>> /\ CmdShaped(cmd)
        /\ backups' = IF r = Absent THEN backups ELSE [backups EXCEPT ![r.backup] = Absent]
        /\ UNCHANGED <<disk, root, service>>
        /\ cmd' = Idle \/ cmd' = Advance(cmd, "finish")
    BY <1>9, <2>0 DEF Finish, At, Working, End, Shaped
  <2>2. root = Absent
    BY <2>1 DEF UninstallMatched
  <2>3. CASE cmd' = Idle
    BY <1>0, <2>1, <2>2, <2>3, IdleShaped DEF RootMatched, UninstallMatched
  <2>4. CASE cmd' = Advance(cmd, "finish")
    <3>1. /\ Worked(Head(cmd.todo), "finish")
          /\ cmd'.receipts = cmd.receipts /\ cmd'.original = cmd.original
      BY <2>1, <2>4, WorkedOff
    <3>2. PICK f \in Targets : f = Head(cmd.todo)
      BY <3>1 DEF Worked
    <3>3. cmd'.pc = "finish" /\ Left(cmd'.todo) = Left(cmd.todo) \ {f}
      BY <2>1, <3>1, <3>2 DEF Worked
    <3>4. \A g \in Targets : g \notin Left(cmd'.todo) /\ cmd.receipts[g] # Absent =>
            backups'[cmd.receipts[g].backup] = Absent
      <4>1. \A g \in Targets : cmd.receipts[g] # Absent => cmd.receipts[g].backup \in BackupIds
        BY <2>1 DEF CmdShaped, Recorded, Records
      <4>2. ASSUME NEW b \in BackupIds, backups[b] = Absent PROVE backups'[b] = Absent
        BY <2>1, <4>2 DEF Shaped
      <4>3. cmd.receipts[f] # Absent => backups'[cmd.receipts[f].backup] = Absent
        BY <2>0, <2>1, <3>2, <4>1 DEF Shaped
      <4>4. QED
        BY <2>1, <3>3, <4>1, <4>2, <4>3 DEF UninstallMatched
    <3>5. UninstallMatched'
      BY <2>1, <2>2, <3>1, <3>3, <3>4 DEF UninstallMatched
    <3>6. QED
      BY <1>0, <2>1, <2>2, <3>5 DEF RootMatched
  <2>5. QED
    BY <2>1, <2>3, <2>4
<1>10. QED
  BY <1>1, <1>2, <1>3, <1>4, <1>5, <1>6, <1>7, <1>8, <1>9 DEF Uninstall

\* Nor do the others change what is restored.
LEMMA OtherMatches ==
  ASSUME Counted, Shaped, Working, RootMatched, InstallMatched, UninstallMatched,
         UndoFails \/ Environment \/ Replace
  PROVE  RootMatched' /\ InstallMatched' /\ UninstallMatched'
<1>1. CASE UndoFails
  <2>1. /\ cmd.pc = "undo" /\ cmd.todo # <<>> /\ CmdShaped(cmd)
        /\ cmd' = Advance([cmd EXCEPT !.failed = TRUE], "undone")
        /\ UNCHANGED <<disk, backups, root, service>>
    BY <1>1 DEF UndoFails, Working, fileVars, Shaped
  <2>2. PICK c : c = [cmd EXCEPT !.failed = TRUE]
    OBVIOUS
  <2>3. /\ CmdShaped(c) /\ c.todo = cmd.todo /\ c.pc = cmd.pc /\ c.kind = cmd.kind
        /\ c.id = cmd.id /\ c.prior = cmd.prior /\ c.receipts = cmd.receipts
        /\ c.original = cmd.original
    BY <2>1, <2>2 DEF CmdShaped, Idle
  <2>4. /\ Worked(Head(cmd.todo), "undone")
        /\ cmd'.receipts = cmd.receipts /\ cmd'.original = cmd.original
    BY <2>1, <2>2, <2>3, WorkedOff
  <2>5. cmd'.kind = cmd.kind /\ cmd'.pc \in {"undo", "undone"}
    BY <2>1, <2>4 DEF Worked
  <2>6. InstallMatched' /\ UninstallMatched'
    BY <2>1, <2>4, <2>5 DEF InstallMatched, UninstallMatched, Matches
  <2>7. QED
    BY <2>1, <2>6 DEF RootMatched, Matches
<1>2. CASE Crash
  BY <1>2, IdleShaped, RootKeeps
     DEF Crash, End, fileVars, RootMatched, InstallMatched, UninstallMatched
<1>3. CASE ServiceCommand \/ PickerInstall \/ UserRepairs
  <2>1. /\ cmd = Idle /\ cmd' = Idle /\ root # Absent /\ backups' = backups
        /\ root' = root \/ root' = [root EXCEPT !.picker = TRUE]
    BY <1>3 DEF ServiceCommand, PickerInstall, UserRepairs
  <2>2. root'.receipts = root.receipts /\ root'.original = root.original
    BY <2>1, RootFacts
  <2>3. QED
    BY <2>1, <2>2, IdleShaped, RootKeeps DEF InstallMatched, UninstallMatched
<1>4. CASE UserWrites \/ UserDeletes
  <2>1. UserMayEdit /\ UNCHANGED <<backups, root, service, cmd>>
    BY <1>4 DEF UserWrites, UserDeletes
  <2>2. InstallMatched' /\ UninstallMatched'
    BY <2>1 DEF UserMayEdit, InstallMatched, UninstallMatched, Matches
  <2>3. QED
    BY <2>1, <2>2 DEF RootMatched, Matches
<1>5. CASE Replace
  <2>1. UNCHANGED <<backups, root>> /\ cmd'.kind \in {"none", "replace"}
    BY <1>5, ReplaceFacts DEF Shaped
  <2>2. QED
    BY <2>1 DEF RootMatched, InstallMatched, UninstallMatched, Matches
<1>6. QED
  BY <1>1, <1>2, <1>3, <1>4, <1>5 DEF Environment

\* Every step keeps the invariant.
LEMMA StepMatches ==
  ASSUME MatchInv, Next
  PROVE  MatchInv'
<1>1. Counted /\ Shaped /\ Working /\ Counted'
  BY CountedKeeps DEF MatchInv
<1>2. Recoverable
  BY IdleShaped, MatchedRecoverable DEF MatchInv, Counted, Recoverable
<1>3. Shaped' /\ Working'
  BY <1>1, <1>2, InstallShaped, UninstallShaped, OtherShaped DEF Next, BridgeNext
<1>4. ASSUME outcome' # "rollback_failed"
      PROVE  RootMatched' /\ InstallMatched' /\ UninstallMatched'
  <2>1. RootMatched /\ InstallMatched /\ UninstallMatched
    BY <1>1, <1>4, NoCommandAfter DEF MatchInv
  <2>2. CASE Install
    BY <1>1, <1>4, <2>1, <2>2, InstallMatches
  <2>3. CASE Uninstall
    BY <1>1, <2>1, <2>3, UninstallMatches
  <2>4. CASE UndoFails \/ Environment \/ Replace
    BY <1>1, <2>1, <2>4, OtherMatches
  <2>5. QED
    BY <2>2, <2>3, <2>4 DEF Next, BridgeNext
<1>5. QED
  BY <1>1, <1>3, <1>4 DEF MatchInv

\* And so does no step.
LEMMA StutterMatches ==
  ASSUME MatchInv, UNCHANGED vars
  PROVE  MatchInv'
BY DEF MatchInv, vars, Counted, Shaped, Working, RootMatched, InstallMatched, UninstallMatched,
       Matches

\* A command ends with one of its own last steps, or it dies.
LEMMA EndsItself ==
  ASSUME Shaped, Working, Next, cmd.kind \in {"install", "uninstall"}, cmd' = Idle,
         outcome' # "crashed"
  PROVE  \/ /\ cmd.kind = "install"
            /\ PrepareRefused \/ PrepareFails \/ SyncRoot \/ UndoRoot \/ UndoRootFails
         \/ cmd.kind = "uninstall" /\ (StopFails \/ Finish \/ Restart)
<1>1. cmd # Idle /\ cmd'.kind = "none" /\ cmd.kind # "none" /\ cmd.kind # "replace"
  BY IdleShaped
<1>2. ~Replace
  BY <1>1 DEF Ready, Replacing, At, Replace, BeginReplace, Stage, StageFails, Shutdown,
              ShutdownFails, SwapBinary, SetLauncherAside, SwapLauncher, SwapFails, VerifyPair,
              VerifyFails, Start, StartFails, Doctor, CleanUp, RollbackStop, RollbackStopFails,
              RollbackPair, RollbackPairFails, RollbackStart
<1>3. ~Environment
  BY <1>1 DEF Environment, Crash, ServiceCommand, PickerInstall, UserWrites, UserDeletes,
              UserRepairs, End
<1>4. ~UndoFails
  <2>1. SUFFICES ASSUME UndoFails PROVE FALSE
    OBVIOUS
  <2>2. /\ cmd.todo # <<>> /\ CmdShaped(cmd)
        /\ cmd' = Advance([cmd EXCEPT !.failed = TRUE], "undone")
    BY <2>1 DEF UndoFails, Working, Shaped
  <2>3. PICK c : c = [cmd EXCEPT !.failed = TRUE]
    OBVIOUS
  <2>4. CmdShaped(c) /\ c.todo # <<>> /\ c.kind = cmd.kind
    BY <2>2, <2>3 DEF CmdShaped, Idle
  <2>5. cmd'.kind = cmd.kind
    BY <2>2, <2>3, <2>4, Advanced
  <2>6. QED
    BY <1>1, <2>5
<1>5. CASE Install
  <2>1. ~BeginInstall
    BY <1>1 DEF BeginInstall, Ready
  <2>2. ~Prepare
    <3>1. Prepare => cmd.kind = "install" /\ \E f : Worked(f, "manifest")
      BY PrepareGoes DEF Prepare, At
    <3>2. QED
      BY <1>1, <3>1 DEF Worked
  <2>3. QED
    BY <1>1, <1>5, <2>1, <2>2, InstallGoes
<1>6. CASE Uninstall
  <2>1. ~BeginUninstall
    BY <1>1 DEF BeginUninstall, Ready
  <2>2. QED
    BY <1>1, <1>6, <2>1, UninstallGoes
<1>7. QED
  BY <1>2, <1>3, <1>4, <1>5, <1>6 DEF Next, BridgeNext

\* Only the end of an uninstall that has removed everything reports success.
LEMMA FinishRestores ==
  ASSUME MatchInv, Next, Ends("uninstall", "ok")
  PROVE  /\ disk' = cmd.original
         /\ root' = Absent /\ service' = "not_loaded"
         /\ \A f \in Targets : cmd.receipts[f] # Absent =>
              backups'[cmd.receipts[f].backup] = Absent
<1>1. /\ Counted /\ Shaped /\ Working /\ UninstallMatched
      /\ cmd.kind = "uninstall" /\ cmd' = Idle /\ outcome' = "ok"
  <2>1. cmd.kind = "uninstall" /\ cmd' = Idle /\ outcome' = "ok"
    BY DEF Ends
  <2>2. outcome # "rollback_failed"
    BY <2>1, NotReported DEF MatchInv
  <2>3. QED
    BY <2>1, <2>2 DEF MatchInv
<1>2. Finish
  <2>1. ~StopFails /\ ~Restart
    BY <1>1 DEF StopFails, Restart, End, Report
  <2>2. QED
    BY <1>1, <2>1, EndsItself
<1>3. PICK r : r = cmd.receipts[Head(cmd.todo)]
  OBVIOUS
<1>4. /\ cmd.pc = "finish" /\ cmd.todo # <<>> /\ CmdShaped(cmd)
      /\ backups' = IF r = Absent THEN backups ELSE [backups EXCEPT ![r.backup] = Absent]
      /\ UNCHANGED <<disk, root, service>>
  BY <1>1, <1>2, <1>3 DEF Finish, At, Working, Shaped
<1>5. Len(cmd.todo) = 1
  <2>1. SUFFICES ASSUME Len(cmd.todo) # 1 PROVE FALSE
    OBVIOUS
  <2>2. cmd' = Advance(cmd, "finish")
    BY <1>2, <2>1 DEF Finish
  <2>3. cmd'.kind = cmd.kind
    BY <1>4, <2>2, Advanced
  <2>4. QED
    BY <1>1, <2>3, IdleShaped
<1>6. PICK f \in Targets : f = Head(cmd.todo) /\ Left(cmd.todo) = {f}
  <2>1. Tail(cmd.todo) = <<>> /\ Head(cmd.todo) \in Targets
    BY <1>4, <1>5, TodoFacts DEF CmdShaped
  <2>2. Left(cmd.todo) = Left(<<>>) \cup {Head(cmd.todo)}
    BY <1>4, <2>1, TodoFacts DEF CmdShaped
  <2>3. Left(<<>>) = {}
    BY DEF Left
  <2>4. QED
    BY <2>1, <2>2, <2>3
<1>7. disk = cmd.original
  BY <1>1, <1>4 DEF UninstallMatched, Shaped, CmdShaped
<1>8. ASSUME NEW g \in Targets, cmd.receipts[g] # Absent
      PROVE  backups'[cmd.receipts[g].backup] = Absent
  <2>1. cmd.receipts[g].backup \in BackupIds
    BY <1>4, <1>8 DEF CmdShaped, Recorded, Records
  <2>2. CASE g = f
    BY <1>3, <1>4, <1>6, <1>8, <2>1, <2>2, <1>1 DEF Shaped
  <2>3. CASE g # f
    <3>1. backups[cmd.receipts[g].backup] = Absent
      BY <1>1, <1>4, <1>6, <1>8, <2>3 DEF UninstallMatched
    <3>2. QED
      BY <1>1, <1>4, <2>1, <3>1 DEF Shaped
  <2>4. QED
    BY <2>2, <2>3
<1>9. QED
  BY <1>1, <1>4, <1>7, <1>8 DEF UninstallMatched

\* An uninstall that reports success has put back what the installation found, has left
\* no backup of it and no service, whatever failed before and in earlier commands
\* (RestorePlan of lifecycle.rs; uninstall_command of main.rs).
THEOREM UninstallRestoresHolds == Spec => UninstallRestores
<1>1. Init => MatchInv
  <2>1. SUFFICES ASSUME Init PROVE MatchInv
    OBVIOUS
  <2>2. cmd = Idle /\ root = Absent
    BY <2>1 DEF Init
  <2>3. QED
    BY <2>1, <2>2, InitShaped, IdleShaped
       DEF MatchInv, RootMatched, InstallMatched, UninstallMatched
<1>2. MatchInv /\ [Next]_vars => MatchInv'
  BY StepMatches, StutterMatches
<1>3. MatchInv /\ [Next]_vars =>
        [Ends("uninstall", "ok") =>
           /\ disk' = cmd.original
           /\ root' = Absent /\ service' = "not_loaded"
           /\ \A f \in Targets : cmd.receipts[f] # Absent =>
                backups'[cmd.receipts[f].backup] = Absent]_vars
  BY FinishRestores
<1>4. QED
  BY <1>1, <1>2, <1>3, PTL DEF Spec, UninstallRestores

-----------------------------------------------------------------------------
(* What the service runs.                                                   *)

\* No failure happened that leaves the bridge's files without its root.
Calm == Undoable /\ "crash" \notin count.kinds

Foreign(f) == disk[f] # Absent => disk[f].text.by = "user"

\* Without an installation the two files are the user's; so is what is backed up.
Untouched ==
  /\ \A b \in BackupIds : backups[b] # Absent => backups[b].by = "user"
  /\ root = Absent /\ (cmd.kind # "install" \/ cmd.pc \in {"prepare", "manifest"}) =>
       \A f \in Targets : Foreign(f)
  /\ cmd.kind = "install" /\ cmd.pc = "sync" => root # Absent

\* An installation begins without a service, an uninstall stops it before anything goes.
Behind ==
  /\ service = "loaded" => root # Absent /\ bin["binary"] # Absent
  /\ cmd.kind = "install" => service # "loaded"
  /\ cmd.kind = "uninstall" =>
       /\ cmd.pc \notin {"finish", "restart"} => root # Absent
       /\ root # Absent => bin["binary"] # Absent

\* The invariant of the service: it needs those of the files and of the runtimes.
BehindInv ==
  /\ IInv /\ MatchInv /\ PairInv
  /\ Calm => Behind /\ (outcome # "rollback_failed" => Untouched)

\* What was found was the user's, if every backup is.
LEMMA OriginalForeign ==
  ASSUME Untouched, NEW receipts, NEW original, Recorded(receipts), NEW f \in Targets,
         original[f] \in Files \cup {Absent},
         Matches(receipts, original, f), disk[f] = original[f]
  PROVE  Foreign(f)
<1>1. CASE original[f] = Absent
  BY <1>1 DEF Foreign
<1>2. CASE original[f] # Absent
  <2>1. /\ receipts[f] \in Records
        /\ original[f] = [text |-> backups[receipts[f].backup], mode |-> receipts[f].mode]
    BY <1>2 DEF Matches, Recorded
  <2>2. PICK t : t = backups[receipts[f].backup]
    OBVIOUS
  <2>3. t # Absent => t.by = "user"
    BY <2>1, <2>2 DEF Untouched, Records
  <2>4. disk[f].text = t /\ t # Absent
    BY <1>2, <2>1, <2>2, TextsAbsent DEF Files
  <2>5. QED
    BY <2>3, <2>4 DEF Foreign
<1>3. QED
  BY <1>1, <1>2

\* The steps of install.
LEMMA InstallBehind ==
  ASSUME Counted, Shaped, Working, Installing, InstallMatched, Untouched, Behind, Install
  PROVE  Behind' /\ (outcome' # "rollback_failed" => Untouched')
<1>1. Behind'
  <2>1. service # "loaded"
    <3>1. CASE BeginInstall
      BY <3>1 DEF BeginInstall, Installable, Behind
    <3>2. CASE ~BeginInstall
      BY <3>2 DEF Behind, Install, Prepare, PrepareRefused, PrepareFails, WriteManifest,
                  WriteTarget, WriteTargetFails, RenameRoot, SyncRoot, RenameFails, UndoTarget,
                  UndoRoot, UndoRootFails, At
    <3>3. QED
      BY <3>1, <3>2
  <2>2. service' = service
    BY AbandonFacts, UndoRootFacts
       DEF Install, BeginInstall, Prepare, WriteManifest, WriteTarget, WriteTargetFails,
           RenameRoot, SyncRoot, RenameFails, UndoTarget, fileVars
  <2>3. cmd'.kind # "uninstall"
    BY KindKept DEF Shaped, CmdShaped
  <2>4. QED
    BY <2>1, <2>2, <2>3 DEF Behind
<1>2. ASSUME outcome' # "rollback_failed" PROVE Untouched'
  <2>1. CASE BeginInstall
    <3>1. /\ root = Absent /\ cmd = Idle /\ UNCHANGED <<disk, backups, root>>
          /\ cmd' = [Idle EXCEPT !.kind = "install", !.pc = "prepare", !.id = count.installs + 1,
                                 !.todo = <<"profile", "agent">>]
      BY <2>1 DEF BeginInstall, Installable, Ready
    <3>2. cmd'.pc = "prepare"
      BY <3>1 DEF Idle
    <3>3. QED
      BY <3>1, <3>2, IdleShaped DEF Untouched, Foreign
  <2>2. CASE Prepare
    <3>1. PICK f \in Targets :
             /\ Worked(f, "manifest")
             /\ \/ backups' = backups
                \/ disk[f] # Absent /\ \E b \in FreshIds : backups' = [backups EXCEPT ![b] = disk[f].text]
      BY <2>2, PrepareGoes
    <3>2. /\ cmd.kind = "install" /\ cmd.pc = "prepare" /\ root = Absent /\ UNCHANGED <<disk, root>>
      BY <2>2 DEF Prepare, At, InstallMatched
    <3>3. Foreign(f)
      BY <3>2 DEF Untouched
    <3>4. \A b \in BackupIds : backups'[b] \in {backups[b]} \cup
                                 (IF disk[f] = Absent THEN {} ELSE {disk[f].text})
      BY <3>1 DEF Shaped
    <3>5. \A b \in BackupIds : backups'[b] # Absent => backups'[b].by = "user"
      BY <3>3, <3>4 DEF Untouched, Foreign
    <3>6. cmd'.pc \in {"prepare", "manifest"}
      BY <3>1, <3>2 DEF Worked
    <3>7. QED
      BY <3>2, <3>5, <3>6 DEF Untouched, Foreign
  <2>3. CASE PrepareRefused \/ PrepareFails
    <3>1. /\ cmd' = Idle /\ SomeGone /\ UNCHANGED <<disk, root>>
          /\ root = Absent /\ cmd.pc \in {"prepare", "manifest"}
      BY <2>3, AbandonFacts DEF InstallMatched
    <3>2. \A b \in BackupIds : backups'[b] \in {backups[b], Absent}
      BY <3>1 DEF SomeGone
    <3>3. QED
      BY <3>1, <3>2, IdleShaped DEF Untouched, Foreign
  <2>4. CASE /\ ~BeginInstall /\ ~Prepare /\ ~PrepareRefused /\ ~PrepareFails /\ ~RenameRoot
             /\ ~SyncRoot /\ ~UndoRoot /\ ~UndoRootFails
    <3>1. backups' = backups
      BY <2>4 DEF Install, WriteManifest, WriteTarget, WriteTargetFails, RenameFails, UndoTarget,
                  fileVars
    <3>2. cmd'.kind = "install" /\ cmd'.pc \notin {"prepare", "manifest", "sync"}
      BY <2>4, InstallGoes
    <3>3. QED
      BY <3>1, <3>2 DEF Untouched
  <2>5. CASE RenameRoot
    <3>1. /\ cmd.kind = "install" /\ cmd' = [cmd EXCEPT !.pc = "sync"] /\ backups' = backups
          /\ root' = [install |-> cmd.id, receipts |-> cmd.receipts, original |-> cmd.original,
                      picker |-> FALSE, whole |-> TRUE]
      BY <2>5 DEF RenameRoot, At, Goto
    <3>2. cmd'.kind = "install" /\ cmd'.pc = "sync"
      BY <3>1 DEF Shaped, CmdShaped, Idle
    <3>3. root' \in Roots
      BY <3>1 DEF Roots, Shaped, CmdShaped, Recorded
    <3>4. QED
      BY <3>1, <3>2, <3>3, TextsAbsent DEF Untouched
  <2>6. CASE SyncRoot
    <3>1. /\ cmd' = Idle /\ UNCHANGED <<backups, root>> /\ root # Absent
      BY <2>6 DEF SyncRoot, At, End, fileVars, Untouched
    <3>2. QED
      BY <3>1, IdleShaped DEF Untouched
  <2>7. CASE UndoRoot
    <3>1. /\ cmd.kind = "install" /\ cmd.pc = "undone" /\ ~cmd.failed /\ cmd' = Idle
          /\ disk' = disk /\ SomeGone
      BY <1>2, <2>7, UndoRootFacts DEF Report
    <3>2. \A f \in Targets : disk[f] = cmd.original[f] /\ Matches(cmd.receipts, cmd.original, f)
      BY <3>1 DEF Installing, Found, InstallMatched
    <3>3. /\ Recorded(cmd.receipts)
          /\ \A f \in Targets : cmd.original[f] \in Files \cup {Absent}
      BY DEF Shaped, CmdShaped
    <3>4. \A f \in Targets : Foreign(f)
      BY <3>2, <3>3, OriginalForeign
    <3>5. \A b \in BackupIds : backups'[b] \in {backups[b], Absent}
      BY <3>1 DEF SomeGone
    <3>6. QED
      BY <3>1, <3>4, <3>5, IdleShaped DEF Untouched, Foreign
  <2>8. ~UndoRootFails
    BY <1>2 DEF UndoRootFails, End
  <2>9. QED
    BY <2>1, <2>2, <2>3, <2>4, <2>5, <2>6, <2>7, <2>8
<1>3. QED
  BY <1>1, <1>2

\* The steps of uninstall.
LEMMA UninstallBehind ==
  ASSUME Counted, Shaped, Working, RootMatched, UninstallMatched, Untouched, Behind, Undoable',
         Uninstall
  PROVE  Behind' /\ Untouched'
<1>1. CASE BeginUninstall
  <2>1. /\ root # Absent /\ bin["binary"] # Absent
        /\ UNCHANGED <<disk, backups, root, bin, service>>
        /\ cmd' = [Idle EXCEPT !.kind = "uninstall", !.pc = "stop", !.id = root.install,
                               !.receipts = root.receipts, !.original = root.original,
                               !.prior = service]
    BY <1>1 DEF BeginUninstall, Accepted, DoctorPasses, ManifestValid, BinaryInstalled, fileVars
  <2>2. cmd'.kind = "uninstall" /\ cmd'.pc = "stop"
    BY <2>1 DEF Idle
  <2>3. QED
    BY <2>1, <2>2 DEF Behind, Untouched
<1>2. ASSUME cmd.kind = "uninstall", cmd'.kind = "uninstall", service' = "not_loaded",
             backups' = backups, bin' = bin,
             (root # Absent /\ root' # Absent) \/ UNCHANGED <<root, disk>>,
             cmd'.pc \in {"finish", "restart"} \/ cmd.pc \notin {"finish", "restart"}
      PROVE  Behind' /\ Untouched'
  BY <1>2 DEF Behind, Untouched, Foreign
<1>3. CASE StopService \/ Validate \/ UninstallUndone \/ FinishFails \/ RemovePickerFails
  <2>1. /\ UNCHANGED <<disk, backups, root, bin>> /\ cmd.kind = "uninstall"
        /\ service' = "not_loaded"
    BY <1>3 DEF StopService, Validate, UninstallUndone, FinishFails, RemovePickerFails, At, fileVars,
                UninstallMatched
  <2>2. \/ cmd' = [cmd EXCEPT !.pc = "validate"] /\ cmd.pc = "stop"
        \/ cmd' = [cmd EXCEPT !.pc = "picker"] /\ cmd.pc = "validate"
        \/ cmd' = [cmd EXCEPT !.pc = "restart"]
    BY <1>3 DEF StopService, Validate, UninstallUndone, FinishFails, RemovePickerFails, Goto, At
  <2>3. cmd'.kind = "uninstall" /\ (cmd'.pc = "restart" \/ cmd.pc \in {"stop", "validate"})
    BY <2>1, <2>2 DEF Shaped, CmdShaped, Idle
  <2>4. QED
    BY <1>2, <2>1, <2>3
<1>4. CASE StopFails
  <2>1. /\ cmd' = Idle /\ UNCHANGED <<disk, backups, root, bin>>
        /\ service' \in {service, "not_loaded"} /\ root # Absent
    BY <1>4 DEF StopFails, End, At, UninstallMatched
  <2>2. QED
    BY <2>1, IdleShaped DEF Behind, Untouched, Foreign
<1>5. CASE RemovePicker
  <2>1. /\ cmd.kind = "uninstall" /\ cmd.pc = "picker" /\ root # Absent
        /\ root' = [root EXCEPT !.picker = FALSE] /\ UNCHANGED <<disk, backups, bin>>
        /\ service' = "not_loaded"
        /\ cmd' = [cmd EXCEPT !.pc = "restore", !.todo = <<"profile", "agent">>]
    BY <1>5 DEF RemovePicker, At, UninstallMatched
  <2>2. cmd'.kind = "uninstall"
    BY <2>1 DEF Shaped, CmdShaped, Idle
  <2>3. root' # Absent
    BY <2>1, RootFacts
  <2>4. QED
    BY <1>2, <2>1, <2>2, <2>3
<1>6. CASE Restore
  <2>1. /\ cmd.kind = "uninstall" /\ cmd.pc = "restore" /\ cmd.todo # <<>> /\ CmdShaped(cmd)
        /\ cmd' = Advance([cmd EXCEPT !.changed = @ \cup {Head(cmd.todo)}], "tree")
        /\ UNCHANGED <<root, backups, bin>> /\ root # Absent /\ service' = "not_loaded"
    BY <1>6 DEF Restore, At, Working, Shaped, UninstallMatched
  <2>2. PICK c : c = [cmd EXCEPT !.changed = @ \cup {Head(cmd.todo)}]
    OBVIOUS
  <2>3. /\ CmdShaped(c) /\ c.todo = cmd.todo /\ c.pc = cmd.pc /\ c.kind = cmd.kind
        /\ c.id = cmd.id /\ c.prior = cmd.prior
    BY <2>1, <2>2, CmdFields, HeadTarget DEF Idle
  <2>4. Worked(Head(cmd.todo), "tree")
    BY <2>1, <2>2, <2>3, WorkedOff
  <2>5. QED
    BY <1>2, <2>1, <2>4 DEF Worked
<1>7. CASE RestoreFails \/ RemoveTreeFails
  <2>1. /\ cmd.kind = "uninstall" /\ cmd.pc \in {"restore", "tree"} /\ cmd' = Undoing(cmd)
        /\ UNCHANGED <<backups, bin, root>> /\ service' = "not_loaded" /\ root # Absent
    BY <1>7, FaultFacts DEF RestoreFails, RemoveTreeFails, At, UninstallMatched
  <2>2. cmd'.kind = "uninstall"
    BY <2>1, Undone DEF Shaped
  <2>3. QED
    BY <1>2, <2>1, <2>2
<1>8. CASE RemoveTree
  <2>1. /\ cmd.kind = "uninstall" /\ cmd.pc = "tree" /\ root' = Absent /\ service' = "not_loaded"
        /\ UNCHANGED <<disk, backups>>
        /\ cmd' = [cmd EXCEPT !.pc = "finish", !.todo = <<"profile", "agent">>]
    BY <1>8 DEF RemoveTree, At, UninstallMatched
  <2>2. cmd'.kind = "uninstall" /\ cmd'.pc = "finish"
    BY <2>1 DEF Shaped, CmdShaped, Idle
  <2>3. \A f \in Targets : /\ disk[f] = cmd.original[f] /\ Matches(cmd.receipts, cmd.original, f)
                           /\ cmd.original[f] \in Files \cup {Absent}
    BY <2>1 DEF UninstallMatched, RootMatched, Shaped, CmdShaped
  <2>4. Recorded(cmd.receipts)
    BY DEF Shaped, CmdShaped
  <2>5. \A f \in Targets : Foreign(f)
    BY <2>3, <2>4, OriginalForeign
  <2>6. QED
    BY <2>1, <2>2, <2>5 DEF Behind, Untouched, Foreign
<1>9. CASE UndoRestore
  <2>1. /\ cmd.kind = "uninstall" /\ cmd.pc = "undo" /\ cmd.todo # <<>> /\ CmdShaped(cmd)
        /\ cmd' = Advance(cmd, "undone") /\ UNCHANGED <<root, backups, bin>>
        /\ service' = "not_loaded" /\ root # Absent
    BY <1>9 DEF UndoRestore, At, Working, Shaped, UninstallMatched, Behind
  <2>2. Worked(Head(cmd.todo), "undone")
    BY <2>1, WorkedOff
  <2>3. QED
    BY <1>2, <2>1, <2>2 DEF Worked
<1>10. CASE Finish
  <2>0. PICK r : r = cmd.receipts[Head(cmd.todo)]
    OBVIOUS
  <2>1. /\ cmd.kind = "uninstall" /\ cmd.pc = "finish" /\ cmd.todo # <<>> /\ CmdShaped(cmd)
        /\ backups' = IF r = Absent THEN backups ELSE [backups EXCEPT ![r.backup] = Absent]
        /\ UNCHANGED <<disk, root, bin>> /\ service' = "not_loaded"
        /\ cmd' = Idle \/ cmd' = Advance(cmd, "finish")
    BY <1>10, <2>0 DEF Finish, At, Working, End, Shaped, UninstallMatched
  <2>2. \A b \in BackupIds : backups'[b] \in {backups[b], Absent}
    BY <2>1 DEF Shaped
  <2>3. cmd'.kind = "none" \/ (cmd'.kind = "uninstall" /\ cmd'.pc = "finish")
    <3>1. CASE cmd' = Advance(cmd, "finish")
      BY <2>1, <3>1, WorkedOff DEF Worked
    <3>2. QED
      BY <2>1, <3>1, IdleShaped
  <2>4. QED
    BY <2>1, <2>2, <2>3 DEF Behind, Untouched, Foreign
<1>11. CASE Restart
  <2>1. /\ cmd.kind = "uninstall" /\ cmd.pc = "restart" /\ cmd' = Idle
        /\ UNCHANGED <<disk, backups, root, bin>>
        /\ (service' = service /\ service = "not_loaded") \/ Startable
    BY <1>11 DEF Restart, StartRefused, At, End, UninstallMatched
  <2>2. Startable => root # Absent
    <3>1. SUFFICES ASSUME disk["agent"] = Installed("agent", 0), root = Absent PROVE FALSE
      BY DEF Startable
    <3>2. Installed("agent", 0) # Absent /\ Installed("agent", 0).text.by = "bridge"
      BY InstalledFile, TextsAbsent
    <3>3. Foreign("agent")
      BY <2>1, <3>1 DEF Untouched, Targets
    <3>4. QED
      BY <3>1, <3>2, <3>3 DEF Foreign
  <2>3. QED
    BY <2>1, <2>2, IdleShaped DEF Behind, Untouched, Foreign
<1>12. QED
  BY <1>1, <1>3, <1>4, <1>5, <1>6, <1>7, <1>8, <1>9, <1>10, <1>11 DEF Uninstall

\* A replacement needs a root and a binary, and leaves both.
LEMMA ReplaceBehind ==
  ASSUME Shaped, PairInv, Replace
  PROVE  root' # Absent /\ bin'["binary"] # Absent
<1>1. root' = root
  BY ReplaceFacts DEF Shaped
<1>2. CASE BeginReplace
  BY <1>1, <1>2 DEF BeginReplace
<1>3. CASE ~BeginReplace
  <2>1. cmd.kind = "replace"
    BY <1>3 DEF Replace, Stage, StageFails, Shutdown, ShutdownFails, SwapBinary, SetLauncherAside,
              SwapLauncher, SwapFails, VerifyPair, VerifyFails, Start, StartFails, Doctor, CleanUp,
              RollbackStop, RollbackStopFails, RollbackPair, RollbackPairFails, RollbackStart,
              Replacing, At
  <2>2. root # Absent /\ bin["binary"] # Absent /\ DOMAIN bin = Runtimes /\ Whole
    BY <2>1 DEF PairInv, Whole, Replacement
  <2>3. CASE cmd'.kind = "replace"
    BY <2>3, StepExchange DEF PairInv, Replacement, Next
  <2>4. CASE cmd'.kind # "replace"
    <3>1. ~(\E pc : Goto(pc)) /\ ~Fails /\ ~Shutdown /\ ~ShutdownFails /\ ~SwapBinary
          /\ ~SetLauncherAside
      BY <2>1, <2>2, <2>4, ReplaceCommands DEF Goes
    <3>2. Doctor \/ CleanUp \/ RollbackStopFails \/ RollbackPairFails \/ RollbackStart
      BY <1>3, <3>1 DEF Replace, Stage, StageFails, SwapLauncher, SwapFails, VerifyPair,
                        VerifyFails, Start, StartFails, RollbackStop, RollbackPair
    <3>3. RollbackPairFails => bin'["binary"] \in {bin["binary"], bin["oldBinary"]}
                                /\ bin["oldBinary"] # Absent
      BY <2>1, <2>2 DEF PairInv, Replacement, Swapped, OldPair, RollbackPairFails, Replacing, At,
                        Runtimes
    <3>4. RollbackPairFails \/ bin'["binary"] = bin["binary"]
      BY <2>2, <3>2 DEF Doctor, CleanUp, RollbackStopFails, RollbackStart, StagedGone, Runtimes
    <3>5. QED
      BY <1>1, <2>2, <3>3, <3>4
  <2>5. QED
    BY <2>3, <2>4
<1>4. QED
  BY <1>2, <1>3

\* The steps of the others.
LEMMA OtherBehind ==
  ASSUME Counted, Shaped, Working, PairInv, Behind, outcome # "rollback_failed" => Untouched, Calm',
         UndoFails \/ Environment \/ Replace
  PROVE  Behind' /\ (outcome' # "rollback_failed" => Untouched')
<1>1. outcome' # "rollback_failed" => Untouched
  BY NoCommandAfter DEF Next, BridgeNext
<1>2. CASE UndoFails
  <2>1. /\ cmd.pc = "undo" /\ cmd.todo # <<>> /\ CmdShaped(cmd)
        /\ cmd' = Advance([cmd EXCEPT !.failed = TRUE], "undone")
        /\ UNCHANGED <<disk, backups, root, bin, service>>
    BY <1>2 DEF UndoFails, Working, fileVars, Shaped
  <2>2. PICK c : c = [cmd EXCEPT !.failed = TRUE]
    OBVIOUS
  <2>3. /\ CmdShaped(c) /\ c.todo = cmd.todo /\ c.pc = cmd.pc /\ c.kind = cmd.kind
        /\ c.id = cmd.id /\ c.prior = cmd.prior
    BY <2>1, <2>2 DEF CmdShaped, Idle
  <2>4. Worked(Head(cmd.todo), "undone")
    BY <2>1, <2>2, <2>3, WorkedOff
  <2>5. cmd'.kind = cmd.kind /\ cmd'.pc \in {"undo", "undone"}
    BY <2>1, <2>4 DEF Worked
  <2>6. QED
    BY <1>1, <2>1, <2>5 DEF Behind, Untouched, Foreign
<1>3. CASE Crash
  BY <1>3, FaultsKept DEF Crash, Calm, Excepted
<1>4. CASE ServiceCommand \/ PickerInstall
  <2>1. /\ cmd = Idle /\ cmd' = Idle /\ root # Absent /\ UNCHANGED <<disk, backups, bin>>
        /\ root' = root \/ root' = [root EXCEPT !.picker = TRUE]
        /\ bin["binary"] # Absent \/ service' = service
    BY <1>4 DEF ServiceCommand, PickerInstall
  <2>2. root' # Absent
    BY <2>1, RootFacts
  <2>3. QED
    BY <1>1, <2>1, <2>2, IdleShaped DEF Behind, Untouched
<1>5. CASE UserWrites \/ UserDeletes \/ UserRepairs
  <2>1. UNCHANGED <<backups, root, bin, service, cmd>>
    BY <1>5 DEF UserWrites, UserDeletes, UserRepairs
  <2>2. ASSUME Untouched, root = Absent, NEW f \in Targets, Foreign(f) PROVE Foreign(f)'
    <3>1. ~UserRepairs
      BY <2>2 DEF UserRepairs
    <3>2. CASE UserWrites
      <4>1. PICK g \in Targets, mode \in {"private", "public"} :
              disk' = [disk EXCEPT ![g] = [text |-> [by |-> "user", n |-> count.edits], mode |-> mode]]
        BY <3>2 DEF UserWrites
      <4>2. QED
        BY <2>2, <4>1 DEF Foreign, Shaped
    <3>3. CASE UserDeletes
      BY <2>2, <3>3 DEF UserDeletes, Foreign, Shaped
    <3>4. QED
      BY <1>5, <3>1, <3>2, <3>3
  <2>3. QED
    BY <1>1, <2>1, <2>2 DEF Behind, Untouched
<1>6. CASE Replace
  <2>1. UNCHANGED <<disk, backups, root>> /\ cmd'.kind \in {"none", "replace"}
    BY <1>6, ReplaceFacts DEF Shaped
  <2>2. root' # Absent /\ bin'["binary"] # Absent
    BY <1>6, ReplaceBehind
  <2>3. QED
    BY <1>1, <2>1, <2>2 DEF Behind, Untouched
<1>7. QED
  BY <1>2, <1>3, <1>4, <1>5, <1>6 DEF Environment

\* Every step keeps the invariant.
LEMMA StepBehind ==
  ASSUME BehindInv, Next
  PROVE  BehindInv'
<1>1. IInv' /\ MatchInv' /\ PairInv'
  BY StepKeeps, StepMatches, StepExchange DEF BehindInv
<1>2. Counted /\ Shaped /\ Working /\ PairInv
  BY DEF BehindInv, MatchInv
<1>3. ASSUME Calm' PROVE Behind' /\ (outcome' # "rollback_failed" => Untouched')
  <2>1. Calm /\ Undoable'
    <3>1. BeginInstall \/ UserWrites \/ count' = count \/ (\E kind : Fault(kind))
      BY Reports
    <3>2. count.kinds \subseteq count'.kinds
      BY <1>2, <3>1, FaultsKept DEF BeginInstall, UserWrites, Counted
    <3>3. QED
      BY <1>3, <3>2 DEF Calm, Undoable
  <2>2. Behind /\ (outcome # "rollback_failed" => Untouched)
    BY <2>1 DEF BehindInv
  <2>3. ASSUME cmd.kind # "none" \/ Ready
        PROVE  /\ Untouched /\ RootMatched /\ InstallMatched /\ UninstallMatched /\ Installing
    <3>1. outcome # "rollback_failed"
      BY <1>2, <2>3, NotReported DEF Ready
    <3>2. QED
      BY <2>1, <2>2, <3>1 DEF BehindInv, MatchInv, IInv, Trusted, Calm
  <2>4. CASE Install
    <3>1. cmd.kind # "none" \/ Ready
      BY <2>4 DEF Install, BeginInstall, Prepare, PrepareRefused, PrepareFails, WriteManifest,
                  WriteTarget, WriteTargetFails, RenameRoot, SyncRoot, RenameFails, UndoTarget,
                  UndoRoot, UndoRootFails, At
    <3>2. QED
      BY <1>2, <2>2, <2>3, <2>4, <3>1, InstallBehind
  <2>5. CASE Uninstall
    <3>1. cmd.kind # "none" \/ Ready
      BY <2>5 DEF Uninstall, BeginUninstall, StopService, StopFails, Validate, RemovePicker,
                  RemovePickerFails, Restore, RestoreFails, RemoveTree, RemoveTreeFails,
                  UndoRestore, UninstallUndone, Finish, FinishFails, Restart, At
    <3>2. QED
      BY <1>2, <2>1, <2>2, <2>3, <2>5, <3>1, UninstallBehind
  <2>6. CASE UndoFails \/ Environment \/ Replace
    BY <1>2, <1>3, <2>2, <2>6, OtherBehind
  <2>7. QED
    BY <2>4, <2>5, <2>6 DEF Next, BridgeNext
<1>4. QED
  BY <1>1, <1>3 DEF BehindInv

\* Before the first command no service runs.
LEMMA InitBehind == Init => BehindInv
<1>1. SUFFICES ASSUME Init PROVE BehindInv
  OBVIOUS
<1>2. /\ cmd = Idle /\ root = Absent /\ service = "not_loaded" /\ DOMAIN bin = Runtimes
      /\ bin["binary"] = bin["launcher"]
  BY <1>1 DEF Init, NoRuntimes, Runtimes
<1>3. /\ \A b \in BackupIds : backups[b] = Absent
      /\ \A f \in Targets : disk[f] = Absent
  BY <1>1 DEF Init
<1>4. IInv /\ Counted /\ Shaped /\ Working
  BY <1>1, InitHolds, InitShaped
<1>5. PairInv
  BY <1>2, <1>4, IdleShaped DEF PairInv, Whole, Paired, Torn
<1>6. MatchInv
  BY <1>2, <1>4, IdleShaped DEF MatchInv, RootMatched, InstallMatched, UninstallMatched
<1>7. Behind /\ Untouched
  BY <1>2, <1>3, IdleShaped DEF Behind, Untouched, Foreign
<1>8. QED
  BY <1>4, <1>5, <1>6, <1>7 DEF BehindInv

\* And so does no step.
LEMMA StutterBehind ==
  ASSUME BehindInv, UNCHANGED vars
  PROVE  BehindInv'
<1>1. IInv' /\ MatchInv'
  BY StutterKeeps, StutterMatches DEF BehindInv
<1>2. PairInv'
  BY DEF BehindInv, vars, PairInv, Counted, Whole, Paired, Torn, Replacement, Swapped, OldPair, Served
<1>3. QED
  BY <1>1, <1>2 DEF BehindInv, vars, Calm, Undoable, Behind, Untouched, Foreign

\* A loaded service has its root and its binary, through any number of installations,
\* removals, replacements, restarts by hand and failures that are undone
\* (uninstall_command and replace_installed_runtime_if_needed of main.rs).
THEOREM RuntimeBehindServiceHolds == Spec => []RuntimeBehindService
<1>1. BehindInv /\ [Next]_vars => BehindInv'
  BY StepBehind, StutterBehind
<1>2. BehindInv => RuntimeBehindService
  BY DEF BehindInv, Calm, Behind, RuntimeBehindService
<1>3. QED
  BY <1>1, <1>2, InitBehind, PTL DEF Spec

-----------------------------------------------------------------------------
(* What a failed command leaves.                                            *)

\* A text the bridge wrote is of an installation that has begun, or of an earlier one
\* than the one that runs.
Recent(text) == text.by = "bridge" => text.n <= count.installs
Earlier(text) == text.by = "bridge" => text.n < count.installs

Dated ==
  /\ \A f \in Targets : disk[f] # Absent => Recent(disk[f].text)
  /\ \A b \in BackupIds : backups[b] # Absent => Recent(backups[b])
  /\ root # Absent => root.install <= count.installs
  /\ cmd.kind = "uninstall" => cmd.id <= count.installs
  /\ cmd.kind = "install" =>
       /\ cmd.id = count.installs /\ cmd.id # 0
       /\ \A f \in Targets :
            /\ cmd.original[f] # Absent => Earlier(cmd.original[f].text)
            /\ cmd.pc \in {"prepare", "manifest"} /\ disk[f] # Absent => Earlier(disk[f].text)

\* An uninstall that gives up puts back what it has changed, unless everything but a
\* backup is gone.
PuttingBack ==
  cmd.kind = "uninstall" =>
    /\ cmd.pc \in {"stop", "validate", "picker"} => cmd.changed = {}
    /\ cmd.pc \in {"undo", "undone"} => root # Absent
    /\ \A f \in cmd.changed :
         /\ cmd.pc = "undo" /\ f \notin Left(cmd.todo) => cmd.failed \/ disk[f] = Installed(f, cmd.id)
         /\ cmd.pc = "undone" => cmd.failed \/ disk[f] = Installed(f, cmd.id)
         /\ cmd.pc = "restart" /\ root # Absent => cmd.failed \/ disk[f] = Installed(f, cmd.id)
    /\ cmd.pc = "restart" /\ root = Absent => disk = cmd.original

\* The invariant of the failures: it needs that of the files.
UndoneInv == IInv /\ MatchInv /\ (Trusted => Dated /\ PuttingBack)

\* What the bridge installs is of this installation, or has no date.
LEMMA InstalledText ==
  ASSUME NEW f, NEW n \in Nat
  PROVE  /\ Installed(f, n).text.by = "bridge"
         /\ Installed(f, n).text.n \in {0, n}
BY DEF Installed

\* Only an installation that begins is counted.
LEMMA InstallsKept ==
  ASSUME Counted, Next
  PROVE  /\ ~BeginInstall => count'.installs = count.installs
         /\ BeginInstall => count'.installs = count.installs + 1
<1>1. BeginInstall \/ UserWrites \/ count' = count \/ (\E kind : Fault(kind))
  BY Reports
<1>2. BeginInstall => count'.installs = count.installs + 1
  BY DEF BeginInstall, Counted
<1>3. UserWrites => count'.installs = count.installs
  BY DEF UserWrites, Counted
<1>4. QED
  BY <1>1, <1>2, <1>3, FaultFacts

\* The files, the backups, the root and the command of a step that begins no installation.
LEMMA DatedKeeps ==
  ASSUME Dated, count'.installs = count.installs,
         \A f \in Targets : disk'[f] # Absent => Recent(disk'[f].text),
         \A b \in BackupIds : backups'[b] # Absent => Recent(backups'[b]),
         root' # Absent => root'.install <= count.installs,
         cmd'.kind = "uninstall" => cmd'.id <= count.installs,
         cmd'.kind = "install" =>
           /\ cmd.kind = "install" /\ cmd'.id = cmd.id /\ cmd'.original = cmd.original
           /\ cmd'.pc \notin {"prepare", "manifest"}
  PROVE  Dated'
BY DEF Dated, Recent, Earlier

\* One file is written, with a text that is not of a later installation.
LEMMA DatedWrite ==
  ASSUME Shaped, Dated, NEW f \in Targets, NEW file, disk' = [disk EXCEPT ![f] = file],
         file # Absent => Recent(file.text)
  PROVE  \A g \in Targets : disk'[g] # Absent => Recent(disk'[g].text)
BY DEF Shaped, Dated

\* The steps of install.
LEMMA InstallDates ==
  ASSUME Counted, Shaped, Working, InstallMatched, Dated, Undoable', Install
  PROVE  Dated' /\ PuttingBack'
<1>0. PuttingBack'
  <2>1. cmd'.kind # "uninstall"
    BY KindKept DEF Shaped, CmdShaped
  <2>2. QED
    BY <2>1 DEF PuttingBack
<1>1. CASE BeginInstall
  <2>1. /\ root = Absent /\ UNCHANGED <<disk, backups, root>>
        /\ count'.installs = count.installs + 1 /\ count.installs \in Nat
        /\ cmd' = [Idle EXCEPT !.kind = "install", !.pc = "prepare", !.id = count.installs + 1,
                               !.todo = <<"profile", "agent">>]
    BY <1>1 DEF BeginInstall, Installable, Counted
  <2>2. /\ cmd'.kind = "install" /\ cmd'.id = count.installs + 1 /\ cmd'.original = NoReceipts
    BY <2>1 DEF Idle
  <2>3. ASSUME NEW t \in Texts, Recent(t) PROVE Recent(t)' /\ Earlier(t)'
    BY <2>1, <2>3 DEF Recent, Earlier, Texts
  <2>4. \A f \in Targets : disk'[f] # Absent => Recent(disk[f].text)' /\ Earlier(disk[f].text)'
    BY <2>1, <2>3 DEF Dated, Shaped, Files
  <2>5. \A b \in BackupIds : backups'[b] # Absent => Recent(backups[b])'
    BY <2>1, <2>3 DEF Dated, Shaped
  <2>6. QED
    BY <1>0, <2>1, <2>2, <2>4, <2>5 DEF Dated, NoReceipts
<1>2. ~BeginInstall => count'.installs = count.installs
  BY InstallsKept DEF Next, BridgeNext
<1>3. CASE Prepare
  <2>1. PICK f \in Targets :
           /\ Worked(f, "manifest")
           /\ cmd'.original = [cmd.original EXCEPT ![f] = disk[f]]
           /\ \/ backups' = backups
              \/ disk[f] # Absent /\ \E b \in FreshIds : backups' = [backups EXCEPT ![b] = disk[f].text]
    BY <1>3, PrepareGoes
  <2>2. /\ cmd.kind = "install" /\ cmd.pc = "prepare" /\ UNCHANGED <<disk, root, count>>
    BY <1>3 DEF Prepare, At
  <2>3. \A g \in Targets : cmd'.original[g] = IF g = f THEN disk[f] ELSE cmd.original[g]
    BY <2>1 DEF Shaped, CmdShaped
  <2>4. \A b \in BackupIds : backups'[b] \in {backups[b]} \cup
                               (IF disk[f] = Absent THEN {} ELSE {disk[f].text})
    BY <2>1 DEF Shaped
  <2>5. /\ \A b \in BackupIds : backups'[b] # Absent => Recent(backups'[b])
        /\ \A g \in Targets : cmd'.original[g] # Absent => Earlier(cmd'.original[g].text)
    BY <2>2, <2>3, <2>4 DEF Dated
  <2>6. cmd'.kind = "install" /\ cmd'.id = cmd.id
    BY <2>1, <2>2 DEF Worked
  <2>7. QED
    BY <1>0, <2>2, <2>5, <2>6 DEF Dated, Recent, Earlier
<1>4. CASE ~BeginInstall /\ ~Prepare
  <2>1. /\ cmd.kind = "install"
        /\ \/ cmd' = Idle
           \/ /\ cmd'.kind = "install" /\ cmd'.id = cmd.id /\ cmd'.original = cmd.original
              /\ cmd'.pc \notin {"prepare", "manifest"}
    BY <1>4, InstallGoes
  <2>2. /\ cmd.id = count.installs /\ cmd.id \in Nat /\ CmdShaped(cmd)
    BY <2>1 DEF Dated, Shaped, CmdShaped
  <2>3. \A f \in Targets : disk'[f] # Absent => Recent(disk'[f].text)
    <3>1. CASE disk' = disk
      BY <3>1 DEF Dated
    <3>2. CASE WriteTarget
      <4>1. /\ Head(cmd.todo) \in Targets
            /\ disk' = [disk EXCEPT ![Head(cmd.todo)] = Installed(Head(cmd.todo), cmd.id)]
        BY <3>2, HeadTarget DEF WriteTarget, At, Working
      <4>2. Recent(Installed(Head(cmd.todo), cmd.id).text)
        BY <2>2, InstalledText DEF Recent
      <4>3. QED
        BY <4>1, <4>2, DatedWrite
    <3>3. CASE UndoTarget
      <4>1. /\ Head(cmd.todo) \in Targets
            /\ disk' = [disk EXCEPT ![Head(cmd.todo)] = cmd.original[Head(cmd.todo)]]
        BY <3>3, HeadTarget DEF UndoTarget, At, Working
      <4>2. ASSUME cmd.original[Head(cmd.todo)] # Absent
            PROVE  Recent(cmd.original[Head(cmd.todo)].text)
        <5>1. Earlier(cmd.original[Head(cmd.todo)].text)
          BY <2>1, <4>1, <4>2 DEF Dated
        <5>2. cmd.original[Head(cmd.todo)].text \in Texts
          BY <2>2, <4>1, <4>2 DEF CmdShaped, Files
        <5>3. QED
          BY <2>2, <5>1, <5>2 DEF Earlier, Recent, Texts
      <4>3. QED
        BY <4>1, <4>2, DatedWrite
    <3>4. disk' = disk \/ WriteTarget \/ UndoTarget
      BY <1>4, FaultFacts, AbandonFacts, UndoRootFacts
         DEF Install, WriteManifest, WriteTargetFails, RenameRoot, SyncRoot, RenameFails, fileVars
    <3>5. QED
      BY <3>1, <3>2, <3>3, <3>4
  <2>4. \A b \in BackupIds : backups'[b] # Absent => Recent(backups'[b])
    <3>1. backups' = backups \/ SomeGone
      BY <1>4, AbandonFacts, UndoRootFacts
         DEF Install, WriteManifest, WriteTarget, WriteTargetFails, RenameRoot, SyncRoot,
             RenameFails, UndoTarget, fileVars
    <3>2. \A b \in BackupIds : backups'[b] \in {backups[b], Absent}
      BY <3>1 DEF SomeGone
    <3>3. QED
      BY <3>2 DEF Dated
  <2>5. root' # Absent => root'.install <= count.installs
    <3>1. root' = root \/ root' = Absent \/ root'.install = cmd.id
      BY <1>4, AbandonFacts, UndoRootFacts
         DEF Install, WriteManifest, WriteTarget, WriteTargetFails, RenameRoot, SyncRoot,
             RenameFails, UndoTarget, fileVars
    <3>2. QED
      BY <2>2, <3>1 DEF Dated
  <2>6. Dated'
    BY <1>2, <1>4, <2>1, <2>3, <2>4, <2>5, IdleShaped, DatedKeeps
  <2>7. QED
    BY <1>0, <2>6
<1>5. QED
  BY <1>1, <1>3, <1>4

\* The steps of uninstall.
LEMMA UninstallDates ==
  ASSUME Counted, Shaped, Working, Recoverable, Dated, Undoable', Uninstall
  PROVE  Dated'
<1>1. count'.installs = count.installs
  <2>1. CASE ~BeginInstall
    BY <2>1, InstallsKept DEF Next, BridgeNext
  <2>2. CASE BeginInstall
    BY <2>2, KindKept, IdleShaped DEF BeginInstall, Idle, Shaped, CmdShaped
  <2>3. QED
    BY <2>1, <2>2
<1>2. /\ cmd'.kind = "uninstall" => cmd'.id <= count.installs
      /\ cmd'.kind # "install"
  <2>1. CASE BeginUninstall
    <3>1. /\ root # Absent
          /\ cmd' = [Idle EXCEPT !.kind = "uninstall", !.pc = "stop", !.id = root.install,
                                 !.receipts = root.receipts, !.original = root.original,
                                 !.prior = service]
      BY <2>1 DEF BeginUninstall, Accepted, DoctorPasses, ManifestValid
    <3>2. cmd'.kind = "uninstall" /\ cmd'.id = root.install
      BY <3>1 DEF Idle
    <3>3. QED
      BY <3>1, <3>2 DEF Dated
  <2>2. CASE ~BeginUninstall
    BY <2>2, UninstallGoes, IdleShaped DEF Dated
  <2>3. QED
    BY <2>1, <2>2
<1>3. \A f \in Targets : disk'[f] # Absent => Recent(disk'[f].text)
  <2>1. CASE disk' = disk
    BY <2>1 DEF Dated
  <2>2. CASE Restore
    <3>1. PICK f : f = Head(cmd.todo)
      OBVIOUS
    <3>2. f \in Targets /\ disk' = [disk EXCEPT ![f] = Previous(f)] /\ BackupsThere(cmd.receipts)
      BY <2>2, <3>1, HeadTarget DEF Restore, At, Working, Recoverable
    <3>3. ASSUME Previous(f) # Absent PROVE Recent(Previous(f).text)
      <4>1. cmd.receipts[f] # Absent /\ cmd.receipts[f] \in Records
        BY <3>2, <3>3 DEF Previous, Shaped, CmdShaped, Recorded
      <4>2. Previous(f).text = backups[cmd.receipts[f].backup]
        BY <4>1 DEF Previous
      <4>3. QED
        BY <3>2, <4>1, <4>2 DEF BackupsThere, Dated, Records
    <3>4. QED
      BY <3>2, <3>3, DatedWrite
  <2>3. CASE UndoRestore
    <3>1. /\ Head(cmd.todo) \in Targets /\ cmd.kind = "uninstall"
          /\ disk' = [disk EXCEPT ![Head(cmd.todo)] = Installed(Head(cmd.todo), cmd.id)]
      BY <2>3, HeadTarget DEF UndoRestore, At, Working
    <3>2. Recent(Installed(Head(cmd.todo), cmd.id).text)
      BY <3>1, InstalledText DEF Recent, Dated, Shaped, CmdShaped, Counted
    <3>3. QED
      BY <3>1, <3>2, DatedWrite
  <2>4. disk' = disk \/ Restore \/ UndoRestore
    BY FaultFacts DEF Uninstall, BeginUninstall, StopService, StopFails, Validate, RemovePicker,
           RemovePickerFails, RestoreFails, RemoveTree, RemoveTreeFails, UninstallUndone, Finish,
           FinishFails, Restart, fileVars
  <2>5. QED
    BY <2>1, <2>2, <2>3, <2>4
<1>4. \A b \in BackupIds : backups'[b] # Absent => Recent(backups'[b])
  <2>1. CASE backups' = backups
    BY <2>1 DEF Dated
  <2>2. CASE Finish
    <3>1. \A b \in BackupIds : backups'[b] \in {backups[b], Absent}
      BY <2>2 DEF Finish, Shaped
    <3>2. QED
      BY <3>1 DEF Dated
  <2>3. backups' = backups \/ Finish
    BY DEF Uninstall, BeginUninstall, StopService, StopFails, Validate, RemovePicker,
           RemovePickerFails, Restore, RestoreFails, RemoveTree, RemoveTreeFails, UndoRestore,
           UninstallUndone, FinishFails, Restart, fileVars
  <2>4. QED
    BY <2>1, <2>2, <2>3
<1>5. root' # Absent => root'.install <= count.installs
  <2>1. CASE RemovePicker
    <3>1. root # Absent /\ root' = [root EXCEPT !.picker = FALSE]
      BY <2>1 DEF RemovePicker, At, Recoverable
    <3>2. QED
      BY <3>1, RootFacts DEF Dated
  <2>2. CASE ~RemovePicker
    <3>1. root' = root \/ root' = Absent
      BY <2>2, FaultFacts DEF Uninstall, BeginUninstall, StopService, StopFails, Validate,
             RemovePickerFails, Restore, RestoreFails, RemoveTree, RemoveTreeFails, UndoRestore,
             UninstallUndone, Finish, FinishFails, Restart, fileVars
    <3>2. QED
      BY <3>1 DEF Dated
  <2>3. QED
    BY <2>1, <2>2
<1>6. QED
  BY <1>1, <1>2, <1>3, <1>4, <1>5, DatedKeeps

\* The steps of uninstall put back what they have changed.
LEMMA UninstallPuts ==
  ASSUME Counted, Shaped, Working, UninstallMatched, PuttingBack, Undoable', Uninstall
  PROVE  PuttingBack'
<1>1. CASE BeginUninstall
  <2>1. cmd' = [Idle EXCEPT !.kind = "uninstall", !.pc = "stop", !.id = root.install,
                            !.receipts = root.receipts, !.original = root.original,
                            !.prior = service]
    BY <1>1 DEF BeginUninstall
  <2>2. cmd'.pc = "stop" /\ cmd'.changed = {}
    BY <2>1 DEF Idle
  <2>3. QED
    BY <2>2 DEF PuttingBack
<1>2. CASE StopService \/ Validate \/ RemovePicker \/ RemovePickerFails
  <2>1. /\ cmd.kind = "uninstall" /\ cmd.pc \in {"stop", "validate", "picker"} /\ CmdShaped(cmd)
        /\ root' = root \/ root' = [root EXCEPT !.picker = FALSE]
    BY <1>2 DEF StopService, Validate, RemovePicker, RemovePickerFails, At, fileVars, Shaped
  <2>2. \/ \E pc \in {"validate", "picker", "restart"} : cmd' = [cmd EXCEPT !.pc = pc]
        \/ cmd' = [cmd EXCEPT !.pc = "restore", !.todo = <<"profile", "agent">>]
    BY <1>2 DEF StopService, Validate, RemovePicker, RemovePickerFails, Goto
  <2>3. cmd'.changed = cmd.changed /\ cmd'.pc \in {"validate", "picker", "restart", "restore"}
    BY <2>1, <2>2 DEF CmdShaped, Idle
  <2>4. root' # Absent /\ cmd.changed = {}
    BY <2>1, RootFacts DEF UninstallMatched, PuttingBack
  <2>5. QED
    BY <2>3, <2>4 DEF PuttingBack
<1>3. CASE Restore
  <2>1. /\ cmd.pc = "restore" /\ cmd.todo # <<>> /\ CmdShaped(cmd)
        /\ cmd' = Advance([cmd EXCEPT !.changed = @ \cup {Head(cmd.todo)}], "tree")
    BY <1>3 DEF Restore, At, Working, Shaped
  <2>2. PICK c : c = [cmd EXCEPT !.changed = @ \cup {Head(cmd.todo)}]
    OBVIOUS
  <2>3. /\ CmdShaped(c) /\ c.todo = cmd.todo /\ c.pc = cmd.pc /\ c.kind = cmd.kind
        /\ c.id = cmd.id /\ c.prior = cmd.prior
    BY <2>1, <2>2, CmdFields, HeadTarget DEF Idle
  <2>4. Worked(Head(cmd.todo), "tree")
    BY <2>1, <2>2, <2>3, WorkedOff
  <2>5. QED
    BY <2>1, <2>4 DEF Worked, PuttingBack
<1>4. CASE RestoreFails \/ RemoveTreeFails
  <2>1. /\ cmd.kind = "uninstall" /\ cmd.pc \in {"restore", "tree"} /\ CmdShaped(cmd)
        /\ cmd' = Undoing(cmd) /\ root' = root
    BY <1>4, FaultFacts DEF RestoreFails, RemoveTreeFails, At, Shaped
  <2>2. /\ Left(cmd'.todo) = IF "agent" \in cmd.changed THEN Targets ELSE cmd.changed
        /\ cmd'.pc \in {"undo", "undone"} /\ (cmd'.pc = "undone" => cmd'.todo = <<>>)
        /\ cmd'.changed = cmd.changed
    BY <2>1, Undone
  <2>3. root' # Absent /\ cmd.changed \subseteq Targets
    BY <2>1 DEF UninstallMatched, CmdShaped
  <2>4. Left(<<>>) = {} /\ Targets # {}
    BY DEF Left, Targets
  <2>5. cmd'.changed \subseteq Left(cmd'.todo) /\ (cmd'.pc = "undone" => cmd'.changed = {})
    BY <2>2, <2>3, <2>4
  <2>6. QED
    BY <2>2, <2>3, <2>5 DEF PuttingBack
<1>5. CASE RemoveTree
  <2>1. cmd'.pc = "finish"
    BY <1>5 DEF RemoveTree, Shaped, CmdShaped, Idle
  <2>2. QED
    BY <2>1 DEF PuttingBack
<1>6. CASE UndoRestore
  <2>0. PICK f : f = Head(cmd.todo)
    OBVIOUS
  <2>1. /\ cmd.kind = "uninstall" /\ cmd.pc = "undo" /\ cmd.todo # <<>> /\ CmdShaped(cmd)
        /\ disk' = [disk EXCEPT ![f] = Installed(f, cmd.id)]
        /\ cmd' = Advance(cmd, "undone") /\ root' = root
    BY <1>6, <2>0 DEF UndoRestore, At, Working, Shaped
  <2>2. /\ Worked(f, "undone") /\ cmd'.changed = cmd.changed /\ cmd'.failed = cmd.failed
    BY <2>0, <2>1, WorkedOff
  <2>3. /\ root' # Absent /\ cmd'.id = cmd.id /\ cmd.changed \subseteq Targets
        /\ Left(cmd'.todo) = Left(cmd.todo) \ {f}
        /\ (cmd'.pc = "undo" \/ (cmd'.pc = "undone" /\ Left(cmd'.todo) = {}))
    BY <2>1, <2>2 DEF PuttingBack, Worked, CmdShaped
  <2>4. \A g \in Targets : disk'[g] = IF g = f THEN Installed(f, cmd.id) ELSE disk[g]
    BY <2>1 DEF Shaped
  <2>5. \A g \in cmd'.changed :
          g \notin Left(cmd'.todo) => cmd'.failed \/ disk'[g] = Installed(g, cmd'.id)
    BY <2>1, <2>2, <2>3, <2>4 DEF PuttingBack
  <2>6. QED
    BY <2>3, <2>5 DEF PuttingBack
<1>7. CASE UninstallUndone
  <2>1. /\ cmd.kind = "uninstall" /\ cmd.pc = "undone" /\ UNCHANGED <<disk, root>>
        /\ cmd' = [cmd EXCEPT !.pc = "restart"] /\ CmdShaped(cmd)
    BY <1>7 DEF UninstallUndone, At, Goto, fileVars, Shaped
  <2>2. /\ cmd'.pc = "restart" /\ cmd'.changed = cmd.changed /\ cmd'.failed = cmd.failed
        /\ cmd'.id = cmd.id
    BY <2>1 DEF CmdShaped, Idle
  <2>3. root # Absent /\ \A f \in cmd.changed : cmd.failed \/ disk[f] = Installed(f, cmd.id)
    BY <2>1 DEF PuttingBack
  <2>4. \A f \in cmd'.changed : cmd'.failed \/ disk'[f] = Installed(f, cmd'.id)
    BY <2>1, <2>2, <2>3
  <2>5. QED
    BY <2>1, <2>2, <2>3, <2>4 DEF PuttingBack
<1>8. CASE Finish
  <2>1. /\ cmd.pc = "finish" /\ cmd.todo # <<>> /\ CmdShaped(cmd)
        /\ cmd' = Idle \/ cmd' = Advance(cmd, "finish")
    BY <1>8 DEF Finish, At, Working, End, Shaped
  <2>2. cmd' = Idle \/ Worked(Head(cmd.todo), "finish")
    BY <2>1, WorkedOff
  <2>3. QED
    BY <2>1, <2>2, IdleShaped DEF Worked, PuttingBack
<1>9. CASE FinishFails
  <2>1. /\ cmd.kind = "uninstall" /\ cmd.pc = "finish" /\ UNCHANGED <<disk, root>>
        /\ cmd' = [cmd EXCEPT !.pc = "restart"] /\ CmdShaped(cmd)
    BY <1>9 DEF FinishFails, At, Goto, fileVars, Shaped
  <2>2. cmd'.pc = "restart" /\ cmd'.original = cmd.original
    BY <2>1 DEF CmdShaped, Idle
  <2>3. root = Absent /\ \A f \in Targets : disk[f] = cmd.original[f]
    BY <2>1 DEF UninstallMatched
  <2>4. disk = cmd.original
    BY <2>1, <2>3 DEF Shaped, CmdShaped
  <2>5. disk' = cmd'.original /\ root' = Absent
    BY <2>1, <2>2, <2>3, <2>4
  <2>6. QED
    BY <2>2, <2>5 DEF PuttingBack
<1>10. CASE StopFails \/ Restart
  BY <1>10, IdleShaped DEF StopFails, Restart, End, PuttingBack
<1>11. QED
  BY <1>1, <1>2, <1>3, <1>4, <1>5, <1>6, <1>7, <1>8, <1>9, <1>10 DEF Uninstall

\* Nor do the others lose track.
LEMMA OtherDates ==
  ASSUME Counted, Shaped, Working, Dated, PuttingBack, UndoFails \/ Environment \/ Replace
  PROVE  Dated' /\ PuttingBack'
<1>1. CASE UndoFails
  <2>1. /\ cmd.pc = "undo" /\ cmd.todo # <<>> /\ CmdShaped(cmd)
        /\ cmd' = Advance([cmd EXCEPT !.failed = TRUE], "undone")
        /\ UNCHANGED <<disk, backups, root>>
    BY <1>1 DEF UndoFails, Working, fileVars, Shaped
  <2>2. PICK c : c = [cmd EXCEPT !.failed = TRUE]
    OBVIOUS
  <2>3. /\ CmdShaped(c) /\ c.todo = cmd.todo /\ c.pc = cmd.pc /\ c.kind = cmd.kind
        /\ c.id = cmd.id /\ c.prior = cmd.prior /\ c.receipts = cmd.receipts
        /\ c.original = cmd.original /\ c.failed
    BY <2>1, <2>2 DEF CmdShaped, Idle
  <2>4. /\ Worked(Head(cmd.todo), "undone")
        /\ cmd'.original = cmd.original /\ cmd'.failed
    BY <2>1, <2>2, <2>3, WorkedOff
  <2>5. cmd'.kind = cmd.kind /\ cmd'.id = cmd.id /\ cmd'.pc \in {"undo", "undone"}
    BY <2>1, <2>4 DEF Worked
  <2>6. PuttingBack'
    BY <2>1, <2>4, <2>5 DEF PuttingBack
  <2>7. count'.installs = count.installs
    BY <1>1, FaultFacts DEF UndoFails
  <2>8. QED
    BY <2>1, <2>4, <2>5, <2>6, <2>7 DEF Dated, Recent, Earlier
<1>2. CASE Crash
  <2>1. cmd' = Idle /\ UNCHANGED <<disk, backups, root>> /\ count'.installs = count.installs
    BY <1>2, FaultFacts DEF Crash, End, fileVars
  <2>2. QED
    BY <2>1, IdleShaped DEF Dated, Recent, PuttingBack
<1>3. CASE ServiceCommand \/ PickerInstall
  <2>1. /\ cmd = Idle /\ cmd' = Idle /\ root # Absent /\ UNCHANGED <<disk, backups, count>>
        /\ root' = root \/ root' = [root EXCEPT !.picker = TRUE]
    BY <1>3 DEF ServiceCommand, PickerInstall
  <2>2. root'.install = root.install
    BY <2>1, RootFacts
  <2>3. QED
    BY <2>1, <2>2, IdleShaped DEF Dated, Recent, PuttingBack
<1>4. CASE UserRepairs
  <2>1. cmd = Idle /\ cmd' = Idle /\ root # Absent /\ UNCHANGED <<backups, root, count>>
    BY <1>4 DEF UserRepairs
  <2>2. PICK f \in Targets : disk' = [disk EXCEPT ![f] = Installed(f, root.install)]
    BY <1>4 DEF UserRepairs
  <2>3. Recent(Installed(f, root.install).text)
    <3>1. root.install \in Nat /\ root.install <= count.installs /\ count.installs \in Nat
      BY <2>1, RootFacts DEF Dated, Counted
    <3>2. QED
      BY <3>1, InstalledText DEF Recent
  <2>4. \A g \in Targets : disk'[g] # Absent => Recent(disk'[g].text)
    BY <2>2, <2>3, DatedWrite
  <2>5. QED
    BY <2>1, <2>4, IdleShaped DEF Dated, Recent, PuttingBack
<1>5. CASE UserWrites \/ UserDeletes
  <2>1. UserMayEdit /\ UNCHANGED <<backups, root, cmd>> /\ count'.installs = count.installs
    BY <1>5 DEF UserWrites, UserDeletes, Counted
  <2>2. \A g \in Targets : disk'[g] # Absent => Recent(disk'[g].text)
    <3>0. \E f \in Targets : \E file :
            disk' = [disk EXCEPT ![f] = file] /\ (file # Absent => file.text.by = "user")
      <4>1. CASE UserWrites
        <5>1. PICK f \in Targets, mode \in {"private", "public"} :
                disk' = [disk EXCEPT ![f] = [text |-> [by |-> "user", n |-> count.edits],
                                             mode |-> mode]]
          BY <4>1 DEF UserWrites
        <5>2. PICK file : file = [text |-> [by |-> "user", n |-> count.edits], mode |-> mode]
          OBVIOUS
        <5>3. disk' = [disk EXCEPT ![f] = file] /\ file.text.by = "user"
          BY <5>1, <5>2
        <5>4. QED
          BY <5>3
      <4>2. CASE UserDeletes
        BY <4>2 DEF UserDeletes
      <4>3. QED
        BY <1>5, <4>1, <4>2
    <3>1. PICK f \in Targets :
            \E file : disk' = [disk EXCEPT ![f] = file] /\ (file # Absent => file.text.by = "user")
      BY <3>0
    <3>2. PICK file :
            disk' = [disk EXCEPT ![f] = file] /\ (file # Absent => file.text.by = "user")
      BY <3>1
    <3>3. file # Absent => Recent(file.text)
      BY <3>2 DEF Recent
    <3>4. QED
      BY <3>2, <3>3, DatedWrite
  <2>3. cmd.kind \in {"none", "replace"} \/ cmd.pc \in {"stop", "validate"}
    BY <2>1 DEF UserMayEdit
  <2>4. Dated'
    BY <2>1, <2>2, <2>3 DEF Dated, Recent, Earlier
  <2>5. QED
    BY <2>1, <2>3, <2>4 DEF PuttingBack
<1>6. CASE Replace
  <2>1. UNCHANGED <<disk, backups, root>> /\ cmd'.kind \in {"none", "replace"}
    BY <1>6, ReplaceFacts DEF Shaped
  <2>2. count'.installs = count.installs
    <3>1. Next
      BY <1>6 DEF Next
    <3>2. ~BeginInstall
      <4>1. BeginInstall => cmd'.kind = "install"
        BY DEF BeginInstall, Idle
      <4>2. QED
        BY <2>1, <4>1
    <3>3. QED
      BY <3>1, <3>2, InstallsKept
  <2>3. QED
    BY <2>1, <2>2 DEF Dated, Recent, PuttingBack
<1>7. QED
  BY <1>1, <1>2, <1>3, <1>4, <1>5, <1>6 DEF Environment

\* Every step keeps the invariant.
LEMMA StepUndone ==
  ASSUME UndoneInv, Next
  PROVE  UndoneInv'
<1>1. IInv' /\ MatchInv'
  BY StepKeeps, StepMatches DEF UndoneInv
<1>2. ASSUME Trusted' PROVE Dated' /\ PuttingBack'
  <2>1. Counted /\ Shaped /\ Working /\ Trusted /\ Undoable'
    BY <1>2, CountedKeeps DEF UndoneInv, MatchInv, Trusted
  <2>2. RootMatched /\ InstallMatched /\ UninstallMatched /\ Dated /\ PuttingBack
    BY <2>1 DEF UndoneInv, MatchInv, Trusted
  <2>3. CASE Install
    BY <2>1, <2>2, <2>3, InstallDates
  <2>4. CASE Uninstall
    BY <2>1, <2>2, <2>4, UninstallDates, UninstallPuts, MatchedRecoverable
  <2>5. CASE UndoFails \/ Environment \/ Replace
    BY <2>1, <2>2, <2>5, OtherDates
  <2>6. QED
    BY <2>3, <2>4, <2>5 DEF Next, BridgeNext
<1>3. QED
  BY <1>1, <1>2 DEF UndoneInv

\* And so does no step.
LEMMA StutterUndone ==
  ASSUME UndoneInv, UNCHANGED vars
  PROVE  UndoneInv'
<1>1. IInv' /\ MatchInv'
  BY StutterKeeps, StutterMatches DEF UndoneInv
<1>2. QED
  BY <1>1 DEF UndoneInv, vars, Trusted, Undoable, Dated, Recent, Earlier, PuttingBack

\* An installation that fails leaves nothing of it but copies of what it found.
LEMMA InstallLeaves ==
  ASSUME UndoneInv, Next, Undoable', Ends("install", "failed")
  PROVE  /\ root' = Absent
         /\ \A f \in Targets :
              /\ disk'[f] # Absent => disk'[f].text # [by |-> "bridge", n |-> cmd.id]
              /\ cmd.receipts[f] # Absent =>
                   /\ disk'[f] = cmd.original[f]
                   /\ backups'[cmd.receipts[f].backup] \in {Absent, disk'[f].text}
         /\ "leftover" \notin count'.kinds =>
              /\ cmd.id \notin stages'
              /\ \A f \in Targets : cmd.receipts[f] # Absent =>
                   backups'[cmd.receipts[f].backup] = Absent
<1>1. cmd.kind = "install" /\ cmd' = Idle /\ outcome' = "failed"
  BY DEF Ends
<1>2. /\ Shaped /\ Working /\ Installing /\ Dated
      /\ cmd.id = count.installs /\ cmd.id \in Nat
  <2>1. Trusted
    BY <1>1, CountedKeeps DEF UndoneInv, MatchInv, Trusted
  <2>2. QED
    BY <1>1, <2>1 DEF UndoneInv, IInv, Dated, Shaped, CmdShaped
<1>3. /\ PrepareRefused \/ PrepareFails \/ UndoRoot
      /\ UndoRoot => cmd.pc = "undone" /\ ~cmd.failed
      /\ ~UndoRoot => cmd.pc \in {"prepare", "manifest"}
  BY <1>1, <1>2, EndsItself
     DEF SyncRoot, UndoRootFails, UndoRoot, PrepareRefused, PrepareFails, End, Report, At
<1>4. root' = Absent /\ disk' = disk /\ SomeGone
  BY <1>1, <1>2, <1>3, AbandonFacts, UndoRootFacts DEF Installing
<1>5. ASSUME NEW f \in Targets
      PROVE  /\ disk[f] # Absent => disk[f].text # [by |-> "bridge", n |-> cmd.id]
             /\ cmd.receipts[f] # Absent => disk[f] = cmd.original[f]
  <2>1. cmd.receipts[f] # Absent => disk[f] = cmd.original[f]
    BY <1>1, <1>2, <1>3 DEF Installing, Found, Prepared
  <2>2. disk[f] # Absent => Earlier(disk[f].text)
    BY <1>1, <1>2, <1>3 DEF Installing, Found, Dated
  <2>3. QED
    BY <1>2, <2>1, <2>2 DEF Earlier
<1>6. ASSUME NEW f \in Targets, cmd.receipts[f] # Absent
      PROVE  /\ cmd.receipts[f].backup \in BackupIds
             /\ backups'[cmd.receipts[f].backup] \in {Absent, disk[f].text}
  <2>1. cmd.receipts[f].backup \in BackupIds
    BY <1>2, <1>6 DEF Shaped, CmdShaped, Recorded, Records
  <2>2. Saved(f) /\ Found(f)
    BY <1>1, <1>2, <1>3, <1>6 DEF Installing, Prepared
  <2>3. backups[cmd.receipts[f].backup] \in {Absent, disk[f].text}
    BY <1>6, <2>2 DEF Saved, Found, BackedUp
  <2>4. QED
    BY <1>4, <2>1, <2>3 DEF SomeGone
<1>7. ASSUME "leftover" \notin count'.kinds
      PROVE  Discard({}) /\ stages' = stages \ {cmd.id}
  <2>1. Counted
    BY DEF UndoneInv, IInv
  <2>2. ~Fault("leftover")
    BY <1>7, <2>1, FaultsKept DEF Excepted
  <2>3. QED
    BY <1>3, <2>2 DEF PrepareRefused, PrepareFails, UndoRoot, Abandon
<1>8. ASSUME "leftover" \notin count'.kinds, NEW f \in Targets, cmd.receipts[f] # Absent
      PROVE  backups'[cmd.receipts[f].backup] = Absent
  BY <1>6, <1>7, <1>8 DEF Discard, Without
<1>9. QED
  BY <1>4, <1>5, <1>6, <1>7, <1>8

\* An uninstall that fails leaves everything, or nothing but a backup.
LEMMA UninstallLeaves ==
  ASSUME UndoneInv, Next, Undoable', Ends("uninstall", "failed"), ~cmd.failed
  PROVE  \/ /\ root' # Absent
            /\ \A f \in Targets : cmd.receipts[f] # Absent =>
                 backups'[cmd.receipts[f].backup] # Absent
            /\ \A f \in cmd.changed : disk'[f] = Installed(f, cmd.id)
         \/ root' = Absent /\ disk' = cmd.original
<1>1. cmd.kind = "uninstall" /\ cmd' = Idle /\ outcome' = "failed"
  BY DEF Ends
<1>2. Shaped /\ Working /\ RootMatched /\ UninstallMatched /\ PuttingBack
  <2>1. Trusted
    BY <1>1, CountedKeeps DEF UndoneInv, MatchInv, Trusted
  <2>2. QED
    BY <2>1 DEF UndoneInv, MatchInv, Trusted
<1>3. /\ (StopFails /\ cmd.pc = "stop") \/ (Restart /\ cmd.pc = "restart")
      /\ UNCHANGED <<disk, backups, root>>
  <2>1. StopFails \/ Restart
    <3>1. StopFails \/ Restart \/ Finish
      BY <1>1, <1>2, EndsItself
    <3>2. ASSUME Finish PROVE FALSE
      <4>1. cmd.todo # <<>> /\ CmdShaped(cmd) /\ cmd' = Advance(cmd, "finish")
        BY <1>1, <1>2, <3>2 DEF Finish, At, Working, End, Shaped
      <4>2. cmd'.kind = cmd.kind
        BY <4>1, Advanced
      <4>3. QED
        BY <1>1, <4>2, IdleShaped
    <3>3. QED
      BY <3>1, <3>2
  <2>2. QED
    BY <2>1 DEF StopFails, Restart, At
<1>4. CASE root = Absent
  BY <1>1, <1>2, <1>3, <1>4 DEF UninstallMatched, PuttingBack
<1>5. CASE root # Absent
  <2>1. \A f \in cmd.changed : disk[f] = Installed(f, cmd.id)
    BY <1>1, <1>2, <1>3, <1>5 DEF PuttingBack
  <2>2. ASSUME NEW f \in Targets, cmd.receipts[f] # Absent
        PROVE  backups[cmd.receipts[f].backup] # Absent
    <3>1. Matches(cmd.receipts, cmd.original, f)
      BY <1>1, <1>2, <1>5 DEF RootMatched, UninstallMatched
    <3>2. /\ cmd.original[f] \in Files
          /\ cmd.original[f].text = backups[cmd.receipts[f].backup]
      BY <1>2, <2>2, <3>1 DEF Matches, Shaped, CmdShaped
    <3>3. QED
      BY <3>2, TextsAbsent DEF Files
  <2>3. QED
    BY <1>3, <1>5, <2>1, <2>2
<1>6. QED
  BY <1>4, <1>5

\* A failed installation leaves no root, none of its files and the user's as it read
\* them; what may be left of its backups, whose removal nobody checks, is a copy of
\* those, and no backup and no stage tree is where every removal succeeded.  A failed
\* uninstall leaves all files and their backups, or none but a backup.  This holds
\* whatever call failed before its effect, in any number and order (install,
\* rollback_install and RestorePlan of lifecycle.rs).
THEOREM FailuresUndoneHolds == Spec => FailuresUndone
<1> DEFINE Leaves ==
             Undoable' =>
               /\ Ends("install", "failed") =>
                    /\ root' = Absent
                    /\ \A f \in Targets :
                         /\ disk'[f] # Absent => disk'[f].text # [by |-> "bridge", n |-> cmd.id]
                         /\ cmd.receipts[f] # Absent =>
                              /\ disk'[f] = cmd.original[f]
                              /\ backups'[cmd.receipts[f].backup] \in {Absent, disk'[f].text}
                    /\ "leftover" \notin count'.kinds =>
                         /\ cmd.id \notin stages'
                         /\ \A f \in Targets : cmd.receipts[f] # Absent =>
                              backups'[cmd.receipts[f].backup] = Absent
               /\ Ends("uninstall", "failed") /\ ~cmd.failed =>
                    \/ /\ root' # Absent
                       /\ \A f \in Targets : cmd.receipts[f] # Absent =>
                            backups'[cmd.receipts[f].backup] # Absent
                       /\ \A f \in cmd.changed : disk'[f] = Installed(f, cmd.id)
                    \/ root' = Absent /\ disk' = cmd.original
<1>1. Init => UndoneInv
  <2>1. SUFFICES ASSUME Init PROVE UndoneInv
    OBVIOUS
  <2>2. /\ cmd = Idle /\ root = Absent
        /\ \A f \in Targets : disk[f] = Absent
        /\ \A b \in BackupIds : backups[b] = Absent
    BY <2>1 DEF Init
  <2>3. IInv /\ MatchInv
    BY <2>1, InitBehind DEF BehindInv
  <2>4. QED
    BY <2>2, <2>3, IdleShaped DEF UndoneInv, Dated, PuttingBack
<1>2. UndoneInv /\ [Next]_vars => UndoneInv'
  BY StepUndone, StutterUndone
<1>3. UndoneInv /\ [Next]_vars => [Leaves]_vars
  BY InstallLeaves, UninstallLeaves
<1>4. QED
  BY <1>1, <1>2, <1>3, PTL DEF Spec, FailuresUndone

=============================================================================
