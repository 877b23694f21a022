----------------------- MODULE PickerTransactionProofs -----------------------
(***************************************************************************)
(* Proofs about PickerTransaction for any number of backup names, edits,    *)
(* versions and faults: the user's text is kept, receipts and backups stay  *)
(* right after every compensated failure, and the transactions implement    *)
(* the abstract publication.                                                *)
(***************************************************************************)
EXTENDS PickerTransaction, TLAPS

-----------------------------------------------------------------------------
(* Lists of files.                                                          *)

\* The files of a list.
Left(todo) == {todo[k] : k \in DOMAIN todo}

\* The place of a file in PublishOrder.
Rank(f) ==
  CASE f = "generated" -> 1 [] f = "route" -> 2 [] f = "config" -> 3 [] f = "state" -> 4

Ordered(todo) ==
  \A i, j \in DOMAIN todo : i < j => Rank(todo[i]) < Rank(todo[j])

\* The list of one file, or of none.
LEMMA OnlyFacts ==
  ASSUME NEW f \in Files, NEW changed
  PROVE  /\ Only(f, changed) \in Seq(Files) /\ Ordered(Only(f, changed))
         /\ Left(Only(f, changed)) = {f} \cap changed
<1>1. CASE f \in changed
  <2>1. Only(f, changed) = <<f>>
    BY <1>1 DEF Only
  <2>2. <<f>> \in Seq(Files) /\ Ordered(<<f>>) /\ Left(<<f>>) = {f}
    BY DEF Ordered, Left
  <2>3. QED
    BY <1>1, <2>1, <2>2
<1>2. CASE f \notin changed
  <2>1. Only(f, changed) = <<>>
    BY <1>2 DEF Only
  <2>2. <<>> \in Seq(Files) /\ Ordered(<<>>) /\ Left(<<>>) = {}
    BY DEF Ordered, Left
  <2>3. QED
    BY <1>2, <2>1, <2>2
<1>3. QED
  BY <1>1, <1>2

\* Two lists one after the other.
LEMMA ConcatFacts ==
  ASSUME NEW s \in Seq(Files), NEW t \in Seq(Files)
  PROVE  /\ s \o t \in Seq(Files) /\ Left(s \o t) = Left(s) \cup Left(t)
         /\ Ordered(s) /\ Ordered(t) /\ (\A f \in Left(s), g \in Left(t) : Rank(f) < Rank(g))
              => Ordered(s \o t)
<1>1. /\ s \o t \in Seq(Files) /\ Len(s \o t) = Len(s) + Len(t)
      /\ DOMAIN (s \o t) = 1 .. Len(s) + Len(t)
      /\ DOMAIN s = 1 .. Len(s) /\ DOMAIN t = 1 .. Len(t) /\ Len(s) \in Nat /\ Len(t) \in Nat
      /\ \A k \in 1 .. Len(s) : (s \o t)[k] = s[k]
      /\ \A k \in 1 .. Len(t) : (s \o t)[Len(s) + k] = t[k]
  OBVIOUS
<1> DEFINE m == Len(s)  n == Len(t)  u == s \o t
<1>2. \A k \in 1 .. m + n : k \in 1 .. m \/ (k - m \in 1 .. n /\ k = m + (k - m))
  BY <1>1
<1>3. Left(u) = Left(s) \cup Left(t)
  <2>1. \A k \in DOMAIN u : u[k] \in Left(s) \cup Left(t)
    BY <1>1, <1>2 DEF Left
  <2>2. \A k \in DOMAIN s : k \in DOMAIN u /\ u[k] = s[k]
    BY <1>1
  <2>3. \A k \in DOMAIN t : m + k \in DOMAIN u /\ u[m + k] = t[k]
    BY <1>1
  <2>4. Left(u) \subseteq Left(s) \cup Left(t)
    BY <2>1 DEF Left
  <2>5. Left(s) \subseteq Left(u)
    BY <2>2 DEF Left
  <2>6. Left(t) \subseteq Left(u)
    BY <2>3 DEF Left
  <2>7. QED
    BY <2>4, <2>5, <2>6
<1>4. ASSUME Ordered(s), Ordered(t), \A f \in Left(s), g \in Left(t) : Rank(f) < Rank(g),
             NEW i \in DOMAIN u, NEW j \in DOMAIN u, i < j
      PROVE  Rank(u[i]) < Rank(u[j])
  <2>1. CASE i \in 1 .. m /\ j \in 1 .. m
    BY <1>1, <1>4, <2>1 DEF Ordered
  <2>2. CASE i \in 1 .. m /\ j \notin 1 .. m
    BY <1>1, <1>2, <1>4, <2>2 DEF Left
  <2>3. CASE i \notin 1 .. m
    <3>1. i - m \in 1 .. n /\ j - m \in 1 .. n /\ i - m < j - m
      BY <1>1, <1>4, <2>3
    <3>2. u[i] = t[i - m] /\ u[j] = t[j - m]
      BY <1>1, <1>2, <3>1
    <3>3. QED
      BY <1>1, <1>4, <3>1, <3>2 DEF Ordered
  <2>4. QED
    BY <2>1, <2>2, <2>3
<1>5. QED
  BY <1>1, <1>3, <1>4 DEF Ordered

\* The first file of a list, and the others.
LEMMA HeadFacts ==
  ASSUME NEW todo \in Seq(Files), todo # <<>>
  PROVE  /\ Head(todo) \in Files /\ Tail(todo) \in Seq(Files)
         /\ Left(todo) = {Head(todo)} \cup Left(Tail(todo))
         /\ Ordered(todo) =>
              /\ Ordered(Tail(todo))
              /\ \A f \in Left(Tail(todo)) : Rank(Head(todo)) < Rank(f)
<1>1. /\ Head(todo) = todo[1] /\ Tail(todo) \in Seq(Files) /\ Head(todo) \in Files
      /\ Len(todo) \in Nat \ {0} /\ DOMAIN todo = 1 .. Len(todo)
      /\ DOMAIN Tail(todo) = 1 .. Len(todo) - 1
      /\ \A k \in 1 .. Len(todo) - 1 : Tail(todo)[k] = todo[k + 1]
  OBVIOUS
<1>2. Left(todo) = {Head(todo)} \cup Left(Tail(todo))
  <2>1. \A k \in DOMAIN todo : k = 1 \/ (k - 1 \in DOMAIN Tail(todo) /\ Tail(todo)[k - 1] = todo[k])
    BY <1>1
  <2>2. \A k \in DOMAIN Tail(todo) : k + 1 \in DOMAIN todo /\ Tail(todo)[k] = todo[k + 1]
    BY <1>1
  <2>3. ASSUME NEW k \in DOMAIN todo PROVE todo[k] \in {Head(todo)} \cup Left(Tail(todo))
    <3>1. CASE k = 1
      BY <1>1, <3>1
    <3>2. CASE k # 1
      <4>1. k - 1 \in DOMAIN Tail(todo) /\ Tail(todo)[k - 1] = todo[k]
        BY <2>1, <3>2
      <4>2. Tail(todo)[k - 1] \in Left(Tail(todo))
        BY <4>1 DEF Left
      <4>3. QED
        BY <4>1, <4>2
    <3>3. QED
      BY <3>1, <3>2
  <2>4. Left(Tail(todo)) \subseteq Left(todo)
    BY <2>2 DEF Left
  <2>5. Head(todo) \in Left(todo)
    BY <1>1 DEF Left
  <2>6. Left(todo) \subseteq {Head(todo)} \cup Left(Tail(todo))
    BY <2>3 DEF Left
  <2>7. QED
    BY <2>4, <2>5, <2>6
<1>3. Ordered(todo) => Ordered(Tail(todo))
  BY <1>1 DEF Ordered
<1>4. Ordered(todo) => \A f \in Left(Tail(todo)) : Rank(Head(todo)) < Rank(f)
  BY <1>1 DEF Ordered, Left
<1>5. QED
  BY <1>1, <1>2, <1>3, <1>4

\* What a publication has to write, in PublishOrder.
LEMMA ChangedFacts ==
  ASSUME NEW entry, NEW next
  PROVE  /\ Changed(entry, next) \in Seq(Files) /\ Ordered(Changed(entry, next))
         /\ Left(Changed(entry, next)) = Differing(entry, next)
<1> DEFINE d == Differing(entry, next)
           g == Only("generated", d)  r == Only("route", d)
           c == Only("config", d)     s == Only("state", d)
<1>1. d \subseteq Files
  BY DEF Differing
<1>2. /\ g \in Seq(Files) /\ Ordered(g) /\ Left(g) = {"generated"} \cap d
      /\ r \in Seq(Files) /\ Ordered(r) /\ Left(r) = {"route"} \cap d
      /\ c \in Seq(Files) /\ Ordered(c) /\ Left(c) = {"config"} \cap d
      /\ s \in Seq(Files) /\ Ordered(s) /\ Left(s) = {"state"} \cap d
  BY OnlyFacts DEF Files
<1> DEFINE gr == g \o r  grc == gr \o c
<1>3. Changed(entry, next) = grc \o s
  BY DEF Changed
<1> HIDE DEF d, g, r, c, s
<1>4. gr \in Seq(Files) /\ Ordered(gr) /\ Left(gr) = {"generated", "route"} \cap d
  <2>1. \A f \in Left(g), h \in Left(r) : Rank(f) < Rank(h)
    BY <1>2 DEF Rank
  <2>2. QED
    BY <1>2, <2>1, ConcatFacts
<1> HIDE DEF gr
<1>5. grc \in Seq(Files) /\ Ordered(grc) /\ Left(grc) = {"generated", "route", "config"} \cap d
  <2>1. \A f \in Left(gr), h \in Left(c) : Rank(f) < Rank(h)
    BY <1>2, <1>4 DEF Rank
  <2>2. QED
    BY <1>2, <1>4, <2>1, ConcatFacts
<1> HIDE DEF grc
<1>6. /\ grc \o s \in Seq(Files) /\ Ordered(grc \o s)
      /\ Left(grc \o s) = {"generated", "route", "config", "state"} \cap d
  <2>1. \A f \in Left(grc), h \in Left(s) : Rank(f) < Rank(h)
    BY <1>2, <1>5 DEF Rank
  <2>2. QED
    BY <1>2, <1>5, <2>1, ConcatFacts
<1>7. QED
  BY <1>1, <1>3, <1>6 DEF Files, d

\* What a failure at f leaves to restore: every file that was written before f.
LEMMA UndoFacts ==
  ASSUME NEW o, o.kind \in {"install", "sync", "uninstall"}, NEW f \in Files,
         Removes(o) => f # "config"
  PROVE  /\ UndoOf(o, f) \in Seq(Files)
         /\ \A g \in Differing(o.entry, o.next) : Rank(g) < Rank(f) => g \in Left(UndoOf(o, f))
         /\ Removes(o) => "config" \in Left(UndoOf(o, f))
<1> DEFINE d == Differing(o.entry, o.next)
<1>1. d \subseteq Files
  BY DEF Differing
<1>2. /\ Left(<<>>) = {} /\ (\A g : Left(<<g>>) = {g}) /\ (\A g, h : Left(<<g, h>>) = {g, h})
      /\ (\A g, h, k : Left(<<g, h, k>>) = {g, h, k})
      /\ (\A g, h, k, l : Left(<<g, h, k, l>>) = {g, h, k, l})
  BY DEF Left
<1>3. CASE o.kind = "install"
  <2>1. UndoOf(o, f) = InstallUndo(f)
    BY <1>3 DEF UndoOf
  <2>2. f = "generated" \/ f = "route" \/ f = "config" \/ f = "state"
    BY DEF Files
  <2>3. CASE f = "generated"
    BY <1>1, <1>2, <1>3, <2>1, <2>3 DEF InstallUndo, Rank, Files, Removes
  <2>4. CASE f = "route"
    BY <1>1, <1>2, <1>3, <2>1, <2>4 DEF InstallUndo, Rank, Files, Removes
  <2>5. CASE f = "config"
    BY <1>1, <1>2, <1>3, <2>1, <2>5 DEF InstallUndo, Rank, Files, Removes
  <2>6. CASE f = "state"
    BY <1>1, <1>2, <1>3, <2>1, <2>6 DEF InstallUndo, Rank, Files, Removes
  <2>7. QED
    BY <2>2, <2>3, <2>4, <2>5, <2>6
<1>4. CASE o.kind = "uninstall"
  <2>1. UndoOf(o, f) = UninstallUndo(f) /\ f \in {"generated", "route", "state"}
    BY <1>4 DEF UndoOf, Removes, Files
  <2>3. CASE f = "generated"
    BY <1>1, <1>2, <2>1, <2>3 DEF UninstallUndo, Rank, Files
  <2>4. CASE f = "route"
    BY <1>1, <1>2, <2>1, <2>4 DEF UninstallUndo, Rank, Files
  <2>5. CASE f = "state"
    BY <1>1, <1>2, <2>1, <2>5 DEF UninstallUndo, Rank, Files
  <2>6. QED
    BY <2>1, <2>3, <2>4, <2>5
<1>5. CASE o.kind = "sync"
  <2> DEFINE g == Only("generated", d)  r == Only("route", d)  c == Only("config", d)
             cr == c \o r
  <2>1. UndoOf(o, f) = SyncUndo(f, d)
    BY <1>5 DEF UndoOf
  <2>2. /\ g \in Seq(Files) /\ Left(g) = {"generated"} \cap d
        /\ r \in Seq(Files) /\ Left(r) = {"route"} \cap d
        /\ c \in Seq(Files) /\ Left(c) = {"config"} \cap d
    BY OnlyFacts DEF Files
  <2>3. f = "generated" \/ f = "route" \/ f = "config" \/ f = "state"
    BY DEF Files
  <2>4. CASE f = "generated"
    BY <1>1, <1>2, <1>5, <2>1, <2>4 DEF SyncUndo, Rank, Files, Removes
  <2>5. CASE f = "route"
    <3>1. UndoOf(o, f) = g
      BY <2>1, <2>5 DEF SyncUndo
    <3> HIDE DEF g, d
    <3>2. QED
      BY <1>1, <1>5, <2>2, <2>5, <3>1 DEF Rank, Files, Removes, d
  <2>6. CASE f = "config"
    <3>1. UndoOf(o, f) = r \o g
      BY <2>1, <2>6 DEF SyncUndo
    <3> HIDE DEF g, r, d
    <3>2. r \o g \in Seq(Files) /\ Left(r \o g) = {"route", "generated"} \cap d
      BY <2>2, ConcatFacts
    <3>3. /\ UndoOf(o, f) \in Seq(Files)
          /\ Left(UndoOf(o, f)) = {"route", "generated"} \cap d
      BY <3>1, <3>2
    <3>4. \A h \in d : Rank(h) < Rank(f) => h \in {"route", "generated"}
      BY <1>1, <2>6 DEF Rank, Files
    <3>5. QED
      BY <1>5, <3>3, <3>4 DEF Removes, d
  <2>7. CASE f = "state"
    <3>1. UndoOf(o, f) = cr \o g
      BY <2>1, <2>7 DEF SyncUndo
    <3> HIDE DEF g, r, c, d
    <3>2. cr \in Seq(Files) /\ Left(cr) = {"config", "route"} \cap d
      BY <2>2, ConcatFacts
    <3> HIDE DEF cr
    <3>3. cr \o g \in Seq(Files) /\ Left(cr \o g) = {"config", "route", "generated"} \cap d
      BY <2>2, <3>2, ConcatFacts
    <3>4. /\ UndoOf(o, f) \in Seq(Files)
          /\ Left(UndoOf(o, f)) = {"config", "route", "generated"} \cap d
      BY <3>1, <3>3
    <3>5. \A h \in d : Rank(h) < Rank(f) => h \in {"config", "route", "generated"}
      BY <1>1, <2>7 DEF Rank, Files
    <3>6. QED
      BY <1>5, <3>4, <3>5 DEF Removes, d
  <2>8. QED
    BY <2>3, <2>4, <2>5, <2>6, <2>7
<1>6. QED
  BY <1>3, <1>4, <1>5

-----------------------------------------------------------------------------
(* Transactions.                                                            *)

ReceiptOf(state) == IF state = Absent THEN Absent ELSE state.rollback

FilesTyped(files) ==
  /\ DOMAIN files = Files
  /\ files["generated"] \in Generated \cup {Absent}
  /\ files["route"] \in Route \cup {Absent}
  /\ files["config"] \in Config \cup {Absent}
  /\ files["state"] \in State \cup {Absent}

\* A managed state describes a configuration the bridge rendered, and its receipt
\* gives back the text that was rendered, which is not newer than the user's.
SoundState(state, text) ==
  state # Absent =>
    /\ state.config.marks = "both" /\ state.config.keys = "ours"
    /\ state.config.text # Absent => text # Absent /\ state.config.text <= text
    /\ state.rollback # Absent => state.rollback.content.keys = "none"
    /\ TextOf(IF state.rollback = Absent THEN Absent ELSE state.rollback.content)
         = state.config.text

\* The files as a transaction may find or leave them: the user's text is there.
Snapshot(files, text) ==
  FilesTyped(files) /\ SoundState(files["state"], text) /\ TextOf(files["config"]) = text

\* What an install or a sync has planned.
PublicationPlan(o, text) ==
  /\ o.kind \in {"install", "sync"}
  /\ Snapshot(o.entry, text) /\ Snapshot(o.next, text)
  /\ Coherent(o.next) /\ o.next["config"] = o.next["state"].config
  /\ o.kind = "sync" => Described(o.entry) /\ o.next["route"].mode = o.entry["route"].mode
  /\ o.fresh \in BackupIds \cup {Absent}
  /\ IF o.fresh = Absent
     THEN o.next["state"].rollback = ReceiptOf(o.entry["state"]) /\ o.old = Absent
     ELSE /\ o.next["state"].rollback # Absent /\ o.next["state"].rollback.id = o.fresh
          /\ o.old = ReceiptOf(o.entry["state"]) /\ (o.old # Absent => o.old.id # o.fresh)
          /\ o.entry["config"] # o.next["config"]

\* What an uninstall takes back.
RemovalPlan(o, text) ==
  /\ o.kind = "uninstall"
  /\ Snapshot(o.entry, text) /\ o.next = NoFiles
  /\ Described(o.entry) /\ o.entry["config"] # Absent
  /\ o.fresh = Absent /\ o.old = o.entry["state"].rollback

\* A running transaction: its plan, and the steps it can be at.
Transaction(o, text) ==
  /\ DOMAIN o = DOMAIN Idle
  /\ PublicationPlan(o, text) \/ RemovalPlan(o, text)
  /\ o.todo \in Seq(Files) /\ (o.pc \in {"write", "undo"} => o.todo # <<>>)
  /\ o.pc \in {"config", "backup", "write"} => Ordered(o.todo)
  /\ IF Removes(o)
     THEN /\ o.pc \in {"config", "backup", "write", "undo", "abort"}
          /\ o.pc \in {"config", "backup", "write"} =>
               o.todo # <<>> /\ "config" \notin Left(o.todo)
     ELSE /\ o.pc \in {"write", "undo", "abort", "finish"}
          /\ o.pc = "finish" => o.old # Absent

TInv ==
  /\ Snapshot(disk, userText)
  /\ backups \in [BackupIds -> Config \cup {Absent}]
  /\ DOMAIN op = Procs
  /\ \A p \in Procs : op[p] # Idle => Transaction(op[p], userText)
  /\ native \in 0 .. MaxVersions /\ grok \in 0 .. MaxVersions
  /\ serviceUp \in BOOLEAN /\ userText \in Text
  /\ faults \in [count : 0 .. MaxFaults, mishap : BOOLEAN]

-----------------------------------------------------------------------------
(* Planning.                                                                *)

\* A plan renders the user's text, and what it makes of the receipts.
LEMMA PlanFacts ==
  ASSUME TInv, NEW plan \in PreparePickerConfig(disk["state"], disk["config"])
  PROVE  /\ plan.base \in Config /\ plan.base.text = userText
         /\ plan.rollback \in Rollback /\ plan.old \in Rollback
         /\ plan.rollback # Absent => plan.rollback.content.keys = "none"
         /\ TextOf(IF plan.rollback = Absent THEN Absent ELSE plan.rollback.content) = userText
         /\ plan.fresh \in BackupIds \cup {Absent}
         /\ plan.fresh = Absent =>
              /\ plan.rollback = ReceiptOf(disk["state"]) /\ plan.old = Absent
              /\ disk["state"] = Absent \/ disk["config"] = disk["state"].config
         /\ plan.fresh # Absent =>
              /\ plan.fresh \in FreshIds
              /\ plan.rollback = [id |-> plan.fresh, content |-> plan.base]
              /\ plan.old = ReceiptOf(disk["state"])
              /\ disk["config"] = Absent \/ disk["config"].marks # "both" \/ ~Renders(plan.base)
<1> DEFINE config == disk["config"]  prior == disk["state"]
<1>1. /\ config \in Config \cup {Absent} /\ prior \in State \cup {Absent}
      /\ TextOf(config) = userText /\ SoundState(prior, userText)
  BY DEF TInv, Snapshot, FilesTyped
<1>2. Absent \notin Config /\ Absent \notin State /\ Absent \notin Receipt /\ Absent \notin BackupIds
  BY AbsentAssumption
<1>3. prior # Absent => prior.rollback \in Rollback /\ prior.config \in Config
  BY <1>1 DEF State
<1>4. config # Absent => config \in Config /\ config.text = userText
  BY <1>1 DEF TextOf
<1> HIDE DEF config, prior
<1>5. CASE plan \in UnchangedPlan(prior, config)
  <2>1. prior # Absent /\ config = prior.config
        /\ plan = Plan(config, prior.rollback, Absent, Absent)
    BY <1>5 DEF UnchangedPlan
  <2>2. /\ plan.base = config /\ plan.rollback = prior.rollback
        /\ plan.fresh = Absent /\ plan.old = Absent
    BY <2>1 DEF Plan
  <2>3. config \in Config /\ config.text = userText
    BY <1>2, <1>3, <1>4, <2>1
  <2>4. ReceiptOf(prior) = prior.rollback
    BY <2>1 DEF ReceiptOf
  <2>5. QED
    BY <1>1, <1>3, <2>1, <2>2, <2>3, <2>4 DEF SoundState, Rollback, prior, config
<1>6. CASE plan \in RewrittenPlans(prior, config)
  <2>1. prior # Absent /\ config # Absent
    BY <1>6 DEF RewrittenPlans
  <2> DEFINE base == RemoveManaged(config)
  <2>2. PICK b \in FreshIds : plan = Plan(base, [id |-> b, content |-> base], b, prior.rollback)
    BY <1>6 DEF RewrittenPlans
  <2>3. /\ plan.base = base /\ plan.rollback = [id |-> b, content |-> base]
        /\ plan.fresh = b /\ plan.old = prior.rollback
    BY <2>2 DEF Plan
  <2>4. /\ base \in Config /\ base.text = userText /\ base.keys = "none"
        /\ base.marks = IF config.marks = "none" THEN "none" ELSE "end"
    BY <1>4, <2>1 DEF RemoveManaged, Config
  <2>5. config.marks # "both" \/ ~Renders(base)
    BY <2>4 DEF Renders
  <2> HIDE DEF base
  <2>6. b \in BackupIds /\ b # Absent
    BY <1>2 DEF FreshIds
  <2>7. plan.rollback \in Receipt /\ plan.rollback # Absent
    BY <1>2, <2>3, <2>4, <2>6 DEF Receipt
  <2>8. TextOf(plan.rollback.content) = userText /\ plan.rollback.content.keys = "none"
    BY <1>2, <2>3, <2>4 DEF TextOf
  <2>9. plan.old = ReceiptOf(prior) /\ plan.old \in Rollback
    BY <1>3, <2>1, <2>3 DEF ReceiptOf
  <2>10. QED
    BY <2>3, <2>4, <2>5, <2>6, <2>7, <2>8, <2>9 DEF Rollback, prior, config
<1>7. CASE plan \in FirstPlans(prior, config)
  <2>1. CASE prior = Absent /\ config = Absent
    <3>1. plan = Plan(Plain(Absent), Absent, Absent, Absent)
      BY <1>7, <2>1 DEF FirstPlans
    <3>2. /\ plan.base = Plain(Absent) /\ plan.rollback = Absent
          /\ plan.fresh = Absent /\ plan.old = Absent
      BY <3>1 DEF Plan
    <3>3. userText = Absent /\ Plain(Absent) \in Config /\ Plain(Absent).text = Absent
      BY <1>1, <2>1 DEF TextOf, Plain, Config, Text, config
    <3>4. QED
      BY <2>1, <3>2, <3>3 DEF TextOf, ReceiptOf, Rollback, prior
  <2>2. CASE prior = Absent /\ config # Absent /\ config = Plain(config.text)
    <3>1. PICK b \in FreshIds : plan = Plan(config, [id |-> b, content |-> config], b, Absent)
      BY <1>7, <2>2 DEF FirstPlans
    <3>2. /\ plan.base = config /\ plan.rollback = [id |-> b, content |-> config]
          /\ plan.fresh = b /\ plan.old = Absent
      BY <3>1 DEF Plan
    <3>3. config \in Config /\ config.text = userText /\ config.marks = "none" /\ config.keys = "none"
      BY <1>4, <2>2 DEF Plain
    <3>4. b \in BackupIds /\ b # Absent
      BY <1>2 DEF FreshIds
    <3>5. plan.rollback \in Receipt /\ plan.rollback # Absent
      BY <1>2, <3>2, <3>3, <3>4 DEF Receipt
    <3>6. TextOf(plan.rollback.content) = userText /\ plan.rollback.content.keys = "none"
      BY <2>2, <3>2, <3>3 DEF TextOf
    <3>7. plan.old = ReceiptOf(prior) /\ plan.old \in Rollback
      BY <2>2, <3>2 DEF ReceiptOf, Rollback
    <3>8. QED
      BY <3>2, <3>3, <3>4, <3>5, <3>6, <3>7 DEF Rollback, prior, config
  <2>3. QED
    BY <1>7, <2>1, <2>2 DEF FirstPlans
<1>8. QED
  BY <1>5, <1>6, <1>7 DEF PreparePickerConfig, prior, config

\* The backup of a plan is a configuration.
LEMMA BackupsTyped ==
  ASSUME TInv, NEW plan \in PreparePickerConfig(disk["state"], disk["config"])
  PROVE  BackupsWith(plan) \in [BackupIds -> Config \cup {Absent}]
<1>1. plan.fresh # Absent => plan.fresh \in BackupIds
  BY PlanFacts
<1>2. plan.fresh # Absent => plan.rollback.content \in Config
  <2>1. plan.fresh # Absent => plan.rollback = [id |-> plan.fresh, content |-> plan.base]
    BY PlanFacts
  <2>2. plan.base \in Config
    BY PlanFacts
  <2>3. QED
    BY <2>1, <2>2
<1>3. QED
  BY <1>1, <1>2 DEF BackupsWith, TInv

\* What a plan publishes is coherent and keeps the text.
LEMMA NextFacts ==
  ASSUME TInv, NEW plan \in PreparePickerConfig(disk["state"], disk["config"]), NEW mode \in Modes
  PROVE  /\ Snapshot(NextFiles(mode, plan), userText) /\ Coherent(NextFiles(mode, plan))
         /\ NextFiles(mode, plan)["config"] = NextFiles(mode, plan)["state"].config
         /\ NextFiles(mode, plan)["config"] = RenderPickerConfig(plan.base)
         /\ NextFiles(mode, plan)["state"].rollback = plan.rollback
         /\ NextFiles(mode, plan)["route"].mode = mode
<1> DEFINE generated == [mode |-> mode, native |-> native, grok |-> grok]
           route     == [mode |-> mode, native |-> native]
           config    == RenderPickerConfig(plan.base)
           state     == [generated |-> generated, route |-> route, config |-> config,
                         rollback |-> plan.rollback]
           next      == NextFiles(mode, plan)
<1>1. /\ DOMAIN next = Files /\ next["generated"] = generated /\ next["route"] = route
      /\ next["config"] = config /\ next["state"] = state
  BY DEF NextFiles, Files
<1>2. generated \in Generated /\ route \in Route
  BY DEF Generated, Route, TInv
<1>3. config \in Config /\ config.text = userText /\ config.marks = "both" /\ config.keys = "ours"
  BY PlanFacts DEF RenderPickerConfig, Config
<1>4. /\ state.generated = generated /\ state.route = route /\ state.config = config
      /\ state.rollback = plan.rollback
      /\ route = [mode |-> generated.mode, native |-> generated.native] /\ route.mode = mode
  OBVIOUS
<1> HIDE DEF generated, route, config
<1>5. state \in State
  BY <1>2, <1>3, PlanFacts DEF State
<1> HIDE DEF state
<1>6. state # Absent /\ config # Absent /\ generated # Absent /\ route # Absent
  BY <1>2, <1>3, <1>5, AbsentAssumption
<1>7. userText \in Text /\ (userText # Absent => userText \in Nat)
  BY BoundsAssumption DEF TInv, Text
<1>8. SoundState(state, userText)
  <2>1. state.config.text # Absent => userText # Absent /\ state.config.text <= userText
    BY <1>3, <1>4, <1>7
  <2>2. QED
    BY <1>3, <1>4, <2>1, PlanFacts DEF SoundState
<1>9. TextOf(config) = userText
  BY <1>3, <1>6 DEF TextOf
<1>10. Snapshot(next, userText)
  BY <1>1, <1>2, <1>3, <1>5, <1>8, <1>9 DEF Snapshot, FilesTyped
<1>11. Coherent(next)
  BY <1>1, <1>4, <1>6 DEF Coherent, Described
<1>12. QED
  BY <1>1, <1>4, <1>10, <1>11 DEF config

-----------------------------------------------------------------------------
(* The steps.                                                               *)

\* What begins is a transaction.
LEMMA PublishingFacts ==
  ASSUME TInv, NEW kind \in {"install", "sync"}, kind = "sync" => SyncAccepts,
         NEW plan \in PreparePickerConfig(disk["state"], disk["config"]), ~Refused(plan),
         NEW mode \in Modes, kind = "sync" => mode = disk["route"].mode,
         NEW todo \in Seq(Files), todo # <<>>, Ordered(todo)
  PROVE  Transaction(Publishing(kind, plan, mode, todo), userText)
<1> DEFINE o == Publishing(kind, plan, mode, todo)  next == NextFiles(mode, plan)
<1>1. /\ DOMAIN o = DOMAIN Idle /\ o.kind = kind /\ o.pc = "write" /\ o.entry = disk
      /\ o.next = next /\ o.todo = todo /\ o.fresh = plan.fresh /\ o.old = plan.old
  BY DEF Publishing, Idle
<1> HIDE DEF o
<1>2. /\ Snapshot(next, userText) /\ Coherent(next) /\ next["config"] = next["state"].config
      /\ next["config"] = RenderPickerConfig(plan.base)
      /\ next["state"].rollback = plan.rollback /\ next["route"].mode = mode
  BY NextFacts
<1> HIDE DEF next
<1>3. next["config"].marks = "both" /\ next["config"] # Absent
  <2>1. RenderPickerConfig(plan.base).marks = "both"
    BY DEF RenderPickerConfig
  <2>2. next["state"] \in State
    BY <1>2 DEF Coherent, Described, Snapshot, FilesTyped
  <2>3. QED
    BY <1>2, <2>1, <2>2, AbsentAssumption DEF State
<1>4. kind = "sync" => Described(disk)
  BY DEF SyncAccepts, Described
<1>5. Renders(plan.base)
  BY DEF Refused
<1>6. IF plan.fresh = Absent
      THEN plan.rollback = ReceiptOf(disk["state"]) /\ plan.old = Absent
      ELSE /\ plan.rollback # Absent /\ plan.rollback.id = plan.fresh
           /\ plan.old = ReceiptOf(disk["state"]) /\ (plan.old # Absent => plan.old.id # plan.fresh)
           /\ disk["config"] # next["config"]
  <2>1. CASE plan.fresh = Absent
    BY <2>1, PlanFacts
  <2>2. CASE plan.fresh # Absent
    <3>1. /\ plan.fresh \in FreshIds /\ plan.rollback = [id |-> plan.fresh, content |-> plan.base]
          /\ plan.old = ReceiptOf(disk["state"])
          /\ disk["config"] = Absent \/ disk["config"].marks # "both"
          /\ plan.rollback \in Rollback /\ plan.base \in Config
      BY <1>5, <2>2, PlanFacts
    <3>2. plan.rollback.id = plan.fresh /\ plan.rollback # Absent
      <4>1. plan.rollback \in Receipt
        BY <3>1 DEF Receipt, FreshIds
      <4>2. QED
        BY <3>1, <4>1, AbsentAssumption
    <3>3. plan.old # Absent => plan.old.id # plan.fresh
      BY <3>1 DEF FreshIds, ReceiptOf
    <3>4. disk["config"] # next["config"]
      BY <1>3, <3>1
    <3>5. QED
      BY <2>2, <3>1, <3>2, <3>3, <3>4
  <2>3. QED
    BY <2>1, <2>2
<1>7. PublicationPlan(o, userText)
  <2>1. Snapshot(disk, userText)
    BY DEF TInv
  <2>2. plan.fresh \in BackupIds \cup {Absent}
    BY PlanFacts
  <2>3. QED
    BY <1>1, <1>2, <1>4, <1>6, <2>1, <2>2 DEF PublicationPlan
<1>8. QED
  BY <1>1, <1>7 DEF Transaction, Removes, o

\* The fields that Idle and every transaction have keep their values but for the
\* list and the step.
LEMMA AfterFacts ==
  ASSUME NEW o, DOMAIN o = DOMAIN Idle, NEW todo, NEW pc
  PROVE  LET n == After(o, todo, pc)
         IN  /\ DOMAIN n = DOMAIN Idle
             /\ n.kind = o.kind /\ n.entry = o.entry /\ n.next = o.next
             /\ n.fresh = o.fresh /\ n.old = o.old /\ n.todo = todo
             /\ n.pc = IF todo = <<>> THEN pc ELSE o.pc
BY DEF After, Idle

\* A transaction goes on if its plan stays and its step fits its kind.
LEMMA GoesOn ==
  ASSUME NEW text, NEW o, Transaction(o, text), NEW n, DOMAIN n = DOMAIN Idle,
         n.kind = o.kind, n.entry = o.entry, n.next = o.next, n.fresh = o.fresh, n.old = o.old,
         n.todo \in Seq(Files), n.pc \in {"write", "undo"} => n.todo # <<>>,
         n.pc \in {"backup", "write"} => Ordered(n.todo),
         IF Removes(o) THEN /\ n.pc \in {"backup", "write", "undo", "abort"}
                            /\ n.pc \in {"backup", "write"} =>
                                 n.todo # <<>> /\ "config" \notin Left(n.todo)
         ELSE /\ n.pc \in {"write", "undo", "abort", "finish"}
              /\ n.pc = "finish" => o.old # Absent
  PROVE  Transaction(n, text)
<1>1. PublicationPlan(n, text) \/ RemovalPlan(n, text)
  BY DEF Transaction, PublicationPlan, RemovalPlan
<1>2. QED
  BY <1>1 DEF Transaction, Removes

\* After the next file a transaction goes on, or is over.
LEMMA ContinueFacts ==
  ASSUME NEW text, NEW o, Transaction(o, text), o.pc = "write"
  PROVE  LET n == Continue(o)
         IN  \/ n = Idle /\ Tail(o.todo) = <<>> /\ (Removes(o) \/ o.old = Absent)
             \/ /\ Transaction(n, text)
                /\ n.kind = o.kind /\ n.entry = o.entry /\ n.next = o.next
                /\ n.fresh = o.fresh /\ n.old = o.old
                /\ n.todo = Tail(o.todo) /\ n.pc = IF Tail(o.todo) = <<>> THEN "finish" ELSE "write"
<1> DEFINE n == After(o, Tail(o.todo), "finish")
<1>1. /\ DOMAIN o = DOMAIN Idle /\ o.todo \in Seq(Files) /\ o.todo # <<>> /\ Ordered(o.todo)
      /\ Removes(o) => "config" \notin Left(o.todo)
  BY DEF Transaction
<1>2. /\ Tail(o.todo) \in Seq(Files) /\ Ordered(Tail(o.todo))
      /\ Left(Tail(o.todo)) \subseteq Left(o.todo)
  BY <1>1, HeadFacts
<1>3. /\ DOMAIN n = DOMAIN Idle
      /\ n.kind = o.kind /\ n.entry = o.entry /\ n.next = o.next /\ n.fresh = o.fresh
      /\ n.old = o.old /\ n.todo = Tail(o.todo)
      /\ n.pc = IF Tail(o.todo) = <<>> THEN "finish" ELSE "write"
  <2> DEFINE t == Tail(o.todo)
  <2> HIDE DEF t
  <2>1. LET k == After(o, t, "finish")
        IN  /\ DOMAIN k = DOMAIN Idle
            /\ k.kind = o.kind /\ k.entry = o.entry /\ k.next = o.next /\ k.fresh = o.fresh
            /\ k.old = o.old /\ k.todo = t /\ k.pc = IF t = <<>> THEN "finish" ELSE o.pc
    BY <1>1, AfterFacts
  <2>2. QED
    BY <2>1 DEF t
<1>4. Continue(o) = IF n.pc = "finish" /\ (o.kind = "uninstall" \/ o.old = Absent) THEN Idle ELSE n
  BY DEF Continue
<1> HIDE DEF n
<1>5. CASE n.pc = "finish" /\ (o.kind = "uninstall" \/ o.old = Absent)
  BY <1>3, <1>4, <1>5 DEF Removes
<1>6. CASE ~(n.pc = "finish" /\ (o.kind = "uninstall" \/ o.old = Absent))
  <2>1. Transaction(n, text)
    BY <1>1, <1>2, <1>3, <1>6, GoesOn DEF Removes
  <2>2. QED
    BY <1>3, <1>4, <1>6, <2>1
<1>7. QED
  BY <1>5, <1>6

\* After a failure a transaction restores what it wrote, and then the backups.
LEMMA UndoingFacts ==
  ASSUME NEW text, NEW o, Transaction(o, text), o.pc = "write"
  PROVE  LET n == Undoing(o, Head(o.todo))
         IN  /\ Transaction(n, text)
             /\ n.kind = o.kind /\ n.entry = o.entry /\ n.next = o.next
             /\ n.fresh = o.fresh /\ n.old = o.old
             /\ n.todo = UndoOf(o, Head(o.todo)) /\ n.pc = IF n.todo = <<>> THEN "abort" ELSE "undo"
<1> DEFINE f == Head(o.todo)  m == [o EXCEPT !.pc = "undo"]  undo == UndoOf(o, f)
           n == After(m, undo, "abort")
<1>1. /\ DOMAIN o = DOMAIN Idle /\ o.todo \in Seq(Files) /\ o.todo # <<>>
      /\ Removes(o) => "config" \notin Left(o.todo)
      /\ o.kind \in {"install", "sync", "uninstall"}
  BY DEF Transaction, PublicationPlan, RemovalPlan
<1>2. f \in Files /\ (Removes(o) => f # "config")
  BY <1>1, HeadFacts
<1>3. undo \in Seq(Files)
  BY <1>1, <1>2, UndoFacts
<1>4. /\ DOMAIN m = DOMAIN Idle /\ m.kind = o.kind /\ m.entry = o.entry /\ m.next = o.next
      /\ m.fresh = o.fresh /\ m.old = o.old /\ m.pc = "undo"
  BY <1>1 DEF Idle
<1>5. Undoing(o, f) = n
  BY DEF Undoing
<1> HIDE DEF f, m, undo
<1>6. /\ DOMAIN n = DOMAIN Idle
      /\ n.kind = o.kind /\ n.entry = o.entry /\ n.next = o.next /\ n.fresh = o.fresh
      /\ n.old = o.old /\ n.todo = undo /\ n.pc = IF undo = <<>> THEN "abort" ELSE "undo"
  BY <1>4, AfterFacts
<1> HIDE DEF n
<1>7. Transaction(n, text)
  BY <1>3, <1>6, GoesOn
<1>8. QED
  BY <1>5, <1>6, <1>7 DEF f, undo

\* After a restored file a failed transaction goes on restoring.
LEMMA RestoringFacts ==
  ASSUME NEW text, NEW o, Transaction(o, text), o.pc = "undo"
  PROVE  LET n == After(o, Tail(o.todo), "abort")
         IN  /\ Transaction(n, text)
             /\ n.kind = o.kind /\ n.entry = o.entry /\ n.next = o.next
             /\ n.fresh = o.fresh /\ n.old = o.old
             /\ n.todo = Tail(o.todo) /\ n.pc = IF n.todo = <<>> THEN "abort" ELSE "undo"
<1> DEFINE t == Tail(o.todo)  n == After(o, t, "abort")
<1>1. DOMAIN o = DOMAIN Idle /\ t \in Seq(Files)
  <2>1. o.todo \in Seq(Files) /\ o.todo # <<>>
    BY DEF Transaction
  <2>2. QED
    BY <2>1, HeadFacts DEF Transaction
<1> HIDE DEF t
<1>2. /\ DOMAIN n = DOMAIN Idle
      /\ n.kind = o.kind /\ n.entry = o.entry /\ n.next = o.next /\ n.fresh = o.fresh
      /\ n.old = o.old /\ n.todo = t /\ n.pc = IF t = <<>> THEN "abort" ELSE "undo"
  BY <1>1, AfterFacts
<1> HIDE DEF n
<1>3. Transaction(n, text)
  BY <1>1, <1>2, GoesOn
<1>4. QED
  BY <1>2, <1>3 DEF n, t

\* An uninstall goes on to its next step.
LEMMA SteppingFacts ==
  ASSUME NEW text, NEW o, Transaction(o, text), o.pc \in {"config", "backup"},
         NEW pc \in {"backup", "write"}
  PROVE  LET n == [o EXCEPT !.pc = pc]
         IN  /\ Transaction(n, text)
             /\ n.kind = o.kind /\ n.entry = o.entry /\ n.next = o.next
             /\ n.fresh = o.fresh /\ n.old = o.old /\ n.todo = o.todo /\ n.pc = pc
<1> DEFINE n == [o EXCEPT !.pc = pc]
<1>1. /\ DOMAIN o = DOMAIN Idle /\ o.todo \in Seq(Files) /\ Ordered(o.todo)
      /\ Removes(o) /\ o.todo # <<>> /\ "config" \notin Left(o.todo)
  BY DEF Transaction
<1>2. /\ DOMAIN n = DOMAIN Idle
      /\ n.kind = o.kind /\ n.entry = o.entry /\ n.next = o.next /\ n.fresh = o.fresh
      /\ n.old = o.old /\ n.todo = o.todo /\ n.pc = pc
  BY <1>1 DEF Idle
<1> HIDE DEF n
<1>3. Transaction(n, text)
  BY <1>1, <1>2, GoesOn
<1>4. QED
  BY <1>2, <1>3 DEF n

\* One file of a snapshot exchanged for the same file of another.
LEMMA Mixed ==
  ASSUME NEW text, NEW files, Snapshot(files, text), NEW f \in Files, NEW content,
         \/ \E other : Snapshot(other, text) /\ content = other[f]
         \/ content = Absent /\ f # "config"
  PROVE  Snapshot([files EXCEPT ![f] = content], text)
<1> DEFINE new == [files EXCEPT ![f] = content]
<1>1. /\ DOMAIN files = Files /\ DOMAIN new = Files
      /\ \A g \in Files : new[g] = IF g = f THEN content ELSE files[g]
  BY DEF Snapshot, FilesTyped
<1>2. "generated" \in Files /\ "route" \in Files /\ "config" \in Files /\ "state" \in Files
  BY DEF Files
<1> HIDE DEF new
<1>3. /\ new["generated"] \in Generated \cup {Absent}
      /\ new["route"] \in Route \cup {Absent}
      /\ new["config"] \in Config \cup {Absent}
      /\ new["state"] \in State \cup {Absent}
  BY <1>1, <1>2 DEF Snapshot, FilesTyped
<1>4. SoundState(new["state"], text)
  <2>1. SoundState(Absent, text)
    BY DEF SoundState
  <2>2. CASE f = "state"
    BY <1>1, <2>1, <2>2 DEF Snapshot, Files
  <2>3. CASE f # "state"
    BY <1>1, <1>2, <2>3 DEF Snapshot
  <2>4. QED
    BY <2>2, <2>3
<1>5. TextOf(new["config"]) = text
  <2>2. CASE f = "config"
    BY <1>1, <2>2 DEF Snapshot, Files
  <2>3. CASE f # "config"
    BY <1>1, <1>2, <2>3 DEF Snapshot
  <2>4. QED
    BY <2>2, <2>3
<1>6. QED
  BY <1>1, <1>3, <1>4, <1>5 DEF Snapshot, FilesTyped, new

\* A fault counts, and the first one is a mishap only if nothing compensates it.
LEMMA FaultFacts ==
  ASSUME TInv, NEW kind, Fault(kind)
  PROVE  /\ faults' \in [count : 0 .. MaxFaults, mishap : BOOLEAN]
         /\ faults.count < MaxFaults /\ faults'.count = faults.count + 1
         /\ (faults'.mishap <=> (kind \notin {"write", "remove"} \/ faults.count > 0))
<1>1. faults.count \in 0 .. MaxFaults /\ MaxFaults \in Nat /\ faults.count < MaxFaults
  BY BoundsAssumption DEF TInv, Fault
<1>2. faults.count + 1 \in 0 .. MaxFaults
  BY <1>1
<1>3. faults' = [count |-> faults.count + 1,
                 mishap |-> kind \notin {"write", "remove"} \/ faults.count > 0]
  BY DEF Fault
<1>4. (kind \notin {"write", "remove"} \/ faults.count > 0) \in BOOLEAN
  OBVIOUS
<1>5. QED
  BY <1>1, <1>2, <1>3, <1>4

\* The invariant of types and texts after a step of one process.
LEMMA OneMoves ==
  ASSUME TInv, NEW p \in Procs, NEW n, op' = [op EXCEPT ![p] = n],
         n = Idle \/ Transaction(n, userText),
         Snapshot(disk', userText), backups' \in [BackupIds -> Config \cup {Absent}],
         UNCHANGED <<native, grok, serviceUp, userText>>,
         faults' \in [count : 0 .. MaxFaults, mishap : BOOLEAN]
  PROVE  TInv'
<1>1. DOMAIN op = Procs /\ \A q \in Procs : op[q] # Idle => Transaction(op[q], userText)
  BY DEF TInv
<1>2. DOMAIN op' = Procs /\ \A q \in Procs : op'[q] = IF q = p THEN n ELSE op[q]
  BY <1>1
<1>3. ASSUME NEW q \in Procs, op'[q] # Idle PROVE Transaction(op'[q], userText)
  BY <1>1, <1>2, <1>3
<1>4. userText' = userText
  OBVIOUS
<1>5. \A q \in Procs : op'[q] # Idle => Transaction(op'[q], userText')
  BY <1>3, <1>4
<1>6. Snapshot(disk', userText')
  BY <1>4
<1>7. QED
  BY <1>2, <1>5, <1>6 DEF TInv

\* A process that is at a step runs a transaction.
LEMMA Running ==
  ASSUME TInv, NEW p \in Procs, op[p].pc # "idle"
  PROVE  Transaction(op[p], userText) /\ op[p] # Idle
<1>1. Idle.pc = "idle"
  BY DEF Idle
<1>2. QED
  BY <1>1 DEF TInv

\* What an install writes, and what an uninstall removes.
LEMMA Orders ==
  /\ PublishOrder \in Seq(Files) /\ PublishOrder # <<>> /\ Ordered(PublishOrder)
  /\ Left(PublishOrder) = Files
  /\ RemovalOrder \in Seq(Files) /\ RemovalOrder # <<>> /\ Ordered(RemovalOrder)
  /\ Left(RemovalOrder) = {"generated", "route", "state"}
<1>1. Ordered(PublishOrder)
  BY DEF PublishOrder, Ordered, Rank
<1>2. Ordered(RemovalOrder)
  BY DEF RemovalOrder, Ordered, Rank
<1>3. PublishOrder \in Seq(Files) /\ PublishOrder # <<>> /\ Left(PublishOrder) = Files
  BY DEF PublishOrder, Left, Files
<1>4. /\ RemovalOrder \in Seq(Files) /\ RemovalOrder # <<>>
      /\ Left(RemovalOrder) = {"generated", "route", "state"}
  BY DEF RemovalOrder, Left, Files
<1>5. QED
  BY <1>1, <1>2, <1>3, <1>4

\* A sync keeps a mode there is.
LEMMA SyncModeTyped ==
  ASSUME TInv, SyncAccepts
  PROVE  disk["route"].mode \in Modes
<1>1. disk["route"] = disk["state"].route /\ disk["state"] \in State
  BY DEF SyncAccepts, TInv, Snapshot, FilesTyped
<1>2. disk["route"] \in Route
  BY <1>1 DEF State
<1>3. QED
  BY <1>2 DEF Route

\* Transactions begin in their types, with the user's text.
LEMMA BeginKeepsT ==
  ASSUME TInv, Begin
  PROVE  TInv'
<1>0. Snapshot(disk, userText) /\ backups \in [BackupIds -> Config \cup {Absent}]
      /\ faults \in [count : 0 .. MaxFaults, mishap : BOOLEAN]
  BY DEF TInv
<1>1. ASSUME NEW mode \in Modes, BeginInstall(mode) PROVE TInv'
  <2>1. PICK plan \in PreparePickerConfig(disk["state"], disk["config"]) :
          /\ ~Refused(plan)
          /\ op' = [op EXCEPT !["cli"] = Publishing("install", plan, mode, PublishOrder)]
          /\ backups' = BackupsWith(plan)
    BY <1>1 DEF BeginInstall
  <2> DEFINE n == Publishing("install", plan, mode, PublishOrder)
  <2>2. Transaction(n, userText)
    BY <2>1, PublishingFacts, Orders
  <2>3. BackupsWith(plan) \in [BackupIds -> Config \cup {Absent}]
    BY BackupsTyped
  <2> HIDE DEF n
  <2>4. QED
    BY <1>0, <1>1, <2>1, <2>2, <2>3, OneMoves DEF BeginInstall, Procs, n
<1>2. ASSUME BeginSync PROVE TInv'
  <2> DEFINE mode == disk["route"].mode
  <2>1. PICK plan \in PreparePickerConfig(disk["state"], disk["config"]) :
          LET todo == Changed(disk, NextFiles(mode, plan))
          IN  /\ ~Refused(plan) /\ todo # <<>>
              /\ op' = [op EXCEPT !["service"] = Publishing("sync", plan, mode, todo)]
              /\ backups' = BackupsWith(plan)
    BY <1>2 DEF BeginSync
  <2> DEFINE todo == Changed(disk, NextFiles(mode, plan))
             n == Publishing("sync", plan, mode, todo)
  <2>2. todo \in Seq(Files) /\ Ordered(todo) /\ todo # <<>>
    BY <2>1, ChangedFacts
  <2>3. SyncAccepts /\ mode \in Modes
    BY <1>2, SyncModeTyped DEF BeginSync
  <2>4. op' = [op EXCEPT !["service"] = n] /\ ~Refused(plan) /\ backups' = BackupsWith(plan)
    BY <2>1
  <2> HIDE DEF todo
  <2>5. Transaction(n, userText)
    BY <2>2, <2>3, <2>4, PublishingFacts
  <2>6. BackupsWith(plan) \in [BackupIds -> Config \cup {Absent}]
    BY BackupsTyped
  <2> HIDE DEF n
  <2>7. QED
    BY <1>0, <1>2, <2>4, <2>5, <2>6, OneMoves DEF BeginSync, Procs
<1>3. ASSUME BeginUninstall PROVE TInv'
  <2> DEFINE n == [kind |-> "uninstall", pc |-> "config", entry |-> disk, next |-> NoFiles,
                   todo |-> RemovalOrder, fresh |-> Absent, old |-> disk["state"].rollback]
  <2>1. /\ DOMAIN n = DOMAIN Idle /\ n.kind = "uninstall" /\ n.pc = "config" /\ n.entry = disk
        /\ n.next = NoFiles /\ n.todo = RemovalOrder /\ n.fresh = Absent
        /\ n.old = disk["state"].rollback
    BY DEF Idle
  <2>2. op' = [op EXCEPT !["cli"] = n]
    BY <1>3 DEF BeginUninstall
  <2> HIDE DEF n
  <2>3. Described(disk) /\ disk["config"] # Absent
    BY <1>3 DEF BeginUninstall, UninstallAccepts, SyncAccepts, Described
  <2>4. RemovalPlan(n, userText)
    BY <1>0, <2>1, <2>3 DEF RemovalPlan
  <2>5. Transaction(n, userText)
    BY <2>1, <2>4, Orders DEF Transaction, Removes
  <2>6. QED
    BY <1>0, <1>3, <2>2, <2>5, OneMoves DEF BeginUninstall, Procs
<1>4. ASSUME PrepareRefused \/ FallbackMissing PROVE TInv'
  <2>1. /\ backups' \in [BackupIds -> Config \cup {Absent}]
        /\ UNCHANGED <<disk, op, native, grok, serviceUp, userText>>
    BY <1>4, BackupsTyped DEF PrepareRefused, FallbackMissing
  <2>2. faults' \in [count : 0 .. MaxFaults, mishap : BOOLEAN]
    BY <1>0, <1>4, FaultFacts DEF PrepareRefused, FallbackMissing
  <2>3. QED
    BY <2>1, <2>2 DEF TInv
<1>5. QED
  BY <1>1, <1>2, <1>3, <1>4 DEF Begin

\* Every file operation, done, failed or cut short, keeps types and text.
LEMMA AdvanceKeepsT ==
  ASSUME TInv, NEW p \in Procs, Advance(p) \/ Crash(p)
  PROVE  TInv'
<1> DEFINE o == op[p]  f == Head(o.todo)
<1>0. Snapshot(disk, userText) /\ backups \in [BackupIds -> Config \cup {Absent}]
      /\ faults \in [count : 0 .. MaxFaults, mishap : BOOLEAN]
  BY DEF TInv
<1>1. o.pc # "idle" => Transaction(o, userText)
  BY Running
<1>2. o.pc # "idle" => Snapshot(o.entry, userText) /\ o.fresh \in BackupIds \cup {Absent}
  BY <1>1 DEF Transaction, PublicationPlan, RemovalPlan
<1>3. o.pc # "idle" => (o.old # Absent => o.old.id \in BackupIds /\ o.old.content \in Config)
  <2>1. o.pc # "idle" => o.old = Absent \/ o.old = ReceiptOf(o.entry["state"])
    BY <1>1 DEF Transaction, PublicationPlan, RemovalPlan, Described, ReceiptOf
  <2>2. o.pc # "idle" => o.entry["state"] \in State \cup {Absent}
    BY <1>2 DEF Snapshot, FilesTyped
  <2>3. ReceiptOf(o.entry["state"]) \in Rollback \/ o.pc = "idle"
    BY <2>2 DEF ReceiptOf, State, Rollback
  <2>4. QED
    BY <2>1, <2>3 DEF Rollback, Receipt
<1>4. o.pc = "write" \/ o.pc = "undo" => f \in Files
  <2>1. o.pc = "write" \/ o.pc = "undo" => o.todo \in Seq(Files) /\ o.todo # <<>>
    BY <1>1 DEF Transaction
  <2>2. QED
    BY <2>1, HeadFacts
<1>5. o.pc = "write" => Snapshot([disk EXCEPT ![f] = o.next[f]], userText)
  <2>1. SUFFICES ASSUME o.pc = "write" PROVE Snapshot([disk EXCEPT ![f] = o.next[f]], userText)
    OBVIOUS
  <2>2. CASE Removes(o)
    <3>1. o.next = NoFiles /\ "config" \notin Left(o.todo) /\ o.todo \in Seq(Files) /\ o.todo # <<>>
      BY <1>1, <2>1, <2>2 DEF Transaction, RemovalPlan, PublicationPlan, Removes
    <3>2. f # "config"
      BY <3>1, HeadFacts
    <3>3. o.next[f] = Absent
      BY <1>4, <2>1, <3>1 DEF NoFiles
    <3> HIDE DEF f, o
    <3>4. QED
      BY <1>0, <1>4, <2>1, <3>2, <3>3, Mixed
  <2>3. CASE ~Removes(o)
    <3>1. Snapshot(o.next, userText)
      BY <1>1, <2>1, <2>3 DEF Transaction, PublicationPlan, RemovalPlan, Removes
    <3> HIDE DEF f, o
    <3>2. QED
      BY <1>0, <1>4, <2>1, <3>1, Mixed
  <2>4. QED
    BY <2>2, <2>3
<1>6. CASE WriteNext(p)
  <2>1. /\ o.pc = "write" /\ disk' = [disk EXCEPT ![f] = o.next[f]]
        /\ op' = [op EXCEPT ![p] = Continue(o)]
        /\ UNCHANGED <<backups, native, grok, serviceUp, userText, faults>>
    BY <1>6 DEF WriteNext, Step
  <2>2. Continue(o) = Idle \/ Transaction(Continue(o), userText)
    BY <1>1, <2>1, ContinueFacts
  <2>3. QED
    BY <1>0, <1>5, <2>1, <2>2, OneMoves
<1>7. CASE WriteFails(p) \/ WriteUnsynced(p)
  <2>1. /\ o.pc = "write" /\ disk' \in {disk, [disk EXCEPT ![f] = o.next[f]]}
        /\ op' = [op EXCEPT ![p] = Undoing(o, f)]
        /\ UNCHANGED <<backups, native, grok, serviceUp, userText>>
    BY <1>7 DEF WriteFails, WriteUnsynced, Step
  <2>2. Transaction(Undoing(o, f), userText)
    BY <1>1, <2>1, UndoingFacts
  <2>3. faults' \in [count : 0 .. MaxFaults, mishap : BOOLEAN]
    BY <1>0, <1>7, FaultFacts DEF WriteFails, WriteUnsynced
  <2>4. Snapshot(disk', userText)
    BY <1>0, <1>5, <2>1
  <2>5. QED
    BY <1>0, <2>1, <2>2, <2>3, <2>4, OneMoves
<1>8. CASE UndoNext(p) \/ UndoFails(p)
  <2> DEFINE n == After(o, Tail(o.todo), "abort")
  <2>1. /\ o.pc = "undo" /\ disk' \in {disk, [disk EXCEPT ![f] = o.entry[f]]}
        /\ op' = [op EXCEPT ![p] = n] \/ op' = [op EXCEPT ![p] = Idle]
        /\ UNCHANGED <<backups, native, grok, serviceUp, userText>>
    BY <1>8 DEF UndoNext, UndoFails, Step
  <2>2. Transaction(n, userText)
    BY <1>1, <2>1, RestoringFacts
  <2>3. faults' \in [count : 0 .. MaxFaults, mishap : BOOLEAN]
    BY <1>0, <1>8, FaultFacts DEF UndoNext, UndoFails
  <2> HIDE DEF n, f, o
  <2>4. Snapshot(disk', userText)
    BY <1>0, <1>2, <1>4, <2>1, Mixed
  <2>5. QED
    BY <1>0, <2>1, <2>2, <2>3, <2>4, OneMoves
<1>9. CASE Abort(p) \/ AbortFails(p) \/ Finish(p) \/ FinishFails(p)
  <2>1. /\ o.pc # "idle" /\ UNCHANGED <<disk, native, grok, serviceUp, userText>>
        /\ op' = [op EXCEPT ![p] = Idle]
    BY <1>9 DEF Abort, AbortFails, Finish, FinishFails, Step
  <2>2. faults' \in [count : 0 .. MaxFaults, mishap : BOOLEAN]
    BY <1>0, <1>9, FaultFacts DEF Abort, AbortFails, Finish, FinishFails
  <2>3. backups' \in [BackupIds -> Config \cup {Absent}]
    <3>1. CASE Abort(p)
      BY <1>0, <1>2, <1>3, <2>1, <3>1 DEF Abort
    <3>2. CASE Finish(p)
      BY <1>0, <1>2, <1>3, <2>1, <3>2 DEF Finish
    <3>3. CASE AbortFails(p) \/ FinishFails(p)
      BY <1>0, <3>3 DEF AbortFails, FinishFails
    <3>4. QED
      BY <1>9, <3>1, <3>2, <3>3
  <2>4. QED
    BY <1>0, <2>1, <2>2, <2>3, OneMoves
<1>10. CASE Crash(p)
  <2>1. faults' \in [count : 0 .. MaxFaults, mishap : BOOLEAN]
    BY <1>10, FaultFacts DEF Crash
  <2>2. QED
    BY <1>0, <1>10, <2>1, OneMoves DEF Crash, Step
<1>11. QED
  BY <1>6, <1>7, <1>8, <1>9, <1>10 DEF Advance

\* What an uninstall gives config.toml back is the user's text.
LEMMA RolledBackFacts ==
  ASSUME TInv, op["cli"].pc = "config", ~RollbackRefused(op["cli"])
  PROVE  /\ RolledBack(op["cli"]) \in Config \cup {Absent}
         /\ TextOf(RolledBack(op["cli"])) = userText
         /\ RolledBack(op["cli"]) # Absent => RolledBack(op["cli"]).keys = "none"
<1> DEFINE o == op["cli"]  config == disk["config"]  state == o.entry["state"]
           b == RolledBack(o)
<1>1. Transaction(o, userText)
  BY Running DEF Procs
<1>2. RemovalPlan(o, userText)
  BY <1>1 DEF Transaction, PublicationPlan, Removes
<1>3. /\ state \in State /\ o.old = state.rollback /\ SoundState(state, userText)
      /\ o.old \in Rollback
  <2>1. state # Absent /\ state \in State \cup {Absent} /\ o.old = state.rollback
        /\ SoundState(state, userText)
    BY <1>2 DEF RemovalPlan, Snapshot, FilesTyped, Described
  <2>2. QED
    BY <2>1 DEF State
<1>4. config \in Config /\ config.text = userText /\ config # Absent
  BY DEF RollbackRefused, TInv, Snapshot, FilesTyped, TextOf
<1>5. Absent \notin Config /\ Absent \notin Receipt /\ Absent \notin State
  BY AbsentAssumption
<1>6. b = IF config # state.config THEN RemoveManaged(config)
          ELSE IF o.old # Absent THEN o.old.content ELSE Absent
  BY DEF RolledBack
<1> HIDE DEF b, config, state
<1>7. CASE config # state.config
  <2>1. /\ RemoveManaged(config) \in Config /\ RemoveManaged(config).text = userText
        /\ RemoveManaged(config).keys = "none"
    BY <1>4 DEF RemoveManaged, Config
  <2>2. QED
    BY <1>5, <1>6, <1>7, <2>1 DEF TextOf, b
<1>8. CASE config = state.config /\ o.old # Absent
  <2>1. o.old \in Receipt
    BY <1>3, <1>8 DEF Rollback
  <2>2. o.old.content \in Config /\ o.old.content.keys = "none"
    BY <1>3, <1>5, <1>8, <2>1 DEF Receipt, SoundState
  <2>3. TextOf(o.old.content) = userText
    BY <1>3, <1>4, <1>5, <1>8 DEF SoundState
  <2>4. QED
    BY <1>6, <1>8, <2>2, <2>3 DEF b
<1>9. CASE config = state.config /\ o.old = Absent
  <2>1. TextOf(Absent) = userText
    BY <1>3, <1>4, <1>5, <1>9 DEF SoundState
  <2>2. QED
    BY <1>6, <1>9, <2>1 DEF b
<1>10. QED
  BY <1>7, <1>8, <1>9

\* So does taking the configuration back, and the backup after it.
LEMMA RollbackKeepsT ==
  ASSUME TInv, AdvanceRollback
  PROVE  TInv'
<1> DEFINE o == op["cli"]
<1>0. Snapshot(disk, userText) /\ backups \in [BackupIds -> Config \cup {Absent}]
      /\ faults \in [count : 0 .. MaxFaults, mishap : BOOLEAN] /\ "cli" \in Procs
  BY DEF TInv, Procs
<1>1. o.pc # "idle" => Transaction(o, userText)
  BY <1>0, Running
<1>2. ASSUME o.pc = "config", ~RollbackRefused(o)
      PROVE  Snapshot([disk EXCEPT !["config"] = RolledBack(o)], userText)
  <2>1. /\ RolledBack(o) \in Config \cup {Absent} /\ TextOf(RolledBack(o)) = userText
    BY <1>2, RolledBackFacts
  <2> DEFINE b == RolledBack(o)  new == [disk EXCEPT !["config"] = b]
  <2>2. /\ DOMAIN new = Files /\ new["config"] = b /\ new["generated"] = disk["generated"]
        /\ new["route"] = disk["route"] /\ new["state"] = disk["state"]
    BY <1>0 DEF Snapshot, FilesTyped, Files
  <2> HIDE DEF b, new
  <2>3. Snapshot(new, userText)
    BY <1>0, <2>1, <2>2 DEF Snapshot, FilesTyped, b
  <2>4. QED
    BY <2>3 DEF new, b
<1>3. CASE RollbackConfig
  <2> DEFINE pc == IF o.old = Absent THEN "write" ELSE "backup"  n == [o EXCEPT !.pc = pc]
  <2>1. /\ o.pc = "config" /\ ~RollbackRefused(o)
        /\ disk' = [disk EXCEPT !["config"] = RolledBack(o)]
        /\ op' = [op EXCEPT !["cli"] = n]
        /\ UNCHANGED <<backups, native, grok, serviceUp, userText, faults>>
    BY <1>3 DEF RollbackConfig, Step
  <2>2. pc \in {"backup", "write"}
    OBVIOUS
  <2> HIDE DEF pc
  <2>3. Transaction(n, userText)
    BY <1>1, <2>1, <2>2, SteppingFacts
  <2>4. Snapshot(disk', userText)
    BY <1>2, <2>1
  <2> HIDE DEF n, o
  <2>5. QED
    BY <1>0, <2>1, <2>3, <2>4, OneMoves
<1>4. CASE DropBackup
  <2> DEFINE n == [o EXCEPT !.pc = "write"]
  <2>1. /\ o.pc = "backup" /\ backups' = [backups EXCEPT ![o.old.id] = Absent]
        /\ op' = [op EXCEPT !["cli"] = n]
        /\ UNCHANGED <<disk, native, grok, serviceUp, userText, faults>>
    BY <1>4 DEF DropBackup, Step
  <2>2. Transaction(n, userText)
    BY <1>1, <2>1, SteppingFacts
  <2>3. backups' \in [BackupIds -> Config \cup {Absent}]
    BY <1>0, <2>1
  <2> HIDE DEF n
  <2>4. QED
    BY <1>0, <2>1, <2>2, <2>3, OneMoves
<1>5. CASE RollbackConfigFails \/ DropBackupFails
  <2>1. /\ op' = [op EXCEPT !["cli"] = Idle]
        /\ UNCHANGED <<disk, backups, native, grok, serviceUp, userText>>
    BY <1>5 DEF RollbackConfigFails, DropBackupFails, Step
  <2>2. faults' \in [count : 0 .. MaxFaults, mishap : BOOLEAN]
    BY <1>0, <1>5, FaultFacts DEF RollbackConfigFails, DropBackupFails
  <2>3. QED
    BY <1>0, <2>1, <2>2, OneMoves
<1>6. CASE RollbackConfigUnsynced
  <2>1. /\ o.pc = "config" /\ ~RollbackRefused(o) /\ Fault("fsync")
        /\ disk' = [disk EXCEPT !["config"] = RolledBack(o)]
        /\ op' = [op EXCEPT !["cli"] = Idle]
        /\ UNCHANGED <<backups, native, grok, serviceUp, userText>>
    BY <1>6 DEF RollbackConfigUnsynced, Step
  <2>2. Snapshot(disk', userText) /\ faults' \in [count : 0 .. MaxFaults, mishap : BOOLEAN]
    BY <1>2, <2>1, FaultFacts
  <2>3. QED
    BY <1>0, <2>1, <2>2, OneMoves
<1>7. QED
  BY <1>3, <1>4, <1>5, <1>6 DEF AdvanceRollback

\* An edit of config.toml: it is what the user gave it, and newer than any other.
LEMMA EditFacts ==
  ASSUME TInv, NEW kind \in EditKinds, EditConfig(kind)
  PROVE  /\ userText' \in Nat /\ userText' \in Text
         /\ userText # Absent => userText \in Nat /\ userText < userText'
         /\ DOMAIN disk' = Files /\ (\A f \in Files \ {"config"} : disk'[f] = disk[f])
         /\ disk'["config"] \in Config /\ disk'["config"].text = userText'
         /\ disk'["config"].keys = "ours" => disk["config"] # Absent /\ disk["config"].keys = "ours"
<1> DEFINE config == disk["config"]
           new == CASE config = Absent -> Plain(NextText)
                    [] config # Absent /\ kind = "rewrite" ->
                         [config EXCEPT !.text = NextText, !.marks = "none"]
                    [] config # Absent /\ kind = "append" -> [config EXCEPT !.text = NextText]
                    [] config # Absent /\ kind = "strip" ->
                         [config EXCEPT !.text = NextText,
                                        !.keys = IF @ = "none" THEN "none" ELSE "other"]
<1>1. userText \in Text /\ NextText \in Text /\ userText' = NextText /\ kind \in EditKinds
      /\ disk' = [disk EXCEPT !["config"] = new]
  BY DEF EditConfig, TInv
<1>2. /\ NextText \in Nat
      /\ userText # Absent => userText \in Nat /\ userText < NextText
  BY <1>1, BoundsAssumption DEF NextText, Text
<1>3. config \in Config \cup {Absent} /\ DOMAIN disk = Files
  BY DEF TInv, Snapshot, FilesTyped
<1>4. kind \in {"rewrite", "append", "strip"}
  BY BoundsAssumption
<1> HIDE DEF config
<1>5. new \in Config /\ new.text = NextText /\ (new.keys = "ours" => config # Absent /\ config.keys = "ours")
  <2>1. CASE config = Absent
    <3>1. new = Plain(NextText)
      BY <2>1
    <3> HIDE DEF new
    <3>2. QED
      BY <1>1, <3>1 DEF Plain, Config
  <2>2. CASE config # Absent /\ kind = "rewrite"
    <3>1. new = [config EXCEPT !.text = NextText, !.marks = "none"]
      BY <2>2
    <3> HIDE DEF new
    <3>2. QED
      BY <1>1, <1>3, <2>2, <3>1 DEF Config
  <2>3. CASE config # Absent /\ kind = "append"
    <3>1. new = [config EXCEPT !.text = NextText]
      BY <2>3
    <3> HIDE DEF new
    <3>2. QED
      BY <1>1, <1>3, <2>3, <3>1 DEF Config
  <2>4. CASE config # Absent /\ kind = "strip"
    <3>1. new = [config EXCEPT !.text = NextText,
                               !.keys = IF @ = "none" THEN "none" ELSE "other"]
      BY <2>4
    <3> HIDE DEF new
    <3>2. QED
      BY <1>1, <1>3, <2>4, <3>1 DEF Config
  <2>5. QED
    BY <1>3, <1>4, <2>1, <2>2, <2>3, <2>4
<1> HIDE DEF new
<1>6. DOMAIN disk' = Files /\ disk'["config"] = new /\ \A f \in Files \ {"config"} : disk'[f] = disk[f]
  BY <1>1, <1>3 DEF Files
<1>7. QED
  BY <1>1, <1>2, <1>5, <1>6 DEF config

\* An older receipt gives back a text that is older still.
LEMMA EnvironmentKeepsT ==
  ASSUME TInv, Environment
  PROVE  TInv'
<1>1. ASSUME NEW kind \in EditKinds, EditConfig(kind) PROVE TInv'
  <2>1. /\ userText' \in Nat /\ userText' \in Text
        /\ userText # Absent => userText \in Nat /\ userText < userText'
        /\ DOMAIN disk' = Files /\ (\A f \in Files \ {"config"} : disk'[f] = disk[f])
        /\ disk'["config"] \in Config /\ disk'["config"].text = userText'
    BY <1>1, EditFacts
  <2>2. /\ disk'["generated"] = disk["generated"] /\ disk'["route"] = disk["route"]
        /\ disk'["state"] = disk["state"]
    BY <2>1 DEF Files
  <2>3. FilesTyped(disk) /\ SoundState(disk["state"], userText)
    BY DEF TInv, Snapshot
  <2>4. disk["state"] # Absent => disk["state"] \in State
    BY <2>3 DEF FilesTyped
  <2>5. disk["state"] # Absent => disk["state"].config.text \in Text
    BY <2>4 DEF State, Config
  <2>6. disk["state"] # Absent /\ disk["state"].config.text # Absent =>
          /\ disk["state"].config.text \in Nat /\ userText # Absent
          /\ disk["state"].config.text <= userText
    BY <2>3, <2>5, BoundsAssumption DEF SoundState, Text
  <2>7. disk["state"] # Absent /\ disk["state"].config.text # Absent =>
          userText' # Absent /\ disk["state"].config.text <= userText'
    BY <2>1, <2>6, BoundsAssumption
  <2>8. SoundState(disk["state"], userText')
    BY <2>3, <2>7 DEF SoundState
  <2>9. TextOf(disk'["config"]) = userText'
    BY <2>1, AbsentAssumption DEF TextOf
  <2>10. Snapshot(disk', userText')
    BY <2>1, <2>2, <2>3, <2>8, <2>9 DEF Snapshot, FilesTyped
  <2>11. \A p \in Procs : op[p] = Idle
    BY <1>1 DEF EditConfig, AllIdle
  <2>12. QED
    BY <1>1, <2>1, <2>10, <2>11 DEF EditConfig, TInv
<1>2. CASE StopService \/ StartService
  <2>1. serviceUp' \in BOOLEAN /\ UNCHANGED <<disk, backups, op, native, grok, userText, faults>>
    BY <1>2 DEF StopService, StartService
  <2>2. QED
    BY <2>1 DEF TInv
<1>3. CASE RefreshNative \/ RefreshGrok
  <2>1. /\ native' \in 0 .. MaxVersions /\ grok' \in 0 .. MaxVersions
        /\ UNCHANGED <<disk, backups, op, serviceUp, userText, faults>>
    BY <1>3, BoundsAssumption DEF RefreshNative, RefreshGrok, TInv
  <2>2. QED
    BY <2>1 DEF TInv
<1>4. QED
  BY <1>1, <1>2, <1>3 DEF Environment

\* Nothing is installed, and nothing runs.
LEMMA InitFacts ==
  ASSUME Init
  PROVE  /\ TInv /\ AllIdle
         /\ disk["generated"] = Absent /\ disk["route"] = Absent /\ disk["state"] = Absent
         /\ disk["config"] # Absent => disk["config"] = Plain(0)
<1>1. /\ DOMAIN disk = Files /\ disk["generated"] = Absent /\ disk["route"] = Absent
      /\ disk["state"] = Absent
      /\ disk["config"] = IF userText = Absent THEN Absent ELSE Plain(0)
  BY DEF Init, NoFiles, Files
<1>2. Plain(0) \in Config /\ Plain(0).text = 0 /\ userText \in {0, Absent} /\ userText \in Text
  BY BoundsAssumption DEF Init, Plain, Config, Text
<1>3. TextOf(disk["config"]) = userText
  BY <1>1, <1>2, AbsentAssumption DEF TextOf
<1>4. Snapshot(disk, userText)
  BY <1>1, <1>2, <1>3 DEF Snapshot, FilesTyped, SoundState
<1>5. /\ backups \in [BackupIds -> Config \cup {Absent}] /\ DOMAIN op = Procs
      /\ \A p \in Procs : op[p] = Idle
  BY DEF Init
<1>6. native \in 0 .. MaxVersions /\ grok \in 0 .. MaxVersions /\ serviceUp \in BOOLEAN
  <2>1. 0 \in 0 .. MaxVersions
    BY BoundsAssumption
  <2>2. native = 0 /\ grok = 0 /\ serviceUp = FALSE
    BY DEF Init
  <2>3. QED
    BY <2>1, <2>2
<1>7. faults \in [count : 0 .. MaxFaults, mishap : BOOLEAN]
  <2>1. 0 \in 0 .. MaxFaults
    BY BoundsAssumption
  <2>2. QED
    BY <2>1 DEF Init
<1>8. QED
  BY <1>1, <1>2, <1>4, <1>5, <1>6, <1>7 DEF TInv, AllIdle

\* The invariant of types and texts is inductive.
LEMMA StepKeepsT ==
  ASSUME TInv, [Next]_vars
  PROVE  TInv'
<1>1. CASE Next
  BY <1>1, BeginKeepsT, AdvanceKeepsT, RollbackKeepsT, EnvironmentKeepsT DEF Next
<1>2. CASE UNCHANGED vars
  BY <1>2 DEF vars, TInv
<1>3. QED
  BY <1>1, <1>2

\* It holds in every state.
LEMMA TInvHolds == Spec => []TInv
<1>1. Init => TInv
  BY InitFacts
<1>2. TInv /\ [Next]_vars => TInv'
  BY StepKeepsT
<1>3. QED
  BY <1>1, <1>2, PTL DEF Spec

\* Type correctness: whatever fails or dies, the files of install_picker,
\* sync_installed_picker_catalog and uninstall_picker hold what they should, and a
\* transaction that writes or restores always has a file left to write or restore.
THEOREM TypeCorrect == Spec => []TypeOK
<1>1. TInv => TypeOK
  <2>1. SUFFICES ASSUME TInv PROVE TypeOK
    OBVIOUS
  <2>2. DOMAIN disk = Files /\ DiskType
    BY <2>1 DEF TInv, Snapshot, FilesTyped, DiskType
  <2>3. ASSUME NEW p \in Procs
        PROVE  /\ op[p].kind \in {"idle", "install", "sync", "uninstall"}
               /\ op[p].pc \in {"idle", "config", "backup", "write", "undo", "abort", "finish"}
               /\ op[p].pc \in {"write", "undo"} => op[p].todo # <<>>
               /\ op[p].todo \in Seq(Files)
               /\ op[p].fresh \in BackupIds \cup {Absent}
               /\ op[p].old \in Rollback
    <3>1. CASE op[p] = Idle
      BY <3>1 DEF Idle, Rollback
    <3>2. CASE op[p] # Idle
      <4> DEFINE o == op[p]
      <4>1. Transaction(o, userText)
        BY <2>1, <3>2 DEF TInv
      <4> HIDE DEF o
      <4>2. /\ o.kind \in {"install", "sync", "uninstall"} /\ Snapshot(o.entry, userText)
            /\ o.fresh \in BackupIds \cup {Absent}
            /\ o.old = Absent \/ o.old = ReceiptOf(o.entry["state"])
        BY <4>1 DEF Transaction, PublicationPlan, RemovalPlan, Described, ReceiptOf
      <4>3. o.old \in Rollback
        BY <4>2 DEF Snapshot, FilesTyped, ReceiptOf, State, Rollback
      <4>4. /\ o.pc \in {"config", "backup", "write", "undo", "abort", "finish"}
            /\ o.todo \in Seq(Files) /\ (o.pc \in {"write", "undo"} => o.todo # <<>>)
        BY <4>1 DEF Transaction
      <4>5. QED
        BY <4>2, <4>3, <4>4 DEF o
    <3>3. QED
      BY <3>1, <3>2
  <2>4. QED
    BY <2>1, <2>2, <2>3 DEF TypeOK, TInv
<1>2. QED
  BY <1>1, TInvHolds, PTL

\* The user's part of config.toml survives every file operation: whatever fails or
\* dies, rendering, rolling back to a backup and compensating bring no older text back.
THEOREM UserTextKeptHolds == Spec => []UserTextKept
<1>1. TInv => UserTextKept
  BY DEF TInv, Snapshot, UserTextKept
<1>2. QED
  BY <1>1, TInvHolds, PTL

-----------------------------------------------------------------------------
(* Who runs what.                                                           *)

\* The service syncs while it is loaded; a command line installs only while it is
\* not, and without the overlap of `picker uninstall` does nothing else then.
Roles ==
  /\ op["service"] # Idle => serviceUp /\ op["service"].kind = "sync"
  /\ op["cli"] # Idle => op["cli"].kind \in {"install", "uninstall"}
  /\ op["cli"].kind = "install" \/ (op["cli"] # Idle /\ ~Overlap) => ~serviceUp

\* The modes of the published route and of the routes running transactions found.
OneMode ==
  /\ op["service"] # Idle /\ disk["route"] # Absent =>
       disk["route"].mode = op["service"].entry["route"].mode
  /\ op["cli"].kind = "uninstall" /\ disk["route"] # Absent =>
       disk["route"].mode = op["cli"].entry["route"].mode
  /\ op["service"] # Idle /\ op["cli"].kind = "uninstall" =>
       op["service"].entry["route"].mode = op["cli"].entry["route"].mode

\* The plan a transaction keeps while it runs.
SamePlan(o, n) ==
  /\ n.kind = o.kind /\ n.entry = o.entry /\ n.next = o.next
  /\ n.fresh = o.fresh /\ n.old = o.old

\* A step of a running transaction: it goes on with its plan or is over, and the route
\* on disk is one of those it knows.
LEMMA AdvanceShape ==
  ASSUME TInv, NEW p \in Procs, Advance(p) \/ Crash(p)
  PROVE  /\ op[p] # Idle /\ Transaction(op[p], userText)
         /\ DOMAIN op' = Procs /\ \A q \in Procs \ {p} : op'[q] = op[q]
         /\ op'[p] # Idle => SamePlan(op[p], op'[p])
         /\ disk'["route"] \in {disk["route"], op[p].entry["route"], op[p].next["route"]}
         /\ UNCHANGED <<native, grok, serviceUp, userText>>
<1> DEFINE o == op[p]  f == Head(o.todo)
<1>0. DOMAIN op = Procs /\ DOMAIN disk = Files /\ "route" \in Files
  BY DEF TInv, Snapshot, FilesTyped, Files
<1>1. o # Idle /\ Transaction(o, userText)
  <2>1. Idle.pc = "idle"
    BY DEF Idle
  <2>2. o # Idle
    BY <2>1 DEF Advance, WriteNext, UndoNext, Abort, Finish, WriteFails, WriteUnsynced,
                UndoFails, AbortFails, FinishFails, Crash
  <2>3. QED
    BY <2>2 DEF TInv
<1>2. UNCHANGED <<native, grok, serviceUp, userText>>
  BY DEF Advance, WriteNext, UndoNext, Abort, Finish, WriteFails, WriteUnsynced,
         UndoFails, AbortFails, FinishFails, Crash
<1>3. \/ UNCHANGED disk
      \/ disk' = [disk EXCEPT ![f] = o.next[f]] \/ disk' = [disk EXCEPT ![f] = o.entry[f]]
  BY DEF Advance, WriteNext, UndoNext, Abort, Finish, WriteFails, WriteUnsynced,
         UndoFails, AbortFails, FinishFails, Crash
<1>4. disk'["route"] \in {disk["route"], o.entry["route"], o.next["route"]}
  <2> HIDE DEF o, f
  <2>1. QED
    BY <1>0, <1>3
<1>5. \E n : op' = [op EXCEPT ![p] = n] /\ (n # Idle => SamePlan(o, n))
  <2>1. CASE WriteNext(p)
    <3>1. op' = [op EXCEPT ![p] = Continue(o)] /\ o.pc = "write"
      BY <2>1 DEF WriteNext, Step
    <3>2. QED
      BY <1>1, <3>1, ContinueFacts DEF SamePlan
  <2>2. CASE WriteFails(p) \/ WriteUnsynced(p)
    <3>1. op' = [op EXCEPT ![p] = Undoing(o, f)] /\ o.pc = "write"
      BY <2>2 DEF WriteFails, WriteUnsynced, Step
    <3>2. QED
      BY <1>1, <3>1, UndoingFacts DEF SamePlan
  <2>3. CASE UndoNext(p) \/ UndoFails(p)
    <3>1. /\ o.pc = "undo"
          /\ \/ op' = [op EXCEPT ![p] = After(o, Tail(o.todo), "abort")]
             \/ op' = [op EXCEPT ![p] = Idle]
      BY <2>3 DEF UndoNext, UndoFails, Step
    <3>2. SamePlan(o, After(o, Tail(o.todo), "abort"))
      BY <1>1, <3>1, RestoringFacts DEF SamePlan
    <3>3. QED
      BY <3>1, <3>2
  <2>4. CASE Abort(p) \/ AbortFails(p) \/ Finish(p) \/ FinishFails(p) \/ Crash(p)
    <3>1. op' = [op EXCEPT ![p] = Idle]
      BY <2>4 DEF Abort, AbortFails, Finish, FinishFails, Crash, Step
    <3>2. QED
      BY <3>1
  <2>5. QED
    BY <2>1, <2>2, <2>3, <2>4 DEF Advance
<1>6. QED
  BY <1>0, <1>1, <1>2, <1>4, <1>5

\* A step of an uninstall before its removals.
LEMMA RollbackShape ==
  ASSUME TInv, AdvanceRollback
  PROVE  /\ op["cli"] # Idle /\ Transaction(op["cli"], userText) /\ Removes(op["cli"])
         /\ DOMAIN op' = Procs /\ op'["service"] = op["service"]
         /\ op'["cli"] # Idle => SamePlan(op["cli"], op'["cli"])
         /\ DOMAIN disk' = Files /\ (\A f \in Files \ {"config"} : disk'[f] = disk[f])
         /\ UNCHANGED <<native, grok, serviceUp, userText>>
<1> DEFINE o == op["cli"]
<1>0. DOMAIN op = Procs /\ "cli" \in Procs /\ "service" \in Procs /\ DOMAIN disk = Files
  BY DEF TInv, Snapshot, FilesTyped, Procs
<1>1. o.pc \in {"config", "backup"}
  BY DEF AdvanceRollback, RollbackConfig, DropBackup, RollbackConfigFails,
         RollbackConfigUnsynced, DropBackupFails
<1>2. o # Idle /\ Transaction(o, userText)
  BY <1>0, <1>1, Running
<1>3. Removes(o)
  BY <1>1, <1>2 DEF Transaction
<1>4. UNCHANGED <<native, grok, serviceUp, userText>>
  BY DEF AdvanceRollback, RollbackConfig, DropBackup, RollbackConfigFails,
         RollbackConfigUnsynced, DropBackupFails
<1>5. UNCHANGED disk \/ disk' = [disk EXCEPT !["config"] = RolledBack(o)]
  BY DEF AdvanceRollback, RollbackConfig, DropBackup, RollbackConfigFails,
         RollbackConfigUnsynced, DropBackupFails
<1>6. \E n : op' = [op EXCEPT !["cli"] = n] /\ (n # Idle => SamePlan(o, n))
  <2>1. \A pc \in {"backup", "write"} : SamePlan(o, [o EXCEPT !.pc = pc])
    BY <1>1, <1>2, SteppingFacts DEF SamePlan
  <2>2. \/ op' = [op EXCEPT !["cli"] = Idle]
        \/ op' = [op EXCEPT !["cli"] = [o EXCEPT !.pc = IF o.old = Absent THEN "write" ELSE "backup"]]
        \/ op' = [op EXCEPT !["cli"] = [o EXCEPT !.pc = "write"]]
    BY DEF AdvanceRollback, RollbackConfig, DropBackup, RollbackConfigFails,
           RollbackConfigUnsynced, DropBackupFails, Step
  <2>3. SamePlan(o, [o EXCEPT !.pc = IF o.old = Absent THEN "write" ELSE "backup"])
    BY <2>1
  <2>4. SamePlan(o, [o EXCEPT !.pc = "write"])
    BY <2>1
  <2>5. QED
    BY <2>2, <2>3, <2>4
<1>7. op'["service"] = op["service"] /\ DOMAIN op' = Procs
      /\ (op'["cli"] # Idle => SamePlan(o, op'["cli"]))
  BY <1>0, <1>6
<1>8. DOMAIN disk' = Files /\ \A f \in Files \ {"config"} : disk'[f] = disk[f]
  BY <1>0, <1>5
<1>9. QED
  BY <1>2, <1>3, <1>4, <1>7, <1>8

\* A transaction that begins: whose it is and what it found.
LEMMA BeginShape ==
  ASSUME TInv, Begin
  PROVE  /\ DOMAIN op' = Procs /\ UNCHANGED <<disk, native, grok, serviceUp, userText>>
         /\ op'["service"] # op["service"] =>
              /\ op'["cli"] = op["cli"] /\ op["service"] = Idle
              /\ serviceUp /\ SyncAccepts
              /\ op'["service"].kind = "sync" /\ op'["service"].entry = disk
         /\ op'["cli"] # op["cli"] =>
              /\ op'["service"] = op["service"] /\ op["cli"] = Idle
              /\ op'["cli"].entry = disk
              /\ \/ op'["cli"].kind = "install" /\ ~serviceUp
                 \/ op'["cli"].kind = "uninstall" /\ SyncAccepts /\ (serviceUp => Overlap)
<1>0. DOMAIN op = Procs /\ "cli" \in Procs /\ "service" \in Procs
  BY DEF TInv, Procs
<1>1. UNCHANGED <<disk, native, grok, serviceUp, userText>>
  BY DEF Begin, BeginInstall, BeginSync, BeginUninstall, PrepareRefused, FallbackMissing
<1>2. ASSUME NEW mode \in Modes, BeginInstall(mode)
      PROVE  /\ op["cli"] = Idle /\ ~serviceUp
             /\ \E n : op' = [op EXCEPT !["cli"] = n] /\ n.kind = "install" /\ n.entry = disk
  <2>1. PICK plan : op' = [op EXCEPT !["cli"] = Publishing("install", plan, mode, PublishOrder)]
    BY <1>2 DEF BeginInstall
  <2> DEFINE n == Publishing("install", plan, mode, PublishOrder)
  <2>2. n.kind = "install" /\ n.entry = disk
    BY DEF Publishing
  <2>3. op' = [op EXCEPT !["cli"] = n]
    BY <2>1
  <2> HIDE DEF n
  <2>4. QED
    BY <1>2, <2>2, <2>3 DEF BeginInstall
<1>3. ASSUME BeginSync
      PROVE  /\ op["service"] = Idle /\ serviceUp /\ SyncAccepts
             /\ \E n : op' = [op EXCEPT !["service"] = n] /\ n.kind = "sync" /\ n.entry = disk
  <2> DEFINE Sync(plan) == Publishing("sync", plan, disk["route"].mode,
                                      Changed(disk, NextFiles(disk["route"].mode, plan)))
  <2>1. PICK plan : op' = [op EXCEPT !["service"] = Sync(plan)]
    BY <1>3 DEF BeginSync
  <2> DEFINE n == Sync(plan)
  <2>2. n.kind = "sync" /\ n.entry = disk
    BY DEF Publishing
  <2>3. op' = [op EXCEPT !["service"] = n]
    BY <2>1
  <2> HIDE DEF n
  <2>4. QED
    BY <1>3, <2>2, <2>3 DEF BeginSync
<1>4. ASSUME BeginUninstall
      PROVE  /\ op["cli"] = Idle /\ (serviceUp => Overlap) /\ SyncAccepts
             /\ \E n : op' = [op EXCEPT !["cli"] = n] /\ n.kind = "uninstall" /\ n.entry = disk
  <2> DEFINE n == [kind |-> "uninstall", pc |-> "config", entry |-> disk, next |-> NoFiles,
                   todo |-> RemovalOrder, fresh |-> Absent, old |-> disk["state"].rollback]
  <2>1. n.kind = "uninstall" /\ n.entry = disk
    OBVIOUS
  <2>2. op' = [op EXCEPT !["cli"] = n]
    BY <1>4 DEF BeginUninstall
  <2> HIDE DEF n
  <2>3. QED
    BY <1>4, <2>1, <2>2 DEF BeginUninstall, UninstallAccepts
<1>5. CASE PrepareRefused \/ FallbackMissing
  BY <1>0, <1>1, <1>5 DEF PrepareRefused, FallbackMissing
<1>6. QED
  BY <1>0, <1>1, <1>2, <1>3, <1>4, <1>5 DEF Begin

\* Edits and refreshes leave the transactions alone; the service stops and starts
\* only while the command line does nothing.
LEMMA EnvironmentShape ==
  ASSUME TInv, Environment
  PROVE  /\ op' = op /\ disk'["route"] = disk["route"]
         /\ serviceUp' = serviceUp \/ op["cli"] = Idle
         /\ op["service"] # Idle /\ serviceUp => serviceUp'
<1>1. CASE \E kind \in EditKinds : EditConfig(kind)
  BY <1>1, EditFacts DEF EditConfig, Files
<1>2. CASE StopService \/ StartService \/ RefreshNative \/ RefreshGrok
  BY <1>2 DEF StopService, StartService, RefreshNative, RefreshGrok, AllIdle, Procs
<1>3. QED
  BY <1>1, <1>2 DEF Environment

\* Who runs what is an invariant.
LEMMA StepKeepsRoles ==
  ASSUME TInv, Roles, [Next]_vars
  PROVE  Roles'
<1>0. Idle.kind = "idle"
  BY DEF Idle
<1>1. CASE Begin
  BY <1>0, <1>1, BeginShape DEF Roles
<1>2. CASE AdvanceRollback
  BY <1>0, <1>2, RollbackShape DEF Roles, SamePlan
<1>3. CASE Environment
  BY <1>0, <1>3, EnvironmentShape DEF Roles
<1>4. ASSUME NEW p \in Procs, Advance(p) \/ Crash(p) PROVE Roles'
  BY <1>0, <1>4, AdvanceShape DEF Roles, SamePlan, Procs
<1>5. CASE UNCHANGED vars
  BY <1>5 DEF vars, Roles
<1>6. QED
  BY <1>1, <1>2, <1>3, <1>4, <1>5 DEF Next

\* What an uninstall takes back and what a sync replaces was published.
LEMMA FoundRoute ==
  ASSUME NEW text, NEW o, Transaction(o, text), o.kind \in {"sync", "uninstall"}
  PROVE  /\ o.entry["route"] \in Route /\ o.entry["route"] # Absent
         /\ o.next["route"] # Absent => o.next["route"].mode = o.entry["route"].mode
<1>1. Described(o.entry) /\ Snapshot(o.entry, text)
  BY DEF Transaction, PublicationPlan, RemovalPlan
<1>2. o.entry["state"] \in State /\ o.entry["route"] = o.entry["state"].route
  BY <1>1 DEF Described, Snapshot, FilesTyped
<1>3. o.entry["route"] \in Route /\ o.entry["route"] # Absent
  BY <1>2, AbsentAssumption DEF State
<1>4. o.kind = "uninstall" => o.next["route"] = Absent
  BY DEF Transaction, PublicationPlan, RemovalPlan, NoFiles, Files
<1>5. o.kind = "sync" => o.next["route"].mode = o.entry["route"].mode
  BY DEF Transaction, PublicationPlan, RemovalPlan
<1>6. QED
  BY <1>3, <1>4, <1>5

\* All routes at hand name one mode.
LEMMA StepKeepsMode ==
  ASSUME TInv, Roles, OneMode, [Next]_vars
  PROVE  OneMode'
<1>0. Idle.kind = "idle" /\ "cli" \in Procs /\ "service" \in Procs /\ "cli" # "service"
  BY DEF Idle, Procs
<1>1. CASE Begin
  <2>1. SyncAccepts => disk["route"] # Absent
    <3>1. SUFFICES ASSUME SyncAccepts PROVE disk["route"] # Absent
      OBVIOUS
    <3>2. disk["state"] \in State /\ disk["route"] = disk["state"].route
      BY <3>1 DEF SyncAccepts, TInv, Snapshot, FilesTyped
    <3>3. QED
      BY <3>2, AbsentAssumption DEF State
  <2>2. QED
    BY <1>0, <1>1, <2>1, BeginShape DEF OneMode, Roles
<1>2. CASE AdvanceRollback
  <2>1. disk'["route"] = disk["route"]
    BY <1>2, RollbackShape DEF Files
  <2>2. QED
    BY <1>0, <1>2, <2>1, RollbackShape DEF OneMode, SamePlan, Removes
<1>3. CASE Environment
  BY <1>3, EnvironmentShape DEF OneMode
<1>4. ASSUME NEW p \in Procs, Advance(p) \/ Crash(p) PROVE OneMode'
  <2> DEFINE o == op[p]
  <2>1. /\ o # Idle /\ Transaction(o, userText) /\ (\A q \in Procs \ {p} : op'[q] = op[q])
        /\ op'[p] # Idle => SamePlan(o, op'[p])
        /\ disk'["route"] \in {disk["route"], o.entry["route"], o.next["route"]}
    BY <1>4, AdvanceShape
  <2>2. CASE o.kind = "install"
    <3>1. p = "cli" /\ op["service"] = Idle
      BY <2>1, <2>2 DEF Roles, Procs
    <3>2. op'["service"] = Idle /\ op'["cli"].kind # "uninstall"
      BY <1>0, <2>1, <2>2, <3>1 DEF SamePlan
    <3>3. QED
      BY <3>2 DEF OneMode
  <2>3. CASE o.kind # "install"
    <3>1. o.kind \in {"sync", "uninstall"}
      BY <2>1, <2>3 DEF Transaction, PublicationPlan, RemovalPlan
    <3>2. /\ o.entry["route"] # Absent
          /\ o.next["route"] # Absent => o.next["route"].mode = o.entry["route"].mode
      BY <2>1, <3>1, FoundRoute
    <3>3. CASE p = "service"
      <4>1. disk'["route"] # Absent => disk'["route"].mode = o.entry["route"].mode
        BY <2>1, <3>2, <3>3 DEF OneMode
      <4>2. op'["cli"] = op["cli"]
        BY <1>0, <2>1, <3>3
      <4>3. QED
        BY <1>0, <2>1, <3>3, <4>1, <4>2 DEF OneMode, SamePlan
    <3>4. CASE p = "cli"
      <4>0. o.kind = "uninstall"
        BY <2>1, <2>3, <3>4 DEF Roles
      <4>1. disk'["route"] # Absent => disk'["route"].mode = o.entry["route"].mode
        BY <2>1, <3>2, <3>4, <4>0 DEF OneMode
      <4>2. op'["service"] = op["service"]
        BY <1>0, <2>1, <3>4
      <4>3. QED
        BY <1>0, <2>1, <3>4, <4>0, <4>1, <4>2 DEF OneMode, SamePlan
    <3>5. QED
      BY <3>3, <3>4 DEF Procs
  <2>4. QED
    BY <2>2, <2>3
<1>5. CASE UNCHANGED vars
  BY <1>5 DEF vars, OneMode
<1>6. QED
  BY <1>1, <1>2, <1>3, <1>4, <1>5 DEF Next

\* Types, roles and modes hold in every state.
LEMMA RolesHold == Spec => [](TInv /\ Roles /\ OneMode)
<1>1. Init => TInv /\ Roles /\ OneMode
  <2>1. SUFFICES ASSUME Init PROVE TInv /\ Roles /\ OneMode
    OBVIOUS
  <2>2. TInv /\ op["cli"] = Idle /\ op["service"] = Idle /\ Idle.kind = "idle"
    BY <2>1, InitFacts DEF AllIdle, Procs, Idle
  <2>3. QED
    BY <2>2 DEF Roles, OneMode
<1>2. TInv /\ Roles /\ OneMode /\ [Next]_vars => (TInv /\ Roles /\ OneMode)'
  BY StepKeepsT, StepKeepsRoles, StepKeepsMode
<1>3. QED
  BY <1>1, <1>2, PTL DEF Spec

\* Only an installation changes the published mode: whatever fails, and even if an
\* uninstall overlaps with it, a sync never writes a route of another mode than the
\* one on disk (sync_installed_picker_catalog reads the mode it keeps long before).
THEOREM SyncKeepsModeHolds == Spec => SyncKeepsMode
<1> DEFINE Kept == op["service"] # Idle /\ op["cli"] = Idle /\ disk["route"] # Absent
                     /\ disk'["route"] # Absent => disk'["route"].mode = disk["route"].mode
<1>1. ASSUME TInv, Roles, OneMode, Next PROVE Kept
  <2>0. "cli" \in Procs /\ "service" \in Procs
    BY DEF Procs
  <2>1. CASE Begin
    BY <1>1, <2>1, BeginShape
  <2>2. CASE AdvanceRollback
    BY <1>1, <2>2, RollbackShape
  <2>3. CASE Environment
    BY <1>1, <2>3, EnvironmentShape
  <2>4. ASSUME NEW p \in Procs, Advance(p) \/ Crash(p) PROVE Kept
    <3>1. SUFFICES ASSUME op["service"] # Idle, op["cli"] = Idle, disk["route"] # Absent,
                          disk'["route"] # Absent
                   PROVE  disk'["route"].mode = disk["route"].mode
      OBVIOUS
    <3>2. p = "service"
      BY <1>1, <2>4, <3>1, AdvanceShape DEF Procs
    <3> DEFINE o == op["service"]
    <3>3. /\ Transaction(o, userText) /\ o.kind = "sync"
          /\ disk'["route"] \in {disk["route"], o.entry["route"], o.next["route"]}
      BY <1>1, <2>4, <3>1, <3>2, AdvanceShape DEF Roles
    <3>4. o.next["route"] # Absent => o.next["route"].mode = o.entry["route"].mode
      BY <3>3, FoundRoute
    <3>5. disk["route"].mode = o.entry["route"].mode
      BY <1>1, <3>1 DEF OneMode
    <3>6. QED
      BY <3>1, <3>3, <3>4, <3>5
  <2>5. QED
    BY <1>1, <2>1, <2>2, <2>3, <2>4 DEF Next
<1>2. TInv /\ Roles /\ OneMode /\ [Next]_vars => [Kept]_vars
  BY <1>1
<1>3. QED
  BY <1>2, RolesHold, PTL DEF Spec, SyncKeepsMode

-----------------------------------------------------------------------------
(* Receipts.                                                                *)

Valid(kept, rollback) == rollback # Absent => kept[rollback.id] = rollback.content

Receipted(files, kept) ==
  files["state"] # Absent /\ files["config"] = files["state"].config =>
    Valid(kept, files["state"].rollback)

Unmanaged(config) == config # Absent => config.keys # "ours"

\* A publication keeps the receipts of both states until the new one is there.
PublicationReceipts(o, files, kept, count) ==
  /\ Valid(kept, o.next["state"].rollback)
  /\ o.pc # "finish" => Valid(kept, ReceiptOf(o.entry["state"]))
  /\ files["state"] \in {o.entry["state"], o.next["state"]}
  /\ files["config"] \in {o.entry["config"], o.next["config"]}
  /\ o.pc = "write" =>
       /\ files["state"] = o.entry["state"]
       /\ "state" \in Left(o.todo) \/ o.next["state"] = o.entry["state"]
  /\ o.pc = "finish" => files["state"] = o.next["state"]
  /\ o.pc \in {"undo", "abort"} =>
       /\ count > 0
       /\ \/ files["state"] = o.entry["state"] \/ files["config"] = o.entry["config"]
          \/ o.pc = "undo" /\ "config" \in Left(o.todo)

\* An uninstall gives config.toml back before it deletes the receipt.
RemovalReceipts(o, files, kept, count) ==
  /\ files["state"] \in {o.entry["state"], Absent}
  /\ o.pc = "config" => Valid(kept, o.old)
  /\ o.pc \in {"backup", "write"} => Unmanaged(files["config"])
  /\ o.pc \in {"config", "backup", "write"} =>
       \A f \in Left(o.todo) : files[f] = o.entry[f]
  /\ o.pc \in {"undo", "abort"} => count > 0

Receipts(o, files, kept, count) ==
  IF Removes(o) THEN RemovalReceipts(o, files, kept, count)
  ELSE PublicationReceipts(o, files, kept, count)

RInv ==
  faults.count <= 1 =>
    /\ AllIdle => Receipted(disk, backups)
    /\ \A p \in Procs : op[p] # Idle => Receipts(op[p], disk, backups, faults.count)

\* The places of the files.
LEMMA Ranks ==
  /\ \A f \in Files : Rank(f) \in Nat /\ Rank(f) <= 4 /\ (Rank(f) = 4 => f = "state")
  /\ Rank("state") = 4 /\ Rank("config") = 3
BY DEF Rank, Files

\* A list with a file has a first one.
LEMMA LeftFacts ==
  ASSUME NEW todo \in Seq(Files)
  PROVE  /\ Left(todo) \subseteq Files
         /\ todo # <<>> => Head(todo) \in Left(todo)
         /\ todo = <<>> => Left(todo) = {}
<1>1. Left(todo) \subseteq Files
  <2>1. \A k \in DOMAIN todo : todo[k] \in Files
    OBVIOUS
  <2>2. QED
    BY <2>1 DEF Left
<1>2. todo # <<>> => Head(todo) \in Left(todo)
  BY HeadFacts
<1>3. todo = <<>> => Left(todo) = {}
  BY DEF Left
<1>4. QED
  BY <1>1, <1>2, <1>3

\* A file of the list comes after the first one if it is left.
LEMMA NextLeft ==
  ASSUME NEW text, NEW o, Transaction(o, text), o.pc = "write"
  PROVE  /\ Head(o.todo) \in Files /\ Left(o.todo) = {Head(o.todo)} \cup Left(Tail(o.todo))
         /\ Head(o.todo) \notin Left(Tail(o.todo))
         /\ \A g \in Left(Tail(o.todo)) : g \in Files /\ Rank(Head(o.todo)) < Rank(g)
         /\ Tail(o.todo) # <<>> => Head(o.todo) # "state"
         /\ Tail(o.todo) = <<>> => Left(Tail(o.todo)) = {}
         /\ Removes(o) => Head(o.todo) # "config" /\ "config" \notin Left(Tail(o.todo))
<1>1. /\ o.todo \in Seq(Files) /\ o.todo # <<>> /\ Ordered(o.todo)
      /\ Removes(o) => "config" \notin Left(o.todo)
  BY DEF Transaction
<1> DEFINE t == Tail(o.todo)  h == Head(o.todo)
<1>2. /\ h \in Files /\ t \in Seq(Files) /\ Left(o.todo) = {h} \cup Left(t)
      /\ \A g \in Left(t) : Rank(h) < Rank(g)
  BY <1>1, HeadFacts
<1> HIDE DEF t, h
<1>3. Left(t) \subseteq Files /\ (t # <<>> => Head(t) \in Left(t)) /\ (t = <<>> => Left(t) = {})
  BY <1>2, LeftFacts
<1>4. \A g \in Left(t) : g # h /\ h # "state"
  BY <1>2, <1>3, Ranks
<1>5. QED
  BY <1>1, <1>2, <1>3, <1>4 DEF t, h

\* The receipts of a transaction's files.
LEMMA ReceiptTypes ==
  ASSUME NEW text, NEW o, Transaction(o, text), ~Removes(o)
  PROVE  /\ PublicationPlan(o, text)
         /\ o.next["state"] # Absent /\ o.next["config"] = o.next["state"].config
         /\ o.entry["state"] # Absent =>
              ReceiptOf(o.entry["state"]) = o.entry["state"].rollback
         /\ o.old # Absent => o.old = ReceiptOf(o.entry["state"])
         /\ o.fresh # Absent =>
              /\ o.next["state"].rollback # Absent /\ o.next["state"].rollback.id = o.fresh
              /\ o.old = ReceiptOf(o.entry["state"]) /\ (o.old # Absent => o.old.id # o.fresh)
              /\ o.entry["config"] # o.next["config"]
<1>1. PublicationPlan(o, text)
  BY DEF Transaction, RemovalPlan, Removes
<1>2. o.next["state"] # Absent /\ o.next["config"] = o.next["state"].config
  BY <1>1 DEF PublicationPlan, Coherent, Described
<1>3. o.entry["state"] # Absent => ReceiptOf(o.entry["state"]) = o.entry["state"].rollback
  BY DEF ReceiptOf
<1>4. QED
  BY <1>1, <1>2, <1>3 DEF PublicationPlan

\* What an uninstall found was there.
LEMMA RemovalTypes ==
  ASSUME NEW text, NEW o, Transaction(o, text), Removes(o)
  PROVE  /\ RemovalPlan(o, text) /\ o.next = NoFiles /\ o.old = o.entry["state"].rollback
         /\ \A f \in {"generated", "route", "state"} : o.entry[f] # Absent
         /\ o.entry["state"].config # Absent /\ o.entry["state"].config.keys = "ours"
         /\ o.old \in Rollback
<1>1. RemovalPlan(o, text)
  BY DEF Transaction, PublicationPlan, Removes
<1>2. /\ o.entry["state"] \in State /\ o.entry["generated"] = o.entry["state"].generated
      /\ o.entry["route"] = o.entry["state"].route /\ SoundState(o.entry["state"], text)
  BY <1>1 DEF RemovalPlan, Described, Snapshot, FilesTyped
<1>3. o.entry["generated"] \in Generated /\ o.entry["route"] \in Route
  BY <1>2 DEF State
<1>4. QED
  BY <1>1, <1>2, <1>3, AbsentAssumption DEF RemovalPlan, SoundState, State

\* The next file is written.
LEMMA WriteReceipts ==
  ASSUME NEW text, NEW o, Transaction(o, text), o.pc = "write", NEW files, DOMAIN files = Files,
         NEW kept, NEW count, Receipts(o, files, kept, count),
         NEW n, n = Continue(o),
         NEW new, new = [files EXCEPT ![Head(o.todo)] = o.next[Head(o.todo)]]
  PROVE  IF n = Idle THEN Receipted(new, kept) ELSE Receipts(n, new, kept, count)
<1> DEFINE f == Head(o.todo)  t == Tail(o.todo)
<1>1. /\ f \in Files /\ Left(o.todo) = {f} \cup Left(t) /\ f \notin Left(t)
      /\ \A g \in Left(t) : g \in Files
      /\ t # <<>> => f # "state"
      /\ t = <<>> => Left(t) = {}
      /\ Removes(o) => f # "config" /\ "config" \notin Left(t)
  BY NextLeft
<1>2. \/ n = Idle /\ t = <<>>
      \/ /\ Transaction(n, text) /\ SamePlan(o, n) /\ n.todo = t
         /\ n.pc = IF t = <<>> THEN "finish" ELSE "write"
  BY ContinueFacts DEF SamePlan
<1>3. \A g \in Files : new[g] = IF g = f THEN o.next[f] ELSE files[g]
  OBVIOUS
<1>4. "state" \in Files /\ "config" \in Files
  BY DEF Files
<1> HIDE DEF f, t
<1>5. CASE Removes(o)
  <2>1. RemovalReceipts(o, files, kept, count)
    BY <1>5 DEF Receipts
  <2>2. o.next[f] = Absent
    BY <1>1, <1>5, RemovalTypes DEF NoFiles
  <2>3. new["state"] \in {o.entry["state"], Absent} /\ Unmanaged(new["config"])
    BY <1>1, <1>3, <1>4, <1>5, <2>1, <2>2 DEF RemovalReceipts
  <2>4. Receipted(new, kept)
    BY <1>5, <2>3, RemovalTypes DEF Receipted, Unmanaged
  <2>5. \A g \in Left(t) : new[g] = o.entry[g]
    BY <1>1, <1>3, <2>1 DEF RemovalReceipts
  <2>6. n # Idle => n.pc = "write"
    <3>1. n # Idle /\ n.pc = "finish" => FALSE
      BY <1>2, <1>5 DEF Transaction, SamePlan, Removes
    <3>2. QED
      BY <1>2, <3>1
  <2>7. n # Idle => RemovalReceipts(n, new, kept, count)
    BY <1>2, <2>3, <2>5, <2>6 DEF RemovalReceipts, SamePlan
  <2>8. QED
    BY <1>2, <1>5, <2>4, <2>7 DEF Receipts, Removes, SamePlan
<1>6. CASE ~Removes(o)
  <2>1. PublicationReceipts(o, files, kept, count)
    BY <1>6 DEF Receipts
  <2>2. /\ new["state"] = IF f = "state" THEN o.next["state"] ELSE o.entry["state"]
        /\ new["config"] \in {o.entry["config"], o.next["config"]}
    BY <1>1, <1>3, <1>4, <2>1 DEF PublicationReceipts
  <2>3. t = <<>> => new["state"] = o.next["state"]
    BY <1>1, <2>1, <2>2 DEF PublicationReceipts
  <2>4. t # <<>> => /\ new["state"] = o.entry["state"]
                    /\ "state" \in Left(t) \/ o.next["state"] = o.entry["state"]
    BY <1>1, <2>1, <2>2 DEF PublicationReceipts
  <2>5. t = <<>> => Receipted(new, kept)
    BY <2>1, <2>3 DEF Receipted, PublicationReceipts
  <2>6. n # Idle => PublicationReceipts(n, new, kept, count)
    BY <1>2, <2>1, <2>2, <2>3, <2>4 DEF PublicationReceipts, SamePlan
  <2>7. n = Idle => t = <<>>
    BY <1>2 DEF Idle
  <2>8. n # Idle => ~Removes(n)
    BY <1>2, <1>6 DEF Removes, SamePlan
  <2>9. QED
    BY <2>5, <2>6, <2>7, <2>8 DEF Receipts
<1>7. QED
  BY <1>5, <1>6

\* A write fails, with the file written or not: the transaction restores the files
\* written before it.
LEMMA UndoingReceipts ==
  ASSUME NEW text, NEW o, Transaction(o, text), o.pc = "write", NEW files, DOMAIN files = Files,
         NEW kept, NEW count \in Nat, Receipts(o, files, kept, count),
         NEW n, n = Undoing(o, Head(o.todo)),
         NEW new,
         \/ new = files
         \/ ~Removes(o) /\ new = [files EXCEPT ![Head(o.todo)] = o.next[Head(o.todo)]]
  PROVE  Receipts(n, new, kept, count + 1)
<1> DEFINE f == Head(o.todo)
<1>1. f \in Files /\ (Removes(o) => f # "config")
  BY NextLeft
<1>2. /\ Transaction(n, text) /\ SamePlan(o, n) /\ n.todo = UndoOf(o, f)
      /\ n.pc = IF n.todo = <<>> THEN "abort" ELSE "undo"
  BY UndoingFacts DEF SamePlan
<1>3. "state" \in Files /\ "config" \in Files
  BY DEF Files
<1>4. o.kind \in {"install", "sync", "uninstall"}
  BY DEF Transaction, PublicationPlan, RemovalPlan
<1>5. \A g \in Differing(o.entry, o.next) : Rank(g) < Rank(f) => g \in Left(n.todo)
  BY <1>1, <1>2, <1>4, UndoFacts
<1>6. n.todo \in Seq(Files) /\ (n.todo = <<>> => Left(n.todo) = {})
  BY <1>2, LeftFacts DEF Transaction
<1>7. /\ new["state"] = files["state"] \/ (f = "state" /\ ~Removes(o) /\ new["state"] = o.next["state"])
      /\ new["config"] = files["config"] \/ (~Removes(o) /\ new["config"] = o.next["config"])
  BY <1>1, <1>3
<1>8. count + 1 > 0
  OBVIOUS
<1> HIDE DEF f
<1>9. CASE Removes(o)
  <2>1. RemovalReceipts(n, new, kept, count + 1)
    BY <1>2, <1>7, <1>8, <1>9 DEF Receipts, RemovalReceipts, SamePlan
  <2>2. QED
    BY <1>2, <1>9, <2>1 DEF Receipts, Removes, SamePlan
<1>10. CASE ~Removes(o)
  <2>1. PublicationReceipts(o, files, kept, count)
    BY <1>10 DEF Receipts
  <2>2. /\ new["state"] \in {o.entry["state"], o.next["state"]}
        /\ new["config"] \in {o.entry["config"], o.next["config"]}
        /\ f # "state" => new["state"] = o.entry["state"]
    BY <1>7, <2>1 DEF PublicationReceipts
  <2>3. \/ new["state"] = o.entry["state"] \/ new["config"] = o.entry["config"]
        \/ n.pc = "undo" /\ "config" \in Left(n.todo)
    <3>1. CASE f # "state"
      BY <2>2, <3>1
    <3>2. CASE f = "state" /\ o.entry["config"] = o.next["config"]
      BY <2>2, <3>2
    <3>3. CASE f = "state" /\ o.entry["config"] # o.next["config"]
      <4>1. "config" \in Left(n.todo)
        BY <1>3, <1>5, <3>3, Ranks DEF Differing
      <4>2. QED
        BY <1>2, <1>6, <4>1
    <3>4. QED
      BY <3>1, <3>2, <3>3
  <2>4. PublicationReceipts(n, new, kept, count + 1)
    BY <1>2, <1>8, <2>1, <2>2, <2>3 DEF PublicationReceipts, SamePlan
  <2>5. QED
    BY <1>2, <1>10, <2>4 DEF Receipts, Removes, SamePlan
<1>11. QED
  BY <1>9, <1>10

\* The next file is restored.
LEMMA RestoreReceipts ==
  ASSUME NEW text, NEW o, Transaction(o, text), o.pc = "undo", NEW files, DOMAIN files = Files,
         NEW kept, NEW count, Receipts(o, files, kept, count),
         NEW n, n = After(o, Tail(o.todo), "abort"),
         NEW new, new = [files EXCEPT ![Head(o.todo)] = o.entry[Head(o.todo)]]
  PROVE  Receipts(n, new, kept, count)
<1> DEFINE f == Head(o.todo)
<1>1. /\ o.todo \in Seq(Files) /\ o.todo # <<>>
  BY DEF Transaction
<1>2. f \in Files /\ Left(o.todo) = {f} \cup Left(Tail(o.todo)) /\ Tail(o.todo) \in Seq(Files)
  BY <1>1, HeadFacts
<1>3. /\ Transaction(n, text) /\ SamePlan(o, n) /\ n.todo = Tail(o.todo)
      /\ n.pc = IF n.todo = <<>> THEN "abort" ELSE "undo"
  BY RestoringFacts DEF SamePlan
<1>4. n.todo = <<>> => Left(n.todo) = {}
  BY <1>2, <1>3, LeftFacts
<1>5. "state" \in Files /\ "config" \in Files
  BY DEF Files
<1>6. /\ new["state"] = IF f = "state" THEN o.entry["state"] ELSE files["state"]
      /\ new["config"] = IF f = "config" THEN o.entry["config"] ELSE files["config"]
  BY <1>2, <1>5
<1> HIDE DEF f
<1>7. CASE Removes(o)
  <2>1. RemovalReceipts(n, new, kept, count)
    BY <1>3, <1>6, <1>7 DEF Receipts, RemovalReceipts, SamePlan
  <2>2. QED
    BY <1>3, <1>7, <2>1 DEF Receipts, Removes, SamePlan
<1>8. CASE ~Removes(o)
  <2>1. PublicationReceipts(o, files, kept, count)
    BY <1>8 DEF Receipts
  <2>2. \/ new["state"] = o.entry["state"] \/ new["config"] = o.entry["config"]
        \/ n.pc = "undo" /\ "config" \in Left(n.todo)
    BY <1>2, <1>3, <1>4, <1>6, <2>1 DEF PublicationReceipts
  <2>3. PublicationReceipts(n, new, kept, count)
    BY <1>3, <1>6, <2>1, <2>2 DEF PublicationReceipts, SamePlan
  <2>4. QED
    BY <1>3, <1>8, <2>3 DEF Receipts, Removes, SamePlan
<1>9. QED
  BY <1>7, <1>8

\* A transaction that dies, or cannot delete its backup, where nothing had failed
\* before leaves the receipt of the state it leaves.
LEMMA LeavesReceipt ==
  ASSUME NEW text, NEW o, Transaction(o, text), o.pc \notin {"undo", "abort"}, NEW files,
         NEW kept, NEW count, Receipts(o, files, kept, count)
  PROVE  Receipted(files, kept)
<1>1. CASE Removes(o)
  <2>1. RemovalReceipts(o, files, kept, count) /\ o.pc \in {"config", "backup", "write"}
    BY <1>1 DEF Receipts, Transaction
  <2>2. QED
    BY <1>1, <2>1, RemovalTypes DEF RemovalReceipts, Receipted, Unmanaged
<1>2. CASE ~Removes(o)
  <2>1. PublicationReceipts(o, files, kept, count) /\ o.pc \in {"write", "finish"}
    BY <1>2 DEF Receipts, Transaction
  <2>2. QED
    BY <1>2, <2>1, ReceiptTypes DEF PublicationReceipts, Receipted
<1>3. QED
  BY <1>1, <1>2

\* The backups a failed transaction leaves, and those a finished one leaves.
AbortedBackups(o, kept) ==
  IF Removes(o) THEN IF o.old # Absent THEN [kept EXCEPT ![o.old.id] = o.old.content] ELSE kept
  ELSE IF o.fresh # Absent THEN [kept EXCEPT ![o.fresh] = Absent] ELSE kept

FinishedBackups(o, kept) ==
  IF Valid(kept, o.old) THEN [kept EXCEPT ![o.old.id] = Absent] ELSE kept

\* The receipts a transaction knows name backups.
LEMMA ReceiptIds ==
  ASSUME NEW text, NEW o, Transaction(o, text)
  PROVE  /\ o.old \in Rollback
         /\ ReceiptOf(o.entry["state"]) \in Rollback
         /\ ~Removes(o) => o.next["state"].rollback \in Rollback
         /\ \A r \in Rollback : r # Absent => r.id \in BackupIds /\ r.content \in Config
                                               /\ r.content # Absent
         /\ o.fresh \in BackupIds \cup {Absent}
<1>1. /\ Snapshot(o.entry, text) /\ (o.old = Absent \/ o.old = ReceiptOf(o.entry["state"]))
      /\ o.fresh \in BackupIds \cup {Absent}
  BY DEF Transaction, PublicationPlan, RemovalPlan, Described, ReceiptOf
<1>2. ReceiptOf(o.entry["state"]) \in Rollback /\ Absent \in Rollback
  BY <1>1 DEF Snapshot, FilesTyped, ReceiptOf, State, Rollback
<1>3. ~Removes(o) => o.next["state"].rollback \in Rollback
  <2>1. ~Removes(o) => Snapshot(o.next, text) /\ o.next["state"] # Absent
    BY ReceiptTypes DEF PublicationPlan
  <2>2. QED
    BY <2>1 DEF Snapshot, FilesTyped, State
<1>4. \A r \in Rollback : r # Absent => r.id \in BackupIds /\ r.content \in Config
                                         /\ r.content # Absent
  BY AbsentAssumption DEF Rollback, Receipt
<1>5. QED
  BY <1>1, <1>2, <1>3, <1>4

\* A failed transaction that has restored its files: an uninstall recreates the backup
\* it deleted, and the backup an aborted plan made was nobody's receipt.
LEMMA AbortReceipts ==
  ASSUME NEW text, NEW o, Transaction(o, text), o.pc = "abort", NEW files,
         NEW kept, DOMAIN kept = BackupIds, NEW count, Receipts(o, files, kept, count)
  PROVE  Receipted(files, AbortedBackups(o, kept))
<1> DEFINE now == AbortedBackups(o, kept)
<1>1. CASE Removes(o)
  <2>1. RemovalReceipts(o, files, kept, count)
    BY <1>1 DEF Receipts
  <2>2. o.old # Absent => now[o.old.id] = o.old.content
    <3>1. o.old # Absent => o.old.id \in BackupIds
      BY ReceiptIds
    <3>2. QED
      BY <1>1, <3>1 DEF AbortedBackups
  <2> HIDE DEF now
  <2>3. Valid(now, o.old)
    BY <2>2 DEF Valid
  <2>4. QED
    BY <1>1, <2>1, <2>3, RemovalTypes DEF RemovalReceipts, Receipted, now
<1>2. CASE ~Removes(o)
  <2>1. PublicationReceipts(o, files, kept, count)
    BY <1>2 DEF Receipts
  <2>2. CASE o.fresh = Absent
    <3>1. now = kept
      BY <1>2, <2>2 DEF AbortedBackups
    <3> HIDE DEF now
    <3>2. QED
      BY <1>2, <2>1, <3>1, ReceiptTypes DEF PublicationReceipts, Receipted, now
  <2>3. CASE o.fresh # Absent
    <3>1. \A b \in BackupIds : b # o.fresh => now[b] = kept[b]
      BY <1>2, <2>3 DEF AbortedBackups
    <3> HIDE DEF now
    <3>2. o.entry["state"] # Absent => Valid(now, o.entry["state"].rollback)
      <4>1. SUFFICES ASSUME o.entry["state"] # Absent, o.entry["state"].rollback # Absent
                     PROVE  now[o.entry["state"].rollback.id] = o.entry["state"].rollback.content
        BY DEF Valid
      <4> DEFINE r == o.entry["state"].rollback
      <4>2. r = ReceiptOf(o.entry["state"]) /\ r \in Rollback
        BY <4>1, ReceiptIds DEF ReceiptOf
      <4>3. r.id \in BackupIds /\ r.id # o.fresh
        BY <1>2, <2>3, <4>1, <4>2, ReceiptIds, ReceiptTypes
      <4>4. kept[r.id] = r.content
        BY <2>1, <4>1, <4>2 DEF PublicationReceipts, Valid
      <4>5. QED
        BY <3>1, <4>3, <4>4
    <3>3. CASE files["state"] = o.entry["state"]
      BY <3>2, <3>3 DEF Receipted, now
    <3>4. CASE files["state"] = o.next["state"] /\ files["config"] = o.entry["config"]
      BY <1>2, <2>3, <3>4, ReceiptTypes DEF Receipted
    <3>5. QED
      BY <2>1, <3>3, <3>4 DEF PublicationReceipts
  <2>4. QED
    BY <2>2, <2>3
<1>3. QED
  BY <1>1, <1>2

\* A finished publication deletes the backup of the state it has replaced.
LEMMA FinishReceipts ==
  ASSUME NEW text, NEW o, Transaction(o, text), o.pc = "finish", NEW files,
         NEW kept, DOMAIN kept = BackupIds, NEW count, Receipts(o, files, kept, count)
  PROVE  Receipted(files, FinishedBackups(o, kept))
<1> DEFINE now == FinishedBackups(o, kept)
<1>1. ~Removes(o) /\ o.old # Absent
  BY DEF Transaction
<1>2. PublicationReceipts(o, files, kept, count)
  BY <1>1 DEF Receipts
<1>3. o.fresh # Absent
  BY <1>1, ReceiptTypes DEF PublicationPlan
<1>4. o.next["state"].rollback.id = o.fresh /\ o.old.id # o.fresh /\ o.fresh \in BackupIds
      /\ o.next["state"].rollback # Absent
  BY <1>1, <1>3, ReceiptTypes, ReceiptIds
<1>5. now[o.fresh] = kept[o.fresh]
  BY <1>4 DEF FinishedBackups
<1> HIDE DEF now
<1>6. Valid(now, o.next["state"].rollback)
  BY <1>2, <1>4, <1>5 DEF PublicationReceipts, Valid
<1>7. QED
  BY <1>2, <1>6 DEF PublicationReceipts, Receipted, now

\* The configuration is taken back, and then its backup goes.
LEMMA RollbackReceipts ==
  ASSUME NEW text, NEW o, Transaction(o, text), Removes(o), NEW files, DOMAIN files = Files,
         NEW kept, NEW count, Receipts(o, files, kept, count),
         NEW pc \in {"backup", "write"}, NEW n, n = [o EXCEPT !.pc = pc]
  PROVE  /\ o.pc = "config" =>
              \A config, new :
                 Unmanaged(config) /\ new = [files EXCEPT !["config"] = config] =>
                   Receipted(new, kept) /\ Receipts(n, new, kept, count)
         /\ o.pc = "backup" => \A now : Receipts(n, files, now, count)
<1>1. RemovalReceipts(o, files, kept, count)
  BY DEF Receipts
<1>2. o.pc \in {"config", "backup"} => SamePlan(o, n) /\ n.todo = o.todo /\ n.pc = pc /\ Removes(n)
  BY SteppingFacts DEF SamePlan, Removes
<1>3. ASSUME o.pc = "config", NEW config, Unmanaged(config),
             NEW new, new = [files EXCEPT !["config"] = config]
      PROVE  Receipted(new, kept) /\ Receipts(n, new, kept, count)
  <2>1. new["config"] = config /\ \A f \in Files : f # "config" => new[f] = files[f]
    BY <1>3 DEF Files
  <2>2. /\ \A f \in Left(o.todo) : f \in Files /\ f # "config"
        /\ "state" \in Files /\ "state" # "config"
    BY <1>3, LeftFacts DEF Transaction, Files
  <2>3. RemovalReceipts(n, new, kept, count)
    BY <1>1, <1>2, <1>3, <2>1, <2>2 DEF RemovalReceipts, SamePlan
  <2>4. Receipted(new, kept)
    BY <1>1, <1>3, <2>1, <2>2, RemovalTypes DEF RemovalReceipts, Receipted, Unmanaged
  <2>5. QED
    BY <1>2, <1>3, <2>3, <2>4 DEF Receipts
<1>4. ASSUME o.pc = "backup", NEW now PROVE Receipts(n, files, now, count)
  <2>1. RemovalReceipts(n, files, now, count)
    BY <1>1, <1>2, <1>4 DEF RemovalReceipts, SamePlan
  <2>2. QED
    BY <1>2, <1>4, <2>1 DEF Receipts
<1>5. QED
  BY <1>3, <1>4

\* Without the overlap at most one process runs a transaction.
LEMMA Alone ==
  ASSUME Roles, ~Overlap
  PROVE  /\ \A p, q \in Procs : op[p] # Idle /\ op[q] # Idle => p = q
         /\ op["cli"] = Idle /\ ~serviceUp => AllIdle
         /\ op["service"] = Idle /\ serviceUp => AllIdle
BY DEF Roles, Procs, AllIdle

\* Transactions begin when nothing else runs.
LEMMA BeginsAlone ==
  ASSUME Roles, ~Overlap, Begin
  PROVE  AllIdle
<1>1. (op["cli"] = Idle /\ ~serviceUp) \/ (op["service"] = Idle /\ serviceUp)
  BY DEF Begin, BeginInstall, BeginSync, BeginUninstall, PrepareRefused, FallbackMissing
<1>2. QED
  BY <1>1, Alone

\* A publication begins with the receipt it found and the one it made.
LEMMA PublishingReceipts ==
  ASSUME TInv, Receipted(disk, backups), NEW kind \in {"install", "sync"},
         NEW plan \in PreparePickerConfig(disk["state"], disk["config"]), ~Refused(plan),
         NEW mode \in Modes, NEW todo,
         "state" \in Left(todo) \/ NextFiles(mode, plan)["state"] = disk["state"],
         NEW n, n = Publishing(kind, plan, mode, todo), NEW count,
         NEW now, now = BackupsWith(plan)
  PROVE  Receipts(n, disk, now, count)
<1>1. /\ n.kind = kind /\ n.pc = "write" /\ n.entry = disk
      /\ n.next = NextFiles(mode, plan) /\ n.todo = todo
  BY DEF Publishing
<1>2. n.next["state"].rollback = plan.rollback
  BY <1>1, NextFacts
<1>3. disk["state"] = Absent \/ ReceiptOf(disk["state"]) = disk["state"].rollback
  BY DEF ReceiptOf
<1>4. Valid(now, plan.rollback) /\ Valid(now, ReceiptOf(disk["state"]))
  <2>1. CASE plan.fresh = Absent
    <3>1. now = backups /\ plan.rollback = ReceiptOf(disk["state"])
          /\ (disk["state"] = Absent \/ disk["config"] = disk["state"].config)
      BY <2>1, PlanFacts DEF BackupsWith
    <3>2. Valid(backups, ReceiptOf(disk["state"]))
      BY <3>1 DEF Receipted, ReceiptOf, Valid
    <3>3. QED
      BY <3>1, <3>2
  <2>2. CASE plan.fresh # Absent
    <3>1. /\ plan.fresh \in FreshIds /\ plan.rollback = [id |-> plan.fresh, content |-> plan.base]
          /\ plan.old = ReceiptOf(disk["state"]) /\ plan.old \in Rollback
      BY <2>2, PlanFacts
    <3>2. now = [backups EXCEPT ![plan.fresh] = plan.base] /\ plan.fresh \in BackupIds
      BY <2>2, <3>1 DEF BackupsWith, FreshIds
    <3>3. DOMAIN backups = BackupIds
      BY DEF TInv
    <3>4. Valid(now, plan.rollback)
      BY <3>1, <3>2, <3>3 DEF Valid
    <3>5. plan.old # Absent =>
            /\ plan.old.id # plan.fresh /\ plan.old.id \in BackupIds
            /\ backups[plan.old.id] = plan.old.content
      BY <3>1 DEF FreshIds, ReceiptOf, Rollback, Receipt, Refused, ValidBackup
    <3>6. Valid(now, plan.old)
      BY <3>2, <3>3, <3>5 DEF Valid
    <3>7. QED
      BY <3>1, <3>4, <3>6
  <2>3. QED
    BY <2>1, <2>2
<1>5. PublicationReceipts(n, disk, now, count)
  BY <1>1, <1>2, <1>4 DEF PublicationReceipts
<1>6. QED
  BY <1>1, <1>5 DEF Receipts, Removes

\* The receipts after a step of one process while nothing else runs.
LEMMA CloseReceipts ==
  ASSUME TInv, NEW p \in Procs, \A q \in Procs \ {p} : op[q] = Idle,
         NEW n, op' = [op EXCEPT ![p] = n],
         NEW new, disk' = new, NEW now, backups' = now, NEW count, faults'.count = count,
         count <= 1 => IF n = Idle THEN Receipted(new, now) ELSE Receipts(n, new, now, count)
  PROVE  RInv'
<1>1. DOMAIN op' = Procs /\ op'[p] = n /\ \A q \in Procs \ {p} : op'[q] = Idle
  BY DEF TInv
<1>2. ASSUME count <= 1, \A q \in Procs : op'[q] = Idle PROVE Receipted(disk', backups')
  BY <1>1, <1>2
<1>3. ASSUME count <= 1, NEW q \in Procs, op'[q] # Idle
      PROVE  Receipts(op'[q], disk', backups', faults'.count)
  BY <1>1, <1>3
<1>4. QED
  BY <1>2, <1>3 DEF RInv, AllIdle

\* Transactions begin with valid receipts.
LEMMA BeginKeepsR ==
  ASSUME TInv, Roles, RInv, ~Overlap, Begin
  PROVE  RInv'
<1>0. /\ AllIdle /\ \A q \in Procs : op[q] = Idle
      /\ "cli" \in Procs /\ "service" \in Procs
  BY BeginsAlone DEF AllIdle, Procs
<1>1. faults.count <= 1 => Receipted(disk, backups)
  BY <1>0 DEF RInv
<1>2. faults.count \in Nat /\ (faults' = faults \/ faults'.count = faults.count + 1)
  <2>1. faults.count \in Nat
    BY BoundsAssumption DEF TInv
  <2>2. faults' = faults \/ faults'.count = faults.count + 1
    BY FaultFacts DEF Begin, BeginInstall, BeginSync, BeginUninstall, PrepareRefused,
                      FallbackMissing
  <2>3. QED
    BY <2>1, <2>2
<1>3. faults'.count <= 1 => Receipted(disk, backups)
  BY <1>1, <1>2
<1>4. ASSUME NEW mode \in Modes, BeginInstall(mode) PROVE RInv'
  <2>1. PICK plan \in PreparePickerConfig(disk["state"], disk["config"]) :
          /\ ~Refused(plan)
          /\ op' = [op EXCEPT !["cli"] = Publishing("install", plan, mode, PublishOrder)]
          /\ backups' = BackupsWith(plan)
    BY <1>4 DEF BeginInstall
  <2>2. PICK n : n = Publishing("install", plan, mode, PublishOrder)
    OBVIOUS
  <2>3. PICK now : now = BackupsWith(plan)
    OBVIOUS
  <2>4. PICK new : new = disk
    OBVIOUS
  <2>5. PICK count : count = faults'.count
    OBVIOUS
  <2>6. "state" \in Left(PublishOrder)
    BY Orders DEF Files
  <2>7. count <= 1 => Receipts(n, new, now, count)
    BY <1>3, <2>1, <2>2, <2>3, <2>4, <2>5, <2>6, PublishingReceipts
  <2>8. n # Idle
    BY <2>2 DEF Publishing, Idle
  <2>9. disk' = new /\ backups' = now /\ op' = [op EXCEPT !["cli"] = n]
    BY <1>4, <2>1, <2>2, <2>3, <2>4 DEF BeginInstall
  <2>10. QED
    BY <1>0, <2>5, <2>7, <2>8, <2>9, CloseReceipts
<1>5. ASSUME BeginSync PROVE RInv'
  <2> DEFINE mode == disk["route"].mode
             Todo(plan) == Changed(disk, NextFiles(mode, plan))
  <2>1. PICK plan \in PreparePickerConfig(disk["state"], disk["config"]) :
          /\ ~Refused(plan)
          /\ op' = [op EXCEPT !["service"] = Publishing("sync", plan, mode, Todo(plan))]
          /\ backups' = BackupsWith(plan)
    BY <1>5 DEF BeginSync
  <2>2. PICK n : n = Publishing("sync", plan, mode, Todo(plan))
    OBVIOUS
  <2>3. PICK now : now = BackupsWith(plan)
    OBVIOUS
  <2>4. PICK new : new = disk
    OBVIOUS
  <2>5. PICK count : count = faults'.count
    OBVIOUS
  <2>6. "state" \in Left(Todo(plan)) \/ NextFiles(mode, plan)["state"] = disk["state"]
    BY ChangedFacts DEF Differing, Files
  <2>7. mode \in Modes
    BY <1>5, SyncModeTyped DEF BeginSync
  <2> HIDE DEF mode, Todo
  <2>8. count <= 1 => Receipts(n, new, now, count)
    BY <1>3, <2>1, <2>2, <2>3, <2>4, <2>5, <2>6, <2>7, PublishingReceipts
  <2>9. n # Idle
    BY <2>2 DEF Publishing, Idle
  <2>10. disk' = new /\ backups' = now /\ op' = [op EXCEPT !["service"] = n]
    BY <1>5, <2>1, <2>2, <2>3, <2>4 DEF BeginSync
  <2>11. QED
    BY <1>0, <2>5, <2>8, <2>9, <2>10, CloseReceipts
<1>6. ASSUME BeginUninstall PROVE RInv'
  <2>1. PICK n : n = [kind |-> "uninstall", pc |-> "config", entry |-> disk, next |-> NoFiles,
                      todo |-> RemovalOrder, fresh |-> Absent, old |-> disk["state"].rollback]
    OBVIOUS
  <2>2. PICK now : now = backups
    OBVIOUS
  <2>3. PICK new : new = disk
    OBVIOUS
  <2>4. PICK count : count = faults'.count
    OBVIOUS
  <2>5. /\ n.kind = "uninstall" /\ n.pc = "config" /\ n.entry = disk /\ n.todo = RemovalOrder
        /\ n.old = disk["state"].rollback /\ n # Idle
    BY <2>1 DEF Idle
  <2>6. ValidBackup(disk["state"].rollback)
    BY <1>6 DEF BeginUninstall, UninstallAccepts
  <2>7. RemovalReceipts(n, new, now, count)
    BY <2>2, <2>3, <2>5, <2>6 DEF RemovalReceipts, ValidBackup, Valid
  <2>8. Receipts(n, new, now, count)
    BY <2>5, <2>7 DEF Receipts, Removes
  <2>9. disk' = new /\ backups' = now /\ op' = [op EXCEPT !["cli"] = n]
    BY <1>6, <2>1, <2>2, <2>3 DEF BeginUninstall
  <2>10. QED
    BY <1>0, <2>4, <2>5, <2>8, <2>9, CloseReceipts
<1>7. ASSUME PrepareRefused \/ FallbackMissing PROVE RInv'
  <2>1. PICK plan \in PreparePickerConfig(disk["state"], disk["config"]) :
          plan.fresh # Absent /\ backups' = BackupsWith(plan)
    BY <1>7 DEF PrepareRefused, FallbackMissing
  <2>2. PICK now : now = BackupsWith(plan)
    OBVIOUS
  <2>3. plan.fresh \in FreshIds /\ DOMAIN backups = BackupIds
    BY <2>1, PlanFacts DEF TInv
  <2>4. now = [backups EXCEPT ![plan.fresh] = plan.rollback.content]
    BY <2>1, <2>2 DEF BackupsWith
  <2>5. disk["state"] # Absent /\ disk["state"].rollback # Absent =>
          disk["state"].rollback.id # plan.fresh /\ disk["state"].rollback.id \in BackupIds
    BY <2>3 DEF FreshIds, TInv, Snapshot, FilesTyped, State, Rollback, Receipt
  <2>6. faults'.count <= 1 => Receipted(disk, now)
    BY <1>3, <2>3, <2>4, <2>5 DEF Receipted, Valid
  <2>7. disk' = disk /\ op' = op /\ backups' = now
    BY <1>7, <2>1, <2>2 DEF PrepareRefused, FallbackMissing
  <2>8. QED
    BY <1>0, <2>6, <2>7 DEF RInv, AllIdle
<1>8. QED
  BY <1>4, <1>5, <1>6, <1>7 DEF Begin

\* While a publication runs, the state on disk has its receipt.
LEMMA RunningReceipts ==
  ASSUME NEW text, NEW o, Transaction(o, text), ~Removes(o), NEW files,
         NEW kept, NEW count, Receipts(o, files, kept, count)
  PROVE  Receipted(files, kept)
<1>1. PublicationReceipts(o, files, kept, count) /\ o.pc \in {"write", "undo", "abort", "finish"}
  BY DEF Receipts, Transaction
<1>2. QED
  BY <1>1, ReceiptTypes DEF PublicationReceipts, Receipted

\* A file operation fails before a transaction has failed, or is its second failure.
LEMMA AdvanceKeepsR ==
  ASSUME TInv, Roles, RInv, ~Overlap, NEW p \in Procs, Advance(p) \/ Crash(p)
  PROVE  RInv'
<1>1. PICK o : o = op[p]
  OBVIOUS
<1>2. PICK files : files = disk
  OBVIOUS
<1>3. PICK kept : kept = backups
  OBVIOUS
<1>4. PICK new : new = disk'
  OBVIOUS
<1>5. PICK now : now = backups'
  OBVIOUS
<1>6. PICK text : text = userText
  OBVIOUS
<1>7. PICK before : before = faults.count
  OBVIOUS
<1>8. PICK count : count = faults'.count
  OBVIOUS
<1>9. /\ o # Idle /\ Transaction(o, text) /\ DOMAIN files = Files /\ DOMAIN kept = BackupIds
      /\ before \in Nat
  BY <1>1, <1>2, <1>3, <1>6, <1>7, AdvanceShape, BoundsAssumption DEF TInv, Snapshot, FilesTyped
<1>10. \A q \in Procs \ {p} : op[q] = Idle
  BY <1>1, <1>9, Alone
<1>11. before <= 1 => Receipts(o, files, kept, before)
  BY <1>1, <1>2, <1>3, <1>7, <1>9 DEF RInv
<1>12. before <= 1 /\ o.pc \in {"undo", "abort"} => before = 1
  BY <1>9, <1>11 DEF Receipts, RemovalReceipts, PublicationReceipts
<1>13. ASSUME NEW n, op' = [op EXCEPT ![p] = n],
              count <= 1 => IF n = Idle THEN Receipted(new, now) ELSE Receipts(n, new, now, count)
       PROVE  RInv'
  BY <1>4, <1>5, <1>8, <1>10, <1>13, CloseReceipts
<1>14. \A kind : Fault(kind) => count = before + 1
  BY <1>7, <1>8, FaultFacts
<1>15. CASE WriteNext(p)
  <2>1. PICK n : n = Continue(o)
    OBVIOUS
  <2>2. /\ o.pc = "write" /\ new = [files EXCEPT ![Head(o.todo)] = o.next[Head(o.todo)]]
        /\ op' = [op EXCEPT ![p] = n] /\ now = kept /\ count = before
    BY <1>1, <1>2, <1>3, <1>4, <1>5, <1>7, <1>8, <1>15, <2>1 DEF WriteNext, Step
  <2>3. count <= 1 => IF n = Idle THEN Receipted(new, now) ELSE Receipts(n, new, now, count)
    BY <1>9, <1>11, <2>1, <2>2, WriteReceipts
  <2>4. QED
    BY <1>13, <2>2, <2>3
<1>16. CASE WriteFails(p) \/ WriteUnsynced(p)
  <2>1. PICK n : n = Undoing(o, Head(o.todo))
    OBVIOUS
  <2>2. /\ o.pc = "write" /\ op' = [op EXCEPT ![p] = n] /\ now = kept
        /\ \/ new = files
           \/ ~Removes(o) /\ new = [files EXCEPT ![Head(o.todo)] = o.next[Head(o.todo)]]
    BY <1>1, <1>2, <1>3, <1>4, <1>5, <1>16, <2>1 DEF WriteFails, WriteUnsynced, Step
  <2>3. \/ count = before + 1
        \/ count = before /\ Removes(o) /\ files[Head(o.todo)] = Absent
    BY <1>1, <1>2, <1>7, <1>8, <1>14, <1>16 DEF WriteFails, WriteUnsynced
  <2>4. before <= 1 /\ Removes(o) => files[Head(o.todo)] # Absent
    <3>1. SUFFICES ASSUME before <= 1, Removes(o) PROVE files[Head(o.todo)] # Absent
      OBVIOUS
    <3>2. Head(o.todo) \in Left(o.todo) /\ Head(o.todo) \in {"generated", "route", "state"}
      BY <1>9, <2>2, <3>1, NextLeft DEF Files
    <3>3. files[Head(o.todo)] = o.entry[Head(o.todo)]
      BY <1>11, <2>2, <3>1, <3>2 DEF Receipts, RemovalReceipts
    <3>4. QED
      BY <1>9, <3>1, <3>2, <3>3, RemovalTypes
  <2>5. count <= 1 => count = before + 1 /\ before <= 1
    BY <1>9, <2>3, <2>4
  <2>6. count <= 1 => Receipts(n, new, now, count)
    BY <1>9, <1>11, <2>1, <2>2, <2>5, UndoingReceipts
  <2>7. n # Idle
    BY <1>9, <2>1, <2>2, UndoingFacts DEF Idle
  <2>8. QED
    BY <1>13, <2>2, <2>6, <2>7
<1>17. CASE UndoNext(p)
  <2>1. PICK n : n = After(o, Tail(o.todo), "abort")
    OBVIOUS
  <2>2. /\ o.pc = "undo" /\ new = [files EXCEPT ![Head(o.todo)] = o.entry[Head(o.todo)]]
        /\ op' = [op EXCEPT ![p] = n] /\ now = kept /\ count = before
    BY <1>1, <1>2, <1>3, <1>4, <1>5, <1>7, <1>8, <1>17, <2>1 DEF UndoNext, Step
  <2>3. count <= 1 => Receipts(n, new, now, count)
    BY <1>9, <1>11, <2>1, <2>2, RestoreReceipts
  <2>4. n # Idle
    BY <1>9, <2>1, <2>2, RestoringFacts DEF Idle
  <2>5. QED
    BY <1>13, <2>2, <2>3, <2>4
<1>18. CASE UndoFails(p) \/ AbortFails(p)
  <2>1. PICK n : op' = [op EXCEPT ![p] = n]
    BY <1>18 DEF UndoFails, AbortFails, Step
  <2>2. o.pc \in {"undo", "abort"} /\ count = before + 1
    BY <1>1, <1>14, <1>18 DEF UndoFails, AbortFails
  <2>3. ~(count <= 1)
    BY <1>9, <1>12, <2>2
  <2>4. QED
    BY <1>13, <2>1, <2>3
<1>19. CASE Abort(p)
  <2>1. /\ o.pc = "abort" /\ new = files /\ count = before /\ op' = [op EXCEPT ![p] = Idle]
    BY <1>1, <1>2, <1>4, <1>7, <1>8, <1>19 DEF Abort, Step
  <2>2. now = AbortedBackups(o, kept)
    BY <1>1, <1>3, <1>5, <1>19 DEF Abort, AbortedBackups
  <2>3. count <= 1 => Receipted(new, now)
    BY <1>9, <1>11, <2>1, <2>2, AbortReceipts
  <2>4. QED
    BY <1>13, <2>1, <2>3
<1>20. CASE Finish(p)
  <2>1. /\ o.pc = "finish" /\ new = files /\ count = before /\ op' = [op EXCEPT ![p] = Idle]
    BY <1>1, <1>2, <1>4, <1>7, <1>8, <1>20 DEF Finish, Step
  <2>2. now = FinishedBackups(o, kept)
    BY <1>1, <1>3, <1>5, <1>20 DEF Finish, FinishedBackups, ValidBackup, Valid
  <2>3. count <= 1 => Receipted(new, now)
    BY <1>9, <1>11, <2>1, <2>2, FinishReceipts
  <2>4. QED
    BY <1>13, <2>1, <2>3
<1>21. CASE FinishFails(p) \/ Crash(p)
  <2>1. /\ new = files /\ now = kept /\ count = before + 1 /\ op' = [op EXCEPT ![p] = Idle]
    BY <1>2, <1>3, <1>4, <1>5, <1>14, <1>21 DEF FinishFails, Crash, Step
  <2>2. count <= 1 => before <= 1 /\ o.pc \notin {"undo", "abort"}
    BY <1>9, <1>12, <2>1
  <2>3. count <= 1 => Receipted(new, now)
    BY <1>9, <1>11, <2>1, <2>2, LeavesReceipt
  <2>4. QED
    BY <1>13, <2>1, <2>3
<1>22. QED
  BY <1>15, <1>16, <1>17, <1>18, <1>19, <1>20, <1>21 DEF Advance

\* An uninstall gives config.toml back, and deletes the backup it came from.
LEMMA RollbackKeepsR ==
  ASSUME TInv, Roles, RInv, ~Overlap, AdvanceRollback
  PROVE  RInv'
<1>1. PICK o : o = op["cli"]
  OBVIOUS
<1>2. PICK files : files = disk
  OBVIOUS
<1>3. PICK kept : kept = backups
  OBVIOUS
<1>4. PICK new : new = disk'
  OBVIOUS
<1>5. PICK now : now = backups'
  OBVIOUS
<1>6. PICK text : text = userText
  OBVIOUS
<1>7. PICK before : before = faults.count
  OBVIOUS
<1>8. PICK count : count = faults'.count
  OBVIOUS
<1>9. /\ o # Idle /\ Transaction(o, text) /\ Removes(o) /\ DOMAIN files = Files
      /\ before \in Nat /\ "cli" \in Procs
  BY <1>1, <1>2, <1>6, <1>7, RollbackShape, BoundsAssumption DEF TInv, Snapshot, FilesTyped, Procs
<1>10. \A q \in Procs \ {"cli"} : op[q] = Idle
  BY <1>1, <1>9, Alone
<1>11. before <= 1 => Receipts(o, files, kept, before)
  BY <1>1, <1>2, <1>3, <1>7, <1>9 DEF RInv
<1>12. count = before \/ count = before + 1
  BY <1>7, <1>8, FaultFacts DEF AdvanceRollback, RollbackConfig, DropBackup,
     RollbackConfigFails, RollbackConfigUnsynced, DropBackupFails
<1>13. ASSUME NEW n, op' = [op EXCEPT !["cli"] = n],
              count <= 1 => IF n = Idle THEN Receipted(new, now) ELSE Receipts(n, new, now, count)
       PROVE  RInv'
  BY <1>4, <1>5, <1>8, <1>9, <1>10, <1>13, CloseReceipts
<1>14. PICK config : config = RolledBack(op["cli"])
  OBVIOUS
<1>15. o.pc = "config" /\ ~RollbackRefused(op["cli"]) => Unmanaged(config)
  BY <1>1, <1>14, RolledBackFacts DEF Unmanaged
<1>16. count <= 1 => before <= 1
  BY <1>9, <1>12
<1>17. CASE RollbackConfig
  <2>1. PICK pc \in {"backup", "write"} : pc = IF o.old = Absent THEN "write" ELSE "backup"
    OBVIOUS
  <2>2. PICK n : n = [o EXCEPT !.pc = pc]
    OBVIOUS
  <2>3. /\ o.pc = "config" /\ ~RollbackRefused(op["cli"]) /\ now = kept /\ count = before
        /\ new = [files EXCEPT !["config"] = config] /\ op' = [op EXCEPT !["cli"] = n]
    BY <1>1, <1>2, <1>3, <1>4, <1>5, <1>7, <1>8, <1>14, <1>17, <2>1, <2>2 DEF RollbackConfig, Step
  <2>4. count <= 1 => Receipts(n, new, now, count)
    <3>1. Unmanaged(config)
      BY <1>15, <2>3
    <3>2. before <= 1 => Receipts(n, new, kept, before)
      BY <1>9, <1>11, <2>2, <2>3, <3>1, RollbackReceipts
    <3>3. QED
      BY <2>3, <3>2
  <2>5. n # Idle
    BY <1>9, <2>1, <2>2, <2>3, SteppingFacts DEF Idle
  <2>6. QED
    BY <1>13, <2>3, <2>4, <2>5
<1>18. CASE DropBackup
  <2>1. PICK pc \in {"backup", "write"} : pc = "write"
    OBVIOUS
  <2>2. PICK n : n = [o EXCEPT !.pc = pc]
    OBVIOUS
  <2>3. /\ o.pc = "backup" /\ new = files /\ count = before /\ op' = [op EXCEPT !["cli"] = n]
    BY <1>1, <1>2, <1>4, <1>7, <1>8, <1>18, <2>1, <2>2 DEF DropBackup, Step
  <2>4. count <= 1 => Receipts(n, new, now, count)
    BY <1>9, <1>11, <2>1, <2>2, <2>3, RollbackReceipts
  <2>5. n # Idle
    BY <1>9, <2>1, <2>2, <2>3, SteppingFacts DEF Idle
  <2>6. QED
    BY <1>13, <2>3, <2>4, <2>5
<1>19. CASE RollbackConfigFails \/ DropBackupFails
  <2>1. /\ o.pc \in {"config", "backup"} /\ new = files /\ now = kept
        /\ op' = [op EXCEPT !["cli"] = Idle]
    BY <1>1, <1>2, <1>3, <1>4, <1>5, <1>19 DEF RollbackConfigFails, DropBackupFails, Step
  <2>2. count <= 1 => Receipted(new, now)
    BY <1>9, <1>11, <1>16, <2>1, LeavesReceipt
  <2>3. QED
    BY <1>13, <2>1, <2>2
<1>20. CASE RollbackConfigUnsynced
  <2>1. /\ o.pc = "config" /\ ~RollbackRefused(op["cli"]) /\ now = kept
        /\ new = [files EXCEPT !["config"] = config] /\ op' = [op EXCEPT !["cli"] = Idle]
    BY <1>1, <1>2, <1>3, <1>4, <1>5, <1>14, <1>20 DEF RollbackConfigUnsynced, Step
  <2>2. PICK pc \in {"backup", "write"} : pc = "write"
    OBVIOUS
  <2>3. before <= 1 => Receipted(new, now)
    BY <1>9, <1>11, <1>15, <2>1, <2>2, RollbackReceipts
  <2>4. QED
    BY <1>13, <1>16, <2>1, <2>3
<1>21. QED
  BY <1>17, <1>18, <1>19, <1>20 DEF AdvanceRollback

\* An edited config.toml is no longer the one the managed state published.
LEMMA EnvironmentKeepsR ==
  ASSUME TInv, RInv, Environment
  PROVE  RInv'
<1>1. ASSUME NEW kind \in EditKinds, EditConfig(kind) PROVE RInv'
  <2>1. /\ userText' \in Nat /\ userText' \in Text
        /\ userText # Absent => userText \in Nat /\ userText < userText'
        /\ disk'["config"] \in Config /\ disk'["config"].text = userText'
        /\ disk'["state"] = disk["state"]
    BY <1>1, EditFacts DEF Files
  <2>2. disk["state"] # Absent =>
          /\ disk["state"].config.text \in Text
          /\ disk["state"].config.text # Absent =>
               userText # Absent /\ disk["state"].config.text <= userText
    BY DEF TInv, Snapshot, FilesTyped, SoundState, State, Config
  <2>3. disk["state"] # Absent => disk["state"].config.text # userText'
    <3>1. SUFFICES ASSUME disk["state"] # Absent, disk["state"].config.text = userText'
                   PROVE  FALSE
      OBVIOUS
    <3>2. userText' # Absent
      BY <2>1, BoundsAssumption
    <3>3. userText \in Nat /\ userText < userText' /\ userText' <= userText
      BY <2>1, <2>2, <3>1, <3>2
    <3>4. QED
      BY <2>1, <3>3
  <2>4. Receipted(disk', backups')
    BY <2>1, <2>3 DEF Receipted
  <2>5. op' = op /\ AllIdle
    BY <1>1 DEF EditConfig
  <2>6. QED
    BY <2>4, <2>5 DEF RInv, AllIdle
<1>2. CASE StopService \/ StartService \/ RefreshNative \/ RefreshGrok
  BY <1>2 DEF StopService, StartService, RefreshNative, RefreshGrok, RInv, AllIdle
<1>3. QED
  BY <1>1, <1>2 DEF Environment

\* A receipt stays valid as long as one thing has gone wrong at most (after a failed
\* uninstall that also fails to recreate the backup it does not): while no uninstall runs
\* beside the service, the receipt of the configuration that is published is on disk and
\* gives back the very text it holds (prepare_picker_config, rollback_picker_config).
THEOREM ReceiptValidHolds ==
  ASSUME ~Overlap
  PROVE  Spec => [](faults.count <= 1 => ReceiptValid)
<1>1. Init => RInv
  <2>1. SUFFICES ASSUME Init PROVE RInv
    OBVIOUS
  <2>2. AllIdle /\ disk["state"] = Absent
    BY <2>1, InitFacts
  <2>3. QED
    BY <2>2 DEF RInv, AllIdle, Receipted
<1>2. TInv /\ Roles /\ OneMode /\ RInv /\ [Next]_vars => RInv'
  <2>1. SUFFICES ASSUME TInv, Roles, RInv, [Next]_vars PROVE RInv'
    OBVIOUS
  <2>2. CASE Next
    BY <2>1, <2>2, BeginKeepsR, AdvanceKeepsR, RollbackKeepsR, EnvironmentKeepsR DEF Next
  <2>3. CASE UNCHANGED vars
    BY <2>1, <2>3 DEF vars, RInv, AllIdle
  <2>4. QED
    BY <2>1, <2>2, <2>3
<1>3. TInv /\ Roles /\ RInv => (faults.count <= 1 => ReceiptValid)
  <2>1. SUFFICES ASSUME TInv, Roles, RInv, faults.count <= 1,
                        disk["state"] # Absent, disk["config"] = disk["state"].config,
                        op["cli"].kind # "uninstall"
                 PROVE  /\ ValidBackup(disk["state"].rollback)
                        /\ TextOf(IF disk["state"].rollback = Absent THEN Absent
                                  ELSE disk["state"].rollback.content)
                             = TextOf(disk["state"].config)
    BY DEF ReceiptValid
  <2>2. Receipted(disk, backups)
    <3>1. CASE AllIdle
      BY <2>1, <3>1 DEF RInv
    <3>2. CASE ~AllIdle
      <4>1. PICK p \in Procs : op[p] # Idle
        BY <3>2 DEF AllIdle
      <4>2. Transaction(op[p], userText) /\ Receipts(op[p], disk, backups, faults.count)
        BY <2>1, <4>1 DEF TInv, RInv
      <4>3. ~Removes(op[p])
        BY <2>1, <4>1 DEF Removes, Roles, Procs
      <4>4. QED
        BY <4>2, <4>3, RunningReceipts
    <3>3. QED
      BY <3>1, <3>2
  <2>3. SoundState(disk["state"], userText) /\ disk["state"] \in State
    BY <2>1 DEF TInv, Snapshot, FilesTyped
  <2>4. TextOf(disk["state"].config) = disk["state"].config.text
    BY <2>3, AbsentAssumption DEF TextOf, State
  <2>5. QED
    BY <2>1, <2>2, <2>3, <2>4 DEF Receipted, Valid, ValidBackup, SoundState
<1>4. QED
  BY <1>1, <1>2, <1>3, RolesHold, PTL DEF Spec

-----------------------------------------------------------------------------
(* Compensated failures.                                                    *)

\* The backups on disk are those of two receipts.
Owned(kept, first, second) ==
  \A b \in BackupIds :
    kept[b] = IF first # Absent /\ first.id = b THEN first.content
              ELSE IF second # Absent /\ second.id = b THEN second.content ELSE Absent

\* The files a transaction has still to write are as it found them, the others as it
\* publishes them, and it writes them in the order of their ranks.
Written(o, files) ==
  \A g \in Files :
    IF g \in Left(o.todo) THEN files[g] = o.entry[g]
    ELSE g # "config" \/ ~Removes(o) =>
           /\ files[g] = o.next[g]
           /\ o.entry[g] # o.next[g] => \A f \in Left(o.todo) : Rank(g) < Rank(f)

Restored(o, files) == \A g \in Files \ Left(o.todo) : files[g] = o.entry[g]

Same(files, other) == \A g \in Files : files[g] = other[g]

\* What transactions leave: a picker that is published or withdrawn, and its backup.
Settled(files, kept) ==
  /\ Withdrawn(files) \/ Coherent(files)
  /\ Owned(kept, ReceiptOf(files["state"]), Absent)

PublicationStep(o, files, kept, count) ==
  /\ Withdrawn(o.entry) \/ Coherent(o.entry)
  /\ Owned(kept, ReceiptOf(o.entry["state"]), o.next["state"].rollback)
  /\ o.pc = "write" => Written(o, files)
  /\ o.pc = "undo" => Restored(o, files) /\ count > 0
  /\ o.pc = "abort" => Same(files, o.entry) /\ count > 0
  /\ o.pc = "finish" => Same(files, o.next)

RemovalStep(o, files, kept, count) ==
  /\ Coherent(o.entry)
  /\ Owned(kept, IF o.pc \in {"config", "backup"} THEN o.old ELSE Absent, Absent)
  /\ o.pc = "config" => Same(files, o.entry)
  /\ o.pc \in {"config", "backup"} => o.todo = RemovalOrder
  /\ o.pc = "backup" => o.old # Absent
  /\ o.pc \in {"backup", "write"} => Written(o, files) /\ Unmanaged(files["config"])
  /\ o.pc = "undo" => Restored(o, files) /\ count > 0
  /\ o.pc = "abort" => Same(files, o.entry) /\ count > 0

Progress(o, files, kept, count) ==
  IF Removes(o) THEN RemovalStep(o, files, kept, count)
  ELSE PublicationStep(o, files, kept, count)

IInv ==
  /\ faults.mishap => faults.count > 0
  /\ ~faults.mishap =>
       /\ AllIdle => Settled(disk, backups)
       /\ \A p \in Procs : op[p] # Idle => Progress(op[p], disk, backups, faults.count)

\* Files that agree are withdrawn, or coherent, together.
LEMMA SameFacts ==
  ASSUME NEW files, NEW other, Same(files, other)
  PROVE  /\ (Withdrawn(files) <=> Withdrawn(other))
         /\ (Coherent(files) <=> Coherent(other))
         /\ ReceiptOf(files["state"]) = ReceiptOf(other["state"])
<1>1. /\ files["generated"] = other["generated"] /\ files["route"] = other["route"]
      /\ files["config"] = other["config"] /\ files["state"] = other["state"]
  BY DEF Same, Files
<1>2. QED
  BY <1>1 DEF Withdrawn, Coherent, Described

\* When the last backup of a plan is the only one, or the same.
LEMMA OwnedFacts ==
  ASSUME NEW kept, NEW first, NEW second, Owned(kept, first, second)
  PROVE  /\ first = Absent \/ first = second => Owned(kept, second, Absent)
         /\ second = Absent \/ first = second => Owned(kept, first, Absent)
         /\ first \in Rollback => Valid(kept, first)
BY DEF Owned, Valid, Rollback, Receipt

\* The next file is written; the last one settles the transaction.
LEMMA WriteProgress ==
  ASSUME NEW text, NEW o, Transaction(o, text), o.pc = "write", NEW files, DOMAIN files = Files,
         NEW kept, NEW count, Progress(o, files, kept, count),
         NEW n, n = Continue(o),
         NEW new, new = [files EXCEPT ![Head(o.todo)] = o.next[Head(o.todo)]]
  PROVE  IF n = Idle
         THEN /\ Settled(new, kept)
              /\ IF Removes(o) THEN Withdrawn(new) ELSE Same(new, o.next)
         ELSE SamePlan(o, n) /\ Progress(n, new, kept, count)
<1> DEFINE f == Head(o.todo)  t == Tail(o.todo)
<1>1. /\ f \in Files /\ Left(o.todo) = {f} \cup Left(t) /\ f \notin Left(t)
      /\ \A g \in Left(t) : g \in Files /\ Rank(f) < Rank(g)
      /\ t = <<>> => Left(t) = {}
      /\ Removes(o) => f # "config" /\ "config" \notin Left(t)
  BY NextLeft
<1>2. \/ n = Idle /\ t = <<>> /\ (Removes(o) \/ o.old = Absent)
      \/ /\ Transaction(n, text) /\ SamePlan(o, n) /\ n.todo = t
         /\ n.pc = IF t = <<>> THEN "finish" ELSE "write"
  BY ContinueFacts DEF SamePlan
<1>3. \A g \in Files : new[g] = IF g = f THEN o.next[f] ELSE files[g]
  OBVIOUS
<1>4. n = Idle => t = <<>> /\ (Removes(o) \/ o.old = Absent)
  BY <1>2 DEF Idle
<1> HIDE DEF f, t
<1>5. Written(o, files)
  BY DEF Progress, RemovalStep, PublicationStep
<1>6. ASSUME NEW g \in Files, g \in Left(t) PROVE new[g] = o.entry[g]
  BY <1>1, <1>3, <1>5, <1>6 DEF Written
<1>7. ASSUME NEW g \in Files, g \notin Left(t), g # "config" \/ ~Removes(o)
      PROVE  /\ new[g] = o.next[g]
             /\ o.entry[g] # o.next[g] => \A h \in Left(t) : Rank(g) < Rank(h)
  BY <1>1, <1>3, <1>5, <1>7 DEF Written
<1>8. CASE Removes(o)
  <2>1. RemovalStep(o, files, kept, count)
    BY <1>8 DEF Progress
  <2>2. new["config"] = files["config"]
    BY <1>1, <1>3, <1>8 DEF Files
  <2>3. Unmanaged(new["config"]) /\ Owned(kept, Absent, Absent)
    BY <2>1, <2>2 DEF RemovalStep
  <2>4. CASE n = Idle
    <3>1. \A g \in Files : g # "config" => new[g] = Absent
      BY <1>1, <1>4, <1>7, <1>8, <2>4, RemovalTypes DEF NoFiles
    <3>2. Withdrawn(new) /\ ReceiptOf(new["state"]) = Absent
      BY <2>3, <3>1 DEF Withdrawn, Unmanaged, ReceiptOf, Files
    <3>3. QED
      BY <1>8, <2>3, <2>4, <3>2 DEF Settled
  <2>5. CASE n # Idle
    <3>1. Transaction(n, text) /\ SamePlan(o, n) /\ n.todo = t /\ n.pc = "write" /\ Removes(n)
      BY <1>2, <1>8, <2>5 DEF Transaction, Removes, SamePlan
    <3>2. Written(n, new)
      BY <1>6, <1>7, <3>1 DEF Written, SamePlan, Removes
    <3>3. RemovalStep(n, new, kept, count)
      BY <2>1, <2>3, <3>1, <3>2 DEF RemovalStep, SamePlan
    <3>4. QED
      BY <2>5, <3>1, <3>3 DEF Progress
  <2>6. QED
    BY <2>4, <2>5
<1>9. CASE ~Removes(o)
  <2>1. PublicationStep(o, files, kept, count)
    BY <1>9 DEF Progress
  <2>2. t = <<>> => Same(new, o.next)
    BY <1>1, <1>7, <1>9 DEF Same
  <2>3. CASE n = Idle
    <3>1. Same(new, o.next) /\ o.old = Absent
      BY <1>4, <1>9, <2>2, <2>3
    <3>2. Coherent(o.next) /\ o.next["state"] # Absent
      BY <1>9, ReceiptTypes DEF PublicationPlan
    <3>3. ReceiptOf(o.next["state"]) = o.next["state"].rollback
      BY <3>2 DEF ReceiptOf
    <3>4. ReceiptOf(o.entry["state"]) \in {Absent, o.next["state"].rollback}
      BY <1>9, <3>1, ReceiptTypes DEF PublicationPlan
    <3>5. Owned(kept, o.next["state"].rollback, Absent)
      BY <2>1, <3>4, OwnedFacts DEF PublicationStep
    <3>6. QED
      BY <1>9, <2>3, <3>1, <3>2, <3>3, <3>5, SameFacts DEF Settled
  <2>4. CASE n # Idle
    <3>1. Transaction(n, text) /\ SamePlan(o, n) /\ n.todo = t /\ ~Removes(n)
          /\ n.pc = IF t = <<>> THEN "finish" ELSE "write"
      BY <1>2, <1>9, <2>4 DEF Removes, SamePlan
    <3>2. n.pc = "write" => Written(n, new)
      BY <1>6, <1>7, <1>9, <3>1 DEF Written, SamePlan, Removes
    <3>3. PublicationStep(n, new, kept, count)
      BY <2>1, <2>2, <3>1, <3>2 DEF PublicationStep, SamePlan
    <3>4. QED
      BY <2>4, <3>1, <3>3 DEF Progress
  <2>5. QED
    BY <2>3, <2>4
<1>10. QED
  BY <1>8, <1>9

\* A write fails and leaves the file alone: the files written before it are restored.
LEMMA UndoingProgress ==
  ASSUME NEW text, NEW o, Transaction(o, text), o.pc = "write", NEW files,
         NEW kept, NEW count \in Nat, Progress(o, files, kept, count),
         NEW n, n = Undoing(o, Head(o.todo))
  PROVE  SamePlan(o, n) /\ n # Idle /\ Progress(n, files, kept, count + 1)
<1> DEFINE f == Head(o.todo)
<1>1. f \in Files /\ f \in Left(o.todo) /\ (Removes(o) => f # "config")
  BY NextLeft
<1>2. /\ Transaction(n, text) /\ SamePlan(o, n) /\ n.todo = UndoOf(o, f)
      /\ n.pc = IF n.todo = <<>> THEN "abort" ELSE "undo"
  BY UndoingFacts DEF SamePlan
<1>3. o.kind \in {"install", "sync", "uninstall"}
  BY DEF Transaction, PublicationPlan, RemovalPlan
<1>4. /\ \A g \in Differing(o.entry, o.next) : Rank(g) < Rank(f) => g \in Left(n.todo)
      /\ Removes(o) => "config" \in Left(n.todo)
  BY <1>1, <1>2, <1>3, UndoFacts
<1>5. n.todo \in Seq(Files) /\ (n.todo = <<>> => Left(n.todo) = {})
  BY <1>2, LeftFacts DEF Transaction
<1>6. count + 1 > 0
  OBVIOUS
<1>7. Written(o, files)
  BY DEF Progress, RemovalStep, PublicationStep
<1> HIDE DEF f
<1>8. ASSUME NEW g \in Files, g \notin Left(n.todo) PROVE files[g] = o.entry[g]
  <2>1. g # "config" \/ ~Removes(o)
    BY <1>4, <1>8
  <2>2. CASE g \in Left(o.todo)
    BY <1>7, <2>2 DEF Written
  <2>3. CASE g \notin Left(o.todo)
    <3>1. files[g] = o.next[g] /\ (o.entry[g] # o.next[g] => Rank(g) < Rank(f))
      BY <1>1, <1>7, <2>1, <2>3 DEF Written
    <3>2. QED
      BY <1>4, <1>8, <3>1 DEF Differing
  <2>4. QED
    BY <2>2, <2>3
<1>9. n.pc \in {"abort", "undo"} /\ (n.pc = "undo" => Restored(n, files))
      /\ (n.pc = "abort" => Same(files, n.entry))
  BY <1>2, <1>5, <1>8 DEF Restored, Same, SamePlan
<1>10. n # Idle
  BY <1>9 DEF Idle
<1>11. CASE Removes(o)
  <2>1. RemovalStep(n, files, kept, count + 1)
    BY <1>2, <1>6, <1>9, <1>11 DEF Progress, RemovalStep, SamePlan
  <2>2. QED
    BY <1>2, <1>10, <1>11, <2>1 DEF Progress, Removes, SamePlan
<1>12. CASE ~Removes(o)
  <2>1. PublicationStep(n, files, kept, count + 1)
    BY <1>2, <1>6, <1>9, <1>12 DEF Progress, PublicationStep, SamePlan
  <2>2. QED
    BY <1>2, <1>10, <1>12, <2>1 DEF Progress, Removes, SamePlan
<1>13. QED
  BY <1>11, <1>12

\* The next file is restored.
LEMMA RestoreProgress ==
  ASSUME NEW text, NEW o, Transaction(o, text), o.pc = "undo", NEW files, DOMAIN files = Files,
         NEW kept, NEW count, Progress(o, files, kept, count),
         NEW n, n = After(o, Tail(o.todo), "abort"),
         NEW new, new = [files EXCEPT ![Head(o.todo)] = o.entry[Head(o.todo)]]
  PROVE  SamePlan(o, n) /\ n # Idle /\ Progress(n, new, kept, count)
<1> DEFINE f == Head(o.todo)
<1>1. /\ o.todo \in Seq(Files) /\ o.todo # <<>>
  BY DEF Transaction
<1>2. f \in Files /\ Left(o.todo) = {f} \cup Left(Tail(o.todo)) /\ Tail(o.todo) \in Seq(Files)
  BY <1>1, HeadFacts
<1>3. /\ Transaction(n, text) /\ SamePlan(o, n) /\ n.todo = Tail(o.todo)
      /\ n.pc = IF n.todo = <<>> THEN "abort" ELSE "undo"
  BY RestoringFacts DEF SamePlan
<1>4. n.todo = <<>> => Left(n.todo) = {}
  BY <1>2, <1>3, LeftFacts
<1>5. \A g \in Files : new[g] = IF g = f THEN o.entry[f] ELSE files[g]
  BY <1>2
<1>6. Restored(o, files) /\ count > 0
  BY DEF Progress, RemovalStep, PublicationStep
<1> HIDE DEF f
<1>7. \A g \in Files : g \notin Left(n.todo) => new[g] = o.entry[g]
  BY <1>2, <1>3, <1>5, <1>6 DEF Restored
<1>8. n.pc \in {"abort", "undo"} /\ (n.pc = "undo" => Restored(n, new))
      /\ (n.pc = "abort" => Same(new, n.entry))
  BY <1>3, <1>4, <1>7 DEF Restored, Same, SamePlan
<1>9. n # Idle
  BY <1>8 DEF Idle
<1>10. CASE Removes(o)
  <2>1. RemovalStep(n, new, kept, count)
    BY <1>3, <1>6, <1>8, <1>10 DEF Progress, RemovalStep, SamePlan
  <2>2. QED
    BY <1>3, <1>9, <1>10, <2>1 DEF Progress, Removes, SamePlan
<1>11. CASE ~Removes(o)
  <2>1. PublicationStep(n, new, kept, count)
    BY <1>3, <1>6, <1>8, <1>11 DEF Progress, PublicationStep, SamePlan
  <2>2. QED
    BY <1>3, <1>9, <1>11, <2>1 DEF Progress, Removes, SamePlan
<1>12. QED
  BY <1>10, <1>11

\* A compensated failure leaves the files as they were found, and their backup.
LEMMA AbortProgress ==
  ASSUME NEW text, NEW o, Transaction(o, text), o.pc = "abort", NEW files,
         NEW kept, DOMAIN kept = BackupIds, NEW count, Progress(o, files, kept, count),
         NEW now, now = AbortedBackups(o, kept)
  PROVE  Same(files, o.entry) /\ Settled(files, now)
<1> DEFINE r == ReceiptOf(o.entry["state"])
<1>1. Same(files, o.entry) /\ (Withdrawn(o.entry) \/ Coherent(o.entry))
  BY DEF Progress, RemovalStep, PublicationStep
<1>2. r \in Rollback /\ o.old \in Rollback /\ o.fresh \in BackupIds \cup {Absent}
      /\ \A x \in Rollback : x # Absent => x.id \in BackupIds
  BY ReceiptIds
<1>3. Owned(now, r, Absent)
  <2>1. CASE Removes(o)
    <3>1. r = o.old /\ Owned(kept, Absent, Absent)
      BY <2>1, RemovalTypes DEF Progress, RemovalStep, ReceiptOf
    <3>2. now = IF o.old # Absent THEN [kept EXCEPT ![o.old.id] = o.old.content] ELSE kept
      BY <2>1 DEF AbortedBackups
    <3> HIDE DEF r
    <3>3. QED
      BY <1>2, <3>1, <3>2 DEF Owned
  <2>2. CASE ~Removes(o)
    <3>1. Owned(kept, r, o.next["state"].rollback)
      BY <2>2 DEF Progress, PublicationStep
    <3>2. CASE o.fresh = Absent
      <4>1. now = kept /\ o.next["state"].rollback = r
        BY <2>2, <3>2, ReceiptTypes DEF AbortedBackups, PublicationPlan
      <4>2. QED
        BY <3>1, <4>1, OwnedFacts
    <3>3. CASE o.fresh # Absent
      <4>1. /\ now = [kept EXCEPT ![o.fresh] = Absent]
            /\ o.next["state"].rollback # Absent /\ o.next["state"].rollback.id = o.fresh
            /\ r # Absent => r.id # o.fresh
        BY <2>2, <3>3, ReceiptTypes DEF AbortedBackups
      <4> HIDE DEF r
      <4>2. QED
        BY <1>2, <3>1, <3>3, <4>1 DEF Owned
    <3>4. QED
      BY <3>2, <3>3
  <2>3. QED
    BY <2>1, <2>2
<1>4. QED
  BY <1>1, <1>3, SameFacts DEF Settled

\* A finished publication leaves what it planned, and the new backup alone.
LEMMA FinishProgress ==
  ASSUME NEW text, NEW o, Transaction(o, text), o.pc = "finish", NEW files,
         NEW kept, DOMAIN kept = BackupIds, NEW count, Progress(o, files, kept, count),
         NEW now, now = FinishedBackups(o, kept)
  PROVE  ~Removes(o) /\ Same(files, o.next) /\ Settled(files, now)
<1> DEFINE r == o.next["state"].rollback
<1>1. ~Removes(o) /\ o.old # Absent
  BY DEF Transaction
<1>2. Same(files, o.next) /\ Owned(kept, ReceiptOf(o.entry["state"]), r)
  BY <1>1 DEF Progress, PublicationStep
<1>3. /\ o.fresh # Absent /\ o.old = ReceiptOf(o.entry["state"]) /\ r # Absent
      /\ r.id = o.fresh /\ o.old.id # o.fresh
  BY <1>1, ReceiptTypes DEF PublicationPlan
<1>4. o.old \in Rollback /\ o.old.id \in BackupIds
  BY <1>1, ReceiptIds
<1>5. Coherent(o.next) /\ ReceiptOf(o.next["state"]) = r
  BY <1>1, ReceiptTypes DEF PublicationPlan, ReceiptOf
<1> HIDE DEF r
<1>6. now = [kept EXCEPT ![o.old.id] = Absent]
  BY <1>2, <1>3, <1>4, OwnedFacts DEF FinishedBackups
<1>7. Owned(now, r, Absent)
  BY <1>1, <1>2, <1>3, <1>4, <1>6 DEF Owned
<1>8. QED
  BY <1>1, <1>2, <1>5, <1>7, SameFacts DEF Settled

\* The configuration is taken back.
LEMMA RollbackProgress ==
  ASSUME NEW text, NEW o, Transaction(o, text), o.pc = "config", NEW files, DOMAIN files = Files,
         NEW kept, NEW count, Progress(o, files, kept, count),
         NEW pc, pc = IF o.old = Absent THEN "write" ELSE "backup",
         NEW n, n = [o EXCEPT !.pc = pc],
         NEW config, Unmanaged(config), NEW new, new = [files EXCEPT !["config"] = config]
  PROVE  /\ Same(files, o.entry) /\ Settled(files, kept)
         /\ SamePlan(o, n) /\ n # Idle /\ Progress(n, new, kept, count)
<1>1. Removes(o)
  BY DEF Transaction
<1>2. RemovalStep(o, files, kept, count)
  BY <1>1 DEF Progress
<1>3. Same(files, o.entry) /\ Coherent(o.entry) /\ Owned(kept, o.old, Absent) /\ o.todo = RemovalOrder
  BY <1>2 DEF RemovalStep
<1>4. ReceiptOf(o.entry["state"]) = o.old
  BY <1>1, RemovalTypes DEF ReceiptOf
<1>5. Settled(files, kept)
  BY <1>3, <1>4, SameFacts DEF Settled
<1>6. pc \in {"backup", "write"}
  OBVIOUS
<1>7. SamePlan(o, n) /\ n.todo = o.todo /\ n.pc = pc /\ Removes(n)
  BY <1>1, <1>6, SteppingFacts DEF SamePlan, Removes
<1>8. new["config"] = config /\ \A f \in Files : f # "config" => new[f] = files[f]
  BY DEF Files
<1>9. Left(n.todo) = Files \ {"config"}
  BY <1>3, <1>7, Orders DEF Files
<1>10. Written(n, new)
  BY <1>3, <1>7, <1>8, <1>9 DEF Written, Same, SamePlan
<1>11. RemovalStep(n, new, kept, count)
  BY <1>2, <1>3, <1>6, <1>7, <1>8, <1>10 DEF RemovalStep, SamePlan
<1>12. n # Idle
  BY <1>6, <1>7 DEF Idle
<1>13. QED
  BY <1>3, <1>5, <1>7, <1>11, <1>12 DEF Progress

\* The backup it came from is there, and is deleted.
LEMMA DropProgress ==
  ASSUME NEW text, NEW o, Transaction(o, text), o.pc = "backup", NEW files,
         NEW kept, DOMAIN kept = BackupIds, NEW count, Progress(o, files, kept, count),
         NEW n, n = [o EXCEPT !.pc = "write"], NEW now, now = [kept EXCEPT ![o.old.id] = Absent]
  PROVE  /\ Valid(kept, o.old)
         /\ SamePlan(o, n) /\ n # Idle /\ Progress(n, files, now, count)
<1>1. Removes(o)
  BY DEF Transaction
<1>2. RemovalStep(o, files, kept, count)
  BY <1>1 DEF Progress
<1>3. SamePlan(o, n) /\ n.todo = o.todo /\ n.pc = "write" /\ Removes(n)
  BY <1>1, SteppingFacts DEF SamePlan, Removes
<1>4. Owned(kept, o.old, Absent) /\ o.old \in Rollback
  BY <1>1, <1>2, RemovalTypes DEF RemovalStep
<1>5. Owned(now, Absent, Absent)
  BY <1>4 DEF Owned
<1>6. Written(n, files)
  BY <1>2, <1>3 DEF RemovalStep, Written, SamePlan, Removes
<1>7. RemovalStep(n, files, now, count)
  BY <1>2, <1>3, <1>5, <1>6 DEF RemovalStep, SamePlan
<1>8. n # Idle
  BY <1>3 DEF Idle
<1>9. QED
  BY <1>3, <1>4, <1>7, <1>8, OwnedFacts DEF Progress

\* A picker that config.toml selects.
Published(files) ==
  /\ Coherent(files) /\ files["generated"] \in Generated
  /\ files["config"] # Absent /\ files["config"].keys = "ours"

\* What a step of the transactions does to the visible picker.
Outcome ==
  /\ userText' = userText
  /\ \/ faults'.mishap
     \/ /\ faults'.mishap = faults.mishap
        /\ \/ Same(Visible', Visible)
           \/ Published(Visible')
           \/ Coherent(Visible) /\ Withdrawn(Visible')

\* Files that agree with those a publication planned are published.
LEMMA PlannedPublished ==
  ASSUME NEW text, NEW o, Transaction(o, text), ~Removes(o), NEW files, Same(files, o.next)
  PROVE  Published(files)
<1>1. /\ Snapshot(o.next, text) /\ Coherent(o.next) /\ o.next["state"] # Absent
      /\ o.next["config"] = o.next["state"].config
  BY ReceiptTypes DEF PublicationPlan
<1>2. /\ o.next["state"] \in State /\ o.next["generated"] = o.next["state"].generated
      /\ o.next["config"].keys = "ours"
  BY <1>1 DEF Snapshot, FilesTyped, SoundState, Coherent, Described
<1>3. o.next["generated"] \in Generated /\ o.next["config"] # Absent
  BY <1>1, <1>2, AbsentAssumption DEF State
<1>4. files["generated"] = o.next["generated"] /\ files["config"] = o.next["config"]
  BY DEF Same, Files
<1>5. QED
  BY <1>1, <1>2, <1>3, <1>4, SameFacts DEF Published

\* Which files the world sees while at most one transaction runs.
LEMMA VisibleFacts ==
  ASSUME NEW p \in Procs, \A q \in Procs \ {p} : op[q] = Idle
  PROVE  Visible = IF op[p] = Idle THEN disk ELSE op[p].entry
<1>1. CASE op[p] = Idle
  BY <1>1 DEF Visible, AllIdle
<1>2. CASE op[p] # Idle
  <2>1. (CHOOSE q \in Procs : op[q] # Idle) = p
    BY <1>2
  <2>2. QED
    BY <1>2, <2>1 DEF Visible, AllIdle
<1>3. QED
  BY <1>1, <1>2

\* And after a step.
LEMMA VisibleAfter ==
  ASSUME NEW p \in Procs, \A q \in Procs \ {p} : op'[q] = Idle
  PROVE  Visible' = IF op'[p] = Idle THEN disk' ELSE op'[p].entry
<1>1. CASE op'[p] = Idle
  BY <1>1 DEF Visible, AllIdle
<1>2. CASE op'[p] # Idle
  <2>1. (CHOOSE q \in Procs : op'[q] # Idle) = p
    BY <1>2
  <2>2. QED
    BY <1>2, <2>1 DEF Visible, AllIdle
<1>3. QED
  BY <1>1, <1>2

\* The invariant, and what the world sees, after a step of one process.
LEMMA CloseProgress ==
  ASSUME TInv, NEW p \in Procs, \A q \in Procs \ {p} : op[q] = Idle,
         NEW n, op' = [op EXCEPT ![p] = n],
         NEW new, disk' = new, NEW now, backups' = now, NEW count, faults'.count = count,
         faults'.mishap => count > 0,
         ~faults'.mishap => IF n = Idle THEN Settled(new, now) ELSE Progress(n, new, now, count)
  PROVE  /\ IInv'
         /\ Visible = IF op[p] = Idle THEN disk ELSE op[p].entry
         /\ Visible' = IF n = Idle THEN new ELSE n.entry
<1>1. DOMAIN op' = Procs /\ op'[p] = n /\ \A q \in Procs \ {p} : op'[q] = Idle
  BY DEF TInv
<1>2. ASSUME ~faults'.mishap, \A q \in Procs : op'[q] = Idle PROVE Settled(disk', backups')
  BY <1>1, <1>2
<1>3. ASSUME ~faults'.mishap, NEW q \in Procs, op'[q] # Idle
      PROVE  Progress(op'[q], disk', backups', faults'.count)
  BY <1>1, <1>3
<1>4. IInv'
  BY <1>2, <1>3 DEF IInv, AllIdle
<1>5. QED
  BY <1>1, <1>4, VisibleFacts, VisibleAfter

\* The faults of a step: the second one is always a mishap.
LEMMA MishapFacts ==
  ASSUME TInv, IInv, NEW kind, Fault(kind)
  PROVE  /\ faults'.count = faults.count + 1 /\ faults'.count > 0 /\ faults.count \in Nat
         /\ ~faults'.mishap =>
              ~faults.mishap /\ faults.count = 0 /\ kind \in {"write", "remove"}
<1>1. faults.count \in Nat
  BY BoundsAssumption DEF TInv
<1>2. QED
  BY <1>1, FaultFacts DEF IInv

\* A file operation, done or failed: the world sees no difference, unless it was the
\* last one of its transaction, or a mishap.
LEMMA AdvanceProgress ==
  ASSUME TInv, Roles, IInv, ~Overlap, NEW p \in Procs, Advance(p) \/ Crash(p)
  PROVE  IInv' /\ Outcome
<1>1. PICK o : o = op[p]
  OBVIOUS
<1>2. PICK files : files = disk
  OBVIOUS
<1>3. PICK kept : kept = backups
  OBVIOUS
<1>4. PICK new : new = disk'
  OBVIOUS
<1>5. PICK now : now = backups'
  OBVIOUS
<1>6. PICK text : text = userText
  OBVIOUS
<1>7. PICK before : before = faults.count
  OBVIOUS
<1>8. PICK count : count = faults'.count
  OBVIOUS
<1>9. /\ o # Idle /\ Transaction(o, text) /\ DOMAIN files = Files /\ DOMAIN kept = BackupIds
      /\ before \in Nat /\ userText' = userText
  BY <1>1, <1>2, <1>3, <1>6, <1>7, AdvanceShape, BoundsAssumption DEF TInv, Snapshot, FilesTyped
<1>10. \A q \in Procs \ {p} : op[q] = Idle
  BY <1>1, <1>9, Alone
<1>11. ~faults.mishap => Progress(o, files, kept, before)
  BY <1>1, <1>2, <1>3, <1>7, <1>9 DEF IInv
<1>12. ASSUME NEW n, op' = [op EXCEPT ![p] = n], faults'.mishap => count > 0,
              ~faults'.mishap =>
                IF n = Idle THEN Settled(new, now) ELSE Progress(n, new, now, count)
       PROVE  IInv' /\ Visible = o.entry /\ Visible' = IF n = Idle THEN new ELSE n.entry
  BY <1>1, <1>4, <1>5, <1>8, <1>9, <1>10, <1>12, CloseProgress
<1>13. \A kind : Fault(kind) =>
         /\ count = before + 1 /\ count > 0
         /\ ~faults'.mishap => ~faults.mishap /\ before = 0 /\ kind \in {"write", "remove"}
  BY <1>7, <1>8, MishapFacts
<1>14. UNCHANGED faults => count = before /\ (faults'.mishap => count > 0)
  BY <1>7, <1>8 DEF IInv
<1>15. \A files1 : Same(files1, files1)
  BY DEF Same
<1>16. CASE WriteNext(p)
  <2>1. PICK n : n = Continue(o)
    OBVIOUS
  <2>2. /\ o.pc = "write" /\ new = [files EXCEPT ![Head(o.todo)] = o.next[Head(o.todo)]]
        /\ op' = [op EXCEPT ![p] = n] /\ now = kept /\ UNCHANGED faults
    BY <1>1, <1>2, <1>3, <1>4, <1>5, <1>16, <2>1 DEF WriteNext, Step
  <2>3. ~faults.mishap =>
          IF n = Idle
          THEN /\ Settled(new, kept)
               /\ IF Removes(o) THEN Withdrawn(new) ELSE Same(new, o.next)
          ELSE SamePlan(o, n) /\ Progress(n, new, kept, before)
    BY <1>9, <1>11, <2>1, <2>2, WriteProgress
  <2>4. IInv' /\ Visible = o.entry /\ Visible' = IF n = Idle THEN new ELSE n.entry
    BY <1>12, <1>14, <2>2, <2>3
  <2>5. ~faults.mishap => \/ Visible' = Visible \/ Published(Visible')
                          \/ Coherent(Visible) /\ Withdrawn(Visible')
    <3>1. CASE n # Idle
      BY <2>3, <2>4, <3>1 DEF SamePlan
    <3>2. CASE n = Idle /\ Removes(o)
      BY <1>11, <2>3, <2>4, <3>2 DEF Progress, RemovalStep
    <3>3. CASE n = Idle /\ ~Removes(o)
      BY <1>9, <2>3, <2>4, <3>3, PlannedPublished
    <3>4. QED
      BY <3>1, <3>2, <3>3
  <2>6. Outcome
    BY <1>9, <1>15, <2>2, <2>5 DEF Outcome
  <2>7. QED
    BY <2>4, <2>6
<1>17. CASE WriteFails(p) \/ WriteUnsynced(p)
  <2>1. PICK n : n = Undoing(o, Head(o.todo))
    OBVIOUS
  <2>2. /\ o.pc = "write" /\ op' = [op EXCEPT ![p] = n] /\ now = kept
    BY <1>1, <1>3, <1>5, <1>17, <2>1 DEF WriteFails, WriteUnsynced, Step
  <2>3. ~faults.mishap /\ Removes(o) => files[Head(o.todo)] # Absent
    <3>1. SUFFICES ASSUME ~faults.mishap, Removes(o) PROVE files[Head(o.todo)] # Absent
      OBVIOUS
    <3>2. Head(o.todo) \in Left(o.todo) /\ Head(o.todo) \in {"generated", "route", "state"}
      BY <1>9, <2>2, <3>1, NextLeft DEF Files
    <3>3. files[Head(o.todo)] = o.entry[Head(o.todo)]
      BY <1>11, <2>2, <3>1, <3>2 DEF Progress, RemovalStep, Written, Files
    <3>4. QED
      BY <1>9, <3>1, <3>2, <3>3, RemovalTypes
  <2>4. \/ WriteFails(p) /\ (Fault("write") \/ Fault("remove"))
        \/ WriteUnsynced(p) /\ Fault("fsync")
        \/ UNCHANGED faults /\ Removes(o) /\ files[Head(o.todo)] = Absent
    BY <1>1, <1>2, <1>17 DEF WriteFails, WriteUnsynced
  <2>5. faults'.mishap => count > 0
    BY <1>13, <1>14, <2>4
  <2>6. ~faults'.mishap => WriteFails(p) /\ count = before + 1 /\ ~faults.mishap
    <3>1. Fault("fsync") => faults'.mishap
      BY <1>13
    <3>2. QED
      BY <1>13, <2>3, <2>4, <3>1
  <2>7. ~faults'.mishap => new = files
    BY <1>2, <1>4, <2>6 DEF WriteFails
  <2>8. ~faults'.mishap => SamePlan(o, n) /\ n # Idle /\ Progress(n, new, now, count)
    BY <1>9, <1>11, <2>1, <2>2, <2>6, <2>7, UndoingProgress
  <2>9. IInv' /\ Visible = o.entry /\ Visible' = IF n = Idle THEN new ELSE n.entry
    BY <1>12, <2>2, <2>5, <2>8
  <2>10. Outcome
    <3>1. ~faults'.mishap => Visible' = Visible /\ ~faults.mishap
      BY <2>6, <2>8, <2>9 DEF SamePlan
    <3>2. faults'.mishap \in BOOLEAN /\ faults.mishap \in BOOLEAN
      <4>1. TInv'
        BY <1>17, AdvanceKeepsT DEF Advance
      <4>2. QED
        BY <4>1 DEF TInv
    <3>3. QED
      BY <1>9, <1>15, <3>1, <3>2 DEF Outcome
  <2>11. QED
    BY <2>9, <2>10
<1>18. CASE UndoNext(p)
  <2>1. PICK n : n = After(o, Tail(o.todo), "abort")
    OBVIOUS
  <2>2. /\ o.pc = "undo" /\ new = [files EXCEPT ![Head(o.todo)] = o.entry[Head(o.todo)]]
        /\ op' = [op EXCEPT ![p] = n] /\ now = kept /\ UNCHANGED faults
    BY <1>1, <1>2, <1>3, <1>4, <1>5, <1>18, <2>1 DEF UndoNext, Step
  <2>3. ~faults.mishap => SamePlan(o, n) /\ n # Idle /\ Progress(n, new, kept, before)
    BY <1>9, <1>11, <2>1, <2>2, RestoreProgress
  <2>4. IInv' /\ Visible = o.entry /\ Visible' = IF n = Idle THEN new ELSE n.entry
    BY <1>12, <1>14, <2>2, <2>3
  <2>5. Outcome
    BY <1>9, <1>15, <2>2, <2>3, <2>4 DEF Outcome, SamePlan
  <2>6. QED
    BY <2>4, <2>5
<1>19. CASE UndoFails(p) \/ AbortFails(p) \/ FinishFails(p) \/ Crash(p)
  <2>1. PICK n : op' = [op EXCEPT ![p] = n]
    BY <1>19 DEF UndoFails, AbortFails, FinishFails, Crash, Step
  <2>2. ~faults.mishap /\ o.pc \in {"undo", "abort"} => before > 0
    BY <1>11 DEF Progress, RemovalStep, PublicationStep
  <2>3. faults'.mishap /\ count > 0
    <3>1. CASE FinishFails(p) \/ Crash(p)
      BY <1>13, <3>1 DEF FinishFails, Crash
    <3>2. CASE UndoFails(p) \/ AbortFails(p)
      <4>1. o.pc \in {"undo", "abort"} /\ \E kind : Fault(kind)
        BY <1>1, <3>2 DEF UndoFails, AbortFails
      <4>2. QED
        BY <1>13, <2>2, <4>1
    <3>3. QED
      BY <1>19, <3>1, <3>2
  <2>4. IInv'
    BY <1>12, <2>1, <2>3
  <2>5. QED
    BY <1>9, <2>3, <2>4 DEF Outcome
<1>20. CASE Abort(p)
  <2>1. PICK n : n = Idle
    OBVIOUS
  <2>2. /\ o.pc = "abort" /\ new = files /\ op' = [op EXCEPT ![p] = n] /\ UNCHANGED faults
    BY <1>1, <1>2, <1>4, <1>20, <2>1 DEF Abort, Step
  <2>3. now = AbortedBackups(o, kept)
    BY <1>1, <1>3, <1>5, <1>20 DEF Abort, AbortedBackups
  <2>4. ~faults.mishap => Same(new, o.entry) /\ Settled(new, now)
    BY <1>9, <1>11, <2>2, <2>3, AbortProgress
  <2>5. IInv' /\ Visible = o.entry /\ Visible' = new
    BY <1>12, <1>14, <2>1, <2>2, <2>4
  <2>6. Outcome
    BY <1>9, <2>2, <2>4, <2>5 DEF Outcome
  <2>7. QED
    BY <2>5, <2>6
<1>21. CASE Finish(p)
  <2>1. PICK n : n = Idle
    OBVIOUS
  <2>2. /\ o.pc = "finish" /\ new = files /\ op' = [op EXCEPT ![p] = n] /\ UNCHANGED faults
    BY <1>1, <1>2, <1>4, <1>21, <2>1 DEF Finish, Step
  <2>3. now = FinishedBackups(o, kept)
    BY <1>1, <1>3, <1>5, <1>21 DEF Finish, FinishedBackups, ValidBackup, Valid
  <2>4. ~faults.mishap => ~Removes(o) /\ Same(new, o.next) /\ Settled(new, now)
    BY <1>9, <1>11, <2>2, <2>3, FinishProgress
  <2>5. IInv' /\ Visible' = new
    BY <1>12, <1>14, <2>1, <2>2, <2>4
  <2>6. ~faults.mishap => Published(Visible')
    BY <1>9, <2>4, <2>5, PlannedPublished
  <2>7. Outcome
    BY <1>9, <2>2, <2>6 DEF Outcome
  <2>8. QED
    BY <2>5, <2>7
<1>22. QED
  BY <1>16, <1>17, <1>18, <1>19, <1>20, <1>21 DEF Advance

\* The first steps of an uninstall are not seen either.
LEMMA TakingBackProgress ==
  ASSUME TInv, Roles, IInv, ~Overlap, AdvanceRollback
  PROVE  IInv' /\ Outcome
<1>1. PICK o : o = op["cli"]
  OBVIOUS
<1>2. PICK files : files = disk
  OBVIOUS
<1>3. PICK kept : kept = backups
  OBVIOUS
<1>4. PICK new : new = disk'
  OBVIOUS
<1>5. PICK now : now = backups'
  OBVIOUS
<1>6. PICK text : text = userText
  OBVIOUS
<1>7. PICK before : before = faults.count
  OBVIOUS
<1>8. PICK count : count = faults'.count
  OBVIOUS
<1>9. /\ o # Idle /\ Transaction(o, text) /\ Removes(o) /\ DOMAIN files = Files
      /\ DOMAIN kept = BackupIds /\ "cli" \in Procs /\ userText' = userText
  BY <1>1, <1>2, <1>3, <1>6, RollbackShape DEF TInv, Snapshot, FilesTyped, Procs
<1>10. \A q \in Procs \ {"cli"} : op[q] = Idle
  BY <1>1, <1>9, Alone
<1>11. ~faults.mishap => Progress(o, files, kept, before)
  BY <1>1, <1>2, <1>3, <1>7, <1>9 DEF IInv
<1>12. ASSUME NEW n, op' = [op EXCEPT !["cli"] = n], faults'.mishap => count > 0,
              ~faults'.mishap =>
                IF n = Idle THEN Settled(new, now) ELSE Progress(n, new, now, count)
       PROVE  IInv' /\ Visible = o.entry /\ Visible' = IF n = Idle THEN new ELSE n.entry
  <2>1. PICK p \in Procs : p = "cli"
    BY <1>9
  <2>2. op[p] = o /\ op' = [op EXCEPT ![p] = n] /\ \A q \in Procs \ {p} : op[q] = Idle
    BY <1>1, <1>10, <1>12, <2>1
  <2>3. QED
    BY <1>4, <1>5, <1>8, <1>9, <1>12, <2>2, CloseProgress
<1>13. \A kind : Fault(kind) =>
         /\ count = before + 1 /\ count > 0
         /\ ~faults'.mishap => ~faults.mishap /\ before = 0 /\ kind \in {"write", "remove"}
  BY <1>7, <1>8, MishapFacts
<1>14. UNCHANGED faults => count = before /\ (faults'.mishap => count > 0)
  BY <1>7, <1>8 DEF IInv
<1>15. \A files1 : Same(files1, files1)
  BY DEF Same
<1>16. faults.mishap \in BOOLEAN /\ faults'.mishap \in BOOLEAN
  <2>1. TInv'
    BY RollbackKeepsT
  <2>2. QED
    BY <2>1 DEF TInv
<1>17. PICK config : config = RolledBack(op["cli"])
  OBVIOUS
<1>18. o.pc = "config" /\ ~RollbackRefused(op["cli"]) => Unmanaged(config)
  BY <1>1, <1>17, RolledBackFacts DEF Unmanaged
<1>19. CASE RollbackConfig
  <2>1. PICK pc : pc = IF o.old = Absent THEN "write" ELSE "backup"
    OBVIOUS
  <2>2. PICK n : n = [o EXCEPT !.pc = pc]
    OBVIOUS
  <2>3. /\ o.pc = "config" /\ Unmanaged(config) /\ now = kept /\ UNCHANGED faults
        /\ new = [files EXCEPT !["config"] = config] /\ op' = [op EXCEPT !["cli"] = n]
    BY <1>1, <1>2, <1>3, <1>4, <1>5, <1>17, <1>18, <1>19, <2>1, <2>2 DEF RollbackConfig, Step
  <2>4. ~faults.mishap => SamePlan(o, n) /\ n # Idle /\ Progress(n, new, kept, before)
    <3>1. ASSUME ~faults.mishap PROVE SamePlan(o, n) /\ n # Idle /\ Progress(n, new, kept, before)
      <4>1. Progress(o, files, kept, before)
        BY <1>11, <3>1
      <4>2. /\ Transaction(o, text) /\ o.pc = "config" /\ DOMAIN files = Files
            /\ Unmanaged(config) /\ new = [files EXCEPT !["config"] = config]
        BY <1>9, <2>3
      <4>3. QED
        BY <2>1, <2>2, <4>1, <4>2, RollbackProgress
    <3>2. QED
      BY <3>1
  <2>5. IInv' /\ Visible = o.entry /\ Visible' = IF n = Idle THEN new ELSE n.entry
    BY <1>12, <1>14, <2>3, <2>4
  <2>6. Outcome
    BY <1>9, <1>15, <2>3, <2>4, <2>5 DEF Outcome, SamePlan
  <2>7. QED
    BY <2>5, <2>6
<1>20. CASE DropBackup
  <2>1. PICK n : n = [o EXCEPT !.pc = "write"]
    OBVIOUS
  <2>2. /\ o.pc = "backup" /\ new = files /\ op' = [op EXCEPT !["cli"] = n] /\ UNCHANGED faults
        /\ now = [kept EXCEPT ![o.old.id] = Absent]
    BY <1>1, <1>2, <1>3, <1>4, <1>5, <1>20, <2>1 DEF DropBackup, Step
  <2>3. ~faults.mishap => SamePlan(o, n) /\ n # Idle /\ Progress(n, new, now, before)
    BY <1>9, <1>11, <2>1, <2>2, DropProgress
  <2>4. IInv' /\ Visible = o.entry /\ Visible' = IF n = Idle THEN new ELSE n.entry
    BY <1>12, <1>14, <2>2, <2>3
  <2>5. Outcome
    BY <1>9, <1>15, <2>2, <2>3, <2>4 DEF Outcome, SamePlan
  <2>6. QED
    BY <2>4, <2>5
<1>21. CASE RollbackConfigFails
  <2>1. PICK n : n = Idle
    OBVIOUS
  <2>2. /\ o.pc = "config" /\ new = files /\ now = kept /\ op' = [op EXCEPT !["cli"] = n]
        /\ UNCHANGED faults \/ Fault("write")
    BY <1>1, <1>2, <1>3, <1>4, <1>5, <1>21, <2>1 DEF RollbackConfigFails, Step
  <2>3. (faults'.mishap => count > 0) /\ (~faults'.mishap => ~faults.mishap)
    BY <1>13, <1>14, <2>2
  <2>4. Unmanaged(Absent)
    BY DEF Unmanaged
  <2>5. ~faults.mishap => Same(new, o.entry) /\ Settled(new, now)
    <3>1. PICK pc : pc = IF o.old = Absent THEN "write" ELSE "backup"
      OBVIOUS
    <3>2. PICK n1 : n1 = [o EXCEPT !.pc = pc]
      OBVIOUS
    <3>3. PICK new1 : new1 = [files EXCEPT !["config"] = Absent]
      OBVIOUS
    <3>4. ASSUME ~faults.mishap PROVE Same(files, o.entry) /\ Settled(files, kept)
      <4>1. Progress(o, files, kept, before)
        BY <1>11, <3>4
      <4>2. QED
        BY <1>9, <2>2, <2>4, <3>1, <3>2, <3>3, <4>1, RollbackProgress
    <3>5. QED
      BY <2>2, <3>4
  <2>6. IInv' /\ Visible = o.entry /\ Visible' = new
    BY <1>12, <2>1, <2>2, <2>3, <2>5
  <2>7. ~faults'.mishap => Same(Visible', Visible)
    BY <2>3, <2>5, <2>6
  <2>8. Outcome
    BY <1>9, <1>16, <2>3, <2>7 DEF Outcome
  <2>9. QED
    BY <2>6, <2>8
<1>22. CASE RollbackConfigUnsynced \/ DropBackupFails
  <2>1. PICK n : n = Idle
    OBVIOUS
  <2>2. op' = [op EXCEPT !["cli"] = n]
    BY <1>22, <2>1 DEF RollbackConfigUnsynced, DropBackupFails, Step
  <2>3. o.pc = "backup" /\ ~faults.mishap => Valid(kept, o.old)
    BY <1>9, <1>11, DropProgress
  <2>4. faults'.mishap /\ count > 0
    <3>1. CASE RollbackConfigUnsynced
      BY <1>13, <3>1 DEF RollbackConfigUnsynced
    <3>2. CASE DropBackupFails /\ Fault("unlink")
      BY <1>13, <3>2
    <3>3. CASE DropBackupFails /\ ~Fault("unlink")
      <4>1. o.pc = "backup" /\ ~Valid(kept, o.old) /\ UNCHANGED faults
        BY <1>1, <1>3, <3>3 DEF DropBackupFails, ValidBackup, Valid
      <4>2. faults.mishap
        BY <1>16, <2>3, <4>1
      <4>3. QED
        BY <1>14, <4>1, <4>2
    <3>4. QED
      BY <1>22, <3>1, <3>2, <3>3
  <2>5. IInv'
    BY <1>12, <2>2, <2>4
  <2>6. QED
    BY <1>9, <2>4, <2>5 DEF Outcome
<1>23. QED
  BY <1>19, <1>20, <1>21, <1>22 DEF AdvanceRollback

\* A publication that begins.
LEMMA PublishingProgress ==
  ASSUME TInv, Settled(disk, backups), NEW kind \in {"install", "sync"},
         NEW plan \in PreparePickerConfig(disk["state"], disk["config"]), NEW mode \in Modes,
         NEW todo, \A g \in Files : g \notin Left(todo) => disk[g] = NextFiles(mode, plan)[g],
         NEW n, n = Publishing(kind, plan, mode, todo), NEW count,
         NEW now, now = BackupsWith(plan)
  PROVE  n # Idle /\ n.entry = disk /\ Progress(n, disk, now, count)
<1>1. /\ n.kind = kind /\ n.pc = "write" /\ n.entry = disk
      /\ n.next = NextFiles(mode, plan) /\ n.todo = todo /\ n # Idle
  BY DEF Publishing, Idle
<1>2. n.next["state"].rollback = plan.rollback
  BY <1>1, NextFacts
<1> DEFINE r == ReceiptOf(disk["state"])
<1>3. Owned(backups, r, Absent) /\ DOMAIN backups = BackupIds
  BY DEF Settled, TInv
<1>4. Owned(now, r, plan.rollback)
  <2>1. CASE plan.fresh = Absent
    <3>1. now = backups /\ plan.rollback = r
      BY <2>1, PlanFacts DEF BackupsWith
    <3>2. QED
      BY <1>3, <3>1 DEF Owned
  <2>2. CASE plan.fresh # Absent
    <3>1. plan.fresh \in FreshIds /\ plan.rollback = [id |-> plan.fresh, content |-> plan.base]
      BY <2>2, PlanFacts
    <3>2. /\ now = [backups EXCEPT ![plan.fresh] = plan.base]
          /\ plan.fresh \in BackupIds /\ plan.rollback # Absent
          /\ plan.rollback.id = plan.fresh /\ plan.rollback.content = plan.base
          /\ r # Absent => r.id # plan.fresh
      <4>1. plan.rollback \in Receipt
        BY <3>1, PlanFacts DEF Receipt, FreshIds
      <4>2. QED
        BY <2>2, <3>1, <4>1, AbsentAssumption DEF BackupsWith, FreshIds, ReceiptOf
    <3> HIDE DEF r
    <3>3. QED
      BY <1>3, <3>2 DEF Owned
  <2>3. QED
    BY <2>1, <2>2
<1>5. Written(n, disk)
  BY <1>1 DEF Written
<1>6. PublicationStep(n, disk, now, count)
  BY <1>1, <1>2, <1>4, <1>5 DEF PublicationStep, Settled
<1>7. QED
  BY <1>1, <1>6 DEF Progress, Removes

\* What begins is not seen.
LEMMA BeginProgress ==
  ASSUME TInv, Roles, IInv, ~Overlap, Begin
  PROVE  IInv' /\ Outcome
<1>0. /\ AllIdle /\ (\A q \in Procs : op[q] = Idle)
      /\ "cli" \in Procs /\ "service" \in Procs
  BY BeginsAlone DEF AllIdle, Procs
<1>1. ~faults.mishap => Settled(disk, backups)
  BY <1>0 DEF IInv
<1>2. userText' = userText /\ disk' = disk
  BY BeginShape
<1>3. PICK count : count = faults'.count
  OBVIOUS
<1>4. PICK new : new = disk
  OBVIOUS
<1>5. \A files : Same(files, files)
  BY DEF Same
<1>6. ASSUME NEW p \in Procs, NEW n, n # Idle, n.entry = new, NEW now, UNCHANGED faults,
             op' = [op EXCEPT ![p] = n], backups' = now,
             ~faults.mishap => Progress(n, new, now, count)
      PROVE  IInv' /\ Outcome
  <2>1. faults'.mishap => count > 0
    BY <1>3, <1>6 DEF IInv
  <2>2. IInv' /\ Visible = disk /\ Visible' = n.entry
    BY <1>0, <1>2, <1>3, <1>4, <1>6, <2>1, CloseProgress
  <2>3. Outcome
    BY <1>2, <1>4, <1>5, <1>6, <2>2 DEF Outcome
  <2>4. QED
    BY <2>2, <2>3
<1>7. ASSUME NEW mode \in Modes, BeginInstall(mode) PROVE IInv' /\ Outcome
  <2>1. PICK plan \in PreparePickerConfig(disk["state"], disk["config"]) :
          /\ op' = [op EXCEPT !["cli"] = Publishing("install", plan, mode, PublishOrder)]
          /\ backups' = BackupsWith(plan)
    BY <1>7 DEF BeginInstall
  <2>2. PICK n : n = Publishing("install", plan, mode, PublishOrder)
    OBVIOUS
  <2>3. PICK now : now = BackupsWith(plan)
    OBVIOUS
  <2>4. \A g \in Files : g \in Left(PublishOrder)
    BY Orders
  <2>5. ~faults.mishap => n # Idle /\ n.entry = new /\ Progress(n, new, now, count)
    BY <1>1, <1>4, <2>2, <2>3, <2>4, PublishingProgress
  <2>6. n # Idle /\ n.entry = new
    BY <1>4, <2>2 DEF Publishing, Idle
  <2>7. UNCHANGED faults
    BY <1>7 DEF BeginInstall
  <2>8. QED
    BY <1>0, <1>6, <2>1, <2>2, <2>3, <2>5, <2>6, <2>7
<1>8. ASSUME BeginSync PROVE IInv' /\ Outcome
  <2> DEFINE mode == disk["route"].mode
             Todo(plan) == Changed(disk, NextFiles(mode, plan))
  <2>1. PICK plan \in PreparePickerConfig(disk["state"], disk["config"]) :
          /\ op' = [op EXCEPT !["service"] = Publishing("sync", plan, mode, Todo(plan))]
          /\ backups' = BackupsWith(plan)
    BY <1>8 DEF BeginSync
  <2>2. PICK n : n = Publishing("sync", plan, mode, Todo(plan))
    OBVIOUS
  <2>3. PICK now : now = BackupsWith(plan)
    OBVIOUS
  <2>4. \A g \in Files : g \notin Left(Todo(plan)) => disk[g] = NextFiles(mode, plan)[g]
    BY ChangedFacts DEF Differing
  <2>5. mode \in Modes
    BY <1>8, SyncModeTyped DEF BeginSync
  <2> HIDE DEF mode, Todo
  <2>6. ~faults.mishap => n # Idle /\ n.entry = new /\ Progress(n, new, now, count)
    BY <1>1, <1>4, <2>2, <2>3, <2>4, <2>5, PublishingProgress
  <2>7. n # Idle /\ n.entry = new
    BY <1>4, <2>2 DEF Publishing, Idle
  <2>8. UNCHANGED faults
    BY <1>8 DEF BeginSync
  <2>9. QED
    BY <1>0, <1>6, <2>1, <2>2, <2>3, <2>6, <2>7, <2>8
<1>9. ASSUME BeginUninstall PROVE IInv' /\ Outcome
  <2>1. PICK n : n = [kind |-> "uninstall", pc |-> "config", entry |-> disk, next |-> NoFiles,
                      todo |-> RemovalOrder, fresh |-> Absent, old |-> disk["state"].rollback]
    OBVIOUS
  <2>2. PICK now : now = backups
    OBVIOUS
  <2>3. /\ n.kind = "uninstall" /\ n.pc = "config" /\ n.entry = disk /\ n.todo = RemovalOrder
        /\ n.old = disk["state"].rollback /\ n # Idle
    BY <2>1 DEF Idle
  <2>4. disk["state"] # Absent
    BY <1>9 DEF BeginUninstall, UninstallAccepts, SyncAccepts
  <2>5. ~faults.mishap => Coherent(disk) /\ Owned(now, n.old, Absent)
    BY <1>1, <2>2, <2>3, <2>4 DEF Settled, Withdrawn, ReceiptOf
  <2>6. ~faults.mishap => RemovalStep(n, new, now, count)
    BY <1>4, <1>5, <2>3, <2>5 DEF RemovalStep
  <2>7. ~faults.mishap => Progress(n, new, now, count)
    BY <2>3, <2>6 DEF Progress, Removes
  <2>8. UNCHANGED faults /\ backups' = now /\ op' = [op EXCEPT !["cli"] = n]
    BY <1>9, <2>1, <2>2 DEF BeginUninstall
  <2>9. QED
    BY <1>0, <1>4, <1>6, <2>3, <2>7, <2>8
<1>10. ASSUME FallbackMissing PROVE IInv' /\ Outcome
  <2>1. faults'.mishap /\ faults'.count > 0
    BY <1>10, MishapFacts, FaultFacts DEF FallbackMissing
  <2>2. QED
    BY <1>2, <2>1 DEF IInv, Outcome
<1>11. ASSUME PrepareRefused PROVE IInv' /\ Outcome
  <2>1. PICK plan \in PreparePickerConfig(disk["state"], disk["config"]) :
          plan.fresh # Absent /\ ~ValidBackup(plan.old)
    BY <1>11 DEF PrepareRefused
  <2>2. plan.old = ReceiptOf(disk["state"]) /\ plan.old \in Rollback
    BY <2>1, PlanFacts
  <2>3. ~faults.mishap => Valid(backups, plan.old)
    BY <1>1, <2>2, OwnedFacts DEF Settled
  <2>4. faults.mishap
    BY <2>1, <2>3 DEF Valid, ValidBackup, TInv
  <2>5. UNCHANGED faults
    BY <1>11 DEF PrepareRefused
  <2>6. QED
    BY <1>2, <2>4, <2>5 DEF IInv, Outcome
<1>12. QED
  BY <1>7, <1>8, <1>9, <1>10, <1>11 DEF Begin

\* An edit gives config.toml a new text; it never selects the bridge.
LEMMA EnvironmentProgress ==
  ASSUME TInv, Roles, IInv, ~Overlap, Environment
  PROVE  /\ IInv'
         /\ \/ Outcome
            \/ /\ \E kind \in EditKinds : EditConfig(kind)
               /\ Visible = disk /\ Visible' = disk' /\ UNCHANGED faults
               /\ ~faults.mishap => Settled(disk, backups)
<1>1. ASSUME NEW kind \in EditKinds, EditConfig(kind)
      PROVE  /\ IInv' /\ Visible = disk /\ Visible' = disk' /\ UNCHANGED faults
             /\ ~faults.mishap => Settled(disk, backups)
  <2>1. /\ disk'["generated"] = disk["generated"] /\ disk'["route"] = disk["route"]
        /\ disk'["state"] = disk["state"] /\ disk'["config"] \in Config
        /\ disk'["config"].keys = "ours" => disk["config"] # Absent /\ disk["config"].keys = "ours"
    BY <1>1, EditFacts DEF Files
  <2>2. op' = op /\ AllIdle /\ UNCHANGED <<backups, faults>>
    BY <1>1 DEF EditConfig
  <2>3. ~faults.mishap => Settled(disk, backups)
    BY <2>2 DEF IInv
  <2>4. ~faults.mishap => Settled(disk', backups')
    BY <2>1, <2>2, <2>3 DEF Settled, Withdrawn, Coherent, Described
  <2>5. IInv'
    BY <2>2, <2>4 DEF IInv, AllIdle
  <2>6. Visible = disk /\ Visible' = disk'
    BY <2>2 DEF Visible, AllIdle
  <2>7. QED
    BY <2>2, <2>3, <2>5, <2>6
<1>2. CASE StopService \/ StartService \/ RefreshNative \/ RefreshGrok
  <2>1. UNCHANGED <<disk, backups, op, userText, faults>>
    BY <1>2 DEF StopService, StartService, RefreshNative, RefreshGrok
  <2>2. IInv'
    BY <2>1 DEF IInv, AllIdle
  <2>3. Visible' = Visible
    BY <2>1 DEF Visible, AllIdle
  <2>4. Outcome
    BY <2>1, <2>3 DEF Outcome, Same
  <2>5. QED
    BY <2>2, <2>4
<1>3. QED
  BY <1>1, <1>2 DEF Environment

\* The invariant of compensated failures.
LEMMA StepKeepsI ==
  ASSUME TInv, Roles, IInv, ~Overlap, [Next]_vars
  PROVE  IInv'
<1>1. CASE Next
  BY <1>1, BeginProgress, AdvanceProgress, TakingBackProgress, EnvironmentProgress DEF Next
<1>2. CASE UNCHANGED vars
  BY <1>2 DEF vars, IInv, AllIdle
<1>3. QED
  BY <1>1, <1>2

\* Nothing is installed.
LEMMA InitSettled ==
  ASSUME Init
  PROVE  IInv /\ Visible = disk /\ Withdrawn(disk)
<1>1. /\ AllIdle /\ disk["generated"] = Absent /\ disk["route"] = Absent /\ disk["state"] = Absent
      /\ disk["config"] # Absent => disk["config"] = Plain(0)
  BY InitFacts
<1>2. Withdrawn(disk)
  BY <1>1 DEF Withdrawn, Plain
<1>3. Owned(backups, ReceiptOf(disk["state"]), Absent)
  BY <1>1 DEF Init, Owned, ReceiptOf
<1>4. faults.mishap = FALSE
  BY DEF Init
<1>5. IInv
  BY <1>1, <1>2, <1>3, <1>4 DEF IInv, Settled, AllIdle
<1>6. QED
  BY <1>1, <1>2, <1>5 DEF Visible

\* With every failure compensated, the files and the backups of a transaction stay in
\* step with where it is, in every state.
LEMMA ProgressHolds ==
  ASSUME ~Overlap
  PROVE  Spec => [](TInv /\ Roles /\ IInv)
<1>1. Init => IInv
  BY InitSettled
<1>2. TInv /\ Roles /\ IInv /\ [Next]_vars => IInv'
  BY StepKeepsI
<1>3. QED
  BY <1>1, <1>2, RolesHold, PTL DEF Spec

\* Between transactions the only backup on disk is the one of the managed state, as long
\* as nothing uncompensated has happened and no uninstall runs beside the service:
\* PickerConfigPlan::abort, PickerConfigPlan::finish and uninstall_picker leave no other.
THEOREM OwnedBackupsHolds ==
  ASSUME ~Overlap
  PROVE  Spec => []OwnedBackups
<1>1. TInv /\ IInv => OwnedBackups
  <2>1. SUFFICES ASSUME TInv, IInv, AllIdle, ~faults.mishap
                 PROVE  {b \in BackupIds : backups[b] # Absent} =
                          IF disk["state"] = Absent \/ disk["state"].rollback = Absent THEN {}
                          ELSE {disk["state"].rollback.id}
    BY DEF OwnedBackups
  <2>2. Owned(backups, ReceiptOf(disk["state"]), Absent)
    BY <2>1 DEF IInv, Settled
  <2>3. CASE disk["state"] = Absent \/ disk["state"].rollback = Absent
    BY <2>2, <2>3 DEF Owned, ReceiptOf
  <2>4. CASE disk["state"] # Absent /\ disk["state"].rollback # Absent
    <3>1. PICK r : r = disk["state"].rollback
      OBVIOUS
    <3>2. disk["state"] \in State
      BY <2>1, <2>4 DEF TInv, Snapshot, FilesTyped
    <3>3. r \in Receipt
      BY <2>4, <3>1, <3>2 DEF State, Rollback
    <3>4. r.id \in BackupIds /\ r.content # Absent
      BY <3>3, AbsentAssumption DEF Receipt
    <3>5. \A b \in BackupIds : backups[b] # Absent <=> b = r.id
      BY <2>2, <2>4, <3>1, <3>4 DEF Owned, ReceiptOf
    <3>6. {b \in BackupIds : backups[b] # Absent} = {r.id}
      BY <3>4, <3>5
    <3>7. QED
      BY <2>4, <3>1, <3>6
  <2>5. QED
    BY <2>3, <2>4
<1>2. QED
  BY <1>1, ProgressHolds, PTL

-----------------------------------------------------------------------------
(* The abstract publication.                                                *)

\* What the world makes of the files it sees.
PickerOf(files) ==
  CASE Withdrawn(files)                      -> Absent
    [] ~Withdrawn(files) /\ Coherent(files)  -> files["generated"]
    [] ~Withdrawn(files) /\ ~Coherent(files) -> Torn

ManagedOf(files) == files["config"] # Absent /\ files["config"].keys = "ours"

Seen ==
  /\ Snapshot(Visible, userText) /\ VisiblePicker = PickerOf(Visible)
  /\ (VisibleManaged <=> ManagedOf(Visible)) /\ TextOf(Visible["config"]) = userText

\* The world sees the files of one moment, with the text the user wrote.
LEMMA SeenFacts == TInv => Seen
<1> SUFFICES ASSUME TInv PROVE Seen
  OBVIOUS
<1>1. Snapshot(Visible, userText)
  <2>1. CASE AllIdle
    BY <2>1 DEF Visible, TInv
  <2>2. CASE ~AllIdle
    <3>1. PICK p : p = CHOOSE q \in Procs : op[q] # Idle
      OBVIOUS
    <3>2. p \in Procs /\ op[p] # Idle
      BY <2>2, <3>1 DEF AllIdle
    <3>3. Snapshot(op[p].entry, userText)
      BY <3>2 DEF TInv, Transaction, PublicationPlan, RemovalPlan
    <3>4. QED
      BY <2>2, <3>1, <3>3 DEF Visible
  <2>3. QED
    BY <2>1, <2>2
<1>2. QED
  BY <1>1 DEF Seen, Snapshot, VisiblePicker, PickerOf, VisibleManaged, ManagedOf

\* And so after a step.
LEMMA SeenAfter == TInv' => Seen'
BY SeenFacts, PTL

\* Files that agree show one picker.
LEMMA SameSeen ==
  ASSUME NEW files, NEW other, Same(files, other)
  PROVE  PickerOf(files) = PickerOf(other) /\ (ManagedOf(files) <=> ManagedOf(other))
<1>1. files["generated"] = other["generated"] /\ files["config"] = other["config"]
  BY DEF Same, Files
<1>2. QED
  BY <1>1, SameFacts DEF PickerOf, ManagedOf

\* What published, withdrawn and coherent files show.
LEMMA ShownFacts ==
  ASSUME NEW files, FilesTyped(files)
  PROVE  /\ Withdrawn(files) => PickerOf(files) = Absent /\ ~ManagedOf(files)
         /\ Coherent(files) => /\ files["generated"] \in Generated /\ ~Withdrawn(files)
                               /\ PickerOf(files) = files["generated"]
                               /\ PickerOf(files) # Absent
         /\ Published(files) => ManagedOf(files)
<1>1. Withdrawn(files) => PickerOf(files) = Absent /\ ~ManagedOf(files)
  BY DEF Withdrawn, PickerOf, ManagedOf
<1>2. ASSUME Coherent(files)
      PROVE  files["generated"] \in Generated /\ files["generated"] # Absent /\ ~Withdrawn(files)
  <2>1. files["state"] \in State /\ files["generated"] = files["state"].generated
    BY <1>2 DEF Coherent, Described, FilesTyped
  <2>2. QED
    BY <2>1, AbsentAssumption DEF State, Withdrawn
<1>3. QED
  BY <1>1, <1>2 DEF PickerOf, Published, ManagedOf

\* A step whose outcome is known publishes, withdraws, degrades, or is not seen.
LEMMA OutcomeImplements ==
  ASSUME TInv, TInv', Outcome
  PROVE  [Publication!Next]_(Publication!vars)
<1>1. PICK files : files = Visible
  OBVIOUS
<1>2. PICK other : other = Visible'
  OBVIOUS
<1>3. /\ FilesTyped(files) /\ VisiblePicker = PickerOf(files)
      /\ (VisibleManaged <=> ManagedOf(files)) /\ TextOf(Visible["config"]) = userText
  BY <1>1, SeenFacts DEF Seen, Snapshot
<1>4. /\ FilesTyped(other) /\ VisiblePicker' = PickerOf(other)
      /\ (VisibleManaged' <=> ManagedOf(other)) /\ TextOf(Visible["config"])' = userText'
  BY <1>2, SeenAfter DEF Seen, Snapshot
<1>5. TextOf(Visible["config"])' = TextOf(Visible["config"])
  BY <1>3, <1>4 DEF Outcome
<1>6. VisibleManaged \in BOOLEAN /\ VisibleManaged' \in BOOLEAN
  BY DEF VisibleManaged
<1>7. CASE faults'.mishap
  BY <1>5, <1>7 DEF Publication!Next, Publication!Degrade
<1>8. CASE faults'.mishap = faults.mishap /\ Same(other, files)
  <2>1. VisiblePicker' = VisiblePicker /\ VisibleManaged' = VisibleManaged
    BY <1>3, <1>4, <1>6, <1>8, SameSeen
  <2>2. QED
    BY <1>5, <1>8, <2>1 DEF Publication!vars
<1>9. CASE faults'.mishap = faults.mishap /\ Published(other)
  <2>1. VisiblePicker' \in Generated /\ VisibleManaged' = TRUE
    BY <1>4, <1>6, <1>9, ShownFacts DEF Published
  <2>2. QED
    BY <1>5, <1>9, <2>1 DEF Publication!Next, Publication!Publish
<1>10. CASE faults'.mishap = faults.mishap /\ Coherent(files) /\ Withdrawn(other)
  <2>1. VisiblePicker # Absent /\ VisiblePicker' = Absent /\ VisibleManaged' = FALSE
    BY <1>3, <1>4, <1>6, <1>10, ShownFacts
  <2>2. QED
    BY <1>5, <1>10, <2>1 DEF Publication!Next, Publication!Withdraw
<1>11. QED
  BY <1>1, <1>2, <1>7, <1>8, <1>9, <1>10 DEF Outcome

\* An edit of config.toml is the user's.
LEMMA EditImplements ==
  ASSUME TInv, TInv', NEW kind \in EditKinds, EditConfig(kind),
         Visible = disk, Visible' = disk', UNCHANGED faults,
         ~faults.mishap => Settled(disk, backups)
  PROVE  [Publication!Next]_(Publication!vars)
<1>1. PICK files : files = disk
  OBVIOUS
<1>2. PICK other : other = disk'
  OBVIOUS
<1>3. /\ FilesTyped(files) /\ VisiblePicker = PickerOf(files)
      /\ (VisibleManaged <=> ManagedOf(files)) /\ TextOf(Visible["config"]) = userText
  BY <1>1, SeenFacts DEF Seen, Snapshot
<1>4. /\ FilesTyped(other) /\ VisiblePicker' = PickerOf(other)
      /\ (VisibleManaged' <=> ManagedOf(other)) /\ TextOf(Visible["config"])' = userText'
  BY <1>2, SeenAfter DEF Seen, Snapshot
<1>5. TextOf(Visible["config"])' \in (0 .. MaxEdits) \ {TextOf(Visible["config"])}
  <2>1. userText' \in Nat /\ userText' \in Text
    BY EditFacts
  <2>2. userText' \in 0 .. MaxEdits
    BY <2>1, BoundsAssumption DEF Text
  <2>3. userText' # userText
    BY <2>1, EditFacts, BoundsAssumption
  <2>4. QED
    BY <1>3, <1>4, <2>2, <2>3
<1>6. /\ other["generated"] = files["generated"] /\ other["route"] = files["route"]
      /\ other["state"] = files["state"] /\ other["config"] \in Config
      /\ other["config"].keys = "ours" => files["config"] # Absent /\ files["config"].keys = "ours"
  BY <1>1, <1>2, EditFacts DEF Files
<1>7. ManagedOf(other) => ManagedOf(files)
  BY <1>6 DEF ManagedOf
<1>8. ASSUME ~faults.mishap PROVE PickerOf(other) = PickerOf(files)
  <2>1. Withdrawn(files) \/ Coherent(files)
    BY <1>1, <1>8 DEF Settled
  <2>2. (Coherent(other) <=> Coherent(files)) /\ (Withdrawn(files) => Withdrawn(other))
    BY <1>6 DEF Coherent, Described, Withdrawn
  <2>3. QED
    BY <1>3, <1>4, <1>6, <2>1, <2>2, ShownFacts
<1>9. /\ faults.mishap \/ (VisiblePicker' = VisiblePicker /\ (VisibleManaged' => VisibleManaged))
      /\ faults'.mishap = faults.mishap
  BY <1>3, <1>4, <1>7, <1>8
<1>10. QED
  BY <1>5, <1>9 DEF Publication!Next, Publication!UserEdit

\* Installs, syncs and uninstalls implement the abstract publication: each of their file
\* operations, and each compensation of a failed one, is one atomic step of it or none,
\* and whatever else happens the text is kept.
THEOREM ImplementsPublicationHolds ==
  ASSUME ~Overlap
  PROVE  Spec => ImplementsPublication
<1>1. Init => Publication!Init
  <2>1. SUFFICES ASSUME Init PROVE Publication!Init
    OBVIOUS
  <2>2. TInv /\ Visible = disk /\ Withdrawn(disk)
    BY <2>1, InitFacts, InitSettled
  <2>3. FilesTyped(disk)
    BY <2>2 DEF TInv, Snapshot
  <2>4. VisiblePicker = Absent /\ ~VisibleManaged
    BY <2>2, <2>3, SeenFacts, ShownFacts DEF Seen
  <2>5. VisibleManaged = FALSE
    BY <2>4 DEF VisibleManaged
  <2>6. TextOf(Visible["config"]) \in (0 .. MaxEdits) \cup {Absent}
    BY <2>2, SeenFacts DEF Seen, TInv, Text
  <2>7. faults.mishap = FALSE
    BY <2>1 DEF Init
  <2>8. QED
    BY <2>4, <2>5, <2>6, <2>7 DEF Publication!Init
<1>2. TInv /\ TInv' /\ Roles /\ IInv /\ [Next]_vars => [Publication!Next]_(Publication!vars)
  <2>1. SUFFICES ASSUME TInv, TInv', Roles, IInv, [Next]_vars
                 PROVE  [Publication!Next]_(Publication!vars)
    OBVIOUS
  <2>2. CASE Begin \/ AdvanceRollback \/ \E p \in Procs : Advance(p) \/ Crash(p)
    <3>1. Outcome
      BY <2>1, <2>2, BeginProgress, AdvanceProgress, TakingBackProgress
    <3>2. QED
      BY <2>1, <3>1, OutcomeImplements
  <2>3. CASE Environment
    BY <2>1, <2>3, EnvironmentProgress, OutcomeImplements, EditImplements
  <2>4. CASE UNCHANGED vars
    <3>1. Visible' = Visible /\ faults'.mishap = faults.mishap
      BY <2>4 DEF vars, Visible, AllIdle
    <3>2. Outcome
      BY <2>4, <3>1 DEF Outcome, Same, vars
    <3>3. QED
      BY <2>1, <3>2, OutcomeImplements
  <2>5. QED
    BY <2>1, <2>2, <2>3, <2>4 DEF Next
<1>3. QED
  BY <1>1, <1>2, ProgressHolds, PTL DEF Spec, ImplementsPublication, Publication!Spec

=============================================================================
