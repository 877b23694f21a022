------------------------ MODULE RoutePublicationProofs ------------------------
(*****************************************************************************)
(* Proofs about RoutePublication for any number of requests and any set of   *)
(* publications: a request classifies by one publication, the mode the       *)
(* service was booted in is kept, and what a picker lists is served.         *)
(*****************************************************************************)
EXTENDS RoutePublication, TLAPS, SequenceTheorems

CatalogHolders == lock["catalog"].holders

\* The fields of locks, requests and publications.
LocksShaped(locks) ==
  /\ DOMAIN locks = Locks
  /\ \A l \in Locks : DOMAIN locks[l] = {"holders", "queue"}

Shaped ==
  /\ LocksShaped(lock)
  /\ DOMAIN req = Requests
  /\ \A r \in Requests : DOMAIN req[r] = {"pc", "ask", "seen", "answer"}
  /\ DOMAIN task = {"pc", "next"}

\* The publisher holds the catalog alone, from its first lock to its commit, and
\* a request holds it from its first read to its answer.
CatalogHeld ==
  /\ Publisher \in CatalogHolders <=> task.pc \in {"route", "commit"}
  /\ Publisher \in CatalogHolders => CatalogHolders = {Publisher}
  /\ \A r \in Requests : req[r].pc \in {"route", "classify"} => r \in CatalogHolders

\* A request that has not read the route remembers none.
SeenRoute ==
  \A r \in Requests :
    /\ req[r].pc = "catalog" => req[r].seen = Absent
    /\ req[r].pc = "classify" => req[r].seen = route

\* A publication has a route exactly if the service has one.
SameKind ==
  /\ task.pc = "catalog" => ((task.next.route = Absent) = (route = Absent))
  /\ task.pc = "route" => task.next.route # Absent /\ route # Absent

IInv == Shaped /\ CatalogHeld /\ SeenRoute /\ SameKind /\ ModeKept

-------------------------------------------------------------------------------
(* The locks. *)

\* Joining a queue changes no holder.
LEMMA WaitsHolders ==
  ASSUME NEW locks, NEW l \in Locks, NEW p, LocksShaped(locks)
  PROVE  /\ LocksShaped(Waits(locks, l, p))
         /\ \A k \in Locks : Waits(locks, l, p)[k].holders = locks[k].holders
BY DEF LocksShaped, Waits

\* Taking a lock adds the taker to its holders and to no other's.
LEMMA TakesHolders ==
  ASSUME NEW locks, NEW l \in Locks, NEW p, LocksShaped(locks)
  PROVE  /\ LocksShaped(Takes(locks, l, p))
         /\ Takes(locks, l, p)[l].holders = locks[l].holders \cup {p}
         /\ \A k \in Locks \ {l} : Takes(locks, l, p)[k].holders = locks[k].holders
BY DEF LocksShaped, Takes

\* Releasing a lock removes the holder from its holders and from no other's.
LEMMA ReleasesHolders ==
  ASSUME NEW locks, NEW l \in Locks, NEW p, LocksShaped(locks)
  PROVE  /\ LocksShaped(Releases(locks, l, p))
         /\ Releases(locks, l, p)[l].holders = locks[l].holders \ {p}
         /\ \A k \in Locks \ {l} : Releases(locks, l, p)[k].holders = locks[k].holders
BY DEF LocksShaped, Releases

\* A dropped future holds nothing.
LEMMA DroppedHolders ==
  ASSUME NEW p
  PROVE  /\ LocksShaped(Dropped(p))
         /\ \A k \in Locks : Dropped(p)[k].holders = lock[k].holders \ {p}
BY DEF LocksShaped, Dropped

\* A request's new record replaces its old one only.
LEMMA BecomeOne ==
  ASSUME DOMAIN req = Requests, NEW r \in Requests, NEW new, Become(r, new)
  PROVE  /\ DOMAIN req' = Requests
         /\ req'[r] = new
         /\ \A s \in Requests \ {r} : req'[s] = req[s]
BY DEF Become

-------------------------------------------------------------------------------
(* The initial states and the steps. *)

\* Nothing is locked, asked or published yet.
LEMMA InitHolds == Init => IInv
BY DEF Init, IInv, Shaped, LocksShaped, CatalogHeld, CatalogHolders, SeenRoute, SameKind,
       ModeKept, Free, Resting, NoRequest, Locks

\* The publisher's steps: while it holds the catalog no request is between its
\* two reads, and that is where it writes the route.
LEMMA PublisherKeeps ==
  ASSUME IInv, Publishing \/ \E candidate \in Candidates : Prepare(candidate)
  PROVE  IInv'
<1> USE PublisherAssumption DEF IInv, Shaped, CatalogHeld, CatalogHolders, SeenRoute,
                                 SameKind, ModeKept, Locks
<1>1. ASSUME NEW candidate \in Candidates, Prepare(candidate) PROVE IInv'
  <2>1. lock' = Waits(lock, "catalog", Publisher) /\ task.pc = "idle"
    BY <1>1 DEF Prepare, Resting
  <2>2. LocksShaped(lock') /\ lock'["catalog"].holders = lock["catalog"].holders
    BY <2>1, WaitsHolders
  <2>3. QED
    BY <1>1, <2>1, <2>2 DEF Prepare
<1>2. CASE HoldCatalog
  <2>1. lock["catalog"].holders = {}
    BY <1>2 DEF HoldCatalog, Grantable
  <2> DEFINE taken == Takes(lock, "catalog", Publisher)
  <2>2. LocksShaped(taken) /\ taken["catalog"].holders = {Publisher}
    BY <2>1, TakesHolders
  <2>3. /\ LocksShaped(Waits(taken, "route", Publisher))
        /\ Waits(taken, "route", Publisher)["catalog"].holders = {Publisher}
    BY <2>2, WaitsHolders
  <2>4. LocksShaped(lock') /\ lock'["catalog"].holders = {Publisher}
    BY <1>2, <2>2, <2>3 DEF HoldCatalog
  <2>5. QED
    BY <1>2, <2>1, <2>4 DEF HoldCatalog
<1>3. CASE ReplaceRoute
  <2>1. lock["catalog"].holders = {Publisher} /\ task.pc = "route"
    BY <1>3 DEF ReplaceRoute
  <2>2. LocksShaped(lock') /\ lock'["catalog"].holders = {Publisher}
    BY <1>3, <2>1, TakesHolders DEF ReplaceRoute
  <2>3. \A r \in Requests : req[r].pc \notin {"route", "classify"}
    BY <2>1
  <2>4. task.next.route # Absent /\ route # Absent /\ route' = task.next.route
    BY <1>3, <2>1 DEF ReplaceRoute
  <2>5. ModeKept'
    BY <1>3, <2>4 DEF ReplaceRoute, SameService
  <2>6. QED
    BY <1>3, <2>1, <2>2, <2>3, <2>4, <2>5 DEF ReplaceRoute
<1>4. CASE RejectRoute
  <2>1. lock["catalog"].holders = {Publisher}
    BY <1>4 DEF RejectRoute
  <2>2. LocksShaped(lock') /\ lock'["catalog"].holders = {}
    BY <1>4, <2>1, DroppedHolders DEF RejectRoute
  <2>3. \A r \in Requests : req[r].pc \notin {"route", "classify"}
    BY <2>1
  <2>4. QED
    BY <1>4, <2>2, <2>3 DEF RejectRoute, Resting
<1>5. CASE Commit
  <2>1. lock["catalog"].holders = {Publisher}
    BY <1>5 DEF Commit
  <2>2. LocksShaped(lock') /\ lock'["catalog"].holders = {}
    BY <1>5, <2>1, ReleasesHolders DEF Commit
  <2>3. \A r \in Requests : req[r].pc \notin {"route", "classify"}
    BY <2>1
  <2>4. QED
    BY <1>5, <2>2, <2>3 DEF Commit
<1>6. CASE Release
  <2>1. LocksShaped(lock') /\ lock'["catalog"].holders = lock["catalog"].holders
    BY <1>6, ReleasesHolders DEF Release
  <2>2. QED
    BY <1>6, <2>1 DEF Release, Resting
<1>7. QED
  BY <1>1, <1>2, <1>3, <1>4, <1>5, <1>6 DEF Publishing

\* A step of one request keeps the invariant if it leaves the route and the
\* publication alone, does not join the publisher, and leaves the request a
\* holder of the catalog between its two reads.
LEMMA OneRequest ==
  ASSUME IInv, NEW r \in Requests,
         UNCHANGED <<route, task, booted>>,
         LocksShaped(lock'),
         DOMAIN req' = Requests, \A s \in Requests \ {r} : req'[s] = req[s],
         DOMAIN req'[r] = {"pc", "ask", "seen", "answer"},
         CatalogHolders' \ {r} = CatalogHolders \ {r},
         req'[r].pc \in {"route", "classify"} => r \in CatalogHolders',
         Publisher \in CatalogHolders => r \notin CatalogHolders',
         req'[r].pc = "catalog" => req'[r].seen = Absent,
         req'[r].pc = "classify" => req'[r].seen = route
  PROVE  IInv'
<1>1. Shaped'
  BY DEF IInv, Shaped
<1>2. CatalogHeld'
  <2>1. r # Publisher
    BY PublisherAssumption
  <2>2. Publisher \in CatalogHolders' <=> Publisher \in CatalogHolders
    BY <2>1
  <2>3. Publisher \in CatalogHolders' => CatalogHolders' = {Publisher}
    BY <2>1, <2>2 DEF IInv, CatalogHeld
  <2>4. ASSUME NEW s \in Requests, req'[s].pc \in {"route", "classify"}
        PROVE  s \in CatalogHolders'
    BY <2>4 DEF IInv, CatalogHeld
  <2>5. QED
    BY <2>2, <2>3, <2>4 DEF IInv, CatalogHeld
<1>3. SeenRoute'
  BY DEF IInv, SeenRoute
<1>4. SameKind' /\ ModeKept'
  BY DEF IInv, SameKind, ModeKept
<1>5. QED
  BY <1>1, <1>2, <1>3, <1>4 DEF IInv

\* The steps of a request: it reads the route and the catalog while it holds the
\* catalog, and lets the catalog go with its answer or its connection.
LEMMA RequestKeeps ==
  ASSUME IInv, NEW r \in Requests,
         (\E ask \in Asks : Arrive(r, ask)) \/ Serving(r) \/ Return(r) \/ Disconnect(r)
  PROVE  IInv'
<1> USE PublisherAssumption DEF IInv, Shaped, CatalogHeld, CatalogHolders, SeenRoute,
                                 SameKind, ModeKept, Locks
<1>1. r # Publisher
  OBVIOUS
<1>2. ASSUME NEW ask \in Asks, Arrive(r, ask) PROVE IInv'
  <2>1. LocksShaped(lock') /\ lock'["catalog"].holders = lock["catalog"].holders
    BY <1>2, WaitsHolders DEF Arrive
  <2> DEFINE asked == [NoRequest EXCEPT !.pc = "catalog", !.ask = ask]
  <2>2. Become(r, asked)
    BY <1>2 DEF Arrive
  <2>3. asked.pc = "catalog" /\ asked.seen = Absent
        /\ DOMAIN asked = {"pc", "ask", "seen", "answer"}
    BY DEF NoRequest
  <2> HIDE DEF asked
  <2>4. req'[r] = asked
    BY <2>2, BecomeOne
  <2>5. DOMAIN req' = Requests /\ \A s \in Requests \ {r} : req'[s] = req[s]
    BY <2>2, BecomeOne
  <2>6. req'[r].pc = "catalog" /\ req'[r].seen = Absent
        /\ DOMAIN req'[r] = {"pc", "ask", "seen", "answer"}
    BY <2>4, <2>3
  <2>7. UNCHANGED <<grok, route, task, disabled, booted>>
    BY <1>2 DEF Arrive
  <2>8. Publisher \in CatalogHolders => r \notin CatalogHolders'
    BY <1>1, <2>1
  <2>9. QED
    BY OneRequest, <1>1, <2>1, <2>5, <2>6, <2>7, <2>8
<1>3. CASE ListModels(r)
  <2> DEFINE answer == Outcome(req[r].ask, [grok |-> grok])
  <2>1. /\ LocksShaped(lock')
        /\ lock'["catalog"].holders = (lock["catalog"].holders \cup {r}) \ {r}
    BY <1>3, TakesHolders, ReleasesHolders DEF ListModels
  <2>2. /\ req'[r] = [req[r] EXCEPT !.pc = "done", !.answer = answer]
        /\ DOMAIN req' = Requests /\ \A s \in Requests \ {r} : req'[s] = req[s]
    BY <1>3, BecomeOne DEF ListModels
  <2> HIDE DEF answer
  <2>3. req'[r].pc = "done" /\ DOMAIN req'[r] = {"pc", "ask", "seen", "answer"}
    BY <2>2
  <2>4. Publisher \notin lock["catalog"].holders
    BY <1>1, <1>3 DEF ListModels, Grantable
  <2>5. UNCHANGED <<grok, route, task, disabled, booted>>
    BY <1>3 DEF ListModels
  <2>6. QED
    BY OneRequest, <1>1, <2>1, <2>2, <2>3, <2>4, <2>5
<1>4. CASE ReadCatalog(r)
  <2> DEFINE taken == Takes(lock, "catalog", r)
  <2>1. /\ LocksShaped(taken)
        /\ taken["catalog"].holders = lock["catalog"].holders \cup {r}
    BY TakesHolders
  <2>2. /\ LocksShaped(Waits(taken, "route", r))
        /\ Waits(taken, "route", r)["catalog"].holders = lock["catalog"].holders \cup {r}
    BY <2>1, WaitsHolders
  <2>3. /\ LocksShaped(lock')
        /\ lock'["catalog"].holders = lock["catalog"].holders \cup {r}
    BY <1>4, <2>1, <2>2 DEF ReadCatalog
  <2>4. Publisher \notin lock["catalog"].holders
    BY <1>1, <1>4 DEF ReadCatalog, Grantable
  <2>5. req[r].pc = "catalog" /\ UNCHANGED <<grok, route, task, disabled, booted>>
    BY <1>4 DEF ReadCatalog
  <2>6. PICK pc \in {"classify", "route"} :
          (pc = "classify" => route = Absent) /\ Become(r, [req[r] EXCEPT !.pc = pc])
    BY <1>4 DEF ReadCatalog
  <2>7. /\ req'[r] = [req[r] EXCEPT !.pc = pc]
        /\ DOMAIN req' = Requests /\ \A s \in Requests \ {r} : req'[s] = req[s]
    BY <2>6, BecomeOne
  <2>8. req'[r].pc = pc /\ req'[r].seen = Absent
        /\ DOMAIN req'[r] = {"pc", "ask", "seen", "answer"}
    BY <2>5, <2>7
  <2>9. QED
    BY OneRequest, <1>1, <2>3, <2>4, <2>5, <2>6, <2>7, <2>8
<1>5. CASE Snapshot(r)
  <2>1. LocksShaped(lock') /\ lock'["catalog"].holders = lock["catalog"].holders
    BY <1>5, TakesHolders, ReleasesHolders DEF Snapshot
  <2>2. /\ req'[r] = [req[r] EXCEPT !.pc = "classify", !.seen = route]
        /\ DOMAIN req' = Requests /\ \A s \in Requests \ {r} : req'[s] = req[s]
    BY <1>5, BecomeOne DEF Snapshot
  <2>3. req[r].pc = "route" /\ UNCHANGED <<grok, route, task, disabled, booted>>
    BY <1>5 DEF Snapshot
  <2>4. req'[r].pc = "classify" /\ req'[r].seen = route
        /\ DOMAIN req'[r] = {"pc", "ask", "seen", "answer"}
    BY <2>2
  <2>5. QED
    BY OneRequest, <1>1, <2>1, <2>2, <2>3, <2>4
<1>6. CASE Answer(r)
  <2> DEFINE answer == Outcome(req[r].ask, [grok |-> grok, route |-> req[r].seen])
  <2>1. LocksShaped(lock') /\ lock'["catalog"].holders = lock["catalog"].holders \ {r}
    BY <1>6, ReleasesHolders DEF Answer
  <2>2. /\ req'[r] = [req[r] EXCEPT !.pc = "done", !.answer = answer]
        /\ DOMAIN req' = Requests /\ \A s \in Requests \ {r} : req'[s] = req[s]
    BY <1>6, BecomeOne DEF Answer
  <2> HIDE DEF answer
  <2>3. req'[r].pc = "done" /\ DOMAIN req'[r] = {"pc", "ask", "seen", "answer"}
    BY <2>2
  <2>4. UNCHANGED <<grok, route, task, disabled, booted>>
    BY <1>6 DEF Answer
  <2>5. QED
    BY OneRequest, <1>1, <2>1, <2>2, <2>3, <2>4
<1>7. CASE Return(r)
  <2>1. /\ req'[r] = NoRequest
        /\ DOMAIN req' = Requests /\ \A s \in Requests \ {r} : req'[s] = req[s]
    BY <1>7, BecomeOne DEF Return
  <2>2. UNCHANGED <<grok, route, lock, task, disabled, booted>>
    BY <1>7 DEF Return
  <2>3. QED
    BY OneRequest, <2>1, <2>2 DEF NoRequest
<1>8. CASE Disconnect(r)
  <2>1. LocksShaped(lock') /\ lock'["catalog"].holders = lock["catalog"].holders \ {r}
    BY <1>8, DroppedHolders DEF Disconnect
  <2>2. /\ req'[r] = NoRequest
        /\ DOMAIN req' = Requests /\ \A s \in Requests \ {r} : req'[s] = req[s]
    BY <1>8, BecomeOne DEF Disconnect
  <2>3. UNCHANGED <<grok, route, task, disabled, booted>>
    BY <1>8 DEF Disconnect
  <2>4. QED
    BY OneRequest, <1>1, <2>1, <2>2, <2>3 DEF NoRequest
<1>9. QED
  BY <1>2, <1>3, <1>4, <1>5, <1>6, <1>7, <1>8 DEF Serving

\* IInv is an invariant.
LEMMA InvariantHolds == Spec => []IInv
<1>1. IInv /\ UNCHANGED vars => IInv'
  BY DEF IInv, vars, Shaped, LocksShaped, CatalogHeld, CatalogHolders, SeenRoute, SameKind,
         ModeKept
<1>2. IInv /\ [Next]_vars => IInv'
  BY <1>1, PublisherKeeps, RequestKeeps DEF Next
<1>3. QED
  BY <1>2, InitHolds, PTL DEF Spec

\* Between its two reads a request keeps every publication out, although it lets
\* go of the lock of the route at once.
THEOREM SnapshotCurrentHolds == Spec => []SnapshotCurrent
<1>1. IInv => SnapshotCurrent
  BY PublisherAssumption DEF IInv, CatalogHeld, CatalogHolders, SeenRoute, SnapshotCurrent
<1>2. QED
  BY <1>1, InvariantHolds, PTL

\* No publication changes the upstream or the mode the service was booted with.
THEOREM ModeKeptHolds == Spec => []ModeKept
<1>1. IInv => ModeKept
  BY DEF IInv
<1>2. QED
  BY <1>1, InvariantHolds, PTL

-------------------------------------------------------------------------------
(* What a picker lists is served. *)

\* The route of a picker that is made is a route.
LEMMA RouteOfAdmitted ==
  ASSUME NEW p \in Pickers, Admitted(p)
  PROVE  RouteOf(p) \in Route
<1>1. p \in Inputs
  BY PickersAssumption
<1>2. p.native \in Seq([slug : Models, visibility : {"list", "hide", "none"}, valid : BOOLEAN])
      /\ p.native # <<>> /\ p.model \in Models /\ p.upstream \in Upstreams
      /\ p.mode \in {"merged", "compatibility"}
  BY <1>1 DEF Inputs, Admitted, NativeAdmitted
<1>3. NativeSlugs(p) \in SUBSET Models /\ NativeSlugs(p) # {}
  <2> DEFINE Row == [slug : Models, visibility : {"list", "hide", "none"}, valid : BOOLEAN]
             n == Len(p.native)
  <2>0. n \in Nat /\ DOMAIN p.native = 1 .. n /\ p.native \in [1 .. n -> Row]
    BY <1>2, LenProperties
  <2>1. \A k \in DOMAIN p.native : p.native[k].slug \in Models
    BY <2>0
  <2>2. 1 \in DOMAIN p.native
    BY <1>2, <2>0, EmptySeq
  <2>3. QED
    BY <2>1, <2>2 DEF NativeSlugs
<1>4. Fallback(p) \in NativeSlugs(p) \cup {Absent}
  BY <1>2 DEF Fallback, Admitted
<1>5. QED
  BY <1>2, <1>3, <1>4 DEF RouteOf, Route

\* Every row of the picker in force is served: a slug is Native's or Grok's but
\* not both, and a service without a Grok client keeps a route with a fallback.
THEOREM PickerServedHolds == Spec => []PickerServed
<1>1. ModeKept => PickerServed
  <2> DEFINE table == [grok |-> InForce, route |-> route]
  <2> SUFFICES ASSUME ModeKept, NEW p \in Pickers, Admitted(p), table = TableOf(p),
                      disabled => booted.fallback # Absent,
                      NEW row \in Rows(p), NEW kind \in {"responses", "compact"},
                      kind = "responses" \/ route.fallback # Absent
               PROVE  Classify(kind, row.slug, disabled, table) \in Served
    BY DEF PickerServed
  <2>1. /\ table.grok = p.grok /\ table.route = route
        /\ route = RouteOf(p) /\ route.models = NativeSlugs(p)
    BY DEF TableOf, RouteOf
  <2>2. route # Absent
    BY <2>1, RouteOfAdmitted, AbsentAssumption
  <2>3. p.grok \cap NativeSlugs(p) = {}
    BY DEF Admitted
  <2> HIDE DEF table
  <2>4. CASE row \in {p.native[k] : k \in DOMAIN p.native}
    <3>1. row.slug \in NativeSlugs(p) /\ row.slug \notin p.grok
      BY <2>3, <2>4 DEF NativeSlugs
    <3>2. QED
      BY <2>1, <2>2, <3>1 DEF Classify, Served
  <2>5. CASE row \in {GrokRow(p, id) : id \in p.grok}
    <3>1. row.slug \in p.grok /\ row.slug \notin NativeSlugs(p)
      BY <2>3, <2>5 DEF GrokRow
    <3>2. CASE route.fallback # Absent
      BY <2>1, <2>2, <3>1, <3>2 DEF Classify, Served
    <3>3. CASE route.fallback = Absent
      <4>1. ~disabled /\ kind = "responses"
        BY <2>2, <3>3 DEF ModeKept
      <4>2. QED
        BY <2>1, <2>2, <3>1, <3>3, <4>1 DEF Classify, Served
    <3>4. QED
      BY <3>2, <3>3
  <2>6. QED
    BY <2>4, <2>5 DEF Rows
<1>2. QED
  BY <1>1, ModeKeptHolds, PTL

-------------------------------------------------------------------------------
(* The atomic table: a publication replaces it where it writes the route, or *)
(* takes the catalog if there is none; a request is answered in one step.    *)

\* What is in force and what is being published was brought by a publication,
\* and a request that is on its way asks something and is not answered yet.
Known ==
  /\ grok \in {c.grok : c \in Candidates} /\ route \in {c.route : c \in Candidates}
  /\ task.pc # "idle" => task.next \in Candidates
  /\ \A r \in Requests : req[r].pc \in {"catalog", "route", "classify"} =>
       req[r].ask \in Asks /\ req[r].answer = Absent

\* A publication brings a known table, a request carries what it asks.
LEMMA KnownKept ==
  ASSUME IInv, Known, [Next]_vars
  PROVE  Known'
<1> USE DEF Known, IInv, Shaped
<1>1. ASSUME NEW candidate \in Candidates, Prepare(candidate) PROVE Known'
  BY <1>1 DEF Prepare
<1>2. CASE HoldCatalog
  BY <1>2 DEF HoldCatalog
<1>3. CASE ReplaceRoute
  BY <1>3 DEF ReplaceRoute
<1>4. CASE RejectRoute
  BY <1>4 DEF RejectRoute, Resting
<1>5. CASE Commit
  BY <1>5 DEF Commit
<1>6. CASE Release
  BY <1>6 DEF Release, Resting
<1>7. ASSUME NEW r \in Requests, NEW ask \in Asks, Arrive(r, ask) PROVE Known'
  BY <1>7 DEF Arrive, Become, NoRequest
<1>8. ASSUME NEW r \in Requests, Serving(r) \/ Return(r) \/ Disconnect(r) PROVE Known'
  <2>1. UNCHANGED <<grok, route, task>>
    BY <1>8 DEF Serving, ListModels, ReadCatalog, Snapshot, Answer, Return, Disconnect
  <2>2. PICK new : Become(r, new) /\ (new.pc \in {"idle", "done"}
          \/ (req[r].pc \in {"catalog", "route"}
              /\ new.ask = req[r].ask /\ new.answer = req[r].answer))
    <3>1. CASE ListModels(r)
      <4>1. PICK answer : Become(r, [req[r] EXCEPT !.pc = "done", !.answer = answer])
        BY <3>1 DEF ListModels
      <4> DEFINE new == [req[r] EXCEPT !.pc = "done", !.answer = answer]
      <4>2. new.pc = "done"
        OBVIOUS
      <4>3. QED
        BY <4>1, <4>2
    <3>2. CASE ReadCatalog(r)
      BY <3>2 DEF ReadCatalog
    <3>3. CASE Snapshot(r)
      <4> DEFINE new == [req[r] EXCEPT !.pc = "classify", !.seen = route]
      <4>1. Become(r, new) /\ req[r].pc = "route"
        BY <3>3 DEF Snapshot
      <4>2. new.ask = req[r].ask /\ new.answer = req[r].answer
        OBVIOUS
      <4>3. QED
        BY <4>1, <4>2
    <3>4. CASE Answer(r)
      <4>1. PICK answer : Become(r, [req[r] EXCEPT !.pc = "done", !.answer = answer])
        BY <3>4 DEF Answer
      <4> DEFINE new == [req[r] EXCEPT !.pc = "done", !.answer = answer]
      <4>2. new.pc = "done"
        OBVIOUS
      <4>3. QED
        BY <4>1, <4>2
    <3>5. CASE Return(r) \/ Disconnect(r)
      BY <3>5 DEF Return, Disconnect, NoRequest
    <3>6. QED
      BY <1>8, <3>1, <3>2, <3>3, <3>4, <3>5 DEF Serving
  <2>3. req'[r] = new /\ \A s \in Requests \ {r} : req'[s] = req[s]
    BY <2>2, BecomeOne
  <2>4. QED
    BY <2>1, <2>2, <2>3
<1>9. CASE UNCHANGED vars
  BY <1>9 DEF vars
<1>10. QED
  BY <1>1, <1>2, <1>3, <1>4, <1>5, <1>6, <1>7, <1>8, <1>9 DEF Next, Publishing

\* The service boots with a table that publications brought, and nothing asked.
LEMMA TableInit == Init => Known /\ RoutingTables!Init
BY DEF Init, Known, Resting, NoRequest, InForce, RoutingTables!Init

\* A step that changes neither the table nor a request's question and answer.
LEMMA TableStutters ==
  ASSUME UNCHANGED <<InForce, route>>,
         \A r \in Requests : req'[r].ask = req[r].ask /\ req'[r].answer = req[r].answer
  PROVE  UNCHANGED RoutingTables!vars
BY DEF RoutingTables!vars

\* A step that brings a known table into force.
LEMMA TableReplaced ==
  ASSUME UNCHANGED req, InForce' \in {c.grok : c \in Candidates},
         route' \in {c.route : c \in Candidates}
  PROVE  RoutingTables!Replace
BY DEF RoutingTables!Replace

\* A publication is no step of the table but where it comes into force.
LEMMA PublicationMaps ==
  ASSUME IInv, Known, Publishing \/ \E candidate \in Candidates : Prepare(candidate)
  PROVE  RoutingTables!Replace \/ UNCHANGED RoutingTables!vars
<1> USE DEF IInv, Shaped
<1>1. ASSUME NEW candidate \in Candidates, Prepare(candidate)
      PROVE  UNCHANGED RoutingTables!vars
  <2>1. UNCHANGED <<InForce, route, req>>
    BY <1>1 DEF Prepare, Resting, InForce
  <2>2. QED
    BY <2>1, TableStutters
<1>2. CASE HoldCatalog
  <2>1. UNCHANGED <<route, req, grok>> /\ task.next \in Candidates
        /\ task.pc = "catalog" /\ task'.next = task.next /\ task'.pc \in {"commit", "route"}
    BY <1>2 DEF HoldCatalog, Known
  <2>2. CASE task'.pc = "commit"
    <3>1. InForce' = task.next.grok
      BY <2>1, <2>2 DEF InForce
    <3>2. QED
      BY <2>1, <3>1, TableReplaced DEF Known
  <2>3. CASE task'.pc = "route"
    <3>1. UNCHANGED InForce
      BY <2>1, <2>3 DEF InForce
    <3>2. QED
      BY <2>1, <3>1, TableStutters
  <2>4. QED
    BY <2>1, <2>2, <2>3
<1>3. CASE ReplaceRoute
  <2>1. task.next \in Candidates /\ InForce' = task.next.grok /\ route' = task.next.route
        /\ UNCHANGED req
    BY <1>3 DEF ReplaceRoute, Known, InForce
  <2>2. QED
    BY <2>1, TableReplaced
<1>4. CASE RejectRoute \/ Commit \/ Release
  <2>1. UNCHANGED <<InForce, route, req>>
    BY <1>4 DEF RejectRoute, Commit, Release, Resting, InForce
  <2>2. QED
    BY <2>1, TableStutters
<1>5. QED
  BY <1>1, <1>2, <1>3, <1>4 DEF Publishing

\* A request asks, is answered from the table in force, and forgets.
LEMMA RequestMaps ==
  ASSUME IInv, Known, NEW r \in Requests,
         (\E ask \in Asks : Arrive(r, ask)) \/ Serving(r) \/ Return(r) \/ Disconnect(r)
  PROVE  \/ RoutingTables!Ask(r) \/ RoutingTables!Answer(r) \/ RoutingTables!Forget(r)
         \/ UNCHANGED RoutingTables!vars
<1>1. UNCHANGED <<grok, route, task, InForce>> /\ DOMAIN req = Requests
  BY DEF Serving, ListModels, ReadCatalog, Snapshot, Answer, Return, Disconnect, Arrive,
         InForce, IInv, Shaped
<1>2. ASSUME NEW ask \in Asks, Arrive(r, ask) PROVE RoutingTables!Ask(r)
  <2> DEFINE new == [NoRequest EXCEPT !.pc = "catalog", !.ask = ask]
  <2>0. req[r] = NoRequest
    BY <1>2 DEF Arrive
  <2>1. req[r].ask = Absent /\ req[r].answer = Absent
    BY <2>0 DEF NoRequest
  <2>2. new.ask = ask /\ new.answer = Absent
    BY DEF NoRequest
  <2>3. Become(r, new)
    BY <1>2 DEF Arrive
  <2> HIDE DEF new
  <2>4. req'[r].ask = ask /\ req'[r].answer = Absent
        /\ \A s \in Requests \ {r} : req'[s] = req[s]
    BY <1>1, <2>2, <2>3, BecomeOne
  <2>5. QED
    BY <1>1, <2>1, <2>4 DEF RoutingTables!Ask
<1>3. CASE ListModels(r) \/ Answer(r)
  <2> DEFINE table == [grok |-> InForce, route |-> route]
             answer == Outcome(req[r].ask, table)
  <2>1. Publisher \notin CatalogHolders
    <3>1. CASE ListModels(r)
      BY <3>1, PublisherAssumption DEF ListModels, Grantable, CatalogHolders
    <3>2. CASE Answer(r)
      BY <3>2, PublisherAssumption DEF Answer, IInv, CatalogHeld
    <3>3. QED
      BY <1>3, <3>1, <3>2
  <2>2. InForce = grok
    BY <2>1 DEF InForce, IInv, CatalogHeld
  <2>3. PICK new : Become(r, new) /\ new.ask = req[r].ask /\ new.answer = answer
    <3>1. CASE ListModels(r)
      <4> DEFINE new == [req[r] EXCEPT !.pc = "done", !.answer = answer]
      <4>1. Outcome(req[r].ask, [grok |-> grok]) = answer
        BY <2>2, <3>1 DEF ListModels, Outcome
      <4>2. Become(r, new)
        BY <3>1, <4>1 DEF ListModels
      <4> HIDE DEF answer
      <4>3. new.ask = req[r].ask /\ new.answer = answer
        BY DEF IInv, Shaped
      <4>4. QED
        BY <4>2, <4>3
    <3>2. CASE Answer(r)
      <4> DEFINE new == [req[r] EXCEPT !.pc = "done", !.answer = answer]
      <4>1. Become(r, new)
        BY <2>2, <3>2 DEF Answer, IInv, SeenRoute
      <4> HIDE DEF answer
      <4>2. new.ask = req[r].ask /\ new.answer = answer
        BY DEF IInv, Shaped
      <4>3. QED
        BY <4>1, <4>2
    <3>3. QED
      BY <1>3, <3>1, <3>2
  <2> HIDE DEF answer
  <2>4. req'[r].ask = req[r].ask /\ req'[r].answer = answer
        /\ \A s \in Requests \ {r} : req'[s] = req[s]
    BY <1>1, <2>3, BecomeOne
  <2>5. req[r].ask # Absent /\ req[r].answer = Absent
    BY <1>3, AskAssumption DEF ListModels, Answer, Known
  <2>6. RoutingTables!Answer(r)
    BY <1>1, <2>4, <2>5 DEF RoutingTables!Answer, answer
  <2>7. QED
    BY <2>6
<1>4. CASE ReadCatalog(r) \/ Snapshot(r)
  <2>1. PICK new : Become(r, new) /\ new.ask = req[r].ask /\ new.answer = req[r].answer
    <3>1. CASE ReadCatalog(r)
      BY <3>1 DEF ReadCatalog, IInv, Shaped
    <3>2. CASE Snapshot(r)
      <4> DEFINE new == [req[r] EXCEPT !.pc = "classify", !.seen = route]
      <4>1. Become(r, new) /\ new.ask = req[r].ask /\ new.answer = req[r].answer
        BY <3>2 DEF Snapshot, IInv, Shaped
      <4>2. QED
        BY <4>1
    <3>3. QED
      BY <1>4, <3>1, <3>2
  <2>2. req'[r].ask = req[r].ask /\ req'[r].answer = req[r].answer
        /\ \A s \in Requests \ {r} : req'[s] = req[s]
    BY <1>1, <2>1, BecomeOne
  <2>3. QED
    BY <1>1, <2>2, TableStutters
<1>5. CASE Return(r) \/ Disconnect(r)
  <2>1. Become(r, NoRequest)
    BY <1>5 DEF Return, Disconnect
  <2>2. req'[r].ask = Absent /\ req'[r].answer = Absent
        /\ \A s \in Requests \ {r} : req'[s] = req[s]
    BY <1>1, <2>1, BecomeOne DEF NoRequest
  <2>3. QED
    BY <1>1, <2>2 DEF RoutingTables!Forget
<1>6. QED
  BY <1>2, <1>3, <1>4, <1>5 DEF Serving

\* Requests and publications implement the atomic table: whatever the locks and
\* the order of the two writes, every step is one step of it or none.
THEOREM ImplementsTableHolds == Spec => ImplementsTable
<1>1. IInv /\ Known /\ [Next]_vars => [RoutingTables!Next]_RoutingTables!vars
  <2> SUFFICES ASSUME IInv, Known, [Next]_vars
               PROVE  RoutingTables!Next \/ UNCHANGED RoutingTables!vars
    OBVIOUS
  <2>1. CASE UNCHANGED vars
    BY <2>1, TableStutters DEF vars, InForce
  <2>2. CASE Next
    BY <2>2, PublicationMaps, RequestMaps DEF Next, RoutingTables!Next
  <2>3. QED
    BY <2>1, <2>2
<1>2. Spec => []Known
  BY TableInit, KnownKept, InvariantHolds, PTL DEF Spec
<1>3. QED
  BY <1>1, <1>2, TableInit, InvariantHolds, PTL DEF Spec, ImplementsTable, RoutingTables!Spec

===============================================================================
