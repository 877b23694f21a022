--------------------------- MODULE RoutePublication ---------------------------
(***************************************************************************)
(* The live routing of the service: the Grok allowlist of ModelCatalog      *)
(* (src/src/catalog.rs) and the NativeRouteState behind NativeRouteHandle   *)
(* (src/src/server.rs), each under a read-write lock of its own.  The       *)
(* catalog task replaces both while requests classify their model by both   *)
(* and /models lists one.                                                   *)
(*                                                                          *)
(* A lock of tokio serves its waiters in the order they came, readers       *)
(* together.  A request may be dropped wherever it waits: the client left.  *)
(***************************************************************************)
EXTENDS PickerCatalog, SequencesExt

CONSTANTS
  Requests,    \* concurrent requests
  Publisher,   \* the catalog task
  Pickers,     \* the inputs a publication may find
  Allowlists   \* and those of a provider without a picker

\* NativeRouteState::validate: a route is not empty, and its fallback is one of
\* its models.
Route == {route \in [models : SUBSET Models, fallback : Models \cup {Absent}, upstream : Upstreams] :
            /\ route.models # {}
            /\ route.fallback \in route.models \cup {Absent}}

\* An allowlist is not empty (validate_models).
Table == [grok : (SUBSET Models) \ {{}}, route : Route \cup {Absent}]

\* The publications the catalog task may bring.
Candidates ==
  {TableOf(p) : p \in {q \in Pickers : Admitted(q)}}
    \cup {[grok |-> models, route |-> Absent] : models \in Allowlists}

ASSUME PickersAssumption == Pickers \subseteq Inputs /\ Allowlists \subseteq (SUBSET Models) \ {{}}
ASSUME PublisherAssumption == Publisher \notin Requests
ASSUME AbsentAssumption == Absent \notin Models \cup Route

VARIABLES
  grok,      \* the models of ModelCatalog
  route,     \* the state behind NativeRouteHandle, Absent in isolated operation
  lock,      \* lock[l]: holders, and the queue of those who wait
  task,      \* the publication the catalog task is making
  req,       \* req[r]: what a request asks for, how far it is, its answer
  disabled,  \* responses_disabled, decided by bind
  booted     \* the route bind loaded

vars == <<grok, route, lock, task, req, disabled, booted>>

Locks == {"catalog", "route"}

------------------------------------------------------------------------------
(* What a request asks and how it is answered. *)

Asks == [kind : {"responses", "compact"}, model : Models, off : BOOLEAN]
          \cup [kind : {"models"}]

ASSUME AskAssumption == Absent \notin Asks

\* The classification of route_authorized_responses; off is responses_disabled.
Classify(kind, model, off, table) ==
  LET isNative == table.route # Absent /\ model \in table.route.models
      isGrok   == model \in table.grok
      fallback == IF table.route = Absent THEN Absent ELSE table.route.fallback
  IN  IF isNative THEN IF isGrok THEN "collision" ELSE "native"
      ELSE IF ~isGrok THEN "unknown"
      ELSE IF fallback # Absent THEN "fallback"
      ELSE IF kind = "compact" THEN "grok_compaction"
      ELSE IF off THEN "disabled" ELSE "grok"

\* What a request is answered, and by which upstream when that is Native's.
Outcome(ask, table) ==
  IF ask.kind = "models" THEN [models |-> table.grok]
  ELSE LET outcome == Classify(ask.kind, ask.model, ask.off, table)
       IN  [outcome |-> outcome,
            upstream |-> IF outcome \in {"native", "fallback"}
                         THEN table.route.upstream ELSE Absent]

------------------------------------------------------------------------------
(* Locks. *)

Free == [holders |-> {}, queue |-> <<>>]

Grantable(l, p) ==
  /\ lock[l].queue # <<>> /\ Head(lock[l].queue) = p
  /\ IF p = Publisher THEN lock[l].holders = {} ELSE Publisher \notin lock[l].holders

Waits(locks, l, p) == [locks EXCEPT ![l].queue = Append(@, p)]

Takes(locks, l, p) == [locks EXCEPT ![l].queue = Tail(@), ![l].holders = @ \cup {p}]

Releases(locks, l, p) == [locks EXCEPT ![l].holders = @ \ {p}]

\* Dropping a future leaves every queue and releases every guard.
Dropped(p) ==
  [l \in Locks |-> [holders |-> lock[l].holders \ {p}, queue |-> Remove(lock[l].queue, p)]]

------------------------------------------------------------------------------
(* replace_catalog: catalog first, then route, then publish both. *)

Resting == [pc |-> "idle", next |-> Absent]

Prepare(candidate) ==
  /\ task = Resting
  /\ (candidate.route = Absent) = (route = Absent)
  /\ task' = [pc |-> "catalog", next |-> candidate]
  /\ lock' = Waits(lock, "catalog", Publisher)
  /\ UNCHANGED <<grok, route, req, disabled, booted>>

\* Faulty variant: the catalog is let go while the route is awaited.
HoldCatalogBriefly ==
  /\ task.pc = "catalog" /\ Grantable("catalog", Publisher)
  /\ route # Absent
  /\ task' = [task EXCEPT !.pc = "route"]
  /\ lock' = Waits(Releases(Takes(lock, "catalog", Publisher), "catalog", Publisher),
                   "route", Publisher)
  /\ UNCHANGED <<grok, route, req, disabled, booted>>

\* An isolated provider has no route; ModelCatalog::replace commits at once.
HoldCatalog ==
  /\ task.pc = "catalog" /\ Grantable("catalog", Publisher)
  /\ IF route = Absent
     THEN /\ task' = [task EXCEPT !.pc = "commit"]
          /\ lock' = Takes(lock, "catalog", Publisher)
     ELSE /\ task' = [task EXCEPT !.pc = "route"]
          /\ lock' = Waits(Takes(lock, "catalog", Publisher), "route", Publisher)
  /\ UNCHANGED <<grok, route, req, disabled, booted>>

\* Faulty variant: only the upstream is compared.
SameUpstream(old, new) == old.upstream = new.upstream

\* The upstream client and the fallback mode were fixed by bind.
SameService(old, new) ==
  /\ old.upstream = new.upstream
  /\ (old.fallback = Absent) = (new.fallback = Absent)

ReplaceRoute ==
  /\ task.pc = "route" /\ Grantable("route", Publisher)
  /\ SameService(route, task.next.route)
  /\ route' = task.next.route
  /\ task' = [task EXCEPT !.pc = "commit"]
  /\ lock' = Takes(lock, "route", Publisher)
  /\ UNCHANGED <<grok, req, disabled, booted>>

\* Faulty variant: the route's guard outlives the refusal.
RejectRouteLeaking ==
  /\ task.pc = "route" /\ Grantable("route", Publisher)
  /\ ~SameService(route, task.next.route)
  /\ task' = Resting
  /\ lock' = Releases(Takes(lock, "route", Publisher), "catalog", Publisher)
  /\ UNCHANGED <<grok, route, req, disabled, booted>>

RejectRoute ==
  /\ task.pc = "route" /\ Grantable("route", Publisher)
  /\ ~SameService(route, task.next.route)
  /\ task' = Resting
  /\ lock' = Dropped(Publisher)
  /\ UNCHANGED <<grok, route, req, disabled, booted>>

\* CatalogUpdate::commit writes the catalog and drops its guard first.
Commit ==
  /\ task.pc = "commit"
  /\ grok' = task.next.grok
  /\ lock' = Releases(lock, "catalog", Publisher)
  /\ task' = [task EXCEPT !.pc = "release"]
  /\ UNCHANGED <<route, req, disabled, booted>>

\* The guard of the route is dropped when the function returns.
Release ==
  /\ task.pc = "release"
  /\ lock' = Releases(lock, "route", Publisher)
  /\ task' = Resting
  /\ UNCHANGED <<grok, route, req, disabled, booted>>

Publishing == HoldCatalog \/ ReplaceRoute \/ RejectRoute \/ Commit \/ Release

------------------------------------------------------------------------------
(* A request. *)

NoRequest == [pc |-> "idle", ask |-> Absent, seen |-> Absent, answer |-> Absent]

Become(r, new) == req' = [req EXCEPT ![r] = new]

\* Every request starts with ModelCatalog::routing_read (or response), but the
\* ones of the isolated path that are refused at once, its Grok route being
\* disabled: they read nothing and are left out.
Arrive(r, ask) ==
  /\ req[r] = NoRequest
  /\ ask.kind # "models" => ask.off = disabled
  /\ Become(r, [NoRequest EXCEPT !.pc = "catalog", !.ask = ask])
  /\ lock' = Waits(lock, "catalog", r)
  /\ UNCHANGED <<grok, route, task, disabled, booted>>

\* /models copies the catalog and lets it go.
ListModels(r) ==
  /\ req[r].pc = "catalog" /\ Grantable("catalog", r)
  /\ req[r].ask.kind = "models"
  /\ Become(r, [req[r] EXCEPT !.pc = "done", !.answer = Outcome(req[r].ask, [grok |-> grok])])
  /\ lock' = Releases(Takes(lock, "catalog", r), "catalog", r)
  /\ UNCHANGED <<grok, route, task, disabled, booted>>

\* Faulty variant: a reader lets the catalog go before it reads the route.
ReadCatalogBriefly(r) ==
  /\ req[r].pc = "catalog" /\ Grantable("catalog", r)
  /\ req[r].ask.kind # "models" /\ route # Absent
  /\ Become(r, [req[r] EXCEPT !.pc = "route"])
  /\ lock' = Waits(Releases(Takes(lock, "catalog", r), "catalog", r), "route", r)
  /\ UNCHANGED <<grok, route, task, disabled, booted>>

\* The guard of the catalog is kept while the route is awaited.
ReadCatalog(r) ==
  /\ req[r].pc = "catalog" /\ Grantable("catalog", r)
  /\ req[r].ask.kind # "models"
  /\ IF route = Absent
     THEN /\ Become(r, [req[r] EXCEPT !.pc = "classify"])
          /\ lock' = Takes(lock, "catalog", r)
     ELSE /\ Become(r, [req[r] EXCEPT !.pc = "route"])
          /\ lock' = Waits(Takes(lock, "catalog", r), "route", r)
  /\ UNCHANGED <<grok, route, task, disabled, booted>>

\* NativeRouteHandle::snapshot clones the route and drops its guard.
Snapshot(r) ==
  /\ req[r].pc = "route" /\ Grantable("route", r)
  /\ Become(r, [req[r] EXCEPT !.pc = "classify", !.seen = route])
  /\ lock' = Releases(Takes(lock, "route", r), "route", r)
  /\ UNCHANGED <<grok, route, task, disabled, booted>>

\* contains reads the catalog the guard still protects, then drops it.
Answer(r) ==
  /\ req[r].pc = "classify"
  /\ Become(r, [req[r] EXCEPT !.pc = "done",
                  !.answer = Outcome(req[r].ask, [grok |-> grok, route |-> req[r].seen])])
  /\ lock' = Releases(lock, "catalog", r)
  /\ UNCHANGED <<grok, route, task, disabled, booted>>

\* The connection is used for the next request.
Return(r) ==
  /\ req[r].pc = "done"
  /\ Become(r, NoRequest)
  /\ UNCHANGED <<grok, route, lock, task, disabled, booted>>

\* Faulty variant: a request that is dropped keeps its guards.
DisconnectLeaking(r) ==
  /\ req[r].pc \in {"catalog", "route", "classify"}
  /\ Become(r, NoRequest)
  /\ UNCHANGED <<grok, route, lock, task, disabled, booted>>

\* The client closes the connection and the server drops the handler.
Disconnect(r) ==
  /\ req[r].pc \in {"catalog", "route", "classify"}
  /\ Become(r, NoRequest)
  /\ lock' = Dropped(r)
  /\ UNCHANGED <<grok, route, task, disabled, booted>>

Serving(r) == ListModels(r) \/ ReadCatalog(r) \/ Snapshot(r) \/ Answer(r)

------------------------------------------------------------------------------

\* bind: the Grok cache and the route file are loaded one after the other and
\* need not come from one publication; compatibility mode or the environment
\* disables the Grok route.
Init ==
  /\ grok \in {c.grok : c \in Candidates}
  /\ route \in {c.route : c \in Candidates}
  /\ booted = route
  /\ disabled \in BOOLEAN
  /\ route # Absent /\ route.fallback # Absent => disabled
  /\ lock = [l \in Locks |-> Free]
  /\ task = Resting
  /\ req = [r \in Requests |-> NoRequest]

Next ==
  \/ \E candidate \in Candidates : Prepare(candidate)
  \/ Publishing
  \/ \E r \in Requests :
       \/ \E ask \in Asks : Arrive(r, ask)
       \/ Serving(r) \/ Return(r) \/ Disconnect(r)

Spec == Init /\ [][Next]_vars

\* The runtime polls the task and every request that can go on.
FairSpec ==
  /\ Spec
  /\ WF_vars(Publishing)
  /\ \A r \in Requests : WF_vars(Serving(r))

------------------------------------------------------------------------------
(* Properties. *)

Parties == Requests \cup {Publisher}

Answered == [models : SUBSET Models]
  \cup [outcome : {"collision", "native", "unknown", "fallback", "grok_compaction",
                   "disabled", "grok"},
        upstream : Upstreams \cup {Absent}]

\* Every variable stays in its type.
TypeOK ==
  /\ grok \in SUBSET Models /\ route \in Route \cup {Absent} /\ booted \in Route \cup {Absent}
  /\ disabled \in BOOLEAN
  /\ lock \in [Locks -> [holders : SUBSET Parties, queue : Seq(Parties)]]
  /\ task \in [pc : {"catalog", "route", "commit", "release"}, next : Candidates] \cup {Resting}
  /\ req \in [Requests -> [pc : {"idle", "catalog", "route", "classify", "done"},
                           ask : Asks \cup {Absent}, seen : Route \cup {Absent},
                           answer : Answered \cup {Absent}]]

\* Nobody reads a lock's data while the publisher may be writing it.
Excluded == \A l \in Locks : Publisher \in lock[l].holders => lock[l].holders = {Publisher}

\* When a request classifies, the route it has copied is still the one in force
\* and nobody writes the catalog it looks at: no publication can slip between
\* the two reads, although the lock of the route is already free.
SnapshotCurrent ==
  \A r \in Requests :
    req[r].pc = "classify" =>
      req[r].seen = route /\ Publisher \notin lock["catalog"].holders

\* The routing keeps serving the upstream and the mode the service was booted
\* with: a service in Native compatibility mode has no Grok client, and no
\* publication makes a request need one.
ModeKept ==
  /\ (route = Absent) = (booted = Absent)
  /\ route # Absent =>
       /\ route.upstream = booted.upstream
       /\ (route.fallback = Absent) = (booted.fallback = Absent)

\* A publication comes into force where it writes the route; until the catalog
\* follows, nobody else can read.
InForce == IF task.pc = "commit" THEN task.next.grok ELSE grok

Served == {"native", "fallback", "grok"}

\* Whatever a picker lists or hides, the table that came into force with it
\* serves: no two rows of it collide, and in compatibility mode, where the
\* service has no Grok client, Native answers also for Grok's, on the compact
\* endpoint too (native.rs:57; unless the environment disables Grok).
PickerServed ==
  \A p \in Pickers : LET table == [grok |-> InForce, route |-> route] IN
    Admitted(p) /\ table = TableOf(p) /\ (disabled => booted.fallback # Absent) =>
      \A row \in Rows(p), kind \in {"responses", "compact"} :
        kind = "responses" \/ route.fallback # Absent =>
          Classify(kind, row.slug, disabled, table) \in Served

RoutingTables ==
  INSTANCE RoutingTable
    WITH None <- Absent,
         Tables <- [grok : {c.grok : c \in Candidates}, route : {c.route : c \in Candidates}],
         table <- [grok |-> InForce, route |-> route],
         asked <- [r \in Requests |-> req[r].ask],
         answer <- [r \in Requests |-> req[r].answer]

\* Requests and publications implement an atomic table: every answer is the
\* classification by one table that was in force as a whole.
ImplementsTable == RoutingTables!Spec

\* A publication is never starved by requests that keep coming, and every
\* request gets past the locks or is dropped by its client.
PublicationEnds == task.pc = "catalog" ~> task = Resting

RequestsProceed ==
  \A r \in Requests : req[r].pc = "catalog" ~> req[r].pc \in {"idle", "done"}

=============================================================================
