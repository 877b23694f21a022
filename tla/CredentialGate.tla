--------------------------- MODULE CredentialGate ---------------------------
(***************************************************************************)
(* CredentialStore::load_with_renewal_grace of src/src/credential.rs: the   *)
(* Responses requests of one service that meet a missing, incomplete or     *)
(* expired Grok credential share one run of the official refresh helper.    *)
(*                                                                          *)
(* Each request runs on its own blocking thread.  A critical section of the *)
(* gate's mutex is one step; the condition variable is explicit: a waiter   *)
(* sleeps until it is notified, wakes for no reason, or times out, and then *)
(* takes the mutex again to look at the gate.                               *)
(***************************************************************************)
EXTENDS Naturals, FiniteSets

CONSTANTS
  Requests,    \* concurrent Responses requests
  MaxChanges   \* bound: times the credential file goes bad by itself

ASSUME ChangesAssumption == MaxChanges \in Nat

VARIABLES
  file,        \* what load() finds in the official credential file
  changes,     \* times the file went bad
  where,          \* where[r]: where request r is
  result,      \* result[r]: what its call returned
  initial,     \* initial[r]: the recoverable error its first load returned
  late,        \* late[r]: has its deadline passed?
  inFlight,    \* RenewalGateState.in_flight
  generation,  \* RenewalGateState.generation
  seen         \* seen[r]: the generation r waits for

renewalVars == <<file, changes, where, result, initial, late, inFlight, generation, seen>>

\* stale: missing, incomplete or expired, which the official flow can repair;
\* broken: malformed or unsafe, which nothing repairs automatically.
FileStates == {"valid", "stale", "broken"}

Leading == {"refresh", "poll", "publish"}

Locations == {"load", "gate", "asleep", "awake", "reload", "done"} \cup Leading

Results == {"none", "credential", "stale", "broken"}

RenewalInit ==
  /\ file \in FileStates
  /\ changes = 0
  /\ where = [r \in Requests |-> "load"]
  /\ result = [r \in Requests |-> "none"]
  /\ initial = [r \in Requests |-> "none"]
  /\ late = [r \in Requests |-> FALSE]
  /\ inFlight = FALSE
  /\ generation = 0
  /\ seen = [r \in Requests |-> 0]

Goto(r, location) == where' = [where EXCEPT ![r] = location]

Return(r, value) ==
  /\ Goto(r, "done")
  /\ result' = [result EXCEPT ![r] = value]

\* The first load: a credential or an unrecoverable error is returned at once.
Load(r) ==
  /\ where[r] = "load"
  /\ \/ /\ file = "valid" /\ Return(r, "credential")
        /\ UNCHANGED initial
     \/ /\ file = "broken" /\ Return(r, "broken")
        /\ UNCHANGED initial
     \/ /\ file = "stale"
        /\ initial' = [initial EXCEPT ![r] = "stale"]
        /\ IF late[r] THEN Return(r, "stale") ELSE Goto(r, "gate") /\ UNCHANGED result
  /\ UNCHANGED <<file, changes, late, inFlight, generation, seen>>

\* Faulty variant: the gate is looked at and not taken.
LeadUnmarked(r) ==
  /\ where[r] = "gate" /\ ~inFlight
  /\ Goto(r, "refresh")
  /\ UNCHANGED <<file, changes, result, initial, late, inFlight, generation, seen>>

\* The gate is free: this request becomes the one that renews.
Lead(r) ==
  /\ where[r] = "gate" /\ ~inFlight
  /\ inFlight' = TRUE
  /\ Goto(r, "refresh")
  /\ UNCHANGED <<file, changes, result, initial, late, generation, seen>>

\* Someone renews: remember which renewal, then look at the gate under the lock.
Join(r) ==
  /\ where[r] = "gate" /\ inFlight
  /\ seen' = [seen EXCEPT ![r] = generation]
  /\ IF late[r] THEN Return(r, initial[r]) ELSE Goto(r, "asleep") /\ UNCHANGED result
  /\ UNCHANGED <<file, changes, initial, late, inFlight, generation>>

\* The loop of the waiter, holding the mutex again after a wakeup.
Recheck(r) ==
  /\ where[r] = "awake"
  /\ IF inFlight /\ generation = seen[r]
     THEN IF late[r] THEN Return(r, initial[r]) ELSE Goto(r, "asleep") /\ UNCHANGED result
     ELSE Goto(r, "reload") /\ UNCHANGED result
  /\ UNCHANGED <<file, changes, initial, late, inFlight, generation, seen>>

SpuriousWakeup(r) ==
  /\ where[r] = "asleep"
  /\ Goto(r, "awake")
  /\ UNCHANGED <<file, changes, result, initial, late, inFlight, generation, seen>>

\* wait_timeout reports a timeout: the waiter gives up whatever the gate says.
WaitTimesOut(r) ==
  /\ where[r] \in {"asleep", "awake"} /\ late[r]
  /\ Return(r, initial[r])
  /\ UNCHANGED <<file, changes, initial, late, inFlight, generation, seen>>

\* A waiter loads once more after the renewal it waited for and never renews.
Reload(r) ==
  /\ where[r] = "reload"
  /\ Return(r, CASE file = "valid" -> "credential"
                 [] file = "broken" -> "broken"
                 [] OTHER -> initial[r])
  /\ UNCHANGED <<file, changes, initial, late, inFlight, generation, seen>>

\* run_official_refresh returns, within its own timeout, with the credential
\* file rewritten or not.
RunHelper(r) ==
  /\ where[r] = "refresh"
  /\ \/ file = "stale" /\ file' = "valid"
     \/ UNCHANGED file
  /\ Goto(r, "poll")
  /\ UNCHANGED <<changes, result, initial, late, inFlight, generation, seen>>

\* renew_credential_until loads until it succeeds, fails for good, or is late.
Poll(r) ==
  /\ where[r] = "poll"
  /\ file \in {"valid", "broken"} \/ late[r]
  /\ Goto(r, "publish")
  /\ result' = [result EXCEPT ![r] = IF file = "valid" THEN "credential" ELSE initial[r]]
  /\ UNCHANGED <<file, changes, initial, late, inFlight, generation, seen>>

\* Faulty variant: an unsuccessful renewal returns with its waiters asleep.
EndNotifyingSuccess(r) ==
  /\ where[r] = "publish"
  /\ inFlight' = FALSE
  /\ generation' = generation + 1
  /\ where' = [q \in Requests |->
              IF q = r THEN "done"
              ELSE IF where[q] = "asleep" /\ result[r] = "credential" THEN "awake"
              ELSE where[q]]
  /\ UNCHANGED <<file, changes, result, initial, late, seen>>

\* The renewal is over, whatever came of it: every waiter is notified.
EndRenewal(r) ==
  /\ where[r] = "publish"
  /\ inFlight' = FALSE
  /\ generation' = generation + 1
  /\ where' = [q \in Requests |-> IF q = r THEN "done"
                               ELSE IF where[q] = "asleep" THEN "awake" ELSE where[q]]
  /\ UNCHANGED <<file, changes, result, initial, late, seen>>

\* The deadline of a request's own grace period passes.
Expire(r) ==
  /\ ~late[r]
  /\ late' = [late EXCEPT ![r] = TRUE]
  /\ UNCHANGED <<file, changes, where, result, initial, inFlight, generation, seen>>

\* The official tools, or time, change the file behind the service's back.
FileChanges ==
  /\ \/ file # "valid" /\ file' = "valid" /\ UNCHANGED changes
     \/ /\ file = "valid" /\ changes < MaxChanges
        /\ file' \in {"stale", "broken"}
        /\ changes' = changes + 1
  /\ UNCHANGED <<where, result, initial, late, inFlight, generation, seen>>

Running(r) ==
  \/ Load(r) \/ Lead(r) \/ Join(r) \/ Recheck(r) \/ Reload(r)
  \/ RunHelper(r) \/ Poll(r) \/ EndRenewal(r)

Done == (\A r \in Requests : where[r] = "done") /\ UNCHANGED renewalVars

RenewalNext ==
  \/ \E r \in Requests : Running(r) \/ SpuriousWakeup(r) \/ WaitTimesOut(r) \/ Expire(r)
  \/ FileChanges
  \/ Done

RenewalSpec == RenewalInit /\ [][RenewalNext]_renewalVars

\* The operating system runs every thread that is not blocked, and the clock
\* reaches the deadline of the request that renews.  Nothing is assumed about
\* the deadlines of the waiters.
ExpireLeader(r) == where[r] = "poll" /\ Expire(r)

Fairness == \A r \in Requests : WF_renewalVars(Running(r)) /\ WF_renewalVars(ExpireLeader(r))

FairRenewalSpec == RenewalSpec /\ Fairness

------------------------------------------------------------------------------
(* Properties. *)

\* Every variable stays in its type.
RenewalTypeOK ==
  /\ file \in FileStates
  /\ changes \in 0 .. MaxChanges
  /\ where \in [Requests -> Locations]
  /\ result \in [Requests -> Results]
  /\ initial \in [Requests -> {"none", "stale"}]
  /\ late \in [Requests -> BOOLEAN]
  /\ inFlight \in BOOLEAN
  /\ generation \in Nat
  /\ seen \in [Requests -> Nat]

\* The helper runs on behalf of one request at a time, however many requests
\* find the credential stale at once (spec.md section 9).
OneRenewal ==
  \A r, q \in Requests : where[r] \in Leading /\ where[q] \in Leading => r = q

\* The gate is taken exactly while some request renews: no exit of a renewal,
\* successful or not, leaves it taken for ever.
GateHeld == inFlight <=> \E r \in Requests : where[r] \in Leading

\* A request sleeps only on the renewal that is running, so no completion is
\* missed between the look at the gate and the sleep.
NoLostWakeup ==
  \A r \in Requests : where[r] = "asleep" => inFlight /\ seen[r] = generation

\* Every request is answered, even if no waiter's own deadline ever passes: a
\* wait ends with the renewal it joined, not with the next one.
EveryRequestReturns == \A r \in Requests : <>(where[r] = "done")

=============================================================================
