--------------------------- MODULE PickerActivation ---------------------------
(*****************************************************************************)
(* activate_picker of src/src/picker_activation.rs over the launchctl calls  *)
(* of src/src/launchd.rs: stop the service, publish the picker, start the    *)
(* service, verify it, and roll back when a step fails.  The publication and *)
(* the removal of the picker are one step each (their steps are modelled in  *)
(* PickerTransaction).  launchd takes its time to remove a service, restarts *)
(* its process, and any call may fail, before or after it took effect.       *)
(*****************************************************************************)
EXTENDS Naturals

CONSTANTS
  Absent,     \* no picker is published
  Old, New,   \* the picker published before, the one being published
  Attempts,   \* how often the state of the service is polled
  MaxFaults   \* bound: failing calls

\* What the constants must satisfy; ModeSwitch assumes it.
ActivationAssumption ==
  /\ Attempts \in Nat \ {0} /\ MaxFaults \in Nat
  /\ Old # New /\ Absent \notin {Old, New} /\ "down" \notin {Absent, Old, New}

VARIABLES
  stage,      \* the operation in progress
  call,       \* its next launchctl call
  polls,      \* polls of the service state this operation has made
  prior,      \* was the service loaded when the activation began?
  failures,   \* the rollback operations that failed
  result,     \* "ok", or the stage whose failure is reported
  entry,      \* the picker published when the activation began
  picker,     \* the picker published now
  service,    \* the service as launchd has it
  served,     \* the picker its process loaded when it started
  faults      \* failing calls so far

activation == <<stage, call, polls, prior, failures, result, entry>>
launchd == <<service, served>>
vars == <<activation, launchd, picker, faults>>

Pickers == {Absent, Old, New}
Rollback == {"unstart", "remove", "restore"}
Stages == {"idle", "inspect", "stop", "publish", "start", "verify", "done"} \cup Rollback

\* launchctl print finds a service until launchd has removed it.
Loaded == service # "absent"

Fault == faults < MaxFaults /\ faults' = faults + 1

-------------------------------------------------------------------------------
(* The order of the operations. *)

FirstCall(s) ==
  CASE s \in {"inspect", "verify"} -> "print"
    [] s \in {"stop", "unstart"}   -> "bootout"
    [] s \in {"start", "restore"}  -> "bootstrap"
    [] OTHER                       -> "none"

Enter(s) == stage' = s /\ call' = FirstCall(s) /\ polls' = 0

\* restore_prior_service starts the service if it had been loaded.
Settle == Enter(IF prior THEN "restore" ELSE "done")

Proceed ==
  /\ CASE stage = "stop"    -> Enter("publish")
       [] stage = "publish" -> Enter("start")
       [] stage = "start"   -> Enter("verify")
       [] stage = "unstart" -> Enter("remove")
       [] stage = "remove"  -> Settle
       [] stage \in {"verify", "restore"} -> Enter("done")
  /\ result' = IF stage = "verify" THEN "ok" ELSE result
  /\ UNCHANGED <<prior, failures, entry>>

Report ==
  /\ result' = IF stage \in Rollback THEN result ELSE stage
  /\ failures' = IF stage \in Rollback THEN failures \cup {stage} ELSE failures
  /\ UNCHANGED <<prior, entry>>

\* Faulty variant: the rollback takes the picker from under a running service.
GiveUpKeepingService ==
  /\ CASE stage \in {"inspect", "stop", "restore"} -> Enter("done")
       [] stage \in {"start", "verify", "unstart"} -> Enter("remove")
       [] stage \in {"publish", "remove"}          -> Settle
  /\ Report

\* A failing rollback operation is recorded and the rollback goes on.
GiveUp ==
  /\ CASE stage \in {"inspect", "stop", "restore"} -> Enter("done")
       [] stage \in {"start", "verify"}            -> Enter("unstart")
       [] stage = "unstart"                        -> Enter("remove")
       [] stage \in {"publish", "remove"}          -> Settle
  /\ Report

-------------------------------------------------------------------------------
(* service_status, service_uninstall and service_install. *)

Begin ==
  /\ stage = "idle" /\ Enter("inspect")
  /\ UNCHANGED <<prior, failures, result, entry, launchd, picker, faults>>

Inspect ==
  /\ stage = "inspect"
  /\ prior' = Loaded
  /\ Enter(IF Loaded THEN "stop" ELSE "publish")
  /\ UNCHANGED <<failures, result, entry, launchd, picker, faults>>

Verify ==
  /\ stage = "verify" /\ Loaded
  /\ Proceed
  /\ UNCHANGED <<launchd, picker, faults>>

Calls(c) ==
  /\ call' = c /\ polls' = 0
  /\ UNCHANGED <<stage, prior, failures, result, entry, picker, faults>>

\* Faulty variant: the service counts as stopped once launchd accepts the call.
BootoutUnawaited ==
  /\ call = "bootout"
  /\ service' = IF Loaded THEN "leaving" ELSE "absent"
  /\ Proceed
  /\ UNCHANGED <<served, picker, faults>>

\* A service that is not loaded is stopped already: nothing is awaited.
Bootout ==
  /\ call = "bootout"
  /\ \/ /\ service = "loaded" /\ service' = "leaving"
        /\ Calls("poll")
     \/ /\ service = "absent" /\ Proceed
        /\ UNCHANGED <<service, picker, faults>>
  /\ UNCHANGED served

\* launchd refuses a service it still has.
Bootstrap ==
  /\ call = "bootstrap"
  /\ \/ /\ ~Loaded /\ service' = "loaded"
        /\ Calls("kickstart")
     \/ /\ Loaded /\ GiveUp
        /\ UNCHANGED <<service, picker, faults>>
  /\ UNCHANGED served

Kickstart ==
  /\ call = "kickstart"
  /\ Calls("poll")
  /\ UNCHANGED launchd

Reached == IF stage \in {"stop", "unstart"} THEN ~Loaded ELSE Loaded

PollReached ==
  /\ call = "poll" /\ Reached
  /\ Proceed
  /\ UNCHANGED <<launchd, picker, faults>>

\* Faulty variant: the polls are not counted.
PollForEver ==
  /\ call = "poll" /\ ~Reached
  /\ UNCHANGED vars

PollAgain ==
  /\ call = "poll" /\ ~Reached /\ polls + 1 < Attempts
  /\ polls' = polls + 1
  /\ UNCHANGED <<stage, call, prior, failures, result, entry, launchd, picker, faults>>

PollTimesOut ==
  /\ call = "poll" /\ ~Reached /\ polls + 1 >= Attempts
  /\ GiveUp
  /\ UNCHANGED <<launchd, picker, faults>>

\* The call cannot be run, or ends with an error, perhaps after it took effect.
CallFails ==
  /\ call # "none"
  /\ Fault
  /\ service' \in {service}
       \cup (IF call = "bootout" /\ service = "loaded" THEN {"leaving"} ELSE {})
       \cup (IF call = "bootstrap" /\ ~Loaded THEN {"loaded"} ELSE {})
  /\ GiveUp
  /\ UNCHANGED <<served, picker>>

-------------------------------------------------------------------------------
(* install_picker and uninstall_picker. *)

Publish ==
  /\ stage = "publish" /\ picker' = New
  /\ Proceed
  /\ UNCHANGED <<launchd, faults>>

\* Faulty variant: the error of the publication is dropped.
PublishFailsUnseen ==
  /\ stage = "publish"
  /\ Fault
  /\ Proceed
  /\ UNCHANGED <<launchd, picker>>

\* Compensated; or at its very end, where the backup of the picker before it is
\* deleted: then the new picker stays published.  What a failing compensation
\* leaves is PickerTransaction's.
PublishFails ==
  /\ stage = "publish"
  /\ Fault
  /\ picker' \in IF picker = Absent THEN {Absent} ELSE {picker, New}
  /\ GiveUp
  /\ UNCHANGED launchd

Remove ==
  /\ stage = "remove" /\ picker' = Absent
  /\ Proceed
  /\ UNCHANGED <<launchd, faults>>

RemoveFails ==
  /\ stage = "remove"
  /\ Fault
  /\ GiveUp
  /\ UNCHANGED <<launchd, picker>>

-------------------------------------------------------------------------------
(* launchd and the process of the service. *)

\* RunAtLoad and KeepAlive; the process loads its routing from the disk.
ProcessStarts ==
  /\ service = "loaded" /\ served = "down"
  /\ served' = picker
  /\ UNCHANGED <<activation, service, picker, faults>>

ProcessDies ==
  /\ service = "loaded" /\ served # "down"
  /\ served' = "down"
  /\ UNCHANGED <<activation, service, picker, faults>>

ServiceLeaves ==
  /\ service = "leaving" /\ service' = "absent"
  /\ served' = "down"
  /\ UNCHANGED <<activation, picker, faults>>

Launchd == ProcessStarts \/ ProcessDies \/ ServiceLeaves

Activation ==
  \/ Begin \/ Inspect \/ Verify
  \/ Bootout \/ Bootstrap \/ Kickstart \/ PollReached \/ PollAgain \/ PollTimesOut \/ CallFails
  \/ Publish \/ PublishFails \/ Remove \/ RemoveFails

Init ==
  /\ stage = "idle" /\ call = "none" /\ polls = 0
  /\ prior = FALSE /\ failures = {} /\ result = "none"
  /\ picker \in {Absent, Old} /\ entry = picker
  /\ service \in {"absent", "loaded"}
  /\ served = IF Loaded THEN picker ELSE "down"
  /\ faults = 0

Next == Activation \/ Launchd

Spec == Init /\ [][Next]_vars

-------------------------------------------------------------------------------

\* The variables stay in their types; a poll is one of at most Attempts.
ActivationTypeOK ==
  /\ stage \in Stages
  /\ call \in {"none", "print", "bootout", "bootstrap", "kickstart", "poll"}
  /\ polls \in 0 .. Attempts - 1
  /\ prior \in BOOLEAN /\ failures \subseteq Rollback
  /\ result \in {"none", "ok", "inspect", "stop", "publish", "start", "verify"}
  /\ entry \in {Absent, Old} /\ picker \in Pickers
  /\ service \in {"absent", "loaded", "leaving"}
  /\ served \in Pickers \cup {"down"}
  /\ faults \in 0 .. MaxFaults

\* An activation that could stop its service leaves no process serving a picker
\* other than the published one, whatever failed and wherever the process died.
ServesPublished ==
  stage = "done" /\ "unstart" \notin failures => served \in {"down", picker}

\* "ok" means a loaded service over the new picker; a failure that was rolled
\* back completely leaves the service loaded exactly if it had been.
OutcomeAsReported ==
  stage = "done" /\ failures = {} =>
    /\ result = "ok" => service = "loaded" /\ picker = New
    /\ result \in {"publish", "start", "verify"} =>
         service = IF prior THEN "loaded" ELSE "absent"

\* After a start or a verification that fails, a rollback that fails nowhere
\* leaves the picker as the activation found it (docs/spec.md:119).
PriorPickerRestored ==
  stage = "done" /\ result \in {"start", "verify"} /\ failures = {} => picker = entry

===============================================================================
