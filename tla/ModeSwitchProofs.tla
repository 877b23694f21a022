--------------------------- MODULE ModeSwitchProofs ---------------------------
(*****************************************************************************)
(* Proofs about ModeSwitch for any processes, polls and faults: what is true *)
(* of an activation stays true inside the switch, the picker changes behind  *)
(* a desktop and a service that are gone, and the desktop returns.           *)
(*****************************************************************************)
EXTENDS ModeSwitch, TLAPS

-------------------------------------------------------------------------------
(* The activation of a picker. *)

Forward == {"idle", "inspect", "stop", "publish", "start", "verify"}

\* Every operation makes the calls of its kind, and a call is polled only after
\* it was accepted.
Called ==
  /\ stage \in A!Stages
  /\ stage \in {"inspect", "verify"} => call = "print"
  /\ stage \in {"stop", "unstart"} => call \in {"bootout", "poll"}
  /\ stage \in {"start", "restore"} => call \in {"bootstrap", "kickstart", "poll"}
  /\ stage \in {"idle", "publish", "remove", "done"} => call = "none"

\* What launchd has, and what a process that does not run serves.
ServiceShaped ==
  /\ service \in {"absent", "loaded", "leaving"}
  /\ service = "absent" => served = "down"

\* Wherever the picker is replaced, published or removed, the service is gone;
\* an operation that starts the service has found it gone.
Stopped ==
  /\ stage = "publish" => service = "absent"
  /\ stage = "remove" /\ "unstart" \notin failures => service = "absent"
  /\ stage = "start" => service # "leaving"
  /\ stage = "verify" => service = "loaded"
  /\ stage = "restore" /\ failures = {} => service # "leaving"

\* As long as the service could be stopped its process serves what is published.
Serves == "unstart" \notin failures => served \in {"down", picker}

\* Before the first failure nothing is reported, and then the failure is.
Reports ==
  /\ stage \in Forward => result = "none" /\ failures = {}
  /\ stage \in A!Rollback => result \in {"publish", "start", "verify"}
  /\ stage \in {"start", "verify"} => picker = New
  /\ stage = "restore" => prior = TRUE

AInv == Called /\ ServiceShaped /\ Stopped /\ Serves /\ Reports /\ A!OutcomeAsReported

-------------------------------------------------------------------------------
(* Entering, going on and giving up. *)

\* An operation begins with the call FirstCall names.
LEMMA EnterCalls ==
  ASSUME NEW s \in A!Stages, A!Enter(s)
  PROVE  Called'
BY DEF A!Enter, A!FirstCall, Called, A!Stages, A!Rollback

\* An operation that succeeds is followed by the next one of its sequence.
LEMMA ProceedKeeps ==
  ASSUME AInv, A!Proceed, UNCHANGED picker, ServiceShaped', Serves',
         stage \in {"stop", "unstart"} => service' = "absent",
         stage \in {"start", "verify", "restore"} => service' = service /\ service # "absent",
         stage \in {"stop", "unstart", "start", "verify", "restore"}
  PROVE  AInv'
<1> USE DEF AInv, A!Proceed, Stopped, Reports, A!OutcomeAsReported, Forward, A!Rollback
<1>1. CASE stage = "stop"
  BY <1>1, EnterCalls DEF A!Stages, A!Enter
<1>2. CASE stage = "unstart"
  BY <1>2, EnterCalls DEF A!Stages, A!Enter
<1>3. CASE stage = "start"
  BY <1>3, EnterCalls DEF A!Stages, A!Enter, ServiceShaped
<1>4. CASE stage = "verify"
  BY <1>4, EnterCalls DEF A!Stages, A!Enter, ServiceShaped
<1>5. CASE stage = "restore"
  BY <1>5, EnterCalls DEF A!Stages, A!Enter, ServiceShaped
<1>6. QED
  BY <1>1, <1>2, <1>3, <1>4, <1>5

\* Whatever fails in the middle of an operation, the rollback starts where it has
\* to: after a stop that failed nothing was changed, and a picker is taken back
\* under a stopped service or after the stop is known to have failed.
LEMMA GiveUpKeeps ==
  ASSUME AInv, A!GiveUp, ServiceShaped', Serves',
         stage \notin {"idle", "done"},
         stage \in {"publish", "remove"} => service' = service,
         stage \notin {"publish", "remove"} => UNCHANGED picker
  PROVE  AInv'
<1> USE DEF AInv, A!GiveUp, A!Report, Stopped, Reports, A!OutcomeAsReported, Forward, A!Rollback
<1>1. CASE stage \in {"inspect", "stop", "restore"}
  BY <1>1, EnterCalls DEF A!Stages, A!Enter
<1>2. CASE stage \in {"start", "verify"}
  BY <1>2, EnterCalls DEF A!Stages, A!Enter
<1>3. CASE stage = "unstart"
  BY <1>3, EnterCalls DEF A!Stages, A!Enter
<1>4. CASE stage \in {"publish", "remove"}
  <2>1. CASE prior
    BY <1>4, <2>1, EnterCalls DEF A!Stages, A!Enter, A!Settle
  <2>2. CASE ~prior
    BY <1>4, <2>2, EnterCalls DEF A!Stages, A!Enter, A!Settle
  <2>3. QED
    BY <2>1, <2>2
<1>5. QED
  BY <1>1, <1>2, <1>3, <1>4 DEF Called, A!Stages

-------------------------------------------------------------------------------
(* The steps. *)

\* Nothing is published under a running service yet.
LEMMA ActivationInit == A!Init => AInv
BY DEF A!Init, AInv, Called, A!Stages, A!Rollback, ServiceShaped, Stopped, Serves, Reports, Forward,
       A!OutcomeAsReported, A!Loaded

\* The launchctl calls: a service is stopped when launchd has let it go.
LEMMA CallsKeep ==
  ASSUME AInv,
         \/ A!Begin \/ A!Inspect \/ A!Verify \/ A!Bootout \/ A!Bootstrap \/ A!Kickstart
         \/ A!PollReached \/ A!PollAgain \/ A!PollTimesOut \/ A!CallFails
  PROVE  AInv'
<1> USE DEF AInv
<1>1. CASE A!Begin
  BY <1>1, EnterCalls DEF A!Begin, A!Enter, ServiceShaped, Stopped, Serves, Reports,
     A!OutcomeAsReported, Forward, A!Rollback, A!Stages, A!launchd
<1>2. CASE A!Inspect
  <2>1. CASE A!Loaded
    BY <1>2, <2>1, EnterCalls DEF A!Inspect, A!Enter, ServiceShaped, Stopped, Serves, Reports,
       A!OutcomeAsReported, Forward, A!Rollback, A!Stages, A!launchd
  <2>2. CASE ~A!Loaded
    BY <1>2, <2>2, EnterCalls DEF A!Inspect, A!Enter, A!Loaded, ServiceShaped, Stopped, Serves,
       Reports, A!OutcomeAsReported, Forward, A!Rollback, A!Stages, A!launchd
  <2>3. QED
    BY <2>1, <2>2
<1>3. CASE A!Verify
  <2>1. ServiceShaped' /\ Serves'
    BY <1>3 DEF A!Verify, A!Proceed, ServiceShaped, Serves, A!launchd
  <2>2. QED
    BY <1>3, <2>1, ProceedKeeps DEF A!Verify, A!Loaded, A!launchd
<1>4. CASE A!Bootout
  <2>1. stage \in {"stop", "unstart"}
    BY <1>4 DEF A!Bootout, Called, A!Stages, A!Rollback
  <2>2. CASE service = "loaded"
    BY <1>4, <2>1, <2>2 DEF A!Bootout, A!Calls, Called, ServiceShaped, Stopped, Serves, Reports,
       A!OutcomeAsReported, Forward, A!Rollback, A!Stages
  <2>3. CASE service = "absent"
    <3>1. A!Proceed /\ UNCHANGED <<service, served, picker>>
      BY <1>4, <2>3 DEF A!Bootout
    <3>2. ServiceShaped' /\ Serves'
      BY <3>1 DEF A!Proceed, ServiceShaped, Serves
    <3>3. QED
      BY <2>1, <2>3, <3>1, <3>2, ProceedKeeps
  <2>4. QED
    BY <1>4, <2>2, <2>3 DEF A!Bootout
<1>5. CASE A!Bootstrap
  <2>1. stage \in {"start", "restore"}
    BY <1>5 DEF A!Bootstrap, Called, A!Stages, A!Rollback
  <2>2. CASE ~A!Loaded
    BY <1>5, <2>1, <2>2 DEF A!Bootstrap, A!Loaded, A!Calls, Called, ServiceShaped, Stopped, Serves,
       Reports, A!OutcomeAsReported, Forward, A!Rollback, A!Stages
  <2>3. CASE A!Loaded
    <3>1. A!GiveUp /\ UNCHANGED <<service, served, picker>>
      BY <1>5, <2>3 DEF A!Bootstrap
    <3>2. ServiceShaped' /\ Serves'
      BY <2>1, <3>1 DEF A!GiveUp, A!Report, ServiceShaped, Serves
    <3>3. QED
      BY <2>1, <3>1, <3>2, GiveUpKeeps
  <2>4. QED
    BY <2>2, <2>3
<1>6. CASE A!Kickstart
  BY <1>6 DEF A!Kickstart, A!Calls, A!launchd, Called, ServiceShaped, Stopped, Serves, Reports,
     A!OutcomeAsReported, Forward, A!Rollback, A!Stages
<1>7. CASE A!PollReached
  <2>1. stage \in {"stop", "unstart", "start", "restore"}
    BY <1>7 DEF A!PollReached, Called, A!Stages, A!Rollback
  <2>2. ServiceShaped' /\ Serves'
    BY <1>7 DEF A!PollReached, A!Proceed, ServiceShaped, Serves, A!launchd
  <2>3. QED
    BY <1>7, <2>1, <2>2, ProceedKeeps DEF A!PollReached, A!Reached, A!Loaded, A!launchd
<1>8. CASE A!PollAgain
  BY <1>8 DEF A!PollAgain, A!launchd, Called, ServiceShaped, Stopped, Serves, Reports,
     A!OutcomeAsReported, Forward, A!Rollback, A!Stages
<1>9. CASE A!PollTimesOut
  <2>1. stage \notin {"idle", "done", "publish", "remove"}
    BY <1>9 DEF A!PollTimesOut, Called
  <2>2. ServiceShaped' /\ Serves'
    BY <1>9, <2>1 DEF A!PollTimesOut, A!GiveUp, A!Report, ServiceShaped, Serves, A!launchd
  <2>3. QED
    BY <1>9, <2>1, <2>2, GiveUpKeeps DEF A!PollTimesOut
<1>10. CASE A!CallFails
  <2>1. stage \notin {"idle", "done", "publish", "remove"}
    BY <1>10 DEF A!CallFails, Called
  <2>2. ServiceShaped' /\ Serves'
    BY <1>10, <2>1 DEF A!CallFails, A!GiveUp, A!Report, ServiceShaped, Serves, A!Loaded
  <2>3. QED
    BY <1>10, <2>1, <2>2, GiveUpKeeps DEF A!CallFails
<1>11. QED
  BY <1>1, <1>2, <1>3, <1>4, <1>5, <1>6, <1>7, <1>8, <1>9, <1>10

\* The publication and the removal: the service is gone, or could not be stopped.
LEMMA PickerKeeps ==
  ASSUME AInv, A!Publish \/ A!PublishFails \/ A!Remove \/ A!RemoveFails
  PROVE  AInv'
<1> USE DEF AInv
<1>1. CASE A!Publish
  BY <1>1, EnterCalls DEF A!Publish, A!Proceed, A!Enter, A!launchd, ServiceShaped, Stopped, Serves,
     Reports, A!OutcomeAsReported, Forward, A!Rollback, A!Stages
<1>2. CASE A!PublishFails
  <2>1. ServiceShaped' /\ Serves' /\ stage = "publish"
    BY <1>2 DEF A!PublishFails, A!GiveUp, A!Report, ServiceShaped, Serves, Stopped, A!launchd
  <2>2. QED
    BY <1>2, <2>1, GiveUpKeeps DEF A!PublishFails, A!launchd
<1>3. CASE A!Remove
  <2>1. ServiceShaped' /\ Serves'
    BY <1>3 DEF A!Remove, A!Proceed, ServiceShaped, Serves, Stopped, A!launchd
  <2>2. CASE prior
    BY <1>3, <2>1, <2>2, EnterCalls DEF A!Remove, A!Proceed, A!Settle, A!Enter, A!launchd,
       Stopped, Reports, A!OutcomeAsReported, Forward, A!Rollback, A!Stages
  <2>3. CASE ~prior
    BY <1>3, <2>1, <2>3, EnterCalls DEF A!Remove, A!Proceed, A!Settle, A!Enter, A!launchd,
       Stopped, Reports, A!OutcomeAsReported, Forward, A!Rollback, A!Stages
  <2>4. QED
    BY <2>2, <2>3
<1>4. CASE A!RemoveFails
  <2>1. ServiceShaped' /\ Serves' /\ stage = "remove"
    BY <1>4 DEF A!RemoveFails, A!GiveUp, A!Report, ServiceShaped, Serves, A!launchd
  <2>2. QED
    BY <1>4, <2>1, GiveUpKeeps DEF A!RemoveFails, A!launchd
<1>5. QED
  BY <1>1, <1>2, <1>3, <1>4

\* A process that starts loads what is published, whenever launchd starts it.
LEMMA LaunchdKeeps ==
  ASSUME AInv, A!Launchd
  PROVE  AInv'
BY DEF AInv, A!Launchd, A!ProcessStarts, A!ProcessDies, A!ServiceLeaves, A!activation, Called,
       ServiceShaped, Stopped, Serves, Reports, A!OutcomeAsReported, Forward, A!Rollback, A!Stages

\* A step of the activation or of launchd keeps the invariant, whatever it counts
\* as a fault.
LEMMA ActivationKeeps == AInv /\ (A!Activation \/ A!Launchd) => AInv'
BY CallsKeep, PickerKeeps, LaunchdKeeps DEF A!Activation

\* A step that leaves the activation, the service and the picker alone keeps it.
LEMMA ElsewhereKeeps == AInv /\ UNCHANGED <<A!activation, A!launchd, picker>> => AInv'
BY DEF A!activation, A!launchd, AInv, Called, ServiceShaped, Stopped, Serves, Reports,
       A!OutcomeAsReported

-------------------------------------------------------------------------------
(* The activation inside the switch. *)

\* Every step of the switch is one of the activation or of launchd, or leaves both
\* and the picker alone.
LEMMA ActivationSteps ==
  [Next]_vars => \/ A!Activation \/ A!Launchd
                 \/ UNCHANGED <<activationVars, launchdVars, picker>>
<1> SUFFICES ASSUME [Next]_vars
             PROVE  \/ A!Activation \/ A!Launchd
                    \/ UNCHANGED <<activationVars, launchdVars, picker>>
  OBVIOUS
<1>1. CASE TransitionStep
  BY <1>1 DEF TransitionStep, D!Transition, D!CaptureApps, D!CaptureServers, D!Quit, D!Wait,
     D!WaitTimesOut, D!QuitFails, D!Relaunch, D!RelaunchFails
<1>2. CASE Mutate
  BY <1>2 DEF Mutate
<1>3. CASE Mutated
  BY <1>3 DEF Mutated, D!MutationEnds
<1>4. CASE Environment
  BY <1>4 DEF Environment, D!Desktop, D!DeadlinePasses, D!UserOpens,
     D!ServerStarts, D!ProcessExits
<1>5. CASE UNCHANGED vars
  BY <1>5 DEF vars
<1>6. QED
  BY <1>1, <1>2, <1>3, <1>4, <1>5 DEF Next, Coordinator

\* The activation keeps its invariant inside the switch.
LEMMA ActivationKept == Spec => []AInv
<1>1. Init => AInv
  BY ActivationInit DEF Init
<1>2. AInv /\ [Next]_vars => AInv'
  BY ActivationSteps, ActivationKeeps, ElsewhereKeeps
  DEF activationVars, launchdVars, A!activation, A!launchd
<1>3. QED
  BY <1>1, <1>2, PTL DEF Spec

-------------------------------------------------------------------------------
(* The processes. *)

Seen(p) == view[p] # "never"

\* Whoever runs, was captured or was opened again has read a picker.
Known ==
  /\ picker \in {Absent, Old, New}
  /\ DOMAIN view = D!Pids
  /\ running \subseteq D!Pids /\ captured \subseteq D!Pids
  /\ \A p \in running \cup captured : Seen(p)

\* The captured processes are gone from the mutation on; an application that runs
\* beside them is its user's; one process id is left for the relaunch.
Quiet ==
  /\ phase \in {"mutate", "relaunch"} => captured \cap running = {}
  /\ phase \notin {"apps", "done"} => running \cap Apps \subseteq captured \cup intruders
  /\ phase # "done" => Apps \cap D!Fresh # {}

\* The application that was opened again.
Returned ==
  phase = "done" /\ outcome \in {"ok", "mutate"} /\ captured # {} =>
    /\ relaunched \in Apps
    /\ relaunched \in intruders \/ view[relaunched] = picker

TInv == Known /\ Quiet /\ Returned

\* A new process id has not been used.
LEMMA NewPidFresh ==
  ASSUME NEW kind, kind \cap D!Fresh # {}
  PROVE  D!NewPid(kind) \in kind \cap D!Fresh
BY DEF D!NewPid

\* Nothing but the mutation changes the picker, and what it publishes is one.
LEMMA PickerChanges ==
  ASSUME Known, [Next]_vars
  PROVE  /\ picker' \in {Absent, Old, New}
         /\ picker' # picker => Mutate /\ (A!Publish \/ A!PublishFails \/ A!Remove)
<1>1. CASE Mutate
  BY <1>1 DEF Known, Mutate, transitionVars, A!Activation, A!Begin, A!Inspect, A!Verify,
     A!Bootout, A!Bootstrap, A!Kickstart, A!PollReached, A!PollAgain, A!PollTimesOut,
     A!CallFails, A!Publish, A!PublishFails, A!Remove, A!RemoveFails, A!Calls
<1>2. CASE ~Mutate
  BY <1>2 DEF Known, Next, Coordinator, Environment, vars, TransitionStep, D!Transition,
     D!CaptureApps, D!CaptureServers, D!Quit, D!Wait, D!WaitTimesOut, D!QuitFails, D!Relaunch,
     D!RelaunchFails, Mutated, D!MutationEnds, A!Launchd, A!ProcessStarts, A!ProcessDies,
     A!ServiceLeaves, D!Desktop, D!DeadlinePasses, D!UserOpens, D!ServerStarts, D!ProcessExits
<1>3. QED
  BY <1>1, <1>2

\* A process that starts takes an id nobody has.
LEMMA StartsKeeps ==
  ASSUME TInv, NEW p \in D!Fresh, D!Starts(p), UNCHANGED <<captured, picker>>
  PROVE  /\ Known'
         /\ running' = running \cup {p} /\ p \notin captured /\ p \notin running
         /\ D!Fresh' = D!Fresh \ {p}
         /\ view'[p] = picker
         /\ \A q \in D!Pids \ {p} : view'[q] = view[q]
BY SwitchAssumption DEF TInv, Known, Seen, D!Starts, D!Fresh, D!ProcessAssumption, D!Pids

\* Before the switch some ids are free, and those who run have read the picker.
LEMMA InitTransition == Init => TInv
<1> SUFFICES ASSUME Init PROVE TInv
  OBVIOUS
<1>1. running \subseteq {CHOOSE p \in Apps : TRUE, CHOOSE p \in Servers : TRUE}
  BY DEF Init, D!Init
<1>2. (CHOOSE p \in Apps : TRUE) \in Apps /\ (CHOOSE p \in Servers : TRUE) \in Servers
  BY SwitchAssumption DEF D!ProcessAssumption
<1> DEFINE app == CHOOSE p \in Apps : TRUE
           server == CHOOSE p \in Servers : TRUE
<1>3. running \subseteq {app, server} /\ app \in Apps /\ server \in Servers
  BY <1>1, <1>2
<1> HIDE DEF app, server
<1>4. PICK other \in Apps : other # app
  BY SwitchAssumption DEF D!ProcessAssumption
<1>5. other \notin running
  BY <1>3, <1>4, SwitchAssumption DEF D!ProcessAssumption
<1>6. /\ picker \in {Absent, Old, New} /\ captured = {} /\ phase = "apps"
      /\ view = [p \in D!Pids |-> IF p \in running THEN picker ELSE "never"]
  BY DEF Init, A!Init, D!Init
<1>7. Known
  BY <1>3, <1>6, SwitchAssumption DEF Known, Seen, D!Pids, D!ProcessAssumption
<1>8. other \in Apps \cap D!Fresh
  BY <1>4, <1>5, <1>6 DEF D!Fresh, D!Pids
<1>9. QED
  BY <1>6, <1>7, <1>8 DEF TInv, Quiet, Returned

\* The steps of the transition before the mutation and after it.
LEMMA TransitionKeeps ==
  ASSUME TInv, TransitionStep
  PROVE  TInv'
<1> USE DEF TInv, D!transition, D!processes
<1>1. CASE D!CaptureApps
  BY <1>1 DEF D!CaptureApps, Known, Seen, Quiet, Returned, D!Fresh, D!Pids
<1>2. CASE D!CaptureServers
  BY <1>2, SwitchAssumption
  DEF D!CaptureServers, Known, Seen, Quiet, Returned, D!Fresh, D!Pids, D!ProcessAssumption
<1>3. CASE D!Quit
  BY <1>3 DEF D!Quit, Known, Seen, Quiet, Returned, D!Fresh, D!Pids
<1>4. CASE D!Wait
  BY <1>4 DEF D!Wait, D!Quiescent, Known, Seen, Quiet, Returned, D!Fresh, D!Pids
<1>5. CASE D!WaitTimesOut \/ D!QuitFails
  BY <1>5 DEF D!WaitTimesOut, D!QuitFails, D!End, Known, Seen, Quiet, Returned, D!Fresh, D!Pids
<1>6. CASE D!RelaunchFails
  BY <1>6 DEF D!RelaunchFails, D!End, Known, Seen, Quiet, Returned, D!Fresh, D!Pids
<1>7. CASE D!Relaunch
  <2>1. CASE \E p \in Apps \cap running : relaunched' = p /\ UNCHANGED <<running, view>>
    BY <1>7, <2>1 DEF D!Relaunch, Known, Seen, Quiet, Returned
  <2>2. CASE /\ Apps \cap running = {}
             /\ relaunched' = D!NewPid(Apps) /\ D!Starts(D!NewPid(Apps))
    <3>1. D!NewPid(Apps) \in Apps \cap D!Fresh
      BY <1>7, NewPidFresh DEF D!Relaunch, Quiet
    <3>2. Known' /\ view'[D!NewPid(Apps)] = picker
      BY <1>7, <2>2, <3>1, StartsKeeps DEF D!Relaunch
    <3>3. QED
      BY <1>7, <2>2, <3>1, <3>2 DEF D!Relaunch, Quiet, Returned
  <2>3. QED
    BY <1>7, <2>1, <2>2 DEF D!Relaunch
<1>8. QED
  BY <1>1, <1>2, <1>3, <1>4, <1>5, <1>6, <1>7 DEF TransitionStep, D!Transition

\* The desktop's own steps and the clock.
LEMMA DesktopKeeps ==
  ASSUME TInv, D!Desktop \/ D!DeadlinePasses
  PROVE  TInv'
<1> USE DEF TInv, D!transition, D!processes
<1>1. CASE D!DeadlinePasses
  BY <1>1 DEF D!DeadlinePasses, Known, Seen, Quiet, Returned, D!Fresh, D!Pids
<1>2. ASSUME NEW p \in D!Pids, D!ProcessExits(p) PROVE TInv'
  BY <1>2 DEF D!ProcessExits, Known, Seen, Quiet, Returned, D!Fresh, D!Pids
<1>3. CASE D!UserOpens
  <2> DEFINE p == D!NewPid(Apps)
  <2>1. p \in Apps \cap D!Fresh
    BY <1>3, NewPidFresh DEF D!UserOpens
  <2>2. D!Starts(p) /\ UNCHANGED <<D!transition, picker>> /\ intruders' = intruders \cup {p}
    BY <1>3 DEF D!UserOpens
  <2>3. Apps \cap D!Fresh \notin {{}, {p}}
    BY <1>3 DEF D!UserOpens
  <2> HIDE DEF p
  <2>4. /\ Known' /\ running' = running \cup {p} /\ p \notin captured
        /\ D!Fresh' = D!Fresh \ {p} /\ \A q \in D!Pids \ {p} : view'[q] = view[q]
        /\ view'[p] = picker
    BY <2>1, <2>2, StartsKeeps
  <2>5. Quiet'
    BY <2>1, <2>2, <2>3, <2>4 DEF Quiet
  <2>6. Returned'
    BY <2>1, <2>2, <2>4 DEF Returned, D!Pids
  <2>7. QED
    BY <2>4, <2>5, <2>6
<1>4. CASE D!ServerStarts
  <2> DEFINE p == D!NewPid(Servers)
  <2>1. p \in Servers \cap D!Fresh
    BY <1>4, NewPidFresh DEF D!ServerStarts
  <2>2. D!Starts(p) /\ UNCHANGED <<D!transition, picker, intruders>>
    BY <1>4 DEF D!ServerStarts
  <2> HIDE DEF p
  <2>3. /\ Known' /\ running' = running \cup {p} /\ p \notin captured
        /\ D!Fresh' = D!Fresh \ {p} /\ \A q \in D!Pids \ {p} : view'[q] = view[q]
    BY <2>1, <2>2, StartsKeeps
  <2>4. p \notin Apps
    BY <2>1, SwitchAssumption DEF D!ProcessAssumption
  <2>5. Quiet'
    BY <2>2, <2>3, <2>4 DEF Quiet
  <2>6. Returned'
    BY <2>2, <2>3, <2>4 DEF Returned, D!Pids
  <2>7. QED
    BY <2>3, <2>5, <2>6
<1>5. QED
  BY <1>1, <1>2, <1>3, <1>4 DEF D!Desktop

\* TInv is an invariant: the mutation touches the picker only, and its end opens
\* nothing yet.
LEMMA TransitionKept == Spec => []TInv
<1>1. TInv /\ [Next]_vars => TInv'
  <2> SUFFICES ASSUME TInv, [Next]_vars PROVE TInv'
    OBVIOUS
  <2>1. CASE TransitionStep
    BY <2>1, TransitionKeeps
  <2>2. CASE Mutate
    <3>1. picker' \in {Absent, Old, New}
      BY PickerChanges DEF TInv
    <3>2. phase = "mutate" /\ UNCHANGED <<transitionVars, processVars>>
      BY <2>2 DEF Mutate
    <3>3. QED
      BY <3>1, <3>2 DEF TInv, Known, Seen, Quiet, Returned, D!Fresh, D!Pids, transitionVars,
         processVars
  <2>3. CASE Mutated
    <3>1. PICK ok \in BOOLEAN : D!MutationEnds(ok)
      BY <2>3 DEF Mutated
    <3>2. QED
      BY <3>1 DEF D!MutationEnds, D!processes, TInv, Known, Seen, Quiet, Returned, D!Fresh, D!Pids
  <2>4. CASE Environment \/ UNCHANGED vars
    <3>1. CASE D!Desktop \/ D!DeadlinePasses
      BY <3>1, DesktopKeeps
    <3>2. CASE UNCHANGED <<transitionVars, processVars, picker>>
      BY <3>2 DEF TInv, Known, Seen, Quiet, Returned, D!Fresh, D!Pids, transitionVars, processVars
    <3>3. QED
      BY <2>4, <3>1, <3>2 DEF Environment, A!Launchd, A!ProcessStarts, A!ProcessDies,
         A!ServiceLeaves, vars
  <2>5. QED
    BY <2>1, <2>2, <2>3, <2>4 DEF Next, Coordinator
<1>2. QED
  BY <1>1, InitTransition, PTL DEF Spec

-------------------------------------------------------------------------------
(* The types. *)

\* What an operation has done and reported so far.
ActivationTyped ==
  /\ stage \in A!Stages
  /\ call \in {"none", "print", "bootout", "bootstrap", "kickstart", "poll"}
  /\ polls \in 0 .. Attempts - 1
  /\ prior \in BOOLEAN /\ failures \subseteq A!Rollback
  /\ result \in {"none", "ok", "inspect", "stop", "publish", "start", "verify"}
  /\ entry \in {Absent, Old}

\* An operation begins without a poll.
LEMMA EnterTyped ==
  ASSUME NEW s \in A!Stages, A!Enter(s)
  PROVE  /\ stage' \in A!Stages /\ polls' \in 0 .. Attempts - 1
         /\ call' \in {"none", "print", "bootout", "bootstrap", "kickstart", "poll"}
BY SwitchAssumption DEF A!Enter, A!FirstCall, A!ActivationAssumption

\* The operation that follows a successful one.
LEMMA ProceedTyped ==
  ASSUME ActivationTyped, A!Proceed,
         stage \in {"stop", "publish", "start", "unstart", "remove", "verify", "restore"}
  PROVE  ActivationTyped'
<1>1. \E s \in A!Stages : A!Enter(s)
  BY DEF A!Proceed, A!Settle, A!Stages, A!Rollback
<1>2. QED
  BY <1>1, EnterTyped DEF ActivationTyped, A!Proceed

\* The operation that follows a failed one, and the failure that is reported.
LEMMA GiveUpTyped ==
  ASSUME ActivationTyped, A!GiveUp, stage \notin {"idle", "done"}
  PROVE  ActivationTyped'
<1>1. \E s \in A!Stages : A!Enter(s)
  BY DEF ActivationTyped, A!GiveUp, A!Settle, A!Stages, A!Rollback
<1>2. QED
  BY <1>1, EnterTyped DEF ActivationTyped, A!GiveUp, A!Report, A!Stages, A!Rollback

\* A fault is counted up to the bound.
LEMMA FaultCounted ==
  ASSUME faults \in 0 .. MaxFaults, A!Fault
  PROVE  faults' \in 0 .. MaxFaults
BY SwitchAssumption DEF A!Fault, A!ActivationAssumption

\* A step of the activation or of launchd keeps the types.
LEMMA ActivationTypes ==
  ASSUME AInv, A!ActivationTypeOK, A!Activation \/ A!Launchd
  PROVE  A!ActivationTypeOK'
<1>1. ActivationTyped /\ Called
  BY DEF AInv, A!ActivationTypeOK, ActivationTyped
<1>2. ASSUME ActivationTyped', picker' \in A!Pickers,
             service' \in {"absent", "loaded", "leaving"}, served' \in A!Pickers \cup {"down"},
             faults' \in 0 .. MaxFaults
      PROVE  A!ActivationTypeOK'
  BY <1>2 DEF A!ActivationTypeOK, ActivationTyped
<1> USE DEF A!ActivationTypeOK
<1>3. CASE A!Begin
  BY <1>1, <1>2, <1>3, EnterTyped DEF A!Begin, A!launchd, A!Stages, ActivationTyped
<1>4. CASE A!Inspect
  <2>1. prior' \in BOOLEAN
    BY <1>4 DEF A!Inspect, A!Loaded
  <2>2. \E s \in A!Stages : A!Enter(s)
    BY <1>4 DEF A!Inspect, A!Stages
  <2>3. QED
    BY <1>1, <1>2, <1>4, <2>1, <2>2, EnterTyped DEF A!Inspect, A!launchd, ActivationTyped
<1>5. CASE A!Verify
  BY <1>1, <1>2, <1>5, ProceedTyped DEF A!Verify, A!launchd
<1>6. CASE A!Bootout
  <2>1. stage \in {"stop", "unstart"}
    BY <1>1, <1>6 DEF A!Bootout, Called, A!Stages, A!Rollback
  <2>2. QED
    BY <1>1, <1>2, <1>6, <2>1, ProceedTyped, SwitchAssumption
    DEF A!Bootout, A!Calls, ActivationTyped, A!ActivationAssumption
<1>7. CASE A!Bootstrap
  <2>1. stage \in {"start", "restore"}
    BY <1>1, <1>7 DEF A!Bootstrap, Called, A!Stages, A!Rollback
  <2>2. QED
    BY <1>1, <1>2, <1>7, <2>1, GiveUpTyped, SwitchAssumption
    DEF A!Bootstrap, A!Calls, ActivationTyped, A!ActivationAssumption
<1>8. CASE A!Kickstart
  BY <1>1, <1>2, <1>8, SwitchAssumption
  DEF A!Kickstart, A!Calls, A!launchd, ActivationTyped, A!ActivationAssumption
<1>9. CASE A!PollReached
  <2>1. stage \in {"stop", "unstart", "start", "restore"}
    BY <1>1, <1>9 DEF A!PollReached, Called, A!Stages, A!Rollback
  <2>2. QED
    BY <1>1, <1>2, <1>9, <2>1, ProceedTyped DEF A!PollReached, A!launchd
<1>10. CASE A!PollAgain
  BY <1>1, <1>2, <1>10, SwitchAssumption
  DEF A!PollAgain, A!launchd, ActivationTyped, A!ActivationAssumption
<1>11. CASE A!PollTimesOut
  <2>1. stage \notin {"idle", "done"}
    BY <1>1, <1>11 DEF A!PollTimesOut, Called
  <2>2. QED
    BY <1>1, <1>2, <1>11, <2>1, GiveUpTyped DEF A!PollTimesOut, A!launchd
<1>12. CASE A!CallFails
  <2>1. stage \notin {"idle", "done"}
    BY <1>1, <1>12 DEF A!CallFails, Called
  <2>2. faults' \in 0 .. MaxFaults
    BY <1>12, FaultCounted DEF A!CallFails
  <2>3. QED
    BY <1>1, <1>2, <1>12, <2>1, <2>2, GiveUpTyped DEF A!CallFails
<1>13. CASE A!Publish
  BY <1>1, <1>2, <1>13, ProceedTyped DEF A!Publish, A!launchd, A!Pickers
<1>14. CASE A!PublishFails
  <2>1. faults' \in 0 .. MaxFaults
    BY <1>14, FaultCounted DEF A!PublishFails
  <2>2. QED
    BY <1>1, <1>2, <1>14, <2>1, GiveUpTyped DEF A!PublishFails, A!launchd, A!Pickers
<1>15. CASE A!Remove
  BY <1>1, <1>2, <1>15, ProceedTyped DEF A!Remove, A!launchd, A!Pickers
<1>16. CASE A!RemoveFails
  <2>1. faults' \in 0 .. MaxFaults
    BY <1>16, FaultCounted DEF A!RemoveFails
  <2>2. QED
    BY <1>1, <1>2, <1>16, <2>1, GiveUpTyped DEF A!RemoveFails, A!launchd
<1>17. CASE A!Launchd
  BY <1>1, <1>2, <1>17
  DEF A!Launchd, A!ProcessStarts, A!ProcessDies, A!ServiceLeaves, A!activation, ActivationTyped
<1>18. QED
  BY <1>3, <1>4, <1>5, <1>6, <1>7, <1>8, <1>9, <1>10, <1>11, <1>12, <1>13, <1>14, <1>15, <1>16,
     <1>17 DEF A!Activation

\* A fault of the transition is counted up to the bound as well.
LEMMA TransitionFaults ==
  ASSUME faults \in 0 .. MaxFaults, TransitionStep \/ Mutated \/ D!Desktop \/ D!DeadlinePasses
  PROVE  faults' \in 0 .. MaxFaults
<1>1. D!Fault => faults' \in 0 .. MaxFaults
  BY SwitchAssumption DEF D!Fault, D!ProcessAssumption
<1>2. QED
  BY <1>1 DEF TransitionStep, D!Transition, D!CaptureApps, D!CaptureServers, D!Quit, D!Wait,
     D!WaitTimesOut, D!QuitFails, D!Relaunch, D!RelaunchFails, Mutated, D!MutationEnds,
     D!Desktop, D!DeadlinePasses, D!UserOpens, D!ServerStarts, D!ProcessExits

\* A step of the transition, of the desktop or of the clock keeps the types.
LEMMA TransitionTypes ==
  ASSUME TInv, D!TransitionTypeOK,
         TransitionStep \/ D!Desktop \/ D!DeadlinePasses \/ \E ok \in BOOLEAN : D!MutationEnds(ok)
  PROVE  D!TransitionTypeOK'
<1> USE DEF D!TransitionTypeOK, D!transition, D!processes
<1>1. ASSUME NEW p \in D!Pids, D!Starts(p)
      PROVE  running' \subseteq D!Pids /\ view' \in [D!Pids -> {"never", Absent, Old, New}]
  BY <1>1 DEF D!Starts, TInv, Known
<1>2. CASE TransitionStep
  <2>1. CASE D!CaptureApps
    BY <2>1 DEF D!CaptureApps, D!Pids
  <2>2. CASE D!CaptureServers
    BY <2>2 DEF D!CaptureServers, D!Pids
  <2>3. CASE D!Quit \/ D!Wait
    BY <2>3 DEF D!Quit, D!Wait
  <2>4. CASE D!WaitTimesOut \/ D!QuitFails
    BY <2>4 DEF D!WaitTimesOut, D!QuitFails, D!End
  <2>5. CASE D!RelaunchFails
    BY <2>5 DEF D!RelaunchFails, D!End
  <2>6. CASE D!Relaunch
    <3>1. D!NewPid(Apps) \in Apps \cap D!Fresh
      BY <2>6, NewPidFresh DEF D!Relaunch, TInv, Quiet
    <3>2. D!NewPid(Apps) \in D!Pids
      BY <3>1 DEF D!Pids
    <3>3. QED
      BY <1>1, <2>6, <3>1, <3>2 DEF D!Relaunch
  <2>7. QED
    BY <1>2, <2>1, <2>2, <2>3, <2>4, <2>5, <2>6 DEF TransitionStep, D!Transition
<1>3. CASE D!UserOpens
  <2>1. D!NewPid(Apps) \in Apps \cap D!Fresh
    BY <1>3, NewPidFresh DEF D!UserOpens
  <2>2. D!NewPid(Apps) \in D!Pids
    BY <2>1 DEF D!Pids
  <2>3. QED
    BY <1>1, <1>3, <2>1, <2>2 DEF D!UserOpens
<1>4. CASE D!ServerStarts
  <2>1. D!NewPid(Servers) \in D!Pids
    BY <1>4, NewPidFresh DEF D!ServerStarts, D!Pids
  <2>2. QED
    BY <1>1, <1>4, <2>1 DEF D!ServerStarts
<1>5. CASE \E p \in D!Pids : D!ProcessExits(p)
  BY <1>5 DEF D!ProcessExits
<1>6. CASE D!DeadlinePasses
  BY <1>6 DEF D!DeadlinePasses
<1>7. CASE \E ok \in BOOLEAN : D!MutationEnds(ok)
  BY <1>7 DEF D!MutationEnds
<1>8. QED
  BY <1>2, <1>3, <1>4, <1>5, <1>6, <1>7 DEF D!Desktop

\* The types at the start.
LEMMA InitTypes == Init => TypeOK
<1> SUFFICES ASSUME Init PROVE TypeOK
  OBVIOUS
<1>1. A!ActivationTypeOK
  <2>1. polls \in 0 .. Attempts - 1 /\ faults \in 0 .. MaxFaults
    BY SwitchAssumption DEF Init, A!Init, A!ActivationAssumption
  <2>2. picker \in {Absent, Old} /\ served \in {picker, "down"}
    BY DEF Init, A!Init
  <2>3. QED
    BY <2>1, <2>2 DEF Init, A!Init, A!ActivationTypeOK, A!Stages, A!Pickers, A!Rollback
<1>2. Known
  BY InitTransition DEF TInv
<1>3. D!TransitionTypeOK
  BY <1>2 DEF Init, D!Init, D!TransitionTypeOK, Known, D!Pids
<1>4. QED
  BY <1>1, <1>3 DEF TypeOK

-------------------------------------------------------------------------------
(* What the switch promises. *)

\* The type invariant of the activation and of the transition around it, for any
\* processes, polls and faults.
THEOREM TypeCorrect == Spec => []TypeOK
<1>1. AInv /\ TInv /\ TypeOK /\ [Next]_vars => TypeOK'
  <2> SUFFICES ASSUME AInv, TInv, A!ActivationTypeOK, D!TransitionTypeOK, [Next]_vars
               PROVE  A!ActivationTypeOK' /\ D!TransitionTypeOK'
    BY DEF TypeOK
  <2>1. CASE Mutate \/ (A!Launchd /\ UNCHANGED <<transitionVars, processVars>>)
    <3>1. A!ActivationTypeOK'
      BY <2>1, ActivationTypes DEF Mutate
    <3>2. UNCHANGED <<transitionVars, processVars>>
      BY <2>1 DEF Mutate
    <3>3. QED
      BY <3>1, <3>2 DEF D!TransitionTypeOK, transitionVars, processVars
  <2>2. CASE TransitionStep \/ Mutated
             \/ ((D!Desktop \/ D!DeadlinePasses) /\ UNCHANGED <<activationVars, launchdVars>>)
    <3>1. D!TransitionTypeOK'
      BY <2>2, TransitionTypes DEF Mutated
    <3>2. UNCHANGED <<activationVars, launchdVars>> /\ picker' \in A!Pickers
      BY <2>2, PickerChanges DEF TransitionStep, Mutated, TInv, A!Pickers
    <3>3. faults' \in 0 .. MaxFaults
      BY <2>2, TransitionFaults DEF A!ActivationTypeOK
    <3>4. QED
      BY <3>1, <3>2, <3>3 DEF A!ActivationTypeOK, activationVars, launchdVars
  <2>3. CASE UNCHANGED vars
    BY <2>3 DEF vars, A!ActivationTypeOK, D!TransitionTypeOK, activationVars, launchdVars,
       transitionVars, processVars
  <2>4. QED
    BY <2>1, <2>2, <2>3 DEF Next, Coordinator, Environment
<1>2. QED
  BY <1>1, InitTypes, ActivationKept, TransitionKept, PTL DEF Spec

\* An activation that could stop its service leaves no process that serves another
\* picker, in the middle of a switch as well.
THEOREM ServesPublishedHolds == Spec => []ServesPublished
<1>1. AInv => ServesPublished
  BY DEF AInv, Serves, ServesPublished, A!ServesPublished
<1>2. QED
  BY <1>1, ActivationKept, PTL

\* What the activation of a switch reports is what it leaves.
THEOREM OutcomeAsReportedHolds == Spec => []OutcomeAsReported
<1>1. AInv => OutcomeAsReported
  BY DEF AInv, A!OutcomeAsReported, OutcomeAsReported, A!OutcomeAsReported
<1>2. QED
  BY <1>1, ActivationKept, PTL

\* The picker changes only when every captured process is gone and the service is
\* stopped, or is known not to stop.
THEOREM ChangesQuietlyHolds == Spec => ChangesQuietly
<1>1. AInv /\ TInv /\ [Next]_vars =>
        [picker' # picker =>
           /\ captured \cap running = {}
           /\ service = "absent" \/ "unstart" \in failures]_vars
  <2> SUFFICES ASSUME AInv, TInv, [Next]_vars, picker' # picker
               PROVE  /\ captured \cap running = {}
                      /\ service = "absent" \/ "unstart" \in failures
    OBVIOUS
  <2>1. Mutate /\ (A!Publish \/ A!PublishFails \/ A!Remove)
    BY PickerChanges DEF TInv
  <2>2. captured \cap running = {}
    BY <2>1 DEF Mutate, TInv, Quiet
  <2>3. stage \in {"publish", "remove"}
    BY <2>1 DEF A!Publish, A!PublishFails, A!Remove
  <2>4. QED
    BY <2>2, <2>3 DEF AInv, Stopped
<1>2. QED
  BY <1>1, ActivationKept, TransitionKept, PTL DEF Spec, ChangesQuietly

\* A captured desktop is open again after the mutation and has read the picker
\* that it left, however many processes come and go meanwhile.
THEOREM DesktopReturnsHolds == Spec => []DesktopReturns
<1>1. TInv => DesktopReturns
  BY SwitchAssumption DEF TInv, Returned, DesktopReturns, D!DesktopReturns, D!ProcessAssumption
<1>2. QED
  BY <1>1, TransitionKept, PTL

===============================================================================
