------------------------------ MODULE ModeSwitch ------------------------------
(*****************************************************************************)
(* desktop_switch_command of src/src/main.rs once the runtime is in place:   *)
(* the desktop transition with picker activation as its mutation, beside     *)
(* launchd, the desktop's processes and their user.                          *)
(*****************************************************************************)
EXTENDS Naturals

CONSTANTS Absent, Old, New, Attempts, Apps, Servers, MaxFaults

VARIABLES
  stage, call, polls, prior, failures, result, entry, service, served,
  phase, captured, expired, outcome, running, view, intruders, relaunched,
  picker, faults

A == INSTANCE PickerActivation
D == INSTANCE DesktopTransition

activationVars == <<stage, call, polls, prior, failures, result, entry>>
launchdVars == <<service, served>>
transitionVars == <<phase, captured, expired, outcome, relaunched>>
processVars == <<running, view, intruders>>
vars == <<activationVars, launchdVars, transitionVars, processVars, picker, faults>>

ASSUME SwitchAssumption == A!ActivationAssumption /\ D!ProcessAssumption

Init == A!Init /\ D!Init

\* The transition: everything outside its mutation.
TransitionStep == D!Transition /\ UNCHANGED <<activationVars, launchdVars>>

\* The closure of desktop_switch_command runs picker_install_command.
Mutate ==
  /\ phase = "mutate" /\ stage # "done"
  /\ A!Activation
  /\ UNCHANGED <<transitionVars, processVars>>

Mutated ==
  /\ stage = "done"
  /\ D!MutationEnds(result = "ok")
  /\ UNCHANGED <<activationVars, launchdVars>>

Coordinator == TransitionStep \/ Mutate \/ Mutated

Environment ==
  \/ A!Launchd /\ UNCHANGED <<transitionVars, processVars>>
  \/ (D!Desktop \/ D!DeadlinePasses) /\ UNCHANGED <<activationVars, launchdVars>>

Next == Coordinator \/ Environment

Spec == Init /\ [][Next]_vars

\* The coordinator runs and its deadline comes.  No call has to fail, and neither a
\* process that was asked to quit nor launchd has to do anything.
FairSpec ==
  /\ Spec
  /\ WF_vars(Coordinator /\ UNCHANGED faults)
  /\ WF_vars(D!DeadlinePasses /\ UNCHANGED <<activationVars, launchdVars>>)

-------------------------------------------------------------------------------

\* The variables of both parts stay in their types.
TypeOK == A!ActivationTypeOK /\ D!TransitionTypeOK

\* The picker changes only when the captured desktop is gone and the service is
\* stopped, also while rolling back, unless the service could not be stopped.
ChangesQuietly ==
  [][picker' # picker =>
       /\ captured \cap running = {}
       /\ service = "absent" \/ "unstart" \in failures]_vars

ServesPublished == A!ServesPublished
OutcomeAsReported == A!OutcomeAsReported
PriorPickerRestored == A!PriorPickerRestored
DesktopReturns == D!DesktopReturns

\* The switch ends, even if a process ignores TERM or launchd keeps a service.
SwitchEnds == <>(phase = "done")

===============================================================================
