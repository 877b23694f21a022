-------------------------- MODULE DesktopTransition --------------------------
(****************************************************************************)
(* transition_with_operations of src/src/desktop_transition.rs: capture the  *)
(* processes of ChatGPT.app and its app-server, ask them to quit, wait until *)
(* they are gone or a deadline passes, run the mutation, open the            *)
(* application again.  Processes exit when they like, an application starts  *)
(* app-servers, and its user may open it at any time.  The mutation itself   *)
(* is the caller's: MutationEnds takes up where it left.                     *)
(****************************************************************************)
EXTENDS Naturals

CONSTANTS
  Absent,         \* no picker; no process
  Old, New,       \* see PickerActivation
  Apps, Servers,  \* process ids of ChatGPT and of its app-server
  MaxFaults       \* bound: failing calls

\* What the constants must satisfy; ModeSwitch assumes it.
ProcessAssumption ==
  /\ Apps \cap Servers = {} /\ Absent \notin Apps /\ MaxFaults \in Nat
  /\ Servers # {} /\ \E a, b \in Apps : a # b
  /\ "never" \notin {Absent, Old, New}

VARIABLES
  phase,       \* where the transition is
  captured,    \* the processes found when it began
  expired,     \* has the deadline for their end passed?
  outcome,     \* "ok", or what failed
  running,     \* the processes that run
  view,        \* view[p]: the picker that p read when it started
  intruders,   \* the applications their user started
  relaunched,  \* the application the transition opened
  picker,      \* the published picker
  faults       \* failing calls so far

transition == <<phase, captured, expired, outcome, relaunched>>
processes == <<running, view, intruders>>
vars == <<transition, processes, picker, faults>>

Pids == Apps \cup Servers

Fault == faults < MaxFaults /\ faults' = faults + 1

\* Process ids are not reused here; the code reads the command of a process
\* again before it signals it.  Which of the new ids is taken makes no difference.
Fresh == {p \in Pids : view[p] = "never"}

NewPid(kind) == CHOOSE p \in kind \cap Fresh : TRUE

End(how) == phase' = "done" /\ outcome' = how

------------------------------------------------------------------------------
(* Capturing the processes and making them quit. *)

\* Two inspections of the process table, one after the other.
CaptureApps ==
  /\ phase = "apps" /\ phase' = "servers"
  /\ captured' = running \cap Apps
  /\ UNCHANGED <<expired, outcome, relaunched, processes, picker, faults>>

CaptureServers ==
  /\ phase = "servers"
  /\ captured' = captured \cup (running \cap Servers)
  /\ phase' = IF captured' = {} THEN "mutate" ELSE "quit"
  /\ UNCHANGED <<expired, outcome, relaunched, processes, picker, faults>>

\* TERM to every captured process; each of them exits in its own time, if ever.
Quit ==
  /\ phase = "quit" /\ phase' = "wait"
  /\ UNCHANGED <<captured, expired, outcome, relaunched, processes, picker, faults>>

Quiescent == captured \cap running = {}

Wait ==
  /\ phase = "wait" /\ Quiescent
  /\ phase' = "mutate"
  /\ UNCHANGED <<captured, expired, outcome, relaunched, processes, picker, faults>>

\* Nothing is opened again: what is still running stays.
WaitTimesOut ==
  /\ phase = "wait" /\ ~Quiescent /\ expired
  /\ End("timeout")
  /\ UNCHANGED <<captured, expired, relaunched, processes, picker, faults>>

\* An inspection fails, or a TERM after some were sent.
QuitFails ==
  /\ phase \in {"apps", "servers", "quit", "wait"}
  /\ Fault
  /\ End(phase)
  /\ UNCHANGED <<captured, expired, relaunched, processes, picker>>

------------------------------------------------------------------------------
(* After the mutation. *)

\* Faulty variant: the application is opened again after a success only.
MutationEndsAlone(ok) ==
  /\ phase = "mutate"
  /\ IF captured # {} /\ ok THEN phase' = "relaunch" ELSE phase' = "done"
  /\ outcome' = IF ok THEN "ok" ELSE "mutate"
  /\ UNCHANGED <<captured, expired, relaunched, processes, picker, faults>>

MutationEnds(ok) ==
  /\ phase = "mutate"
  /\ phase' = IF captured # {} THEN "relaunch" ELSE "done"
  /\ outcome' = IF ok THEN "ok" ELSE "mutate"
  /\ UNCHANGED <<captured, expired, relaunched, processes, picker, faults>>

Starts(p) == running' = running \cup {p} /\ view' = [view EXCEPT ![p] = picker]

\* `open -a` starts the application, or brings the running one to the front.
Relaunch ==
  /\ phase = "relaunch" /\ phase' = "done"
  /\ \/ \E p \in Apps \cap running : relaunched' = p /\ UNCHANGED <<running, view>>
     \/ /\ Apps \cap running = {}
        /\ relaunched' = NewPid(Apps) /\ Starts(NewPid(Apps))
  /\ UNCHANGED <<captured, expired, outcome, intruders, picker, faults>>

RelaunchFails ==
  /\ phase = "relaunch"
  /\ Fault
  /\ End(IF outcome = "ok" THEN "relaunch" ELSE "both")
  /\ UNCHANGED <<captured, expired, relaunched, processes, picker>>

------------------------------------------------------------------------------
(* The processes, their user, and the clock. *)

ProcessExits(p) ==
  /\ p \in running
  /\ running' = running \ {p}
  /\ UNCHANGED <<transition, view, intruders, picker, faults>>

\* One application runs at a time; the last new id is left to the transition.
UserOpens ==
  /\ \E p, q \in Apps \cap Fresh : p # q
  /\ Apps \cap running = {}
  /\ Starts(NewPid(Apps))
  /\ intruders' = intruders \cup {NewPid(Apps)}
  /\ UNCHANGED <<transition, picker, faults>>

ServerStarts ==
  /\ Servers \cap Fresh # {}
  /\ Apps \cap running # {}
  /\ Starts(NewPid(Servers))
  /\ UNCHANGED <<transition, intruders, picker, faults>>

DeadlinePasses ==
  /\ phase = "wait" /\ ~expired
  /\ expired' = TRUE
  /\ UNCHANGED <<phase, captured, outcome, relaunched, processes, picker, faults>>

Desktop == UserOpens \/ ServerStarts \/ \E p \in Pids : ProcessExits(p)

Transition ==
  \/ CaptureApps \/ CaptureServers \/ Quit \/ Wait \/ WaitTimesOut \/ QuitFails
  \/ Relaunch \/ RelaunchFails

\* Before the switch: no process, an application, its server, or both.
Init ==
  /\ phase = "apps" /\ captured = {} /\ expired = FALSE
  /\ outcome = "none" /\ relaunched = Absent
  /\ running \in SUBSET {CHOOSE p \in Apps : TRUE, CHOOSE p \in Servers : TRUE}
  /\ view = [p \in Pids |-> IF p \in running THEN picker ELSE "never"]
  /\ intruders = {}

------------------------------------------------------------------------------

TransitionTypeOK ==
  /\ phase \in {"apps", "servers", "quit", "wait", "mutate", "relaunch", "done"}
  /\ captured \subseteq Pids /\ running \subseteq Pids /\ intruders \subseteq Apps
  /\ expired \in BOOLEAN
  /\ outcome \in {"none", "apps", "servers", "quit", "wait", "timeout",
                  "ok", "mutate", "relaunch", "both"}
  /\ view \in [Pids -> {"never", Absent, Old, New}]
  /\ relaunched \in Apps \cup {Absent}

\* A desktop that was there when the switch began is open again after the
\* mutation, successful or not, and has read the picker that the mutation left,
\* unless its user had opened it in the meantime.
DesktopReturns ==
  phase = "done" /\ outcome \in {"ok", "mutate"} /\ captured # {} =>
    /\ relaunched # Absent
    /\ relaunched \in intruders \/ view[relaunched] = picker

==============================================================================
