------------------------- MODULE RuntimeReplacement -------------------------
(* scripts/replace-installed-bridge.sh, and replace_installed_runtime_if_   *)
(* needed of main.rs that runs it: the binary and the launcher of an        *)
(* installation are exchanged for others, as a pair, while the service is   *)
(* stopped.  Composed with BridgeLifecycle, whose installation it changes.  *)
EXTENDS BridgeLifecycle

CONSTANT
  MaxVersions   \* bound: versions of the pair

\* A version is told from a runtime that is not there.
ASSUME VersionsAssumption == MaxVersions \in Nat /\ Absent \notin Nat

rest == <<disk, backups, stages, mine>>

Replacing(pc) == At("replace", pc)

\* The script's exit: its trap runs with what was done so far.
Fails == cmd' = [cmd EXCEPT !.pc = "cleanup"] /\ UNCHANGED outcome

Move(from, to) == bin' = [bin EXCEPT ![to] = bin[from], ![from] = Absent]

\* Nothing to do when the pair is the one that is installed.  The service is
\* started if it is not loaded, because the script wants it loaded.
BeginReplace ==
  /\ Ready /\ root # Absent
  /\ bin["binary"] # Absent /\ bin["launcher"] # Absent
  /\ service = "loaded" \/ Startable
  /\ \E v \in 1 .. MaxVersions :
       /\ bin["binary"] # v \/ bin["launcher"] # v
       /\ cmd' = [Idle EXCEPT !.kind = "replace", !.pc = "stage", !.version = v]
  /\ service' = "loaded" /\ outcome' = "none"
  /\ UNCHANGED <<rest, root, bin, count>>

\* Copies of the new pair and of the old binary.
Stage ==
  /\ Replacing("stage")
  /\ bin' = [bin EXCEPT !["newBinary"] = cmd.version, !["newLauncher"] = cmd.version,
                        !["oldBinary"] = bin["binary"]]
  /\ Goto("shutdown")
  /\ UNCHANGED <<rest, root, service, outcome, count>>

StageFails ==
  /\ Replacing("stage")
  /\ Fault("write")
  /\ Fails
  /\ UNCHANGED fileVars

Shutdown ==
  /\ Replacing("shutdown")
  /\ service' = "not_loaded"
  /\ cmd' = [cmd EXCEPT !.stopped = TRUE, !.pc = "binary"]
  /\ UNCHANGED <<rest, root, bin, outcome, count>>

\* `service uninstall` fails, or it does and the script's own wait gives up.
ShutdownFails ==
  /\ Replacing("shutdown")
  /\ Fault("launchctl")
  /\ service' \in {service, "not_loaded"}
  /\ \E stopped \in BOOLEAN : cmd' = [cmd EXCEPT !.stopped = stopped, !.pc = "cleanup"]
  /\ UNCHANGED outcome
  /\ UNCHANGED <<rest, root, bin>>

SwapBinary ==
  /\ Replacing("binary")
  /\ Move("newBinary", "binary")
  /\ cmd' = [cmd EXCEPT !.replaced = {"binary"}, !.pc = "setaside"]
  /\ UNCHANGED <<rest, root, service, outcome, count>>

SetLauncherAside ==
  /\ Replacing("setaside")
  /\ Move("launcher", "oldLauncher")
  /\ cmd' = [cmd EXCEPT !.replaced = @ \cup {"launcher"}, !.pc = "launcher"]
  /\ UNCHANGED <<rest, root, service, outcome, count>>

SwapLauncher ==
  /\ Replacing("launcher")
  /\ Move("newLauncher", "launcher")
  /\ Goto("verify")
  /\ UNCHANGED <<rest, root, service, outcome, count>>

SwapFails ==
  /\ Replacing("binary") \/ Replacing("setaside") \/ Replacing("launcher")
  /\ Fault("write")
  /\ Fails
  /\ UNCHANGED fileVars

\* The installed pair is compared, its signature and its version are checked.
VerifyPair ==
  /\ Replacing("verify")
  /\ Goto("start")
  /\ UNCHANGED <<fileVars, outcome, count>>

VerifyFails ==
  /\ Replacing("verify")
  /\ Fault("check")
  /\ Fails
  /\ UNCHANGED fileVars

Start ==
  /\ Replacing("start") /\ Startable
  /\ service' = "loaded"
  /\ Goto("doctor")
  /\ UNCHANGED <<rest, root, bin, outcome, count>>

StartFails ==
  /\ Replacing("start")
  /\ StartRefused
  /\ Fails
  /\ UNCHANGED <<rest, root, bin>>

\* Only a replacement doctor passes is kept, and its rollback copies go.
Doctor ==
  /\ Replacing("doctor")
  /\ IF DoctorPasses
     THEN /\ bin' = [bin EXCEPT !["oldBinary"] = Absent, !["oldLauncher"] = Absent]
          /\ End("ok")
     ELSE Fails /\ UNCHANGED bin
  /\ UNCHANGED <<rest, root, service, count>>

-----------------------------------------------------------------------------
(* cleanup: what was replaced goes back, with the service stopped.          *)

StagedGone(b) == [b EXCEPT !["newBinary"] = Absent, !["newLauncher"] = Absent]

\* Nothing was replaced: the service that was stopped is started again.
CleanUp ==
  /\ Replacing("cleanup") /\ cmd.replaced = {}
  /\ \/ /\ cmd.stopped => Startable
        /\ service' = IF cmd.stopped THEN "loaded" ELSE service
        /\ End("failed") /\ UNCHANGED count
     \/ cmd.stopped /\ StartRefused /\ End("rollback_failed")
  /\ bin' = StagedGone(bin)
  /\ UNCHANGED <<rest, root>>

RollbackStop ==
  /\ Replacing("cleanup") /\ cmd.replaced # {}
  /\ service' = "not_loaded"
  /\ Goto("rollback")
  /\ UNCHANGED <<rest, root, bin, outcome, count>>

RollbackStopFails ==
  /\ Replacing("cleanup") /\ cmd.replaced # {}
  /\ Fault("launchctl")
  /\ service' \in {service, "not_loaded"}
  /\ bin' = StagedGone(bin)
  /\ End("rollback_failed")
  /\ UNCHANGED <<rest, root>>

\* Faulty variant: the binary goes back alone.
RollbackBinary ==
  /\ Replacing("rollback")
  /\ bin' = [bin EXCEPT !["binary"] = bin["oldBinary"], !["oldBinary"] = Absent]
  /\ Goto("restart")
  /\ UNCHANGED <<rest, root, service, outcome, count>>

\* The binary that was copied and the launcher that was set aside.
RollbackPair ==
  /\ Replacing("rollback")
  /\ bin' = [bin EXCEPT !["binary"] = bin["oldBinary"], !["oldBinary"] = Absent,
               !["launcher"] = IF "launcher" \in cmd.replaced THEN bin["oldLauncher"] ELSE @,
               !["oldLauncher"] = Absent]
  /\ Goto("restart")
  /\ UNCHANGED <<rest, root, service, outcome, count>>

\* One of its calls fails and ends the script in its trap: nothing is moved, or
\* the binary alone, with the launcher as it is or already deleted.  Neither is
\* the service started nor a failed rollback reported.
RollbackPairFails ==
  /\ Replacing("rollback")
  /\ Fault("move")
  /\ \/ UNCHANGED bin
     \/ \E launcher \in {bin["launcher"], Absent} :
          /\ launcher # bin["launcher"] => "launcher" \in cmd.replaced
          /\ bin' = [bin EXCEPT !["binary"] = bin["oldBinary"], !["oldBinary"] = Absent,
                                !["launcher"] = launcher]
  /\ End("failed")
  /\ UNCHANGED <<rest, root, service>>

RollbackStart ==
  /\ Replacing("restart")
  /\ \/ Startable /\ service' = "loaded" /\ End("failed") /\ UNCHANGED count
     \/ StartRefused /\ End("rollback_failed")
  /\ bin' = StagedGone(bin)
  /\ UNCHANGED <<rest, root>>

Replace ==
  \/ BeginReplace \/ Stage \/ StageFails \/ Shutdown \/ ShutdownFails \/ SwapBinary
  \/ SetLauncherAside \/ SwapLauncher \/ SwapFails \/ VerifyPair \/ VerifyFails
  \/ Start \/ StartFails \/ Doctor \/ CleanUp \/ RollbackStop \/ RollbackStopFails
  \/ RollbackPair \/ RollbackPairFails \/ RollbackStart

Next == BridgeNext \/ Replace

Spec == Init /\ [][Next]_vars

-----------------------------------------------------------------------------
(* Properties.                                                              *)

\* A replacement ends with one pair: the new one, checked and served, or, when
\* it fails and reports no failed rollback, the pair it found; and the service
\* is loaded again, but for a failing launchctl (docs/spec.md:58).  A rollback
\* that dies in a failing move reports nothing and is excepted.
ReplacedAsPair ==
  [][ /\ Ends("replace", "ok") =>
           /\ service' = "loaded" /\ DoctorPasses
           /\ bin'["binary"] = cmd.version /\ bin'["launcher"] = cmd.version
      /\ Ends("replace", "failed") =>
           /\ {"crash", "move"} \cap count'.kinds # {} \/ bin'["binary"] = bin'["launcher"]
           /\ service' = "loaded" \/ {"launchctl", "move"} \cap count'.kinds # {}]_vars

=============================================================================
