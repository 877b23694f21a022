----------------------------- MODULE MCModeSwitch -----------------------------
(* ModeSwitch with an old picker, or none, and a desktop opened twice.         *)
EXTENDS ModeSwitch

===============================================================================
