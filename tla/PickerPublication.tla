------------------------- MODULE PickerPublication -------------------------
(***************************************************************************)
(* What install_picker, sync_installed_picker_catalog and uninstall_picker  *)
(* promise together: the picker is published and withdrawn in one step, a   *)
(* failed transaction is no step at all, and the text a user owns in        *)
(* config.toml changes only when the user changes it.                       *)
(***************************************************************************)
EXTENDS Naturals

CONSTANTS
  Absent,    \* nothing is published; config.toml holds no user text
  Pickers,   \* the pickers that can be published
  Texts      \* the texts a user can give config.toml

VARIABLES
  picker,    \* the published picker
  managed,   \* does config.toml select the bridge?
  text,      \* the user's part of config.toml
  mishap     \* has a failure happened that nothing compensates?

vars == <<picker, managed, text, mishap>>

Init ==
  /\ picker = Absent /\ managed = FALSE
  /\ text \in Texts \cup {Absent}
  /\ mishap = FALSE

\* A new picker, or a newer one over the old: config.toml selects it.
Publish ==
  /\ picker' \in Pickers
  /\ managed' = TRUE
  /\ UNCHANGED <<text, mishap>>

Withdraw ==
  /\ picker # Absent /\ picker' = Absent
  /\ managed' = FALSE
  /\ UNCHANGED <<text, mishap>>

\* The user may drop our keys from config.toml and never writes them.  After a
\* mishap the edit may also complete or tear what the mishap left behind.
UserEdit ==
  /\ text' \in Texts \ {text}
  /\ mishap \/ (picker' = picker /\ (managed' => managed))
  /\ UNCHANGED mishap

\* After a mishap the artifacts may be in any state; the text is still the user's.
Degrade ==
  /\ mishap'
  /\ UNCHANGED text

Next == Publish \/ Withdraw \/ UserEdit \/ Degrade

Spec == Init /\ [][Next]_vars

=============================================================================
