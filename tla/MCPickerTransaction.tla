------------------------ MODULE MCPickerTransaction ------------------------
(* PickerTransaction on small instances.                                    *)
EXTENDS PickerTransaction, TLC

Symmetry == Permutations(BackupIds)

=============================================================================
