------------------------------ MODULE MCBridge ------------------------------
(* The life of an installation on small instances. *)
EXTENDS RuntimeReplacement, TLC

BackupSymmetry == Permutations(BackupIds)
=============================================================================
