------------------------ MODULE MCBackupTaskReconcile ------------------------
(***************************************************************************)
(* Small instances of BackupTaskReconcile, with its refinement, for TLC.   *)
(***************************************************************************)
EXTENDS BackupTaskRefinement, TLC

(* Records are interchangeable: nothing orders their names. *)
RecordSymmetry == Permutations(Records)
=============================================================================
