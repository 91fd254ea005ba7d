------------------------- MODULE MCTaskRunLifecycle -------------------------
(* A small instance of TaskRunLifecycle for TLC.                            *)
EXTENDS TaskRunEventLog, TLC

Symmetry == Permutations(Workers)
=============================================================================
