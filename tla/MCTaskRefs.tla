----------------------------- MODULE MCTaskRefs -----------------------------
(* The instance of the task references for TLC. TasksFreed is a liveness   *)
(* property, so that no symmetry is used.                                  *)
EXTENDS TaskRefs
=============================================================================
