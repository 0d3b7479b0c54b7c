---------------------------- MODULE Interruptions ----------------------------
(***************************************************************************)
(* The repairs that follow an interruption: the reviewed recovery of the   *)
(* direct paper path and the bundle of its files (PaperRecovery.tla), and  *)
(* the operator's recovery of programs (OperatorRecovery.tla).             *)
(***************************************************************************)
EXTENDS PaperRecovery, OperatorRecovery

\* What an interrupted dispatch, copy or operator request leaves behind is complete or can
\* be repaired from its own evidence, and a request never reconciles a second time
\* (orders/paper_recovery.py inspect, operations/recovery_bundle.py,
\* operations/institutional_operator.py apply).
InterruptionsRecoverable == FillRecoverable /\ BundleNotTorn /\ RequestRunsOnce
=============================================================================
