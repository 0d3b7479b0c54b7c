------------------------------ MODULE HaltLatch ------------------------------
(***************************************************************************)
(* The trading day with one history variable: owed is TRUE while a fault   *)
(* the protection thread reported has not been overridden by name.         *)
(***************************************************************************)
EXTENDS PaperDay

VARIABLE owed

HaltInit == Init /\ owed = FALSE

HaltNext ==
  \/ \E jammed \in SUBSET Symbols :
       /\ ProtectionTick(jammed)
       /\ LET done == Exits(jammed) IN owed' = (owed \/ Fault(done, Marked(done.d, now)))
  \/ \E override \in BOOLEAN : Resume(override) /\ owed' = (owed /\ ~override)
  \/ Others /\ UNCHANGED owed

HaltSpec == HaltInit /\ [][HaltNext]_<<vars, owed>>

\* A fault the engine reported keeps the daemon or its database halted until an operator
\* overrides it by name, as apply_operator_halt and _resume promise.
FaultHeldUntilOverride == owed => halt # "none" \/ d.durable # "none"
=============================================================================
