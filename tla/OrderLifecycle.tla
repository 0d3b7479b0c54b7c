--------------------------- MODULE OrderLifecycle ---------------------------
(***************************************************************************)
(* The order state machine every order path shares                         *)
(* (src/src/quant_ai/orders/state.py).  The OMS, the swarm runtime and the *)
(* institutional coordinator all move an order through this table and      *)
(* treat a refused move as an exception.                                   *)
(***************************************************************************)

OrderStates ==
  {"CREATED", "RISK_APPROVED", "SUBMITTED", "SUBMISSION_UNCERTAIN",
   "PARTIALLY_FILLED", "FILLED", "CANCELLED", "REJECTED"}

\* TERMINAL of oms.py: the states with an empty row in the table.
Terminal == {"FILLED", "CANCELLED", "REJECTED"}

\* Defect: only a filled order is closed.
AllowedUnlessFilled(s, t) == s # "FILLED"

\* OrderLifecycle.transition: target t is a member of _ALLOWED[s].
Allowed(s, t) ==
  \/ /\ s = "CREATED"
     /\ t \in {"RISK_APPROVED", "REJECTED", "CANCELLED"}
  \/ /\ s = "RISK_APPROVED"
     /\ t \in {"SUBMITTED", "SUBMISSION_UNCERTAIN", "REJECTED", "CANCELLED"}
  \/ /\ s = "SUBMITTED"
     /\ t \in {"SUBMISSION_UNCERTAIN", "PARTIALLY_FILLED", "FILLED",
               "REJECTED", "CANCELLED"}
  \/ /\ s = "SUBMISSION_UNCERTAIN"
     /\ t \in {"SUBMITTED", "PARTIALLY_FILLED", "FILLED", "REJECTED",
               "CANCELLED"}
  \/ /\ s = "PARTIALLY_FILLED"
     /\ t \in {"PARTIALLY_FILLED", "FILLED", "CANCELLED"}

=============================================================================
