-------------------------- MODULE OperatorRecovery --------------------------
(***************************************************************************)
(* InstitutionalOperatorRecovery                                           *)
(* (src/src/quant_ai/operations/institutional_operator.py): an append-only *)
(* log of recovery requests around InstitutionalRuntime.reconcile_program  *)
(* (agents/institutional_runtime.py).  The request is recorded before the  *)
(* reconciliation and its outcome after it, in separate transactions, and  *)
(* the process may die in between.  A route lock leaves one application    *)
(* under way at a time.                                                    *)
(*                                                                         *)
(* Credential scopes, the confirmation text and the hash chain are left    *)
(* out; a program's context hash is fixed, so a request carries whether it *)
(* names the right one.                                                    *)
(***************************************************************************)
EXTENDS Integers, Sequences, FiniteSets, FiniteSetsExt, Functions

CONSTANTS
  Requests, Actors, Operated,
  MaxEvents    \* MAX_EVENTS: rows the log may hold

ASSUME EventsAssumption == MaxEvents \in Nat

VARIABLES
  log,        \* institutional_operator_events
  running,    \* the request being reconciled and how far, or Idle
  programState, \* state of each program
  ran         \* reconciliations begun per request

operatorVars == <<log, running, programState, ran>>

Idle == [request |-> "none"]

OperatorInit ==
  /\ log = << >>
  /\ running = Idle
  /\ programState = [p \in Operated |-> "UNCERTAIN"]
  /\ ran = [r \in Requests |-> 0]

\* The newest row of a request, as a sequence of at most one.
Latest(r) ==
  LET of == {i \in DOMAIN log : log[i].request = r}
  IN IF of = {} THEN << >> ELSE <<log[Max(of)]>>

\* Defect: a request without a returned outcome may be tried again.
UnlessReturned(r) == \A e \in Range(Latest(r)) : e.status # "RETURNED"

\* Only a request id the log has never seen is run.
Unused(r) == Latest(r) = << >>

\* Defect: room for the request alone.
RoomForOne == Len(log) <= MaxEvents - 1

RoomForOutcome == Len(log) <= MaxEvents - 2

\* apply: the transaction that records the request.  Any other use of a known
\* id is answered from the log: its result, a conflict or a review.
Apply(r, actor, p) ==
  /\ running = Idle
  /\ Unused(r)
  /\ RoomForOutcome
  /\ log' = Append(log, [request |-> r, actor |-> actor, program |-> p,
                         status |-> "REQUESTED"])
  /\ running' = [request |-> r, program |-> p, at |-> "reconcile"]
  /\ UNCHANGED <<programState, ran>>

\* What apply answers without running anything.
Answer(r, actor, p) ==
  IF Latest(r) = << >> THEN "none"
  ELSE LET e == Latest(r)[1]
       IN IF e.actor # actor \/ e.program # p THEN "request_conflict"
          ELSE IF e.status # "RETURNED" THEN "previous_outcome_requires_review"
          ELSE "replayed"

\* reconcile_program: recorded receipts move the program on, or it raises,
\* before or after it changed something.
ReconcileProgram ==
  /\ running # Idle
  /\ running.at = "reconcile"
  /\ \E state \in {"UNCERTAIN", "COMPLETE"}, end \in {"RETURNED", "FAILED"} :
       /\ programState' = [programState EXCEPT ![running.program] =
                         IF @ = "COMPLETE" THEN @ ELSE state]
       /\ running' = [running EXCEPT !.at = end]
  /\ ran' = [ran EXCEPT ![running.request] = @ + 1]
  /\ UNCHANGED log

\* _finish: the outcome follows a row that is still REQUESTED.
Finish ==
  /\ running # Idle
  /\ running.at \in {"RETURNED", "FAILED"}
  /\ Len(log) < MaxEvents
  /\ LET e == Latest(running.request)[1]
     IN /\ e.status = "REQUESTED"
        /\ log' = Append(log, [e EXCEPT !.status = running.at])
  /\ running' = Idle
  /\ UNCHANGED <<programState, ran>>

Die ==
  /\ running # Idle
  /\ running' = Idle
  /\ UNCHANGED <<log, programState, ran>>

OperatorNext ==
  \/ \E r \in Requests, actor \in Actors, p \in Operated : Apply(r, actor, p)
  \/ ReconcileProgram \/ Finish \/ Die

OperatorSpec == OperatorInit /\ [][OperatorNext]_operatorVars

-----------------------------------------------------------------------------
\* A request id reconciles at most once, across failures and restarts, and an
\* outcome that was reached always has room in the log: the answer a repeat
\* is given is the outcome of the one run, never a second one.
RequestRunsOnce ==
  /\ \A r \in Requests : ran[r] <= 1
  /\ running # Idle => Len(log) < MaxEvents
  /\ \A r \in Requests, actor \in Actors, p \in Operated :
       Answer(r, actor, p) = "replayed" => ran[r] = 1
=============================================================================
