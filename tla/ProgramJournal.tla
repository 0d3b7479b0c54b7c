--------------------------- MODULE ProgramJournal ---------------------------
(***************************************************************************)
(* The durable execution-program journal: ExecutionProgramJournal of       *)
(* src/src/quant_ai/execution/program.py, for one trading account.         *)
(*                                                                         *)
(* A program is an approved parent order cut into slices.  Every method is *)
(* one SQLite transaction of this journal alone, hence one atomic piece of *)
(* the callers' steps; PaperExecution.tla composes them with the OMS, the  *)
(* paper ledger and the accounting journal.  The client order id of a      *)
(* slice is a hash of the slice, so it is not a variable.  Plans, contexts *)
(* and payload hashes are left out: they are fixed when a program is made. *)
(***************************************************************************)
EXTENDS Integers, FiniteSets

CONSTANTS
  Programs,   \* program ids
  Slices,     \* all child orders
  Prog,       \* the program of a slice
  Sequence,       \* the sequence number of a slice in its program
  NoOrder     \* NULL broker_order_id

ASSUME ProgAssumption == Prog \in [Slices -> Programs]
ASSUME SeqAssumption == Sequence \in [Slices -> Nat]
ASSUME NoOrderAssumption == NoOrder \notin Nat
ASSUME SomeSliceAssumption == \A p \in Programs : \E s \in Slices : Prog[s] = p

VARIABLES
  pstate,     \* execution_programs.state
  sstate,     \* execution_program_slices.state
  sbroker     \* execution_program_slices.broker_order_id

journalVars == <<pstate, sstate, sbroker>>

ProgramStates == {"PLANNED", "ACTIVE", "COMPLETE", "FAILED", "CANCELLED"}
SliceStates == {"PENDING", "DISPATCHING", "FILLED_UNACCOUNTED", "EXECUTED",
                "FAILED", "CANCELLED"}

SlicesOf(p) == {s \in Slices : Prog[s] = p}

JournalInit ==
  /\ pstate = [p \in Programs |-> "ABSENT"]
  /\ sstate = [s \in Slices |-> "ABSENT"]
  /\ sbroker = [s \in Slices |-> NoOrder]

\* Defect: a claim that has not been filled does not count as unresolved.
RecoveryRequiredWhenFilled == \E s \in Slices : sstate[s] = "FILLED_UNACCOUNTED"

\* recovery_required: a slice of the account has an unresolved outcome.
RecoveryRequired ==
  \E s \in Slices : sstate[s] \in {"DISPATCHING", "FILLED_UNACCOUNTED"}

\* create: a new decision gets a PLANNED program with PENDING slices; a
\* repeated one gets the stored program back and writes nothing.
CreateProgram(p) ==
  /\ pstate[p] = "ABSENT"
  /\ pstate' = [pstate EXCEPT ![p] = "PLANNED"]
  /\ sstate' = [s \in Slices |-> IF Prog[s] = p THEN "PENDING" ELSE sstate[s]]
  /\ UNCHANGED sbroker

\* Defect: the claim only looks at the program.
ClaimableWhileActive(s) ==
  pstate[Prog[s]] \notin {"FAILED", "CANCELLED", "COMPLETE"}

\* The conditions under which claim_slice returns True.
Claimable(s) ==
  /\ pstate[Prog[s]] \notin {"FAILED", "CANCELLED", "COMPLETE"}
  /\ sstate[s] = "PENDING"
  /\ ~RecoveryRequired

\* Defect: the claim does not activate the program.
ClaimSliceOnly(s) ==
  /\ Claimable(s)
  /\ sstate' = [sstate EXCEPT ![s] = "DISPATCHING"]
  /\ UNCHANGED <<pstate, sbroker>>

\* claim_slice: the durable fence, written before the OMS or the broker.
ClaimSlice(s) ==
  /\ Claimable(s)
  /\ sstate' = [sstate EXCEPT ![s] = "DISPATCHING"]
  /\ pstate' = [pstate EXCEPT ![Prog[s]] = "ACTIVE"]
  /\ UNCHANGED sbroker

\* mark_filled_unaccounted: a repeat with the same identity writes nothing.
MarkFilledUnaccounted(s, b) ==
  \/ /\ sstate[s] \in {"FILLED_UNACCOUNTED", "EXECUTED"}
     /\ sbroker[s] = b
     /\ UNCHANGED journalVars
  \/ /\ sstate[s] \in {"PENDING", "DISPATCHING"}
     /\ sstate' = [sstate EXCEPT ![s] = "FILLED_UNACCOUNTED"]
     /\ sbroker' = [sbroker EXCEPT ![s] = b]
     /\ pstate' = [pstate EXCEPT ![Prog[s]] = "ACTIVE"]

\* Defect: one executed slice completes the program.
RefreshedByAny(p, ss) ==
  IF \E s \in SlicesOf(p) : ss[s] = "EXECUTED" THEN "COMPLETE" ELSE "ACTIVE"

\* _refresh_state: the program state that the slice states ss imply.
Refreshed(p, ss) ==
  LET states == {ss[s] : s \in SlicesOf(p)}
  IN IF "FAILED" \in states \/ pstate[p] = "FAILED" THEN "FAILED"
     ELSE IF "CANCELLED" \in states \/ pstate[p] = "CANCELLED"
          THEN "CANCELLED"
     ELSE IF states = {"EXECUTED"} THEN "COMPLETE"
     ELSE "ACTIVE"

\* mark_executed: only from FILLED_UNACCOUNTED and with the stored identity.
MarkExecuted(s, b) ==
  /\ sbroker[s] = b
  /\ \/ /\ sstate[s] = "EXECUTED"
        /\ UNCHANGED journalVars
     \/ /\ sstate[s] = "FILLED_UNACCOUNTED"
        /\ sstate' = [sstate EXCEPT ![s] = "EXECUTED"]
        /\ pstate' = [pstate EXCEPT ![Prog[s]] = Refreshed(Prog[s], sstate')]
        /\ UNCHANGED sbroker

\* mark_failed: one failed slice fails the whole program.
MarkFailed(s) ==
  /\ sstate[s] \in {"PENDING", "DISPATCHING"}
  /\ sstate' = [sstate EXCEPT ![s] = "FAILED"]
  /\ pstate' = [pstate EXCEPT ![Prog[s]] = "FAILED"]
  /\ UNCHANGED sbroker

\* SharedRiskReservations.cancel_unclaimed: the only cancellation, of a
\* program no slice of which was ever claimed.
CancelUnclaimed(p) ==
  /\ pstate[p] = "PLANNED"
  /\ \A s \in SlicesOf(p) : sstate[s] = "PENDING"
  /\ sstate' = [s \in Slices |-> IF Prog[s] = p THEN "CANCELLED" ELSE sstate[s]]
  /\ pstate' = [pstate EXCEPT ![p] = "CANCELLED"]
  /\ UNCHANGED sbroker

=============================================================================
