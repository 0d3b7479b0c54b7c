----------------------------- MODULE SharedRisk -----------------------------
(***************************************************************************)
(* One loss budget shared by the entry programs of a paper account.        *)
(*                                                                         *)
(* A reservation and its program commit together in the program journal;   *)
(* just before that commit the broker ledger, a second database, commits   *)
(* its own pin and an admission witness.  The journal may die in between,  *)
(* or be restored from an older backup: the ledger then knows more than    *)
(* the journal, and every new entry has to be held.                        *)
(*                                                                         *)
(* All programs are entries (BUY) of one instrument, a slice is one share. *)
(* Which share a sale closed is not recorded anywhere: "sold" is the truth *)
(* the code cannot see.  Money is in whole units of loss per share.        *)
(***************************************************************************)
EXTENDS ProgramJournal, FiniteSums

CONSTANTS
  PerUnit,    \* modelled loss of one share of a program
  Budget,     \* equity * max_loss_fraction
  Policies,   \* policies an operator may configure
  NoPolicy,   \* no row in shared_risk_accounts, no pin
  MaxFaults   \* lost journal commits, restores and process restarts

ASSUME SlicesAssumption == IsFiniteSet(Slices)
ASSUME PerUnitAssumption == PerUnit \in [Programs -> Nat \ {0}]
ASSUME BudgetAssumption == Budget \in Nat /\ MaxFaults \in Nat

VARIABLES
  account,    \* journal: the policy bound in shared_risk_accounts
  reserved,   \* journal: programs with a reservation row
  released,   \* journal: programs with a release row
  pin,        \* ledger: the policy of the immutable broker binding
  witness,    \* ledger: programs with an admission witness
  fills,      \* ledger: slices with a committed BUY
  sold,       \* the shares that independent exits have closed
  policy,     \* the policy the running coordinator is configured with
  checked,    \* claimed slices whose executor has passed the capacity check
  backup,     \* one offline copy of the journal, <<>> until it is taken
  faults

journalState == <<pstate, sstate, sbroker, account, reserved, released>>
ledgerState == <<pin, witness, fills, sold>>
vars == <<journalState, ledgerState, policy, checked, backup, faults>>

SliceCount(p) == Cardinality(SlicesOf(p))
Amount(p) == PerUnit[p] * SliceCount(p)
LossOf(S) == SumOf([s \in Slices |-> PerUnit[Prog[s]]], S)

Init ==
  /\ JournalInit
  /\ account = NoPolicy /\ reserved = {} /\ released = {}
  /\ pin = NoPolicy /\ witness = {} /\ fills = {} /\ sold = {}
  /\ policy \in Policies
  /\ checked = {}
  /\ backup = <<>>
  /\ faults = 0
-----------------------------------------------------------------------------
(* What the coordinator and the broker verify before they trust the pair.  *)

\* verify_shared_risk: entries and reservations are the same programs, and a
\* released one was cancelled before any slice of it was claimed.
Consistent ==
  /\ account # NoPolicy
  /\ {p \in Programs : pstate[p] # "ABSENT"} = reserved
  /\ \A p \in released :
       /\ p \in reserved
       /\ pstate[p] = "CANCELLED"
       /\ \A s \in SlicesOf(p) : sstate[s] = "CANCELLED" /\ sbroker[s] = NoOrder

\* verify_committed_entry_coverage: each committed entry is claimed by a slice.
EntriesCovered ==
  \A s \in fills :
    /\ pstate[Prog[s]] \in {"ACTIVE", "COMPLETE", "FAILED"}
    /\ sstate[s] \in {"DISPATCHING", "FILLED_UNACCOUNTED", "EXECUTED"}
    /\ sbroker[s] = IF sstate[s] = "DISPATCHING" THEN NoOrder ELSE s

\* Defect: only reservations without a witness are looked for.
AdmissionsWitnessed(res) == res \subseteq witness /\ res # {}

\* verify_admissions: the two inventories agree; res is the journal's.
AdmissionsMatch(res) == witness = res /\ res # {}

PairVerifies ==
  /\ pin # NoPolicy
  /\ Consistent
  /\ pin = account
  /\ EntriesCovered
  /\ AdmissionsMatch(reserved)
-----------------------------------------------------------------------------
(* The charge that counts against the budget.                              *)

RawReserved == SumOf([p \in Programs |-> Amount(p)], reserved \ released)

\* Defect: a claim without a receipt is taken for one that never traded.
UnclaimedShares ==
  {s \in Slices : Prog[s] \in reserved \ released /\ s \notin fills /\ sstate[s] = "PENDING"}

\* Shares that may still be bought: DISPATCHING without a receipt is uncertain.
PendingShares ==
  {s \in Slices : /\ Prog[s] \in reserved \ released /\ s \notin fills
                  /\ sstate[s] \in {"PENDING", "DISPATCHING"}}

Position == Cardinality(fills) - Cardinality(sold)

\* Defect: the cheapest shares are assumed to be the ones still open.
CheaperFirst(t, s) ==
  \/ PerUnit[Prog[t]] < PerUnit[Prog[s]]
  \/ PerUnit[Prog[t]] = PerUnit[Prog[s]] /\ t # s /\ Sequence[t] < Sequence[s]

\* sorted(candidates, reverse=True): t is charged before s.
ChargedFirst(t, s) ==
  \/ PerUnit[Prog[t]] > PerUnit[Prog[s]]
  \/ PerUnit[Prog[t]] = PerUnit[Prog[s]] /\ t # s /\ Sequence[t] < Sequence[s]

\* Open shares are charged at the highest reservations first.
OpenRisk ==
  LossOf({s \in fills : Cardinality({t \in fills : ChargedFirst(t, s)}) < Position})

EffectiveReserved == LossOf(PendingShares) + OpenRisk

\* _capacity against the derived charge (raw while the broker is not pinned).
FitsBudget(existing, amount) == existing + amount <= Budget
-----------------------------------------------------------------------------
(* Preparation: journal transaction open, ledger commits first.            *)

\* bind: an unselected account must be empty, a selected one unchanged.
Binds ==
  \/ account = NoPolicy /\ reserved = {} /\ fills = {}
     /\ \A p \in Programs : pstate[p] = "ABSENT"
  \/ account = policy

\* pin_account on the ledger: an existing pin must verify with the pending
\* program as the only one without a witness; a new pin needs a new account.
Pins(p) ==
  \/ /\ pin # NoPolicy
     /\ PairVerifies
     /\ pin = policy
  \/ /\ pin = NoPolicy /\ account = NoPolicy
     /\ fills = {} /\ witness = {}

\* The conditions of a first preparation of p, inside both transactions.
Admissible(p) ==
  /\ pstate[p] = "ABSENT"
  /\ Binds
  /\ Pins(p)
  /\ FitsBudget(IF pin = NoPolicy THEN RawReserved ELSE EffectiveReserved, Amount(p))

WitnessCommits(p) ==
  /\ pin' = policy
  /\ witness' = witness \cup {p}
  /\ UNCHANGED <<fills, sold>>

Prepare(p) ==
  /\ Admissible(p)
  /\ WitnessCommits(p)
  /\ CreateProgram(p)
  /\ account' = policy
  /\ reserved' = reserved \cup {p}
  /\ UNCHANGED <<released, policy, checked, backup, faults>>

\* The broker committed, the journal transaction did not.
PrepareLost(p) ==
  /\ faults < MaxFaults
  /\ Admissible(p)
  /\ WitnessCommits(p)
  /\ faults' = faults + 1
  /\ UNCHANGED <<journalState, policy, checked, backup>>
-----------------------------------------------------------------------------
(* Execution of one slice, as execute_due does it.                         *)

Claim(s) ==
  /\ pin # NoPolicy
  /\ ClaimSlice(s)
  /\ UNCHANGED <<account, reserved, released, ledgerState, policy, checked, backup, faults>>

\* _shared_risk_issue, within one journal transaction.
CapacityHolds(s) ==
  /\ PairVerifies
  /\ policy = account
  /\ Prog[s] \in reserved
  /\ FitsBudget(EffectiveReserved, 0)

Check(s) ==
  /\ sstate[s] = "DISPATCHING" /\ s \notin checked
  /\ CapacityHolds(s)
  /\ checked' = checked \cup {s}
  /\ UNCHANGED <<journalState, ledgerState, policy, backup, faults>>

\* The capacity check or any later check of the slice failed.
CheckFails(s) ==
  /\ sstate[s] = "DISPATCHING" /\ s \notin fills
  /\ MarkFailed(s)
  /\ checked' = checked \ {s}
  /\ UNCHANGED <<account, reserved, released, ledgerState, policy, backup, faults>>

\* assert_bound_entry: the ledger transaction reads the journal again.
BoundEntry(s) ==
  /\ PairVerifies
  /\ pstate[Prog[s]] = "ACTIVE"
  /\ sstate[s] = "DISPATCHING" /\ sbroker[s] = NoOrder
  /\ \A t \in Slices \ {s} : sstate[t] \notin {"DISPATCHING", "FILLED_UNACCOUNTED"}

SubmitEntry(s) ==
  /\ s \in checked
  /\ BoundEntry(s)
  /\ s \notin fills
  /\ fills' = fills \cup {s}
  /\ checked' = checked \ {s}
  /\ UNCHANGED <<journalState, pin, witness, sold, policy, backup, faults>>

\* The receipt is recorded by the executor or by a later reconciliation.
Adopt(s) ==
  /\ s \in fills
  /\ sstate[s] = "DISPATCHING"
  /\ MarkFilledUnaccounted(s, s)
  /\ UNCHANGED <<account, reserved, released, ledgerState, policy, checked, backup, faults>>

Account(s) ==
  /\ sstate[s] = "FILLED_UNACCOUNTED"
  /\ MarkExecuted(s, s)
  /\ UNCHANGED <<account, reserved, released, ledgerState, policy, checked, backup, faults>>

\* cancel_unclaimed: program, slices and release row in one transaction.
Release(p) ==
  /\ Consistent
  /\ p \in reserved \ released
  /\ CancelUnclaimed(p)
  /\ released' = released \cup {p}
  /\ UNCHANGED <<account, reserved, ledgerState, policy, checked, backup, faults>>
-----------------------------------------------------------------------------
(* Independent exits never read the journal.                               *)
Sell(s) ==
  /\ s \in fills \ sold
  /\ sold' = sold \cup {s}
  /\ UNCHANGED <<journalState, pin, witness, fills, policy, checked, backup, faults>>

\* A restart, possibly with another policy configured.
Restart(new) ==
  /\ faults < MaxFaults
  /\ new # policy
  /\ policy' = new
  /\ checked' = {}
  /\ faults' = faults + 1
  /\ UNCHANGED <<journalState, ledgerState, backup>>

Backup ==
  /\ backup = <<>>
  /\ reserved # {}
  /\ backup' = journalState
  /\ UNCHANGED <<journalState, ledgerState, policy, checked, faults>>

Restore ==
  /\ faults < MaxFaults
  /\ backup \notin {<<>>, journalState}
  /\ pstate' = backup[1] /\ sstate' = backup[2] /\ sbroker' = backup[3]
  /\ account' = backup[4] /\ reserved' = backup[5] /\ released' = backup[6]
  /\ checked' = {}
  /\ faults' = faults + 1
  /\ UNCHANGED <<ledgerState, policy, backup>>

Next ==
  \/ \E p \in Programs : Prepare(p) \/ PrepareLost(p) \/ Release(p)
  \/ \E s \in Slices : \/ Claim(s) \/ Check(s) \/ CheckFails(s) \/ SubmitEntry(s)
                       \/ Adopt(s) \/ Account(s) \/ Sell(s)
  \/ \E new \in Policies : Restart(new)
  \/ Backup
  \/ Restore

Spec == Init /\ [][Next]_vars
-----------------------------------------------------------------------------
LossWithinBudget == LossOf(fills \ sold) <= Budget
ChargeCoversExposure == PairVerifies => OpenRisk >= LossOf(fills \ sold)

\* The shares that are open right now never risk more than the account's budget,
\* whichever lots the exits closed and however often the journal was lost or restored
\* between an admission and its fills; and whenever the two databases verify, the derived
\* charge is at least what those shares can lose (shared_risk.py reserve,
\* shared_risk_binding.py position_linked_capacity).
BudgetHolds == LossWithinBudget /\ ChargeCoversExposure

\* Once the ledger witnesses a program that the journal has lost, nothing is
\* admitted and nothing is bought: no retry forges the missing history.
LostHistoryHolds ==
  [][witness \notin SUBSET reserved => fills' = fills /\ witness' = witness]_vars
=============================================================================
