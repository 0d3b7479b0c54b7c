---------------------------- MODULE PaperRecovery ----------------------------
(***************************************************************************)
(* The direct paper path and its recovery: MultiAgentRuntime               *)
(* ._dispatch_approved (swarm_runtime.py) commits in two databases, the    *)
(* OMS and the paper ledger, one transaction after the other; a crash or a *)
(* lost answer between them is repaired by PaperOmsRecovery                *)
(* (orders/paper_recovery.py) after a review, and a recovery bundle        *)
(* (operations/recovery_bundle.py, oms_recovery.py) copies both files.     *)
(*                                                                         *)
(* The ledger keeps one receipt per decision; the order id, quantity and   *)
(* price of a fill are functions of the decision and are left out, as are  *)
(* the tenant, instrument and release checks of a review and the fills of  *)
(* protective exits, which have an outbox of their own.  The hash of an    *)
(* order's last OMS event is the number of its events.                     *)
(***************************************************************************)
EXTENDS Integers, FiniteSets, OrderLifecycle

CONSTANTS Decisions

VARIABLES
  calls,     \* per decision, the next step of a dispatch under way
  halted,    \* the durable kill switch
  receipts,  \* ledger fills that carry a decision's submission receipt
  rows,      \* OMS row of each decision
  audits,    \* oms_paper_recoveries
  reviewed,  \* plans an operator has inspected
  bundle     \* the copies a bundle under construction has made so far

recoveryVars ==
  <<calls, halted, receipts, rows, audits, reviewed, bundle>>

NoRow == [state |-> "ABSENT", head |-> 0, filled |-> FALSE, marked |-> FALSE]
NoBundle == [stage |-> 0, ledger |-> {}, ledgerCopy |-> {}, oms |-> << >>,
             omsCopy |-> << >>, result |-> "none"]

RecoveryInit ==
  /\ calls = [d \in Decisions |-> "idle"]
  /\ halted = FALSE
  /\ receipts = {}
  /\ rows = [d \in Decisions |-> NoRow]
  /\ audits = {}
  /\ reviewed = {}
  /\ bundle = NoBundle

-----------------------------------------------------------------------------
(* _dispatch_approved: one transaction per step.                           *)

Step(d, at, next) == calls[d] = at /\ calls' = [calls EXCEPT ![d] = next]

Moved(row, state) ==
  [row EXCEPT !.state = state, !.head = @ + 1]

\* oms.create: a decision that got further is refused as a duplicate.
Create(d) ==
  /\ ~halted
  /\ \/ /\ rows[d].state \in {"ABSENT", "CREATED"}
        /\ Step(d, "idle", "approve")
        /\ rows' = [rows EXCEPT ![d] = IF @.state = "ABSENT"
                                       THEN Moved(@, "CREATED") ELSE @]
     \/ /\ rows[d].state \notin {"ABSENT", "CREATED"}
        /\ calls[d] = "idle"
        /\ UNCHANGED <<calls, rows>>
  /\ UNCHANGED <<halted, receipts, audits, reviewed, bundle>>

OmsStep(d, at, target, next) ==
  /\ Step(d, at, next)
  /\ Allowed(rows[d].state, target)
  /\ rows' = [rows EXCEPT ![d] = Moved(@, target)]
  /\ UNCHANGED <<halted, receipts, audits, reviewed, bundle>>

Approve(d) == OmsStep(d, "approve", "RISK_APPROVED", "mark")

\* Defect: the OMS learns of the submission from its answer.
MarkedLater(d) ==
  /\ Step(d, "mark", "broker")
  /\ UNCHANGED <<halted, receipts, rows, audits, reviewed, bundle>>

\* oms.submitted, before the broker is called.
Marked(d) == OmsStep(d, "mark", "SUBMITTED", "broker")

\* submit_with_evidence commits the fill with its receipt and answers, or
\* raises before the commit (a locked database, a refusal, the key already
\* used) or after it.
Broker(d) ==
  /\ \/ /\ d \notin receipts
        /\ receipts' = receipts \cup {d}
        /\ \E next \in {"mirror", "uncertain"} : Step(d, "broker", next)
     \/ /\ UNCHANGED receipts
        /\ Step(d, "broker", "uncertain")
  /\ UNCHANGED <<halted, rows, audits, reviewed, bundle>>

Uncertain(d) == OmsStep(d, "uncertain", "SUBMISSION_UNCERTAIN", "idle")

\* oms.fill of the row: the same fill again changes nothing.
Mirrored(row, marker) ==
  IF row.filled THEN row
  ELSE [Moved(row, "FILLED") EXCEPT !.filled = TRUE, !.marked = marker]

Mirror(d) ==
  /\ Step(d, "mirror", "idle")
  /\ rows[d].filled \/ Allowed(rows[d].state, "FILLED")
  /\ rows' = [rows EXCEPT ![d] = Mirrored(@, FALSE)]
  /\ UNCHANGED <<halted, receipts, audits, reviewed, bundle>>

\* A call whose OMS move the table refuses ends with the exception.
Refused(d) ==
  /\ calls[d] = "uncertain"
  /\ ~Allowed(rows[d].state, "SUBMISSION_UNCERTAIN")
  /\ calls' = [calls EXCEPT ![d] = "idle"]
  /\ UNCHANGED <<halted, receipts, rows, audits, reviewed, bundle>>

Crash ==
  /\ \E d \in Decisions : calls[d] # "idle"
  /\ calls' = [d \in Decisions |-> "idle"]
  /\ UNCHANGED <<halted, receipts, rows, audits, reviewed, bundle>>

\* The durable halt, and the named override that lifts it.
Switch ==
  /\ halted' = ~halted
  /\ UNCHANGED <<calls, receipts, rows, audits, reviewed, bundle>>

-----------------------------------------------------------------------------
(* PaperOmsRecovery.                                                       *)

AuditOf(d) == {a \in audits : a.order = d}

\* The recorded recovery and the marked fill prove each other.
AuditHolds(d) ==
  IF AuditOf(d) = {} THEN ~rows[d].marked
  ELSE rows[d].marked /\ \A a \in AuditOf(d) : a.after = rows[d].head

Inspect(d) ==
  IF d \notin receipts THEN "BLOCKED"
  ELSE IF rows[d].state = "FILLED"
       THEN IF AuditHolds(d) THEN "MATCHED" ELSE "BLOCKED"
  ELSE IF rows[d].state \in {"SUBMITTED", "SUBMISSION_UNCERTAIN"}
       THEN IF AuditHolds(d) /\ AuditOf(d) = {} THEN "READY" ELSE "BLOCKED"
  ELSE "BLOCKED"

\* What the reviewed hash covers: the order at its OMS head and state.
Plan(d) == [order |-> d, head |-> rows[d].head, state |-> rows[d].state]

Review(d) ==
  /\ Inspect(d) # "BLOCKED"
  /\ reviewed' = reviewed \cup {Plan(d)}
  /\ UNCHANGED <<calls, halted, receipts, rows, audits, bundle>>

\* recover: under the durable halt, the reviewed plan exactly; the fill, its
\* marker and the record are one transaction.  A repeat, or a fill that the
\* dispatch mirrored meanwhile, writes nothing.
Recover(p) ==
  LET d == p.order
  IN /\ halted
     /\ Inspect(d) # "BLOCKED"
     /\ \/ /\ \E a \in AuditOf(d) : a.plan = p
           /\ UNCHANGED <<rows, audits>>
        \/ /\ AuditOf(d) = {}
           /\ Plan(d) = p
           /\ IF Inspect(d) = "MATCHED" THEN UNCHANGED <<rows, audits>>
              ELSE LET after == Mirrored(rows[d], TRUE)
                   IN /\ rows' = [rows EXCEPT ![d] = after]
                      /\ audits' = audits \cup
                            {[order |-> d, plan |-> p, after |-> after.head]}
     /\ UNCHANGED <<calls, halted, receipts, reviewed, bundle>>

-----------------------------------------------------------------------------
(* recovery_bundle.create, and the verdict restore reproduces.             *)

\* oms_recovery.inspect on a captured pair.
Captured(ledger, oms) ==
  LET pending   == {d \in Decisions : oms[d].state \notin Terminal \cup {"ABSENT"}}
      mirrored  == {d \in Decisions : oms[d].filled}
  IN IF pending = {} /\ ledger = mirrored
     THEN "captured_state_verified" ELSE "discrepancy"

\* Defect: the second inventory is not compared with the first.
Unexamined(before, after) == TRUE

Same(before, after) == before = after

\* The inventory reads the ledger and then the OMS, the copies too, and the
\* second inventory again; writers were only declared to be stopped.
BundleStep ==
  /\ bundle.stage < 6
  /\ bundle' =
       CASE bundle.stage = 0 -> [bundle EXCEPT !.stage = 1, !.ledger = receipts]
         [] bundle.stage = 1 -> [bundle EXCEPT !.stage = 2, !.oms = rows]
         [] bundle.stage = 2 -> [bundle EXCEPT !.stage = 3, !.ledgerCopy = receipts]
         [] bundle.stage = 3 -> [bundle EXCEPT !.stage = 4, !.omsCopy = rows]
         [] bundle.stage = 4 -> IF Same(bundle.ledger, receipts)
                                THEN [bundle EXCEPT !.stage = 5] ELSE NoBundle
         [] bundle.stage = 5 ->
              IF Same(bundle.oms, rows)
              THEN [bundle EXCEPT !.stage = 6,
                      !.result = Captured(bundle.ledgerCopy, bundle.omsCopy)]
              ELSE NoBundle
  /\ UNCHANGED <<calls, halted, receipts, rows, audits, reviewed>>

RecoveryNext ==
  \/ \E d \in Decisions :
       \/ Create(d) \/ Approve(d) \/ Marked(d) \/ Broker(d)
       \/ Uncertain(d) \/ Mirror(d) \/ Refused(d) \/ Review(d)
  \/ \E p \in reviewed : Recover(p)
  \/ Crash \/ Switch \/ BundleStep

RecoverySpec == RecoveryInit /\ [][RecoveryNext]_recoveryVars

-----------------------------------------------------------------------------
(* Properties.                                                             *)

\* No crash, lost answer or race with the dispatch itself leaves a committed
\* fill that the reviewed recovery would refuse, nor a recovered order whose
\* audit no longer matches the journal.
FillRecoverable == \A d \in receipts : Inspect(d) \in {"READY", "MATCHED"}

\* A bundle never certifies a torn pair: its OMS copy has no fill that its
\* ledger copy lacks and knows of the submission of every ledger fill, which
\* holds of the two files at any single moment.
BundleNotTorn ==
  bundle.stage = 6 =>
    \A d \in Decisions :
      /\ bundle.omsCopy[d].filled => d \in bundle.ledgerCopy
      /\ d \in bundle.ledgerCopy =>
           bundle.omsCopy[d].state \in
             {"SUBMITTED", "SUBMISSION_UNCERTAIN", "FILLED"}
=============================================================================
