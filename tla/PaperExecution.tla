--------------------------- MODULE PaperExecution ---------------------------
(***************************************************************************)
(* Paper execution across four stores: InstitutionalPaperCoordinator of    *)
(* src/src/quant_ai/execution/institutional.py driving the program journal *)
(* (ProgramJournal.tla), the OMS, the paper broker ledger and the          *)
(* accounting journal.                                                     *)
(*                                                                         *)
(* No transaction spans two stores.  Each commit is one step, and between  *)
(* any two steps the process may die, raise or be overtaken by another     *)
(* coordinator of the same account (execute_due and reconcile_accounting   *)
(* of several processes share the stores).  A coordinator's stack is its   *)
(* program counter, the program and slice it works on, the slices left in  *)
(* the list it loaded, and the ledger length its accounting mirror read.   *)
(*                                                                         *)
(* The OMS is the projection of DurableOms.tla for the child orders of     *)
(* slices: one order per slice, filled whole by the paper broker.  The     *)
(* paper ledger is the sequence of committed fills of the account; a       *)
(* position in it stands for the broker order id.  Reads that only confirm *)
(* write-once facts (payload hashes, intents, prices, cost basis) are left *)
(* out.  In-memory request context is rebuilt from the journal before a    *)
(* call, so a restart and an exception leave the same state behind.        *)
(***************************************************************************)
EXTENDS ProgramJournal, Sequences, OrderLifecycle

CONSTANTS
  Coordinators,   \* processes (or threads) running the coordinator
  Exit,           \* ledger entry of an independent protective exit
  MaxFaults,      \* bound: exceptions, refusals and crashes
  MaxExits        \* bound: protective exits

ASSUME ExitAssumption == Exit \notin Slices
ASSUME BoundsAssumption == MaxFaults \in Nat /\ MaxExits \in Nat

VARIABLES
  oms,       \* state of the OMS order of each slice
  obroker,   \* its broker_order_id
  ledger,    \* paper_ledger: committed fills in commit order
  posted,    \* ledger positions with postings in the accounting journal
  pc, run, cur, todo, snap,   \* per coordinator: its stack
  faults     \* number of faults so far

omsVars == <<oms, obroker>>
stack == <<pc, run, cur, todo, snap>>
vars == <<journalVars, omsVars, ledger, posted, stack, faults>>

ExecuteSteps == {"due", "loop", "protect", "claim", "checks", "create", "approve",
                 "submitting", "submit", "receipt", "mark", "post", "finish"}
ReconcileSteps == {"scan", "refill", "readopt", "account", "settle", "mirror"}

Init ==
  /\ JournalInit
  /\ oms = [s \in Slices |-> "NONE"]
  /\ obroker = [s \in Slices |-> NoOrder]
  /\ ledger = << >>
  /\ posted = {}
  /\ pc = [c \in Coordinators |-> "idle"]
  /\ run = [c \in Coordinators |-> "none"]
  /\ cur = [c \in Coordinators |-> "none"]
  /\ todo = [c \in Coordinators |-> {}]
  /\ snap = [c \in Coordinators |-> 0]
  /\ faults = 0

-----------------------------------------------------------------------------
(* What the coordinator reads.                                             *)

\* submission_receipt: the committed fill with the slice's submission key.
IsReceipt(s, i) == i \in 1..Len(ledger) /\ ledger[i] = s
Filled(s) == \E i \in 1..Len(ledger) : ledger[i] = s

\* Slices are visited in sequence order.
IsFirst(s, S) == s \in S /\ \A t \in S : Sequence[s] <= Sequence[t]

ExitsUpTo(n) == {i \in 1..n : ledger[i] = Exit}
StrategyUpTo(n) == {i \in 1..n : ledger[i] # Exit}

Goto(c, label) == pc' = [pc EXCEPT ![c] = label]

\* The call returns or raises: its frame is gone.
Return(c) ==
  /\ Goto(c, "idle")
  /\ run' = [run EXCEPT ![c] = "none"]
  /\ cur' = [cur EXCEPT ![c] = "none"]
  /\ todo' = [todo EXCEPT ![c] = {}]
  /\ snap' = [snap EXCEPT ![c] = 0]

-----------------------------------------------------------------------------
(* The OMS calls of one child order.                                       *)

OmsMove(s, target) ==
  /\ Allowed(oms[s], target)
  /\ oms' = [oms EXCEPT ![s] = target]
  /\ UNCHANGED obroker

\* fill: the whole child; a repeat of the recorded fill writes nothing.
OmsFill(s, i) ==
  \/ /\ oms[s] = "FILLED"
     /\ obroker[s] = i
     /\ UNCHANGED omsVars
  \/ /\ oms[s] \in {"SUBMITTED", "SUBMISSION_UNCERTAIN"}
     /\ obroker[s] \in {NoOrder, i}
     /\ oms' = [oms EXCEPT ![s] = "FILLED"]
     /\ obroker' = [obroker EXCEPT ![s] = i]

-----------------------------------------------------------------------------
(* Accounts and faults.                                                    *)

\* prepare: the approved decision becomes a program.  Every refusal before
\* the journal transaction changes nothing.
Prepare(p) ==
  /\ CreateProgram(p)
  /\ UNCHANGED <<omsVars, ledger, posted, stack, faults>>

Cancel(p) ==
  /\ CancelUnclaimed(p)
  /\ UNCHANGED <<omsVars, ledger, posted, stack, faults>>

\* An independent protective exit commits in the paper ledger only.  It closes
\* a whole position, which some fill since the position's last exit opened.
ProtectiveExit ==
  /\ Cardinality(ExitsUpTo(Len(ledger)))
       < Cardinality(StrategyUpTo(Len(ledger)))
  /\ Cardinality(ExitsUpTo(Len(ledger))) < MaxExits
  /\ ledger' = Append(ledger, Exit)
  /\ UNCHANGED <<journalVars, omsVars, posted, stack, faults>>

\* The process dies, a call raises, or execute_due returns early (policy
\* issue, veto under the broker lock, refused or locked submission, failed
\* posting): what is committed stays, the rest of the call never happens.
Fault(c) ==
  /\ pc[c] # "idle"
  /\ faults < MaxFaults
  /\ faults' = faults + 1
  /\ Return(c)
  /\ UNCHANGED <<journalVars, omsVars, ledger, posted>>

-----------------------------------------------------------------------------
(* ProtectiveExitAccounting.reconcile: mirror committed exits.             *)

\* The ledger snapshot it works from.
ReadLedger(c) == snap' = [snap EXCEPT ![c] = Len(ledger)]

\* No exit in the snapshot: nothing to mirror.
MirrorNotRequired(c) ==
  /\ ExitsUpTo(snap[c]) = {}
  /\ UNCHANGED posted

\* Defect: exits are mirrored without looking at the fills before them.
MirrorPostsAlways(c) ==
  /\ ExitsUpTo(snap[c]) # {}
  /\ posted' = posted \cup ExitsUpTo(snap[c])

\* Every strategy fill of the snapshot must be posted already, and nothing
\* newer; then the exits are posted in one accounting transaction.
MirrorPosts(c) ==
  /\ ExitsUpTo(snap[c]) # {}
  /\ StrategyUpTo(snap[c]) \subseteq posted
  /\ posted \subseteq 1..snap[c]
  /\ posted' = posted \cup ExitsUpTo(snap[c])

MirrorUnavailable(c) ==
  /\ ExitsUpTo(snap[c]) # {}
  /\ ~(StrategyUpTo(snap[c]) \subseteq posted /\ posted \subseteq 1..snap[c])
  /\ UNCHANGED posted

\* The report is matched only if the ledger has not advanced meanwhile.
MirrorMatched(c) ==
  MirrorNotRequired(c) \/ (MirrorPosts(c) /\ Len(ledger) = snap[c])

MirrorUnmatched(c) ==
  MirrorUnavailable(c) \/ (MirrorPosts(c) /\ Len(ledger) # snap[c])

-----------------------------------------------------------------------------
(* execute_due.                                                            *)

\* Entry: refused while the program has failed or was cancelled, or any outcome
\* of the account is unresolved.
ExecuteDue(c, p) ==
  /\ pc[c] = "idle"
  /\ pstate[p] \notin {"ABSENT", "FAILED", "CANCELLED"}
  /\ ~RecoveryRequired
  /\ run' = [run EXCEPT ![c] = p]
  /\ Goto(c, "due")
  /\ UNCHANGED <<journalVars, omsVars, ledger, posted, cur, todo, snap, faults>>

\* The due slices, a prefix of the schedule, are read once, after the entry
\* checks and before any of them is claimed.
ReadDue(c) ==
  /\ pc[c] = "due"
  /\ \E n \in {0} \cup {Sequence[s] : s \in SlicesOf(run[c])} :
       todo' = [todo EXCEPT ![c] =
                  {s \in SlicesOf(run[c]) :
                     /\ pstate[run[c]] \in {"PLANNED", "ACTIVE"}
                     /\ sstate[s] = "PENDING"
                     /\ Sequence[s] <= n}]
  /\ Goto(c, "loop")
  /\ UNCHANGED <<journalVars, omsVars, ledger, posted, run, cur, snap, faults>>

\* Next due slice: the accounting mirror runs before the claim.
NextDue(c) ==
  /\ pc[c] = "loop"
  /\ \E s \in todo[c] :
       /\ IsFirst(s, todo[c])
       /\ cur' = [cur EXCEPT ![c] = s]
       /\ todo' = [todo EXCEPT ![c] = @ \ {s}]
  /\ ReadLedger(c)
  /\ Goto(c, "protect")
  /\ UNCHANGED <<journalVars, omsVars, ledger, posted, run, faults>>

DueDone(c) ==
  /\ pc[c] = "loop"
  /\ todo[c] = {}
  /\ Return(c)
  /\ UNCHANGED <<journalVars, omsVars, ledger, posted, faults>>

MirrorBeforeClaim(c) ==
  /\ pc[c] = "protect"
  /\ \/ /\ MirrorMatched(c)
        /\ Goto(c, "claim")
        /\ snap' = [snap EXCEPT ![c] = 0]
        /\ UNCHANGED <<run, cur, todo>>
     \/ MirrorUnmatched(c) /\ Return(c)
  /\ UNCHANGED <<journalVars, omsVars, ledger, faults>>

Claim(c) ==
  /\ pc[c] = "claim"
  /\ ClaimSlice(cur[c])
  /\ Goto(c, "checks")
  /\ UNCHANGED <<omsVars, ledger, posted, run, cur, todo, snap, faults>>

\* claim_slice returned False: somebody else has it, or must be resolved.
ClaimRefused(c) ==
  /\ pc[c] = "claim"
  /\ ~Claimable(cur[c])
  /\ Return(c)
  /\ UNCHANGED <<journalVars, omsVars, ledger, posted, faults>>

\* Shared risk, edge, allocation, liquidity, factor and warden checks on
\* fresh inputs; each refusal is mark_failed and return.
ChecksPass(c) ==
  /\ pc[c] = "checks"
  /\ Goto(c, "create")
  /\ UNCHANGED <<journalVars, omsVars, ledger, posted, run, cur, todo, snap,
                 faults>>

ChecksFail(c) ==
  /\ pc[c] = "checks"
  /\ MarkFailed(cur[c])
  /\ Return(c)
  /\ UNCHANGED <<omsVars, ledger, posted, faults>>

\* oms.create is idempotent, but only an order still CREATED is dispatched:
\* any other ends the call, which is a Fault.
OmsCreate(c) ==
  /\ pc[c] = "create"
  /\ oms[cur[c]] \in {"NONE", "CREATED"}
  /\ oms' = [oms EXCEPT ![cur[c]] = "CREATED"]
  /\ Goto(c, "approve")
  /\ UNCHANGED <<journalVars, obroker, ledger, posted, run, cur, todo, snap,
                 faults>>

OmsApprove(c) ==
  /\ pc[c] = "approve"
  /\ OmsMove(cur[c], "RISK_APPROVED")
  /\ Goto(c, "submitting")
  /\ UNCHANGED <<journalVars, ledger, posted, run, cur, todo, snap, faults>>

OmsSubmitted(c) ==
  /\ pc[c] = "submitting"
  /\ OmsMove(cur[c], "SUBMITTED")
  /\ Goto(c, "submit")
  /\ UNCHANGED <<journalVars, ledger, posted, run, cur, todo, snap, faults>>

\* submit_with_evidence: fill, evidence and submission key in one ledger
\* transaction; a known key raises duplicate_order.  The call may also raise
\* after its commit, which costs a fault.
BrokerSubmit(c) ==
  /\ pc[c] = "submit"
  /\ ~Filled(cur[c])
  /\ ledger' = Append(ledger, cur[c])
  /\ \/ /\ Goto(c, "receipt")
        /\ UNCHANGED <<run, cur, todo, snap, faults>>
     \/ /\ Return(c)
        /\ faults < MaxFaults
        /\ faults' = faults + 1
  /\ UNCHANGED <<journalVars, omsVars, posted>>

\* Defect: the fill is posted before the journal records it.
OmsFilledThenPost(c) ==
  /\ pc[c] = "receipt"
  /\ \E i \in 1..Len(ledger) : IsReceipt(cur[c], i) /\ OmsFill(cur[c], i)
  /\ Goto(c, "post")
  /\ UNCHANGED <<journalVars, ledger, posted, run, cur, todo, snap, faults>>

OmsFilled(c) ==
  /\ pc[c] = "receipt"
  /\ \E i \in 1..Len(ledger) : IsReceipt(cur[c], i) /\ OmsFill(cur[c], i)
  /\ Goto(c, "mark")
  /\ UNCHANGED <<journalVars, ledger, posted, run, cur, todo, snap, faults>>

\* Defect: the posting is skipped.
MarkThenFinish(c) ==
  /\ pc[c] = "mark"
  /\ \E i \in 1..Len(ledger) :
       IsReceipt(cur[c], i) /\ MarkFilledUnaccounted(cur[c], i)
  /\ Goto(c, "finish")
  /\ UNCHANGED <<omsVars, ledger, posted, run, cur, todo, snap, faults>>

Mark(c) ==
  /\ pc[c] = "mark"
  /\ \E i \in 1..Len(ledger) :
       IsReceipt(cur[c], i) /\ MarkFilledUnaccounted(cur[c], i)
  /\ Goto(c, "post")
  /\ UNCHANGED <<omsVars, ledger, posted, run, cur, todo, snap, faults>>

\* Defect: the posting is keyed by the next ledger position.
PostAccountingNext(s) == posted' = posted \cup {Len(ledger) + 1}

\* _post_accounting: one atomic transaction of idempotent postings.
PostAccounting(s) ==
  \E i \in 1..Len(ledger) : IsReceipt(s, i) /\ posted' = posted \cup {i}

Post(c) ==
  /\ pc[c] = "post"
  /\ PostAccounting(cur[c])
  /\ Goto(c, "finish")
  /\ UNCHANGED <<journalVars, omsVars, ledger, run, cur, todo, snap, faults>>

Finish(c) ==
  /\ pc[c] = "finish"
  /\ \E i \in 1..Len(ledger) :
       IsReceipt(cur[c], i) /\ MarkExecuted(cur[c], i)
  /\ Goto(c, "loop")
  /\ UNCHANGED <<omsVars, ledger, posted, run, cur, todo, snap, faults>>

-----------------------------------------------------------------------------
(* reconcile_accounting.                                                   *)

\* The open slices are read once, before any of them is looked at.
Reconcile(c, p) ==
  /\ pc[c] = "idle"
  /\ pstate[p] # "ABSENT"
  /\ run' = [run EXCEPT ![c] = p]
  /\ todo' = [todo EXCEPT ![c] = {s \in SlicesOf(p) :
                sstate[s] \in {"PENDING", "DISPATCHING"}}]
  /\ Goto(c, "scan")
  /\ UNCHANGED <<journalVars, omsVars, ledger, posted, cur, snap, faults>>

\* _recover_committed_dispatches: no receipt leaves the slice as it is.
ScanUnresolved(c) ==
  /\ pc[c] = "scan"
  /\ \E s \in todo[c] :
       /\ IsFirst(s, todo[c])
       /\ ~Filled(s)
       /\ todo' = [todo EXCEPT ![c] = @ \ {s}]
  /\ UNCHANGED <<journalVars, omsVars, ledger, posted, pc, run, cur, snap,
                 faults>>

\* Defect: an order the OMS already filled is not adopted.
ScanReceiptOpenOnly(c) ==
  /\ pc[c] = "scan"
  /\ \E s \in todo[c] :
       /\ IsFirst(s, todo[c])
       /\ Filled(s)
       /\ oms[s] \in {"SUBMITTED", "SUBMISSION_UNCERTAIN"}
       /\ cur' = [cur EXCEPT ![c] = s]
       /\ todo' = [todo EXCEPT ![c] = @ \ {s}]
  /\ Goto(c, "refill")
  /\ UNCHANGED <<journalVars, omsVars, ledger, posted, run, snap, faults>>

\* A receipt is adopted if the OMS order can hold exactly that fill.
ScanReceipt(c) ==
  /\ pc[c] = "scan"
  /\ \E s \in todo[c], i \in 1..Len(ledger) :
       /\ IsFirst(s, todo[c])
       /\ IsReceipt(s, i)
       /\ oms[s] \in {"SUBMITTED", "SUBMISSION_UNCERTAIN", "FILLED"}
       /\ obroker[s] \in {NoOrder, i}
       /\ cur' = [cur EXCEPT ![c] = s]
       /\ todo' = [todo EXCEPT ![c] = @ \ {s}]
  /\ Goto(c, "refill")
  /\ UNCHANGED <<journalVars, omsVars, ledger, posted, run, snap, faults>>

Refill(c) ==
  /\ pc[c] = "refill"
  /\ \E i \in 1..Len(ledger) : IsReceipt(cur[c], i) /\ OmsFill(cur[c], i)
  /\ Goto(c, "readopt")
  /\ UNCHANGED <<journalVars, ledger, posted, run, cur, todo, snap, faults>>

Readopt(c) ==
  /\ pc[c] = "readopt"
  /\ \E i \in 1..Len(ledger) :
       IsReceipt(cur[c], i) /\ MarkFilledUnaccounted(cur[c], i)
  /\ Goto(c, "scan")
  /\ UNCHANGED <<omsVars, ledger, posted, run, cur, todo, snap, faults>>

\* The unaccounted slices are read once as well.
ScanDone(c) ==
  /\ pc[c] = "scan"
  /\ todo[c] = {}
  /\ todo' = [todo EXCEPT ![c] = {s \in SlicesOf(run[c]) :
                                    sstate[s] = "FILLED_UNACCOUNTED"}]
  /\ Goto(c, "account")
  /\ UNCHANGED <<journalVars, omsVars, ledger, posted, run, cur, snap, faults>>

\* The stored identity must be the receipt's and the OMS order's.
Account(c) ==
  /\ pc[c] = "account"
  /\ \E s \in todo[c] :
       /\ IsFirst(s, todo[c])
       /\ IsReceipt(s, sbroker[s])
       /\ obroker[s] = sbroker[s]
       /\ PostAccounting(s)
       /\ cur' = [cur EXCEPT ![c] = s]
       /\ todo' = [todo EXCEPT ![c] = @ \ {s}]
  /\ Goto(c, "settle")
  /\ UNCHANGED <<journalVars, omsVars, ledger, run, snap, faults>>

Settle(c) ==
  /\ pc[c] = "settle"
  /\ MarkExecuted(cur[c], sbroker[cur[c]])
  /\ Goto(c, "account")
  /\ UNCHANGED <<omsVars, ledger, posted, run, cur, todo, snap, faults>>

AccountDone(c) ==
  /\ pc[c] = "account"
  /\ todo[c] = {}
  /\ ReadLedger(c)
  /\ Goto(c, "mirror")
  /\ UNCHANGED <<journalVars, omsVars, ledger, posted, run, cur, todo, faults>>

MirrorAfterRecovery(c) ==
  /\ pc[c] = "mirror"
  /\ MirrorMatched(c) \/ MirrorUnmatched(c)
  /\ Return(c)
  /\ UNCHANGED <<journalVars, omsVars, ledger, faults>>

-----------------------------------------------------------------------------

\* The steps of a call that has started.
Step(c) ==
  \/ ReadDue(c) \/ NextDue(c) \/ DueDone(c) \/ MirrorBeforeClaim(c)
  \/ Claim(c) \/ ClaimRefused(c) \/ ChecksPass(c) \/ ChecksFail(c)
  \/ OmsCreate(c) \/ OmsApprove(c) \/ OmsSubmitted(c)
  \/ BrokerSubmit(c) \/ OmsFilled(c) \/ Mark(c) \/ Post(c) \/ Finish(c)
  \/ ScanUnresolved(c) \/ ScanReceipt(c) \/ Refill(c) \/ Readopt(c)
  \/ ScanDone(c) \/ Account(c) \/ Settle(c) \/ AccountDone(c)
  \/ MirrorAfterRecovery(c)

Next ==
  \/ \E p \in Programs : Prepare(p) \/ Cancel(p)
  \/ ProtectiveExit
  \/ \E c \in Coordinators :
       \/ Fault(c)
       \/ \E p \in Programs : ExecuteDue(c, p) \/ Reconcile(c, p)
       \/ Step(c)

Spec == Init /\ [][Next]_vars

\* A call that has started keeps running: nobody is obliged to start one.
FairSpec == Spec /\ \A c \in Coordinators : WF_vars(Step(c))

-----------------------------------------------------------------------------
(* Properties.                                                             *)

JournalTypeOK ==
  /\ pstate \in [Programs -> ProgramStates \cup {"ABSENT"}]
  /\ sstate \in [Slices -> SliceStates \cup {"ABSENT"}]
  /\ sbroker \in [Slices -> Nat \cup {NoOrder}]

OmsTypeOK ==
  /\ oms \in [Slices -> OrderStates \cup {"NONE"}]
  /\ obroker \in [Slices -> Nat \cup {NoOrder}]

LedgerTypeOK ==
  /\ ledger \in Seq(Slices \cup {Exit})
  /\ posted \subseteq 1..Len(ledger)

StackTypeOK ==
  /\ pc \in [Coordinators -> {"idle"} \cup ExecuteSteps \cup ReconcileSteps]
  /\ run \in [Coordinators -> Programs \cup {"none"}]
  /\ cur \in [Coordinators -> Slices \cup {"none"}]
  /\ todo \in [Coordinators -> SUBSET Slices]
  /\ snap \in [Coordinators -> Nat]

\* Every column and every frame of a call holds a value of its kind, and only
\* committed fills are posted.
TypeOK ==
  /\ JournalTypeOK
  /\ OmsTypeOK
  /\ LedgerTypeOK
  /\ StackTypeOK
  /\ faults \in Nat

Unresolved == {"DISPATCHING", "FILLED_UNACCOUNTED"}

\* claim_slice fences the account: never two slices with an open outcome,
\* whichever processes run and wherever they died.
OneUnresolvedSlice ==
  \A s, t \in Slices :
    sstate[s] \in Unresolved /\ sstate[t] \in Unresolved => s = t

\* A committed fill always has a journal slice that still owns it: a slice
\* that failed its checks, was cancelled or looks unclaimed was never traded.
FillsHaveAnOwner ==
  \A s \in Slices : Filled(s) =>
    sstate[s] \in Unresolved \cup {"EXECUTED"}

\* EXECUTED is the last word of all four stores: the ledger holds the fill,
\* the OMS order and the slice carry its id, and it is posted.
ExecutedEverywhere ==
  \A s \in Slices : sstate[s] = "EXECUTED" =>
    /\ IsReceipt(s, sbroker[s])
    /\ oms[s] = "FILLED"
    /\ obroker[s] = sbroker[s]
    /\ sbroker[s] \in posted

\* Accounting never runs ahead: a strategy fill is posted only once the OMS
\* and the program journal both recorded it.
PostedAfterRecorded ==
  \A i \in posted : ledger[i] # Exit =>
    /\ sstate[ledger[i]] \in {"FILLED_UNACCOUNTED", "EXECUTED"}
    /\ oms[ledger[i]] = "FILLED"
    /\ obroker[ledger[i]] = i

\* What the ledger itself demands of an entry into a pinned account
\* (assert_bound_entry) holds whenever a coordinator is about to submit.
ClaimHeldAtSubmission ==
  \A c \in Coordinators : pc[c] = "submit" =>
    /\ pstate[Prog[cur[c]]] = "ACTIVE"
    /\ sstate[cur[c]] = "DISPATCHING"
    /\ sbroker[cur[c]] = NoOrder
    /\ \A s \in Slices : sstate[s] \in Unresolved => s = cur[c]
    /\ \A d \in Coordinators : pc[d] = "submit" => d = c

\* The program row summarises its slices.
ProgramSummarisesSlices ==
  \A p \in Programs :
    /\ pstate[p] = "COMPLETE" <=> \A s \in SlicesOf(p) : sstate[s] = "EXECUTED"
    /\ pstate[p] = "FAILED" <=> \E s \in SlicesOf(p) : sstate[s] = "FAILED"
    /\ pstate[p] = "CANCELLED" <=> \E s \in SlicesOf(p) : sstate[s] = "CANCELLED"

\* A program that ended is never revived, although mark_filled_unaccounted
\* writes ACTIVE without looking at the program's state.
EndedProgramsStayEnded ==
  [][\A p \in Programs :
       pstate[p] \in {"COMPLETE", "FAILED", "CANCELLED"}
         => pstate'[p] = pstate[p]]_vars

\* An exit's cost basis is settled before the exit is: when the mirror has
\* posted a protective exit, every earlier fill of the account is posted.
ExitsPostedInOrder ==
  \A i \in posted : ledger[i] = Exit => 1..i \subseteq posted

\* A reconcile call that finds a committed fill finishes it: none of its own
\* checks stops it, whatever other coordinators do, unless the call faults.
ReconcileSettles ==
  \A c \in Coordinators, s \in Slices, n \in 0..MaxFaults :
    (/\ pc[c] = "scan"
     /\ run[c] = Prog[s]
     /\ Filled(s)
     /\ s \in todo[c] \/ sstate[s] = "FILLED_UNACCOUNTED"
     /\ faults = n)
    ~> (sstate[s] = "EXECUTED" \/ faults > n)

\* The outcome of a child order as the four stores together show it.
Outcome(s) ==
  IF \E i \in posted : ledger[i] = s THEN "booked"
  ELSE IF Filled(s) THEN "traded"
  ELSE IF sstate[s] \in {"FAILED", "CANCELLED"} THEN "closed"
  ELSE "open"

Abstract == INSTANCE SliceOutcome WITH outcome <- [s \in Slices |-> Outcome(s)]

\* Paper execution implements the promise made by SliceOutcome: every child
\* order is closed untraded, or traded once and booked once, one at a time.
ImplementsOutcome == Abstract!Spec
=============================================================================
