------------------------ MODULE PaperExecutionProofs ------------------------
(***************************************************************************)
(* Theorems about PaperExecution.tla, for any set of programs, slices and  *)
(* coordinators and any bounds on faults and exits: its invariants, what a *)
(* step may do (ended programs stay ended, exits are booked in order), and *)
(* that every step is a step of SliceOutcome.tla or a stutter.             *)
(***************************************************************************)
EXTENDS PaperExecution, TLAPS

-----------------------------------------------------------------------------
(* Type correctness.                                                       *)

\* The steps at which a coordinator works on a slice, and among them those
\* between its claim and the broker's commit.
Holding == {"checks", "create", "approve", "submitting", "submit"}
WithSlice == Holding \cup {"protect", "claim", "receipt", "mark", "post",
                           "finish", "refill", "readopt", "settle"}

\* A frame that works on a slice has one, and no mirror looks past the end of
\* the ledger: what TypeOK needs to be inductive.
FramesOK ==
  \A c \in Coordinators :
    /\ pc[c] \in WithSlice => cur[c] \in Slices
    /\ snap[c] <= Len(ledger)

TypeInv == TypeOK /\ FramesOK

\* Appending a fill keeps the positions of the earlier ones.
LEMMA AppendKeeps ==
  ASSUME NEW S, NEW q \in Seq(S), NEW e \in S
  PROVE  /\ Append(q, e) \in Seq(S)
         /\ Len(q) \in Nat
         /\ Len(Append(q, e)) = Len(q) + 1
         /\ \A i \in 1..Len(q) : Append(q, e)[i] = q[i]
         /\ Append(q, e)[Len(q) + 1] = e
OBVIOUS

\* _refresh_state writes a program state.
LEMMA RefreshedType ==
  ASSUME NEW p, NEW ss
  PROVE  Refreshed(p, ss) \in ProgramStates
BY DEF Refreshed, ProgramStates

\* The journal calls that open or cancel a program, claim or fail a slice.
LEMMA OpeningTypes ==
  ASSUME JournalTypeOK,
         \/ \E p \in Programs : CreateProgram(p) \/ CancelUnclaimed(p)
         \/ \E s \in Slices : ClaimSlice(s) \/ MarkFailed(s)
  PROVE  JournalTypeOK'
BY DEF JournalTypeOK, ProgramStates, SliceStates, CreateProgram,
       CancelUnclaimed, ClaimSlice, MarkFailed

\* mark_filled_unaccounted.
LEMMA MarkTypes ==
  ASSUME JournalTypeOK, NEW s \in Slices, NEW b \in Nat,
         MarkFilledUnaccounted(s, b)
  PROVE  JournalTypeOK'
BY DEF JournalTypeOK, ProgramStates, SliceStates, MarkFilledUnaccounted,
       journalVars

\* mark_executed.
LEMMA ExecutedTypes ==
  ASSUME JournalTypeOK, NEW s \in Slices, NEW b, MarkExecuted(s, b)
  PROVE  JournalTypeOK'
<1>1. CASE UNCHANGED journalVars
  BY <1>1 DEF JournalTypeOK, journalVars
<1>2. CASE sstate[s] = "FILLED_UNACCOUNTED"
  <2> DEFINE r == Refreshed(Prog[s], sstate')
  <2>1. r \in ProgramStates
    BY RefreshedType
  <2>2. pstate' = [pstate EXCEPT ![Prog[s]] = r]
    BY <1>2 DEF MarkExecuted
  <2> HIDE DEF r
  <2>3. QED
    BY <1>2, <2>1, <2>2 DEF JournalTypeOK, MarkExecuted, SliceStates
<1>3. QED
  BY <1>1, <1>2 DEF MarkExecuted

\* The OMS calls.
LEMMA OmsTypes ==
  ASSUME OmsTypeOK, NEW s \in Slices,
         \/ OmsMove(s, "RISK_APPROVED") \/ OmsMove(s, "SUBMITTED")
         \/ \E i \in Nat : OmsFill(s, i)
  PROVE  OmsTypeOK'
BY DEF OmsTypeOK, OmsMove, OmsFill, omsVars, OrderStates

\* The accounting mirror posts only what its snapshot of the ledger holds.
LEMMA MirrorTypes ==
  ASSUME LedgerTypeOK, NEW c \in Coordinators, snap[c] \in Nat,
         snap[c] <= Len(ledger), UNCHANGED ledger,
         MirrorMatched(c) \/ MirrorUnmatched(c)
  PROVE  LedgerTypeOK'
<1>1. Len(ledger) \in Nat
  BY DEF LedgerTypeOK
<1>2. ExitsUpTo(snap[c]) \subseteq 1..Len(ledger)
  BY <1>1 DEF ExitsUpTo
<1>3. posted' = posted \/ posted' = posted \cup ExitsUpTo(snap[c])
  BY DEF MirrorMatched, MirrorUnmatched, MirrorNotRequired, MirrorPosts,
         MirrorUnavailable
<1>4. QED
  BY <1>2, <1>3 DEF LedgerTypeOK

\* A step of coordinator c moves no other coordinator's frame.
FrameMoves(c) ==
  /\ pc' = [pc EXCEPT ![c] = pc'[c]]
  /\ run' = [run EXCEPT ![c] = run'[c]]
  /\ cur' = [cur EXCEPT ![c] = cur'[c]]
  /\ todo' = [todo EXCEPT ![c] = todo'[c]]
  /\ snap' = [snap EXCEPT ![c] = snap'[c]]

Entry(c) == \E p \in Programs : ExecuteDue(c, p) \/ Reconcile(c, p)

\* Every step of a coordinator is one of its own frame only.
LEMMA StepMovesOneFrame ==
  ASSUME StackTypeOK, NEW c \in Coordinators, Step(c) \/ Entry(c) \/ Fault(c)
  PROVE  FrameMoves(c)
<1> USE DEF FrameMoves, StackTypeOK, Goto, Return, ReadLedger
<1>1. CASE Entry(c)
  BY <1>1 DEF Entry, ExecuteDue, Reconcile
<1>2. CASE Fault(c) \/ DueDone(c) \/ ClaimRefused(c) \/ ChecksFail(c)
  BY <1>2 DEF Fault, DueDone, ClaimRefused, ChecksFail
<1>3. CASE ReadDue(c) \/ NextDue(c)
  BY <1>3 DEF ReadDue, NextDue
<1>4. CASE MirrorBeforeClaim(c) \/ MirrorAfterRecovery(c)
  BY <1>4 DEF MirrorBeforeClaim, MirrorAfterRecovery
<1>5. CASE Claim(c) \/ ChecksPass(c) \/ OmsCreate(c) \/ OmsApprove(c)
  BY <1>5 DEF Claim, ChecksPass, OmsCreate, OmsApprove
<1>6. CASE OmsSubmitted(c) \/ OmsFilled(c) \/ Mark(c) \/ Post(c) \/ Finish(c)
  BY <1>6 DEF OmsSubmitted, OmsFilled, Mark, Post, Finish
<1>7. CASE BrokerSubmit(c)
  BY <1>7 DEF BrokerSubmit
<1>8. CASE ScanUnresolved(c) \/ ScanReceipt(c) \/ Refill(c) \/ Readopt(c)
  BY <1>8 DEF ScanUnresolved, ScanReceipt, Refill, Readopt
<1>9. CASE ScanDone(c) \/ Account(c) \/ Settle(c) \/ AccountDone(c)
  BY <1>9 DEF ScanDone, Account, Settle, AccountDone
<1>10. QED
  BY <1>1, <1>2, <1>3, <1>4, <1>5, <1>6, <1>7, <1>8, <1>9 DEF Step

\* The frame of one coordinator is typed.
FrameOK(c) ==
  /\ pc[c] \in {"idle"} \cup ExecuteSteps \cup ReconcileSteps
  /\ run[c] \in Programs \cup {"none"}
  /\ cur[c] \in Slices \cup {"none"}
  /\ todo[c] \in SUBSET Slices
  /\ snap[c] \in Nat
  /\ pc[c] \in WithSlice => cur[c] \in Slices
  /\ snap[c] <= Len(ledger)

\* Typing the frame that moves is enough, since the ledger never shrinks.
LEMMA OneFrameTyped ==
  ASSUME TypeInv, NEW c \in Coordinators, FrameMoves(c), FrameOK(c)',
         LedgerTypeOK', Len(ledger) <= Len(ledger')
  PROVE  StackTypeOK' /\ FramesOK'
<1>1. StackTypeOK'
  BY DEF TypeInv, TypeOK, FrameMoves, FrameOK, StackTypeOK
<1>2. Len(ledger) \in Nat /\ Len(ledger') \in Nat
  BY DEF TypeInv, TypeOK, LedgerTypeOK
<1>3. ASSUME NEW d \in Coordinators, d # c
      PROVE  pc'[d] = pc[d] /\ cur'[d] = cur[d] /\ snap'[d] = snap[d]
  BY <1>3 DEF TypeInv, TypeOK, StackTypeOK, FrameMoves
<1>4. ASSUME NEW d \in Coordinators
      PROVE  /\ pc'[d] \in WithSlice => cur'[d] \in Slices
             /\ snap'[d] <= Len(ledger')
  <2>1. CASE d = c
    BY <2>1 DEF FrameOK
  <2>2. CASE d # c
    BY <1>2, <1>3, <2>2 DEF TypeInv, TypeOK, StackTypeOK, FramesOK
  <2>3. QED
    BY <2>1, <2>2
<1>5. QED
  BY <1>1, <1>4 DEF FramesOK

\* The ledger only grows, and stays a sequence of fills.
LEMMA LedgerGrows ==
  ASSUME TypeInv, NEW c \in Coordinators, Step(c) \/ Entry(c) \/ Fault(c)
  PROVE  /\ \/ ledger' = ledger
            \/ /\ BrokerSubmit(c)
               /\ ledger' = Append(ledger, cur[c])
               /\ cur[c] \in Slices
         /\ ledger' \in Seq(Slices \cup {Exit})
         /\ Len(ledger) \in Nat
         /\ Len(ledger') \in Nat
         /\ Len(ledger) <= Len(ledger')
<1>1. CASE BrokerSubmit(c)
  <2>1. cur[c] \in Slices
    BY <1>1 DEF BrokerSubmit, TypeInv, FramesOK, WithSlice, Holding
  <2>2. ledger' = Append(ledger, cur[c])
    BY <1>1 DEF BrokerSubmit
  <2>3. QED
    BY <1>1, <2>1, <2>2, AppendKeeps DEF TypeInv, TypeOK, LedgerTypeOK
<1>2. CASE ~BrokerSubmit(c)
  <2>1. ledger' = ledger
    BY <1>2 DEF Step, Entry, ExecuteDue, Reconcile, Fault, ReadDue, NextDue,
      DueDone, MirrorBeforeClaim, Claim, ClaimRefused, ChecksPass, ChecksFail,
      OmsCreate, OmsApprove, OmsSubmitted, OmsFilled, Mark, Post, Finish,
      ScanUnresolved, ScanReceipt, Refill, Readopt, ScanDone, Account, Settle,
      AccountDone, MirrorAfterRecovery
  <2>2. QED
    BY <2>1 DEF TypeInv, TypeOK, LedgerTypeOK
<1>3. QED
  BY <1>1, <1>2

\* Every step leaves the frame of its coordinator typed.
LEMMA StepFrameOK ==
  ASSUME TypeInv, NEW c \in Coordinators, Step(c) \/ Entry(c) \/ Fault(c)
  PROVE  FrameOK(c)'
<1>0. /\ FrameOK(c)
      /\ Len(ledger) \in Nat /\ Len(ledger') \in Nat
      /\ Len(ledger) <= Len(ledger')
  BY LedgerGrows DEF TypeInv, TypeOK, StackTypeOK, FramesOK, FrameOK
<1>1. c \in DOMAIN pc /\ c \in DOMAIN run /\ c \in DOMAIN cur
      /\ c \in DOMAIN todo /\ c \in DOMAIN snap
  BY DEF TypeInv, TypeOK, StackTypeOK
<1> USE <1>0, <1>1 DEF FrameOK, Goto, Return, ReadLedger, ExecuteSteps,
        ReconcileSteps, WithSlice, Holding
<1>2. CASE Entry(c)
  <2>1. PICK p \in Programs : ExecuteDue(c, p) \/ Reconcile(c, p)
    BY <1>2 DEF Entry
  <2>2. todo'[c] \in SUBSET Slices
    BY <2>1 DEF ExecuteDue, Reconcile, SlicesOf
  <2>3. QED
    BY <2>1, <2>2 DEF ExecuteDue, Reconcile
<1>3. CASE Fault(c) \/ DueDone(c) \/ ClaimRefused(c) \/ ChecksFail(c)
  BY <1>3 DEF Fault, DueDone, ClaimRefused, ChecksFail
<1>4. CASE ReadDue(c)
  <2>1. todo'[c] \in SUBSET Slices
    BY <1>4 DEF ReadDue, SlicesOf
  <2>2. QED
    BY <1>4, <2>1 DEF ReadDue
<1>5. CASE NextDue(c)
  BY <1>5 DEF NextDue
<1>6. CASE MirrorBeforeClaim(c) \/ MirrorAfterRecovery(c)
  BY <1>6 DEF MirrorBeforeClaim, MirrorAfterRecovery
<1>7. CASE Claim(c) \/ ChecksPass(c) \/ OmsCreate(c) \/ OmsApprove(c)
  BY <1>7 DEF Claim, ChecksPass, OmsCreate, OmsApprove
<1>8. CASE OmsSubmitted(c) \/ OmsFilled(c) \/ Mark(c) \/ Post(c) \/ Finish(c)
  BY <1>8 DEF OmsSubmitted, OmsFilled, Mark, Post, Finish
<1>9. CASE BrokerSubmit(c)
  BY <1>9 DEF BrokerSubmit
<1>10. CASE ScanUnresolved(c) \/ ScanReceipt(c)
  BY <1>10 DEF ScanUnresolved, ScanReceipt
<1>11. CASE Refill(c) \/ Readopt(c) \/ Settle(c) \/ AccountDone(c)
  BY <1>11 DEF Refill, Readopt, Settle, AccountDone
<1>12. CASE ScanDone(c)
  <2>1. todo'[c] \in SUBSET Slices
    BY <1>12 DEF ScanDone, SlicesOf
  <2>2. QED
    BY <1>12, <2>1 DEF ScanDone
<1>13. CASE Account(c)
  BY <1>13 DEF Account
<1>14. QED
  BY <1>2, <1>3, <1>4, <1>5, <1>6, <1>7, <1>8, <1>9, <1>10, <1>11, <1>12,
     <1>13 DEF Step

\* Every step keeps the columns of the four stores typed.
LEMMA StepStoresTyped ==
  ASSUME TypeInv, NEW c \in Coordinators, Step(c) \/ Entry(c) \/ Fault(c)
  PROVE  JournalTypeOK' /\ OmsTypeOK' /\ LedgerTypeOK' /\ faults' \in Nat
<1>0. JournalTypeOK /\ OmsTypeOK /\ LedgerTypeOK /\ faults \in Nat
  BY DEF TypeInv, TypeOK
<1>1. /\ Len(ledger) \in Nat
      /\ pc[c] \in WithSlice => cur[c] \in Slices
      /\ snap[c] \in Nat
      /\ snap[c] <= Len(ledger)
  BY <1>0 DEF TypeInv, TypeOK, FramesOK, StackTypeOK, LedgerTypeOK
<1> DEFINE SameJournal == UNCHANGED journalVars
           SameOms == UNCHANGED omsVars
           SameLedger == UNCHANGED <<ledger, posted>>
<1>2. /\ SameJournal => JournalTypeOK'
      /\ SameOms => OmsTypeOK'
      /\ SameLedger => LedgerTypeOK'
  BY <1>0 DEF JournalTypeOK, OmsTypeOK, LedgerTypeOK, journalVars, omsVars
<1>3. CASE Entry(c) \/ Fault(c) \/ ReadDue(c) \/ NextDue(c) \/ DueDone(c)
           \/ ClaimRefused(c)
  BY <1>0, <1>2, <1>3 DEF Entry, ExecuteDue, Reconcile, Fault, ReadDue,
     NextDue, DueDone, ClaimRefused
<1>4. CASE ChecksPass(c) \/ ScanUnresolved(c) \/ ScanReceipt(c)
           \/ ScanDone(c) \/ AccountDone(c)
  BY <1>0, <1>2, <1>4 DEF ChecksPass, ScanUnresolved, ScanReceipt, ScanDone,
     AccountDone
<1>5. CASE MirrorBeforeClaim(c) \/ MirrorAfterRecovery(c)
  <2>1. LedgerTypeOK'
    BY <1>0, <1>1, <1>5, MirrorTypes DEF MirrorBeforeClaim,
       MirrorAfterRecovery
  <2>2. QED
    BY <1>0, <1>2, <1>5, <2>1 DEF MirrorBeforeClaim, MirrorAfterRecovery
<1>6. CASE Claim(c) \/ ChecksFail(c)
  <2>1. cur[c] \in Slices
    BY <1>1, <1>6 DEF Claim, ChecksFail, WithSlice, Holding
  <2>2. JournalTypeOK'
    BY <1>0, <1>6, <2>1, OpeningTypes DEF Claim, ChecksFail
  <2>3. QED
    BY <1>0, <1>2, <1>6, <2>2 DEF Claim, ChecksFail
<1>7. CASE OmsCreate(c)
  BY <1>0, <1>2, <1>7 DEF OmsCreate, OmsTypeOK, OrderStates
<1>8. CASE OmsApprove(c) \/ OmsSubmitted(c) \/ OmsFilled(c) \/ Refill(c)
  <2>1. cur[c] \in Slices
    BY <1>1, <1>8 DEF OmsApprove, OmsSubmitted, OmsFilled, Refill, WithSlice,
       Holding
  <2>2. 1..Len(ledger) \subseteq Nat
    BY <1>1
  <2>3. OmsTypeOK'
    BY <1>0, <1>8, <2>1, <2>2, OmsTypes DEF OmsApprove, OmsSubmitted,
       OmsFilled, Refill
  <2>4. QED
    BY <1>0, <1>2, <1>8, <2>3 DEF OmsApprove, OmsSubmitted, OmsFilled, Refill
<1>9. CASE BrokerSubmit(c)
  <2>1. LedgerTypeOK'
    BY <1>0, <1>9, LedgerGrows DEF BrokerSubmit, LedgerTypeOK
  <2>2. QED
    BY <1>0, <1>2, <1>9, <2>1 DEF BrokerSubmit
<1>10. CASE Mark(c) \/ Readopt(c)
  <2>1. cur[c] \in Slices
    BY <1>1, <1>10 DEF Mark, Readopt, WithSlice
  <2>2. PICK i \in 1..Len(ledger) : MarkFilledUnaccounted(cur[c], i)
    BY <1>10 DEF Mark, Readopt
  <2>3. JournalTypeOK'
    BY <1>0, <1>1, <2>1, <2>2, MarkTypes
  <2>4. QED
    BY <1>0, <1>2, <1>10, <2>3 DEF Mark, Readopt
<1>11. CASE Post(c) \/ Account(c)
  <2>1. \E s : PostAccounting(s)
    BY <1>11 DEF Post, Account
  <2>2. LedgerTypeOK'
    BY <1>0, <1>11, <2>1 DEF Post, Account, PostAccounting, LedgerTypeOK
  <2>3. QED
    BY <1>0, <1>2, <1>11, <2>2 DEF Post, Account
<1>12. CASE Finish(c) \/ Settle(c)
  <2>1. cur[c] \in Slices
    BY <1>1, <1>12 DEF Finish, Settle, WithSlice
  <2>2. \E b : MarkExecuted(cur[c], b)
    BY <1>12 DEF Finish, Settle
  <2>3. JournalTypeOK'
    BY <1>0, <2>1, <2>2, ExecutedTypes
  <2>4. QED
    BY <1>0, <1>2, <1>12, <2>3 DEF Finish, Settle
<1>13. QED
  BY <1>3, <1>4, <1>5, <1>6, <1>7, <1>8, <1>9, <1>10, <1>11, <1>12 DEF Step

\* Preparing or cancelling a program and an independent protective exit
\* leave every coordinator's frame alone.
LEMMA AccountStepsTyped ==
  ASSUME TypeInv,
         (\E p \in Programs : Prepare(p) \/ Cancel(p)) \/ ProtectiveExit
  PROVE  TypeInv'
<1>1. CASE \E p \in Programs : Prepare(p) \/ Cancel(p)
  <2>1. JournalTypeOK'
    BY <1>1, OpeningTypes DEF Prepare, Cancel, TypeInv, TypeOK
  <2>2. UNCHANGED <<omsVars, ledger, posted, stack, faults>>
    BY <1>1 DEF Prepare, Cancel
  <2>3. QED
    BY <2>1, <2>2 DEF TypeInv, TypeOK, OmsTypeOK, LedgerTypeOK, StackTypeOK,
       FramesOK, omsVars, stack
<1>2. CASE ProtectiveExit
  <2>1. ledger' = Append(ledger, Exit)
    BY <1>2 DEF ProtectiveExit
  <2>2. UNCHANGED <<journalVars, omsVars, posted, stack, faults>>
    BY <1>2 DEF ProtectiveExit
  <2>3. /\ ledger' \in Seq(Slices \cup {Exit})
        /\ Len(ledger) \in Nat
        /\ Len(ledger') = Len(ledger) + 1
    BY <2>1, AppendKeeps DEF TypeInv, TypeOK, LedgerTypeOK
  <2>4. JournalTypeOK' /\ OmsTypeOK' /\ StackTypeOK' /\ faults' \in Nat
    BY <2>2 DEF TypeInv, TypeOK, JournalTypeOK, OmsTypeOK, StackTypeOK,
       journalVars, omsVars, stack
  <2>5. LedgerTypeOK'
    BY <2>2, <2>3 DEF TypeInv, TypeOK, LedgerTypeOK
  <2>6. FramesOK'
    BY <2>2, <2>3 DEF TypeInv, TypeOK, StackTypeOK, FramesOK, stack
  <2>7. QED
    BY <2>4, <2>5, <2>6 DEF TypeInv, TypeOK
<1>3. QED
  BY <1>1, <1>2

\* TypeInv is inductive.
LEMMA TypeInvStep == TypeInv /\ [Next]_vars => TypeInv'
<1> SUFFICES ASSUME TypeInv, [Next]_vars
             PROVE  TypeInv'
  OBVIOUS
<1>1. CASE UNCHANGED vars
  BY <1>1 DEF TypeInv, TypeOK, JournalTypeOK, OmsTypeOK, LedgerTypeOK,
     StackTypeOK, FramesOK, vars, journalVars, omsVars, stack
<1>2. ASSUME NEW c \in Coordinators, Step(c) \/ Entry(c) \/ Fault(c)
      PROVE  TypeInv'
  <2>1. JournalTypeOK' /\ OmsTypeOK' /\ LedgerTypeOK' /\ faults' \in Nat
    BY <1>2, StepStoresTyped
  <2>2. FrameMoves(c)
    BY <1>2, StepMovesOneFrame DEF TypeInv, TypeOK
  <2>3. StackTypeOK' /\ FramesOK'
    BY <1>2, <2>1, <2>2, StepFrameOK, LedgerGrows, OneFrameTyped
  <2>4. QED
    BY <2>1, <2>3 DEF TypeInv, TypeOK
<1>3. QED
  BY <1>1, <1>2, AccountStepsTyped DEF Next, Entry

\* Every reachable state of the four stores and of the coordinators' calls is
\* well formed, and the accounting journal never holds a posting for a fill
\* the paper ledger has not committed.
THEOREM TypeCorrect == Spec => []TypeOK
<1>1. Init => TypeInv
  BY DEF Init, JournalInit, TypeInv, TypeOK, JournalTypeOK, OmsTypeOK,
     LedgerTypeOK, StackTypeOK, FramesOK, WithSlice, Holding
<1>2. TypeInv => TypeOK
  BY DEF TypeInv
<1>3. QED
  BY <1>1, <1>2, TypeInvStep, PTL DEF Spec

-----------------------------------------------------------------------------
(* The program journal on its own.                                         *)

\* A slice with an open outcome belongs to an ACTIVE program, and a program
\* that was never created has no slices.
OpenOutcomesAreActive ==
  \A s \in Slices :
    /\ sstate[s] \in Unresolved => pstate[Prog[s]] = "ACTIVE"
    /\ pstate[Prog[s]] = "ABSENT" => sstate[s] = "ABSENT"

\* What the journal keeps true by itself.
JournalInv ==
  OneUnresolvedSlice /\ OpenOutcomesAreActive /\ ProgramSummarisesSlices

\* create.
LEMMA CreateKeepsJournal ==
  ASSUME JournalTypeOK, JournalInv, NEW p \in Programs, CreateProgram(p)
  PROVE  JournalInv'
<1> USE ProgAssumption DEF JournalTypeOK, JournalInv, CreateProgram, Unresolved
<1>1. OneUnresolvedSlice' /\ OpenOutcomesAreActive'
  BY DEF OneUnresolvedSlice, OpenOutcomesAreActive
<1>2. ProgramSummarisesSlices'
  BY SomeSliceAssumption DEF ProgramSummarisesSlices, SlicesOf,
     OpenOutcomesAreActive
<1>3. QED
  BY <1>1, <1>2

\* cancel_unclaimed.
LEMMA CancelKeepsJournal ==
  ASSUME JournalTypeOK, JournalInv, NEW p \in Programs, CancelUnclaimed(p)
  PROVE  JournalInv'
<1> USE ProgAssumption DEF JournalTypeOK, JournalInv, CancelUnclaimed,
        Unresolved
<1>1. OneUnresolvedSlice' /\ OpenOutcomesAreActive'
  BY DEF OneUnresolvedSlice, OpenOutcomesAreActive
<1>2. ProgramSummarisesSlices'
  BY SomeSliceAssumption DEF ProgramSummarisesSlices, SlicesOf
<1>3. QED
  BY <1>1, <1>2

\* claim_slice: nothing else is unresolved when it succeeds.
LEMMA ClaimKeepsJournal ==
  ASSUME JournalTypeOK, JournalInv, NEW s \in Slices, ClaimSlice(s)
  PROVE  JournalInv'
<1> USE ProgAssumption DEF JournalTypeOK, JournalInv, ClaimSlice, Claimable,
        RecoveryRequired, Unresolved
<1>1. OneUnresolvedSlice' /\ OpenOutcomesAreActive'
  BY DEF OneUnresolvedSlice, OpenOutcomesAreActive
<1>2. ProgramSummarisesSlices'
  BY DEF ProgramSummarisesSlices, SlicesOf
<1>3. QED
  BY <1>1, <1>2

\* mark_failed, of a claimed slice.
LEMMA FailKeepsJournal ==
  ASSUME JournalTypeOK, JournalInv, NEW s \in Slices, MarkFailed(s),
         sstate[s] = "DISPATCHING"
  PROVE  JournalInv'
<1> USE ProgAssumption DEF JournalTypeOK, JournalInv, MarkFailed, Unresolved
<1>1. OneUnresolvedSlice' /\ OpenOutcomesAreActive'
  BY DEF OneUnresolvedSlice, OpenOutcomesAreActive
<1>2. ProgramSummarisesSlices'
  BY DEF ProgramSummarisesSlices, SlicesOf, OpenOutcomesAreActive
<1>3. QED
  BY <1>1, <1>2

\* mark_filled_unaccounted writes ACTIVE whatever the program's state was.
\* For a slice that is claimed or further the program was ACTIVE already.
LEMMA MarkKeepsJournal ==
  ASSUME JournalTypeOK, JournalInv, NEW s \in Slices, NEW b,
         MarkFilledUnaccounted(s, b), sstate[s] # "PENDING"
  PROVE  JournalInv'
<1> USE ProgAssumption DEF JournalTypeOK, JournalInv, MarkFilledUnaccounted,
        Unresolved, journalVars
<1>1. OneUnresolvedSlice' /\ OpenOutcomesAreActive'
  BY DEF OneUnresolvedSlice, OpenOutcomesAreActive
<1>2. ProgramSummarisesSlices'
  BY DEF ProgramSummarisesSlices, SlicesOf, OpenOutcomesAreActive
<1>3. QED
  BY <1>1, <1>2

\* mark_executed: the refreshed state is COMPLETE exactly after the last one.
LEMMA ExecutedKeepsJournal ==
  ASSUME JournalTypeOK, JournalInv, NEW s \in Slices, NEW b,
         MarkExecuted(s, b)
  PROVE  JournalInv'
<1> USE ProgAssumption DEF JournalInv, Unresolved
<1>1. CASE UNCHANGED journalVars
  BY <1>1 DEF journalVars, OneUnresolvedSlice, OpenOutcomesAreActive,
     ProgramSummarisesSlices
<1>2. CASE sstate[s] = "FILLED_UNACCOUNTED"
  <2> DEFINE p == Prog[s]
             done == \A t \in SlicesOf(p) : sstate'[t] = "EXECUTED"
  <2>1. /\ sstate' = [sstate EXCEPT ![s] = "EXECUTED"]
        /\ pstate' = [pstate EXCEPT ![p] = Refreshed(p, sstate')]
    BY <1>2 DEF MarkExecuted
  <2>2. p \in Programs /\ pstate[p] = "ACTIVE" /\ s \in SlicesOf(p)
    BY <1>2 DEF OpenOutcomesAreActive, SlicesOf
  <2>3. \A t \in SlicesOf(p) : sstate'[t] \notin {"FAILED", "CANCELLED"}
    BY <2>1, <2>2 DEF JournalTypeOK, ProgramSummarisesSlices, SlicesOf
  <2>4. Refreshed(p, sstate') = IF done THEN "COMPLETE" ELSE "ACTIVE"
    BY <2>2, <2>3 DEF Refreshed
  <2>5. /\ pstate' \in [Programs -> ProgramStates \cup {"ABSENT"}]
        /\ pstate'[p] = IF done THEN "COMPLETE" ELSE "ACTIVE"
        /\ \A q \in Programs : q # p => pstate'[q] = pstate[q]
    BY <2>1, <2>2, <2>4 DEF JournalTypeOK, ProgramStates
  <2>6. \A t \in Slices : t # s => sstate'[t] = sstate[t]
    BY <2>1 DEF JournalTypeOK
  <2>7. sstate'[s] = "EXECUTED"
    BY <2>1 DEF JournalTypeOK
  <2>8. OneUnresolvedSlice' /\ OpenOutcomesAreActive'
    BY <1>2, <2>2, <2>5, <2>6, <2>7 DEF OneUnresolvedSlice,
       OpenOutcomesAreActive, SlicesOf
  <2>9. ProgramSummarisesSlices'
    <3>1. ASSUME NEW q \in Programs, q # p
          PROVE  /\ \A t \in SlicesOf(q) : sstate'[t] = sstate[t]
                 /\ pstate'[q] = pstate[q]
      BY <2>2, <2>5, <2>6, <3>1 DEF SlicesOf
    <3>2. QED
      BY <2>2, <2>3, <2>5, <3>1 DEF ProgramSummarisesSlices
  <2>10. QED
    BY <2>8, <2>9
<1>3. QED
  BY <1>1, <1>2 DEF MarkExecuted

-----------------------------------------------------------------------------
(* The four stores together: the inductive invariant.                      *)

Recorded == {"FILLED_UNACCOUNTED", "EXECUTED"}

\* No child order is filled twice: a slice has one position in the ledger.
UniqueFills ==
  \A i, j \in 1..Len(ledger) : ledger[i] = ledger[j] /\ ledger[i] # Exit => i = j

\* The OMS calls an order FILLED only with the receipt the ledger holds.
OmsFillsAreReceipts ==
  \A s \in Slices : oms[s] = "FILLED" => IsReceipt(s, obroker[s])

\* A slice the journal recorded as filled is filled in the OMS, with the same
\* broker order; a slice it did not record carries none.
RecordedInOms ==
  \A s \in Slices :
    /\ sstate[s] \in Recorded => oms[s] = "FILLED" /\ sbroker[s] = obroker[s]
    /\ sstate[s] \notin Recorded => sbroker[s] = NoOrder

Booked(s) == \E i \in posted : ledger[i] = s

\* A slice is booked before it is EXECUTED and after it is recorded.
BookedBetween ==
  \A s \in Slices :
    /\ sstate[s] = "EXECUTED" => Booked(s)
    /\ Booked(s) => sstate[s] \in Recorded

\* A call between its claim and the broker's commit holds the claim, and
\* nothing has traded for it yet.
HoldersHold ==
  \A c \in Coordinators : pc[c] \in Holding =>
    sstate[cur[c]] = "DISPATCHING" /\ ~Filled(cur[c])

OneHolder ==
  \A c, d \in Coordinators : pc[c] \in Holding /\ pc[d] \in Holding => c = d

\* What a call has established about its slices when it reaches a step; none
\* of it is ever undone by another call.
CallOK(c) ==
  /\ pc[c] \in {"receipt", "mark", "refill", "readopt"} => Filled(cur[c])
  /\ pc[c] \in {"mark", "readopt"} => oms[cur[c]] = "FILLED"
  /\ pc[c] \in {"post", "finish", "settle"} => sstate[cur[c]] \in Recorded
  /\ pc[c] \in {"finish", "settle"} => Booked(cur[c])
  /\ pc[c] \in {"account", "settle"} =>
       \A s \in todo[c] : sstate[s] \in Recorded

StoreInv ==
  /\ JournalInv
  /\ FillsHaveAnOwner
  /\ UniqueFills
  /\ OmsFillsAreReceipts
  /\ RecordedInOms
  /\ BookedBetween

CallInv ==
  /\ HoldersHold
  /\ OneHolder
  /\ \A c \in Coordinators : CallOK(c)

IInv == TypeInv /\ StoreInv /\ CallInv

-----------------------------------------------------------------------------
(* How the stores move.                                                    *)

\* No step undoes a fill, an OMS fill, a record or a booking.
Advances ==
  \A s \in Slices :
    /\ Filled(s) => Filled(s)'
    /\ oms[s] = "FILLED" => oms'[s] = "FILLED"
    /\ sstate[s] \in Recorded => sstate'[s] \in Recorded
    /\ Booked(s) => Booked(s)'

\* A longer ledger holds the same receipts.
LEMMA AppendReceipts ==
  ASSUME LedgerTypeOK, NEW e \in Slices \cup {Exit},
         ledger' = Append(ledger, e), UNCHANGED posted
  PROVE  /\ \A s \in Slices : Filled(s)' <=> Filled(s) \/ s = e
         /\ \A s \in Slices : Booked(s)' <=> Booked(s)
         /\ \A s, i : IsReceipt(s, i) => IsReceipt(s, i)'
         /\ UniqueFills /\ (e \in Slices => ~Filled(e)) => UniqueFills'
<1> DEFINE n == Len(ledger)
<1>1. /\ n \in Nat
      /\ Len(ledger') = n + 1
      /\ \A i \in 1..n : ledger'[i] = ledger[i]
      /\ ledger'[n + 1] = e
      /\ 1..(n + 1) = (1..n) \cup {n + 1}
  BY AppendKeeps DEF LedgerTypeOK
<1>2. \A i \in posted : ledger'[i] = ledger[i]
  BY <1>1 DEF LedgerTypeOK
<1> HIDE DEF n
<1>3. \A s \in Slices : Filled(s)' <=> Filled(s) \/ s = e
  BY <1>1 DEF Filled, n
<1>4. \A s \in Slices : Booked(s)' <=> Booked(s)
  BY <1>2 DEF Booked
<1>5. \A s, i : IsReceipt(s, i) => IsReceipt(s, i)'
  BY <1>1 DEF IsReceipt, n
<1>6. ASSUME UniqueFills, e \in Slices => ~Filled(e)
      PROVE  UniqueFills'
  <2> SUFFICES ASSUME NEW i \in 1..(n + 1), NEW j \in 1..(n + 1),
                      ledger'[i] = ledger'[j], ledger'[i] # Exit
               PROVE  i = j
    BY <1>1 DEF UniqueFills
  <2>1. CASE i \in 1..n /\ j \in 1..n
    BY <1>1, <1>6, <2>1 DEF UniqueFills, n
  <2>2. CASE i = n + 1 /\ j \in 1..n
    BY <1>1, <1>6, <2>2 DEF Filled, n
  <2>3. CASE j = n + 1 /\ i \in 1..n
    BY <1>1, <1>6, <2>3 DEF Filled, n
  <2>4. QED
    BY <1>1, <2>1, <2>2, <2>3
<1>7. QED
  BY <1>3, <1>4, <1>5, <1>6

\* Unless the ledger or the accounting journal move, receipts and bookings are
\* the same.
LEMMA SameReceipts ==
  ASSUME UNCHANGED ledger
  PROVE  /\ \A s : Filled(s)' <=> Filled(s)
         /\ \A s, i : IsReceipt(s, i)' <=> IsReceipt(s, i)
         /\ UniqueFills' <=> UniqueFills
         /\ UNCHANGED posted => \A s : Booked(s)' <=> Booked(s)
BY DEF Filled, IsReceipt, UniqueFills, Booked

\* Steps that leave all four stores alone.
LEMMA QuietStep ==
  ASSUME StoreInv, UNCHANGED <<journalVars, omsVars, ledger, posted>>
  PROVE  StoreInv' /\ Advances
<1>1. Advances
  BY SameReceipts DEF Advances, journalVars, omsVars
<1>2. StoreInv'
  BY SameReceipts DEF StoreInv, JournalInv, OneUnresolvedSlice,
     OpenOutcomesAreActive, ProgramSummarisesSlices, FillsHaveAnOwner,
     OmsFillsAreReceipts, RecordedInOms, BookedBetween, journalVars, omsVars
<1>3. QED
  BY <1>1, <1>2

\* Steps of the program journal alone: the journal keeps its own invariant,
\* and sstate, sbroker still agree with the other three stores.
LEMMA JournalStep ==
  ASSUME StoreInv, JournalInv', UNCHANGED <<omsVars, ledger, posted>>,
         \A s \in Slices :
           /\ Filled(s) => sstate'[s] \in Unresolved \cup {"EXECUTED"}
           /\ sstate[s] \in Recorded => sstate'[s] \in Recorded
           /\ sstate'[s] \in Recorded =>
                oms[s] = "FILLED" /\ sbroker'[s] = obroker[s]
           /\ sstate'[s] \notin Recorded => sbroker'[s] = NoOrder
           /\ sstate'[s] = "EXECUTED" => Booked(s)
  PROVE  StoreInv' /\ Advances
<1>1. Advances
  BY SameReceipts DEF Advances, omsVars
<1>2. /\ FillsHaveAnOwner' /\ UniqueFills' /\ OmsFillsAreReceipts'
      /\ RecordedInOms'
  BY SameReceipts DEF StoreInv, FillsHaveAnOwner, OmsFillsAreReceipts,
     RecordedInOms, omsVars
<1>3. BookedBetween'
  BY SameReceipts DEF StoreInv, BookedBetween
<1>4. QED
  BY <1>1, <1>2, <1>3 DEF StoreInv

\* Steps of the OMS alone.
LEMMA OmsStep ==
  ASSUME StoreInv, UNCHANGED <<journalVars, ledger, posted>>,
         \A s \in Slices :
           /\ oms[s] = "FILLED" => oms'[s] = "FILLED" /\ obroker'[s] = obroker[s]
           /\ oms'[s] = "FILLED" => IsReceipt(s, obroker'[s])
  PROVE  StoreInv' /\ Advances
<1>1. Advances
  BY SameReceipts DEF Advances, journalVars
<1>2. JournalInv'
  BY DEF StoreInv, JournalInv, OneUnresolvedSlice, OpenOutcomesAreActive,
     ProgramSummarisesSlices, journalVars
<1>3. /\ FillsHaveAnOwner' /\ UniqueFills' /\ OmsFillsAreReceipts'
      /\ BookedBetween'
  BY SameReceipts DEF StoreInv, FillsHaveAnOwner, OmsFillsAreReceipts,
     BookedBetween, journalVars
<1>4. RecordedInOms'
  BY DEF StoreInv, RecordedInOms, journalVars
<1>5. QED
  BY <1>1, <1>2, <1>3, <1>4 DEF StoreInv

\* Steps of the paper ledger alone: one more fill, of a slice that owns it and
\* was not filled before, or one more protective exit.
LEMMA LedgerStep ==
  ASSUME TypeInv, StoreInv, NEW e \in Slices \cup {Exit},
         ledger' = Append(ledger, e),
         UNCHANGED <<journalVars, omsVars, posted>>,
         e \in Slices => ~Filled(e) /\ sstate[e] = "DISPATCHING"
  PROVE  StoreInv' /\ Advances
<1>1. /\ \A s \in Slices : Filled(s)' <=> Filled(s) \/ s = e
      /\ \A s \in Slices : Booked(s)' <=> Booked(s)
      /\ \A s, i : IsReceipt(s, i) => IsReceipt(s, i)'
      /\ UniqueFills'
  BY AppendReceipts DEF TypeInv, TypeOK, StoreInv
<1>2. Advances
  BY <1>1 DEF Advances, journalVars, omsVars
<1>3. JournalInv' /\ RecordedInOms'
  BY DEF StoreInv, JournalInv, OneUnresolvedSlice, OpenOutcomesAreActive,
     ProgramSummarisesSlices, RecordedInOms, journalVars, omsVars
<1>4. FillsHaveAnOwner' /\ OmsFillsAreReceipts' /\ BookedBetween'
  BY <1>1 DEF StoreInv, FillsHaveAnOwner, Unresolved, OmsFillsAreReceipts,
     BookedBetween, journalVars, omsVars
<1>5. QED
  BY <1>1, <1>2, <1>3, <1>4 DEF StoreInv

\* Steps of the accounting journal alone: exits and recorded fills are posted.
LEMMA PostingStep ==
  ASSUME StoreInv, UNCHANGED <<journalVars, omsVars, ledger>>,
         posted \subseteq posted',
         \A i \in posted' \ posted :
           ledger[i] \in Slices => sstate[ledger[i]] \in Recorded
  PROVE  StoreInv' /\ Advances
<1>1. \A s \in Slices : /\ Booked(s) => Booked(s)'
                        /\ Booked(s)' => Booked(s) \/ sstate[s] \in Recorded
  BY DEF Booked
<1>2. Advances
  BY <1>1, SameReceipts DEF Advances, journalVars, omsVars
<1>3. JournalInv' /\ RecordedInOms'
  BY DEF StoreInv, JournalInv, OneUnresolvedSlice, OpenOutcomesAreActive,
     ProgramSummarisesSlices, RecordedInOms, journalVars, omsVars
<1>4. FillsHaveAnOwner' /\ UniqueFills' /\ OmsFillsAreReceipts'
  BY SameReceipts DEF StoreInv, FillsHaveAnOwner, OmsFillsAreReceipts,
     journalVars, omsVars
<1>5. BookedBetween'
  BY <1>1 DEF StoreInv, BookedBetween, journalVars
<1>6. QED
  BY <1>2, <1>3, <1>4, <1>5 DEF StoreInv

-----------------------------------------------------------------------------
(* How the calls move.                                                     *)

HoldOK(c) == pc[c] \in Holding =>
               sstate[cur[c]] = "DISPATCHING" /\ ~Filled(cur[c])

\* The step of c keeps the calls consistent if the stores advance, no other
\* holder loses its claim, and c itself arrives with what its step needs.
LEMMA CallRule ==
  ASSUME IInv, NEW c \in Coordinators, FrameMoves(c), Advances,
         \A d \in Coordinators \ {c} : pc[d] \in Holding =>
            sstate'[cur[d]] = "DISPATCHING" /\ ~Filled(cur[d])',
         CallOK(c)', HoldOK(c)',
         pc'[c] \in Holding =>
            pc[c] \in Holding \/ \A d \in Coordinators : pc[d] \notin Holding
  PROVE  CallInv'
<1>1. ASSUME NEW d \in Coordinators, d # c
      PROVE  pc'[d] = pc[d] /\ cur'[d] = cur[d] /\ todo'[d] = todo[d]
  BY <1>1 DEF IInv, TypeInv, TypeOK, StackTypeOK, FrameMoves
<1>2. \A d \in Coordinators : pc[d] \in WithSlice => cur[d] \in Slices
  BY DEF IInv, TypeInv, FramesOK
<1>3. \A d \in Coordinators : todo[d] \subseteq Slices
  BY DEF IInv, TypeInv, TypeOK, StackTypeOK
<1>4. HoldersHold'
  BY <1>1 DEF HoldersHold, HoldOK, Filled
<1>5. OneHolder'
  BY <1>1 DEF IInv, CallInv, OneHolder
<1>6. ASSUME NEW d \in Coordinators, d # c
      PROVE  CallOK(d)'
  <2>1. CallOK(d)
    BY DEF IInv, CallInv
  <2>2. pc'[d] = pc[d] /\ cur'[d] = cur[d] /\ todo'[d] = todo[d]
    BY <1>1, <1>6
  <2>3. \A s \in Slices : s = cur[d] =>
          /\ Filled(cur[d])' <=> Filled(s)'
          /\ Booked(cur[d])' <=> Booked(s)'
    BY <2>2 DEF Filled, Booked
  <2>4. pc[d] \in WithSlice =>
          /\ Filled(cur[d]) => Filled(cur[d])'
          /\ Booked(cur[d]) => Booked(cur[d])'
          /\ oms[cur[d]] = "FILLED" => oms'[cur[d]] = "FILLED"
          /\ sstate[cur[d]] \in Recorded => sstate'[cur[d]] \in Recorded
    BY <1>2, <2>3 DEF Advances
  <2>5. \A s \in todo[d] : sstate[s] \in Recorded => sstate'[s] \in Recorded
    BY <1>3 DEF Advances
  <2>6. QED
    BY <2>1, <2>2, <2>4, <2>5 DEF CallOK, WithSlice
<1>7. QED
  BY <1>4, <1>5, <1>6 DEF CallInv

Move(c) == Step(c) \/ Entry(c) \/ Fault(c)

\* What is known of the mover before and after its step.
LEMMA MoverFacts ==
  ASSUME IInv, NEW c \in Coordinators, Move(c)
  PROVE  /\ FrameMoves(c)
         /\ c \in DOMAIN pc /\ c \in DOMAIN run /\ c \in DOMAIN cur
         /\ c \in DOMAIN todo /\ c \in DOMAIN snap
         /\ pc[c] \in WithSlice => cur[c] \in Slices
         /\ todo[c] \subseteq Slices
         /\ CallOK(c)
         /\ HoldOK(c)
         /\ StoreInv
         /\ JournalTypeOK /\ OmsTypeOK /\ LedgerTypeOK /\ JournalInv
         /\ \A d \in Coordinators : pc[d] \in Holding =>
              /\ cur[d] \in Slices
              /\ sstate[cur[d]] = "DISPATCHING"
              /\ ~Filled(cur[d])
              /\ d # c => cur'[d] = cur[d]
         /\ pc[c] \in Holding => \A d \in Coordinators \ {c} : pc[d] \notin Holding
<1>1. FrameMoves(c)
  BY StepMovesOneFrame DEF Move, IInv, TypeInv, TypeOK
<1>2. /\ c \in DOMAIN pc /\ c \in DOMAIN run /\ c \in DOMAIN cur
      /\ c \in DOMAIN todo /\ c \in DOMAIN snap
      /\ todo[c] \subseteq Slices
      /\ \A d \in Coordinators : d # c => cur'[d] = cur[d]
  BY <1>1 DEF IInv, TypeInv, TypeOK, StackTypeOK, FrameMoves
<1>3. \A d \in Coordinators : pc[d] \in WithSlice => cur[d] \in Slices
  BY DEF IInv, TypeInv, FramesOK
<1>4. /\ CallOK(c) /\ HoldOK(c) /\ StoreInv
      /\ JournalTypeOK /\ OmsTypeOK /\ LedgerTypeOK /\ JournalInv
  BY DEF IInv, TypeInv, TypeOK, CallInv, StoreInv, HoldersHold, HoldOK
<1>5. /\ \A d \in Coordinators : pc[d] \in Holding =>
           sstate[cur[d]] = "DISPATCHING" /\ ~Filled(cur[d])
      /\ pc[c] \in Holding => \A d \in Coordinators \ {c} : pc[d] \notin Holding
  BY DEF IInv, CallInv, HoldersHold, OneHolder
<1>6. QED
  BY <1>1, <1>2, <1>3, <1>4, <1>5 DEF WithSlice

\* Steps that only read the stores.
LEMMA QuietKeeps ==
  ASSUME IInv, NEW c \in Coordinators,
         \/ Entry(c) \/ Fault(c) \/ ReadDue(c) \/ NextDue(c) \/ DueDone(c)
         \/ ClaimRefused(c) \/ ChecksPass(c) \/ ScanUnresolved(c)
         \/ ScanReceipt(c) \/ ScanDone(c) \/ AccountDone(c)
  PROVE  StoreInv' /\ CallInv'
<1>0. Move(c)
  BY DEF Move, Step
<1>1. UNCHANGED <<journalVars, omsVars, ledger, posted>>
  BY DEF Entry, ExecuteDue, Reconcile, ReadDue, NextDue, DueDone,
         ClaimRefused, ChecksPass, ScanUnresolved, ScanReceipt, ScanDone,
         AccountDone, Fault
<1>2. StoreInv' /\ Advances
  BY <1>1, QuietStep DEF IInv
<1>3. \A d \in Coordinators \ {c} : pc[d] \in Holding =>
         sstate'[cur[d]] = "DISPATCHING" /\ ~Filled(cur[d])'
  BY <1>0, <1>1, MoverFacts DEF Filled, journalVars
<1>4. CallOK(c)' /\ HoldOK(c)' /\ (pc'[c] \in Holding => pc[c] \in Holding)
  <2> USE <1>0, MoverFacts DEF Goto, Return, Holding
  <2>1. CASE Entry(c) \/ Fault(c) \/ DueDone(c) \/ ClaimRefused(c)
    BY <2>1 DEF Entry, ExecuteDue, Reconcile, Fault, DueDone, ClaimRefused,
       CallOK, HoldOK
  <2>2. CASE ReadDue(c) \/ NextDue(c) \/ ScanUnresolved(c) \/ AccountDone(c)
    BY <2>2 DEF ReadDue, NextDue, ScanUnresolved, AccountDone, CallOK, HoldOK
  <2>3. CASE ChecksPass(c)
    BY <1>1, <2>3 DEF ChecksPass, CallOK, HoldOK, Filled, journalVars
  <2>4. CASE ScanReceipt(c)
    BY <1>1, <2>4 DEF ScanReceipt, CallOK, HoldOK, Filled, IsReceipt
  <2>5. CASE ScanDone(c)
    BY <1>1, <2>5 DEF ScanDone, CallOK, HoldOK, Recorded, journalVars
  <2>6. QED
    BY <2>1, <2>2, <2>3, <2>4, <2>5
<1>5. QED
  BY <1>0, <1>2, <1>3, <1>4, MoverFacts, CallRule

\* The accounting mirror.
LEMMA MirrorKeeps ==
  ASSUME IInv, NEW c \in Coordinators,
         MirrorBeforeClaim(c) \/ MirrorAfterRecovery(c)
  PROVE  StoreInv' /\ CallInv'
<1>0. Move(c)
  BY DEF Move, Step
<1>1. UNCHANGED <<journalVars, omsVars, ledger>>
  BY DEF MirrorBeforeClaim, MirrorAfterRecovery
<1>2. posted' = posted \/ posted' = posted \cup ExitsUpTo(snap[c])
  BY DEF MirrorBeforeClaim, MirrorAfterRecovery, MirrorMatched,
     MirrorUnmatched, MirrorNotRequired, MirrorPosts, MirrorUnavailable
<1>3. StoreInv' /\ Advances
  <2>1. \A i \in posted' \ posted : ledger[i] = Exit
    BY <1>2 DEF ExitsUpTo
  <2>2. QED
    BY <1>1, <1>2, <2>1, ExitAssumption, PostingStep DEF IInv
<1>4. \A d \in Coordinators \ {c} : pc[d] \in Holding =>
         sstate'[cur[d]] = "DISPATCHING" /\ ~Filled(cur[d])'
  BY <1>0, <1>1, MoverFacts DEF Filled, journalVars
<1>5. CallOK(c)' /\ HoldOK(c)' /\ pc'[c] \notin Holding
  BY <1>0, MoverFacts DEF MirrorBeforeClaim, MirrorAfterRecovery, Goto,
     Return, CallOK, HoldOK, Holding
<1>6. QED
  BY <1>0, <1>3, <1>4, <1>5, MoverFacts, CallRule

\* claim_slice: it succeeds only while nobody holds a claim.
LEMMA ClaimKeeps ==
  ASSUME IInv, NEW c \in Coordinators, Claim(c)
  PROVE  StoreInv' /\ CallInv'
<1>0. Move(c) /\ ClaimSlice(cur[c]) /\ cur[c] \in Slices
  BY MoverFacts DEF Move, Step, Claim, WithSlice
<1>1. /\ UNCHANGED <<omsVars, ledger, posted>>
      /\ UNCHANGED sbroker
      /\ sstate[cur[c]] = "PENDING"
      /\ sstate' = [sstate EXCEPT ![cur[c]] = "DISPATCHING"]
  BY <1>0 DEF Claim, ClaimSlice, Claimable
<1>2. \A d \in Coordinators : pc[d] \notin Holding
  BY <1>0, MoverFacts DEF ClaimSlice, Claimable, RecoveryRequired
<1>3. ~Filled(cur[c])
  BY <1>0, <1>1, MoverFacts DEF StoreInv, FillsHaveAnOwner, Unresolved
<1>4. JournalInv'
  BY <1>0, MoverFacts, ClaimKeepsJournal
<1>5. StoreInv' /\ Advances
  BY <1>0, <1>1, <1>3, <1>4, MoverFacts, JournalStep DEF StoreInv,
     FillsHaveAnOwner, RecordedInOms, BookedBetween, Unresolved, Recorded,
     JournalTypeOK
<1>6. CallOK(c)' /\ HoldOK(c)'
  BY <1>0, <1>1, <1>3, MoverFacts DEF Claim, Goto, CallOK, HoldOK, Filled,
     JournalTypeOK
<1>7. QED
  BY <1>0, <1>2, <1>5, <1>6, MoverFacts, CallRule

\* mark_failed at the checks: the slice was claimed and never traded.
LEMMA ChecksFailKeeps ==
  ASSUME IInv, NEW c \in Coordinators, ChecksFail(c)
  PROVE  StoreInv' /\ CallInv'
<1>0. Move(c) /\ MarkFailed(cur[c]) /\ cur[c] \in Slices
  BY MoverFacts DEF Move, Step, ChecksFail, WithSlice, Holding
<1>1. /\ UNCHANGED <<omsVars, ledger, posted>>
      /\ UNCHANGED sbroker
      /\ sstate' = [sstate EXCEPT ![cur[c]] = "FAILED"]
      /\ pc[c] \in Holding
  BY <1>0 DEF ChecksFail, MarkFailed, Holding
<1>2. sstate[cur[c]] = "DISPATCHING" /\ ~Filled(cur[c])
  BY <1>0, <1>1, MoverFacts DEF HoldOK
<1>3. JournalInv'
  BY <1>0, <1>2, MoverFacts, FailKeepsJournal
<1>4. StoreInv' /\ Advances
  BY <1>0, <1>1, <1>2, <1>3, MoverFacts, JournalStep DEF StoreInv,
     FillsHaveAnOwner, RecordedInOms, BookedBetween, Unresolved, Recorded,
     JournalTypeOK
<1>5. CallOK(c)' /\ HoldOK(c)' /\ pc'[c] \notin Holding
  BY <1>0, MoverFacts DEF ChecksFail, Return, Goto, CallOK, HoldOK, Holding
<1>6. QED
  BY <1>0, <1>1, <1>4, <1>5, MoverFacts, CallRule

\* The OMS steps before the submission never touch a FILLED order.
LEMMA OmsOpeningKeeps ==
  ASSUME IInv, NEW c \in Coordinators,
         OmsCreate(c) \/ OmsApprove(c) \/ OmsSubmitted(c)
  PROVE  StoreInv' /\ CallInv'
<1>0. Move(c) /\ cur[c] \in Slices /\ pc[c] \in Holding
  BY MoverFacts DEF Move, Step, OmsCreate, OmsApprove, OmsSubmitted, WithSlice,
     Holding
<1>1. UNCHANGED <<journalVars, obroker, ledger, posted, cur>>
  BY DEF OmsCreate, OmsApprove, OmsSubmitted, OmsMove
<1>2. /\ oms[cur[c]] # "FILLED"
      /\ \E t \in {"CREATED", "RISK_APPROVED", "SUBMITTED"} :
           oms' = [oms EXCEPT ![cur[c]] = t]
  BY DEF OmsCreate, OmsApprove, OmsSubmitted, OmsMove, Allowed
<1>3. StoreInv' /\ Advances
  BY <1>0, <1>1, <1>2, MoverFacts, OmsStep DEF StoreInv, OmsFillsAreReceipts,
     OmsTypeOK, IsReceipt
<1>4. CallOK(c)' /\ HoldOK(c)'
  BY <1>0, <1>1, MoverFacts DEF OmsCreate, OmsApprove, OmsSubmitted, Goto,
     CallOK, HoldOK, Holding, Filled, journalVars
<1>5. QED
  BY <1>0, <1>3, <1>4, MoverFacts, CallRule

\* The broker's commit: the holder's slice gets its one position.
LEMMA SubmitKeeps ==
  ASSUME IInv, NEW c \in Coordinators, BrokerSubmit(c)
  PROVE  StoreInv' /\ CallInv'
<1>0. Move(c) /\ cur[c] \in Slices /\ pc[c] \in Holding
  BY MoverFacts DEF Move, Step, BrokerSubmit, WithSlice, Holding
<1>1. /\ UNCHANGED <<journalVars, omsVars, posted>>
      /\ ledger' = Append(ledger, cur[c])
  BY DEF BrokerSubmit
<1>2. StoreInv' /\ Advances
  BY <1>0, <1>1, MoverFacts, LedgerStep DEF IInv
<1>3. \A s \in Slices : Filled(s)' <=> Filled(s) \/ s = cur[c]
  BY <1>0, <1>1, MoverFacts, AppendReceipts
<1>4. CallOK(c)' /\ HoldOK(c)' /\ pc'[c] \notin Holding
  <2>1. CASE pc'[c] = "receipt" /\ cur'[c] = cur[c]
    <3>1. Filled(cur[c])'
      BY <1>0, <1>3, <2>1 DEF Filled
    <3>2. QED
      BY <2>1, <3>1 DEF CallOK, HoldOK, Holding
  <2>2. CASE pc'[c] = "idle"
    BY <2>2 DEF CallOK, HoldOK, Holding
  <2>3. QED
    BY <1>0, <2>1, <2>2, MoverFacts DEF BrokerSubmit, Goto, Return
<1>5. QED
  BY <1>0, <1>2, <1>4, MoverFacts, CallRule

\* oms.fill with the receipt, by the call that traded or by a recovery.
LEMMA OmsFillKeeps ==
  ASSUME IInv, NEW c \in Coordinators, OmsFilled(c) \/ Refill(c)
  PROVE  StoreInv' /\ CallInv'
<1>0. Move(c) /\ cur[c] \in Slices /\ pc[c] \in {"receipt", "refill"}
  BY MoverFacts DEF Move, Step, OmsFilled, Refill, WithSlice
<1>1. UNCHANGED <<journalVars, ledger, posted, cur>>
  BY DEF OmsFilled, Refill
<1>2. PICK i \in 1..Len(ledger) : IsReceipt(cur[c], i) /\ OmsFill(cur[c], i)
  BY DEF OmsFilled, Refill
<1>3. /\ oms'[cur[c]] = "FILLED" /\ obroker'[cur[c]] = i
      /\ oms[cur[c]] = "FILLED" => obroker[cur[c]] = i
      /\ \A s \in Slices : s # cur[c] => oms'[s] = oms[s] /\ obroker'[s] = obroker[s]
  BY <1>0, <1>2, MoverFacts DEF OmsFill, OmsTypeOK, omsVars
<1>4. StoreInv' /\ Advances
  BY <1>0, <1>1, <1>2, <1>3, MoverFacts, OmsStep DEF StoreInv,
     OmsFillsAreReceipts, IsReceipt
<1>5. CallOK(c)' /\ HoldOK(c)' /\ pc'[c] \notin Holding
  BY <1>0, <1>1, <1>3, MoverFacts DEF OmsFilled, Refill, Goto, CallOK, HoldOK,
     Holding, Filled
<1>6. \A d \in Coordinators \ {c} : pc[d] \in Holding =>
         sstate'[cur[d]] = "DISPATCHING" /\ ~Filled(cur[d])'
  BY <1>0, <1>1, MoverFacts DEF Filled, journalVars
<1>7. QED
  BY <1>0, <1>4, <1>5, <1>6, MoverFacts, CallRule

\* mark_filled_unaccounted with the receipt: the only one the ledger has, and
\* the one the OMS order carries.
LEMMA MarkKeeps ==
  ASSUME IInv, NEW c \in Coordinators, Mark(c) \/ Readopt(c)
  PROVE  StoreInv' /\ CallInv'
<1>0. Move(c) /\ cur[c] \in Slices /\ pc[c] \in {"mark", "readopt"}
  BY MoverFacts DEF Move, Step, Mark, Readopt, WithSlice
<1>1. UNCHANGED <<omsVars, ledger, posted, cur>>
  BY DEF Mark, Readopt
<1>2. PICK i \in 1..Len(ledger) :
        IsReceipt(cur[c], i) /\ MarkFilledUnaccounted(cur[c], i)
  BY DEF Mark, Readopt
<1>3. /\ Filled(cur[c])
      /\ oms[cur[c]] = "FILLED"
      /\ sstate[cur[c]] \in Unresolved \cup {"EXECUTED"}
  BY <1>0, MoverFacts DEF CallOK, StoreInv, FillsHaveAnOwner
<1>4. obroker[cur[c]] = i
  BY <1>0, <1>2, <1>3, MoverFacts, ExitAssumption DEF StoreInv, UniqueFills,
     OmsFillsAreReceipts, IsReceipt
<1>5. JournalInv'
  BY <1>0, <1>2, <1>3, MoverFacts, MarkKeepsJournal DEF Unresolved
<1>6. /\ sstate'[cur[c]] \in Recorded /\ sbroker'[cur[c]] = i
      /\ sstate'[cur[c]] = "EXECUTED" => sstate[cur[c]] = "EXECUTED"
      /\ \A s \in Slices : s # cur[c] =>
           sstate'[s] = sstate[s] /\ sbroker'[s] = sbroker[s]
  BY <1>0, <1>2, <1>3, MoverFacts DEF MarkFilledUnaccounted, journalVars,
     Unresolved, Recorded, JournalTypeOK
<1>7. StoreInv' /\ Advances
  BY <1>0, <1>1, <1>3, <1>4, <1>5, <1>6, MoverFacts, JournalStep DEF StoreInv,
     FillsHaveAnOwner, RecordedInOms, BookedBetween, Unresolved, Recorded
<1>8. CallOK(c)' /\ HoldOK(c)' /\ pc'[c] \notin Holding
  BY <1>0, <1>1, <1>6, MoverFacts DEF Mark, Readopt, Goto, CallOK, HoldOK,
     Holding
<1>9. \A d \in Coordinators \ {c} : pc[d] \in Holding =>
         sstate'[cur[d]] = "DISPATCHING" /\ ~Filled(cur[d])'
  BY <1>0, <1>1, <1>3, <1>6, MoverFacts DEF Filled
<1>10. QED
  BY <1>0, <1>7, <1>8, <1>9, MoverFacts, CallRule

\* _post_accounting of a recorded fill, by the call or by a recovery.
LEMMA PostKeeps ==
  ASSUME IInv, NEW c \in Coordinators, Post(c) \/ Account(c)
  PROVE  StoreInv' /\ CallInv'
<1>0. Move(c)
  BY DEF Move, Step
<1>1. UNCHANGED <<journalVars, omsVars, ledger>>
  BY DEF Post, Account
<1>2. \E s \in Slices :
        sstate[s] \in Recorded /\ cur'[c] = s /\ PostAccounting(s)
  <2>1. CASE Post(c)
    BY <1>0, <2>1, MoverFacts DEF Post, CallOK, WithSlice
  <2>2. CASE Account(c)
    BY <1>0, <2>2, MoverFacts DEF Account, CallOK
  <2>3. QED
    BY <2>1, <2>2
<1>3. /\ pc'[c] \in {"finish", "settle"}
      /\ pc'[c] = "settle" => \A t \in todo'[c] : sstate[t] \in Recorded
  BY <1>0, MoverFacts DEF Post, Account, CallOK, Goto
<1>4. \E i \in 1..Len(ledger) :
        /\ ledger[i] = cur'[c] /\ posted' = posted \cup {i}
        /\ cur'[c] \in Slices /\ sstate[ledger[i]] \in Recorded
  BY <1>2 DEF PostAccounting, IsReceipt
<1>5. StoreInv' /\ Advances
  BY <1>0, <1>1, <1>4, MoverFacts, PostingStep
<1>6. CallOK(c)' /\ HoldOK(c)' /\ pc'[c] \notin Holding
  <2>1. Booked(cur[c])' /\ sstate'[cur'[c]] \in Recorded
    BY <1>1, <1>4 DEF Booked, journalVars
  <2>2. QED
    BY <1>1, <1>3, <2>1 DEF CallOK, HoldOK, Holding, journalVars
<1>7. \A d \in Coordinators \ {c} : pc[d] \in Holding =>
         sstate'[cur[d]] = "DISPATCHING" /\ ~Filled(cur[d])'
  BY <1>0, <1>1, MoverFacts DEF Filled, journalVars
<1>8. QED
  BY <1>0, <1>5, <1>6, <1>7, MoverFacts, CallRule

\* mark_executed, after the posting.
LEMMA ExecutedKeeps ==
  ASSUME IInv, NEW c \in Coordinators, Finish(c) \/ Settle(c)
  PROVE  StoreInv' /\ CallInv'
<1>0. Move(c) /\ cur[c] \in Slices /\ pc[c] \in {"finish", "settle"}
  BY MoverFacts DEF Move, Step, Finish, Settle, WithSlice
<1>1. UNCHANGED <<omsVars, ledger, posted, cur, todo>>
  BY DEF Finish, Settle
<1>2. PICK b : MarkExecuted(cur[c], b)
  BY DEF Finish, Settle
<1>3. Booked(cur[c]) /\ sstate[cur[c]] \in Recorded
  BY <1>0, MoverFacts DEF CallOK
<1>4. JournalInv'
  BY <1>0, <1>2, MoverFacts, ExecutedKeepsJournal
<1>5. /\ sstate'[cur[c]] = "EXECUTED" /\ UNCHANGED sbroker
      /\ \A s \in Slices : s # cur[c] => sstate'[s] = sstate[s]
  BY <1>0, <1>2, MoverFacts DEF MarkExecuted, journalVars, JournalTypeOK
<1>6. StoreInv' /\ Advances
  BY <1>0, <1>1, <1>3, <1>4, <1>5, MoverFacts, JournalStep DEF StoreInv,
     FillsHaveAnOwner, RecordedInOms, BookedBetween, Recorded
<1>7. CallOK(c)' /\ HoldOK(c)' /\ pc'[c] \notin Holding
  <2>1. CASE Finish(c)
    BY <1>0, <2>1, MoverFacts DEF Finish, Goto, CallOK, HoldOK, Holding
  <2>2. CASE Settle(c)
    <3>1. \A s \in todo[c] : sstate[s] \in Recorded
      BY <1>0, <2>2, MoverFacts DEF Settle, CallOK
    <3>2. QED
      BY <1>0, <1>1, <1>6, <2>2, <3>1, MoverFacts DEF Settle, Goto, CallOK,
         HoldOK, Holding, Advances
  <2>3. QED
    BY <2>1, <2>2
<1>8. \A d \in Coordinators \ {c} : pc[d] \in Holding =>
         sstate'[cur[d]] = "DISPATCHING" /\ ~Filled(cur[d])'
  BY <1>0, <1>1, <1>3, <1>5, MoverFacts DEF Filled, Recorded
<1>9. QED
  BY <1>0, <1>6, <1>7, <1>8, MoverFacts, CallRule

\* Programs are made and cancelled, and exits commit, under every call: they
\* take no claim away and move no frame.
LEMMA AccountKeeps ==
  ASSUME IInv, (\E p \in Programs : Prepare(p) \/ Cancel(p)) \/ ProtectiveExit
  PROVE  StoreInv' /\ CallInv'
<1>0. /\ StoreInv /\ CallInv /\ JournalInv
      /\ JournalTypeOK /\ LedgerTypeOK
      /\ \A c \in Coordinators : pc[c] \in WithSlice => cur[c] \in Slices
      /\ \A c \in Coordinators : todo[c] \subseteq Slices
  BY DEF IInv, StoreInv, TypeInv, TypeOK, FramesOK, StackTypeOK
<1>1. UNCHANGED stack
  BY DEF Prepare, Cancel, ProtectiveExit
<1>2. /\ StoreInv' /\ Advances
      /\ \A s \in Slices : /\ Filled(s)' => Filled(s)
                           /\ sstate[s] = "DISPATCHING" => sstate'[s] = "DISPATCHING"
  <2>1. CASE \E p \in Programs : Prepare(p) \/ Cancel(p)
    <3>1. PICK p \in Programs : Prepare(p) \/ Cancel(p)
      BY <2>1
    <3>2. UNCHANGED <<omsVars, ledger, posted>> /\ UNCHANGED sbroker
      BY <3>1 DEF Prepare, Cancel, CreateProgram, CancelUnclaimed
    <3>3. JournalInv'
      BY <1>0, <3>1, CreateKeepsJournal, CancelKeepsJournal DEF Prepare, Cancel
    <3>4. \A s \in Slices :
            \/ sstate'[s] = sstate[s]
            \/ /\ sstate[s] \in {"ABSENT", "PENDING"}
               /\ sstate'[s] \in {"PENDING", "CANCELLED"}
      BY <1>0, <3>1 DEF Prepare, Cancel, CreateProgram, CancelUnclaimed,
         JournalInv, OpenOutcomesAreActive, SlicesOf
    <3>5. StoreInv' /\ Advances
      BY <1>0, <3>2, <3>3, <3>4, JournalStep DEF StoreInv, FillsHaveAnOwner,
         RecordedInOms, BookedBetween, Unresolved, Recorded
    <3>6. QED
      BY <3>2, <3>4, <3>5, SameReceipts
  <2>2. CASE ProtectiveExit
    <3>1. /\ ledger' = Append(ledger, Exit)
          /\ UNCHANGED <<journalVars, omsVars, posted>>
      BY <2>2 DEF ProtectiveExit
    <3>2. StoreInv' /\ Advances
      BY <3>1, LedgerStep, ExitAssumption DEF IInv
    <3>3. \A s \in Slices : Filled(s)' => Filled(s)
      BY <1>0, <3>1, AppendReceipts, ExitAssumption
    <3>4. QED
      BY <3>1, <3>2, <3>3 DEF journalVars
  <2>3. QED
    BY <2>1, <2>2
<1>3. HoldersHold' /\ OneHolder'
  <2>1. \A c \in Coordinators : pc[c] \in Holding => cur[c] \in Slices
    BY <1>0 DEF WithSlice
  <2>2. \A c \in Coordinators, s \in Slices :
          s = cur[c] => (Filled(cur[c])' <=> Filled(s)')
    BY <1>1 DEF Filled, stack
  <2>3. QED
    BY <1>0, <1>1, <1>2, <2>1, <2>2 DEF CallInv, HoldersHold, OneHolder, stack
<1>4. ASSUME NEW d \in Coordinators
      PROVE  CallOK(d)'
  <2>1. CallOK(d) /\ pc'[d] = pc[d] /\ cur'[d] = cur[d] /\ todo'[d] = todo[d]
    BY <1>0, <1>1 DEF CallInv, stack
  <2>2. \A s \in Slices : s = cur[d] =>
          /\ Filled(cur[d])' <=> Filled(s)'
          /\ Booked(cur[d])' <=> Booked(s)'
    BY <2>1 DEF Filled, Booked
  <2>3. pc[d] \in WithSlice =>
          /\ Filled(cur[d]) => Filled(cur[d])'
          /\ Booked(cur[d]) => Booked(cur[d])'
          /\ oms[cur[d]] = "FILLED" => oms'[cur[d]] = "FILLED"
          /\ sstate[cur[d]] \in Recorded => sstate'[cur[d]] \in Recorded
    BY <1>0, <1>2, <2>2 DEF Advances
  <2>4. \A s \in todo[d] : sstate[s] \in Recorded => sstate'[s] \in Recorded
    BY <1>0, <1>2 DEF Advances
  <2>5. QED
    BY <2>1, <2>3, <2>4 DEF CallOK, WithSlice
<1>5. QED
  BY <1>2, <1>3, <1>4 DEF CallInv

\* Nothing is created, filled or running at the start.
LEMMA InitIInv == Init => IInv
<1> SUFFICES ASSUME Init
             PROVE  IInv
  OBVIOUS
<1>1. TypeInv
  BY DEF Init, JournalInit, TypeInv, TypeOK, JournalTypeOK, OmsTypeOK,
     LedgerTypeOK, StackTypeOK, FramesOK, WithSlice, Holding
<1>2. JournalInv
  BY SomeSliceAssumption, ProgAssumption DEF Init, JournalInit, JournalInv,
     OneUnresolvedSlice, OpenOutcomesAreActive, ProgramSummarisesSlices,
     SlicesOf, Unresolved
<1>3. StoreInv
  BY <1>2 DEF Init, JournalInit, StoreInv, FillsHaveAnOwner, UniqueFills,
     OmsFillsAreReceipts, RecordedInOms, BookedBetween, Filled, Booked,
     Recorded
<1>4. CallInv
  BY DEF Init, CallInv, HoldersHold, OneHolder, CallOK, Holding
<1>5. QED
  BY <1>1, <1>3, <1>4 DEF IInv

\* IInv is inductive.
LEMMA IInvStep == IInv /\ [Next]_vars => IInv'
<1> SUFFICES ASSUME IInv, [Next]_vars
             PROVE  IInv'
  OBVIOUS
<1>1. TypeInv'
  BY TypeInvStep DEF IInv
<1>2. CASE UNCHANGED vars
  <2>1. StoreInv'
    BY <1>2, QuietStep DEF IInv, vars
  <2>2. CallInv'
    BY <1>2 DEF IInv, CallInv, HoldersHold, OneHolder, CallOK, Filled, Booked,
       vars, journalVars, omsVars, stack
  <2>3. QED
    BY <1>1, <2>1, <2>2 DEF IInv
<1>3. ASSUME NEW c \in Coordinators, Step(c) \/ Entry(c) \/ Fault(c)
      PROVE  StoreInv' /\ CallInv'
  BY <1>3, QuietKeeps, MirrorKeeps, ClaimKeeps, ChecksFailKeeps,
     OmsOpeningKeeps, SubmitKeeps, OmsFillKeeps, MarkKeeps, PostKeeps,
     ExecutedKeeps DEF Step
<1>4. QED
  BY <1>1, <1>2, <1>3, AccountKeeps DEF Next, Entry, IInv

-----------------------------------------------------------------------------
(* What follows from it.                                                   *)

LEMMA Invariance == Spec => []IInv
BY InitIInv, IInvStep, PTL DEF Spec

\* claim_slice fences the account: at any time at most one slice of any
\* program has an open outcome, for any number of coordinators and faults.
THEOREM Fenced == Spec => []OneUnresolvedSlice
<1>1. IInv => OneUnresolvedSlice
  BY DEF IInv, StoreInv, JournalInv
<1>2. QED
  BY <1>1, Invariance, PTL

\* A fill in the paper ledger always belongs to a slice that is claimed,
\* recorded or executed: no failed, cancelled or unclaimed slice has traded.
THEOREM FillsOwned == Spec => []FillsHaveAnOwner
<1>1. IInv => FillsHaveAnOwner
  BY DEF IInv, StoreInv
<1>2. QED
  BY <1>1, Invariance, PTL

\* The execution_programs row is the summary of its slices' states.
THEOREM ProgramSummary == Spec => []ProgramSummarisesSlices
<1>1. IInv => ProgramSummarisesSlices
  BY DEF IInv, StoreInv, JournalInv
<1>2. QED
  BY <1>1, Invariance, PTL

\* A receipt is unique, so every store that names a fill of s names this one.
LEMMA OneReceipt ==
  ASSUME UniqueFills, NEW s \in Slices, NEW i, NEW j,
         IsReceipt(s, i), IsReceipt(s, j)
  PROVE  i = j
BY ExitAssumption DEF UniqueFills, IsReceipt

\* mark_executed is the last word: when a slice is EXECUTED, the ledger, the
\* OMS and the accounting journal all hold the fill under the same id.
THEOREM ExecutedAgrees == Spec => []ExecutedEverywhere
<1>1. IInv => ExecutedEverywhere
  <2> SUFFICES ASSUME IInv, NEW s \in Slices, sstate[s] = "EXECUTED"
               PROVE  /\ IsReceipt(s, sbroker[s])
                      /\ oms[s] = "FILLED"
                      /\ obroker[s] = sbroker[s]
                      /\ sbroker[s] \in posted
    BY DEF ExecutedEverywhere
  <2>1. oms[s] = "FILLED" /\ obroker[s] = sbroker[s] /\ IsReceipt(s, obroker[s])
    BY DEF IInv, StoreInv, RecordedInOms, OmsFillsAreReceipts, Recorded
  <2>2. PICK i \in posted : ledger[i] = s
    BY DEF IInv, StoreInv, BookedBetween, Booked
  <2>3. IsReceipt(s, i)
    BY <2>2 DEF IInv, TypeInv, TypeOK, LedgerTypeOK, IsReceipt
  <2>4. i = sbroker[s]
    BY <2>1, <2>3, OneReceipt DEF IInv, StoreInv
  <2>5. QED
    BY <2>1, <2>2, <2>4
<1>2. QED
  BY <1>1, Invariance, PTL

\* Accounting never runs ahead of the OMS and of the program journal.
THEOREM AccountingFollows == Spec => []PostedAfterRecorded
<1>1. IInv => PostedAfterRecorded
  <2> SUFFICES ASSUME IInv, NEW i \in posted, ledger[i] # Exit
               PROVE  /\ sstate[ledger[i]] \in {"FILLED_UNACCOUNTED", "EXECUTED"}
                      /\ oms[ledger[i]] = "FILLED"
                      /\ obroker[ledger[i]] = i
    BY DEF PostedAfterRecorded
  <2>1. ledger[i] \in Slices /\ IsReceipt(ledger[i], i)
    BY DEF IInv, TypeInv, TypeOK, LedgerTypeOK, IsReceipt
  <2>2. sstate[ledger[i]] \in Recorded
    BY <2>1 DEF IInv, StoreInv, BookedBetween, Booked
  <2>3. oms[ledger[i]] = "FILLED" /\ IsReceipt(ledger[i], obroker[ledger[i]])
    BY <2>1, <2>2 DEF IInv, StoreInv, RecordedInOms, OmsFillsAreReceipts
  <2>4. obroker[ledger[i]] = i
    BY <2>1, <2>3, OneReceipt DEF IInv, StoreInv
  <2>5. QED
    BY <2>2, <2>3, <2>4 DEF Recorded
<1>2. QED
  BY <1>1, Invariance, PTL

\* Whenever a call is about to submit, the journal shows what the ledger's
\* assert_bound_entry demands: an ACTIVE program whose one unresolved slice is
\* this one, claimed and without a broker order, and no other submitter.
THEOREM SubmissionHoldsClaim == Spec => []ClaimHeldAtSubmission
<1>1. IInv => ClaimHeldAtSubmission
  <2> SUFFICES ASSUME IInv, NEW c \in Coordinators, pc[c] = "submit"
               PROVE  /\ pstate[Prog[cur[c]]] = "ACTIVE"
                      /\ sstate[cur[c]] = "DISPATCHING"
                      /\ sbroker[cur[c]] = NoOrder
                      /\ \A s \in Slices : sstate[s] \in Unresolved => s = cur[c]
                      /\ \A d \in Coordinators : pc[d] = "submit" => d = c
    BY DEF ClaimHeldAtSubmission
  <2>1. cur[c] \in Slices /\ sstate[cur[c]] = "DISPATCHING"
    BY DEF IInv, TypeInv, FramesOK, CallInv, HoldersHold, WithSlice, Holding
  <2>2. \A d \in Coordinators : pc[d] = "submit" => d = c
    BY DEF IInv, CallInv, OneHolder, Holding
  <2>3. QED
    BY <2>1, <2>2 DEF IInv, StoreInv, JournalInv, OpenOutcomesAreActive,
       OneUnresolvedSlice, RecordedInOms, Recorded, Unresolved
<1>2. QED
  BY <1>1, Invariance, PTL

-----------------------------------------------------------------------------
(* Ended programs.                                                         *)

Ended == {"COMPLETE", "FAILED", "CANCELLED"}

\* The journal calls of a step, each with what the invariant adds to it.
LEMMA JournalCalls ==
  ASSUME IInv, Next
  PROVE  \/ UNCHANGED journalVars
         \/ \E p \in Programs : CreateProgram(p) \/ CancelUnclaimed(p)
         \/ \E s \in Slices : ClaimSlice(s)
         \/ \E s \in Slices : MarkFailed(s) /\ sstate[s] = "DISPATCHING"
         \/ \E s \in Slices, b \in Nat :
              /\ MarkFilledUnaccounted(s, b)
              /\ sstate[s] \in Unresolved \cup {"EXECUTED"}
         \/ \E s \in Slices : \E b : MarkExecuted(s, b)
<1>1. CASE \E p \in Programs : Prepare(p) \/ Cancel(p)
  BY <1>1 DEF Prepare, Cancel
<1>2. CASE ProtectiveExit
  BY <1>2 DEF ProtectiveExit
<1>3. ASSUME NEW c \in Coordinators, Step(c) \/ Entry(c) \/ Fault(c)
      PROVE  \/ UNCHANGED journalVars
             \/ \E s \in Slices : ClaimSlice(s)
             \/ \E s \in Slices : MarkFailed(s) /\ sstate[s] = "DISPATCHING"
             \/ \E s \in Slices, b \in Nat :
                  /\ MarkFilledUnaccounted(s, b)
                  /\ sstate[s] \in Unresolved \cup {"EXECUTED"}
             \/ \E s \in Slices : \E b : MarkExecuted(s, b)
  <2>0. Move(c)
    BY <1>3 DEF Move
  <2>1. CASE Claim(c)
    BY <2>0, <2>1, MoverFacts DEF Claim, WithSlice
  <2>2. CASE ChecksFail(c)
    BY <2>0, <2>2, MoverFacts DEF ChecksFail, WithSlice, Holding
  <2>3. CASE Mark(c) \/ Readopt(c)
    <3>1. PICK i \in 1..Len(ledger) : MarkFilledUnaccounted(cur[c], i)
      BY <2>3 DEF Mark, Readopt
    <3>2. cur[c] \in Slices /\ Filled(cur[c])
      BY <2>0, <2>3, MoverFacts DEF Mark, Readopt, WithSlice, CallOK
    <3>3. sstate[cur[c]] \in Unresolved \cup {"EXECUTED"}
      BY <3>2 DEF IInv, StoreInv, FillsHaveAnOwner
    <3>4. i \in Nat
      BY DEF IInv, TypeInv, TypeOK, LedgerTypeOK
    <3>5. QED
      BY <3>1, <3>2, <3>3, <3>4
  <2>4. CASE Finish(c) \/ Settle(c)
    BY <2>0, <2>4, MoverFacts DEF Finish, Settle, WithSlice
  <2>5. CASE Entry(c) \/ Fault(c) \/ ReadDue(c) \/ NextDue(c) \/ DueDone(c)
             \/ ClaimRefused(c) \/ ChecksPass(c)
    BY <2>5 DEF Entry, ExecuteDue, Reconcile, Fault, ReadDue, NextDue,
       DueDone, ClaimRefused, ChecksPass
  <2>6. CASE MirrorBeforeClaim(c) \/ MirrorAfterRecovery(c) \/ OmsCreate(c)
             \/ OmsApprove(c) \/ OmsSubmitted(c) \/ BrokerSubmit(c)
             \/ OmsFilled(c) \/ Refill(c) \/ Post(c) \/ Account(c)
    BY <2>6 DEF MirrorBeforeClaim, MirrorAfterRecovery, OmsCreate, OmsApprove,
       OmsSubmitted, BrokerSubmit, OmsFilled, Refill, Post, Account
  <2>7. CASE ScanUnresolved(c) \/ ScanReceipt(c) \/ ScanDone(c)
             \/ AccountDone(c)
    BY <2>7 DEF ScanUnresolved, ScanReceipt, ScanDone, AccountDone
  <2>8. QED
    BY <1>3, <2>1, <2>2, <2>3, <2>4, <2>5, <2>6, <2>7 DEF Step
<1>4. QED
  BY <1>1, <1>2, <1>3 DEF Next, Entry

\* A program that is COMPLETE, FAILED or CANCELLED keeps that state, although
\* mark_filled_unaccounted writes ACTIVE without reading it: the slice it
\* marks is unresolved, so its program was ACTIVE.
THEOREM EndedForGood == Spec => EndedProgramsStayEnded
<1> DEFINE Keeps == \A p \in Programs :
                      pstate[p] \in Ended => pstate'[p] = pstate[p]
<1>1. ASSUME IInv, [Next]_vars
      PROVE  Keeps
  <2>0. /\ JournalTypeOK /\ OpenOutcomesAreActive /\ ProgramSummarisesSlices
        /\ \A s \in Slices : Prog[s] \in Programs
    BY <1>1, ProgAssumption DEF IInv, TypeInv, TypeOK, StoreInv, JournalInv
  <2>1. CASE UNCHANGED journalVars
    BY <2>1 DEF journalVars
  <2>2. CASE \E p \in Programs : CreateProgram(p) \/ CancelUnclaimed(p)
    BY <2>0, <2>2 DEF CreateProgram, CancelUnclaimed, Ended, JournalTypeOK
  <2>3. CASE \E s \in Slices : ClaimSlice(s)
    BY <2>0, <2>3 DEF ClaimSlice, Claimable, Ended, JournalTypeOK
  <2>4. CASE \E s \in Slices : MarkFailed(s) /\ sstate[s] = "DISPATCHING"
    BY <2>0, <2>4 DEF MarkFailed, Ended, JournalTypeOK, OpenOutcomesAreActive,
       Unresolved
  <2>5. CASE \E s \in Slices, b \in Nat :
               /\ MarkFilledUnaccounted(s, b)
               /\ sstate[s] \in Unresolved \cup {"EXECUTED"}
    BY <2>0, <2>5 DEF MarkFilledUnaccounted, journalVars, Ended,
       JournalTypeOK, OpenOutcomesAreActive, Unresolved
  <2>6. CASE \E s \in Slices : \E b : MarkExecuted(s, b)
    BY <2>0, <2>6 DEF MarkExecuted, journalVars, Ended, JournalTypeOK,
       OpenOutcomesAreActive, Unresolved
  <2>7. QED
    BY <1>1, <2>1, <2>2, <2>3, <2>4, <2>5, <2>6, JournalCalls DEF vars
<1>2. IInv /\ [Next]_vars =>
        [\A p \in Programs : pstate[p] \in {"COMPLETE", "FAILED", "CANCELLED"}
            => pstate'[p] = pstate[p]]_vars
  BY <1>1 DEF Ended
<1>3. QED
  BY <1>2, Invariance, PTL DEF Spec, EndedProgramsStayEnded

-----------------------------------------------------------------------------
(* Exits are booked in order.                                              *)

\* How a step moves the ledger and the accounting journal.
LEMMA BookKeeping ==
  ASSUME IInv, Next
  PROVE  \/ UNCHANGED <<ledger, posted>>
         \/ /\ UNCHANGED <<journalVars, posted>>
            /\ \E e \in Slices \cup {Exit} :
                 /\ ledger' = Append(ledger, e)
                 /\ e \in Slices => ~Filled(e) /\ sstate[e] = "DISPATCHING"
         \/ /\ UNCHANGED <<journalVars, ledger>>
            /\ \E s \in Slices, i \in 1..Len(ledger) :
                 ledger[i] = s /\ posted' = posted \cup {i}
         \/ /\ UNCHANGED <<journalVars, ledger>>
            /\ \E c \in Coordinators : MirrorPosts(c)
<1>1. CASE (\E p \in Programs : Prepare(p) \/ Cancel(p)) \/ ProtectiveExit
  BY <1>1, ExitAssumption DEF Prepare, Cancel, ProtectiveExit
<1>2. ASSUME NEW c \in Coordinators, Step(c) \/ Entry(c) \/ Fault(c)
      PROVE  \/ UNCHANGED <<ledger, posted>>
             \/ /\ UNCHANGED <<journalVars, posted>>
                /\ \E e \in Slices \cup {Exit} :
                     /\ ledger' = Append(ledger, e)
                     /\ e \in Slices => ~Filled(e) /\ sstate[e] = "DISPATCHING"
             \/ /\ UNCHANGED <<journalVars, ledger>>
                /\ \E s \in Slices, i \in 1..Len(ledger) :
                     ledger[i] = s /\ posted' = posted \cup {i}
             \/ UNCHANGED <<journalVars, ledger>> /\ MirrorPosts(c)
  <2>0. Move(c)
    BY <1>2 DEF Move
  <2>1. CASE BrokerSubmit(c)
    BY <2>0, <2>1, MoverFacts DEF BrokerSubmit, WithSlice, Holding
  <2>2. CASE Post(c) \/ Account(c)
    <3>1. \E s \in Slices : PostAccounting(s)
      BY <2>0, <2>2, MoverFacts DEF Post, Account, WithSlice
    <3>2. QED
      BY <2>2, <3>1 DEF Post, Account, PostAccounting, IsReceipt
  <2>3. CASE MirrorBeforeClaim(c) \/ MirrorAfterRecovery(c)
    BY <2>3 DEF MirrorBeforeClaim, MirrorAfterRecovery, MirrorMatched,
       MirrorUnmatched, MirrorNotRequired, MirrorUnavailable
  <2>4. CASE Entry(c) \/ Fault(c) \/ ReadDue(c) \/ NextDue(c) \/ DueDone(c)
             \/ Claim(c) \/ ClaimRefused(c) \/ ChecksPass(c) \/ ChecksFail(c)
    BY <2>4 DEF Entry, ExecuteDue, Reconcile, Fault, ReadDue, NextDue,
       DueDone, Claim, ClaimRefused, ChecksPass, ChecksFail
  <2>5. CASE OmsCreate(c) \/ OmsApprove(c) \/ OmsSubmitted(c) \/ OmsFilled(c)
             \/ Refill(c) \/ Mark(c) \/ Readopt(c) \/ Finish(c) \/ Settle(c)
    BY <2>5 DEF OmsCreate, OmsApprove, OmsSubmitted, OmsFilled, Refill, Mark,
       Readopt, Finish, Settle
  <2>6. CASE ScanUnresolved(c) \/ ScanReceipt(c) \/ ScanDone(c)
             \/ AccountDone(c)
    BY <2>6 DEF ScanUnresolved, ScanReceipt, ScanDone, AccountDone
  <2>7. QED
    BY <1>2, <2>1, <2>2, <2>3, <2>4, <2>5, <2>6 DEF Step
<1>3. QED
  BY <1>1, <1>2 DEF Next, Entry

\* When the mirror has posted a protective exit, every earlier fill of the
\* account is posted: the exit's cost basis is settled before the exit is.
THEOREM ExitsInOrder == Spec => []ExitsPostedInOrder
<1>1. Init => ExitsPostedInOrder
  BY DEF Init, ExitsPostedInOrder
<1>2. ASSUME IInv, ExitsPostedInOrder, [Next]_vars
      PROVE  ExitsPostedInOrder'
  <2>0. /\ ledger \in Seq(Slices \cup {Exit})
        /\ Len(ledger) \in Nat
        /\ posted \subseteq 1..Len(ledger)
        /\ \A c \in Coordinators : snap[c] \in Nat /\ snap[c] <= Len(ledger)
    BY <1>2 DEF IInv, TypeInv, TypeOK, LedgerTypeOK, FramesOK, StackTypeOK
  <2>1. CASE UNCHANGED <<ledger, posted>>
    BY <1>2, <2>1 DEF ExitsPostedInOrder
  <2>2. CASE UNCHANGED posted /\ \E e \in Slices \cup {Exit} : ledger' = Append(ledger, e)
    <3>1. \A i \in posted : ledger'[i] = ledger[i]
      BY <2>0, <2>2, AppendKeeps
    <3>2. QED
      BY <1>2, <2>2, <3>1 DEF ExitsPostedInOrder
  <2>3. CASE /\ UNCHANGED ledger
             /\ \E s \in Slices, i \in 1..Len(ledger) :
                  ledger[i] = s /\ posted' = posted \cup {i}
    BY <1>2, <2>3, ExitAssumption DEF ExitsPostedInOrder
  <2>4. ASSUME NEW c \in Coordinators, UNCHANGED ledger, MirrorPosts(c)
        PROVE  ExitsPostedInOrder'
    <3>1. \A i \in 1..snap[c] :
            i \in ExitsUpTo(snap[c]) \/ i \in StrategyUpTo(snap[c])
      BY DEF ExitsUpTo, StrategyUpTo
    <3>2. 1..snap[c] \subseteq posted'
      BY <2>4, <3>1 DEF MirrorPosts
    <3>3. \A i \in ExitsUpTo(snap[c]) : 1..i \subseteq 1..snap[c]
      BY <2>0 DEF ExitsUpTo
    <3>4. ASSUME NEW i \in posted', ledger'[i] = Exit
          PROVE  1..i \subseteq posted'
      <4>1. CASE i \in posted
        BY <1>2, <2>4, <3>4, <4>1 DEF ExitsPostedInOrder, MirrorPosts
      <4>2. CASE i \in ExitsUpTo(snap[c])
        BY <3>2, <3>3, <4>2
      <4>3. QED
        BY <2>4, <3>4, <4>1, <4>2 DEF MirrorPosts
    <3>5. QED
      BY <3>4 DEF ExitsPostedInOrder
  <2>5. QED
    BY <1>2, <2>1, <2>2, <2>3, <2>4, BookKeeping DEF vars
<1>3. QED
  BY <1>1, <1>2, Invariance, PTL DEF Spec

-----------------------------------------------------------------------------
(* Refinement.                                                             *)

\* A step that moves neither the ledger nor the accounting journal closes
\* slices that have not traded, or shows nothing.
LEMMA ClosingStep ==
  ASSUME IInv, Next, UNCHANGED <<ledger, posted>>
  PROVE  \A s \in Slices :
           \/ Outcome(s)' = Outcome(s)
           \/ Outcome(s) = "open" /\ Outcome(s)' = "closed"
<1>1. \A s \in Slices : sstate[s] \in {"FAILED", "CANCELLED"} =>
                          sstate'[s] = sstate[s]
  <2>0. /\ JournalTypeOK /\ OpenOutcomesAreActive
    BY DEF IInv, TypeInv, TypeOK, StoreInv, JournalInv
  <2>1. CASE UNCHANGED journalVars
    BY <2>1 DEF journalVars
  <2>2. CASE \E p \in Programs : CreateProgram(p) \/ CancelUnclaimed(p)
    BY <2>0, <2>2 DEF CreateProgram, CancelUnclaimed, SlicesOf, JournalTypeOK,
       OpenOutcomesAreActive
  <2>3. CASE \E s \in Slices : ClaimSlice(s)
    BY <2>0, <2>3 DEF ClaimSlice, Claimable, JournalTypeOK
  <2>4. CASE \E s \in Slices : MarkFailed(s) /\ sstate[s] = "DISPATCHING"
    BY <2>0, <2>4 DEF MarkFailed, JournalTypeOK
  <2>5. CASE \E s \in Slices, b \in Nat : MarkFilledUnaccounted(s, b)
    BY <2>0, <2>5 DEF MarkFilledUnaccounted, journalVars, JournalTypeOK
  <2>6. CASE \E s \in Slices : \E b : MarkExecuted(s, b)
    BY <2>0, <2>6 DEF MarkExecuted, journalVars, JournalTypeOK
  <2>7. QED
    BY <2>1, <2>2, <2>3, <2>4, <2>5, <2>6, JournalCalls
<1>2. QED
  BY <1>1 DEF Outcome, Filled

\* Every child order is closed untraded for good, or traded once and booked
\* once, one at a time: paper execution implements SliceOutcome whatever
\* crashes, whoever recovers and however the coordinators interleave.
THEOREM Refinement == Spec => ImplementsOutcome
<1> DEFINE out == [s \in Slices |-> Outcome(s)]
<1>1. Init => Abstract!Init
  BY DEF Init, JournalInit, Abstract!Init, Outcome, Filled
<1>2. ASSUME IInv, [Next]_vars
      PROVE  [Abstract!Next]_out
  <2>0. /\ StoreInv /\ LedgerTypeOK /\ OneUnresolvedSlice
        /\ FillsHaveAnOwner /\ BookedBetween
    BY <1>2 DEF IInv, TypeInv, TypeOK, StoreInv, JournalInv
  <2>1. CASE UNCHANGED vars
    BY <2>1 DEF Outcome, Filled, vars, journalVars
  <2>2. CASE Next /\ UNCHANGED <<ledger, posted>>
    <3> DEFINE S == {s \in Slices : Outcome(s) = "open" /\ Outcome(s)' = "closed"}
    <3>1. \A s \in Slices : Outcome(s)' = IF s \in S THEN "closed" ELSE Outcome(s)
      BY <1>2, <2>2, ClosingStep
    <3>2. Abstract!Close(S)
      BY <3>1 DEF Abstract!Close
    <3>3. QED
      BY <3>2 DEF Abstract!Next
  <2>3. ASSUME UNCHANGED <<journalVars, posted>>,
               NEW e \in Slices \cup {Exit},
               ledger' = Append(ledger, e),
               e \in Slices => ~Filled(e) /\ sstate[e] = "DISPATCHING"
        PROVE  [Abstract!Next]_out
    <3>1. \A s \in Slices : /\ Filled(s)' <=> Filled(s) \/ s = e
                            /\ Booked(s)' <=> Booked(s)
                            /\ sstate'[s] = sstate[s]
      BY <2>0, <2>3, AppendReceipts DEF journalVars
    <3>2. \A s \in Slices : s # e => Outcome(s)' = Outcome(s)
      BY <3>1 DEF Outcome, Booked
    <3>3. CASE e \in Slices
      <4>1. ~Booked(e)
        BY <2>0, <2>3, <3>3 DEF BookedBetween, Recorded
      <4>2. Outcome(e) = "open" /\ Outcome(e)' = "traded"
        BY <2>3, <3>1, <3>3, <4>1 DEF Outcome, Booked
      <4>3. ASSUME NEW t \in Slices
            PROVE  Outcome(t) # "traded"
        BY <2>0, <2>3, <3>3 DEF Outcome, Booked, FillsHaveAnOwner,
           BookedBetween, OneUnresolvedSlice, Unresolved
      <4>4. Abstract!Trade(e)
        BY <3>2, <3>3, <4>2, <4>3 DEF Abstract!Trade
      <4>5. QED
        BY <3>3, <4>4 DEF Abstract!Next
    <3>4. CASE e \notin Slices
      BY <3>2, <3>4
    <3>5. QED
      BY <3>3, <3>4
  <2>4. ASSUME UNCHANGED <<journalVars, ledger>>, NEW s \in Slices,
               NEW i \in 1..Len(ledger), ledger[i] = s,
               posted' = posted \cup {i}
        PROVE  [Abstract!Next]_out
    <3>1. \A t \in Slices : t # s => Outcome(t)' = Outcome(t)
      BY <2>4 DEF Outcome, Filled, journalVars
    <3>2. Outcome(s)' = "booked" /\ Outcome(s) \in {"booked", "traded"}
      BY <2>4 DEF Outcome, Filled
    <3>3. CASE Outcome(s) = "booked"
      BY <3>1, <3>2, <3>3
    <3>4. CASE Outcome(s) = "traded"
      <4>1. Abstract!Book(s)
        BY <3>1, <3>2, <3>4 DEF Abstract!Book
      <4>2. QED
        BY <4>1 DEF Abstract!Next
    <3>5. QED
      BY <3>2, <3>3, <3>4
  <2>5. ASSUME UNCHANGED <<journalVars, ledger>>, NEW c \in Coordinators,
               MirrorPosts(c)
        PROVE  [Abstract!Next]_out
    <3>1. \A i \in posted' \ posted : ledger[i] = Exit
      BY <2>5 DEF MirrorPosts, ExitsUpTo
    <3>2. \A s \in Slices : Outcome(s)' = Outcome(s)
      BY <2>5, <3>1, ExitAssumption DEF Outcome, Filled, MirrorPosts,
         journalVars
    <3>3. QED
      BY <3>2
  <2>6. QED
    BY <1>2, <2>1, <2>2, <2>3, <2>4, <2>5, BookKeeping
<1>3. QED
  BY <1>1, <1>2, Invariance, PTL DEF Spec, ImplementsOutcome, Abstract!Spec
=============================================================================
