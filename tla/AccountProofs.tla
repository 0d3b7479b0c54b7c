---------------------------- MODULE AccountProofs ----------------------------
(***************************************************************************)
(* Theorems about what an account may lose and what it is measured by: its *)
(* loss budget and the history its two databases share (SharedRisk.tla),   *)
(* deposits beside the process that measures the drawdown                  *)
(* (CapitalContribution.tla), the result of closed positions that          *)
(* decisions are credited with (DecisionOutcomes.tla) and the double-entry *)
(* journal of its fills (TradingBooks.tla), for any programs, slices,      *)
(* losses per share, budget, number of faults, deposits, gains, days,      *)
(* decisions, prices, fees, margin per unit and number of fills.           *)
(***************************************************************************)
EXTENDS SharedRisk, CapitalContribution, DecisionOutcomes, TradingBooks, FiniteSumTheorems,
        SequenceTheorems

-----------------------------------------------------------------------------
(* The charge of the open shares.                                          *)

UnitLoss == [s \in Slices |-> PerUnit[Prog[s]]]

\* Sums of losses are sums of natural numbers over finite sets.
LEMMA Losses ==
  ASSUME NEW S, S \subseteq Slices
  PROVE  /\ IsFiniteSet(S) /\ Cardinality(S) \in Nat
         /\ \A s \in S : UnitLoss[s] \in Nat /\ UnitLoss[s] = PerUnit[Prog[s]]
         /\ LossOf(S) = SumOf(UnitLoss, S)
         /\ LossOf(S) \in Nat
<1>1. IsFiniteSet(S)
  BY SlicesAssumption, FS_Subset
<1>2. \A s \in S : UnitLoss[s] \in Nat /\ UnitLoss[s] = PerUnit[Prog[s]]
  BY PerUnitAssumption, ProgAssumption DEF UnitLoss
<1>3. LossOf(S) = SumOf(UnitLoss, S)
  BY DEF LossOf, UnitLoss
<1>. QED  BY <1>1, <1>2, <1>3, SumNat, FS_CardinalityType

\* Fewer shares lose less.
LEMMA LossGrows ==
  ASSUME NEW S, S \subseteq Slices, NEW R, R \subseteq S
  PROVE  LossOf(R) <= LossOf(S)
BY Losses, SumSubset

\* The open shares lose what the others lose and the loss of the new one.
LEMMA LossOfOneMore ==
  ASSUME NEW S, S \subseteq Slices, NEW s \in Slices, s \notin S
  PROVE  LossOf(S \cup {s}) = LossOf(S) + UnitLoss[s]
<1>1. /\ IsFiniteSet(S) /\ UnitLoss[s] \in Int
      /\ \A t \in S : UnitLoss[t] \in Int
  BY Losses
<1>2. SumOf(UnitLoss, S \cup {s}) = SumOf(UnitLoss, S) + UnitLoss[s]
  BY <1>1, SumAdd
<1>. QED  BY <1>2, Losses

ChargedBefore(F, s) == {t \in F : ChargedFirst(t, s)}
Charged(F, k) == {s \in F : Cardinality(ChargedBefore(F, s)) < k}

\* sorted(candidates, reverse=True) is an order: what comes before s's predecessor comes
\* before s, and nothing comes before itself.
LEMMA ChargedOrder ==
  ASSUME NEW F, F \subseteq Slices, NEW s \in F, NEW t \in F
  PROVE  /\ t \notin ChargedBefore(F, t)
         /\ ChargedFirst(t, s) => ChargedBefore(F, t) \subseteq ChargedBefore(F, s)
         /\ UnitLoss[t] > UnitLoss[s] => ChargedBefore(F, t) \subseteq ChargedBefore(F, s)
<1>. SUFFICES ASSUME NEW r \in F
              PROVE  /\ ~ ChargedFirst(r, r)
                     /\ ChargedFirst(t, s) /\ ChargedFirst(r, t) => ChargedFirst(r, s)
                     /\ UnitLoss[t] > UnitLoss[s] /\ ChargedFirst(r, t) => ChargedFirst(r, s)
  BY DEF ChargedBefore
<1>1. /\ UnitLoss[s] \in Nat /\ UnitLoss[s] = PerUnit[Prog[s]]
      /\ UnitLoss[t] \in Nat /\ UnitLoss[t] = PerUnit[Prog[t]]
      /\ UnitLoss[r] \in Nat /\ UnitLoss[r] = PerUnit[Prog[r]]
  BY Losses
<1>2. Sequence[s] \in Nat /\ Sequence[t] \in Nat /\ Sequence[r] \in Nat
  BY SeqAssumption
<1>. QED  BY <1>1, <1>2 DEF ChargedFirst

\* At least k shares are charged, if there are that many.
LEMMA EnoughCharged ==
  ASSUME NEW F, F \subseteq Slices, NEW k \in Nat, k <= Cardinality(F)
  PROVE  k <= Cardinality(Charged(F, k))
<1>. DEFINE C == Charged(F, k)
            Rest == F \ C
            Family == {ChargedBefore(F, s) : s \in Rest}
<1>. SUFFICES ASSUME ~ (k <= Cardinality(C)) PROVE FALSE
  OBVIOUS
<1>1. /\ IsFiniteSet(F) /\ IsFiniteSet(C) /\ C \subseteq F
      /\ Cardinality(F) \in Nat /\ Cardinality(C) \in Nat
  <2>1. C \subseteq F /\ C \subseteq Slices
    BY DEF Charged
  <2>. QED  BY <2>1, Losses
<1>2. Rest # {}
  <2>. SUFFICES ASSUME Rest = {} PROVE FALSE
    OBVIOUS
  <2>1. C = F
    BY <1>1
  <2>. QED  BY <1>1, <2>1
<1>3. PICK B \in Family : \A U \in Family : U \subseteq B => U = B
  <2>1. Family # {} /\ Family \subseteq SUBSET F
    BY <1>2 DEF ChargedBefore
  <2>. HIDE DEF Family
  <2>. QED  BY <1>1, <2>1, MinimalSubset
<1>4. PICK s \in Rest : B = ChargedBefore(F, s)
  BY <1>3
<1>5. ChargedBefore(F, s) \subseteq C
  <2>. SUFFICES ASSUME NEW t \in ChargedBefore(F, s), t \notin C PROVE FALSE
    OBVIOUS
  <2>1. t \in Rest /\ s \in F /\ t \in F /\ ChargedFirst(t, s)
    BY <1>4 DEF ChargedBefore
  <2>2. t \notin ChargedBefore(F, t) /\ ChargedBefore(F, t) \subseteq ChargedBefore(F, s)
    BY <2>1, ChargedOrder
  <2>. QED  BY <1>3, <1>4, <2>1, <2>2
<1>6. Cardinality(ChargedBefore(F, s)) \in Nat /\ Cardinality(ChargedBefore(F, s)) <= Cardinality(C)
  BY <1>1, <1>5, FS_Subset, FS_CardinalityType
<1>7. ~ (Cardinality(ChargedBefore(F, s)) < k)
  BY <1>4 DEF Charged
<1>. QED
  <2>. HIDE DEF C
  <2>. QED  BY <1>1, <1>6, <1>7

\* The shares that are charged lose at least as much as any other set of as many shares,
\* whichever of them the exits closed.
LEMMA ChargeCoversAny ==
  ASSUME NEW F, F \subseteq Slices, NEW X, X \subseteq F
  PROVE  LossOf(X) <= LossOf(Charged(F, Cardinality(X)))
<1>. DEFINE k == Cardinality(X)
            C == Charged(F, k)
            A == X \ C
            B == C \ X
            Both == X \cap C
<1>1. C \subseteq F
  BY DEF Charged
<1>2. /\ X \subseteq Slices /\ C \subseteq Slices /\ A \subseteq Slices /\ B \subseteq Slices
      /\ Both \subseteq Slices
  BY <1>1
<1>3. /\ IsFiniteSet(F) /\ IsFiniteSet(X) /\ IsFiniteSet(C) /\ IsFiniteSet(A)
      /\ IsFiniteSet(B) /\ IsFiniteSet(Both)
      /\ Cardinality(F) \in Nat /\ k \in Nat /\ Cardinality(C) \in Nat
      /\ Cardinality(A) \in Nat /\ Cardinality(B) \in Nat /\ Cardinality(Both) \in Nat
  <2>. HIDE DEF A, B, C, Both
  <2>. QED  BY <1>2, Losses
<1>4. k <= Cardinality(C)
  <2>1. k <= Cardinality(F)
    BY <1>3, FS_Subset
  <2>. QED  BY <1>3, <2>1, EnoughCharged
<1>5. /\ Cardinality(A) = k - Cardinality(Both)
      /\ Cardinality(B) = Cardinality(C) - Cardinality(Both)
  <2>1. /\ Cardinality(X \ C) = Cardinality(X) - Cardinality(X \cap C)
        /\ Cardinality(C \ X) = Cardinality(C) - Cardinality(C \cap X)
    <3>. HIDE DEF C
    <3>. QED  BY <1>3, FS_Difference
  <2>2. C \cap X = X \cap C
    OBVIOUS
  <2>. QED  BY <2>1, <2>2
<1>6. Cardinality(A) <= Cardinality(B)
  <2>. HIDE DEF A, B, C, Both, k
  <2>. QED  BY <1>3, <1>4, <1>5
<1>7. ASSUME NEW x \in A, NEW y \in B
      PROVE  UnitLoss[x] <= UnitLoss[y]
  <2>. SUFFICES ASSUME ~ (UnitLoss[x] <= UnitLoss[y]) PROVE FALSE
    OBVIOUS
  <2>1. x \in F /\ y \in F /\ x \notin C /\ y \in C
    BY <1>1
  <2>2. UnitLoss[x] \in Nat /\ UnitLoss[y] \in Nat
    BY <2>1, Losses
  <2>3. ChargedBefore(F, x) \subseteq ChargedBefore(F, y)
    BY <2>1, <2>2, ChargedOrder
  <2>4. /\ Cardinality(ChargedBefore(F, x)) <= Cardinality(ChargedBefore(F, y))
        /\ Cardinality(ChargedBefore(F, x)) \in Nat /\ Cardinality(ChargedBefore(F, y)) \in Nat
    <3>1. ChargedBefore(F, y) \subseteq F
      BY DEF ChargedBefore
    <3>. QED  BY <1>3, <2>3, <3>1, FS_Subset, FS_CardinalityType
  <2>5. ~ (Cardinality(ChargedBefore(F, x)) < k) /\ Cardinality(ChargedBefore(F, y)) < k
    BY <2>1 DEF Charged
  <2>. QED
    <3>. HIDE DEF k
    <3>. QED  BY <1>3, <2>4, <2>5
<1>8. SumOf(UnitLoss, A) <= SumOf(UnitLoss, B)
  <2>1. \A s \in A \cup B : UnitLoss[s] \in Nat
    <3>. HIDE DEF A, B
    <3>. QED  BY <1>2, Losses
  <2>. HIDE DEF A, B
  <2>. QED  BY <1>3, <1>6, <1>7, <2>1, SumDominated
<1>9. /\ SumOf(UnitLoss, Both \cup A) = SumOf(UnitLoss, Both) + SumOf(UnitLoss, A)
      /\ SumOf(UnitLoss, Both \cup B) = SumOf(UnitLoss, Both) + SumOf(UnitLoss, B)
  <2>1. Both \cap A = {} /\ Both \cap B = {}
    OBVIOUS
  <2>2. \A s \in Both \cup A \cup B : UnitLoss[s] \in Int
    <3>. HIDE DEF A, B, Both
    <3>. QED  BY <1>2, Losses
  <2>. HIDE DEF A, B, Both
  <2>. QED  BY <1>3, <2>1, <2>2, SumDisjoint
<1>10. Both \cup A = X /\ Both \cup B = C
  OBVIOUS
<1>11. /\ SumOf(UnitLoss, A) \in Nat /\ SumOf(UnitLoss, B) \in Nat
       /\ SumOf(UnitLoss, Both) \in Nat
  <2>. HIDE DEF A, B, Both
  <2>. QED  BY <1>2, Losses
<1>12. SumOf(UnitLoss, X) <= SumOf(UnitLoss, C)
  <2>1. SumOf(UnitLoss, X) = SumOf(UnitLoss, Both) + SumOf(UnitLoss, A)
    BY <1>9, <1>10
  <2>2. SumOf(UnitLoss, C) = SumOf(UnitLoss, Both) + SumOf(UnitLoss, B)
    BY <1>9, <1>10
  <2>. HIDE DEF A, B, Both, C
  <2>. QED  BY <1>8, <1>11, <2>1, <2>2
<1>. QED  BY <1>2, <1>12, Losses

-----------------------------------------------------------------------------
(* The inductive invariant.                                                *)

\* The columns of the journal that the budget depends on: a program that is not there
\* has no slices yet.
JournalShape(ps, ss) ==
  /\ DOMAIN ps = Programs /\ DOMAIN ss = Slices
  /\ \A s \in Slices : ps[Prog[s]] = "ABSENT" => ss[s] = "ABSENT"

\* A backup is the journal of an earlier moment.
Shapes ==
  /\ JournalShape(pstate, sstate)
  /\ backup # <<>> => JournalShape(backup[1], backup[2])
  /\ fills \subseteq Slices /\ sold \subseteq fills /\ checked \subseteq Slices

\* What the capacity check found still holds while its slice awaits the broker: nothing
\* else can trade in between, so the shares at risk with it stay within the budget.
CheckedFits ==
  \A s \in checked : s \notin fills =>
    /\ sstate[s] = "DISPATCHING"
    /\ LossOf(fills \ sold) + UnitLoss[s] <= Budget

RiskInv == Shapes /\ LossWithinBudget /\ CheckedFits

\* position_linked_capacity: the open shares are charged at no less than they can lose.
LEMMA ChargeCovers ==
  ASSUME fills \subseteq Slices, sold \subseteq fills
  PROVE  OpenRisk >= LossOf(fills \ sold)
<1>. DEFINE X == fills \ sold
<1>1. /\ IsFiniteSet(fills) /\ Cardinality(fills) \in Nat
      /\ sold \subseteq Slices /\ IsFiniteSet(sold) /\ Cardinality(sold) \in Nat
      /\ X \subseteq Slices /\ X \subseteq fills
  BY Losses
<1>2. Cardinality(X) = Position
  <2>1. Cardinality(fills \ sold) = Cardinality(fills) - Cardinality(fills \cap sold)
    BY <1>1, FS_Difference
  <2>2. fills \cap sold = sold
    OBVIOUS
  <2>. QED  BY <2>1, <2>2 DEF Position
<1>3. OpenRisk = LossOf(Charged(fills, Cardinality(X)))
  BY <1>2 DEF OpenRisk, Charged, ChargedBefore
<1>4. LossOf(X) <= LossOf(Charged(fills, Cardinality(X)))
  <2>. HIDE DEF X
  <2>. QED  BY <1>1, ChargeCoversAny
<1>5. LossOf(X) \in Nat /\ OpenRisk \in Nat
  <2>1. Charged(fills, Cardinality(X)) \subseteq Slices
    BY DEF Charged
  <2>. HIDE DEF X
  <2>. QED  BY <1>1, <1>3, <2>1, Losses
<1>. QED
  <2>. HIDE DEF X
  <2>1. OpenRisk >= LossOf(X)
    BY <1>3, <1>4, <1>5
  <2>. QED  BY <2>1 DEF X

\* check: a slice that passes has room for its own share beside those at risk.
LEMMA CheckLeavesRoom ==
  ASSUME Shapes, NEW s \in Slices, s \notin fills, Check(s)
  PROVE  LossOf(fills \ sold) + UnitLoss[s] <= Budget
<1>1. /\ sstate[s] = "DISPATCHING" /\ Consistent /\ Prog[s] \in reserved
      /\ EffectiveReserved + 0 <= Budget
  BY DEF Check, CapacityHolds, PairVerifies, FitsBudget
<1>2. Prog[s] \notin released
  BY <1>1 DEF Consistent, SlicesOf
<1>3. s \in PendingShares /\ PendingShares \subseteq Slices
  BY <1>1, <1>2 DEF PendingShares
<1>4. UnitLoss[s] <= LossOf(PendingShares)
  <2>1. LossOf({s}) = UnitLoss[s]
    <3>1. UnitLoss[s] \in Int /\ LossOf({s}) = SumOf(UnitLoss, {s})
      BY Losses
    <3>. QED  BY <3>1, SumSingle
  <2>2. LossOf({s}) <= LossOf(PendingShares)
    BY <1>3, LossGrows
  <2>. QED  BY <2>1, <2>2
<1>5. OpenRisk >= LossOf(fills \ sold)
  BY ChargeCovers DEF Shapes
<1>6. /\ LossOf(fills \ sold) \in Nat /\ UnitLoss[s] \in Nat
      /\ LossOf(PendingShares) \in Nat
  <2>1. fills \ sold \subseteq Slices
    BY DEF Shapes
  <2>. QED  BY <1>3, <2>1, Losses
<1>7. OpenRisk \in Nat
  <2>1. {t \in fills : Cardinality({r \in fills : ChargedFirst(r, t)}) < Position}
           \subseteq Slices
    BY DEF Shapes
  <2>. QED  BY <2>1, Losses DEF OpenRisk
<1>. QED  BY <1>1, <1>4, <1>5, <1>6, <1>7, BudgetAssumption DEF EffectiveReserved

\* At the start nothing traded.
LEMMA RiskInit ==
  ASSUME Init
  PROVE  RiskInv
<1>1. Shapes
  BY DEF Init, JournalInit, Shapes, JournalShape
<1>2. LossWithinBudget
  <2>1. LossOf({}) = 0
    BY SumEmpty DEF LossOf
  <2>2. fills \ sold = {}
    BY DEF Init
  <2>. QED  BY <2>1, <2>2, BudgetAssumption DEF LossWithinBudget
<1>3. CheckedFits
  BY DEF Init, CheckedFits
<1>. QED  BY <1>1, <1>2, <1>3 DEF RiskInv

\* What the calls of the program journal do to a slice that another call claimed.
JournalCall ==
  \/ \E p \in Programs : CreateProgram(p) \/ CancelUnclaimed(p)
  \/ \E s \in Slices : \/ ClaimSlice(s) \/ MarkFailed(s)
                       \/ MarkFilledUnaccounted(s, s) \/ MarkExecuted(s, s)

\* Each of these calls keeps a program without slices while it is not there.
LEMMA JournalShapes ==
  ASSUME JournalShape(pstate, sstate), JournalCall
  PROVE  JournalShape(pstate', sstate')
<1>1. CASE \E p \in Programs : CreateProgram(p)
  BY <1>1 DEF JournalShape, CreateProgram
<1>2. CASE \E p \in Programs : CancelUnclaimed(p)
  BY <1>2 DEF JournalShape, CancelUnclaimed
<1>3. CASE \E s \in Slices : ClaimSlice(s)
  BY <1>3, ProgAssumption DEF JournalShape, ClaimSlice
<1>4. CASE \E s \in Slices : MarkFailed(s)
  BY <1>4, ProgAssumption DEF JournalShape, MarkFailed
<1>5. CASE \E s \in Slices : MarkFilledUnaccounted(s, s)
  BY <1>5, ProgAssumption DEF JournalShape, MarkFilledUnaccounted, journalVars
<1>6. CASE \E s \in Slices : MarkExecuted(s, s)
  BY <1>6, ProgAssumption DEF JournalShape, MarkExecuted, Refreshed, journalVars
<1>. QED  BY <1>1, <1>2, <1>3, <1>4, <1>5, <1>6 DEF JournalCall

\* Every step keeps the shapes.
LEMMA ShapesKept ==
  ASSUME Shapes, [Next]_vars
  PROVE  Shapes'
<1>. USE DEF vars, journalState, ledgerState
<1>1. ASSUME NEW p \in Programs, Prepare(p)
      PROVE  Shapes'
  <2>1. JournalShape(pstate', sstate')
    BY <1>1, JournalShapes DEF Prepare, JournalCall, Shapes
  <2>. QED  BY <1>1, <2>1 DEF Prepare, WitnessCommits, Shapes
<1>2. ASSUME NEW p \in Programs, PrepareLost(p)
      PROVE  Shapes'
  BY <1>2 DEF PrepareLost, WitnessCommits, Shapes
<1>3. ASSUME NEW p \in Programs, Release(p)
      PROVE  Shapes'
  <2>1. JournalShape(pstate', sstate')
    BY <1>3, JournalShapes DEF Release, JournalCall, Shapes
  <2>. QED  BY <1>3, <2>1 DEF Release, Shapes
<1>4. ASSUME NEW s \in Slices, Claim(s) \/ CheckFails(s) \/ Adopt(s) \/ Account(s)
      PROVE  Shapes'
  <2>1. JournalShape(pstate', sstate')
    BY <1>4, JournalShapes DEF Claim, CheckFails, Adopt, Account, JournalCall, Shapes
  <2>. QED  BY <1>4, <2>1 DEF Claim, CheckFails, Adopt, Account, Shapes
<1>5. ASSUME NEW s \in Slices, Check(s) \/ SubmitEntry(s) \/ Sell(s)
      PROVE  Shapes'
  BY <1>5 DEF Check, SubmitEntry, Sell, Shapes
<1>6. ASSUME \E new \in Policies : Restart(new)
      PROVE  Shapes'
  BY <1>6 DEF Restart, Shapes
<1>7. ASSUME Backup
      PROVE  Shapes'
  BY <1>7 DEF Backup, Shapes
<1>8. ASSUME Restore
      PROVE  Shapes'
  BY <1>8 DEF Restore, Shapes
<1>9. ASSUME UNCHANGED vars
      PROVE  Shapes'
  BY <1>9 DEF Shapes
<1>. QED  BY <1>1, <1>2, <1>3, <1>4, <1>5, <1>6, <1>7, <1>8, <1>9 DEF Next

\* A step that trades nothing and checks nothing, and leaves the checked slices claimed.
LEMMA QuietKept ==
  ASSUME RiskInv, fills' = fills, sold' = sold, checked' \subseteq checked,
         \A s \in checked' : s \notin fills => sstate'[s] = sstate[s]
  PROVE  LossWithinBudget' /\ CheckedFits'
<1>1. LossOf(fills' \ sold') = LossOf(fills \ sold)
  OBVIOUS
<1>. QED  BY <1>1 DEF RiskInv, LossWithinBudget, CheckedFits

\* Every step keeps the budget.
LEMMA BudgetKept ==
  ASSUME RiskInv, [Next]_vars
  PROVE  LossWithinBudget' /\ CheckedFits'
<1>. USE DEF vars, journalState, ledgerState
<1>. Shapes
  BY DEF RiskInv
<1>. DEFINE atRisk == fills \ sold
<1>0. atRisk \subseteq Slices /\ LossOf(atRisk) \in Nat /\ LossOf(atRisk) <= Budget
  <2>1. atRisk \subseteq Slices
    BY DEF Shapes
  <2>. QED  BY <2>1, Losses DEF RiskInv, LossWithinBudget
<1>1. ASSUME NEW p \in Programs, Prepare(p)
      PROVE  LossWithinBudget' /\ CheckedFits'
  <2>1. \A s \in SlicesOf(p) : sstate[s] = "ABSENT"
    BY <1>1 DEF Prepare, CreateProgram, Shapes, JournalShape, SlicesOf
  <2>2. \A s \in checked : s \notin fills => sstate'[s] = sstate[s]
    BY <1>1, <2>1 DEF Prepare, CreateProgram, RiskInv, CheckedFits, Shapes, SlicesOf
  <2>. QED  BY <1>1, <2>2, QuietKept DEF Prepare, WitnessCommits
<1>2. ASSUME NEW p \in Programs, PrepareLost(p)
      PROVE  LossWithinBudget' /\ CheckedFits'
  BY <1>2, QuietKept DEF PrepareLost, WitnessCommits
<1>3. ASSUME NEW p \in Programs, Release(p)
      PROVE  LossWithinBudget' /\ CheckedFits'
  <2>1. \A s \in checked : s \notin fills => sstate'[s] = sstate[s]
    BY <1>3 DEF Release, CancelUnclaimed, RiskInv, CheckedFits, Shapes, SlicesOf
  <2>. QED  BY <1>3, <2>1, QuietKept DEF Release
<1>4. ASSUME NEW s \in Slices, Claim(s)
      PROVE  LossWithinBudget' /\ CheckedFits'
  <2>1. \A t \in checked : t \notin fills => sstate'[t] = sstate[t]
    BY <1>4 DEF Claim, ClaimSlice, Claimable, RiskInv, CheckedFits, Shapes, JournalShape
  <2>. QED  BY <1>4, <2>1, QuietKept DEF Claim
<1>5. ASSUME NEW s \in Slices, CheckFails(s)
      PROVE  LossWithinBudget' /\ CheckedFits'
  <2>1. \A t \in checked' : t \notin fills => sstate'[t] = sstate[t]
    BY <1>5 DEF CheckFails, MarkFailed, Shapes, JournalShape
  <2>. QED  BY <1>5, <2>1, QuietKept DEF CheckFails
<1>6. ASSUME NEW s \in Slices, Adopt(s) \/ Account(s)
      PROVE  LossWithinBudget' /\ CheckedFits'
  <2>1. \A t \in checked : t \notin fills => sstate'[t] = sstate[t]
    BY <1>6 DEF Adopt, Account, MarkFilledUnaccounted, MarkExecuted, journalVars,
                RiskInv, CheckedFits, Shapes, JournalShape
  <2>. QED  BY <1>6, <2>1, QuietKept DEF Adopt, Account
<1>7. ASSUME NEW s \in Slices, Check(s)
      PROVE  LossWithinBudget' /\ CheckedFits'
  <2>1. fills' = fills /\ sold' = sold /\ sstate' = sstate /\ checked' = checked \cup {s}
    BY <1>7 DEF Check
  <2>2. LossOf(fills' \ sold') = LossOf(atRisk)
    BY <2>1
  <2>3. s \notin fills => LossOf(atRisk) + UnitLoss[s] <= Budget
    BY <1>7, CheckLeavesRoom
  <2>4. sstate[s] = "DISPATCHING"
    BY <1>7 DEF Check
  <2>. QED  BY <2>1, <2>2, <2>3, <2>4 DEF RiskInv, LossWithinBudget, CheckedFits
<1>8. ASSUME NEW s \in Slices, SubmitEntry(s)
      PROVE  LossWithinBudget' /\ CheckedFits'
  <2>1. /\ fills' = fills \cup {s} /\ sold' = sold /\ checked' = checked \ {s}
        /\ s \in checked /\ s \notin fills
        /\ \A t \in Slices \ {s} : sstate[t] # "DISPATCHING"
    BY <1>8 DEF SubmitEntry, BoundEntry
  <2>2. fills' \ sold' = atRisk \cup {s} /\ s \notin atRisk
    BY <2>1 DEF Shapes
  <2>3. LossOf(fills' \ sold') = LossOf(atRisk) + UnitLoss[s]
    <3>. HIDE DEF atRisk
    <3>. QED  BY <1>0, <2>2, LossOfOneMore
  <2>4. LossOf(atRisk) + UnitLoss[s] <= Budget
    BY <2>1 DEF RiskInv, CheckedFits
  <2>5. \A t \in checked' : t \in fills'
    BY <2>1 DEF RiskInv, CheckedFits, Shapes
  <2>. QED  BY <2>3, <2>4, <2>5 DEF LossWithinBudget, CheckedFits
<1>9. ASSUME NEW s \in Slices, Sell(s)
      PROVE  LossWithinBudget' /\ CheckedFits'
  <2>1. /\ fills' = fills /\ sold' = sold \cup {s} /\ checked' = checked
        /\ sstate' = sstate
    BY <1>9 DEF Sell
  <2>2. fills' \ sold' \subseteq atRisk
    BY <2>1
  <2>3. LossOf(fills' \ sold') <= LossOf(atRisk) /\ LossOf(fills' \ sold') \in Nat
    <3>. HIDE DEF atRisk
    <3>. QED  BY <1>0, <2>2, LossGrows, Losses
  <2>4. LossWithinBudget'
    <3>. HIDE DEF atRisk
    <3>. QED  BY <1>0, <2>3, BudgetAssumption DEF LossWithinBudget
  <2>5. ASSUME NEW t \in checked, t \notin fills
        PROVE  sstate[t] = "DISPATCHING" /\ LossOf(fills' \ sold') + UnitLoss[t] <= Budget
    <3>1. sstate[t] = "DISPATCHING" /\ LossOf(atRisk) + UnitLoss[t] <= Budget
      BY <2>5 DEF RiskInv, CheckedFits
    <3>2. UnitLoss[t] \in Nat
      BY Losses DEF Shapes
    <3>. HIDE DEF atRisk
    <3>. QED  BY <1>0, <2>3, <3>1, <3>2, BudgetAssumption
  <2>. QED  BY <2>1, <2>4, <2>5 DEF CheckedFits
<1>10. ASSUME (\E new \in Policies : Restart(new)) \/ Backup \/ Restore \/ UNCHANGED vars
       PROVE  LossWithinBudget' /\ CheckedFits'
  <2>1. /\ fills' = fills /\ sold' = sold
        /\ checked' = {} \/ (checked' = checked /\ sstate' = sstate)
    BY <1>10 DEF Restart, Backup, Restore
  <2>. QED  BY <2>1, QuietKept
<1>. QED  BY <1>1, <1>2, <1>3, <1>4, <1>5, <1>6, <1>7, <1>8, <1>9, <1>10 DEF Next

\* BudgetHolds, for every account: the shares open at any moment never risk more than
\* the budget, and the derived charge covers them.
THEOREM BudgetNeverExceeded == Spec => []BudgetHolds
<1>1. Init => RiskInv
  BY RiskInit
<1>2. RiskInv /\ [Next]_vars => RiskInv'
  BY ShapesKept, BudgetKept DEF RiskInv
<1>3. RiskInv => BudgetHolds
  BY ChargeCovers DEF RiskInv, Shapes, BudgetHolds, ChargeCoversExposure
<1>. QED  BY <1>1, <1>2, <1>3, PTL DEF Spec

-----------------------------------------------------------------------------
(* The history the two databases share.                                    *)

\* LostHistoryHolds: a program that only the ledger knows stops every admission and every
\* entry (shared_risk_binding.py _verify_binding_pair).
THEOREM LostHistoryStops == Spec => LostHistoryHolds
<1>. DEFINE Held == witness \notin SUBSET reserved => fills' = fills /\ witness' = witness
<1>1. [Next]_vars => Held
  <2>. SUFFICES ASSUME [Next]_vars, witness \notin SUBSET reserved
                PROVE  fills' = fills /\ witness' = witness
    OBVIOUS
  <2>. USE DEF vars, journalState, ledgerState
  <2>1. ~ PairVerifies /\ witness # {}
    BY DEF PairVerifies, AdmissionsMatch
  <2>2. \A p \in Programs : ~ Admissible(p)
    BY <2>1 DEF Admissible, Pins
  <2>3. \A s \in Slices : ~ SubmitEntry(s)
    BY <2>1 DEF SubmitEntry, BoundEntry
  <2>4. CASE \E p \in Programs : Prepare(p) \/ PrepareLost(p) \/ Release(p)
    BY <2>2, <2>4 DEF Prepare, PrepareLost, Release
  <2>5. CASE \E s \in Slices : \/ Claim(s) \/ Check(s) \/ CheckFails(s)
                               \/ Adopt(s) \/ Account(s) \/ Sell(s)
    BY <2>5 DEF Claim, Check, CheckFails, Adopt, Account, Sell
  <2>6. CASE (\E new \in Policies : Restart(new)) \/ Backup \/ Restore \/ UNCHANGED vars
    BY <2>6 DEF Restart, Backup, Restore
  <2>. QED  BY <2>3, <2>4, <2>5, <2>6 DEF Next
<1>. QED  BY <1>1, PTL DEF Spec, LostHistoryHolds

-----------------------------------------------------------------------------
(* Deposits beside the tracker.                                            *)

Days == 1..LastUtcDay
DayRow == [opening : Int, last : Int]
TrackerState ==
  [step : {"idle"}, peak : Int]
  \cup [step : {"read"}, peak : Int, date : Days, equity : Int, capital : Int, gain : Int]
  \cup [step : {"peak"}, peak : Int, opening : Int, equity : Int, capital : Int, gain : Int]
History ==
  [high : Int, sure : Int, last : Int, torn : BOOLEAN, opened : [Days -> Int],
   unsure : SUBSET Days]

ContributionTyped ==
  /\ utcDate \in Days
  /\ gained \in Int
  /\ funds \in [capital : Int, peak : Int]
  /\ daily \in [Days -> DayRow \cup {NoDay}]
  /\ recorded \in [References -> Nat]
  /\ tracker \in TrackerState
  /\ history \in History

\* What the drawdown is measured from.
Peak == IF funds.peak = NoPeak THEN funds.capital ELSE funds.peak

Contributed == {r \in References : recorded[r] # 0}

\* Each recorded reference is in the capital once.
CapitalCounted ==
  /\ IsFiniteSet(Contributed)
  /\ funds.capital = FirstCapital + SumOf(recorded, Contributed)
  /\ funds.capital >= FirstCapital

\* The peak in memory was measured before the deposits that came since, and a deposit always
\* leaves a stored peak.
PeakKnown ==
  /\ funds.peak = NoPeak => funds.capital = FirstCapital
  /\ FirstCapital <= tracker.peak /\ tracker.peak <= Peak
  /\ 0 <= history.sure
  /\ history.sure <= Peak - funds.capital /\ Peak - funds.capital <= history.high

\* A measurement under way has the capital it read, less than today's once a deposit came.
MeasurementKnows ==
  tracker.step # "idle" =>
    tracker.capital <= funds.capital /\ tracker.equity = tracker.capital + tracker.gain

\* No day lies ahead; a row after the day being measured was opened by a deposit.
NoDayAhead ==
  /\ \A n \in Days : n > utcDate => daily[n] = NoDay
  /\ tracker.step = "read" =>
       /\ tracker.date <= utcDate
       /\ tracker.capital = funds.capital =>
            \A n \in Days : n > tracker.date => daily[n] = NoDay

\* The newest day ends with the gain last measured, and the opening of today stands, but for
\* what a deposit overtook.
NewestFollows ==
  ~history.torn =>
    \A n \in Days :
      daily[n] # NoDay /\ (\A m \in Days : m > n => daily[m] = NoDay) =>
        daily[n].last = funds.capital + history.last
TodayFollows ==
  daily[utcDate] # NoDay /\ utcDate \notin history.unsure =>
    daily[utcDate].opening = funds.capital + history.opened[utcDate]
DaysFollow == NewestFollows /\ TodayFollows

ContributionInv ==
  /\ ContributionTyped
  /\ CapitalCounted
  /\ PeakKnown
  /\ MeasurementKnows
  /\ NoDayAhead
  /\ DaysFollow

\* The invariant is what a deposit promises.
LEMMA DepositPromises == ContributionInv => DepositsAreCapital
<1>. SUFFICES ASSUME ContributionInv PROVE DepositsAreCapital
  OBVIOUS
<1>1. CapitalIsDeposits
  BY DEF ContributionInv, CapitalCounted, CapitalIsDeposits, Contributed, SumOf
<1>2. PeakCarriesDeposits
  BY DEF ContributionInv, PeakKnown, PeakCarriesDeposits, Peak
<1>3. DayCarriesDeposits
  BY DEF ContributionInv, DaysFollow, TodayFollows, DayCarriesDeposits
<1>. QED  BY <1>1, <1>2, <1>3 DEF DepositsAreCapital

\* A row of a day is no empty one.
LEMMA RowIsNoGap == \A row \in DayRow : row # NoDay
<1>1. \A row \in DayRow : "last" \in DOMAIN row
  BY DEF DayRow
<1>2. "last" \notin DOMAIN NoDay
  BY DEF NoDay
<1>. QED  BY <1>1, <1>2

\* A fresh account.
LEMMA ContributionStart == ContributionInit => ContributionInv
<1>. SUFFICES ASSUME ContributionInit PROVE ContributionInv
  OBVIOUS
<1>1. FirstCapital \in Nat \ {0} /\ LastUtcDay \in Nat \ {0}
  BY ContributionAssumption
<1>2. ContributionTyped
  BY <1>1 DEF ContributionInit, ContributionTyped, Days, TrackerState, History, NoPeak
<1>3. CapitalCounted
  <2>1. Contributed = {}
    BY DEF ContributionInit, Contributed
  <2>. QED  BY <1>1, <2>1, SumEmpty, FS_EmptySet DEF ContributionInit, CapitalCounted
<1>4. PeakKnown
  BY <1>1 DEF ContributionInit, PeakKnown, Peak, NoPeak
<1>5. MeasurementKnows /\ NoDayAhead
  BY DEF ContributionInit, MeasurementKnows, NoDayAhead, Days
<1>6. DaysFollow
  BY <1>1 DEF ContributionInit, DaysFollow, NewestFollows, TodayFollows, Days
<1>. QED  BY <1>2, <1>3, <1>4, <1>5, <1>6 DEF ContributionInv

\* The tracker at each step has its fields.
LEMMA TrackerShape ==
  ASSUME ContributionInv
  PROVE  /\ tracker.step \in {"idle", "read", "peak"} /\ tracker.peak \in Int
         /\ tracker.step # "idle" =>
              tracker.equity \in Int /\ tracker.capital \in Int /\ tracker.gain \in Int
         /\ tracker.step = "read" => tracker.date \in Days
         /\ tracker.step = "peak" => tracker.opening \in Int
         /\ funds.capital \in Int /\ funds.peak \in Int /\ FirstCapital \in Nat \ {0}
         /\ utcDate \in Int /\ LastUtcDay \in Nat \ {0}
         /\ history.high \in Int /\ history.sure \in Int /\ history.last \in Int
         /\ history.torn \in BOOLEAN /\ history.opened \in [Days -> Int]
         /\ history.unsure \in SUBSET Days
<1>1. FirstCapital \in Nat \ {0} /\ LastUtcDay \in Nat \ {0}
  BY ContributionAssumption
<1>2. funds.capital \in Int /\ funds.peak \in Int /\ utcDate \in Int
  BY DEF ContributionInv, ContributionTyped, Days
<1>3. /\ history.high \in Int /\ history.sure \in Int /\ history.last \in Int
      /\ history.torn \in BOOLEAN /\ history.opened \in [Days -> Int]
      /\ history.unsure \in SUBSET Days
  BY DEF ContributionInv, ContributionTyped, History
<1>4. CASE tracker \in [step : {"idle"}, peak : Int]
  BY <1>1, <1>2, <1>3, <1>4
<1>5. CASE tracker \in [step : {"read"}, peak : Int, date : Days, equity : Int,
                        capital : Int, gain : Int]
  BY <1>1, <1>2, <1>3, <1>5
<1>6. CASE tracker \in [step : {"peak"}, peak : Int, opening : Int, equity : Int,
                        capital : Int, gain : Int]
  BY <1>1, <1>2, <1>3, <1>6
<1>. QED  BY <1>4, <1>5, <1>6 DEF ContributionInv, ContributionTyped, TrackerState

\* The tracker reads what the account holds.
LEMMA ReadCashKeeps == ASSUME ContributionInv, ReadCash PROVE ContributionInv'
<1>1. /\ tracker.step = "idle" /\ tracker.peak \in Int
      /\ tracker' = [step |-> "read", peak |-> tracker.peak, date |-> utcDate,
                     equity |-> funds.capital + gained, capital |-> funds.capital,
                     gain |-> gained]
      /\ UNCHANGED <<utcDate, gained, funds, daily, recorded, history>>
  BY TrackerShape DEF ReadCash, Cash
<1>2. /\ tracker'.step = "read" /\ tracker'.peak = tracker.peak /\ tracker'.date = utcDate
      /\ tracker'.equity = funds.capital + gained /\ tracker'.capital = funds.capital
      /\ tracker'.gain = gained
  BY <1>1
<1>3. ContributionTyped'
  <2>1. funds.capital + gained \in Int /\ funds.capital \in Int /\ gained \in Int
        /\ utcDate \in Days
    BY DEF ContributionInv, ContributionTyped
  <2>2. tracker' \in TrackerState
    BY <1>1, <2>1 DEF TrackerState
  <2>. QED  BY <1>1, <2>2 DEF ContributionInv, ContributionTyped
<1>4. CapitalCounted' /\ PeakKnown'
  BY <1>1, <1>2 DEF ContributionInv, CapitalCounted, Contributed, PeakKnown, Peak
<1>5. MeasurementKnows'
  BY <1>1, <1>2, TrackerShape DEF MeasurementKnows
<1>6. NoDayAhead' /\ DaysFollow'
  BY <1>1, <1>2, TrackerShape
     DEF ContributionInv, NoDayAhead, DaysFollow, NewestFollows, TodayFollows
<1>. QED  BY <1>3, <1>4, <1>5, <1>6 DEF ContributionInv

\* Nothing but the marks, the date or a restarted tracker moves.
LEMMA AroundKeeps ==
  ASSUME ContributionInv, MarksMove \/ Midnight \/ RestartTracker
         \/ (\E r \in References, amount \in Deposits : Repeat(r, amount))
         \/ UNCHANGED contributionVars
  PROVE  ContributionInv'
<1>1. CASE MarksMove \/ UNCHANGED contributionVars
           \/ (\E r \in References, amount \in Deposits : Repeat(r, amount))
  <2>1. UNCHANGED <<utcDate, funds, daily, recorded, tracker, history>> /\ gained' \in Int
    BY <1>1, ContributionAssumption
       DEF MarksMove, Repeat, contributionVars, ContributionInv, ContributionTyped
  <2>. QED  BY <2>1 DEF ContributionInv, ContributionTyped, CapitalCounted, Contributed,
                        PeakKnown, Peak, MeasurementKnows, NoDayAhead, DaysFollow,
                        NewestFollows, TodayFollows
<1>2. CASE Midnight
  <2>1. /\ utcDate < LastUtcDay /\ utcDate' = utcDate + 1
        /\ UNCHANGED <<gained, funds, daily, recorded, tracker, history>>
    BY <1>2 DEF Midnight
  <2>2. utcDate \in Days /\ utcDate' \in Days /\ utcDate' > utcDate
        /\ \A n \in Days : n > utcDate' => n > utcDate
    <3>1. utcDate \in 1..LastUtcDay /\ LastUtcDay \in Nat
      BY TrackerShape DEF ContributionInv, ContributionTyped, Days
    <3>. QED  BY <2>1, <3>1 DEF Days
  <2>3. daily[utcDate'] = NoDay
    BY <2>2 DEF ContributionInv, NoDayAhead
  <2>4. ContributionTyped' /\ CapitalCounted' /\ PeakKnown' /\ MeasurementKnows'
    BY <2>1, <2>2 DEF ContributionInv, ContributionTyped, CapitalCounted, Contributed,
                      PeakKnown, Peak, MeasurementKnows
  <2>5. tracker.step = "read" => tracker.date <= utcDate'
    <3>1. tracker.step = "read" =>
            tracker.date \in Days /\ tracker.date <= utcDate
      BY TrackerShape DEF ContributionInv, NoDayAhead
    <3>. QED  BY <2>2, <3>1, TrackerShape DEF Days
  <2>6. NoDayAhead' /\ DaysFollow'
    BY <2>1, <2>2, <2>3, <2>5
       DEF ContributionInv, NoDayAhead, DaysFollow, NewestFollows, TodayFollows
  <2>. QED  BY <2>4, <2>6 DEF ContributionInv
<1>3. CASE RestartTracker
  <2>1. /\ tracker' = [step |-> "idle", peak |-> Peak]
        /\ UNCHANGED <<utcDate, gained, funds, daily, recorded, history>>
    BY <1>3 DEF RestartTracker, Started, Peak
  <2>2. tracker'.step = "idle" /\ tracker'.peak = Peak /\ Peak \in Int /\ FirstCapital <= Peak
    BY <2>1, TrackerShape DEF ContributionInv, PeakKnown, CapitalCounted, Peak, NoPeak
  <2>3. tracker' \in TrackerState
    BY <2>1, <2>2 DEF TrackerState
  <2>4. ContributionTyped' /\ CapitalCounted'
    BY <2>1, <2>3 DEF ContributionInv, ContributionTyped, CapitalCounted, Contributed
  <2>5. PeakKnown'
    BY <2>1, <2>2 DEF ContributionInv, PeakKnown, Peak
  <2>6. MeasurementKnows' /\ NoDayAhead' /\ DaysFollow'
    BY <2>1, <2>2
       DEF ContributionInv, MeasurementKnows, NoDayAhead, DaysFollow, NewestFollows, TodayFollows
  <2>. QED  BY <2>4, <2>5, <2>6 DEF ContributionInv
<1>. QED  BY <1>1, <1>2, <1>3

\* The last day measured before a date.
LEMMA LastDay ==
  ASSUME ContributionInv, NEW date \in Days, Before(date) # {}
  PROVE  LET m == Max(Before(date))
         IN /\ m \in Days /\ m < date /\ daily[m] \in DayRow
            /\ ~history.torn /\ (\A n \in Days : n >= date => daily[n] = NoDay) =>
                 daily[m].last = funds.capital + history.last
<1>. DEFINE B == Before(date)
            m == Max(B)
<1>1. LastUtcDay \in Nat /\ date \in 1..LastUtcDay /\ date \in Int
  BY TrackerShape DEF Days
<1>2. B \subseteq 1..(date - 1) /\ 1..(date - 1) \subseteq Int
  BY <1>1 DEF Before
<1>3. IsFiniteSet(1..(date - 1))
  BY <1>1, FS_Interval
<1>4. Positions(B)
  <2>. HIDE DEF B
  <2>. QED  BY <1>2, <1>3, FS_Subset DEF Positions
<1>5. m \in B /\ \A n \in B : n <= m
  <2>1. B # {}
    OBVIOUS
  <2>. HIDE DEF B
  <2>. QED  BY <1>2, <1>4, <2>1, MaxOfFinite
<1>6. m \in 1..(date - 1) /\ daily[m] # NoDay
  <2>. HIDE DEF m
  <2>. QED  BY <1>5 DEF Before
<1>7. m \in Days /\ m < date /\ m \in Int
  <2>. HIDE DEF m
  <2>. QED  BY <1>1, <1>6 DEF Days
<1>8. daily[m] \in DayRow
  <2>. HIDE DEF m
  <2>. QED  BY <1>6, <1>7 DEF ContributionInv, ContributionTyped
<1>9. ASSUME ~history.torn, \A n \in Days : n >= date => daily[n] = NoDay
      PROVE  daily[m].last = funds.capital + history.last
  <2>1. ASSUME NEW n \in Days, n > m PROVE daily[n] = NoDay
    <3>1. n \in 1..LastUtcDay /\ n \in Int
      BY DEF Days
    <3>2. CASE n >= date
      BY <1>9, <3>2
    <3>3. CASE ~ (n >= date)
      <4>. SUFFICES ASSUME daily[n] # NoDay PROVE FALSE
        OBVIOUS
      <4>1. n \in B
        BY <1>1, <3>1, <3>3 DEF Before
      <4>. HIDE DEF m, B
      <4>. QED  BY <1>5, <1>7, <2>1, <3>1, <4>1
    <3>. QED  BY <3>2, <3>3
  <2>. HIDE DEF m
  <2>. QED  BY <1>6, <1>7, <1>9, <2>1 DEF ContributionInv, DaysFollow, NewestFollows
<1>. QED  BY <1>7, <1>8, <1>9

\* What a measurement, a deposit that opens a day and a peak leave of history h.
Measured(h, l, t, d, o, u) ==
  [h EXCEPT !.last = l, !.torn = t, !.opened[d] = o, !.unsure = u]
OpenedBy(h, d, o, u) == [h EXCEPT !.opened[d] = o, !.unsure = u]
Raised(h, l, o) == [h EXCEPT !.high = l, !.sure = o]

\* The fields an opening changes.
LEMMA HistoryOpened ==
  ASSUME NEW h \in History, NEW d \in Days, NEW o \in Int, NEW u \in SUBSET Days,
         NEW p, p = [h.opened EXCEPT ![d] = o]
  PROVE  OpenedBy(h, d, o, u)
           = [high |-> h.high, sure |-> h.sure, last |-> h.last, torn |-> h.torn,
              opened |-> p, unsure |-> u]
<1>1. PICK high \in Int : high = h.high
  BY DEF History
<1>2. PICK sure \in Int : sure = h.sure
  BY DEF History
<1>3. PICK last \in Int : last = h.last
  BY DEF History
<1>4. PICK torn : torn = h.torn
  OBVIOUS
<1>5. PICK opened \in [Days -> Int] : opened = h.opened
  BY DEF History
<1>6. PICK unsure : unsure = h.unsure
  OBVIOUS
<1>7. h = [high |-> high, sure |-> sure, last |-> last, torn |-> torn, opened |-> opened,
           unsure |-> unsure]
  BY <1>1, <1>2, <1>3, <1>4, <1>5, <1>6 DEF History
<1>8. PICK after : after = [opened EXCEPT ![d] = o] /\ after = p
  BY <1>5
<1>9. PICK one : one = [h EXCEPT !.opened[d] = o]
  OBVIOUS
<1>10. one = [h EXCEPT !.opened = after]
  BY <1>5, <1>8, <1>9
<1>11. one = [high |-> high, sure |-> sure, last |-> last, torn |-> torn, opened |-> after,
              unsure |-> unsure]
  BY <1>7, <1>10
<1>12. [one EXCEPT !.unsure = u]
         = [high |-> high, sure |-> sure, last |-> last, torn |-> torn, opened |-> after,
            unsure |-> u]
  BY <1>11
<1>13. [h EXCEPT !.opened[d] = o, !.unsure = u] = [one EXCEPT !.unsure = u]
  BY <1>9
<1>. QED  BY <1>1, <1>2, <1>3, <1>4, <1>8, <1>12, <1>13 DEF OpenedBy

\* The fields a measurement changes.
LEMMA HistoryMeasured ==
  ASSUME NEW h \in History, NEW l \in Int, NEW t \in BOOLEAN, NEW d \in Days, NEW o \in Int,
         NEW u \in SUBSET Days, NEW p, p = [h.opened EXCEPT ![d] = o]
  PROVE  Measured(h, l, t, d, o, u)
           = [high |-> h.high, sure |-> h.sure, last |-> l, torn |-> t,
              opened |-> p, unsure |-> u]
<1>1. PICK t0 : t0 = t
  OBVIOUS
<1>2. PICK one : one = [h EXCEPT !.last = l]
  OBVIOUS
<1>3. PICK two : two = [one EXCEPT !.torn = t0]
  OBVIOUS
<1>4. h = [high |-> h.high, sure |-> h.sure, last |-> h.last, torn |-> h.torn,
           opened |-> h.opened, unsure |-> h.unsure]
  BY DEF History
<1>5. one = [high |-> h.high, sure |-> h.sure, last |-> l, torn |-> h.torn,
             opened |-> h.opened, unsure |-> h.unsure]
  BY <1>2, <1>4
<1>6. two = [high |-> h.high, sure |-> h.sure, last |-> l, torn |-> t0,
             opened |-> h.opened, unsure |-> h.unsure]
  BY <1>3, <1>5
<1>7. two \in History /\ two.opened = h.opened
  BY <1>1, <1>6 DEF History
<1>8. OpenedBy(two, d, o, u)
        = [high |-> two.high, sure |-> two.sure, last |-> two.last, torn |-> two.torn,
           opened |-> p, unsure |-> u]
  BY <1>7, HistoryOpened
<1>9. two.high = h.high /\ two.sure = h.sure /\ two.last = l /\ two.torn = t0
  BY <1>6
<1>10. Measured(h, l, t, d, o, u) = OpenedBy(two, d, o, u)
  BY <1>1, <1>2, <1>3 DEF Measured, OpenedBy
<1>. QED  BY <1>1, <1>8, <1>9, <1>10

\* The fields a peak changes.
LEMMA HistoryRaised ==
  ASSUME NEW h \in History, NEW l \in Int, NEW o \in Int
  PROVE  Raised(h, l, o)
           = [high |-> l, sure |-> o, last |-> h.last, torn |-> h.torn, opened |-> h.opened,
              unsure |-> h.unsure]
<1>1. PICK top : top = [h EXCEPT !.high = l]
  OBVIOUS
<1>2. PICK torn : torn = h.torn
  OBVIOUS
<1>3. h = [high |-> h.high, sure |-> h.sure, last |-> h.last, torn |-> torn,
           opened |-> h.opened, unsure |-> h.unsure]
  BY <1>2 DEF History
<1>4. top = [high |-> l, sure |-> h.sure, last |-> h.last, torn |-> torn, opened |-> h.opened,
             unsure |-> h.unsure]
  BY <1>1, <1>3
<1>5. [top EXCEPT !.sure = o]
        = [high |-> l, sure |-> o, last |-> h.last, torn |-> torn, opened |-> h.opened,
           unsure |-> h.unsure]
  BY <1>4
<1>6. [h EXCEPT !.high = l, !.sure = o] = [top EXCEPT !.sure = o]
  BY <1>1
<1>. QED  BY <1>2, <1>5, <1>6 DEF Raised

\* record_equity: the day's row, with the opening it had or that of the day before.
LEMMA RecordEquityKeeps == ASSUME ContributionInv, RecordEquity PROVE ContributionInv'
<1>1. tracker.step = "read" /\ UNCHANGED <<utcDate, gained, funds, recorded>>
  BY DEF RecordEquity
<1>. PICK date \in Days : date = tracker.date
  BY <1>1, TrackerShape
<1>. PICK equity \in Int : equity = tracker.equity
  BY <1>1, TrackerShape
<1>. PICK gain \in Int : gain = tracker.gain
  BY <1>1, TrackerShape
<1>. PICK opening : opening = IF daily[date] # NoDay THEN daily[date].opening
                              ELSE IF Before(date) # {} THEN daily[Max(Before(date))].last
                              ELSE equity
  OBVIOUS
<1>. PICK opened : opened = IF daily[date] # NoDay THEN history.opened[date]
                            ELSE IF Before(date) # {} THEN history.last ELSE gain
  OBVIOUS
<1>. PICK late \in BOOLEAN : late = DepositSince
  BY DEF DepositSince
<1>. PICK newest \in BOOLEAN : newest = LatestDay(date)
  BY DEF LatestDay
<1>. PICK torn : torn = IF newest THEN late ELSE history.torn
  OBVIOUS
<1>. PICK last : last = IF newest THEN gain ELSE history.last
  OBVIOUS
<1>. PICK unsure : unsure = IF daily[date] = NoDay
                               /\ (IF Before(date) # {} THEN history.torn ELSE late)
                            THEN history.unsure \cup {date} ELSE history.unsure
  OBVIOUS
<1>2. /\ opening \in Int /\ opened \in Int /\ torn \in BOOLEAN /\ last \in Int
      /\ unsure \in SUBSET Days
  <2>1. daily[date] # NoDay => daily[date] \in DayRow
    BY DEF ContributionInv, ContributionTyped
  <2>2. Before(date) # {} => daily[Max(Before(date))] \in DayRow
    BY LastDay
  <2>3. opening \in Int
    BY <2>1, <2>2 DEF DayRow
  <2>4. opened \in Int /\ last \in Int /\ unsure \in SUBSET Days
    BY TrackerShape
  <2>5. torn \in BOOLEAN
    BY TrackerShape
  <2>. QED  BY <2>3, <2>4, <2>5
<1>. PICK row : row = [opening |-> opening, last |-> equity]
  OBVIOUS
<1>3. row \in DayRow /\ row # NoDay /\ row.opening = opening /\ row.last = equity
  BY <1>2, RowIsNoGap DEF DayRow
<1>4. daily' = [daily EXCEPT ![date] = row]
  BY DEF RecordEquity
<1>5. /\ daily' \in [Days -> DayRow \cup {NoDay}] /\ daily'[date] = row
      /\ \A n \in Days : n # date => daily'[n] = daily[n]
  BY <1>3, <1>4 DEF ContributionInv, ContributionTyped
<1>6. /\ tracker' = [step |-> "peak", peak |-> tracker.peak, opening |-> opening,
                     equity |-> equity, capital |-> tracker.capital, gain |-> gain]
  BY DEF RecordEquity
<1>7. /\ tracker' \in TrackerState /\ tracker'.step = "peak" /\ tracker'.peak = tracker.peak
      /\ tracker'.equity = equity /\ tracker'.capital = tracker.capital
      /\ tracker'.gain = gain
  BY <1>1, <1>2, <1>6, TrackerShape DEF TrackerState
<1>8. history' = [high |-> history.high, sure |-> history.sure, last |-> last, torn |-> torn,
                  opened |-> [history.opened EXCEPT ![date] = opened], unsure |-> unsure]
  <2>1. history' = Measured(history, last, torn, date, opened, unsure)
    BY DEF RecordEquity, Measured
  <2>2. PICK h \in History : h = history
    BY DEF ContributionInv, ContributionTyped
  <2>. PICK p : p = [h.opened EXCEPT ![date] = opened]
    OBVIOUS
  <2>3. ASSUME NEW t \in BOOLEAN
        PROVE  Measured(h, last, t, date, opened, unsure)
                 = [high |-> h.high, sure |-> h.sure, last |-> last, torn |-> t, opened |-> p,
                    unsure |-> unsure]
    <3>1. h \in History /\ last \in Int /\ date \in Days /\ opened \in Int
          /\ unsure \in SUBSET Days
      BY <1>2, TrackerShape
    <3>2. p = [h.opened EXCEPT ![date] = opened]
      OBVIOUS
    <3>. QED  BY ONLY t \in BOOLEAN, <3>1, <3>2, HistoryMeasured
  <2>4. Measured(h, last, torn, date, opened, unsure)
          = [high |-> h.high, sure |-> h.sure, last |-> last, torn |-> torn, opened |-> p,
             unsure |-> unsure]
    BY <1>2, <2>3, Zenon
  <2>. QED  BY <2>1, <2>2, <2>4
<1>9. /\ history' \in History /\ history'.high = history.high /\ history'.sure = history.sure
      /\ history'.last = last /\ history'.torn = torn /\ history'.opened[date] = opened
      /\ history'.unsure = unsure
      /\ \A n \in Days : n # date => history'.opened[n] = history.opened[n]
  BY <1>2, <1>8, TrackerShape DEF History
<1>10. ContributionTyped'
  BY <1>1, <1>5, <1>7, <1>9 DEF ContributionInv, ContributionTyped
<1>11. CapitalCounted' /\ PeakKnown' /\ MeasurementKnows'
  BY <1>1, <1>7, <1>9
     DEF ContributionInv, CapitalCounted, Contributed, PeakKnown, Peak, MeasurementKnows
<1>12. date <= utcDate /\ utcDate \in Int
  BY <1>1, TrackerShape DEF ContributionInv, NoDayAhead
<1>13. NoDayAhead'
  <2>1. \A n \in Days : n > utcDate => n # date
    BY <1>12 DEF Days
  <2>. QED  BY <1>1, <1>5, <1>7, <2>1 DEF ContributionInv, NoDayAhead
<1>14. ~late => newest /\ equity = funds.capital + gain
  <2>. SUFFICES ASSUME ~late PROVE newest /\ equity = funds.capital + gain
    OBVIOUS
  <2>1. tracker.capital = funds.capital
    BY DEF DepositSince
  <2>2. equity = funds.capital + gain
    BY <1>1, <2>1 DEF ContributionInv, MeasurementKnows
  <2>3. newest
    BY <1>1, <2>1 DEF ContributionInv, NoDayAhead, LatestDay, Days
  <2>. QED  BY <2>2, <2>3
<1>15. newest => \A n \in Days : n > date => daily[n] = NoDay
  BY DEF LatestDay, Days
<1>16. NewestFollows'
  <2>. SUFFICES ASSUME ~torn PROVE NewestFollows'
    BY <1>9 DEF NewestFollows
  <2>. SUFFICES ASSUME NEW n \in Days, daily'[n] # NoDay,
                       \A m \in Days : m > n => daily'[m] = NoDay
                PROVE  daily'[n].last = funds.capital + last
    BY <1>1, <1>9 DEF NewestFollows
  <2>1. n \in Int /\ date \in Int
    BY DEF Days
  <2>2. ~(date > n)
    BY <1>3, <1>5
  <2>3. CASE newest
    <3>1. ~(n > date)
      <4>. SUFFICES ASSUME n > date PROVE FALSE
        OBVIOUS
      <4>1. n # date
        BY <2>1
      <4>. QED  BY <1>5, <1>15, <2>3, <4>1
    <3>2. n = date
      BY <2>1, <2>2, <3>1
    <3>. QED  BY <1>3, <1>5, <1>14, <2>3, <3>2
  <2>4. CASE ~newest
    <3>1. PICK m \in Days : m > date /\ daily[m] # NoDay
      BY <2>4 DEF LatestDay, Days
    <3>2. m \in Int
      BY DEF Days
    <3>3. daily'[m] # NoDay
      <4>1. m # date
        BY <2>1, <3>1, <3>2
      <4>. QED  BY <1>5, <3>1, <4>1
    <3>4. n # date
      BY <3>1, <3>3
    <3>5. daily[n] # NoDay /\ daily'[n] = daily[n]
      BY <1>5, <3>4
    <3>6. ASSUME NEW k \in Days, k > n PROVE daily[k] = NoDay
      <4>1. k # date
        BY <2>1, <2>2, <3>6 DEF Days
      <4>. QED  BY <1>5, <3>6, <4>1
    <3>7. daily[n].last = funds.capital + history.last
      BY <2>4, <3>5, <3>6 DEF ContributionInv, DaysFollow, NewestFollows
    <3>. QED  BY <2>4, <3>5, <3>7
  <2>. QED  BY <2>3, <2>4
<1>17. TodayFollows'
  <2>1. utcDate \in Days /\ utcDate \in Int /\ date \in Int
    BY DEF ContributionInv, ContributionTyped, Days
  <2>. SUFFICES ASSUME daily'[utcDate] # NoDay, utcDate \notin unsure
                PROVE  daily'[utcDate].opening = funds.capital + history'.opened[utcDate]
    BY <1>1, <1>9 DEF TodayFollows
  <2>2. utcDate \notin history.unsure
    OBVIOUS
  <2>3. CASE utcDate # date
    <3>1. daily'[utcDate] = daily[utcDate] /\ history'.opened[utcDate] = history.opened[utcDate]
      BY <1>5, <1>9, <2>1, <2>3
    <3>. QED  BY <2>2, <3>1 DEF ContributionInv, DaysFollow, TodayFollows
  <2>4. CASE utcDate = date /\ daily[date] # NoDay
    BY <1>3, <1>5, <1>9, <2>2, <2>4 DEF ContributionInv, DaysFollow, TodayFollows
  <2>5. CASE utcDate = date /\ daily[date] = NoDay /\ Before(date) # {}
    <3>1. ~history.torn
      BY <2>5
    <3>2. \A n \in Days : n >= date => daily[n] = NoDay
      <4>1. \A n \in Days : n > date => daily[n] = NoDay
        BY <2>5 DEF ContributionInv, NoDayAhead
      <4>. QED  BY <2>5, <4>1 DEF Days
    <3>3. daily[Max(Before(date))].last = funds.capital + history.last
      BY <2>5, <3>1, <3>2, LastDay
    <3>. QED  BY <1>3, <1>5, <1>9, <2>5, <3>3
  <2>6. CASE utcDate = date /\ daily[date] = NoDay /\ Before(date) = {}
    <3>1. ~late
      BY <2>6
    <3>. QED  BY <1>3, <1>5, <1>9, <1>14, <2>6, <3>1
  <2>. QED  BY <2>3, <2>4, <2>5, <2>6
<1>. QED  BY <1>10, <1>11, <1>13, <1>16, <1>17 DEF ContributionInv, DaysFollow

\* Higher is a maximum.
LEMMA HigherIs ==
  ASSUME NEW x \in Int, NEW y \in Int
  PROVE  Higher(x, y) \in Int /\ x <= Higher(x, y) /\ y <= Higher(x, y)
         /\ Higher(x, y) \in {x, y}
BY DEF Higher

\* record_peak_equity, for an equity above the peak in memory.
LEMMA RecordPeakKeeps == ASSUME ContributionInv, RecordPeak PROVE ContributionInv'
<1>1. tracker.step = "peak" /\ UNCHANGED <<utcDate, gained, daily, recorded>>
  BY DEF RecordPeak
<1>. PICK equity \in Int : equity = tracker.equity
  BY <1>1, TrackerShape
<1>. PICK gain \in Int : gain = tracker.gain
  BY <1>1, TrackerShape
<1>. PICK known \in Int : known = tracker.peak
  BY TrackerShape
<1>. PICK capital \in Int : capital = funds.capital
  BY TrackerShape
<1>. PICK peak \in Int : peak = funds.peak
  BY TrackerShape
<1>. PICK first \in Nat \ {0} : first = FirstCapital
  BY TrackerShape
<1>. PICK stored : stored = IF equity > known THEN Higher(peak, equity) ELSE peak
  OBVIOUS
<1>. PICK seen : seen = IF equity > known THEN stored ELSE known
  OBVIOUS
<1>2. stored \in Int /\ seen \in Int
  BY HigherIs
<1>3. funds' = [funds EXCEPT !.peak = stored] /\ tracker' = [step |-> "idle", peak |-> seen]
  BY DEF RecordPeak
<1>4. /\ funds' \in [capital : Int, peak : Int] /\ funds'.capital = capital
      /\ funds'.peak = stored
      /\ tracker' \in TrackerState /\ tracker'.step = "idle" /\ tracker'.peak = seen
  BY <1>2, <1>3 DEF ContributionInv, ContributionTyped, TrackerState
<1>. PICK high : high = Higher(history.high, gain)
  OBVIOUS
<1>. PICK sure : sure = IF tracker.capital = capital THEN Higher(history.sure, gain)
                        ELSE history.sure
  OBVIOUS
<1>5. high \in Int /\ sure \in Int
  BY TrackerShape, HigherIs
<1>6. history' = [high |-> high, sure |-> sure, last |-> history.last, torn |-> history.torn,
                  opened |-> history.opened, unsure |-> history.unsure]
  <2>1. history' = Raised(history, high, sure)
    BY DEF RecordPeak, Raised, DepositSince
  <2>2. PICK h \in History : h = history
    BY DEF ContributionInv, ContributionTyped
  <2>3. Raised(h, high, sure)
          = [high |-> high, sure |-> sure, last |-> h.last, torn |-> h.torn,
             opened |-> h.opened, unsure |-> h.unsure]
    BY <1>5, HistoryRaised
  <2>. QED  BY <2>1, <2>2, <2>3
<1>7. /\ history' \in History /\ history'.high = high /\ history'.sure = sure
      /\ history'.last = history.last /\ history'.torn = history.torn
      /\ history'.opened = history.opened /\ history'.unsure = history.unsure
  BY <1>5, <1>6, TrackerShape DEF History
<1>8. ContributionTyped'
  BY <1>1, <1>4, <1>7 DEF ContributionInv, ContributionTyped
<1>9. CapitalCounted' /\ MeasurementKnows' /\ NoDayAhead' /\ DaysFollow'
  BY <1>1, <1>4, <1>7
     DEF ContributionInv, CapitalCounted, Contributed, MeasurementKnows, NoDayAhead, DaysFollow,
         NewestFollows, TodayFollows
<1>10. PeakKnown'
  <2>. PICK P \in Int : P = IF peak = 0 THEN capital ELSE peak
    OBVIOUS
  <2>. PICK Q \in Int : Q = IF stored = 0 THEN capital ELSE stored
    BY <1>2
  <2>1. P = Peak /\ Q = Peak'
    BY <1>4 DEF Peak, NoPeak
  <2>. PICK held \in Int : held = tracker.capital
    BY <1>1, TrackerShape
  <2>. PICK h0 \in Int : h0 = history.high
    BY TrackerShape
  <2>. PICK s0 \in Int : s0 = history.sure
    BY TrackerShape
  <2>2. /\ peak = 0 => capital = first
        /\ first <= known /\ known <= P /\ 0 <= s0 /\ s0 <= P - capital /\ P - capital <= h0
    BY <2>1 DEF ContributionInv, PeakKnown, NoPeak
  <2>3. held <= capital /\ equity = held + gain
    BY <1>1 DEF ContributionInv, MeasurementKnows
  <2>4. high >= h0 /\ high >= gain
    BY HigherIs
  <2>5. sure \in {s0, gain} /\ sure >= s0 /\ (sure = s0 \/ held = capital)
    <3>1. Higher(s0, gain) \in {s0, gain} /\ Higher(s0, gain) >= s0
      BY HigherIs
    <3>2. sure = IF held = capital THEN Higher(s0, gain) ELSE s0
      OBVIOUS
    <3>. QED  BY <3>1, <3>2
  <2>6. CASE equity > known
    <3>1. stored = Higher(peak, equity) /\ seen = stored
      BY <2>6
    <3>2. /\ stored > 0 /\ first <= stored /\ s0 <= stored - capital
          /\ gain <= stored - held
          /\ stored - capital <= h0 \/ stored - capital <= gain
      <4>1. CASE peak > equity
        <5>1. stored = peak
          BY <3>1, <4>1 DEF Higher
        <5>2. peak # 0 /\ P = peak
          BY <2>2, <2>6, <4>1
        <5>. QED  BY <2>2, <2>3, <2>6, <4>1, <5>1, <5>2
      <4>2. CASE ~(peak > equity)
        <5>1. stored = equity
          BY <3>1, <4>2 DEF Higher
        <5>2. equity >= P
          BY <2>2, <2>6, <4>2
        <5>. QED  BY <2>2, <2>3, <2>6, <5>1, <5>2
      <4>. QED  BY <4>1, <4>2
    <3>3. Q = stored
      BY <1>2, <3>2
    <3>4. 0 <= sure /\ sure <= Q - capital /\ Q - capital <= high
      <4>. USE <1>2, <1>5, <2>2, <2>4, <2>5, <3>2, <3>3
      <4>1. 0 <= sure /\ Q - capital <= high
        OBVIOUS
      <4>2. sure <= Q - capital
        OBVIOUS
      <4>. QED  BY <4>1, <4>2
    <3>. QED  BY <1>2, <1>4, <1>7, <2>1, <3>1, <3>2, <3>3, <3>4 DEF PeakKnown, NoPeak
  <2>7. CASE ~(equity > known)
    <3>1. stored = peak /\ seen = known /\ Q = P
      BY <2>7
    <3>2. held = capital => gain <= P - capital
      BY <2>2, <2>3, <2>7
    <3>3. 0 <= sure /\ sure <= P - capital /\ P - capital <= high
      BY <1>5, <2>2, <2>4, <2>5, <3>2
    <3>. QED  BY <1>4, <1>7, <2>1, <2>2, <3>1, <3>3 DEF PeakKnown, NoPeak
  <2>. QED  BY <2>6, <2>7
<1>. QED  BY <1>8, <1>9, <1>10 DEF ContributionInv

\* The sum after a deposit under a new reference.
LEMMA DepositCounted ==
  ASSUME ContributionInv, NEW r \in References, NEW amount \in Nat \ {0}, recorded[r] = 0,
         recorded' \in [References -> Nat], recorded'[r] = amount,
         \A x \in References \ {r} : recorded'[x] = recorded[x],
         funds'.capital = funds.capital + amount
  PROVE  CapitalCounted'
<1>1. recorded \in [References -> Nat] /\ funds.capital \in Int
  BY DEF ContributionInv, ContributionTyped
<1>2. recorded' \in [References -> Nat] /\ recorded'[r] = amount
      /\ \A x \in References \ {r} : recorded'[x] = recorded[x]
  OBVIOUS
<1>3. Contributed' = Contributed \cup {r} /\ r \notin Contributed
  BY <1>2 DEF Contributed
<1>4. IsFiniteSet(Contributed) /\ Contributed \subseteq References
      /\ funds.capital = FirstCapital + SumOf(recorded, Contributed)
      /\ funds.capital >= FirstCapital /\ FirstCapital \in Nat
  BY ContributionAssumption DEF ContributionInv, CapitalCounted, Contributed
<1>5. IsFiniteSet(Contributed')
  BY <1>3, <1>4, FS_AddElement
<1>6. SumOf(recorded', Contributed') = SumOf(recorded, Contributed) + amount
  <2>. PICK f : f = recorded'
    OBVIOUS
  <2>. PICK g : g = recorded
    OBVIOUS
  <2>. PICK C : C = Contributed
    OBVIOUS
  <2>1. /\ IsFiniteSet(C) /\ r \notin C /\ f[r] = amount /\ amount \in Int
        /\ \A x \in C : f[x] \in Int /\ f[x] = g[x]
    BY <1>1, <1>2, <1>3, <1>4
  <2>2. SumOf(f, C \cup {r}) = SumOf(f, C) + f[r]
    BY <2>1, SumAdd
  <2>3. SumOf(f, C) = SumOf(g, C)
    BY <2>1, SumSame
  <2>. QED  BY <1>3, <2>1, <2>2, <2>3
<1>7. SumOf(recorded, Contributed) \in Int
  BY <1>1, <1>4, SumInt
<1>. QED  BY <1>1, <1>4, <1>5, <1>6, <1>7 DEF CapitalCounted

\* contribute: the peak and today's row rise with the capital.
LEMMA ContributeKeeps ==
  ASSUME ContributionInv, NEW r \in References, NEW amount \in Deposits, Contribute(r, amount)
  PROVE  ContributionInv'
<1>1. amount \in Nat \ {0}
  BY ContributionAssumption
<1>. PICK capital \in Int : capital = funds.capital
  BY TrackerShape
<1>. PICK today \in Days : today = utcDate
  BY DEF ContributionInv, ContributionTyped
<1>. PICK last \in Int : last = history.last
  BY TrackerShape
<1>. PICK P \in Int : P = Peak
  BY TrackerShape DEF Peak
<1>2. FirstCapital \in Nat \ {0} /\ FirstCapital <= capital /\ FirstCapital <= P
  BY TrackerShape DEF ContributionInv, CapitalCounted, PeakKnown
<1>3. /\ recorded[r] = 0 /\ recorded' = [recorded EXCEPT ![r] = amount]
      /\ UNCHANGED <<utcDate, gained, tracker>>
  BY DEF Contribute
<1>4. funds' = [capital |-> capital + amount, peak |-> P + amount]
  BY DEF Contribute, NewPeak, Peak
<1>5. /\ funds' \in [capital : Int, peak : Int] /\ funds'.capital = capital + amount
      /\ funds'.peak = P + amount /\ Peak' = P + amount
  BY <1>1, <1>2, <1>4 DEF Peak, NoPeak
<1>6. recorded' \in [References -> Nat] /\ CapitalCounted'
  <2>1. recorded' \in [References -> Nat] /\ recorded'[r] = amount
        /\ \A x \in References \ {r} : recorded'[x] = recorded[x]
    BY <1>1, <1>3 DEF ContributionInv, ContributionTyped
  <2>. QED  BY <1>1, <1>3, <1>5, <2>1, DepositCounted
<1>. PICK row : row = RaisedDay(amount)
  OBVIOUS
<1>7. /\ row \in DayRow \cup {NoDay}
      /\ daily[today] # NoDay =>
           /\ row \in DayRow /\ row # NoDay
           /\ row.opening = daily[today].opening + amount
           /\ row.last = daily[today].last + amount
      /\ daily[today] = NoDay /\ row # NoDay =>
           /\ Before(today) # {} /\ row.opening = row.last
           /\ row.last = daily[Max(Before(today))].last + amount
      /\ row = NoDay => Before(today) = {}
  <2>1. CASE daily[today] # NoDay
    <3>1. daily[today] \in DayRow
      BY <2>1 DEF ContributionInv, ContributionTyped
    <3>2. row = [opening |-> daily[today].opening + amount, last |-> daily[today].last + amount]
      BY <2>1 DEF RaisedDay
    <3>3. row \in DayRow
      BY <1>1, <3>1, <3>2 DEF DayRow
    <3>. QED  BY <2>1, <3>2, <3>3, RowIsNoGap
  <2>2. CASE daily[today] = NoDay /\ Before(today) = {}
    <3>1. row = NoDay
      BY <2>2 DEF RaisedDay
    <3>. QED  BY <2>2, <3>1
  <2>3. CASE daily[today] = NoDay /\ Before(today) # {}
    <3>. PICK ends : ends = daily[Max(Before(today))].last
      OBVIOUS
    <3>1. ends \in Int
      BY <2>3, LastDay DEF DayRow
    <3>2. row = [opening |-> ends + amount, last |-> ends + amount]
      BY <2>3 DEF RaisedDay
    <3>3. row \in DayRow /\ row.opening = ends + amount /\ row.last = ends + amount
      BY <1>1, <3>1, <3>2 DEF DayRow
    <3>. QED  BY <2>3, <3>3, RowIsNoGap
  <2>. QED  BY <2>1, <2>2, <2>3
<1>8. /\ daily' \in [Days -> DayRow \cup {NoDay}] /\ daily'[today] = row
      /\ \A n \in Days : n # today => daily'[n] = daily[n]
  <2>1. daily' = [daily EXCEPT ![today] = row]
    BY DEF Contribute
  <2>. QED  BY <1>7, <2>1 DEF ContributionInv, ContributionTyped
<1>. PICK opened \in Int : opened = IF daily[today] = NoDay THEN last
                                    ELSE history.opened[today]
  BY TrackerShape
<1>. PICK unsure \in SUBSET Days :
           unsure = IF daily[today] = NoDay /\ history.torn
                    THEN history.unsure \cup {today} ELSE history.unsure
  BY TrackerShape
<1>9. history' = [high |-> history.high, sure |-> history.sure, last |-> last,
                  torn |-> history.torn,
                  opened |-> [history.opened EXCEPT ![today] = opened], unsure |-> unsure]
  <2>1. history' = OpenedBy(history, today, opened, unsure)
    BY DEF Contribute, OpenedBy
  <2>2. PICK h \in History : h = history
    BY DEF ContributionInv, ContributionTyped
  <2>. PICK p : p = [h.opened EXCEPT ![today] = opened]
    OBVIOUS
  <2>3. OpenedBy(h, today, opened, unsure)
          = [high |-> h.high, sure |-> h.sure, last |-> h.last, torn |-> h.torn, opened |-> p,
             unsure |-> unsure]
    <3>1. h \in History /\ today \in Days /\ opened \in Int /\ unsure \in SUBSET Days
      BY TrackerShape
    <3>2. p = [h.opened EXCEPT ![today] = opened]
      OBVIOUS
    <3>. QED  BY ONLY <3>1, <3>2, HistoryOpened
  <2>. QED  BY <2>1, <2>2, <2>3
<1>10. /\ history' \in History /\ history'.high = history.high /\ history'.sure = history.sure
       /\ history'.last = last /\ history'.torn = history.torn
       /\ history'.opened[today] = opened /\ history'.unsure = unsure
  BY <1>9, TrackerShape DEF History
<1>11. ContributionTyped'
  BY <1>3, <1>5, <1>6, <1>8, <1>10 DEF ContributionInv, ContributionTyped
<1>12. PeakKnown'
  <2>1. /\ tracker.peak \in Int /\ FirstCapital <= tracker.peak /\ tracker.peak <= P
        /\ history.sure \in Int /\ history.high \in Int
        /\ 0 <= history.sure /\ history.sure <= P - capital /\ P - capital <= history.high
    BY TrackerShape DEF ContributionInv, PeakKnown
  <2>2. P + amount # 0 /\ P <= P + amount /\ (P + amount) - (capital + amount) = P - capital
    BY <1>1, <1>2
  <2>3. tracker.peak <= P + amount
    BY <1>1, <2>1
  <2>. QED  BY <1>3, <1>5, <1>10, <2>1, <2>2, <2>3 DEF PeakKnown, NoPeak
<1>13. MeasurementKnows'
  <2>1. tracker.step # "idle" =>
          tracker.capital <= capital + amount /\ tracker.equity = tracker.capital + tracker.gain
    BY <1>1, TrackerShape DEF ContributionInv, MeasurementKnows
  <2>. QED  BY <1>3, <1>5, <2>1 DEF MeasurementKnows
<1>14. NoDayAhead'
  <2>1. \A n \in Days : n > today => daily[n] = NoDay /\ n # today
    BY DEF ContributionInv, NoDayAhead, Days
  <2>2. tracker.step = "read" => tracker.date <= today /\ tracker.capital # capital + amount
    BY <1>1, TrackerShape DEF ContributionInv, NoDayAhead, MeasurementKnows
  <2>. QED  BY <1>3, <1>5, <1>8, <2>1, <2>2 DEF NoDayAhead
<1>15. \A n \in Days : n > today => daily[n] = NoDay /\ daily'[n] = NoDay
  BY <1>8 DEF ContributionInv, NoDayAhead, Days
<1>16. ASSUME daily[today] = NoDay, row # NoDay, ~history.torn
       PROVE  row.opening = capital + amount + last /\ row.last = capital + amount + last
  <2>1. \A n \in Days : n >= today => daily[n] = NoDay
    BY <1>15, <1>16 DEF Days
  <2>2. daily[Max(Before(today))].last = capital + last
    BY <1>7, <1>16, <2>1, LastDay
  <2>. QED  BY <1>1, <1>7, <1>16, <2>2
<1>17. TodayFollows'
  <2>. SUFFICES ASSUME row # NoDay, today \notin unsure
                PROVE  row.opening = capital + amount + opened
    BY <1>3, <1>5, <1>8, <1>10 DEF TodayFollows
  <2>1. CASE daily[today] # NoDay
    <3>1. today \notin history.unsure
      BY <2>1
    <3>2. daily[today].opening = capital + history.opened[today]
      BY <2>1, <3>1 DEF ContributionInv, DaysFollow, TodayFollows
    <3>. QED  BY <1>1, <1>7, <2>1, <3>2, TrackerShape
  <2>2. CASE daily[today] = NoDay
    <3>1. ~history.torn
      BY <2>2
    <3>. QED  BY <1>16, <2>2, <3>1
  <2>. QED  BY <2>1, <2>2
<1>18. NewestFollows'
  <2>. SUFFICES ASSUME ~history.torn, NEW n \in Days, daily'[n] # NoDay,
                       \A m \in Days : m > n => daily'[m] = NoDay
                PROVE  daily'[n].last = capital + amount + last
    BY <1>5, <1>10 DEF NewestFollows
  <2>1. row # NoDay => row.last = capital + amount + last
    <3>1. CASE daily[today] # NoDay
      <4>1. daily[today].last = capital + last
        BY <1>15, <3>1 DEF ContributionInv, DaysFollow, NewestFollows
      <4>. QED  BY <1>1, <1>7, <3>1, <4>1, TrackerShape
    <3>. QED  BY <1>16, <3>1
  <2>2. CASE n = today
    BY <1>8, <2>1, <2>2
  <2>3. CASE n # today
    <3>1. daily'[n] = daily[n] /\ daily[n] # NoDay /\ n \in Int /\ today \in Int
      BY <1>8, <2>3 DEF Days
    <3>2. n < today
      BY <1>15, <2>3, <3>1
    <3>3. row = NoDay
      BY <1>8, <3>2
    <3>4. n \in Before(today)
      BY <3>1, <3>2 DEF Before, Days
    <3>. QED  BY <1>7, <3>3, <3>4
  <2>. QED  BY <2>2, <2>3
<1>. QED  BY <1>6, <1>11, <1>12, <1>13, <1>14, <1>17, <1>18 DEF ContributionInv, DaysFollow

\* DepositsAreCapital: a deposit raises the stored figures the drawdown and the day's loss
\* are measured from by exactly its amount, once per reference, whenever it falls between the
\* steps of a measurement, a midnight or a restart.  A measurement it overtook may be missing
\* from the peak, and a day that opens from one stands on the older equity; the peak in the
\* tracker's memory is not part of it (capital_contribution.py contribute, risk_state.py
\* record_equity, paper_ledger.py record_peak_equity).
THEOREM Deposited == ContributionSpec => []DepositsAreCapital
<1>1. ContributionInv /\ [ContributionNext]_contributionVars => ContributionInv'
  <2>. SUFFICES ASSUME ContributionInv, [ContributionNext]_contributionVars
                PROVE  ContributionInv'
    OBVIOUS
  <2>1. CASE ReadCash
    BY <2>1, ReadCashKeeps
  <2>2. CASE RecordEquity
    BY <2>2, RecordEquityKeeps
  <2>3. CASE RecordPeak
    BY <2>3, RecordPeakKeeps
  <2>4. CASE \E r \in References, amount \in Deposits : Contribute(r, amount)
    BY <2>4, ContributeKeeps
  <2>5. CASE \/ MarksMove \/ Midnight \/ RestartTracker \/ UNCHANGED contributionVars
             \/ \E r \in References, amount \in Deposits : Repeat(r, amount)
    BY <2>5, AroundKeeps
  <2>. QED  BY <2>1, <2>2, <2>3, <2>4, <2>5 DEF ContributionNext
<1>. QED  BY ContributionStart, <1>1, DepositPromises, PTL DEF ContributionSpec

-----------------------------------------------------------------------------
(* Credited outcomes.                                                      *)

Trade == [lots : Int, price : Nat \ {0}, by : Entries \cup Exits \cup {"SWARM"}]
CadenceState ==
  [step : {"idle", "weigh", "decide", "evidence", "resolve"},
   stamp : Nat, evidence : Nat \cup {NotComputed}]
  \cup [step : {"journal"}, stamp : Nat, evidence : Nat \cup {NotComputed}, entry : Entries]

OutcomesTyped ==
  /\ traded \in Seq(Trade)
  /\ decided = [d \in Entries |-> decided[d]]
  /\ cadence \in CadenceState
  /\ cadence.stamp <= Len(traded)
  /\ cadence.evidence <= Len(traded)

\* A decision fills once, and buys.
EntriesBuyOnce ==
  \A i \in DOMAIN traded : traded[i].by \in Entries =>
    /\ traded[i].lots > 0
    /\ \A j \in DOMAIN traded : traded[i].by = traded[j].by => i = j

Waiting(i) == [order |-> i, outcome |-> Unresolved]
Credited(i, episode) == [order |-> i, outcome |-> Outcome(i, episode)]

\* A row names the fill of its decision; its outcome is that of the closed episode of the fill.
DecisionsFollow ==
  \A d \in Entries :
    decided[d] # NoDecision =>
      \E i \in DOMAIN traded :
        /\ traded[i].by = d
        /\ \/ decided[d] = Waiting(i)
           \/ \E E \in Episodes(Len(traded)) : i \in E /\ decided[d] = Credited(i, E)

\* The row that is about to be written is not there yet.
JournalKnows == cadence.step = "journal" => decided[cadence.entry] = NoDecision

\* Feedback is what the rows say.
FeedbackFollows ==
  \A d \in Entries :
    feedback[d] # NoEvent => d \in Supported /\ Resolved(d) /\ feedback[d] = EventOf(d)

CreditInv ==
  /\ OutcomesTyped
  /\ EntriesBuyOnce
  /\ DecisionsFollow
  /\ JournalKnows
  /\ FeedbackFollows
  /\ EngineReplaysFeedback
  /\ NothingWaits

\* The fills have their fields.
LEMMA TradesTyped ==
  ASSUME OutcomesTyped
  PROVE  /\ Len(traded) \in Nat /\ DOMAIN traded = 1..Len(traded)
         /\ \A i \in DOMAIN traded :
              /\ traded[i] \in Trade /\ traded[i].lots \in Int /\ traded[i].price \in Nat \ {0}
              /\ LotsMoved[i] = traded[i].lots /\ Notional[i] = traded[i].lots * traded[i].price
              /\ Notional[i] \in Int
<1>1. Len(traded) \in Nat /\ DOMAIN traded = 1..Len(traded)
  BY LenProperties DEF OutcomesTyped
<1>2. ASSUME NEW i \in DOMAIN traded
      PROVE  /\ traded[i] \in Trade /\ traded[i].lots \in Int /\ traded[i].price \in Nat \ {0}
             /\ LotsMoved[i] = traded[i].lots /\ Notional[i] = traded[i].lots * traded[i].price
             /\ Notional[i] \in Int
  <2>1. traded[i] \in Trade
    BY <1>1, <1>2, ElementOfSeq DEF OutcomesTyped
  <2>2. traded[i].lots \in Int /\ traded[i].price \in Nat \ {0}
    BY <2>1 DEF Trade
  <2>3. traded[i].lots * traded[i].price \in Int
    BY <2>2
  <2>. QED  BY <2>1, <2>2, <2>3 DEF LotsMoved, Notional
<1>. QED  BY <1>1, <1>2

\* build_trade_evidence: an episode ends with the first fill after which nothing is held.
LEMMA EpisodeIs ==
  ASSUME OutcomesTyped, NEW n \in Int, n <= Len(traded), NEW E \in Episodes(n)
  PROVE  /\ Max(E) \in E /\ Max(E) \in 1..n /\ Holding(Max(E)) = 0
         /\ E = {i \in 1..Max(E) : \A j \in i..Max(E) - 1 : Holding(j) # 0}
         /\ Positions(E) /\ E \subseteq DOMAIN traded
<1>1. PICK close \in 1..n :
        /\ Holding(close) = 0
        /\ E = {i \in 1..close : \A j \in i..close - 1 : Holding(j) # 0}
  BY DEF Episodes, EndsEpisode
<1>2. close \in E /\ E \subseteq 1..close /\ close \in Int
  BY <1>1
<1>3. IsFiniteSet(1..close)
  BY <1>2, FS_Interval
<1>4. Positions(E) /\ close \in Int /\ \A y \in E : y \in Int /\ y <= close
  <2>1. E \subseteq Int /\ \A y \in E : y <= close
    BY <1>2
  <2>2. IsFiniteSet(E)
    BY <1>2, <1>3, FS_Subset
  <2>. QED  BY <1>2, <2>1, <2>2 DEF Positions
<1>5. Max(E) \in E /\ \A y \in E : Max(E) >= y
  BY <1>2, <1>4, MaxOfFinite
<1>6. Max(E) = close
  <2>. PICK top : top = Max(E)
    OBVIOUS
  <2>1. top \in E /\ top >= close
    BY <1>2, <1>5
  <2>2. top \in Int /\ top <= close
    BY <1>4, <2>1
  <2>. QED  BY <1>4, <2>1, <2>2
<1>7. E \subseteq DOMAIN traded
  BY <1>2, TradesTyped
<1>. QED  BY <1>1, <1>2, <1>4, <1>6, <1>7

\* An episode is the holding period of each of its fills.
LEMMA PeriodIsEpisode ==
  ASSUME OutcomesTyped, NEW E \in Episodes(Len(traded)), NEW i \in E
  PROVE  HoldingPeriod(i) = E
<1>. PICK close \in Int : close = Max(E)
  BY EpisodeIs, TradesTyped
<1>. PICK n \in Nat : n = Len(traded)
  BY TradesTyped
<1>1. /\ close \in 1..n /\ Holding(close) = 0
      /\ E = {k \in 1..close : \A j \in k..close - 1 : Holding(j) # 0}
  BY EpisodeIs
<1>2. DOMAIN traded = 1..n
  BY TradesTyped
<1>3. i \in 1..close /\ \A j \in i..close - 1 : Holding(j) # 0
  BY <1>1
<1>4. ASSUME NEW j \in E PROVE j \in HoldingPeriod(i)
  <2>1. j \in 1..close /\ \A m \in j..close - 1 : Holding(m) # 0
    BY <1>1, <1>4
  <2>2. j \in 1..n /\ close <= n
    BY <1>1, <2>1
  <2>3. ASSUME NEW m \in 1..n, (i <= m /\ m < j) \/ (j <= m /\ m < i)
        PROVE  Holding(m) # 0
    <3>1. m \in i..close - 1 \/ m \in j..close - 1
      BY <1>3, <2>1, <2>3
    <3>. QED  BY <1>3, <2>1, <3>1
  <2>. QED  BY <1>2, <2>2, <2>3 DEF HoldingPeriod
<1>5. ASSUME NEW j \in HoldingPeriod(i) PROVE j \in E
  <2>1. /\ j \in 1..n
        /\ \A m \in 1..n : (i <= m /\ m < j) \/ (j <= m /\ m < i) => Holding(m) # 0
    BY <1>2, <1>5 DEF HoldingPeriod
  <2>2. j <= close
    BY <1>1, <1>3, <2>1
  <2>3. ASSUME NEW m \in j..close - 1 PROVE Holding(m) # 0
    <3>1. m \in 1..n
      BY <1>1, <2>1, <2>3
    <3>2. CASE m >= i
      BY <1>3, <2>3, <3>2
    <3>3. CASE m < i
      BY <2>1, <2>3, <3>1, <3>3
    <3>. QED  BY <1>3, <3>1, <3>2, <3>3
  <2>. QED  BY <1>1, <2>1, <2>2, <2>3
<1>. QED  BY <1>4, <1>5

\* A fill changes no sum over the fills before it, and so no closed episode.
LEMMA EpisodesStay ==
  ASSUME OutcomesTyped, NEW row \in Trade, traded' = Append(traded, row)
  PROVE  /\ traded' \in Seq(Trade) /\ Len(traded') = Len(traded) + 1
         /\ \A i \in DOMAIN traded : i \in DOMAIN traded' /\ traded'[i] = traded[i]
         /\ \A n \in Int : n <= Len(traded) =>
              /\ Holding(n)' = Holding(n) /\ Episodes(n)' = Episodes(n)
              /\ Episodes(n) \subseteq Episodes(Len(traded))
              /\ Episodes(n) \subseteq Episodes(Len(traded))'
         /\ \A E \in Episodes(Len(traded)) : \A i \in E : Outcome(i, E)' = Outcome(i, E)
<1>. PICK n0 \in Nat : n0 = Len(traded)
  BY TradesTyped
<1>1. DOMAIN traded = 1..n0
  BY TradesTyped
<1>2. /\ traded' \in Seq(Trade) /\ Len(traded') = n0 + 1
      /\ \A i \in 1..n0 : traded'[i] = traded[i]
      /\ DOMAIN traded' = 1..(n0 + 1)
  BY AppendProperties, LenProperties DEF OutcomesTyped
<1>3. \A i \in 1..n0 : i \in 1..(n0 + 1)
  OBVIOUS
<1>4. \A i \in 1..n0 : /\ LotsMoved'[i] = LotsMoved[i] /\ LotsMoved[i] \in Int
                       /\ Notional'[i] = Notional[i] /\ Notional[i] \in Int
  BY <1>1, <1>2, <1>3, TradesTyped DEF LotsMoved, Notional
<1>5. ASSUME NEW n \in Int, n <= n0 PROVE Holding(n)' = Holding(n)
  <2>. PICK f : f = LotsMoved'
    OBVIOUS
  <2>. PICK g : g = LotsMoved
    OBVIOUS
  <2>. PICK S : S = 1..n
    OBVIOUS
  <2>1. IsFiniteSet(1..n) /\ 1..n \subseteq 1..n0
    <3>1. IsFiniteSet(1..n)
      BY FS_Interval
    <3>2. \A x \in 1..n : x \in 1..n0
      BY <1>5
    <3>. QED  BY <3>1, <3>2
  <2>2. IsFiniteSet(S) /\ \A x \in S : f[x] \in Int /\ f[x] = g[x]
    BY <1>4, <2>1
  <2>3. SumOf(f, S) = SumOf(g, S)
    BY <2>2, SumSame
  <2>. QED  BY <2>3 DEF Holding
<1>6. ASSUME NEW n \in Int, n <= n0 PROVE Episodes(n)' = Episodes(n)
  <2>1. \A i \in 1..n : EndsEpisode(i)' <=> EndsEpisode(i)
    BY <1>5, <1>6 DEF EndsEpisode
  <2>2. {i \in 1..n : EndsEpisode(i)}' = {i \in 1..n : EndsEpisode(i)}
    BY <2>1
  <2>3. ASSUME NEW close \in 1..n
        PROVE  {i \in 1..close : \A j \in i..close - 1 : ~EndsEpisode(j)}'
                 = {i \in 1..close : \A j \in i..close - 1 : ~EndsEpisode(j)}
    <3>1. \A i \in 1..close : \A j \in i..close - 1 : j \in 1..n
      OBVIOUS
    <3>. QED  BY <2>1, <3>1
  <2>. QED  BY <2>2, <2>3 DEF Episodes
<1>7. ASSUME NEW n \in Int, n <= n0 PROVE Episodes(n) \subseteq Episodes(n0)
  <2>1. \A k \in 1..n : k \in 1..n0
    BY <1>7
  <2>. QED  BY <2>1 DEF Episodes
<1>8. Episodes(n0)' \subseteq Episodes(n0 + 1)'
  <2>1. \A k \in 1..n0 : k \in 1..(n0 + 1)
    OBVIOUS
  <2>. QED  BY <2>1 DEF Episodes
<1>9. ASSUME NEW E \in Episodes(n0), NEW i \in E PROVE Outcome(i, E)' = Outcome(i, E)
  <2>1. E \subseteq 1..n0 /\ IsFiniteSet(E) /\ Max(E) \in E
    BY <1>1, EpisodeIs DEF Positions
  <2>2. traded'[Max(E)].by = traded[Max(E)].by
    BY <1>2, <2>1
  <2>3. Bought(E)' = Bought(E)
    BY <1>2, <2>1 DEF Bought
  <2>. PICK f : f = Notional'
    OBVIOUS
  <2>. PICK g : g = Notional
    OBVIOUS
  <2>. PICK B : B = Bought(E)
    OBVIOUS
  <2>4. B \subseteq E /\ IsFiniteSet(B)
    BY <2>1, FS_Subset DEF Bought
  <2>5. \A x \in E : f[x] \in Int /\ f[x] = g[x]
    BY <1>4, <2>1
  <2>6. SumOf(f, E) = SumOf(g, E)
    BY <2>1, <2>5, SumSame
  <2>7. SumOf(f, B) = SumOf(g, B)
    BY <2>4, <2>5, SumSame
  <2>8. NetOf(E)' = NetOf(E)
    BY <2>6 DEF NetOf
  <2>9. Share(i, E)' = Share(i, E)
    BY <2>3, <2>5, <2>7, <2>8 DEF Share
  <2>. QED  BY <2>2, <2>9 DEF Outcome
<1>10. \A i \in DOMAIN traded : i \in DOMAIN traded' /\ traded'[i] = traded[i]
  BY <1>1, <1>2, <1>3
<1>11. Episodes(Len(traded))' = Episodes(n0 + 1)'
  BY <1>2
<1>12. ASSUME NEW n \in Int, n <= n0
       PROVE  /\ Episodes(n) \subseteq Episodes(n0)
              /\ Episodes(n) \subseteq Episodes(Len(traded))'
  BY <1>6, <1>7, <1>8, <1>11, <1>12
<1>. QED  BY <1>2, <1>5, <1>6, <1>9, <1>10, <1>12

\* Each row of a decision, for one that names a fill.
LEMMA RowIs ==
  ASSUME CreditInv, NEW d \in Entries, decided[d] # NoDecision
  PROVE  /\ decided[d].order \in DOMAIN traded /\ traded[decided[d].order].by = d
         /\ traded[decided[d].order].lots > 0
         /\ ~Resolved(d) => decided[d] = Waiting(decided[d].order)
         /\ Resolved(d) =>
              \E E \in Episodes(Len(traded)) :
                /\ decided[d].order \in E
                /\ decided[d] = Credited(decided[d].order, E)
                /\ decided[d].outcome = Outcome(decided[d].order, E)
                /\ decided[d].outcome.exit = Max(E)
<1>. PICK i \in DOMAIN traded :
       /\ traded[i].by = d
       /\ \/ decided[d] = Waiting(i)
          \/ \E E \in Episodes(Len(traded)) : i \in E /\ decided[d] = Credited(i, E)
  BY DEF CreditInv, DecisionsFollow
<1>1. decided[d].order = i
  <2>1. Waiting(i).order = i
    BY DEF Waiting
  <2>2. \A E : Credited(i, E).order = i
    BY DEF Credited
  <2>. QED  BY <2>1, <2>2
<1>2. traded[i].lots > 0
  BY DEF CreditInv, EntriesBuyOnce
<1>3. ASSUME ~Resolved(d) PROVE decided[d] = Waiting(i)
  <2>1. decided[d].outcome = Unresolved
    BY <1>3 DEF Resolved
  <2>2. ASSUME NEW E \in Episodes(Len(traded)), i \in E, decided[d] = Credited(i, E)
        PROVE  FALSE
    <3>1. Unresolved = Outcome(i, E)
      BY <2>1, <2>2 DEF Credited
    <3>2. Max(E) = 0
      BY <3>1 DEF Unresolved, Outcome
    <3>3. Max(E) # 0
      BY EpisodeIs, TradesTyped DEF CreditInv
    <3>. QED  BY <3>2, <3>3
  <2>. QED  BY <2>2
<1>4. ASSUME Resolved(d)
      PROVE  \E E \in Episodes(Len(traded)) :
               /\ i \in E /\ decided[d] = Credited(i, E)
               /\ decided[d].outcome = Outcome(i, E) /\ decided[d].outcome.exit = Max(E)
  <2>1. decided[d] # Waiting(i)
    BY <1>4 DEF Resolved, Waiting
  <2>2. PICK E \in Episodes(Len(traded)) : i \in E /\ decided[d] = Credited(i, E)
    BY <2>1
  <2>3. decided[d].outcome = Outcome(i, E)
    BY <2>2 DEF Credited
  <2>4. decided[d].outcome.exit = Max(E)
    BY <2>3 DEF Outcome
  <2>. QED  BY <2>2, <2>3, <2>4
<1>. QED  BY <1>1, <1>2, <1>3, <1>4

\* A resolved row has an exit that is over.
LEMMA ExitIsOver ==
  ASSUME CreditInv, NEW d \in Entries, Resolved(d)
  PROVE  decided[d].outcome.exit \in 1..Len(traded)
<1>1. PICK E \in Episodes(Len(traded)) : decided[d].outcome.exit = Max(E)
  BY RowIs DEF Resolved
<1>. QED  BY <1>1, EpisodeIs, TradesTyped DEF CreditInv

\* refresh_feedback refuses nothing the system wrote, stores what is missing, and credits what
\* is stored.
LEMMA RefreshKeeps ==
  ASSUME CreditInv, NEW at, RefreshFeedback(at), decided' = decided
  PROVE  /\ FeedbackFollows' /\ EngineReplaysFeedback'
         /\ \A d \in Events(at) : feedback'[d] = EventOf(d)
<1>1. ~SourceChanged(at)
  <2>. SUFFICES ASSUME NEW d \in Entries, feedback[d] # NoEvent, feedback[d].exit <= at
                PROVE  d \in Events(at) /\ EventOf(d) = feedback[d]
    BY DEF SourceChanged
  <2>1. d \in Supported /\ Resolved(d) /\ feedback[d] = EventOf(d)
    BY DEF CreditInv, FeedbackFollows
  <2>2. feedback[d].exit = decided[d].outcome.exit
    BY <2>1 DEF EventOf
  <2>. QED  BY <2>1, <2>2 DEF Events
<1>2. /\ engine'.status # "refused" /\ engine'.at = at /\ engine'.credited = Events(at)
      /\ feedback' = [d \in Entries |->
                        IF d \in Events(at) /\ feedback[d] = NoEvent THEN EventOf(d)
                        ELSE feedback[d]]
  BY <1>1 DEF RefreshFeedback
<1>3. /\ \A d \in Entries : Resolved(d)' = Resolved(d) /\ EventOf(d)' = EventOf(d)
  BY DEF Resolved, EventOf
<1>4. Events(at) \subseteq Entries
  BY OutcomeAssumption DEF Events
<1>5. ASSUME NEW d \in Events(at)
      PROVE  /\ feedback'[d] = EventOf(d) /\ d \in Supported /\ Resolved(d)
             /\ feedback'[d] # NoEvent /\ feedback'[d].exit <= at
  <2>1. d \in Entries /\ d \in Supported /\ Resolved(d) /\ decided[d].outcome.exit <= at
    BY <1>4 DEF Events
  <2>2. feedback'[d] = EventOf(d)
    BY <1>2, <2>1 DEF CreditInv, FeedbackFollows
  <2>3. EventOf(d).exit = decided[d].outcome.exit
    BY DEF EventOf
  <2>4. decided[d].outcome.exit # 0
    BY <2>1, ExitIsOver, TradesTyped DEF CreditInv
  <2>. QED  BY <2>1, <2>2, <2>3, <2>4 DEF NoEvent
<1>6. ASSUME NEW d \in Entries, d \notin Events(at)
      PROVE  feedback'[d] = feedback[d] /\ ~(feedback[d] # NoEvent /\ feedback[d].exit <= at)
  BY <1>1, <1>2, <1>6 DEF SourceChanged
<1>7. FeedbackFollows'
  BY <1>3, <1>5, <1>6 DEF CreditInv, FeedbackFollows
<1>8. EngineReplaysFeedback'
  BY <1>2, <1>4, <1>5, <1>6 DEF EngineReplaysFeedback
<1>. QED  BY <1>5, <1>7, <1>8

\* The entries of one holding period share what it earned.
LEMMA SharesAddUp ==
  ASSUME CreditInv, NEW E \in Episodes(Len(traded)), NEW S, IsFiniteSet(S),
         S \subseteq Bought(E), S # {}
  PROVE  LET den == SumOf(Notional, Bought(E))
             part == SumOf(Notional, S)
         IN  0 <= part /\ part <= den /\ den \in Int /\ part \in Int
             /\ (S = Bought(E) => part = den)
<1>1. IsFiniteSet(E) /\ E \subseteq DOMAIN traded
  BY EpisodeIs, TradesTyped DEF CreditInv, Positions
<1>2. Bought(E) \subseteq E /\ IsFiniteSet(Bought(E))
  BY <1>1, FS_Subset DEF Bought
<1>3. ASSUME NEW x \in Bought(E) PROVE Notional[x] \in Nat
  <2>1. /\ traded[x].lots \in Int /\ traded[x].price \in Nat \ {0}
        /\ Notional[x] = traded[x].lots * traded[x].price
    BY <1>1, <1>2, TradesTyped DEF CreditInv
  <2>2. traded[x].lots > 0
    BY DEF Bought
  <2>3. \A lots, price \in Nat : lots * price \in Nat
    OBVIOUS
  <2>. QED  BY <2>1, <2>2, <2>3
<1>. PICK B : B = Bought(E)
  OBVIOUS
<1>. PICK f : f = Notional
  OBVIOUS
<1>4. IsFiniteSet(B) /\ S \subseteq B /\ \A x \in B : f[x] \in Nat
  BY <1>2, <1>3
<1>5. SumOf(f, B) \in Nat /\ SumOf(f, S) \in Nat
  BY <1>4, SumNat
<1>6. SumOf(f, S) <= SumOf(f, B)
  BY <1>4, SumSubset
<1>. QED  BY <1>5, <1>6

\* Two closed episodes with a common fill are one.
LEMMA EpisodesApart ==
  ASSUME OutcomesTyped, NEW E \in Episodes(Len(traded)), NEW F \in Episodes(Len(traded)),
         NEW i, i \in E, i \in F
  PROVE  E = F
BY PeriodIsEpisode

\* _episode_outcome: what the rows of a period share is the part their fills had in it.
LEMMA OutcomesShare == CreditInv => OutcomesAddUp
<1>. SUFFICES ASSUME CreditInv, NEW d \in Entries, Resolved(d)
              PROVE  LET period == HoldingPeriod(decided[d].order)
                         shared == {x \in Entries :
                                      Resolved(x) /\ decided[x].order \in period}
                         total == SumOf([x \in shared |-> decided[x].outcome.net.num], shared)
                         den == decided[d].outcome.net.den
                     IN /\ Holding(Max(period)) = 0
                        /\ decided[d].outcome.exit = Max(period)
                        /\ \A x \in shared : decided[x].outcome.net.den = den
                        /\ IF {decided[x].order : x \in shared} = Bought(period)
                           THEN total = NetOf(period) * den
                           ELSE \/ 0 <= total /\ total <= NetOf(period) * den
                                \/ NetOf(period) * den <= total /\ total <= 0
  BY DEF OutcomesAddUp
<1>1. decided[d] # NoDecision
  BY DEF Resolved
<1>2. PICK E \in Episodes(Len(traded)) :
        /\ decided[d].order \in E
        /\ decided[d].outcome = Outcome(decided[d].order, E)
        /\ decided[d].outcome.exit = Max(E)
  BY <1>1, RowIs
<1>3. HoldingPeriod(decided[d].order) = E
  BY <1>2, PeriodIsEpisode DEF CreditInv
<1>4. /\ IsFiniteSet(E) /\ E \subseteq DOMAIN traded /\ E \subseteq Int
      /\ Holding(Max(E)) = 0
  BY EpisodeIs, TradesTyped DEF CreditInv, Positions
<1>. DEFINE shared == {x \in Entries : Resolved(x) /\ decided[x].order \in E}
            orders == {decided[x].order : x \in shared}
            total == SumOf([x \in shared |-> decided[x].outcome.net.num], shared)
<1>. PICK den : den = SumOf(Notional, Bought(E))
  OBVIOUS
<1>. PICK net \in Int : net = NetOf(E)
  <2>1. IsFiniteSet(E) /\ \A x \in E : Notional[x] \in Int
    BY <1>4, TradesTyped DEF CreditInv
  <2>2. SumOf(Notional, E) \in Int
    BY <2>1, SumInt
  <2>3. Cardinality(E) \in Nat /\ FillFee \in Nat
    BY <1>4, FS_CardinalityType, OutcomeAssumption
  <2>4. \A x, y \in Nat : x * y \in Int
    OBVIOUS
  <2>. QED  BY <2>2, <2>3, <2>4 DEF NetOf
<1>5. ASSUME NEW x \in shared
      PROVE  /\ decided[x].order \in E /\ decided[x].order \in Bought(E)
             /\ traded[decided[x].order].by = x
             /\ decided[x].outcome.net.num = net * Notional[decided[x].order]
             /\ decided[x].outcome.net.den = den
  <2>1. x \in Entries /\ decided[x] # NoDecision /\ decided[x].order \in E /\ Resolved(x)
    BY DEF Resolved
  <2>2. PICK F \in Episodes(Len(traded)) :
          /\ decided[x].order \in F
          /\ decided[x].outcome = Outcome(decided[x].order, F)
    BY <2>1, RowIs
  <2>3. F = E
    BY <2>1, <2>2, EpisodesApart DEF CreditInv
  <2>4. decided[x].outcome.net = Share(decided[x].order, E)
    BY <2>2, <2>3 DEF Outcome
  <2>5. Share(decided[x].order, E) = [num |-> net * Notional[decided[x].order], den |-> den]
    BY DEF Share
  <2>6. traded[decided[x].order].by = x /\ traded[decided[x].order].lots > 0
    BY <2>1, RowIs
  <2>7. decided[x].outcome.net.num = net * Notional[decided[x].order]
        /\ decided[x].outcome.net.den = den
    BY <2>4, <2>5
  <2>. QED  BY <2>1, <2>6, <2>7 DEF Bought
<1>6. d \in shared
  BY <1>2
<1>7. decided[d].outcome.net.den = den /\ \A x \in shared : decided[x].outcome.net.den = den
  BY <1>5, <1>6
<1>8. orders \subseteq Bought(E) /\ orders # {}
  BY <1>5, <1>6
<1>9. IsFiniteSet(orders)
  <2>1. Bought(E) \subseteq E
    BY DEF Bought
  <2>. QED  BY <1>4, <1>8, <2>1, FS_Subset
<1>10. total = net * SumOf(Notional, orders)
  <2>1. PICK O : O = orders
    OBVIOUS
  <2>2. PICK R : R = shared
    OBVIOUS
  <2>3. PICK by : by = [i \in O |-> traded[i].by]
    OBVIOUS
  <2>4. PICK nums : nums = [x \in shared |-> decided[x].outcome.net.num]
    OBVIOUS
  <2>5. PICK f : f = Notional
    OBVIOUS
  <2>6. PICK g : g = [i \in O |-> net * f[i]]
    OBVIOUS
  <2>7. ASSUME NEW i \in O
        PROVE  /\ by[i] \in R /\ decided[by[i]].order = i
               /\ nums[by[i]] = net * f[i] /\ g[i] = net * f[i] /\ f[i] \in Int
    <3>1. PICK x \in shared : i = decided[x].order
      BY <2>1
    <3>2. by[i] = x
      BY <1>5, <2>3, <3>1
    <3>3. f[i] \in Int
      BY <1>4, <1>5, <2>5, <3>1, TradesTyped DEF CreditInv
    <3>4. nums[x] = net * f[i]
      BY <1>5, <2>4, <2>5, <3>1
    <3>5. g[i] = net * f[i]
      BY <2>6
    <3>. QED  BY <2>2, <3>1, <3>2, <3>3, <3>4, <3>5
  <2>8. ASSUME NEW x \in R PROVE \E i \in O : x = by[i]
    <3>1. decided[x].order \in O /\ by[decided[x].order] = x
      BY <1>5, <2>1, <2>2, <2>3
    <3>. QED  BY <3>1
  <2>. HIDE DEF shared, total, orders
  <2>9. ASSUME NEW i \in O PROVE nums[by[i]] \in Int /\ g[i] = nums[by[i]]
    <3>1. PICK k \in Int : k = f[i]
      BY <2>7
    <3>2. net * k \in Int
      OBVIOUS
    <3>. QED  BY <2>7, <3>1, <3>2
  <2>10. \A i, j \in O : by[i] = by[j] => i = j
    BY <2>7
  <2>11. IsFiniteSet(O) /\ \A i \in O : by[i] \in R
    BY <1>9, <2>1, <2>7
  <2>12. SumOf(nums, R) = SumOf(g, O)
    <3>1. Names(by, O, R)
      BY <2>8, <2>10, <2>11 DEF Names
    <3>. QED  BY <2>9, <2>11, <3>1, SumRenamed
  <2>13. SumOf(g, O) = net * SumOf(f, O)
    BY <2>7, <2>11, SumScaled
  <2>14. total = SumOf(nums, R)
    BY <2>2, <2>4 DEF total
  <2>. QED  BY <2>1, <2>5, <2>12, <2>13, <2>14
<1>. PICK part : part = SumOf(Notional, orders)
  OBVIOUS
<1>11. /\ den \in Int /\ part \in Int /\ 0 <= part /\ part <= den
       /\ (orders = Bought(E) => part = den)
  <2>. HIDE DEF shared, orders
  <2>. QED  BY <1>8, <1>9, SharesAddUp
<1>12. IF orders = Bought(E) THEN total = net * den
       ELSE \/ 0 <= total /\ total <= net * den
            \/ net * den <= total /\ total <= 0
  <2>. HIDE DEF shared, orders, total
  <2>1. total = net * part
    BY <1>10
  <2>2. CASE net >= 0
    <3>1. \A u, v, w \in Nat : v <= w => 0 <= u * v /\ u * v <= u * w
      OBVIOUS
    <3>2. net \in Nat /\ part \in Nat /\ den \in Nat
      BY <1>11, <2>2
    <3>3. 0 <= net * part /\ net * part <= net * den
      BY <1>11, <3>1, <3>2
    <3>. QED  BY <1>11, <2>1, <3>3
  <2>3. CASE net < 0
    <3>1. \A u, v, w \in Int : u < 0 /\ 0 <= v /\ v <= w => u * w <= u * v /\ u * v <= 0
      OBVIOUS
    <3>2. net * den <= net * part /\ net * part <= 0
      BY <1>11, <2>3, <3>1
    <3>. QED  BY <1>11, <2>1, <3>2
  <2>. QED  BY <2>2, <2>3
<1>. QED  BY <1>2, <1>3, <1>4, <1>7, <1>12

\* Without a fill the episodes and what they earned stand.
LEMMA EpisodesStand ==
  ASSUME traded' = traded
  PROVE  /\ \A n : Episodes(n)' = Episodes(n)
         /\ \A i, E : Outcome(i, E)' = Outcome(i, E)
<1>1. LotsMoved' = LotsMoved /\ Notional' = Notional
  BY DEF LotsMoved, Notional
<1>2. \A n : Holding(n)' = Holding(n)
  BY <1>1 DEF Holding
<1>3. \A n : EndsEpisode(n)' <=> EndsEpisode(n)
  BY <1>2 DEF EndsEpisode
<1>4. \A n : Episodes(n)' = Episodes(n)
  BY <1>3 DEF Episodes
<1>5. \A E : Bought(E)' = Bought(E) /\ NetOf(E)' = NetOf(E)
  BY <1>1 DEF Bought, NetOf
<1>6. \A i, E : Share(i, E)' = Share(i, E)
  BY <1>1, <1>5 DEF Share
<1>7. \A i, E : Outcome(i, E)' = Outcome(i, E)
  BY <1>6 DEF Outcome
<1>. QED  BY <1>4, <1>7

\* A step that neither fills nor writes a row.
LEMMA StepKeeps ==
  ASSUME CreditInv, traded' = traded, decided' = decided, cadence' \in CadenceState,
         cadence'.stamp <= Len(traded), cadence'.evidence <= Len(traded),
         JournalKnows', FeedbackFollows', EngineReplaysFeedback', NothingWaits'
  PROVE  CreditInv'
<1>1. OutcomesTyped' /\ EntriesBuyOnce'
  BY DEF CreditInv, OutcomesTyped, EntriesBuyOnce
<1>2. DecisionsFollow'
  <2>1. Episodes(Len(traded))' = Episodes(Len(traded))
    BY EpisodesStand
  <2>2. \A i : Waiting(i)' = Waiting(i)
    BY DEF Waiting
  <2>3. \A i, E : Credited(i, E)' = Credited(i, E)
    BY EpisodesStand DEF Credited
  <2>. QED  BY <2>1, <2>2, <2>3 DEF CreditInv, DecisionsFollow
<1>. QED  BY <1>1, <1>2 DEF CreditInv

\* A fill, whoever trades.
LEMMA FillKeeps ==
  ASSUME CreditInv, NEW lots \in Int, NEW price \in Nat \ {0},
         NEW by \in Entries \cup Exits \cup {"SWARM"}, Fill(lots, price, by),
         UNCHANGED <<decided, feedback, engine>>,
         by \in Entries => lots > 0 /\ \A i \in DOMAIN traded : traded[i].by # by,
         cadence' \in CadenceState, cadence'.stamp = cadence.stamp,
         cadence'.evidence = cadence.evidence,
         cadence'.step = "idle" => cadence.step = "idle",
         cadence'.step = "journal" => decided[cadence'.entry] = NoDecision
  PROVE  CreditInv'
<1>1. PICK row : row = [lots |-> lots, price |-> price, by |-> by]
  OBVIOUS
<1>2. row \in Trade /\ row.lots = lots /\ row.by = by /\ traded' = Append(traded, row)
  BY <1>1 DEF Trade, Fill
<1>3. PICK n0 \in Nat : n0 = Len(traded)
  BY TradesTyped DEF CreditInv
<1>4. /\ traded' \in Seq(Trade) /\ Len(traded') = n0 + 1
      /\ DOMAIN traded = 1..n0 /\ DOMAIN traded' = 1..(n0 + 1)
      /\ traded'[n0 + 1] = row
      /\ \A i \in 1..n0 : traded'[i] = traded[i]
  BY <1>2, <1>3, TradesTyped, AppendProperties, LenProperties DEF CreditInv, OutcomesTyped
<1>5. cadence.stamp <= n0 /\ cadence.evidence <= n0 /\ cadence.evidence \in Int
      /\ cadence.stamp \in Int
  BY <1>3 DEF CreditInv, OutcomesTyped, CadenceState, NotComputed
<1>6. OutcomesTyped'
  <2>1. cadence'.stamp <= n0 + 1 /\ cadence'.evidence <= n0 + 1
    BY <1>5
  <2>. QED  BY <1>4, <2>1 DEF CreditInv, OutcomesTyped
<1>7. EntriesBuyOnce'
  <2>1. \A i \in 1..(n0 + 1) : i \in 1..n0 \/ i = n0 + 1
    OBVIOUS
  <2>2. \A i \in 1..n0 : traded[i].by \in Entries =>
          traded[i].lots > 0 /\ \A j \in 1..n0 : traded[i].by = traded[j].by => i = j
    BY <1>4 DEF CreditInv, EntriesBuyOnce
  <2>. QED  BY <1>2, <1>4, <2>1, <2>2 DEF EntriesBuyOnce
<1>8. /\ Episodes(n0) \subseteq Episodes(Len(traded))'
      /\ \A E \in Episodes(n0) : \A i \in E : Outcome(i, E)' = Outcome(i, E)
      /\ Episodes(cadence.evidence)' = Episodes(cadence.evidence)
  <2>1. OutcomesTyped
    BY DEF CreditInv
  <2>2. /\ Episodes(n0) \subseteq Episodes(Len(traded))'
        /\ \A E \in Episodes(n0) : \A i \in E : Outcome(i, E)' = Outcome(i, E)
    BY <1>2, <1>3, <2>1, EpisodesStay
  <2>3. PICK m \in Int : m = cadence.evidence
    BY <1>5
  <2>4. Episodes(m)' = Episodes(m)
    BY <1>2, <1>3, <1>5, <2>1, <2>3, EpisodesStay
  <2>. QED  BY <2>2, <2>3, <2>4
<1>9. DecisionsFollow'
  <2>. SUFFICES ASSUME NEW d \in Entries, decided[d] # NoDecision
                PROVE  \E i \in DOMAIN traded' :
                         /\ traded'[i].by = d
                         /\ \/ decided[d] = Waiting(i)'
                            \/ \E E \in Episodes(Len(traded))' :
                                  i \in E /\ decided[d] = Credited(i, E)'
    BY DEF DecisionsFollow
  <2>1. PICK i \in 1..n0 :
          /\ traded[i].by = d
          /\ \/ decided[d] = Waiting(i)
             \/ \E E \in Episodes(n0) : i \in E /\ decided[d] = Credited(i, E)
    BY <1>3, <1>4 DEF CreditInv, DecisionsFollow
  <2>2. i \in DOMAIN traded' /\ traded'[i].by = d
    BY <1>4, <2>1
  <2>3. Waiting(i)' = Waiting(i)
    BY DEF Waiting
  <2>4. \A E \in Episodes(n0) : i \in E => Credited(i, E)' = Credited(i, E)
    BY <1>8 DEF Credited
  <2>. QED  BY <1>8, <2>1, <2>2, <2>3, <2>4
<1>10. JournalKnows'
  BY DEF JournalKnows
<1>11. FeedbackFollows' /\ EngineReplaysFeedback'
  BY DEF CreditInv, FeedbackFollows, EngineReplaysFeedback, Resolved, EventOf
<1>12. NothingWaits'
  <2>1. Closable' = Closable
    BY <1>8 DEF Closable
  <2>. QED  BY <2>1 DEF CreditInv, NothingWaits, At, Resolved, EventOf
<1>. QED  BY <1>6, <1>7, <1>9, <1>10, <1>11, <1>12 DEF CreditInv

\* The cadence has its fields.
LEMMA CadenceIs ==
  ASSUME CreditInv
  PROVE  /\ cadence.stamp \in Nat /\ cadence.evidence \in Nat \cup {NotComputed}
         /\ cadence.stamp <= Len(traded) /\ cadence.evidence <= Len(traded)
         /\ cadence.step = "journal" => cadence.entry \in Entries
         /\ cadence.step # "journal" =>
              cadence = [step |-> cadence.step, stamp |-> cadence.stamp,
                         evidence |-> cadence.evidence]
BY DEF CreditInv, OutcomesTyped, CadenceState

\* Moving to another step of a cadence.
LEMMA CadenceGoes ==
  ASSUME CreditInv, cadence.step # "journal",
         NEW to \in {"idle", "weigh", "decide", "evidence", "resolve"}, Goes(to)
  PROVE  /\ cadence' \in CadenceState /\ cadence'.step = to /\ cadence'.stamp = cadence.stamp
         /\ cadence'.evidence = cadence.evidence
<1>1. cadence' = [step |-> to, stamp |-> cadence.stamp, evidence |-> cadence.evidence]
  BY CadenceIs DEF Goes
<1>. QED  BY <1>1, CadenceIs DEF CadenceState

\* _journal_decision and update_decision write one row.
LEMMA RowKeeps ==
  ASSUME CreditInv, NEW d \in Entries, ~Resolved(d), NEW row,
         decided' = [decided EXCEPT ![d] = row],
         UNCHANGED <<traded, feedback, engine>>,
         NEW i \in DOMAIN traded, traded[i].by = d,
         \/ row = Waiting(i)
         \/ \E E \in Episodes(Len(traded)) : i \in E /\ row = Credited(i, E),
         cadence' \in CadenceState, cadence'.stamp = cadence.stamp,
         cadence'.evidence = cadence.evidence, cadence'.step \notin {"idle", "journal"}
  PROVE  CreditInv'
<1>1. decided = [x \in Entries |-> decided[x]]
  BY DEF CreditInv, OutcomesTyped
<1>2. decided'[d] = row /\ \A x \in Entries \ {d} : decided'[x] = decided[x]
  BY <1>1
<1>3. decided' = [x \in Entries |-> decided'[x]]
  BY <1>1
<1>4. OutcomesTyped' /\ EntriesBuyOnce'
  BY <1>3, CadenceIs DEF CreditInv, OutcomesTyped, EntriesBuyOnce
<1>5. DecisionsFollow'
  <2>1. Episodes(Len(traded))' = Episodes(Len(traded))
    BY EpisodesStand
  <2>2. \A k : Waiting(k)' = Waiting(k)
    BY DEF Waiting
  <2>3. \A k, E : Credited(k, E)' = Credited(k, E)
    BY EpisodesStand DEF Credited
  <2>4. ASSUME NEW x \in Entries, decided'[x] # NoDecision
        PROVE  \E k \in DOMAIN traded :
                 /\ traded[k].by = x
                 /\ \/ decided'[x] = Waiting(k)
                    \/ \E E \in Episodes(Len(traded)) : k \in E /\ decided'[x] = Credited(k, E)
    <3>1. CASE x = d
      BY <1>2, <3>1
    <3>2. CASE x # d
      BY <1>2, <2>4, <3>2 DEF CreditInv, DecisionsFollow
    <3>. QED  BY <3>1, <3>2
  <2>. QED  BY <2>1, <2>2, <2>3, <2>4 DEF DecisionsFollow
<1>6. FeedbackFollows'
  <2>1. \A x \in Entries : feedback[x] # NoEvent => x # d
    BY DEF CreditInv, FeedbackFollows
  <2>2. \A x \in Entries \ {d} : (Resolved(x)' <=> Resolved(x)) /\ EventOf(x)' = EventOf(x)
    BY <1>2 DEF Resolved, EventOf
  <2>. QED  BY <2>1, <2>2 DEF CreditInv, FeedbackFollows
<1>7. JournalKnows' /\ EngineReplaysFeedback' /\ NothingWaits'
  BY DEF CreditInv, JournalKnows, EngineReplaysFeedback, NothingWaits, At
<1>. QED  BY <1>4, <1>5, <1>6, <1>7 DEF CreditInv

\* Before the first cadence.
LEMMA OutcomesStart == OutcomesInit => CreditInv
<1>. SUFFICES ASSUME OutcomesInit PROVE CreditInv
  OBVIOUS
<1>1. OutcomesTyped
  <2>1. << >> \in Seq(Trade) /\ Len(traded) = 0
    BY EmptySeq DEF OutcomesInit
  <2>2. cadence \in CadenceState /\ cadence.stamp = 0 /\ cadence.evidence = -1
    BY DEF OutcomesInit, Between, CadenceState, NotComputed
  <2>. QED  BY <2>1, <2>2 DEF OutcomesInit, OutcomesTyped
<1>2. EntriesBuyOnce
  BY DEF OutcomesInit, EntriesBuyOnce
<1>3. DecisionsFollow /\ JournalKnows /\ FeedbackFollows
  BY DEF OutcomesInit, DecisionsFollow, JournalKnows, FeedbackFollows, Between
<1>4. EngineReplaysFeedback
  BY DEF OutcomesInit, EngineReplaysFeedback
<1>5. NothingWaits
  BY DEF OutcomesInit, NothingWaits, Between
<1>. QED  BY <1>1, <1>2, <1>3, <1>4, <1>5 DEF CreditInv

\* One step per action.
LEMMA OutcomesStep ==
  ASSUME CreditInv, [OutcomesNext]_outcomeVars PROVE CreditInv'
<1>1. CASE BeginDecisions
  <2>1. /\ UNCHANGED <<traded, decided, feedback, engine>>
        /\ cadence' = [step |-> "weigh", stamp |-> Len(traded), evidence |-> cadence.evidence]
    BY <1>1, CadenceIs DEF BeginDecisions, At
  <2>2. /\ cadence' \in CadenceState /\ cadence'.step = "weigh"
        /\ cadence'.stamp <= Len(traded) /\ cadence'.evidence <= Len(traded)
    BY <2>1, CadenceIs, TradesTyped DEF CreditInv, CadenceState
  <2>3. JournalKnows' /\ FeedbackFollows' /\ EngineReplaysFeedback' /\ NothingWaits'
    BY <2>1, <2>2 DEF CreditInv, JournalKnows, FeedbackFollows, EngineReplaysFeedback,
                      NothingWaits, At, Resolved, EventOf
  <2>. QED  BY <2>1, <2>2, <2>3, StepKeeps
<1>2. CASE Weigh
  <2>1. /\ UNCHANGED <<traded, decided>> /\ RefreshFeedback(cadence.stamp) /\ Goes("decide")
        /\ cadence.step = "weigh"
    BY <1>2 DEF Weigh, At
  <2>2. /\ cadence' \in CadenceState /\ cadence'.step = "decide"
        /\ cadence'.stamp = cadence.stamp /\ cadence'.evidence = cadence.evidence
    BY <2>1, CadenceGoes
  <2>3. JournalKnows' /\ NothingWaits'
    BY <2>2 DEF JournalKnows, NothingWaits, At
  <2>4. FeedbackFollows' /\ EngineReplaysFeedback'
    BY <2>1, RefreshKeeps
  <2>. QED  BY <2>1, <2>2, <2>3, <2>4, CadenceIs, StepKeeps
<1>3. CASE DecisionHolds
  <2>1. /\ UNCHANGED <<traded, decided, feedback, engine>> /\ Goes("evidence")
        /\ cadence.step = "decide"
    BY <1>3 DEF DecisionHolds, At
  <2>2. /\ cadence' \in CadenceState /\ cadence'.step = "evidence"
        /\ cadence'.stamp = cadence.stamp /\ cadence'.evidence = cadence.evidence
    BY <2>1, CadenceGoes
  <2>3. JournalKnows' /\ FeedbackFollows' /\ EngineReplaysFeedback' /\ NothingWaits'
    BY <2>1, <2>2 DEF CreditInv, JournalKnows, FeedbackFollows, EngineReplaysFeedback,
                      NothingWaits, At, Resolved, EventOf
  <2>. QED  BY <2>1, <2>2, <2>3, CadenceIs, StepKeeps
<1>4. CASE JournalDecision
  <2>1. /\ cadence.step = "journal" /\ UNCHANGED <<traded, feedback, engine>>
        /\ cadence' = [step |-> "evidence", stamp |-> cadence.stamp,
                       evidence |-> cadence.evidence]
    BY <1>4 DEF JournalDecision, At
  <2>2. PICK i \in DOMAIN traded :
          /\ traded[i].by = cadence.entry
          /\ decided' = [decided EXCEPT ![cadence.entry] = Waiting(i)]
    BY <1>4 DEF JournalDecision, Waiting
  <2>3. PICK d \in Entries : d = cadence.entry
    BY <2>1, CadenceIs
  <2>4. ~Resolved(d)
    BY <2>1, <2>3 DEF CreditInv, JournalKnows, Resolved
  <2>5. /\ cadence' \in CadenceState /\ cadence'.step = "evidence"
        /\ cadence'.stamp = cadence.stamp /\ cadence'.evidence = cadence.evidence
    BY <2>1, CadenceIs DEF CadenceState
  <2>6. decided' = [decided EXCEPT ![d] = Waiting(i)] /\ traded[i].by = d
    BY <2>2, <2>3
  <2>. QED  BY <2>1, <2>4, <2>5, <2>6, RowKeeps
<1>5. CASE ComputeEvidence
  <2>1. /\ UNCHANGED <<traded, decided, feedback, engine>>
        /\ cadence' = [step |-> "resolve", stamp |-> cadence.stamp, evidence |-> Len(traded)]
    BY <1>5, CadenceIs DEF ComputeEvidence, At
  <2>2. /\ cadence' \in CadenceState /\ cadence'.step = "resolve"
        /\ cadence'.stamp <= Len(traded) /\ cadence'.evidence <= Len(traded)
    BY <2>1, CadenceIs, TradesTyped DEF CreditInv, CadenceState
  <2>3. JournalKnows' /\ FeedbackFollows' /\ EngineReplaysFeedback' /\ NothingWaits'
    BY <2>1, <2>2 DEF CreditInv, JournalKnows, FeedbackFollows, EngineReplaysFeedback,
                      NothingWaits, At, Resolved, EventOf
  <2>. QED  BY <2>1, <2>2, <2>3, StepKeeps
<1>6. CASE ResolveRow
  <2>1. cadence.step = "resolve" /\ UNCHANGED <<traded, feedback, engine, cadence>>
    BY <1>6 DEF ResolveRow, At
  <2>2. PICK d \in Closable, E \in Episodes(cadence.evidence) :
          /\ decided[d].order \in E
          /\ decided' = [decided EXCEPT ![d].outcome = Outcome(decided[d].order, E)]
    BY <1>6 DEF ResolveRow
  <2>3. d \in Entries /\ decided[d] # NoDecision /\ ~Resolved(d)
    BY DEF Closable, Resolved
  <2>4. PICK i \in DOMAIN traded : i = decided[d].order
    BY <2>3, RowIs
  <2>5. traded[i].by = d /\ decided[d] = Waiting(i) /\ i \in E
    BY <2>2, <2>3, <2>4, RowIs
  <2>6. PICK outcome : outcome = Outcome(i, E)
    OBVIOUS
  <2>7. [decided[d] EXCEPT !.outcome = outcome] = Credited(i, E)
    BY <2>5, <2>6 DEF Waiting, Credited
  <2>8. decided' = [decided EXCEPT ![d] = Credited(i, E)]
    BY <2>2, <2>4, <2>6, <2>7
  <2>9. E \in Episodes(Len(traded))
    <3>1. cadence.evidence \in Int /\ cadence.evidence <= Len(traded)
      BY CadenceIs DEF NotComputed
    <3>2. \A k \in 1..cadence.evidence : k \in 1..Len(traded)
      BY <3>1, TradesTyped DEF CreditInv
    <3>. QED  BY <3>2 DEF Episodes
  <2>10. cadence' \in CadenceState
    BY <2>1 DEF CreditInv, OutcomesTyped
  <2>. QED  BY <2>1, <2>3, <2>5, <2>8, <2>9, <2>10, RowKeeps
<1>7. CASE FinishCadence
  <2>1. /\ UNCHANGED <<traded, decided>> /\ RefreshFeedback(Len(traded)) /\ Goes("idle")
        /\ cadence.step = "resolve" /\ Closable = {}
    BY <1>7 DEF FinishCadence, At
  <2>2. /\ cadence' \in CadenceState /\ cadence'.step = "idle"
        /\ cadence'.stamp = cadence.stamp /\ cadence'.evidence = cadence.evidence
    BY <2>1, CadenceGoes
  <2>3. /\ FeedbackFollows' /\ EngineReplaysFeedback'
        /\ \A d \in Events(Len(traded)) : feedback'[d] = EventOf(d)
    BY <2>1, RefreshKeeps
  <2>4. Closable' = Closable
    BY <2>1, <2>2, EpisodesStand DEF Closable
  <2>5. ASSUME NEW d \in Supported, Resolved(d) PROVE d \in Events(Len(traded))
    <3>1. d \in Entries
      BY OutcomeAssumption
    <3>2. decided[d].outcome.exit <= Len(traded)
      BY <2>5, <3>1, ExitIsOver, TradesTyped DEF CreditInv
    <3>. QED  BY <2>5, <3>2 DEF Events
  <2>6. NothingWaits'
    BY <2>1, <2>3, <2>4, <2>5 DEF NothingWaits, Resolved, EventOf
  <2>7. JournalKnows'
    BY <2>2 DEF JournalKnows
  <2>. QED  BY <2>1, <2>2, <2>3, <2>6, <2>7, CadenceIs, StepKeeps
<1>8. CASE RestartDecisions
  <2>1. /\ UNCHANGED <<traded, decided>> /\ RefreshFeedback(Len(traded)) /\ cadence' = Between
    BY <1>8 DEF RestartDecisions
  <2>2. /\ cadence' \in CadenceState /\ cadence'.step = "idle"
        /\ cadence'.stamp = 0 /\ cadence'.evidence = NotComputed
    BY <2>1 DEF Between, CadenceState
  <2>3. cadence'.stamp <= Len(traded) /\ cadence'.evidence <= Len(traded)
    BY <2>2, TradesTyped DEF CreditInv, NotComputed
  <2>4. FeedbackFollows' /\ EngineReplaysFeedback'
    BY <2>1, RefreshKeeps
  <2>5. JournalKnows' /\ NothingWaits'
    BY <2>2 DEF JournalKnows, NothingWaits
  <2>. QED  BY <2>1, <2>2, <2>3, <2>4, <2>5, StepKeeps
<1>9. ASSUME NEW lots \in 1..MaxLots, NEW d \in Entries, NEW price \in BuyPrices,
             DecisionBuys(d, lots, price)
      PROVE  CreditInv'
  <2>1. /\ decided[d] = NoDecision /\ \A i \in DOMAIN traded : traded[i].by # d
        /\ Fill(lots, price, d) /\ UNCHANGED <<decided, feedback, engine>>
        /\ cadence' = [step |-> "journal", stamp |-> cadence.stamp,
                       evidence |-> cadence.evidence, entry |-> d]
    BY <1>9 DEF DecisionBuys
  <2>2. lots \in Int /\ lots > 0 /\ price \in Nat \ {0}
    BY OutcomeAssumption
  <2>3. /\ cadence' \in CadenceState /\ cadence'.step = "journal" /\ cadence'.entry = d
        /\ cadence'.stamp = cadence.stamp /\ cadence'.evidence = cadence.evidence
    BY <2>1, CadenceIs DEF CadenceState
  <2>. QED  BY <2>1, <2>2, <2>3, FillKeeps
<1>10. ASSUME NEW lots \in 1..MaxLots, NEW price \in SellPrices, DecisionSells(lots, price)
       PROVE  CreditInv'
  <2>1. /\ Fill(-lots, price, "SWARM") /\ UNCHANGED <<decided, feedback, engine>>
        /\ Goes("evidence") /\ cadence.step = "decide"
    BY <1>10 DEF DecisionSells, At
  <2>2. -lots \in Int /\ price \in Nat \ {0} /\ "SWARM" \notin Entries
    BY OutcomeAssumption
  <2>3. /\ cadence' \in CadenceState /\ cadence'.step = "evidence"
        /\ cadence'.stamp = cadence.stamp /\ cadence'.evidence = cadence.evidence
    BY <2>1, CadenceGoes
  <2>. QED  BY <2>1, <2>2, <2>3, FillKeeps
<1>11. ASSUME NEW lots \in 1..MaxLots, NEW price \in SellPrices, SoldElsewhere(lots, price)
       PROVE  CreditInv'
  <2>1. PICK by \in Exits : Fill(-lots, price, by)
    BY <1>11 DEF SoldElsewhere
  <2>2. UNCHANGED <<decided, feedback, engine, cadence>>
    BY <1>11 DEF SoldElsewhere
  <2>3. -lots \in Int /\ price \in Nat \ {0} /\ by \notin Entries
    BY OutcomeAssumption
  <2>4. /\ cadence' \in CadenceState
        /\ cadence'.step = "journal" => decided[cadence'.entry] = NoDecision
    BY <2>2 DEF CreditInv, OutcomesTyped, JournalKnows
  <2>. QED  BY <2>1, <2>2, <2>3, <2>4, FillKeeps
<1>12. CASE UNCHANGED outcomeVars
  <2>1. UNCHANGED <<traded, decided, feedback, engine, cadence>>
    BY <1>12 DEF outcomeVars
  <2>2. Closable' = Closable
    BY <2>1, EpisodesStand DEF Closable
  <2>3. JournalKnows' /\ FeedbackFollows' /\ EngineReplaysFeedback' /\ NothingWaits'
    BY <2>1, <2>2 DEF CreditInv, JournalKnows, FeedbackFollows, EngineReplaysFeedback,
                      NothingWaits, At, Resolved, EventOf
  <2>4. cadence' \in CadenceState
    BY <2>1 DEF CreditInv, OutcomesTyped
  <2>. QED  BY <2>1, <2>3, <2>4, CadenceIs, StepKeeps
<1>. QED  BY <1>1, <1>2, <1>3, <1>4, <1>5, <1>6, <1>7, <1>8, <1>9, <1>10, <1>11, <1>12
          DEF OutcomesNext

\* CreditMatchesLedger: however exits, crashes, lost rows and refreshes interleave, the
\* credit the specialists are weighted by adds up to the result of the positions that were
\* closed, each counted once (outcome_resolver.py _episode_outcome, feedback.py _persist).
THEOREM CreditAddsUp == OutcomesSpec => []CreditMatchesLedger
<1>1. CreditInv => CreditMatchesLedger
  BY OutcomesShare DEF CreditInv, CreditMatchesLedger
<1>. QED  BY OutcomesStart, OutcomesStep, <1>1, PTL DEF OutcomesSpec

-----------------------------------------------------------------------------
(* The double-entry journal: what a fill's postings add up to.             *)

\* A sum of nothing but zeros.
LEMMA SumOfZeros ==
  ASSUME NEW S, IsFiniteSet(S), NEW f, \A x \in S : f[x] = 0
  PROVE  SumOf(f, S) = 0
<1>1. SumOf(f, S) = SumOf(f, S) + SumOf(f, S)
  BY SumPlus
<1>2. PICK z \in Int : z = SumOf(f, S)
  BY SumInt
<1>3. z = z + z
  BY <1>1, <1>2
<1>4. z = 0
  BY <1>3
<1>. QED  BY <1>2, <1>4

\* A sum with at most one summand that counts.
LEMMA SumOfOne ==
  ASSUME NEW S, IsFiniteSet(S), NEW f, NEW a \in S, f[a] \in Int,
         \A x \in S \ {a} : f[x] = 0
  PROVE  SumOf(f, S) = f[a]
<1>1. SumOf(f, S \ {a}) = SumOf(f, S) - f[a]
  BY SumRemove
<1>2. SumOf(f, S \ {a}) = 0
  BY FS_RemoveElement, SumOfZeros
<1>3. SumOf(f, S) \in Int
  BY SumInt
<1>. QED  BY <1>1, <1>2, <1>3

\* The sum over the postings, transactions or fills at hand when there are two.
LEMMA SumOfTwo ==
  ASSUME NEW a, NEW b, a # b, NEW f, f[a] \in Int, f[b] \in Int
  PROVE  IsFiniteSet({a, b}) /\ SumOf(f, {a, b}) = f[a] + f[b]
<1>1. IsFiniteSet({a}) /\ b \notin {a} /\ {a} \cup {b} = {a, b}
  BY FS_Singleton
<1>2. SumOf(f, {a} \cup {b}) = SumOf(f, {a}) + f[b]
  BY <1>1, SumAdd
<1>3. SumOf(f, {a}) = f[a]
  BY SumSingle
<1>4. IsFiniteSet({a} \cup {b})
  BY <1>1, FS_AddElement
<1>. QED  BY <1>1, <1>2, <1>3, <1>4

\* What an account receives from postings of which one at most is its own.
LEMMA PostedOnce ==
  ASSUME NEW P, IsFiniteSet(P), NEW code, NEW v \in Int,
         \A p \in P : p[1] = code => p = <<code, v>>
  PROVE  Posted(P, code) = IF <<code, v>> \in P THEN v ELSE 0
<1>. DEFINE g == [p \in P |-> IF p[1] = code THEN p[2] ELSE 0]
<1>1. Posted(P, code) = SumOf(g, P)
  BY DEF Posted
<1>2. CASE <<code, v>> \in P
  <2>1. g[<<code, v>>] = v /\ \A p \in P \ {<<code, v>>} : g[p] = 0
    BY <1>2
  <2>. HIDE DEF g
  <2>. QED  BY <1>1, <1>2, <2>1, SumOfOne
<1>3. CASE <<code, v>> \notin P
  <2>1. \A p \in P : g[p] = 0
    BY <1>3
  <2>. HIDE DEF g
  <2>. QED  BY <1>1, <1>3, <2>1, SumOfZeros
<1>. QED  BY <1>2, <1>3

\* A move takes from one account what it gives to the other.
LEMMA PostedMoves ==
  ASSUME NEW from, NEW to, from # to, NEW amount \in Int
  PROVE  /\ Posted(Moves(from, to, amount), to) = amount
         /\ Posted(Moves(from, to, amount), from) = -amount
         /\ \A code : code \notin {from, to} => Posted(Moves(from, to, amount), code) = 0
<1>. DEFINE P == {<<to, amount>>, <<from, -amount>>}
<1>1. IsFiniteSet(P) /\ P = Moves(from, to, amount)
  <2>1. IsFiniteSet({<<to, amount>>})
    BY FS_Singleton
  <2>2. IsFiniteSet({<<to, amount>>} \cup {<<from, -amount>>})
    BY <2>1, FS_AddElement
  <2>3. P = {<<to, amount>>} \cup {<<from, -amount>>}
    OBVIOUS
  <2>. QED  BY <2>2, <2>3 DEF Moves
<1>2. Posted(P, to) = amount
  <2>1. \A p \in P : p[1] = to => p = <<to, amount>>
    OBVIOUS
  <2>2. <<to, amount>> \in P
    OBVIOUS
  <2>. HIDE DEF P
  <2>. QED  BY <1>1, <2>1, <2>2, PostedOnce
<1>3. Posted(P, from) = -amount
  <2>1. \A p \in P : p[1] = from => p = <<from, -amount>>
    OBVIOUS
  <2>2. <<from, -amount>> \in P /\ -amount \in Int
    OBVIOUS
  <2>. HIDE DEF P
  <2>. QED  BY <1>1, <2>1, <2>2, PostedOnce
<1>4. ASSUME NEW code, code \notin {from, to} PROVE Posted(P, code) = 0
  <2>1. \A p \in P : p[1] # code
    BY <1>4
  <2>2. <<code, 0>> \notin P
    BY <1>4
  <2>. HIDE DEF P
  <2>. QED  BY <1>1, <2>1, <2>2, PostedOnce
<1>. HIDE DEF P
<1>. QED  BY <1>1, <1>2, <1>3, <1>4


-----------------------------------------------------------------------------
(* The transactions of one fill, as they are whatever is booked later.     *)

\* What the ledger keeps of a fill, and what the journal holds of the i-th one, f.
BookedFills == [lots : Int, price : Nat, margin : Int, prior : Nat, strategy : BOOLEAN]

Kinds == {"trade", "margin", "pnl", "cost"}

KindsOf(m, f, basis) ==
  (IF ~m THEN {"trade"}
   ELSE {"margin"} \cup IF f.lots < 0 /\ Profit(f, basis) # 0 THEN {"pnl"} ELSE {})
  \cup {"cost"}

EntryOf(f, basis, kind) ==
  CASE kind = "trade"  -> TradePostings(f, basis)
    [] kind = "margin" -> Moves("CASH_AVAILABLE", "CASH_RESERVED_MARGIN", f.margin)
    [] kind = "pnl"    -> Moves("REALIZED_PNL", "CASH_AVAILABLE", Profit(f, basis))
    [] kind = "cost"   -> Moves("CASH_AVAILABLE", "FEE_EXPENSE", UnitFee)

FillEntries(m, f, i, basis) ==
  [id \in KindsOf(m, f, basis) \X {i} |-> EntryOf(f, basis, id[1])]

\* What they are in the state at hand.
LEMMA TransactionsAre ==
  \A i, basis : Transactions(i, basis) = FillEntries(margined, booked[i], i, basis)
BY DEF Transactions, FillEntries, KindsOf, EntryOf

\* What the fill f means to an account of the journal.
Effect(m, f, code) ==
  CASE code = "CASH_AVAILABLE" ->
         (IF m THEN (IF f.lots < 0 THEN Profit(f, f.prior) ELSE 0) - f.margin
          ELSE -(f.price * f.lots)) - UnitFee
    [] code = "CASH_RESERVED_MARGIN" -> IF m THEN f.margin ELSE 0
    [] code = "SECURITIES_COST" ->
         IF m THEN 0 ELSE IF f.lots > 0 THEN f.price * f.lots ELSE f.prior * f.lots

MoneyCodes == {"CASH_AVAILABLE", "CASH_RESERVED_MARGIN", "SECURITIES_COST"}

\* A sale of a security: cash for cost and profit, amounts of zero left out.
LEMMA PostedSale ==
  ASSUME NEW f \in BookedFills, ~ (f.lots > 0), NEW basis \in Nat
  PROVE  LET P == TradePostings(f, basis)
         IN /\ Posted(P, "CASH_AVAILABLE") = -(f.price * f.lots)
            /\ Posted(P, "SECURITIES_COST") = basis * f.lots
            /\ Posted(P, "CASH_RESERVED_MARGIN") = 0
<1>1. PICK x \in Int, y \in Int, z \in Int :
        x = -(f.price * f.lots) /\ y = basis * f.lots /\ z = (f.price - basis) * f.lots
  BY DEF BookedFills
<1>. DEFINE A == {<<"CASH_AVAILABLE", x>>, <<"SECURITIES_COST", y>>, <<"REALIZED_PNL", z>>}
            P == {p \in A : p[2] # 0}
<1>2. P = TradePostings(f, basis)
  BY <1>1 DEF TradePostings
<1>3. IsFiniteSet(P)
  <2>1. IsFiniteSet({<<"CASH_AVAILABLE", x>>})
    BY FS_Singleton
  <2>2. IsFiniteSet({<<"CASH_AVAILABLE", x>>} \cup {<<"SECURITIES_COST", y>>})
    BY <2>1, FS_AddElement
  <2>3. IsFiniteSet({<<"CASH_AVAILABLE", x>>} \cup {<<"SECURITIES_COST", y>>}
                    \cup {<<"REALIZED_PNL", z>>})
    BY <2>2, FS_AddElement
  <2>4. A = {<<"CASH_AVAILABLE", x>>} \cup {<<"SECURITIES_COST", y>>} \cup {<<"REALIZED_PNL", z>>}
    OBVIOUS
  <2>5. P \in SUBSET A
    OBVIOUS
  <2>. HIDE DEF A, P
  <2>. QED  BY <2>3, <2>4, <2>5, FS_Subset
<1>4. /\ \A p \in P : p[1] = "CASH_AVAILABLE" => p = <<"CASH_AVAILABLE", x>>
      /\ \A p \in P : p[1] = "SECURITIES_COST" => p = <<"SECURITIES_COST", y>>
      /\ \A p \in P : p[1] = "CASH_RESERVED_MARGIN" => p = <<"CASH_RESERVED_MARGIN", 0>>
  OBVIOUS
<1>5. /\ <<"CASH_AVAILABLE", x>> \in P \/ x = 0
      /\ <<"SECURITIES_COST", y>> \in P \/ y = 0
  OBVIOUS
<1>. HIDE DEF P
<1>6. Posted(P, "CASH_AVAILABLE") = x
  BY <1>3, <1>4, <1>5, PostedOnce
<1>7. Posted(P, "SECURITIES_COST") = y
  BY <1>3, <1>4, <1>5, PostedOnce
<1>8. Posted(P, "CASH_RESERVED_MARGIN") = 0
  <2>1. PICK v \in Int : v = 0
    OBVIOUS
  <2>2. \A p \in P : p[1] = "CASH_RESERVED_MARGIN" => p = <<"CASH_RESERVED_MARGIN", v>>
    BY <1>4, <2>1
  <2>3. Posted(P, "CASH_RESERVED_MARGIN") = v \/ Posted(P, "CASH_RESERVED_MARGIN") = 0
    BY <1>3, <2>2, PostedOnce
  <2>. QED  BY <2>1, <2>3
<1>. QED  BY <1>1, <1>2, <1>6, <1>7, <1>8

\* The sum over the transactions of a fill is its effect.
LEMMA PostedFill ==
  ASSUME NEW m \in BOOLEAN, NEW f \in BookedFills, NEW i, NEW code \in MoneyCodes
  PROVE  LET T == FillEntries(m, f, i, f.prior)
         IN /\ IsFiniteSet(DOMAIN T)
            /\ SumOf([id \in DOMAIN T |-> Posted(T[id], code)], DOMAIN T) = Effect(m, f, code)
            /\ \A id \in DOMAIN T : Posted(T[id], code) \in Int
<1>1. PICK q \in Int, w \in Nat, n \in Int, basis \in Nat :
        q = f.lots /\ w = f.price /\ n = f.margin /\ basis = f.prior
  BY DEF BookedFills
<1>2. UnitFee \in Nat
  BY BooksAssumption
<1>3. PICK T : T = FillEntries(m, f, i, basis)
  OBVIOUS
<1>4. DOMAIN T = KindsOf(m, f, basis) \X {i}
  BY <1>3 DEF FillEntries
<1>5. \A k \in KindsOf(m, f, basis) : T[<<k, i>>] = EntryOf(f, basis, k)
  BY <1>3 DEF FillEntries
<1>. DEFINE g == [id \in DOMAIN T |-> Posted(T[id], code)]
            Cost == <<"cost", i>>
<1>6. g[Cost] = (IF code = "CASH_AVAILABLE" THEN -UnitFee ELSE 0) /\ g[Cost] \in Int
  <2>1. "cost" \in KindsOf(m, f, basis)
    BY DEF KindsOf
  <2>2. T[Cost] = Moves("CASH_AVAILABLE", "FEE_EXPENSE", UnitFee) /\ Cost \in DOMAIN T
    BY <1>4, <1>5, <2>1 DEF EntryOf
  <2>3. g[Cost] = Posted(Moves("CASH_AVAILABLE", "FEE_EXPENSE", UnitFee), code)
    BY <2>2
  <2>4. code # "FEE_EXPENSE"
    BY DEF MoneyCodes
  <2>5. Posted(Moves("CASH_AVAILABLE", "FEE_EXPENSE", UnitFee), code)
          = IF code = "CASH_AVAILABLE" THEN -UnitFee ELSE 0
    BY <1>2, <2>4, PostedMoves
  <2>. HIDE DEF g
  <2>. QED  BY <1>2, <2>3, <2>5
<1>7. CASE ~m
  <2>. DEFINE Deal == <<"trade", i>>
  <2>1. DOMAIN T = {Deal, Cost}
    BY <1>4, <1>7 DEF KindsOf
  <2>2. T[Deal] = TradePostings(f, basis)
    <3>1. "trade" \in KindsOf(m, f, basis)
      BY <1>7 DEF KindsOf
    <3>. QED  BY <1>5, <3>1 DEF EntryOf
  <2>3. g[Deal] = Posted(TradePostings(f, basis), code)
    BY <2>1, <2>2
  <2>4. Posted(TradePostings(f, basis), code)
          = CASE code = "CASH_AVAILABLE" -> -(w * q)
              [] code = "CASH_RESERVED_MARGIN" -> 0
              [] code = "SECURITIES_COST" -> IF q > 0 THEN w * q ELSE basis * q
    <3>1. CASE q > 0
      <4>1. TradePostings(f, basis) = Moves("CASH_AVAILABLE", "SECURITIES_COST", w * q)
        BY <1>1, <3>1 DEF TradePostings
      <4>2. w * q \in Int
        BY <1>1
      <4>3. /\ Posted(Moves("CASH_AVAILABLE", "SECURITIES_COST", w * q), "SECURITIES_COST") = w * q
            /\ Posted(Moves("CASH_AVAILABLE", "SECURITIES_COST", w * q), "CASH_AVAILABLE")
                 = -(w * q)
            /\ Posted(Moves("CASH_AVAILABLE", "SECURITIES_COST", w * q), "CASH_RESERVED_MARGIN") = 0
        BY <4>2, PostedMoves
      <4>. QED  BY <3>1, <4>1, <4>3 DEF MoneyCodes
    <3>2. CASE ~ (q > 0)
      BY <1>1, <3>2, PostedSale DEF MoneyCodes
    <3>. QED  BY <3>1, <3>2
  <2>5. w * q \in Int /\ basis * q \in Int
    BY <1>1
  <2>6. g[Deal] \in Int
    BY <2>3, <2>4, <2>5 DEF MoneyCodes
  <2>7. IsFiniteSet({Deal, Cost}) /\ SumOf(g, {Deal, Cost}) = g[Deal] + g[Cost]
    <3>. HIDE DEF g
    <3>. QED  BY <1>6, <2>6, SumOfTwo
  <2>8. g[Deal] + g[Cost] = Effect(m, f, code)
    <3>. HIDE DEF g
    <3>. QED  BY <1>1, <1>2, <1>6, <1>7, <2>3, <2>4, <2>5 DEF Effect, MoneyCodes
  <2>9. \A id \in DOMAIN T : Posted(T[id], code) \in Int
    BY <1>6, <2>1, <2>6
  <2>. HIDE DEF g
  <2>. QED  BY <1>1, <1>3, <2>1, <2>7, <2>8, <2>9 DEF g
<1>8. CASE m
  <2>. DEFINE Margin == <<"margin", i>>
              Pnl == <<"pnl", i>>
  <2>1. g[Margin] = (CASE code = "CASH_AVAILABLE" -> -n
                       [] code = "CASH_RESERVED_MARGIN" -> n
                       [] code = "SECURITIES_COST" -> 0) /\ g[Margin] \in Int /\ Margin \in DOMAIN T
    <3>1. "margin" \in KindsOf(m, f, basis)
      BY <1>8 DEF KindsOf
    <3>2. T[Margin] = Moves("CASH_AVAILABLE", "CASH_RESERVED_MARGIN", n) /\ Margin \in DOMAIN T
      BY <1>1, <1>4, <1>5, <3>1 DEF EntryOf
    <3>3. g[Margin] = Posted(Moves("CASH_AVAILABLE", "CASH_RESERVED_MARGIN", n), code)
      BY <3>2
    <3>4. /\ Posted(Moves("CASH_AVAILABLE", "CASH_RESERVED_MARGIN", n), "CASH_AVAILABLE") = -n
          /\ Posted(Moves("CASH_AVAILABLE", "CASH_RESERVED_MARGIN", n), "CASH_RESERVED_MARGIN") = n
          /\ Posted(Moves("CASH_AVAILABLE", "CASH_RESERVED_MARGIN", n), "SECURITIES_COST") = 0
      BY <1>1, PostedMoves
    <3>. HIDE DEF g
    <3>. QED  BY <1>1, <3>2, <3>3, <3>4 DEF MoneyCodes
  <2>2. PICK v \in Int : v = Profit(f, basis)
    BY <1>1 DEF Profit
  <2>3. CASE q < 0 /\ v # 0
    <3>1. "pnl" \in KindsOf(m, f, basis) /\ DOMAIN T = {Margin, Cost, Pnl}
      BY <1>1, <1>4, <1>8, <2>2, <2>3 DEF KindsOf
    <3>2. T[Pnl] = Moves("REALIZED_PNL", "CASH_AVAILABLE", v)
      BY <1>5, <2>2, <3>1 DEF EntryOf
    <3>3. g[Pnl] = Posted(Moves("REALIZED_PNL", "CASH_AVAILABLE", v), code)
      BY <3>1, <3>2
    <3>4. code # "REALIZED_PNL"
      BY DEF MoneyCodes
    <3>5. Posted(Moves("REALIZED_PNL", "CASH_AVAILABLE", v), code)
            = IF code = "CASH_AVAILABLE" THEN v ELSE 0
      BY <3>4, PostedMoves
    <3>6. g[Pnl] \in Int /\ g[Pnl] = IF code = "CASH_AVAILABLE" THEN v ELSE 0
      <4>. HIDE DEF g
      <4>. QED  BY <3>3, <3>5
    <3>7. /\ IsFiniteSet({Margin, Cost, Pnl})
          /\ SumOf(g, {Margin, Cost, Pnl}) = g[Margin] + g[Cost] + g[Pnl]
      <4>1. Margin # Cost /\ Pnl # Margin /\ Pnl # Cost
        OBVIOUS
      <4>2. g[Margin] \in Int /\ g[Cost] \in Int /\ g[Pnl] \in Int
        BY <1>6, <2>1, <3>6
      <4>. HIDE DEF g, Margin, Cost, Pnl
      <4>3. /\ IsFiniteSet({Margin, Cost})
            /\ SumOf(g, {Margin, Cost}) = g[Margin] + g[Cost]
        BY <4>1, <4>2, SumOfTwo
      <4>4. SumOf(g, {Margin, Cost} \cup {Pnl}) = SumOf(g, {Margin, Cost}) + g[Pnl]
        BY <4>1, <4>2, <4>3, SumAdd
      <4>5. IsFiniteSet({Margin, Cost} \cup {Pnl})
        BY <4>3, FS_AddElement
      <4>6. {Margin, Cost} \cup {Pnl} = {Margin, Cost, Pnl}
        OBVIOUS
      <4>. QED  BY <4>3, <4>4, <4>5, <4>6
    <3>8. g[Margin] + g[Cost] + g[Pnl] = Effect(m, f, code)
      <4>. HIDE DEF g
      <4>. QED  BY <1>1, <1>2, <1>6, <1>8, <2>1, <2>2, <2>3, <3>6 DEF Effect, MoneyCodes
    <3>9. \A id \in DOMAIN T : Posted(T[id], code) \in Int
      BY <1>6, <2>1, <3>1, <3>6
    <3>. HIDE DEF g
    <3>. QED  BY <1>1, <1>3, <3>1, <3>7, <3>8, <3>9 DEF g
  <2>4. CASE ~ (q < 0 /\ v # 0)
    <3>1. DOMAIN T = {Margin, Cost}
      BY <1>1, <1>4, <1>8, <2>2, <2>4 DEF KindsOf
    <3>2. IsFiniteSet({Margin, Cost}) /\ SumOf(g, {Margin, Cost}) = g[Margin] + g[Cost]
      <4>. HIDE DEF g
      <4>. QED  BY <1>6, <2>1, SumOfTwo
    <3>3. g[Margin] + g[Cost] = Effect(m, f, code)
      <4>. HIDE DEF g
      <4>. QED  BY <1>1, <1>2, <1>6, <1>8, <2>1, <2>2, <2>4 DEF Effect, MoneyCodes
    <3>4. \A id \in DOMAIN T : Posted(T[id], code) \in Int
      BY <1>6, <2>1, <3>1
    <3>. HIDE DEF g
    <3>. QED  BY <1>1, <1>3, <3>1, <3>2, <3>3, <3>4 DEF g
  <2>. QED  BY <2>3, <2>4
<1>. QED  BY <1>7, <1>8


-----------------------------------------------------------------------------
(* The replay of the fills.                                                *)

Blank == [lots |-> 0, average |-> 0]

\* The holding after one more fill.
After(a, f) ==
  [lots |-> a.lots + f.lots,
   average |-> IF f.lots > 0 THEN Averaged(a, f.lots, f.price)
               ELSE IF a.lots + f.lots > 0 THEN a.average ELSE 0]

\* r gives the holding after each of the first n fills.
Replays(r, given, n) ==
  r = [i \in 0 .. n |-> IF i = 0 THEN Blank ELSE After(r[i - 1], given[i])]

\* What the mirror's replay stands for.
LEMMA ReplayIs ==
  \A n : Replay(n) = CHOOSE r : Replays(r, booked, n)
BY DEF Replay, Replays, After, Blank

\* A replay, one fill at a time.
LEMMA ReplaySteps ==
  ASSUME NEW given, NEW n \in Nat, NEW r, Replays(r, given, n)
  PROVE  /\ r[0] = Blank
         /\ \A i \in 1 .. n : r[i] = After(r[i - 1], given[i])
<1>1. r = [i \in 0 .. n |-> IF i = 0 THEN Blank ELSE After(r[i - 1], given[i])]
  BY DEF Replays
<1>2. \A i \in 0 .. n : r[i] = IF i = 0 THEN Blank ELSE After(r[i - 1], given[i])
  BY <1>1
<1>. QED  BY <1>2

\* Two replays agree on the fills they share.
LEMMA ReplaysAgree ==
  ASSUME NEW n \in Nat, NEW m \in Nat, n <= m, NEW given, NEW more,
         \A i \in 1 .. n : given[i] = more[i],
         NEW r, Replays(r, given, n), NEW q, Replays(q, more, m)
  PROVE  \A i \in 0 .. n : r[i] = q[i]
<1>. DEFINE Bad == {i \in 0 .. n : r[i] # q[i]}
<1>. SUFFICES ASSUME Bad # {} PROVE FALSE
  OBVIOUS
<1>1. PICK k \in Bad : \A j \in Bad : k <= j
  <2>1. Bad \subseteq 0 .. n
    OBVIOUS
  <2>. HIDE DEF Bad
  <2>. QED  BY <2>1, LeastOf
<1>2. k \in 0 .. n /\ r[k] # q[k]
  OBVIOUS
<1>3. k # 0
  BY <1>2, ReplaySteps
<1>4. k - 1 \in 0 .. n /\ k - 1 \notin Bad
  <2>. HIDE DEF Bad
  <2>. QED  BY <1>1, <1>2, <1>3
<1>5. r[k - 1] = q[k - 1]
  BY <1>4
<1>6. r[k] = After(r[k - 1], given[k])
  BY <1>2, <1>3, ReplaySteps
<1>7. q[k] = After(q[k - 1], more[k])
  BY <1>2, <1>3, ReplaySteps
<1>8. given[k] = more[k]
  BY <1>2, <1>3
<1>. QED  BY <1>2, <1>5, <1>6, <1>7, <1>8

\* A replay of all fills holds one of the first k.
LEMMA ReplaysCut ==
  ASSUME NEW given, NEW n \in Nat, NEW r, Replays(r, given, n), NEW k \in 0 .. n
  PROVE  \E q : Replays(q, given, k)
<1>. DEFINE q == [i \in 0 .. k |-> r[i]]
<1>1. \A i \in 0 .. k : q[i] = IF i = 0 THEN Blank ELSE After(q[i - 1], given[i])
  <2>1. r[0] = Blank /\ \A i \in 1 .. n : r[i] = After(r[i - 1], given[i])
    BY ReplaySteps
  <2>2. \A i \in 0 .. k : q[i] = r[i]
    OBVIOUS
  <2>3. ASSUME NEW i \in 1 .. k PROVE i - 1 \in 0 .. k /\ i \in 0 .. k /\ i \in 1 .. n
    OBVIOUS
  <2>4. 0 \in 0 .. k
    OBVIOUS
  <2>. HIDE DEF q
  <2>5. ASSUME NEW i \in 1 .. k PROVE q[i] = After(q[i - 1], given[i])
    BY <2>1, <2>2, <2>3
  <2>6. \A i \in 0 .. k : i = 0 \/ i \in 1 .. k
    OBVIOUS
  <2>. QED  BY <2>1, <2>2, <2>4, <2>5, <2>6
<1>2. q = [i \in 0 .. k |-> q[i]]
  OBVIOUS
<1>. HIDE DEF q
<1>3. Replays(q, given, k)
  BY <1>1, <1>2 DEF Replays
<1>. QED  BY <1>3

\* more begins with the first n fills, and q with the replay r of them.
Begins(more, given, n) == \A i \in 1 .. n : more[i] = given[i]
Continues(q, r, more, n) ==
  /\ Replays(q, more, n + 1)
  /\ \A i \in 0 .. n : q[i] = r[i]
  /\ q[n + 1] = After(r[n], more[n + 1])

\* A replay goes on with the fill appended at the end.
LEMMA ReplaysGrow ==
  ASSUME NEW given, NEW n \in Nat, NEW r, Replays(r, given, n), NEW more, Begins(more, given, n)
  PROVE  \E q : Continues(q, r, more, n)
<1>. DEFINE q == [i \in 0 .. (n + 1) |-> IF i = n + 1 THEN After(r[n], more[n + 1]) ELSE r[i]]
<1>1. q = [i \in 0 .. (n + 1) |-> q[i]]
  OBVIOUS
<1>2. /\ \A i \in 0 .. n : q[i] = r[i]
      /\ q[n + 1] = After(r[n], more[n + 1])
  OBVIOUS
<1>3. r[0] = Blank /\ \A i \in 1 .. n : r[i] = After(r[i - 1], given[i])
  BY ReplaySteps
<1>. HIDE DEF q
<1>4. ASSUME NEW i \in 0 .. (n + 1)
      PROVE  q[i] = IF i = 0 THEN Blank ELSE After(q[i - 1], more[i])
  <2>1. CASE i = 0
    BY <1>2, <1>3, <2>1
  <2>2. CASE i = n + 1
    BY <1>2, <2>2
  <2>3. CASE i \in 1 .. n
    <3>1. i - 1 \in 0 .. n /\ i \in 0 .. n /\ i # 0
      BY <2>3
    <3>. QED  BY <1>2, <1>3, <2>3, <3>1 DEF Begins
  <2>. QED  BY <2>1, <2>2, <2>3
<1>5. Replays(q, more, n + 1)
  BY <1>1, <1>4 DEF Replays
<1>6. Continues(q, r, more, n)
  BY <1>2, <1>5 DEF Continues
<1>. QED  BY <1>6

-----------------------------------------------------------------------------
(* Sums over the fills.                                                    *)

\* What the first n fills mean to an account of the journal.
Total(m, given, n, code) == SumOf([i \in 1 .. n |-> Effect(m, given[i], code)], 1 .. n)

\* An effect is a number.
LEMMA EffectInt ==
  ASSUME NEW m \in BOOLEAN, NEW f \in BookedFills, NEW code \in MoneyCodes
  PROVE  Effect(m, f, code) \in Int
<1>1. PICK q \in Int, w \in Nat, n \in Int, basis \in Nat :
        q = f.lots /\ w = f.price /\ n = f.margin /\ basis = f.prior
  BY DEF BookedFills
<1>2. w * q \in Int /\ basis * q \in Int /\ (basis - w) * q \in Int
  BY <1>1
<1>3. UnitFee \in Nat
  BY BooksAssumption
<1>. QED  BY <1>1, <1>2, <1>3 DEF Effect, Profit, MoneyCodes

\* The total grows by the effect of the fill appended at the end.
LEMMA TotalGrows ==
  ASSUME NEW m \in BOOLEAN, NEW n \in Nat, NEW given, NEW more, NEW code \in MoneyCodes,
         \A i \in 1 .. n : given[i] \in BookedFills /\ more[i] = given[i],
         more[n + 1] \in BookedFills
  PROVE  /\ Total(m, given, n, code) \in Int
         /\ Total(m, more, n + 1, code)
              = Total(m, given, n, code) + Effect(m, more[n + 1], code)
<1>. DEFINE g == [i \in 1 .. n |-> Effect(m, given[i], code)]
            h == [i \in 1 .. (n + 1) |-> Effect(m, more[i], code)]
<1>1. IsFiniteSet(1 .. n) /\ (1 .. n) \cup {n + 1} = 1 .. (n + 1) /\ n + 1 \notin 1 .. n
  <2>1. 1 \in Int /\ n \in Int
    OBVIOUS
  <2>2. IsFiniteSet(1 .. n)
    BY <2>1, FS_Interval
  <2>3. (1 .. n) \cup {n + 1} = 1 .. (n + 1) /\ n + 1 \notin 1 .. n
    OBVIOUS
  <2>. QED  BY <2>2, <2>3
<1>2. \A i \in 1 .. n : g[i] \in Int /\ h[i] = g[i]
  <2>1. \A i \in 1 .. n : Effect(m, given[i], code) \in Int
    BY EffectInt
  <2>. QED  BY <2>1
<1>3. h[n + 1] = Effect(m, more[n + 1], code) /\ h[n + 1] \in Int
  BY EffectInt
<1>4. /\ Total(m, given, n, code) = SumOf(g, 1 .. n)
      /\ Total(m, more, n + 1, code) = SumOf(h, 1 .. (n + 1))
  BY DEF Total
<1>. HIDE DEF g, h
<1>5. SumOf(h, (1 .. n) \cup {n + 1}) = SumOf(h, 1 .. n) + h[n + 1]
  BY <1>1, <1>2, <1>3, SumAdd
<1>6. SumOf(h, 1 .. n) = SumOf(g, 1 .. n)
  BY <1>1, <1>2, SumSame
<1>7. SumOf(g, 1 .. n) \in Int
  BY <1>1, <1>2, SumInt
<1>. QED  BY <1>1, <1>3, <1>4, <1>5, <1>6, <1>7

\* A sum over ids is the sum over the fills of the sums over their ids.
LEMMA SumByFill ==
  ASSUME NEW S, IsFiniteSet(S), NEW g, \A x \in S : g[x] \in Int,
         NEW n \in Nat, \A x \in S : x[2] \in 1 .. n
  PROVE  SumOf(g, S) = SumOf([i \in 1 .. n |-> SumOf(g, {x \in S : x[2] = i})], 1 .. n)
<1>. DEFINE Ids(i) == {x \in S : x[2] = i}
            Upto(k) == {x \in S : x[2] \in 1 .. k}
            h == [i \in 1 .. n |-> SumOf(g, Ids(i))]
            Bad == {k \in 0 .. n : SumOf(g, Upto(k)) # SumOf(h, 1 .. k)}
<1>1. \A i : /\ IsFiniteSet(Ids(i)) /\ IsFiniteSet(Upto(i))
             /\ Ids(i) \subseteq S /\ Upto(i) \subseteq S
  <2>. SUFFICES ASSUME NEW i PROVE IsFiniteSet(Ids(i)) /\ IsFiniteSet(Upto(i))
    OBVIOUS
  <2>1. Ids(i) \in SUBSET S /\ Upto(i) \in SUBSET S
    OBVIOUS
  <2>. HIDE DEF Ids, Upto
  <2>. QED  BY <2>1, FS_Subset
<1>2. \A i \in 1 .. n : h[i] \in Int /\ h[i] = SumOf(g, Ids(i))
  <2>. SUFFICES ASSUME NEW i \in 1 .. n PROVE SumOf(g, Ids(i)) \in Int
    OBVIOUS
  <2>1. \A x \in Ids(i) : g[x] \in Int
    OBVIOUS
  <2>. HIDE DEF Ids, h
  <2>. QED  BY <1>1, <2>1, SumInt
<1>3. Bad = {}
  <2>. SUFFICES ASSUME Bad # {} PROVE FALSE
    OBVIOUS
  <2>1. PICK k \in Bad : \A j \in Bad : k <= j
    <3>1. Bad \subseteq 0 .. n
      OBVIOUS
    <3>. HIDE DEF Bad
    <3>. QED  BY <3>1, LeastOf
  <2>2. k \in 0 .. n /\ SumOf(g, Upto(k)) # SumOf(h, 1 .. k)
    <3>. HIDE DEF Upto, h
    <3>. QED  OBVIOUS
  <2>3. k # 0
    <3>1. Upto(0) = {} /\ 1 .. 0 = {}
      OBVIOUS
    <3>2. SumOf(g, {}) = 0 /\ SumOf(h, {}) = 0
      BY SumEmpty
    <3>. HIDE DEF Upto, h, Bad
    <3>. QED  BY <2>2, <3>1, <3>2
  <2>4. k - 1 \in 0 .. n /\ k - 1 \notin Bad
    <3>. HIDE DEF Bad
    <3>. QED  BY <2>1, <2>2, <2>3
  <2>5. SumOf(g, Upto(k - 1)) = SumOf(h, 1 .. (k - 1))
    <3>. HIDE DEF Upto, h
    <3>. QED  BY <2>4
  <2>6. k \in 1 .. n /\ (1 .. (k - 1)) \cup {k} = 1 .. k /\ k \notin 1 .. (k - 1)
        /\ IsFiniteSet(1 .. (k - 1)) /\ 1 .. (k - 1) \subseteq 1 .. n
    <3>. HIDE DEF Bad, Upto, h
    <3>. QED  BY <2>2, <2>3, FS_Interval
  <2>7. Upto(k - 1) \cup Ids(k) = Upto(k) /\ Upto(k - 1) \cap Ids(k) = {}
    <3>1. \A j \in Int : j \in 1 .. k <=> j \in 1 .. (k - 1) \/ j = k
      <4>. HIDE DEF Bad, Upto, h
      <4>. QED  BY <2>6
    <3>2. \A x \in S : x[2] \in Int
      OBVIOUS
    <3>. HIDE DEF Bad, h
    <3>. QED  BY <2>6, <3>1, <3>2
  <2>8. \A x \in Upto(k - 1) \cup Ids(k) : g[x] \in Int
    OBVIOUS
  <2>. HIDE DEF Upto, Ids, h, Bad
  <2>9. SumOf(g, Upto(k - 1) \cup Ids(k)) = SumOf(g, Upto(k - 1)) + SumOf(g, Ids(k))
    BY <1>1, <2>7, <2>8, SumDisjoint
  <2>10. SumOf(h, (1 .. (k - 1)) \cup {k}) = SumOf(h, 1 .. (k - 1)) + h[k]
    BY <1>2, <2>6, SumAdd
  <2>11. SumOf(g, Upto(k)) = SumOf(h, 1 .. k)
    BY <1>2, <2>5, <2>6, <2>7, <2>9, <2>10
  <2>. QED  BY <2>2, <2>11
<1>4. n \in 0 .. n
  OBVIOUS
<1>5. SumOf(g, Upto(n)) = SumOf(h, 1 .. n)
  <2>. HIDE DEF Upto, h
  <2>. QED  BY <1>3, <1>4
<1>6. Upto(n) = S
  OBVIOUS
<1>. HIDE DEF Upto
<1>. QED  BY <1>5, <1>6 DEF h


-----------------------------------------------------------------------------
(* The ledger, and a fill committed to it.                                 *)

Holdings == [cash : Int, lots : Nat, average : Nat, reserved : Int]
Rows == [lots : Nat, average : Nat]

\* The replay r of the fills ends at the holding, and each receipt kept the average before it.
Follows(r) ==
  /\ Replays(r, booked, Len(booked))
  /\ \A i \in 0 .. Len(booked) : r[i] \in Rows
  /\ r[Len(booked)].lots = holding.lots /\ r[Len(booked)].average = holding.average
  /\ \A i \in 1 .. Len(booked) : booked[i].prior = r[i - 1].average

\* The averages of r up to the n-th fill are quotients without a remainder.
Exact(r, given, n) ==
  \A i \in 1 .. n :
    given[i].lots > 0 =>
      r[i].average * r[i].lots = r[i - 1].average * r[i - 1].lots + given[i].price * given[i].lots

CostOf(h) == IF margined THEN 0 ELSE h.average * h.lots

\* The cost of the holding is what the fills paid for it, as far as averages are exact.
Costed(r) ==
  Exact(r, booked, Len(booked)) =>
    Total(margined, booked, Len(booked), "SECURITIES_COST") = CostOf(holding)

\* The ledger: the replay above, cash and margin the sums of what the fills moved.
TablesInv ==
  /\ margined \in BOOLEAN /\ booked \in Seq(BookedFills) /\ holding \in Holdings
  /\ holding.reserved = IF margined THEN UnitMargin * holding.lots ELSE 0
  /\ Total(margined, booked, Len(booked), "CASH_AVAILABLE") = holding.cash - Capital
  /\ Total(margined, booked, Len(booked), "CASH_RESERVED_MARGIN") = holding.reserved
  /\ \E r : Follows(r) /\ Costed(r)

\* The margin released for l of h lots, a quotient, has no remainder.
LEMMA ExactRelease ==
  ASSUME NEW u \in Nat, NEW h \in Nat \ {0}, NEW l \in Int
  PROVE  ((u * h) * l) \div h = u * l
<1>1. PICK c \in Int : c = u * l
  OBVIOUS
<1>2. (u * h) * l = h * c
  <2>1. (u * h) * l = h * (u * l)
    OBVIOUS
  <2>. QED  BY <1>1, <2>1
<1>3. (h * c) \div h = c
  <2>1. PICK k \in Int : k = (h * c) \div h
    OBVIOUS
  <2>2. h * k <= h * c /\ h * c < h * k + h
    BY <2>1
  <2>3. ~ (k + 1 <= c)
    <3>. SUFFICES ASSUME k + 1 <= c PROVE FALSE
      OBVIOUS
    <3>1. h * (k + 1) <= h * c
      OBVIOUS
    <3>2. h * (k + 1) = h * k + h
      OBVIOUS
    <3>. QED  BY <2>2, <3>1, <3>2
  <2>4. ~ (c + 1 <= k)
    <3>. SUFFICES ASSUME c + 1 <= k PROVE FALSE
      OBVIOUS
    <3>1. h * (c + 1) <= h * k
      OBVIOUS
    <3>2. h * (c + 1) = h * c + h
      OBVIOUS
    <3>3. PICK v \in Int, w \in Int : v = h * c /\ w = h * k
      OBVIOUS
    <3>4. v + h <= w /\ w <= v
      BY <2>2, <3>1, <3>2, <3>3
    <3>. QED  BY <3>3, <3>4
  <2>. QED  BY <2>1, <2>3, <2>4
<1>. QED  BY <1>1, <1>2, <1>3

\* The average after a purchase is a natural number.
LEMMA AverageNat ==
  ASSUME NEW a \in Rows, NEW l \in Nat \ {0}, NEW p \in Nat
  PROVE  Averaged(a, l, p) \in Nat
<1>1. PICK n \in Nat, d \in Nat \ {0} : n = a.average * a.lots + p * l /\ d = a.lots + l
  BY DEF Rows
<1>2. n \div d \in Nat
  OBVIOUS
<1>. QED  BY <1>1, <1>2 DEF Averaged

\* A commit: the fill it books and the holding it leaves.
LEMMA CommitFields ==
  ASSUME TablesInv, NEW lots \in Int, lots # 0, NEW price \in Nat, NEW strategy \in BOOLEAN,
         Commit(lots, price, strategy)
  PROVE  \E f \in BookedFills :
           /\ booked' = Append(booked, f) /\ f.strategy = strategy
           /\ f.lots = lots /\ f.price = price /\ f.prior = holding.average
           /\ f.margin = (IF margined THEN UnitMargin * lots ELSE 0)
           /\ holding' \in Holdings
           /\ holding'.lots = holding.lots + lots
           /\ holding'.average
                = After([lots |-> holding.lots, average |-> holding.average], f).average
           /\ holding'.reserved = holding.reserved + f.margin
           /\ holding'.cash = holding.cash + Effect(margined, f, "CASH_AVAILABLE")
<1>1. PICK L \in Nat, a \in Nat, c \in Int, R \in Int :
        L = holding.lots /\ a = holding.average /\ c = holding.cash /\ R = holding.reserved
  BY DEF TablesInv, Holdings
<1>2. {UnitMargin, UnitFee} \subseteq Nat
  BY BooksAssumption
<1>3. PICK mc \in Int : mc = IF margined THEN UnitMargin * lots ELSE 0
  BY <1>2
<1>4. L + lots \in Nat
  BY <1>1, BooksAssumption DEF Commit
<1>5. MarginChange(lots) = mc
  <2>1. CASE margined /\ ~ (lots > 0)
    <3>1. L \in Nat \ {0}
      BY <1>4, <2>1
    <3>2. R = UnitMargin * L
      BY <1>1, <2>1 DEF TablesInv
    <3>3. (R * lots) \div L = UnitMargin * lots
      BY <1>2, <3>1, <3>2, ExactRelease
    <3>. QED  BY <1>1, <1>3, <2>1, <3>3 DEF MarginChange
  <2>2. CASE ~ (margined /\ ~ (lots > 0))
    BY <1>3, <2>2 DEF MarginChange
  <2>. QED  BY <2>1, <2>2
<1>6. PICK f : f = [lots |-> lots, price |-> price, margin |-> mc, prior |-> a,
                    strategy |-> strategy]
  OBVIOUS
<1>7. f \in BookedFills /\ f.lots = lots /\ f.price = price /\ f.margin = mc /\ f.prior = a
      /\ f.strategy = strategy
  BY <1>6 DEF BookedFills
<1>8. booked' = Append(booked, f)
  BY <1>1, <1>5, <1>6 DEF Commit
<1>9. PICK e \in Int : e = CashMoved(lots, price)
  <2>1. (a - price) * lots \in Int /\ price * lots \in Int
    BY <1>1
  <2>. QED  BY <1>1, <1>5, <2>1 DEF CashMoved
<1>10. e - UnitFee = Effect(margined, f, "CASH_AVAILABLE")
  <2>1. PICK v \in Int, w \in Int : v = (a - price) * lots /\ w = price * lots
    BY <1>1
  <2>2. Effect(margined, f, "CASH_AVAILABLE")
          = (IF margined THEN (IF lots < 0 THEN v ELSE 0) - mc ELSE -w) - UnitFee
    BY <1>7, <2>1 DEF Effect, Profit
  <2>3. e = IF ~margined THEN -w ELSE (IF lots < 0 THEN v ELSE 0) - mc
    BY <1>1, <1>5, <1>9, <2>1 DEF CashMoved
  <2>. QED  BY <1>2, <2>1, <2>2, <2>3
<1>11. PICK row : row = [lots |-> holding.lots, average |-> holding.average]
  OBVIOUS
<1>12. row \in Rows /\ row.lots = L /\ row.average = a
  BY <1>1, <1>11 DEF Rows
<1>13. Averaged(holding, lots, price) = Averaged(row, lots, price)
  BY <1>1, <1>12 DEF Averaged
<1>14. PICK b \in Nat : b = After(row, f).average
  <2>1. lots > 0 => Averaged(row, lots, price) \in Nat
    BY <1>12, AverageNat
  <2>. QED  BY <1>7, <1>12, <2>1 DEF After
<1>15. b = IF lots > 0 THEN Averaged(row, lots, price) ELSE IF L + lots > 0 THEN a ELSE 0
  BY <1>7, <1>12, <1>14 DEF After
<1>16. holding' = [cash |-> c + e - UnitFee, lots |-> L + lots, average |-> b, reserved |-> R + mc]
  BY <1>1, <1>5, <1>9, <1>13, <1>15 DEF Commit
<1>17. /\ holding' \in Holdings /\ holding'.lots = L + lots /\ holding'.average = b
       /\ holding'.reserved = R + mc /\ holding'.cash = c + e - UnitFee
  BY <1>1, <1>2, <1>3, <1>4, <1>9, <1>14, <1>16 DEF Holdings
<1>18. holding'.cash = c + Effect(margined, f, "CASH_AVAILABLE")
  BY <1>1, <1>2, <1>9, <1>10, <1>17
<1>. QED  BY <1>1, <1>3, <1>7, <1>8, <1>11, <1>14, <1>17, <1>18


\* A fill appended at the end leaves the earlier ones where they are.
LEMMA BookedMore ==
  ASSUME NEW S, NEW given \in Seq(S), NEW f \in S, NEW more, more = Append(given, f)
  PROVE  /\ more \in Seq(S) /\ Len(given) \in Nat /\ Len(more) = Len(given) + 1
         /\ more[Len(given) + 1] = f
         /\ \A i \in 1 .. Len(given) : given[i] \in S /\ more[i] = given[i]
BY AppendProperties, LenProperties, ElementOfSeq

\* A purchase or a sale at exact averages moves as much cost as it moves the holding's.
LEMMA CostMoves ==
  ASSUME NEW m \in BOOLEAN, NEW f \in BookedFills, f.lots # 0,
         NEW x \in Rows, NEW y \in Rows, y = After(x, f), f.prior = x.average,
         f.lots > 0 => y.average * y.lots = x.average * x.lots + f.price * f.lots
  PROVE  Effect(m, f, "SECURITIES_COST")
           = IF m THEN 0 ELSE y.average * y.lots - x.average * x.lots
<1>1. PICK q \in Int, w \in Nat, a \in Nat, l \in Nat, b \in Nat, k \in Nat :
        q = f.lots /\ w = f.price /\ a = x.average /\ l = x.lots /\ b = y.average /\ k = y.lots
  BY DEF BookedFills, Rows
<1>2. k = l + q /\ (~ (q > 0) => b = IF l + q > 0 THEN a ELSE 0)
  BY <1>1 DEF After
<1>3. Effect(m, f, "SECURITIES_COST") = IF m THEN 0 ELSE IF q > 0 THEN w * q ELSE a * q
  BY <1>1 DEF Effect
<1>4. CASE q > 0
  <2>1. PICK u \in Int, v \in Int, z \in Int : u = b * k /\ v = a * l /\ z = w * q
    BY <1>1
  <2>2. u = v + z
    BY <1>1, <1>4, <2>1
  <2>. QED  BY <1>1, <1>3, <1>4, <2>1, <2>2
<1>5. CASE ~ (q > 0)
  <2>1. a * (l + q) = a * l + a * q
    BY <1>1
  <2>2. b * k = a * (l + q)
    <3>1. CASE l + q > 0
      BY <1>1, <1>2, <1>5, <3>1
    <3>2. CASE ~ (l + q > 0)
      <4>1. l + q = 0 /\ k = 0
        BY <1>1, <1>2, <3>2
      <4>. QED  BY <1>1, <4>1
    <3>. QED  BY <3>1, <3>2
  <2>3. PICK u \in Int, v \in Int, z \in Int : u = b * k /\ v = a * l /\ z = a * q
    BY <1>1
  <2>4. u = v + z
    BY <2>1, <2>2, <2>3
  <2>. QED  BY <1>1, <1>3, <1>5, <2>3, <2>4
<1>. QED  BY <1>4, <1>5

\* The tables after a commit.
LEMMA CommitKeeps ==
  ASSUME TablesInv, NEW lots \in Int, lots # 0, NEW price \in Nat, NEW strategy \in BOOLEAN,
         Commit(lots, price, strategy), margined' = margined
  PROVE  /\ TablesInv'
         /\ Len(booked) \in Nat /\ Len(booked') = Len(booked) + 1
         /\ booked'[Len(booked) + 1].strategy = strategy
         /\ \A i \in 1 .. Len(booked) : booked'[i] = booked[i]
<1>1. PICK f \in BookedFills :
        /\ booked' = Append(booked, f) /\ f.strategy = strategy
        /\ f.lots = lots /\ f.price = price /\ f.prior = holding.average
        /\ f.margin = (IF margined THEN UnitMargin * lots ELSE 0)
        /\ holding' \in Holdings
        /\ holding'.lots = holding.lots + lots
        /\ holding'.average = After([lots |-> holding.lots, average |-> holding.average], f).average
        /\ holding'.reserved = holding.reserved + f.margin
        /\ holding'.cash = holding.cash + Effect(margined, f, "CASH_AVAILABLE")
  BY CommitFields
<1>2. PICK given, more, m, n, h, k :
        given = booked /\ more = booked' /\ m = margined /\ n = Len(booked) /\ h = holding
        /\ k = holding'
  OBVIOUS
<1>3. m \in BOOLEAN /\ given \in Seq(BookedFills) /\ h \in Holdings
  BY <1>2 DEF TablesInv
<1>4. /\ more \in Seq(BookedFills) /\ n \in Nat /\ Len(more) = n + 1 /\ more[n + 1] = f
      /\ \A i \in 1 .. n : given[i] \in BookedFills /\ more[i] = given[i]
  BY <1>1, <1>2, <1>3, BookedMore
<1>5. \A code \in MoneyCodes :
        /\ Total(m, given, n, code) \in Int
        /\ Total(m, more, n + 1, code) = Total(m, given, n, code) + Effect(m, f, code)
  BY <1>3, <1>4, TotalGrows
<1>6. k \in Holdings /\ k.lots = h.lots + lots /\ k.reserved = h.reserved + f.margin
      /\ k.cash = h.cash + Effect(m, f, "CASH_AVAILABLE")
  BY <1>1, <1>2
<1>7. {Capital, UnitMargin} \subseteq Nat
  BY BooksAssumption
<1>8. k.reserved = IF m THEN UnitMargin * k.lots ELSE 0
  <2>1. h.reserved = IF m THEN UnitMargin * h.lots ELSE 0
    BY <1>2 DEF TablesInv
  <2>2. f.margin = IF m THEN UnitMargin * lots ELSE 0
    BY <1>1, <1>2
  <2>3. PICK l \in Nat : l = h.lots
    BY <1>3 DEF Holdings
  <2>4. UnitMargin * (l + lots) = UnitMargin * l + UnitMargin * lots
    BY <1>7
  <2>. QED  BY <1>6, <2>1, <2>2, <2>3, <2>4
<1>9. Total(m, more, n + 1, "CASH_AVAILABLE") = k.cash - Capital
  <2>1. Total(m, given, n, "CASH_AVAILABLE") = h.cash - Capital
    BY <1>2 DEF TablesInv
  <2>2. PICK c \in Int, e \in Int : c = h.cash /\ e = Effect(m, f, "CASH_AVAILABLE")
    BY <1>3, EffectInt DEF Holdings, MoneyCodes
  <2>3. Total(m, more, n + 1, "CASH_AVAILABLE") = c - Capital + e
    BY <1>5, <2>1, <2>2 DEF MoneyCodes
  <2>4. k.cash = c + e
    BY <1>6, <2>2
  <2>. QED  BY <1>7, <2>2, <2>3, <2>4
<1>10. Total(m, more, n + 1, "CASH_RESERVED_MARGIN") = k.reserved
  <2>1. Total(m, given, n, "CASH_RESERVED_MARGIN") = h.reserved
    BY <1>2 DEF TablesInv
  <2>2. Effect(m, f, "CASH_RESERVED_MARGIN") = f.margin
    BY <1>1, <1>2 DEF Effect
  <2>. QED  BY <1>5, <1>6, <2>1, <2>2 DEF MoneyCodes
<1>11. PICK r : Follows(r) /\ Costed(r)
  BY DEF TablesInv
<1>12. /\ Replays(r, given, n) /\ \A i \in 0 .. n : r[i] \in Rows
       /\ r[n].lots = h.lots /\ r[n].average = h.average
       /\ \A i \in 1 .. n : given[i].prior = r[i - 1].average
  BY <1>2, <1>11 DEF Follows
<1>13. PICK q : /\ Replays(q, more, n + 1)
                /\ \A i \in 0 .. n : q[i] = r[i]
                /\ q[n + 1] = After(r[n], more[n + 1])
  <2>1. Replays(r, given, n)
    BY <1>12
  <2>2. n \in Nat
    BY <1>4
  <2>3. Begins(more, given, n)
    BY <1>4 DEF Begins
  <2>4. PICK q : Continues(q, r, more, n)
    BY <2>1, <2>2, <2>3, ReplaysGrow
  <2>. QED  BY <2>4 DEF Continues
<1>14. r[n] \in Rows /\ q[n] = r[n]
  BY <1>4, <1>12, <1>13
<1>15. q[n + 1].lots = k.lots /\ q[n + 1].average = k.average /\ q[n + 1] \in Rows
  <2>1. PICK row : row = r[n]
    OBVIOUS
  <2>2. row = [lots |-> holding.lots, average |-> holding.average]
    BY <1>2, <1>12, <1>14, <2>1 DEF Rows
  <2>3. After(row, f).lots = k.lots /\ After(row, f).average = k.average
    BY <1>1, <1>2, <1>6, <2>2 DEF After
  <2>4. After(row, f) = [lots |-> After(row, f).lots, average |-> After(row, f).average]
    BY DEF After
  <2>5. k.lots \in Nat /\ k.average \in Nat
    BY <1>6 DEF Holdings
  <2>. QED  BY <1>4, <1>13, <2>1, <2>3, <2>4, <2>5 DEF Rows
<1>16. /\ \A i \in 0 .. (n + 1) : q[i] \in Rows
       /\ \A i \in 1 .. (n + 1) : more[i].prior = q[i - 1].average
  <2>1. more[n + 1].prior = q[n].average
    BY <1>1, <1>2, <1>4, <1>12, <1>14
  <2>2. ASSUME NEW i \in 1 .. n PROVE more[i].prior = q[i - 1].average
    <3>1. i - 1 \in 0 .. n
      BY <1>4
    <3>. QED  BY <1>4, <1>12, <1>13, <3>1
  <2>3. \A i \in 1 .. (n + 1) : i \in 1 .. n \/ (i = n + 1 /\ i - 1 = n)
    BY <1>4
  <2>4. \A i \in 0 .. (n + 1) : i \in 0 .. n \/ i = n + 1
    BY <1>4
  <2>. QED  BY <1>12, <1>13, <1>15, <2>1, <2>2, <2>3, <2>4
<1>17. ASSUME Exact(q, more, n + 1)
       PROVE  Total(m, more, n + 1, "SECURITIES_COST") = IF m THEN 0 ELSE k.average * k.lots
  <2>1. Exact(r, given, n)
    <3>. SUFFICES ASSUME NEW i \in 1 .. n, given[i].lots > 0
                  PROVE  r[i].average * r[i].lots
                           = r[i - 1].average * r[i - 1].lots + given[i].price * given[i].lots
      BY DEF Exact
    <3>1. i \in 1 .. (n + 1) /\ i \in 0 .. n /\ i - 1 \in 0 .. n
      BY <1>4
    <3>2. more[i] = given[i] /\ q[i] = r[i] /\ q[i - 1] = r[i - 1]
      BY <1>4, <1>13, <3>1
    <3>3. more[i].lots > 0 =>
            q[i].average * q[i].lots
              = q[i - 1].average * q[i - 1].lots + more[i].price * more[i].lots
      BY <1>17, <3>1 DEF Exact
    <3>. QED  BY <3>2, <3>3
  <2>2. Total(m, given, n, "SECURITIES_COST") = IF m THEN 0 ELSE h.average * h.lots
    BY <1>2, <1>11, <2>1 DEF Costed, CostOf
  <2>3. PICK x, y : x = r[n] /\ y = q[n + 1]
    OBVIOUS
  <2>4. x \in Rows /\ y \in Rows /\ y = After(x, f) /\ f.prior = x.average /\ f.lots # 0
    BY <1>1, <1>2, <1>4, <1>12, <1>13, <1>14, <1>15, <2>3
  <2>5. f.lots > 0 => y.average * y.lots = x.average * x.lots + f.price * f.lots
    <3>1. n + 1 \in 1 .. (n + 1) /\ (n + 1) - 1 = n
      BY <1>4
    <3>2. more[n + 1].lots > 0 =>
            q[n + 1].average * q[n + 1].lots
              = q[n].average * q[n].lots + more[n + 1].price * more[n + 1].lots
      BY <1>17, <3>1 DEF Exact
    <3>. QED  BY <1>4, <1>14, <2>3, <3>2
  <2>6. Effect(m, f, "SECURITIES_COST")
          = IF m THEN 0 ELSE y.average * y.lots - x.average * x.lots
    BY <1>3, <2>4, <2>5, CostMoves
  <2>7. PICK u \in Int, v \in Int : u = y.average * y.lots /\ v = x.average * x.lots
    BY <2>4 DEF Rows
  <2>8. u = k.average * k.lots /\ v = h.average * h.lots
    BY <1>12, <1>15, <2>3, <2>7
  <2>. QED  BY <1>5, <2>2, <2>6, <2>7, <2>8 DEF MoneyCodes
<1>18. Follows(q)' /\ Costed(q)'
  BY <1>2, <1>4, <1>13, <1>15, <1>16, <1>17 DEF Follows, Costed, CostOf
<1>19. TablesInv'
  BY <1>2, <1>3, <1>4, <1>6, <1>8, <1>9, <1>10, <1>18 DEF TablesInv
<1>. QED  BY <1>1, <1>2, <1>4, <1>19


-----------------------------------------------------------------------------
(* The journal and the mirror.                                             *)

\* What the journal holds of fill i, whoever posts it.
PostedAs(i) == FillEntries(margined, booked[i], i, booked[i].prior)

JournalInv ==
  \A id \in DOMAIN entered :
    /\ id[2] \in 1 .. Len(booked)
    /\ id \in DOMAIN PostedAs(id[2])
    /\ entered[id] = PostedAs(id[2])[id]

\* While the mirror holds a snapshot nothing of a later fill is posted and no fill of the
\* coordinator is later than it.
MirrorInv ==
  /\ mirror = [seen |-> mirror.seen, report |-> mirror.report]
  /\ mirror.seen \in {NoSnapshot} \cup 0 .. Len(booked)
  /\ mirror.report # "differs"
  /\ mirror.seen # NoSnapshot =>
       /\ mirror.report = "none"
       /\ \A i \in 1 .. Len(booked) : i > mirror.seen => ~booked[i].strategy
       /\ \A id \in DOMAIN entered : id[2] <= mirror.seen

BooksInv == TablesInv /\ JournalInv /\ MirrorInv

\* The fills booked.
LEMMA BookedFields ==
  ASSUME TablesInv
  PROVE  /\ Len(booked) \in Nat /\ DOMAIN booked = 1 .. Len(booked)
         /\ \A i \in 1 .. Len(booked) : booked[i] \in BookedFills
<1>1. booked \in Seq(BookedFills)
  BY DEF TablesInv
<1>. QED  BY <1>1, LenProperties, ElementOfSeq

\* An id names its fill.
LEMMA IdsOfFill ==
  ASSUME NEW m, NEW f, NEW i, NEW basis, NEW id \in DOMAIN FillEntries(m, f, i, basis)
  PROVE  id[2] = i /\ id \in Kinds \X {i}
<1>1. id \in KindsOf(m, f, basis) \X {i}
  BY DEF FillEntries
<1>2. KindsOf(m, f, basis) \subseteq Kinds
  BY DEF KindsOf, Kinds
<1>. QED  BY <1>1, <1>2

\* The replay of the mirror is that of the receipts.
LEMMA ReplayOfReceipts ==
  ASSUME TablesInv, NEW n \in 0 .. Len(booked), NEW R, Follows(R)
  PROVE  /\ \A i \in 0 .. n : Replay(n)[i] = R[i]
         /\ \A i \in 1 .. n : Replay(n)[i - 1].average = booked[i].prior
<1>1. PICK k, given : k = Len(booked) /\ given = booked /\ k \in Nat
  BY BookedFields
<1>2. n \in Nat /\ n <= k /\ n \in 0 .. k
  BY <1>1
<1>3. Replays(R, given, k)
  BY <1>1 DEF Follows
<1>4. \E q : Replays(q, given, n)
  BY <1>1, <1>2, <1>3, ReplaysCut
<1>5. PICK q : q = Replay(n)
  OBVIOUS
<1>6. Replays(q, given, n)
  <2>1. q = CHOOSE r : Replays(r, given, n)
    BY <1>1, <1>5, ReplayIs
  <2>. QED  BY <1>4, <2>1
<1>7. \A i \in 0 .. n : q[i] = R[i]
  BY <1>1, <1>2, <1>3, <1>6, ReplaysAgree
<1>8. ASSUME NEW i \in 1 .. n PROVE q[i - 1].average = booked[i].prior
  <2>1. i \in 1 .. k /\ i - 1 \in 0 .. n
    BY <1>1, <1>2
  <2>. QED  BY <1>1, <1>7, <2>1 DEF Follows
<1>. QED  BY <1>5, <1>7, <1>8

\* What the mirror expects are the postings of the first n fills as their receipts give them.
LEMMA BatchesAre ==
  ASSUME TablesInv, NEW n \in 0 .. Len(booked)
  PROVE  \A id : /\ id \in DOMAIN Batches(n) <=> id[2] \in 1 .. n /\ id \in DOMAIN PostedAs(id[2])
                 /\ id \in DOMAIN Batches(n) => Batches(n)[id] = PostedAs(id[2])[id]
<1>1. PICK R : Follows(R)
  BY DEF TablesInv
<1>2. PICK r : r = Replay(n)
  OBVIOUS
<1>3. \A i \in 1 .. n : r[i - 1].average = booked[i].prior
  BY <1>1, <1>2, ReplayOfReceipts
<1>4. \A i \in 1 .. n : Transactions(i, r[i - 1].average) = PostedAs(i)
  BY <1>3, TransactionsAre DEF PostedAs
<1>5. \A i : \A id \in DOMAIN PostedAs(i) : id[2] = i
  BY IdsOfFill DEF PostedAs
<1>. DEFINE D == UNION {DOMAIN Transactions(i, r[i - 1].average) : i \in 1 .. n}
<1>6. Batches(n) = [id \in D |-> Transactions(id[2], r[id[2] - 1].average)[id]]
  BY <1>2 DEF Batches
<1>7. \A id : id \in D <=> \E i \in 1 .. n : id \in DOMAIN PostedAs(i)
  <2>1. \A id : id \in D <=> \E i \in 1 .. n : id \in DOMAIN Transactions(i, r[i - 1].average)
    OBVIOUS
  <2>. HIDE DEF D
  <2>. QED  BY <1>4, <2>1
<1>. HIDE DEF D
<1>8. \A id : id \in D <=> id[2] \in 1 .. n /\ id \in DOMAIN PostedAs(id[2])
  BY <1>5, <1>7
<1>9. DOMAIN Batches(n) = D /\ \A id \in D : Batches(n)[id] = PostedAs(id[2])[id]
  BY <1>4, <1>6, <1>8
<1>. QED  BY <1>8, <1>9

\* Posting what a receipt gives keeps the journal.
LEMMA MergeKeeps ==
  ASSUME JournalInv, NEW new, entered' = Merge(new), UNCHANGED <<margined, booked>>,
         \A id \in DOMAIN new : /\ id[2] \in 1 .. Len(booked)
                                /\ id \in DOMAIN PostedAs(id[2])
                                /\ new[id] = PostedAs(id[2])[id]
  PROVE  JournalInv' /\ DOMAIN entered' = DOMAIN entered \cup DOMAIN new
<1>1. /\ DOMAIN entered' = DOMAIN entered \cup DOMAIN new
      /\ \A id \in DOMAIN entered' : entered'[id] = IF id \in DOMAIN entered THEN entered[id]
                                                    ELSE new[id]
  BY DEF Merge
<1>2. \A i : PostedAs(i)' = PostedAs(i)
  BY DEF PostedAs
<1>3. SUFFICES ASSUME NEW id \in DOMAIN entered'
               PROVE  /\ id[2] \in 1 .. Len(booked)
                      /\ id \in DOMAIN PostedAs(id[2])
                      /\ entered'[id] = PostedAs(id[2])[id]
  BY <1>1, <1>2 DEF JournalInv
<1>4. CASE id \in DOMAIN entered
  BY <1>1, <1>4 DEF JournalInv
<1>5. CASE id \notin DOMAIN entered
  BY <1>1, <1>5
<1>. QED  BY <1>4, <1>5


-----------------------------------------------------------------------------
(* The invariant holds at the start, and every step keeps it.              *)

\* An empty ledger.
LEMMA BooksStart ==
  BooksInit => BooksInv
<1>. SUFFICES ASSUME BooksInit PROVE BooksInv
  OBVIOUS
<1>1. Capital \in Nat
  BY BooksAssumption
<1>2. PICK given, m, h : given = booked /\ m = margined /\ h = holding
  OBVIOUS
<1>3. /\ given = << >> /\ m \in BOOLEAN
      /\ h = [cash |-> Capital, lots |-> 0, average |-> 0, reserved |-> 0]
  BY <1>2 DEF BooksInit
<1>4. Len(booked) = 0 /\ booked \in Seq(BookedFills)
  BY <1>2, <1>3
<1>5. 1 .. 0 = {} /\ 0 .. 0 = {0}
  OBVIOUS
<1>6. \A code : Total(m, given, 0, code) = 0
  BY <1>5, SumEmpty DEF Total
<1>7. h \in Holdings /\ h.cash = Capital /\ h.lots = 0 /\ h.average = 0 /\ h.reserved = 0
  BY <1>1, <1>3 DEF Holdings
<1>8. PICK r : r = [i \in {0} |-> Blank]
  OBVIOUS
<1>9. r[0] = Blank /\ Blank \in Rows /\ Blank.lots = 0 /\ Blank.average = 0
  BY <1>8 DEF Blank, Rows
<1>10. Replays(r, given, 0)
  <2>. DEFINE A(i) == After(r[i - 1], given[i])
  <2>1. r = [i \in {0} |-> IF i = 0 THEN Blank ELSE A(i)]
    <3>. HIDE DEF A
    <3>. QED  BY <1>8
  <2>. QED  BY <1>5, <2>1 DEF Replays
<1>11. Follows(r)
  BY <1>2, <1>4, <1>5, <1>7, <1>9, <1>10 DEF Follows
<1>12. Costed(r)
  BY <1>2, <1>4, <1>6, <1>7 DEF Costed, CostOf
<1>13. h.cash - Capital = 0
  BY <1>1, <1>7
<1>14. UnitMargin * 0 = 0
  BY BooksAssumption
<1>15. TablesInv
  BY <1>2, <1>3, <1>4, <1>6, <1>7, <1>11, <1>12, <1>13, <1>14 DEF TablesInv
<1>16. JournalInv
  <2>1. DOMAIN entered = {}
    BY DEF BooksInit
  <2>. QED  BY <2>1 DEF JournalInv
<1>17. MirrorInv
  BY DEF BooksInit, MirrorInv, NoSnapshot
<1>. QED  BY <1>15, <1>16, <1>17 DEF BooksInv

\* A fill, with the mirror told or not.
LEMMA CommitPreserves ==
  ASSUME BooksInv, NEW lots \in Int, lots # 0, NEW price \in Nat, NEW strategy \in BOOLEAN,
         Commit(lots, price, strategy), UNCHANGED <<margined, entered>>,
         \/ ~strategy /\ mirror' = mirror
         \/ mirror.seen = NoSnapshot /\ mirror' = [mirror EXCEPT !.report = "none"]
  PROVE  BooksInv'
<1>1. TablesInv /\ JournalInv /\ MirrorInv
  BY DEF BooksInv
<1>2. PICK n : n = Len(booked)
  OBVIOUS
<1>3. /\ TablesInv' /\ n \in Nat /\ Len(booked') = n + 1
      /\ booked'[n + 1].strategy = strategy
      /\ \A i \in 1 .. n : booked'[i] = booked[i]
  BY <1>1, <1>2, CommitKeeps
<1>4. \A i \in 1 .. n : i \in 1 .. (n + 1)
  BY <1>3
<1>5. JournalInv'
  <2>1. \A i \in 1 .. n : PostedAs(i)' = PostedAs(i)
    BY <1>3 DEF PostedAs
  <2>. QED  BY <1>1, <1>2, <1>3, <1>4, <2>1 DEF JournalInv
<1>6. PICK k, t : mirror = [seen |-> k, report |-> t]
  BY <1>1 DEF MirrorInv
<1>7. /\ k \in {NoSnapshot} \cup 0 .. n /\ t # "differs"
      /\ k # NoSnapshot => /\ t = "none" /\ \A i \in 1 .. n : i > k => ~booked[i].strategy
                           /\ \A id \in DOMAIN entered : id[2] <= k
  BY <1>1, <1>2, <1>6 DEF MirrorInv
<1>8. k \in {NoSnapshot} \cup 0 .. (n + 1)
  BY <1>3, <1>7
<1>9. MirrorInv'
  <2>1. CASE ~strategy /\ mirror' = mirror
    <3>1. mirror' = [seen |-> k, report |-> t]
      BY <1>6, <2>1
    <3>2. \A i \in 1 .. (n + 1) : i \in 1 .. n \/ i = n + 1
      BY <1>3
    <3>3. k # NoSnapshot => \A i \in 1 .. (n + 1) : i > k => ~booked'[i].strategy
      BY <1>3, <1>7, <2>1, <3>2
    <3>. QED  BY <1>3, <1>7, <1>8, <3>1, <3>3 DEF MirrorInv
  <2>2. CASE mirror.seen = NoSnapshot /\ mirror' = [mirror EXCEPT !.report = "none"]
    <3>1. mirror' = [seen |-> k, report |-> "none"] /\ k = NoSnapshot
      BY <1>6, <2>2
    <3>. QED  BY <3>1 DEF MirrorInv
  <2>. QED  BY <2>1, <2>2
<1>. QED  BY <1>3, <1>5, <1>9 DEF BooksInv

\* The coordinator posts a fill of its own.
LEMMA PostKeeps ==
  ASSUME BooksInv, NEW i \in DOMAIN booked, PostFill(i)
  PROVE  BooksInv'
<1>1. TablesInv /\ JournalInv /\ MirrorInv /\ UNCHANGED <<margined, booked, holding, mirror>>
  BY DEF BooksInv, PostFill
<1>2. i \in 1 .. Len(booked) /\ Len(booked) \in Nat /\ booked[i].strategy
  BY <1>1, BookedFields DEF PostFill
<1>3. PICK new : new = Transactions(i, Basis(i))
  OBVIOUS
<1>4. new = PostedAs(i)
  BY <1>3, TransactionsAre DEF PostedAs, Basis
<1>5. \A id \in DOMAIN new : id[2] = i
  BY <1>4, IdsOfFill DEF PostedAs
<1>6. entered' = Merge(new)
  BY <1>3 DEF PostFill
<1>7. JournalInv' /\ DOMAIN entered' = DOMAIN entered \cup DOMAIN new
  <2>1. \A id \in DOMAIN new : /\ id[2] \in 1 .. Len(booked)
                               /\ id \in DOMAIN PostedAs(id[2])
                               /\ new[id] = PostedAs(id[2])[id]
    BY <1>2, <1>4, <1>5
  <2>. QED  BY <1>1, <1>6, <2>1, MergeKeeps
<1>8. mirror.seen # NoSnapshot => i <= mirror.seen
  <2>1. CASE mirror.seen \in 0 .. Len(booked)
    BY <1>1, <1>2, <2>1 DEF MirrorInv
  <2>. QED  BY <1>1, <2>1 DEF MirrorInv
<1>9. MirrorInv'
  BY <1>1, <1>5, <1>7, <1>8 DEF MirrorInv
<1>10. TablesInv'
  BY <1>1 DEF TablesInv, Follows, Costed, CostOf
<1>. QED  BY <1>7, <1>9, <1>10 DEF BooksInv

\* The mirror reads the ledger.
LEMMA ReadKeeps ==
  ASSUME BooksInv, ReadLedger
  PROVE  BooksInv'
<1>1. TablesInv /\ JournalInv /\ UNCHANGED <<margined, booked, holding, entered>>
  BY DEF BooksInv, ReadLedger
<1>2. Len(booked) \in Nat
  BY <1>1, BookedFields
<1>3. JournalInv'
  <2>1. \A i : PostedAs(i)' = PostedAs(i)
    BY <1>1 DEF PostedAs
  <2>. QED  BY <1>1, <2>1 DEF JournalInv
<1>4. TablesInv'
  BY <1>1 DEF TablesInv, Follows, Costed, CostOf
<1>5. mirror' = [seen |-> Len(booked), report |-> "none"]
  BY DEF ReadLedger
<1>6. \A i \in 1 .. Len(booked) : ~ (i > Len(booked))
  BY <1>2
<1>7. \A id \in DOMAIN entered : id[2] <= Len(booked)
  BY <1>1, <1>2 DEF JournalInv
<1>8. MirrorInv'
  BY <1>1, <1>2, <1>5, <1>6, <1>7 DEF MirrorInv
<1>. QED  BY <1>3, <1>4, <1>8 DEF BooksInv

\* The mirror posts what its snapshot says, and never meets a posting it does not expect.
LEMMA MirrorKeeps ==
  ASSUME BooksInv, MirrorExits
  PROVE  BooksInv'
<1>1. TablesInv /\ JournalInv /\ MirrorInv /\ UNCHANGED <<margined, booked, holding>>
  BY DEF BooksInv, MirrorExits
<1>2. PICK n : n = mirror.seen
  OBVIOUS
<1>3. n \in 0 .. Len(booked) /\ \A id \in DOMAIN entered : id[2] <= n
  BY <1>1, <1>2 DEF MirrorExits, MirrorInv
<1>4. Len(booked) \in Nat /\ n \in Nat /\ n <= Len(booked)
  BY <1>1, <1>3, BookedFields
<1>5. PICK expected : expected = Batches(n)
  OBVIOUS
<1>6. \A id : /\ id \in DOMAIN expected <=> id[2] \in 1 .. n /\ id \in DOMAIN PostedAs(id[2])
              /\ id \in DOMAIN expected => expected[id] = PostedAs(id[2])[id]
  BY <1>1, <1>3, <1>5, BatchesAre
<1>7. ~Differs(expected)
  <2>1. ASSUME NEW id \in DOMAIN entered
        PROVE  id \in DOMAIN expected /\ entered[id] = expected[id]
    <3>1. id[2] \in 1 .. Len(booked) /\ id \in DOMAIN PostedAs(id[2])
          /\ entered[id] = PostedAs(id[2])[id]
      BY <1>1 DEF JournalInv
    <3>2. id[2] \in 1 .. n
      BY <1>3, <1>4, <3>1
    <3>. QED  BY <1>6, <3>1, <3>2
  <2>. QED  BY <2>1 DEF Differs
<1>8. PICK report : report = Report(n, expected)
  OBVIOUS
<1>9. report # "differs"
  BY <1>7, <1>8 DEF Report
<1>10. /\ entered' = Merge(expected) \/ entered' = entered
       /\ mirror' = [seen |-> NoSnapshot, report |-> report]
  BY <1>2, <1>5, <1>8 DEF MirrorExits
<1>11. JournalInv'
  <2>1. CASE entered' = Merge(expected)
    <3>1. \A id \in DOMAIN expected : /\ id[2] \in 1 .. Len(booked)
                                      /\ id \in DOMAIN PostedAs(id[2])
                                      /\ expected[id] = PostedAs(id[2])[id]
      BY <1>4, <1>6
    <3>. QED  BY <1>1, <2>1, <3>1, MergeKeeps
  <2>2. CASE entered' = entered
    <3>1. \A i : PostedAs(i)' = PostedAs(i)
      BY <1>1 DEF PostedAs
    <3>. QED  BY <1>1, <2>2, <3>1 DEF JournalInv
  <2>. QED  BY <1>10, <2>1, <2>2
<1>12. TablesInv'
  BY <1>1 DEF TablesInv, Follows, Costed, CostOf
<1>13. MirrorInv'
  BY <1>9, <1>10 DEF MirrorInv
<1>. QED  BY <1>11, <1>12, <1>13 DEF BooksInv

\* Every step.
LEMMA BooksStep ==
  BooksInv /\ [BooksNext]_booksVars => BooksInv'
<1>. SUFFICES ASSUME BooksInv, [BooksNext]_booksVars PROVE BooksInv'
  OBVIOUS
<1>1. CASE UNCHANGED booksVars
  <2>1. UNCHANGED <<margined, booked, holding, entered, mirror>>
    BY <1>1 DEF booksVars
  <2>2. \A i : PostedAs(i)' = PostedAs(i)
    BY <2>1 DEF PostedAs
  <2>. QED  BY <2>1, <2>2
            DEF BooksInv, TablesInv, Follows, Costed, CostOf, JournalInv, MirrorInv
<1>2. CASE ReadLedger
  BY <1>2, ReadKeeps
<1>3. CASE MirrorExits
  BY <1>3, MirrorKeeps
<1>4. ASSUME NEW i \in DOMAIN booked, PostFill(i) PROVE BooksInv'
  BY <1>4, PostKeeps
<1>5. ASSUME NEW price \in UnitPrices, ExitFills(price) PROVE BooksInv'
  <2>1. price \in Nat
    BY BooksAssumption
  <2>2. PICK lots \in Int : lots = -holding.lots /\ lots # 0
    <3>1. holding.lots \in Nat /\ holding.lots > 0
      BY <1>5 DEF ExitFills, BooksInv, TablesInv, Holdings
    <3>. QED  BY <3>1
  <2>3. PICK strategy \in BOOLEAN : strategy = FALSE
    OBVIOUS
  <2>4. Commit(lots, price, strategy) /\ UNCHANGED <<margined, entered, mirror>>
    BY <1>5, <2>2, <2>3 DEF ExitFills
  <2>5. UNCHANGED <<margined, entered>> /\ ~strategy /\ mirror' = mirror
    BY <2>3, <2>4
  <2>6. \/ ~strategy /\ mirror' = mirror
        \/ mirror.seen = NoSnapshot /\ mirror' = [mirror EXCEPT !.report = "none"]
    BY <2>5
  <2>7. UNCHANGED <<margined, entered>> /\ lots # 0
    BY <2>2, <2>5
  <2>8. Commit(lots, price, strategy)
    BY <2>4
  <2>. QED  BY <2>1, <2>6, <2>7, <2>8, CommitPreserves
<1>6. ASSUME NEW price \in UnitPrices, NEW lots \in Int, lots # 0, StrategyFills(lots, price)
      PROVE  BooksInv'
  <2>1. price \in Nat
    BY BooksAssumption
  <2>2. PICK strategy \in BOOLEAN : strategy = TRUE
    OBVIOUS
  <2>3. Commit(lots, price, strategy) /\ UNCHANGED <<margined, entered>>
    BY <1>6, <2>2 DEF StrategyFills
  <2>4. mirror.seen = NoSnapshot /\ mirror' = [mirror EXCEPT !.report = "none"]
    BY <1>6 DEF StrategyFills, Cleared, BooksInv, MirrorInv
  <2>5. \/ ~strategy /\ mirror' = mirror
        \/ mirror.seen = NoSnapshot /\ mirror' = [mirror EXCEPT !.report = "none"]
    BY <2>4
  <2>6. UNCHANGED <<margined, entered>> /\ lots # 0
    BY <1>6, <2>3
  <2>7. Commit(lots, price, strategy)
    BY <2>3
  <2>. QED  BY <2>1, <2>5, <2>6, <2>7, CommitPreserves
<1>7. ASSUME NEW price \in UnitPrices, NEW units \in 1 .. MaxUnits,
             StrategyFills(units, price) \/ StrategyFills(-units, price)
      PROVE  BooksInv'
  <2>1. units \in Int /\ -units \in Int /\ units # 0 /\ -units # 0
    BY BooksAssumption
  <2>. QED  BY <1>6, <1>7, <2>1
<1>. QED  BY <1>1, <1>2, <1>3, <1>4, <1>5, <1>7 DEF BooksNext


\* The inductive invariant holds in every state: the tables are what the fills say, and the
\* journal holds nothing but the postings that their receipts give.
LEMMA BooksInvariance ==
  BooksSpec => []BooksInv
<1>. QED  BY BooksStart, BooksStep, PTL DEF BooksSpec

-----------------------------------------------------------------------------
(* The balances.                                                           *)

\* With every fill posted, a balance is the sum of what the fills mean to it.
LEMMA BalanceIs ==
  ASSUME BooksInv, AllAccounted, NEW code \in MoneyCodes
  PROVE  Balance(code) = Total(margined, booked, Len(booked), code)
<1>1. TablesInv /\ JournalInv
  BY DEF BooksInv
<1>2. PICK n, m, given : n = Len(booked) /\ m = margined /\ given = booked
  OBVIOUS
<1>3. n \in Nat /\ m \in BOOLEAN /\ \A i \in 1 .. n : given[i] \in BookedFills
  BY <1>1, <1>2, BookedFields DEF TablesInv
<1>4. PICK S : S = DOMAIN entered
  OBVIOUS
<1>. DEFINE g == [id \in S |-> Posted(entered[id], code)]
            P(i) == FillEntries(m, given[i], i, given[i].prior)
            Ids(i) == {x \in S : x[2] = i}
<1>5. \A i : P(i) = PostedAs(i) /\ P(i) = Transactions(i, booked[i].prior)
  BY <1>2, TransactionsAre DEF PostedAs
<1>6. \A x \in S : x[2] \in 1 .. n /\ x \in DOMAIN P(x[2]) /\ entered[x] = P(x[2])[x]
  BY <1>1, <1>2, <1>4, <1>5 DEF JournalInv
<1>7. \A i \in 1 .. n : DOMAIN P(i) \subseteq S
  <2>1. DOMAIN booked = 1 .. n
    BY <1>1, <1>2, BookedFields
  <2>. HIDE DEF P
  <2>. QED  BY <1>4, <1>5, <2>1 DEF AllAccounted, Accounted
<1>8. \A i : \A x \in DOMAIN P(i) : x[2] = i /\ x \in Kinds \X {i}
  BY IdsOfFill
<1>9. \A i \in 1 .. n : /\ IsFiniteSet(DOMAIN P(i))
                        /\ SumOf([id \in DOMAIN P(i) |-> Posted(P(i)[id], code)], DOMAIN P(i))
                             = Effect(m, given[i], code)
                        /\ \A id \in DOMAIN P(i) : Posted(P(i)[id], code) \in Int
  BY <1>3, PostedFill
<1>. HIDE DEF P
<1>10. IsFiniteSet(S)
  <2>1. IsFiniteSet(Kinds)
    <3>1. IsFiniteSet({"trade"} \cup {"margin"})
      BY FS_Singleton, FS_AddElement
    <3>2. IsFiniteSet({"trade"} \cup {"margin"} \cup {"pnl"} \cup {"cost"})
      BY <3>1, FS_AddElement
    <3>3. Kinds = {"trade"} \cup {"margin"} \cup {"pnl"} \cup {"cost"}
      BY DEF Kinds
    <3>. QED  BY <3>2, <3>3
  <2>2. IsFiniteSet(1 .. n)
    <3>1. 1 \in Int /\ n \in Int
      BY <1>3
    <3>. QED  BY <3>1, FS_Interval
  <2>3. IsFiniteSet(Kinds \X (1 .. n))
    BY <2>1, <2>2, FS_Product
  <2>4. S \in SUBSET (Kinds \X (1 .. n))
    BY <1>6, <1>8
  <2>. QED  BY <2>3, <2>4, FS_Subset
<1>11. \A x \in S : g[x] = Posted(P(x[2])[x], code) /\ g[x] \in Int
  BY <1>6, <1>9
<1>12. Balance(code) = SumOf(g, S)
  BY <1>4 DEF Balance
<1>. HIDE DEF g
<1>13. SumOf(g, S) = SumOf([i \in 1 .. n |-> SumOf(g, Ids(i))], 1 .. n)
  BY <1>3, <1>6, <1>10, <1>11, SumByFill
<1>14. ASSUME NEW i \in 1 .. n PROVE SumOf(g, Ids(i)) = Effect(m, given[i], code)
  <2>. DEFINE D == DOMAIN P(i)
              h == [id \in D |-> Posted(P(i)[id], code)]
  <2>1. Ids(i) = D
    BY <1>6, <1>7, <1>8
  <2>2. \A x \in D : h[x] \in Int /\ h[x] = g[x]
    BY <1>7, <1>8, <1>9, <1>11
  <2>3. SumOf(h, D) = Effect(m, given[i], code) /\ IsFiniteSet(D)
    BY <1>9
  <2>. HIDE DEF D, h, Ids
  <2>4. SumOf(h, D) = SumOf(g, D)
    BY <2>2, <2>3, SumSame
  <2>. QED  BY <2>1, <2>3, <2>4
<1>. DEFINE f == [i \in 1 .. n |-> SumOf(g, Ids(i))]
            e == [i \in 1 .. n |-> Effect(m, given[i], code)]
<1>15. \A i \in 1 .. n : f[i] \in Int /\ f[i] = e[i]
  <2>1. \A i \in 1 .. n : Effect(m, given[i], code) \in Int
    BY <1>3, EffectInt
  <2>. HIDE DEF Ids
  <2>. QED  BY <1>14, <2>1
<1>16. IsFiniteSet(1 .. n)
  <2>1. 1 \in Int /\ n \in Int
    BY <1>3
  <2>. QED  BY <2>1, FS_Interval
<1>17. SumOf(f, 1 .. n) = SumOf(e, 1 .. n)
  <2>. HIDE DEF f, e
  <2>. QED  BY <1>15, <1>16, SumSame
<1>18. SumOf(e, 1 .. n) = Total(m, given, n, code)
  BY DEF Total
<1>. HIDE DEF e
<1>. QED  BY <1>2, <1>12, <1>13, <1>17, <1>18

\* With every fill posted, cash and margin of the journal are the ledger's.
LEMMA MoneyFollows ==
  ASSUME BooksInv, AllAccounted
  PROVE  MoneyAgrees
<1>1. /\ Balance("CASH_AVAILABLE") = Total(margined, booked, Len(booked), "CASH_AVAILABLE")
      /\ Balance("CASH_RESERVED_MARGIN")
           = Total(margined, booked, Len(booked), "CASH_RESERVED_MARGIN")
  BY BalanceIs DEF MoneyCodes
<1>. QED  BY <1>1 DEF BooksInv, TablesInv, MoneyAgrees

\* At exact averages the journal's cost is the ledger's too.
LEMMA CostFollows ==
  ASSUME BooksInv, AllAccounted, WholeAverages
  PROVE  CostAgrees
<1>1. TablesInv
  BY DEF BooksInv
<1>2. PICK R : Follows(R) /\ Costed(R)
  BY <1>1 DEF TablesInv
<1>3. PICK n : n = Len(booked)
  OBVIOUS
<1>4. n \in Nat /\ DOMAIN booked = 1 .. n
  BY <1>1, <1>3, BookedFields
<1>5. PICK r : r = Replay(n)
  OBVIOUS
<1>6. \A i \in 0 .. n : r[i] = R[i]
  <2>1. n \in 0 .. Len(booked)
    BY <1>3, <1>4
  <2>. QED  BY <1>1, <1>2, <1>5, <2>1, ReplayOfReceipts
<1>7. Exact(R, booked, n)
  <2>. SUFFICES ASSUME NEW i \in 1 .. n, booked[i].lots > 0
                PROVE  R[i].average * R[i].lots
                         = R[i - 1].average * R[i - 1].lots + booked[i].price * booked[i].lots
    BY DEF Exact
  <2>1. r[i].average * r[i].lots
          = r[i - 1].average * r[i - 1].lots + booked[i].price * booked[i].lots
    BY <1>3, <1>4, <1>5 DEF WholeAverages
  <2>2. i \in 0 .. n /\ i - 1 \in 0 .. n
    BY <1>4
  <2>3. r[i] = R[i] /\ r[i - 1] = R[i - 1]
    BY <1>6, <2>2
  <2>. QED  BY <2>1, <2>3
<1>8. Total(margined, booked, Len(booked), "SECURITIES_COST") = CostOf(holding)
  BY <1>2, <1>3, <1>7 DEF Costed
<1>9. Balance("SECURITIES_COST") = Total(margined, booked, Len(booked), "SECURITIES_COST")
  BY BalanceIs DEF MoneyCodes
<1>. QED  BY <1>8, <1>9 DEF CostAgrees, CostOf

\* Whatever the prices, the mirror of protective exits never meets a posting of this system
\* that its replay of the ledger refuses, and once every fill is posted the balances of the
\* journal's cash and reserved-margin accounts are the ledger's, whoever posted the fills,
\* when and in which order.
THEOREM MoneyKept == BooksSpec => [](mirror.report # "differs" /\ (AllAccounted => MoneyAgrees))
<1>1. BooksInv => mirror.report # "differs" /\ (AllAccounted => MoneyAgrees)
  BY MoneyFollows DEF BooksInv, MirrorInv
<1>. QED  BY <1>1, BooksInvariance, PTL

\* As long as the ledger's averages are quotients without a remainder, the journal's cost of
\* securities is the cost of the ledger's position as well: the mirror that posts from its
\* replay and the coordinator that posts from receipts keep one set of books.
THEOREM BooksAgree == BooksSpec => [](WholeAverages => BooksFollowLedger)
<1>1. BooksInv => (WholeAverages => BooksFollowLedger)
  BY MoneyFollows, CostFollows DEF BooksInv, MirrorInv, BooksFollowLedger
<1>. QED  BY <1>1, BooksInvariance, PTL

=============================================================================
