----------------------------- MODULE MCRecovery -----------------------------
(***************************************************************************)
(* Recovery paths and records that share no state, checked side by side:   *)
(* of orders and programs, of the loss budget whose journal may be lost or *)
(* restored, of the socket of the quotes, a deposit beside a measurement,  *)
(* the double-entry books, the outcomes that decisions are credited with,  *)
(* the weekly policy and the renewed broker session.  part says which of   *)
(* them moves, and whether the paper path is reviewed or copied.           *)
(*                                                                         *)
(* Order a has three lots, and only its first trade also comes by callback.*)
(* Order b, of one lot, takes part only in part "pair", beside an order a  *)
(* that stays open after at most one trade; there the books stand still    *)
(* while they are read and nothing comes by callback.  Two entry programs  *)
(* have different losses per share; slices are named by program and        *)
(* sequence number.                                                        *)
(***************************************************************************)
EXTENDS BrokerLifecycle, Interruptions, SharedRisk,
        StreamSupervisor, CapitalContribution, DecisionOutcomes, WeeklySkill,
        SessionRenewal, TradingBooks

CONSTANTS a, b, policyA,
  Parts  \* the parts that are checked

VARIABLE part

MCLots == [o \in Orders |-> IF o = a THEN 3 ELSE 1]
MCPlaced == [o \in Orders |-> <<"at broker", o>>]

CallbacksUpTo(i) ==
  \A o \in Orders : \A f \in oms'[o].fills : f.from = "CALLBACK" => f.trade <= i

PairOnly ==
  /\ day' = 1
  /\ Cardinality(held') <= 1
  /\ market'[a].status \in {"NONE", "OPEN"} /\ market'[a].done <= 1
  /\ reading # << >> => brokerVars' = brokerVars /\ oms' = oms
  /\ CallbacksUpTo(0)

MCSlices == {<<1, 1>>, <<1, 2>>, <<2, 1>>}
MCProg == [s \in MCSlices |-> s[1]]
MCSequence == [s \in MCSlices |-> s[2]]
MCPerUnit == [p \in Programs |-> p]

UpOrNot == {0, 1}
UpAndDown == {-2, 0, 1}

orderVars == <<lifecycleVars, recoveryVars, operatorVars>>
moneyVars == <<vars, contributionVars, booksVars>>
learningVars == <<outcomeVars, weeklyVars>>
linkVars == <<streamVars, renewalVars>>
allVars == <<orderVars, moneyVars, learningVars, linkVars, part>>

MCInit ==
  /\ LifecycleInit /\ RecoveryInit /\ OperatorInit /\ Init /\ StreamInit
  /\ ContributionInit /\ BooksInit /\ OutcomesInit /\ WeeklyInit /\ RenewalInit
  /\ part \in Parts
  /\ part # "risk" => policy = policyA
  /\ part # "weekly" => display = NoReport
  /\ part # "books" => ~margined

MCOrders ==
  \/ /\ part \in {"oms", "pair", "journal"}
     /\ \/ BrokerNext
        \/ part # "journal" /\ OmsNext
        \/ part = "journal" /\ JournalNext
     /\ IF part = "pair" THEN PairOnly
        ELSE market'[b] = market[b] /\ CallbacksUpTo(1)
     /\ UNCHANGED <<recoveryVars, operatorVars>>
  \/ /\ part \in {"paper", "bundle"}
     /\ RecoveryNext
     /\ IF part = "paper" THEN bundle' = bundle ELSE reviewed' = {}
     /\ UNCHANGED <<lifecycleVars, operatorVars>>
  \/ part = "operator" /\ OperatorNext /\ UNCHANGED <<lifecycleVars, recoveryVars>>

MCMoney ==
  \/ part = "risk" /\ Next /\ UNCHANGED <<contributionVars, booksVars>>
  \/ part = "deposit" /\ ContributionNext /\ UNCHANGED <<vars, booksVars>>
  \/ part = "books" /\ BooksNext /\ UNCHANGED <<vars, contributionVars>>

MCLearning ==
  \/ part = "outcomes" /\ OutcomesNext /\ UNCHANGED weeklyVars
  \/ part = "weekly" /\ WeeklyNext /\ UNCHANGED outcomeVars

MCLinks ==
  \/ part = "socket" /\ StreamNext /\ UNCHANGED renewalVars
  \/ part = "session" /\ RenewalNext /\ UNCHANGED streamVars

MCNext ==
  \/ MCOrders /\ UNCHANGED <<moneyVars, learningVars, linkVars, part>>
  \/ MCMoney /\ UNCHANGED <<orderVars, learningVars, linkVars, part>>
  \/ MCLearning /\ UNCHANGED <<orderVars, moneyVars, linkVars, part>>
  \/ MCLinks /\ UNCHANGED <<orderVars, moneyVars, learningVars, part>>

MCSpec == MCInit /\ [][MCNext]_allVars
=============================================================================
