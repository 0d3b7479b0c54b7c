----------------------------- MODULE TradingBooks -----------------------------
(***************************************************************************)
(* Two accounts of one money: the paper ledger, which keeps cash, the      *)
(* average price and the reserved margin of a holding as it fills, and the *)
(* double-entry journal (accounting/journal.py, trading.py), in which the  *)
(* coordinator posts its own fills from the cost basis of their receipts   *)
(* (execution/institutional.py, _post_accounting) and the mirror of the    *)
(* protective exits posts theirs from a replay of the ledger               *)
(* (accounting/protective.py).  Each posting has an id of its own; the     *)
(* mirror refuses a recorded one that its replay does not expect.          *)
(*                                                                         *)
(* One tenant, one currency and one instrument, a security or a margined   *)
(* contract.  Amounts are in units so fine that averages are whole.  The   *)
(* hash of a payload, tax codes and instrument identities are left out.    *)
(***************************************************************************)
EXTENDS Integers, Sequences, FiniteSets, FiniteSums

CONSTANTS
  Capital,
  UnitPrices,    \* a lot's prices
  UnitMargin,    \* margin of a contract
  UnitFee,       \* cash charges of a fill
  MaxUnits,      \* bound: lots held
  LastBooked     \* bound: fills

ASSUME BooksAssumption ==
  /\ {Capital, UnitMargin, UnitFee} \subseteq Nat \ {0}
  /\ UnitPrices \subseteq Nat \ {0}
  /\ {MaxUnits, LastBooked} \subseteq Nat

VARIABLES
  margined,      \* whether the instrument is a contract
  booked,        \* paper_ledger with each fill's receipt
  holding,       \* paper_accounts, paper_positions and the reserved margin
  entered,       \* trading_transactions: the postings of each id
  mirror         \* the exits' mirror: its snapshot and its last report

booksVars == <<margined, booked, holding, entered, mirror>>

NoSnapshot == -1

BooksInit ==
  /\ margined \in BOOLEAN
  /\ booked = << >>
  /\ holding = [cash |-> Capital, lots |-> 0, average |-> 0, reserved |-> 0]
  /\ entered = << >>
  /\ mirror = [seen |-> NoSnapshot, report |-> "none"]

-----------------------------------------------------------------------------
(* A committed fill of the paper ledger.                                   *)

MarginChange(lots) ==
  IF ~margined THEN 0
  ELSE IF lots > 0 THEN UnitMargin * lots
  ELSE (holding.reserved * lots) \div holding.lots

Averaged(a, lots, price) == (a.average * a.lots + price * lots) \div (a.lots + lots)

\* The cash that a fill moves apart from its charges.
CashMoved(lots, price) ==
  IF ~margined THEN -(price * lots)
  ELSE (IF lots < 0 THEN (holding.average - price) * lots ELSE 0) - MarginChange(lots)

Commit(lots, price, strategy) ==
  LET held == holding.lots + lots
  IN /\ Len(booked) < LastBooked
     /\ held \in 0..MaxUnits
     /\ lots > 0 => holding.cash + CashMoved(lots, price) >= UnitFee
     /\ booked' = Append(booked,
          [lots |-> lots, price |-> price, margin |-> MarginChange(lots),
           prior |-> holding.average, strategy |-> strategy])
     /\ holding' = [cash |-> holding.cash + CashMoved(lots, price) - UnitFee,
                    lots |-> held,
                    average |-> IF lots > 0 THEN Averaged(holding, lots, price)
                                ELSE IF held > 0 THEN holding.average ELSE 0,
                    reserved |-> holding.reserved + MarginChange(lots)]

-----------------------------------------------------------------------------
(* TradingAccounting: the postings of a fill whose holding had this basis. *)
(* A posting is an account and its debit, negative for a credit.           *)

Moves(from, to, amount) == {<<to, amount>>, <<from, -amount>>}

TradePostings(f, basis) ==
  IF f.lots > 0 THEN Moves("CASH_AVAILABLE", "SECURITIES_COST", f.price * f.lots)
  ELSE {p \in {<<"CASH_AVAILABLE", -(f.price * f.lots)>>,
               <<"SECURITIES_COST", basis * f.lots>>,
               <<"REALIZED_PNL", (f.price - basis) * f.lots>>} : p[2] # 0}

Profit(f, basis) == (basis - f.price) * f.lots

\* The transactions of fill i, by id, from its cost basis.
Transactions(i, basis) ==
  LET f == booked[i]
      kinds == IF ~margined THEN {"trade"}
               ELSE {"margin"} \cup IF f.lots < 0 /\ Profit(f, basis) # 0 THEN {"pnl"} ELSE {}
  IN [id \in (kinds \cup {"cost"}) \X {i} |->
        CASE id[1] = "trade"  -> TradePostings(f, basis)
          [] id[1] = "margin" -> Moves("CASH_AVAILABLE", "CASH_RESERVED_MARGIN", f.margin)
          [] id[1] = "pnl"    -> Moves("REALIZED_PNL", "CASH_AVAILABLE", Profit(f, basis))
          [] id[1] = "cost"   -> Moves("CASH_AVAILABLE", "FEE_EXPENSE", UnitFee)]

Accounted(i) == DOMAIN Transactions(i, booked[i].prior) \subseteq DOMAIN entered

\* post: an id that is recorded with the same payload is not posted again.
Merge(new) ==
  [id \in DOMAIN entered \cup DOMAIN new |->
     IF id \in DOMAIN entered THEN entered[id] ELSE new[id]]

Posted(postings, code) ==
  SumOf([p \in postings |-> IF p[1] = code THEN p[2] ELSE 0], postings)

Balance(code) ==
  SumOf([id \in DOMAIN entered |-> Posted(entered[id], code)], DOMAIN entered)

-----------------------------------------------------------------------------
(* The coordinator.  It submits after a matching report of the mirror, and *)
(* not while a fill of its own is unaccounted for; exits keep committing.  *)

Cleared ==
  /\ mirror.report \in {"matched", "not_required"}
  /\ \A i \in DOMAIN booked : booked[i].strategy => Accounted(i)

StrategyFills(lots, price) ==
  /\ Cleared
  /\ Commit(lots, price, TRUE)
  /\ mirror' = [mirror EXCEPT !.report = "none"]
  /\ UNCHANGED <<margined, entered>>

\* Defect: the basis is that of the position when the fill is posted.
BasisNow(i) == holding.average

\* The average that the receipt of the fill kept.
Basis(i) == booked[i].prior

\* At once, or whenever reconcile_accounting is asked after a crash.
PostFill(i) ==
  /\ booked[i].strategy
  /\ ~Accounted(i)
  /\ entered' = Merge(Transactions(i, Basis(i)))
  /\ UNCHANGED <<margined, booked, holding, mirror>>

\* Protective exits and flattening sell the whole holding.
ExitFills(price) ==
  /\ holding.lots > 0
  /\ Commit(-holding.lots, price, FALSE)
  /\ UNCHANGED <<margined, entered, mirror>>

-----------------------------------------------------------------------------
(* ProtectiveExitAccounting.                                               *)

ReadLedger ==
  /\ mirror.seen = NoSnapshot
  /\ mirror' = [seen |-> Len(booked), report |-> "none"]
  /\ UNCHANGED <<margined, booked, holding, entered>>

\* Defect: a replay that lets a sale change the average.
ReaveragedReplay(n) ==
  LET r[i \in 0..n] ==
        IF i = 0 THEN [lots |-> 0, average |-> 0]
        ELSE LET old == r[i - 1]
                 held == old.lots + booked[i].lots
             IN [lots |-> held,
                 average |-> IF held = 0 THEN 0
                             ELSE (old.average * old.lots + booked[i].price * booked[i].lots)
                                    \div held]
  IN r

\* _batches: holding and average after each fill of the snapshot.
Replay(n) ==
  LET r[i \in 0..n] ==
        IF i = 0 THEN [lots |-> 0, average |-> 0]
        ELSE LET f == booked[i]
                 held == r[i - 1].lots + f.lots
             IN [lots |-> held,
                 average |-> IF f.lots > 0 THEN Averaged(r[i - 1], f.lots, f.price)
                             ELSE IF held > 0 THEN r[i - 1].average ELSE 0]
  IN r

\* What the replay expects the journal to hold.
Batches(n) ==
  LET r == Replay(n)
  IN [id \in UNION {DOMAIN Transactions(i, r[i - 1].average) : i \in 1..n} |->
        Transactions(id[2], r[id[2] - 1].average)[id]]

NotPosted(expected) == DOMAIN expected \ DOMAIN entered

\* A fill that the coordinator has not posted yet precedes the exits.
Unaccounted(expected) == \E id \in NotPosted(expected) : booked[id[2]].strategy

\* A recorded posting that the replay does not expect, or not so.
Differs(expected) ==
  \E id \in DOMAIN entered : id \notin DOMAIN expected \/ entered[id] # expected[id]

Report(n, expected) ==
  IF \A i \in 1..n : booked[i].strategy THEN "not_required"
  ELSE IF Differs(expected) THEN "differs"
  ELSE IF Unaccounted(expected) THEN "unaccounted"
  ELSE IF Len(booked) > n THEN "pending"
  ELSE "matched"

\* One transaction; the ledger is looked at again once it has committed.
MirrorExits ==
  LET n == mirror.seen
      expected == Batches(n)
      report == Report(n, expected)
  IN /\ n # NoSnapshot
     /\ entered' = IF report \in {"matched", "pending"} THEN Merge(expected) ELSE entered
     /\ mirror' = [seen |-> NoSnapshot, report |-> report]
     /\ UNCHANGED <<margined, booked, holding>>

BooksNext ==
  \/ ReadLedger \/ MirrorExits
  \/ \E i \in DOMAIN booked : PostFill(i)
  \/ \E price \in UnitPrices :
       \/ ExitFills(price)
       \/ \E units \in 1..MaxUnits : StrategyFills(units, price) \/ StrategyFills(-units, price)

BooksSpec == BooksInit /\ [][BooksNext]_booksVars

-----------------------------------------------------------------------------
(* Properties.                                                             *)

AllAccounted == \A i \in DOMAIN booked : Accounted(i)

\* The journal's cash and margin are the ledger's.
MoneyAgrees ==
  /\ Balance("CASH_AVAILABLE") = holding.cash - Capital
  /\ Balance("CASH_RESERVED_MARGIN") = holding.reserved

\* The amounts are fine enough: no purchase leaves a remainder in the average.
WholeAverages ==
  LET r == Replay(Len(booked))
  IN \A i \in DOMAIN booked :
       booked[i].lots > 0 =>
         r[i].average * r[i].lots
           = r[i - 1].average * r[i - 1].lots + booked[i].price * booked[i].lots

CostAgrees ==
  Balance("SECURITIES_COST") = IF margined THEN 0 ELSE holding.average * holding.lots

\* BooksFollowLedger: once every fill is posted, whoever posted it, when and in which order,
\* the double-entry balances are the ledger's own cash, margin and cost; and the mirror never
\* meets a posting of this system that its replay refuses, which would stop every later claim
\* (protective.py _reconcile, institutional.py _post_accounting_records).
BooksFollowLedger ==
  /\ mirror.report # "differs"
  /\ AllAccounted => MoneyAgrees /\ CostAgrees
=============================================================================
