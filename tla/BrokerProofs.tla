---------------------------- MODULE BrokerProofs ----------------------------
(***************************************************************************)
(* Theorems about BrokerLifecycle.tla: what the OMS and the capture        *)
(* journal hold agrees with what the broker did, and no trade counts       *)
(* twice, for any orders, quantities, captures, broker days and journal    *)
(* length.                                                                 *)
(***************************************************************************)
EXTENDS BrokerLifecycle, FiniteSumTheorems, SequenceTheorems

-----------------------------------------------------------------------------
(* The broker's records: the rows.                                         *)

BrokerStatuses == {"NONE", "OPEN"} \cup BrokerTerminal
BookRow == [status : BrokerStatuses, filled : Nat]
OrderBook == [Orders -> BookRow]
TradeBook == [Orders -> Nat]
Capture ==
  [number : Nat, day : Nat, stable : BOOLEAN, orders : OrderBook, trades : TradeBook]
OmsFill == [from : {"CALLBACK", "KITE"}, trade : Nat]
OmsRow ==
  [state : OrderStates, broker : BrokerIds \cup {NoId}, evidence : BrokerIds \cup {NoId},
   fills : SUBSET OmsFill]

\* A reading of capture_kite: the order book first and third, the trade book otherwise.
OrdersRead == [at : Nat, rows : OrderBook]
TradesRead == [at : Nat, rows : TradeBook]

BrokerTyped ==
  /\ market \in [Orders -> [status : BrokerStatuses, done : Nat]]
  /\ book \in OrderBook
  /\ shown \in TradeBook
  /\ day \in Nat
  /\ reading \in Seq(OrdersRead \cup TradesRead)
  /\ Len(reading) <= 4
  /\ \A i \in 1..Len(reading) :
       reading[i] \in IF i \in {1, 3} THEN OrdersRead ELSE TradesRead
  /\ held \subseteq Capture
  /\ taken \in Nat
  /\ oms \in [Orders -> OmsRow]
  /\ \A o \in Orders : IsFiniteSet(oms[o].fills)
  /\ journal \in Seq(Capture)

\* A row of the order book that says an order is over says what the exchange did.
RowTrue(done, row) ==
  row.status \in BrokerTerminal => done.status = row.status /\ done.done = row.filled

RowsTrue ==
  \A o \in Orders :
    /\ RowTrue(market[o], book[o])
    /\ \A i \in 1..Len(reading) : i \in {1, 3} => RowTrue(market[o], reading[i].rows[o])
    /\ \A c \in held : RowTrue(market[o], c.orders[o])

\* An order of the OMS knows no broker order but its own.
OwnBrokerId == \A o \in Orders : oms[o].broker \in {NoId, Placed[o]}

RecordsInv == BrokerTyped /\ RowsTrue /\ OwnBrokerId /\ ClosedWithBroker

-----------------------------------------------------------------------------
(* What one observation adds to one order.                                 *)

\* The trades of fills F recorded under KITE ids.
TradesOf(F) == {f.trade : f \in {g \in F : g.from = "KITE"}}
FillsOf(U) == {[from |-> "KITE", trade |-> i] : i \in U}

\* No more trades than fills; as many only if every fill came from the broker's trade book.
LEMMA TradesOfFills ==
  ASSUME NEW F \in SUBSET OmsFill, IsFiniteSet(F)
  PROVE  /\ IsFiniteSet(TradesOf(F)) /\ Cardinality(TradesOf(F)) \in Nat
         /\ Cardinality(F) \in Nat
         /\ Cardinality(TradesOf(F)) <= Cardinality(F)
         /\ Cardinality(TradesOf(F)) = Cardinality(F) => \A g \in F : g.from = "KITE"
<1>. DEFINE K == {g \in F : g.from = "KITE"}
            t == [g \in K |-> g.trade]
<1>1. K \subseteq F /\ IsFiniteSet(K)
  BY FS_Subset
<1>2. Cardinality(K) <= Cardinality(F) /\ Cardinality(F) \in Nat /\ Cardinality(K) \in Nat
      /\ (Cardinality(K) = Cardinality(F) => K = F)
  <2>. HIDE DEF K
  <2>. QED  BY <1>1, FS_Subset, FS_CardinalityType
<1>3. t \in Surjection(K, TradesOf(F))
  BY DEF Surjection, TradesOf
<1>4. IsFiniteSet(TradesOf(F)) /\ Cardinality(TradesOf(F)) <= Cardinality(K)
  <2>. HIDE DEF K, t
  <2>. QED  BY <1>1, <1>3, FS_Surjection
<1>5. Cardinality(TradesOf(F)) \in Nat
  BY <1>4, FS_CardinalityType
<1>6. K = F => \A g \in F : g.from = "KITE"
  OBVIOUS
<1>. QED
  <2>. HIDE DEF K
  <2>. QED  BY <1>2, <1>4, <1>5, <1>6

\* As many fills as trades.
LEMMA FillsOfTrades ==
  ASSUME NEW U, IsFiniteSet(U)
  PROVE  IsFiniteSet(FillsOf(U)) /\ Cardinality(FillsOf(U)) = Cardinality(U)
<1>. DEFINE h == [i \in U |-> [from |-> "KITE", trade |-> i]]
<1>1. h \in Bijection(U, FillsOf(U))
  <2>1. \A i \in U : h[i] = [from |-> "KITE", trade |-> i] /\ h[i].trade = i
    OBVIOUS
  <2>2. h \in [U -> FillsOf(U)]
    BY DEF FillsOf
  <2>3. \A i, j \in U : h[i] = h[j] => i = j
    <3>. HIDE DEF h
    <3>. QED  BY <2>1
  <2>4. \A f \in FillsOf(U) : \E i \in U : h[i] = f
    BY DEF FillsOf
  <2>. HIDE DEF h
  <2>. QED  BY <2>2, <2>3, <2>4 DEF Bijection, Injection, Surjection, IsInjective
<1>2. ExistsBijection(U, FillsOf(U))
  BY <1>1 DEF ExistsBijection
<1>. QED  BY <1>2, FS_Bijection

\* New executions explain the difference exactly: then nothing of the order was recorded
\* under another id, and all of the broker's trades are counted afterwards.
LEMMA ExactDifference ==
  ASSUME NEW F \in SUBSET OmsFill, IsFiniteSet(F), NEW n \in Nat,
         TradesOf(F) \subseteq 1..n,
         NEW U, U = (1..n) \ TradesOf(F), Cardinality(U) = n - Cardinality(F)
  PROVE  /\ \A g \in F : g.from = "KITE" /\ g.trade \notin U
         /\ IsFiniteSet(F \cup FillsOf(U))
         /\ Cardinality(F \cup FillsOf(U)) = n
         /\ IsFiniteSet(U)
<1>1. IsFiniteSet(1..n) /\ Cardinality(1..n) = n
  <2>1. IsFiniteSet(1..n) /\ Cardinality(1..n) = IF 1 > n THEN 0 ELSE n - 1 + 1
    BY FS_Interval
  <2>. QED  BY <2>1
<1>2. /\ IsFiniteSet(TradesOf(F)) /\ Cardinality(TradesOf(F)) \in Nat /\ Cardinality(F) \in Nat
      /\ Cardinality(TradesOf(F)) = Cardinality(F) => \A g \in F : g.from = "KITE"
  BY TradesOfFills
<1>3. IsFiniteSet(U) /\ Cardinality(U) = n - Cardinality(TradesOf(F))
  <2>1. (1..n) \cap TradesOf(F) = TradesOf(F)
    OBVIOUS
  <2>2. /\ IsFiniteSet((1..n) \ TradesOf(F))
        /\ Cardinality((1..n) \ TradesOf(F))
             = Cardinality(1..n) - Cardinality((1..n) \cap TradesOf(F))
    BY <1>1, FS_Difference
  <2>. QED  BY <1>1, <2>1, <2>2
<1>4. Cardinality(TradesOf(F)) = Cardinality(F)
  BY <1>2, <1>3
<1>5. \A g \in F : g.from = "KITE" /\ g.trade \notin U
  <2>1. \A g \in F : g.from = "KITE"
    BY <1>2, <1>4
  <2>. QED  BY <2>1 DEF TradesOf
<1>6. IsFiniteSet(FillsOf(U)) /\ Cardinality(FillsOf(U)) = Cardinality(U)
  BY <1>3, FillsOfTrades
<1>7. F \cap FillsOf(U) = {}
  BY <1>5 DEF FillsOf
<1>8. /\ IsFiniteSet(F \cup FillsOf(U))
      /\ Cardinality(F \cup FillsOf(U)) = Cardinality(F) + Cardinality(FillsOf(U))
  <2>1. Cardinality(F \cap FillsOf(U)) = 0
    BY <1>7, FS_EmptySet
  <2>2. Cardinality(F \cup FillsOf(U)) =
          Cardinality(F) + Cardinality(FillsOf(U)) - Cardinality(F \cap FillsOf(U))
        /\ IsFiniteSet(F \cup FillsOf(U))
    BY <1>6, FS_Union
  <2>3. Cardinality(FillsOf(U)) \in Nat
    BY <1>6, FS_CardinalityType
  <2>. QED  BY <1>2, <2>1, <2>2, <2>3
<1>. QED  BY <1>2, <1>3, <1>5, <1>6, <1>8

-----------------------------------------------------------------------------
(* An observation.                                                         *)

\* The row an observation is applied to is the order's own (Refusal compares the
\* requested quantity; the broker gives every order an id of its own).
LEMMA OwnRow ==
  ASSUME OwnBrokerId, NEW c, NEW s \in Bindings, NEW o \in Matched(c, s),
         ~Refusal(c, s, o, BrokerRow(c, Bound(o, s)))
  PROVE  BrokerRow(c, Bound(o, s)) = o
<1>. PICK p : p = BrokerRow(c, Bound(o, s))
  OBVIOUS
<1>1. o \in Orders /\ \E x \in Orders : Placed[x] = Bound(o, s)
  BY DEF Matched, Candidates, Observed
<1>2. p \in Orders /\ Placed[p] = Bound(o, s)
  BY <1>1 DEF BrokerRow
<1>3. CASE oms[o].broker # NoId
  <2>1. Bound(o, s) = Placed[o]
    BY <1>1, <1>3 DEF Bound, OwnBrokerId
  <2>. QED  BY <1>1, <1>2, <2>1, PlacedAssumption
<1>4. CASE oms[o].broker = NoId
  <2>1. s[o] = Placed[p]
    BY <1>2, <1>4 DEF Bound
  <2>2. o = p \/ Lots[o] # Lots[p]
    BY <1>1, <1>2, <2>1 DEF Bindings
  <2>3. Lots[o] = Lots[p]
    BY DEF Refusal
  <2>. QED  BY <2>2, <2>3
<1>. QED  BY <1>3, <1>4

\* What an order is after its row was applied: bound to its broker order, with every trade
\* of the capture counted once, and closed only with the broker.
LEMMA AppliedRow ==
  ASSUME BrokerTyped, ClosedWithBroker, NEW c \in Capture, NEW o \in Orders,
         RowTrue(market[o], c.orders[o]), c.orders[o].filled = c.trades[o],
         KnownTrades(o) \subseteq 1..c.trades[o], LineageExact(c, o, o)
  PROVE  /\ Applied(c, o, o) \in OmsRow
         /\ IsFiniteSet(Applied(c, o, o).fills)
         /\ Applied(c, o, o).broker = Placed[o]
         /\ Applied(c, o, o).state \in {"CANCELLED", "REJECTED"} =>
              /\ market[o].status = Applied(c, o, o).state
              /\ market[o].done = Cardinality(Applied(c, o, o).fills)
         /\ \A f \in Applied(c, o, o).fills \ oms[o].fills :
              \A g \in oms[o].fills : g.trade # f.trade
<1>. PICK row : row = oms[o]
  OBVIOUS
<1>. PICK U : U = Unseen(c, o, o)
  OBVIOUS
<1>1. /\ row \in OmsRow /\ IsFiniteSet(row.fills) /\ row.fills \in SUBSET OmsFill
      /\ row.state \in OrderStates
      /\ row = [state |-> row.state, broker |-> row.broker, evidence |-> row.evidence,
                fills |-> row.fills]
  BY DEF BrokerTyped, OmsRow
<1>2. /\ c.orders[o] \in BookRow /\ c.orders[o].filled \in Nat /\ c.trades[o] \in Nat
      /\ c.orders[o].status \in BrokerStatuses
  BY DEF Capture, OrderBook, TradeBook, BookRow
<1>3. KnownTrades(o) = TradesOf(row.fills)
  BY DEF KnownTrades, TradesOf
<1>4. PICK F : F = row.fills
  OBVIOUS
<1>5. PICK n : n = c.trades[o]
  OBVIOUS
<1>6. /\ IsFiniteSet(F \cup FillsOf(U)) /\ Cardinality(F \cup FillsOf(U)) = n
      /\ U \subseteq Nat
      /\ \A g \in F : g.trade \notin U
  <2>1. CASE n = Cardinality(F)
    <3>1. U = {} /\ FillsOf(U) = {}
      BY <1>4, <1>5, <2>1 DEF Unseen, Filled, FillsOf
    <3>. QED  BY <1>1, <1>4, <2>1, <3>1
  <2>2. CASE n # Cardinality(F)
    <3>1. U = (1..n) \ TradesOf(F) /\ Cardinality(U) = n - Cardinality(F)
      BY <1>3, <1>4, <1>5, <2>2 DEF Unseen, Filled, LineageExact
    <3>2. TradesOf(F) \subseteq 1..n /\ n \in Nat /\ F \in SUBSET OmsFill /\ IsFiniteSet(F)
      BY <1>1, <1>2, <1>3, <1>4, <1>5
    <3>3. /\ \A g \in F : g.from = "KITE" /\ g.trade \notin U
          /\ IsFiniteSet(F \cup FillsOf(U))
          /\ Cardinality(F \cup FillsOf(U)) = n
      BY <3>1, <3>2, ExactDifference
    <3>4. U \subseteq Nat
      BY <3>1, <3>2
    <3>. QED  BY <3>3, <3>4
  <2>. QED  BY <2>1, <2>2
<1>7. PICK start : start = IF row.state \in {"RISK_APPROVED", "SUBMISSION_UNCERTAIN"}
                           THEN "SUBMITTED" ELSE row.state
  OBVIOUS
<1>8. PICK full : full = IF Filled(row) + Cardinality(FillsOf(U)) = Lots[o]
                         THEN "FILLED" ELSE "PARTIALLY_FILLED"
  OBVIOUS
<1>9. PICK counted : counted = IF FillsOf(U) = {} THEN start ELSE full
  OBVIOUS
<1>10. PICK after : after = IF /\ c.orders[o].status \in {"CANCELLED", "REJECTED"}
                               /\ counted \notin Terminal
                            THEN c.orders[o].status ELSE counted
  OBVIOUS
<1>11. PICK b : b = Placed[o]
  OBVIOUS
<1>12. PICK new : new = [state |-> after, broker |-> b, evidence |-> b,
                         fills |-> F \cup FillsOf(U)]
  OBVIOUS
<1>13. Applied(c, o, o) = new
  <2>1. PICK known : known = [row EXCEPT
                     !.evidence = Placed[o], !.broker = Placed[o],
                     !.state = IF @ \in {"RISK_APPROVED", "SUBMISSION_UNCERTAIN"}
                               THEN "SUBMITTED" ELSE @]
    OBVIOUS
  <2>2. known = [state |-> start, broker |-> b, evidence |-> b, fills |-> F]
    BY <1>1, <1>4, <1>7, <1>11, <2>1
  <2>3. PICK filled : filled = IF FillsOf(U) = {} THEN known
                  ELSE [known EXCEPT
                          !.fills = @ \cup FillsOf(U),
                          !.state = IF Filled(row) + Cardinality(FillsOf(U)) = Lots[o]
                                    THEN "FILLED" ELSE "PARTIALLY_FILLED"]
    OBVIOUS
  <2>4. filled = [state |-> counted, broker |-> b, evidence |-> b,
                  fills |-> F \cup FillsOf(U)]
    BY <1>8, <1>9, <2>2, <2>3
  <2>5. new = IF /\ c.orders[o].status \in {"CANCELLED", "REJECTED"}
                 /\ filled.state \notin Terminal
              THEN [filled EXCEPT !.state = c.orders[o].status] ELSE filled
    BY <1>10, <1>12, <2>4
  <2>6. Applied(c, o, o) =
              IF /\ c.orders[o].status \in {"CANCELLED", "REJECTED"}
                 /\ filled.state \notin Terminal
              THEN [filled EXCEPT !.state = c.orders[o].status] ELSE filled
    BY <2>1, <2>3 DEF Applied, FillsOf
  <2>. QED  BY <2>5, <2>6
<1>14. new.state = after /\ new.broker = b /\ new.fills = F \cup FillsOf(U)
  BY <1>12
<1>15. new \in OmsRow
  <2>1. FillsOf(U) \subseteq OmsFill
    BY <1>6 DEF FillsOf, OmsFill
  <2>2. after \in OrderStates
    BY <1>1, <1>7, <1>8, <1>9, <1>10 DEF OrderStates
  <2>3. b \in BrokerIds \cup {NoId}
    BY <1>11 DEF BrokerIds
  <2>. QED  BY <1>1, <1>4, <1>12, <2>1, <2>2, <2>3 DEF OmsRow
<1>16. after \in {"CANCELLED", "REJECTED"} =>
         market[o].status = after /\ market[o].done = Cardinality(new.fills)
  <2>. SUFFICES ASSUME after \in {"CANCELLED", "REJECTED"}
                PROVE  market[o].status = after /\ market[o].done = Cardinality(new.fills)
    OBVIOUS
  <2>1. CASE counted \notin Terminal
    <3>1. after = c.orders[o].status
      BY <1>10, <2>1 DEF Terminal
    <3>2. market[o].status = c.orders[o].status /\ market[o].done = c.orders[o].filled
      BY <3>1 DEF RowTrue, BrokerTerminal
    <3>. QED  BY <1>5, <1>6, <1>14, <3>1, <3>2
  <2>2. CASE counted \in Terminal
    <3>1. after = counted
      BY <1>10, <2>2
    <3>2. FillsOf(U) = {} /\ counted = row.state
      BY <1>7, <1>8, <1>9, <3>1
    <3>3. market[o].status = row.state /\ market[o].done = Cardinality(F)
      BY <1>4, <3>1, <3>2 DEF ClosedWithBroker, Filled
    <3>. QED  BY <1>14, <3>1, <3>2, <3>3
  <2>. QED  BY <2>1, <2>2
<1>17. \A f \in new.fills \ F : \A g \in F : g.trade # f.trade
  <2>. SUFFICES ASSUME NEW f \in new.fills \ F, NEW g \in F PROVE g.trade # f.trade
    OBVIOUS
  <2>1. PICK i \in U : f = [from |-> "KITE", trade |-> i]
    BY <1>14 DEF FillsOf
  <2>2. f.trade = i /\ g.trade \notin U
    BY <1>6, <2>1
  <2>. QED  BY <2>2
<1>. QED  BY <1>4, <1>6, <1>11, <1>13, <1>14, <1>15, <1>16, <1>17

\* What one whole observation does, order by order.
LEMMA ReconcileRows ==
  ASSUME RecordsInv, NEW c \in held, NEW s \in Bindings, Reconcile(c, s)
  PROVE  /\ oms' \in [Orders -> OmsRow]
         /\ \A o \in Orders :
              /\ IsFiniteSet(oms'[o].fills)
              /\ oms'[o].broker \in {NoId, Placed[o]}
              /\ oms'[o].state \in {"CANCELLED", "REJECTED"} =>
                   market[o].status = oms'[o].state /\ market[o].done = Filled(oms'[o])
              /\ \A f \in oms'[o].fills \ oms[o].fills :
                   \A g \in oms[o].fills : g.trade # f.trade
<1>. USE DEF RecordsInv
<1>. PICK M : M = Matched(c, s)
  OBVIOUS
<1>1. c \in Capture /\ \A o \in Orders : RowTrue(market[o], c.orders[o])
  BY DEF BrokerTyped, RowsTrue
<1>2. M \subseteq Orders
  BY DEF Matched, Candidates
<1>3. ASSUME NEW o \in M
      PROVE  /\ BrokerRow(c, Bound(o, s)) = o
             /\ c.orders[o].filled = c.trades[o]
             /\ KnownTrades(o) \subseteq 1..c.trades[o]
             /\ LineageExact(c, o, o)
  <2>1. ~Refusal(c, s, o, BrokerRow(c, Bound(o, s)))
    BY <1>3 DEF Reconcile
  <2>2. BrokerRow(c, Bound(o, s)) = o
    BY <1>3, <2>1, OwnRow
  <2>3. KnownTrades(o) \subseteq 1..c.trades[o] /\ LineageExact(c, o, o)
    BY <2>1, <2>2 DEF Refusal
  <2>4. ~Issues(c, o)
    BY <1>2, <1>3 DEF Reconcile, Inspection
  <2>. QED  BY <2>2, <2>3, <2>4 DEF Issues
<1>4. ASSUME NEW o \in M
      PROVE  /\ Applied(c, o, o) \in OmsRow
             /\ IsFiniteSet(Applied(c, o, o).fills)
             /\ Applied(c, o, o).broker = Placed[o]
             /\ Applied(c, o, o).state \in {"CANCELLED", "REJECTED"} =>
                  /\ market[o].status = Applied(c, o, o).state
                  /\ market[o].done = Cardinality(Applied(c, o, o).fills)
             /\ \A f \in Applied(c, o, o).fills \ oms[o].fills :
                  \A g \in oms[o].fills : g.trade # f.trade
  <2>1. o \in Orders /\ BrokerTyped /\ ClosedWithBroker
    BY <1>2, <1>4
  <2>. QED  BY <1>1, <1>3, <1>4, <2>1, AppliedRow
<1>5. oms' = [o \in Orders |-> IF o \in M THEN Applied(c, o, o) ELSE oms[o]]
  BY <1>3 DEF Reconcile
<1>6. \A o \in Orders : oms'[o] = IF o \in M THEN Applied(c, o, o) ELSE oms[o]
  BY <1>5
<1>7. oms \in [Orders -> OmsRow] /\ \A o \in Orders : IsFiniteSet(oms[o].fills)
  BY DEF BrokerTyped
<1>8. oms' \in [Orders -> OmsRow]
  BY <1>4, <1>5, <1>7
<1>9. ASSUME NEW o \in Orders
      PROVE  /\ IsFiniteSet(oms'[o].fills)
             /\ oms'[o].broker \in {NoId, Placed[o]}
             /\ oms'[o].state \in {"CANCELLED", "REJECTED"} =>
                  market[o].status = oms'[o].state /\ market[o].done = Filled(oms'[o])
             /\ \A f \in oms'[o].fills \ oms[o].fills :
                  \A g \in oms[o].fills : g.trade # f.trade
  <2>1. CASE o \in M
    <3>1. oms'[o] = Applied(c, o, o)
      BY <1>6, <2>1
    <3>. QED  BY <1>4, <2>1, <3>1 DEF Filled
  <2>2. CASE o \notin M
    <3>1. oms'[o] = oms[o]
      BY <1>6, <2>2
    <3>. QED  BY <1>7, <3>1 DEF ClosedWithBroker, OwnBrokerId
  <2>. QED  BY <2>1, <2>2
<1>. QED  BY <1>8, <1>9

-----------------------------------------------------------------------------
(* Every step keeps the records in line.                                   *)

\* The exchange moves on, and nothing it finished changes.
MarketMoves ==
  /\ market' \in [Orders -> [status : BrokerStatuses, done : Nat]]
  /\ \A o \in Orders : market[o].status \in BrokerTerminal => market'[o] = market[o]

\* What was true of a finished order stays true.
LEMMA MarketKeeps ==
  ASSUME RecordsInv, MarketMoves, UNCHANGED <<reading, held, taken, journal>>,
         day' \in Nat,
         \A o \in Orders : book'[o] = book[o] \/ book'[o] = Missing,
         book' \in OrderBook, shown' \in TradeBook,
         oms' \in [Orders -> OmsRow],
         \A o \in Orders : IsFiniteSet(oms'[o].fills),
         \A o \in Orders : oms'[o].broker \in {NoId, Placed[o]},
         \A o \in Orders : oms'[o].state \in {"CANCELLED", "REJECTED"} => oms'[o] = oms[o]
  PROVE  RecordsInv'
<1>. USE DEF RecordsInv
<1>1. ASSUME NEW o \in Orders, NEW row, RowTrue(market[o], row)
      PROVE  RowTrue(market'[o], row)
  BY <1>1 DEF RowTrue, MarketMoves
<1>2. ASSUME NEW o \in Orders
      PROVE  RowTrue(market'[o], Missing)
  BY DEF RowTrue, Missing, BrokerTerminal
<1>3. BrokerTyped'
  BY DEF BrokerTyped, MarketMoves
<1>4. RowsTrue'
  <2>1. ASSUME NEW o \in Orders PROVE RowTrue(market'[o], book'[o])
    <3>1. RowTrue(market'[o], book[o])
      BY <1>1 DEF RowsTrue
    <3>. QED  BY <1>2, <3>1
  <2>2. ASSUME NEW o \in Orders, NEW i \in 1..Len(reading), i \in {1, 3}
        PROVE  RowTrue(market'[o], reading[i].rows[o])
    BY <1>1, <2>2 DEF RowsTrue
  <2>3. ASSUME NEW o \in Orders, NEW c \in held PROVE RowTrue(market'[o], c.orders[o])
    BY <1>1, <2>3 DEF RowsTrue
  <2>. QED  BY <2>1, <2>2, <2>3 DEF RowsTrue
<1>5. OwnBrokerId'
  BY DEF OwnBrokerId
<1>6. ClosedWithBroker'
  <2>. SUFFICES ASSUME NEW o \in Orders, oms'[o].state \in {"CANCELLED", "REJECTED"}
                PROVE  market'[o].status = oms'[o].state /\ market'[o].done = Filled(oms'[o])
    BY DEF ClosedWithBroker, Filled
  <2>1. oms'[o] = oms[o]
    OBVIOUS
  <2>2. market[o].status = oms[o].state /\ market[o].done = Filled(oms[o])
    BY <2>1 DEF ClosedWithBroker
  <2>3. market'[o] = market[o]
    BY <2>1, <2>2 DEF MarketMoves, BrokerTerminal
  <2>. QED  BY <2>1, <2>2, <2>3
<1>. QED  BY <1>3, <1>4, <1>5, <1>6

\* The books, the captures or the journal change, and only true rows come in.
LEMMA RecordsMove ==
  ASSUME RecordsInv, UNCHANGED <<market, oms, day>>,
         book' \in OrderBook, shown' \in TradeBook,
         \A o \in Orders : RowTrue(market[o], book'[o]),
         reading' \in Seq(OrdersRead \cup TradesRead), Len(reading') <= 4,
         \A i \in 1..Len(reading') :
           reading'[i] \in IF i \in {1, 3} THEN OrdersRead ELSE TradesRead,
         \A o \in Orders : \A i \in 1..Len(reading') :
           i \in {1, 3} => RowTrue(market[o], reading'[i].rows[o]),
         held' \subseteq Capture,
         \A o \in Orders : \A c \in held' : RowTrue(market[o], c.orders[o]),
         taken' \in Nat, journal' \in Seq(Capture)
  PROVE  RecordsInv'
<1>. USE DEF RecordsInv
<1>1. BrokerTyped'
  BY DEF BrokerTyped
<1>2. RowsTrue'
  BY DEF RowsTrue
<1>3. OwnBrokerId'
  BY DEF OwnBrokerId
<1>4. ClosedWithBroker'
  BY DEF ClosedWithBroker, Filled
<1>. QED  BY <1>1, <1>2, <1>3, <1>4

\* The OMS changes, and every row it changes is in line with the broker.
LEMMA RowsMove ==
  ASSUME RecordsInv, UNCHANGED <<market, book, shown, day, reading, journal>>,
         held' \subseteq held, taken' = taken,
         oms' \in [Orders -> OmsRow],
         \A o \in Orders :
           /\ IsFiniteSet(oms'[o].fills)
           /\ oms'[o].broker \in {NoId, Placed[o]}
           /\ oms'[o].state \in {"CANCELLED", "REJECTED"} =>
                market[o].status = oms'[o].state /\ market[o].done = Filled(oms'[o])
  PROVE  RecordsInv'
<1>. USE DEF RecordsInv
<1>1. BrokerTyped'
  BY DEF BrokerTyped
<1>2. RowsTrue'
  BY DEF RowsTrue
<1>3. OwnBrokerId'
  BY DEF OwnBrokerId
<1>4. ClosedWithBroker'
  BY DEF ClosedWithBroker, Filled
<1>. QED  BY <1>1, <1>2, <1>3, <1>4

\* The broker answers the submission, and the adapter records the answer or loses it.
LEMMA SubmitMoves == ASSUME RecordsInv, NEW o \in Orders, Submit(o) PROVE RecordsInv'
<1>. USE DEF RecordsInv
<1>1. MarketMoves
  <2>1. PICK status \in {"OPEN", "REJECTED"} : market' = [market EXCEPT ![o].status = status]
    BY DEF Submit
  <2>2. market[o].status = "NONE" /\ market \in [Orders -> [status : BrokerStatuses, done : Nat]]
    BY DEF Submit, BrokerTyped
  <2>. QED  BY <2>1, <2>2 DEF MarketMoves, BrokerStatuses, BrokerTerminal
<1>2. /\ oms' \in [Orders -> OmsRow]
      /\ \A x \in Orders : IsFiniteSet(oms'[x].fills) /\ oms'[x].broker \in {NoId, Placed[x]}
      /\ \A x \in Orders : oms'[x].state \in {"CANCELLED", "REJECTED"} => oms'[x] = oms[x]
  <2>1. /\ oms \in [Orders -> OmsRow] /\ oms[o] \in OmsRow
        /\ \A x \in Orders : IsFiniteSet(oms[x].fills) /\ oms[x].broker \in {NoId, Placed[x]}
    BY DEF BrokerTyped, OwnBrokerId
  <2>2. Placed[o] \in BrokerIds
    BY DEF BrokerIds
  <2>3. CASE oms' = [oms EXCEPT ![o].state = "SUBMITTED", ![o].broker = Placed[o]]
    <3>1. \A x \in Orders : x # o => oms'[x] = oms[x]
      BY <2>1, <2>3
    <3>2. /\ oms'[o].state = "SUBMITTED" /\ oms'[o].broker = Placed[o]
          /\ oms'[o].fills = oms[o].fills
          /\ oms' \in [Orders -> OmsRow]
      BY <2>1, <2>2, <2>3 DEF OmsRow, OrderStates
    <3>. QED  BY <2>1, <3>1, <3>2
  <2>4. CASE oms' = [oms EXCEPT ![o].state = "SUBMISSION_UNCERTAIN"]
    <3>1. \A x \in Orders : x # o => oms'[x] = oms[x]
      BY <2>1, <2>4
    <3>2. /\ oms'[o].state = "SUBMISSION_UNCERTAIN" /\ oms'[o].broker = oms[o].broker
          /\ oms'[o].fills = oms[o].fills
          /\ oms' \in [Orders -> OmsRow]
      BY <2>1, <2>4 DEF OmsRow, OrderStates
    <3>. QED  BY <2>1, <3>1, <3>2
  <2>5. CASE UNCHANGED oms
    BY <2>1, <2>5
  <2>. QED  BY <2>3, <2>4, <2>5 DEF Submit
<1>3. /\ UNCHANGED <<reading, held, taken, journal>> /\ day' \in Nat
      /\ book' = book /\ book' \in OrderBook /\ shown' \in TradeBook
  BY DEF Submit, captureVars, BrokerTyped
<1>. QED  BY <1>1, <1>2, <1>3, MarketKeeps

\* The exchange executes a lot or cancels the rest; a day ends for the books.
LEMMA ExchangeMoves ==
  ASSUME RecordsInv,
         \/ \E o \in Orders : Trade(o) \/ CancelAtBroker(o)
         \/ NewDay
  PROVE  RecordsInv'
<1>. USE DEF RecordsInv
<1>1. market \in [Orders -> [status : BrokerStatuses, done : Nat]]
  BY DEF BrokerTyped
<1>2. UNCHANGED <<reading, held, taken, journal, oms>>
  BY DEF Trade, CancelAtBroker, NewDay, captureVars
<1>3. MarketMoves
  <2>1. ASSUME NEW o \in Orders, Trade(o) PROVE MarketMoves
    <3>1. PICK s \in BrokerStatuses :
            market' = [market EXCEPT ![o].done = @ + 1, ![o].status = s]
      BY <2>1 DEF Trade, BrokerStatuses, BrokerTerminal
    <3>2. market[o].status = "OPEN"
      BY <2>1 DEF Trade
    <3>3. market[o].done + 1 \in Nat /\ market[o] \in [status : BrokerStatuses, done : Nat]
      BY <1>1
    <3>4. PICK first : first = [market EXCEPT ![o].done = @ + 1]
      OBVIOUS
    <3>5. /\ first \in [Orders -> [status : BrokerStatuses, done : Nat]]
          /\ \A x \in Orders : x # o => first[x] = market[x]
      BY <1>1, <3>4
    <3>6. market' = [first EXCEPT ![o].status = s]
      BY <3>1, <3>4
    <3>7. market' \in [Orders -> [status : BrokerStatuses, done : Nat]]
      BY <3>5, <3>6
    <3>8. \A x \in Orders : x # o => market'[x] = market[x]
      BY <3>5, <3>6
    <3>. QED  BY <3>2, <3>7, <3>8 DEF MarketMoves, BrokerTerminal
  <2>2. ASSUME NEW o \in Orders, CancelAtBroker(o) PROVE MarketMoves
    BY <1>1, <2>2 DEF CancelAtBroker, MarketMoves, BrokerStatuses, BrokerTerminal
  <2>3. ASSUME NewDay PROVE MarketMoves
    <3>1. market' = [o \in Orders |->
                      IF market[o].status = "OPEN"
                      THEN [market[o] EXCEPT !.status = "CANCELLED"] ELSE market[o]]
      BY <2>3 DEF NewDay
    <3>. QED  BY <1>1, <3>1 DEF MarketMoves, BrokerStatuses, BrokerTerminal
  <2>. QED  BY <2>1, <2>2, <2>3
<1>4. /\ day' \in Nat
      /\ \A o \in Orders : book'[o] = book[o] \/ book'[o] = Missing
      /\ book' \in OrderBook /\ shown' \in TradeBook
  <2>1. ASSUME NewDay PROVE book' \in OrderBook /\ shown' \in TradeBook /\ day' \in Nat
    BY <2>1 DEF NewDay, BrokerTyped, OrderBook, TradeBook, BookRow, Missing, BrokerStatuses
  <2>2. ASSUME UNCHANGED <<book, shown, day>>
        PROVE  book' \in OrderBook /\ shown' \in TradeBook /\ day' \in Nat
    BY <2>2 DEF BrokerTyped
  <2>. QED  BY <2>1, <2>2 DEF Trade, CancelAtBroker, NewDay
<1>5. /\ oms' \in [Orders -> OmsRow]
      /\ \A x \in Orders : IsFiniteSet(oms'[x].fills)
      /\ \A x \in Orders : oms'[x].broker \in {NoId, Placed[x]}
      /\ \A x \in Orders : oms'[x].state \in {"CANCELLED", "REJECTED"} => oms'[x] = oms[x]
  BY <1>2 DEF BrokerTyped, OwnBrokerId
<1>. QED  BY <1>2, <1>3, <1>4, <1>5, MarketKeeps

\* The books catch up, with rows that say what the exchange did.
LEMMA BooksCatchUp ==
  ASSUME RecordsInv, NEW o \in Orders, ShowOrder(o) \/ ShowTrade(o)
  PROVE  RecordsInv'
<1>. USE DEF RecordsInv
<1>1. UNCHANGED <<market, oms, day, reading, held, taken, journal>>
  BY DEF ShowOrder, ShowTrade, captureVars
<1>2. market[o] \in [status : BrokerStatuses, done : Nat] /\ book \in OrderBook
      /\ shown \in TradeBook
  BY DEF BrokerTyped
<1>3. book' \in OrderBook /\ shown' \in TradeBook
      /\ \A x \in Orders : RowTrue(market[x], book'[x])
  <2>1. CASE ShowOrder(o)
    <3>1. book' = [book EXCEPT ![o] = [status |-> market[o].status, filled |-> market[o].done]]
          /\ shown' = shown
      BY <2>1 DEF ShowOrder
    <3>2. RowTrue(market[o], book'[o])
      BY <1>2, <3>1 DEF RowTrue, OrderBook
    <3>3. \A x \in Orders : x # o => book'[x] = book[x]
      BY <1>2, <3>1 DEF OrderBook
    <3>4. book' \in OrderBook
      BY <1>2, <3>1 DEF OrderBook, BookRow
    <3>. QED  BY <1>2, <3>1, <3>2, <3>3, <3>4 DEF RowsTrue
  <2>2. CASE ShowTrade(o)
    BY <1>2, <2>2 DEF ShowTrade, TradeBook, RowsTrue
  <2>. QED  BY <2>1, <2>2
<1>4. /\ reading' \in Seq(OrdersRead \cup TradesRead) /\ Len(reading') <= 4
      /\ \A i \in 1..Len(reading') :
           reading'[i] \in IF i \in {1, 3} THEN OrdersRead ELSE TradesRead
      /\ held' \subseteq Capture /\ taken' \in Nat /\ journal' \in Seq(Capture)
  BY <1>1 DEF BrokerTyped
<1>5. /\ \A x \in Orders : \A i \in 1..Len(reading') :
           i \in {1, 3} => RowTrue(market[x], reading'[i].rows[x])
      /\ \A x \in Orders : \A c \in held' : RowTrue(market[x], c.orders[x])
  BY <1>1 DEF RowsTrue
<1>. QED  BY <1>1, <1>3, <1>4, <1>5, RecordsMove

\* capture_kite reads one more book.
LEMMA ReadMoves == ASSUME RecordsInv, ReadBooks PROVE RecordsInv'
<1>. USE DEF RecordsInv
<1>. DEFINE W == OrdersRead \cup TradesRead
<1>1. /\ reading \in Seq(W) /\ Len(reading) < 4 /\ Len(reading) \in Nat
      /\ \A i \in 1..Len(reading) :
           reading[i] \in IF i \in {1, 3} THEN OrdersRead ELSE TradesRead
  <2>1. reading \in Seq(W)
    BY DEF BrokerTyped
  <2>2. Len(reading) \in Nat
    <3>. HIDE DEF W
    <3>. QED  BY <2>1, LenProperties
  <2>3. \A i \in 1..Len(reading) :
           reading[i] \in IF i \in {1, 3} THEN OrdersRead ELSE TradesRead
    BY DEF BrokerTyped
  <2>. QED  BY <2>1, <2>2, <2>3 DEF ReadBooks
<1>2. UNCHANGED <<market, book, shown, day, held, taken, oms, journal>>
  BY DEF ReadBooks, brokerVars
<1>3. PICK next : next = IF Len(reading) % 2 = 0 THEN [at |-> day, rows |-> book]
                                                  ELSE [at |-> day, rows |-> shown]
  OBVIOUS
<1>4. reading' = Append(reading, next)
  BY <1>3 DEF ReadBooks
<1>5. book \in OrderBook /\ shown \in TradeBook /\ day \in Nat
  BY DEF BrokerTyped
<1>6. /\ Len(reading) + 1 \in {1, 3} => next = [at |-> day, rows |-> book]
      /\ next \in IF Len(reading) + 1 \in {1, 3} THEN OrdersRead ELSE TradesRead
  <2>1. PICK n \in Nat : n = Len(reading) /\ n < 4
    BY <1>1
  <2>2. n = 0 \/ n = 1 \/ n = 2 \/ n = 3
    BY <2>1
  <2>3. CASE n = 0 \/ n = 2
    <3>1. n % 2 = 0 /\ n + 1 \in {1, 3}
      BY <2>3
    <3>2. next = [at |-> day, rows |-> book]
      BY <1>3, <2>1, <3>1
    <3>. QED  BY <1>5, <2>1, <3>1, <3>2 DEF OrdersRead
  <2>4. CASE n = 1 \/ n = 3
    <3>1. n % 2 # 0 /\ n + 1 \notin {1, 3}
      BY <2>4
    <3>2. next = [at |-> day, rows |-> shown]
      BY <1>3, <2>1, <3>1
    <3>. QED  BY <1>5, <2>1, <3>1, <3>2 DEF TradesRead
  <2>. QED  BY <2>2, <2>3, <2>4
<1>7. next \in W
  BY <1>6
<1>8. /\ reading' \in Seq(W) /\ Len(reading') = Len(reading) + 1
      /\ reading'[Len(reading) + 1] = next
      /\ \A i \in 1..Len(reading) : reading'[i] = reading[i]
  <2>. HIDE DEF W
  <2>. QED  BY <1>1, <1>4, <1>7, AppendProperties
<1>9. /\ Len(reading') <= 4
      /\ \A i \in 1..Len(reading') :
           reading'[i] \in IF i \in {1, 3} THEN OrdersRead ELSE TradesRead
      /\ \A x \in Orders : \A i \in 1..Len(reading') :
           i \in {1, 3} => RowTrue(market[x], reading'[i].rows[x])
  <2>1. Len(reading') <= 4
    BY <1>1, <1>8
  <2>2. ASSUME NEW i \in 1..Len(reading')
        PROVE  /\ reading'[i] \in IF i \in {1, 3} THEN OrdersRead ELSE TradesRead
               /\ \A x \in Orders :
                    i \in {1, 3} => RowTrue(market[x], reading'[i].rows[x])
    <3>1. CASE i = Len(reading) + 1
      <4>1. reading'[i] = next
        BY <1>8, <3>1
      <4>2. i \in {1, 3} => next.rows = book
        BY <1>6, <3>1
      <4>. QED  BY <1>6, <3>1, <4>1, <4>2 DEF RowsTrue
    <3>2. CASE i # Len(reading) + 1
      <4>1. i \in 1..Len(reading) /\ reading'[i] = reading[i]
        BY <1>1, <1>8, <3>2
      <4>. QED  BY <1>1, <4>1 DEF RowsTrue
    <3>. QED  BY <3>1, <3>2
  <2>. QED  BY <2>1, <2>2
<1>10. /\ book' \in OrderBook /\ shown' \in TradeBook
       /\ \A x \in Orders : RowTrue(market[x], book'[x])
       /\ held' \subseteq Capture /\ taken' \in Nat /\ journal' \in Seq(Capture)
       /\ \A x \in Orders : \A c \in held' : RowTrue(market[x], c.orders[x])
  BY <1>2 DEF BrokerTyped, RowsTrue
<1>. QED  BY <1>2, <1>8, <1>9, <1>10, RecordsMove

\* A capture is finished, or dropped because it crosses the broker day.
LEMMA FinishMoves == ASSUME RecordsInv, FinishCapture PROVE RecordsInv'
<1>. USE DEF RecordsInv
<1>1. UNCHANGED <<market, book, shown, day, oms, journal>> /\ reading' = << >>
  BY DEF FinishCapture, brokerVars
<1>2. Len(reading) = 4 /\ reading[3] \in OrdersRead /\ reading[4] \in TradesRead
  BY DEF FinishCapture, BrokerTyped
<1>3. \A x \in Orders : RowTrue(market[x], reading[3].rows[x])
  BY <1>2 DEF RowsTrue
<1>4. /\ held' \subseteq Capture /\ taken' \in Nat
      /\ \A x \in Orders : \A c \in held' : RowTrue(market[x], c.orders[x])
  <2>1. CASE reading[1].at # day
    BY <2>1 DEF FinishCapture, BrokerTyped, RowsTrue
  <2>2. CASE reading[1].at = day
    <3>1. PICK steady \in BOOLEAN :
            steady = (reading[1] = reading[3] /\ reading[2] = reading[4])
      OBVIOUS
    <3>2. PICK c : c = [number |-> taken + 1, day |-> day, stable |-> steady,
                        orders |-> reading[3].rows, trades |-> reading[4].rows]
      OBVIOUS
    <3>3. held' = held \cup {c} /\ taken' = taken + 1
      BY <2>2, <3>1, <3>2 DEF FinishCapture
    <3>4. taken \in Nat /\ day \in Nat /\ held \subseteq Capture
      BY DEF BrokerTyped
    <3>5. c \in Capture /\ c.orders = reading[3].rows
      BY <1>2, <3>2, <3>4 DEF Capture, OrdersRead, TradesRead
    <3>. QED  BY <1>3, <3>3, <3>4, <3>5 DEF RowsTrue
  <2>. QED  BY <2>1, <2>2
<1>5. /\ reading' \in Seq(OrdersRead \cup TradesRead) /\ Len(reading') = 0
  BY <1>1
<1>6. /\ book' \in OrderBook /\ shown' \in TradeBook /\ journal' \in Seq(Capture)
      /\ \A x \in Orders : RowTrue(market[x], book'[x])
  BY <1>1 DEF BrokerTyped, RowsTrue
<1>. QED  BY <1>1, <1>4, <1>5, <1>6, RecordsMove

\* The broker journal keeps a capture.
LEMMA AppendMoves == ASSUME RecordsInv, NEW c \in held, AppendCapture(c) PROVE RecordsInv'
<1>. USE DEF RecordsInv
<1>1. UNCHANGED <<market, book, shown, day, oms, reading, held, taken>>
      /\ journal' = Append(journal, c)
  BY DEF AppendCapture, brokerVars, captureVars
<1>2. journal' \in Seq(Capture)
  BY <1>1 DEF BrokerTyped
<1>3. BrokerTyped'
  BY <1>1, <1>2 DEF BrokerTyped
<1>4. RowsTrue' /\ OwnBrokerId' /\ ClosedWithBroker'
  BY <1>1 DEF RowsTrue, OwnBrokerId, ClosedWithBroker, Filled
<1>. QED  BY <1>3, <1>4

\* An execution callback adds one fill, and closes an order only as filled.
LEMMA CallbackMoves ==
  ASSUME RecordsInv, NEW o \in Orders, NEW i \in 1..Lots[o], Callback(o, i)
  PROVE  /\ RecordsInv'
         /\ \A x \in Orders : \A f \in oms'[x].fills \ oms[x].fills : f.from = "CALLBACK"
<1>. USE DEF RecordsInv
<1>1. UNCHANGED <<market, book, shown, day, reading, held, taken, journal>>
  BY DEF Callback, brokerVars, captureVars
<1>2. PICK f : f = [from |-> "CALLBACK", trade |-> i]
  OBVIOUS
<1>3. oms' = [oms EXCEPT ![o] = WithFill(o, oms[o], f)]
  BY <1>2 DEF Callback
<1>4. oms[o] \in OmsRow /\ IsFiniteSet(oms[o].fills) /\ oms \in [Orders -> OmsRow]
  BY DEF BrokerTyped
<1>5. f \in OmsFill
  <2>1. Lots[o] \in Nat
    BY LotsAssumption
  <2>. QED  BY <1>2, <2>1 DEF OmsFill
<1>6. PICK after \in {"FILLED", "PARTIALLY_FILLED"} :
        WithFill(o, oms[o], f) = [oms[o] EXCEPT !.fills = @ \cup {f}, !.state = after]
  BY DEF WithFill
<1>7. /\ oms'[o].fills = oms[o].fills \cup {f} /\ oms'[o].broker = oms[o].broker
      /\ oms'[o].state = after /\ oms'[o] \in OmsRow
  <2>1. PICK row : row = oms[o]
    OBVIOUS
  <2>2. row \in OmsRow
    BY <1>4, <2>1
  <2>3. PICK new : new = [row EXCEPT !.fills = @ \cup {f}, !.state = after]
    OBVIOUS
  <2>4. oms'[o] = new
    BY <1>3, <1>4, <1>6, <2>1, <2>3
  <2>5. /\ new.fills = row.fills \cup {f} /\ new.broker = row.broker /\ new.state = after
        /\ new.evidence = row.evidence
        /\ new = [state |-> after, broker |-> row.broker, evidence |-> row.evidence,
                  fills |-> row.fills \cup {f}]
    BY <2>2, <2>3 DEF OmsRow
  <2>6. row.fills \cup {f} \subseteq OmsFill
    BY <1>5, <2>2 DEF OmsRow
  <2>7. new \in OmsRow
    BY <2>2, <2>5, <2>6 DEF OmsRow, OrderStates
  <2>. QED  BY <2>1, <2>4, <2>5, <2>7
<1>8. \A x \in Orders : x # o => oms'[x] = oms[x]
  BY <1>3, <1>4
<1>9. oms' \in [Orders -> OmsRow]
  <2>1. WithFill(o, oms[o], f) \in OmsRow
    BY <1>3, <1>4, <1>7
  <2>. QED  BY <1>3, <1>4, <2>1
<1>10. IsFiniteSet(oms'[o].fills)
  BY <1>4, <1>7, FS_AddElement
<1>11. ASSUME NEW x \in Orders
       PROVE  /\ IsFiniteSet(oms'[x].fills)
              /\ oms'[x].broker \in {NoId, Placed[x]}
              /\ oms'[x].state \in {"CANCELLED", "REJECTED"} =>
                   market[x].status = oms'[x].state /\ market[x].done = Filled(oms'[x])
  <2>1. CASE x = o
    BY <1>7, <1>10, <2>1 DEF OwnBrokerId
  <2>2. CASE x # o
    <3>1. oms'[x] = oms[x]
      BY <1>8, <2>2
    <3>. QED  BY <3>1 DEF BrokerTyped, OwnBrokerId, ClosedWithBroker
  <2>. QED  BY <2>1, <2>2
<1>12. RecordsInv'
  BY <1>1, <1>9, <1>11, RowsMove
<1>13. ASSUME NEW x \in Orders, NEW g \in oms'[x].fills \ oms[x].fills
       PROVE  g.from = "CALLBACK"
  <2>1. x = o /\ g = f
    BY <1>7, <1>8
  <2>. QED  BY <1>2, <2>1
<1>. QED  BY <1>12, <1>13

-----------------------------------------------------------------------------
(* The theorems.                                                           *)

\* A fresh database: nothing placed, nothing shown, nothing captured.
LEMMA RecordsStart == LifecycleInit => RecordsInv
<1>. SUFFICES ASSUME LifecycleInit PROVE RecordsInv
  OBVIOUS
<1>. USE DEF LifecycleInit
<1>1. IsFiniteSet({})
  BY FS_EmptySet
<1>2. /\ market \in [Orders -> [status : BrokerStatuses, done : Nat]]
      /\ book \in OrderBook /\ shown \in TradeBook
  BY DEF BrokerStatuses, OrderBook, TradeBook, BookRow, Missing
<1>3. oms \in [Orders -> OmsRow] /\ \A o \in Orders : IsFiniteSet(oms[o].fills)
  BY <1>1 DEF OmsRow, OrderStates
<1>4. reading \in Seq(OrdersRead \cup TradesRead) /\ Len(reading) = 0
      /\ journal \in Seq(Capture)
  OBVIOUS
<1>5. BrokerTyped
  <2>1. /\ Len(reading) <= 4 /\ \A i \in 1..Len(reading) : FALSE
    BY <1>4
  <2>2. held \subseteq Capture /\ taken \in Nat /\ day \in Nat
    OBVIOUS
  <2>. HIDE DEF LifecycleInit
  <2>. QED  BY <1>2, <1>3, <1>4, <2>1, <2>2 DEF BrokerTyped
<1>6. RowsTrue
  BY <1>4 DEF RowsTrue, RowTrue, Missing, BrokerTerminal
<1>7. OwnBrokerId /\ ClosedWithBroker
  BY DEF OwnBrokerId, ClosedWithBroker
<1>. QED  BY <1>5, <1>6, <1>7 DEF RecordsInv

\* No new fill repeats a broker trade the order already counted.
CountsOnce ==
  \A o \in Orders : \A f \in oms'[o].fills \ oms[o].fills :
    f.from = "KITE" => \A g \in oms[o].fills : g.trade # f.trade

\* Every step of the broker, the OMS and the journal.
LEMMA RecordsStep ==
  ASSUME RecordsInv, [LifecycleNext]_lifecycleVars
  PROVE  RecordsInv' /\ CountsOnce
<1>1. ASSUME NEW o \in Orders, Submit(o) PROVE RecordsInv' /\ CountsOnce
  <2>1. RecordsInv'
    BY <1>1, SubmitMoves
  <2>2. \A x \in Orders : oms'[x].fills = oms[x].fills
    <3>1. oms \in [Orders -> OmsRow]
      BY DEF RecordsInv, BrokerTyped
    <3>. QED  BY <1>1, <3>1 DEF Submit, OmsRow
  <2>. QED  BY <2>1, <2>2 DEF CountsOnce
<1>2. ASSUME NEW o \in Orders, Trade(o) \/ CancelAtBroker(o) PROVE RecordsInv' /\ CountsOnce
  <2>1. RecordsInv'
    BY <1>2, ExchangeMoves
  <2>. QED  BY <1>2, <2>1 DEF CountsOnce, Trade, CancelAtBroker
<1>3. ASSUME NEW o \in Orders, ShowOrder(o) \/ ShowTrade(o) PROVE RecordsInv' /\ CountsOnce
  <2>1. RecordsInv'
    BY <1>3, BooksCatchUp
  <2>. QED  BY <1>3, <2>1 DEF CountsOnce, ShowOrder, ShowTrade
<1>4. ASSUME NewDay PROVE RecordsInv' /\ CountsOnce
  <2>1. RecordsInv'
    BY <1>4, ExchangeMoves
  <2>. QED  BY <1>4, <2>1 DEF CountsOnce, NewDay
<1>5. ASSUME ReadBooks PROVE RecordsInv' /\ CountsOnce
  BY <1>5, ReadMoves DEF CountsOnce, ReadBooks
<1>6. ASSUME FinishCapture PROVE RecordsInv' /\ CountsOnce
  BY <1>6, FinishMoves DEF CountsOnce, FinishCapture
<1>7. ASSUME NEW o \in Orders, NEW i \in 1..Lots[o], Callback(o, i)
      PROVE  RecordsInv' /\ CountsOnce
  BY <1>7, CallbackMoves DEF CountsOnce
<1>8. ASSUME NEW c \in held, Expire(c) PROVE RecordsInv' /\ CountsOnce
  <2>1. /\ UNCHANGED <<market, book, shown, day, reading, journal, oms>>
        /\ held' \subseteq held /\ taken' = taken
    BY <1>8 DEF Expire, brokerVars
  <2>2. RecordsInv'
    BY <2>1, RowsMove DEF RecordsInv, BrokerTyped, OwnBrokerId, ClosedWithBroker
  <2>. QED  BY <2>1, <2>2 DEF CountsOnce
<1>9. ASSUME NEW c \in held, NEW s \in Bindings, Reconcile(c, s)
      PROVE  RecordsInv' /\ CountsOnce
  <2>1. /\ oms' \in [Orders -> OmsRow]
        /\ \A o \in Orders :
             /\ IsFiniteSet(oms'[o].fills)
             /\ oms'[o].broker \in {NoId, Placed[o]}
             /\ oms'[o].state \in {"CANCELLED", "REJECTED"} =>
                  market[o].status = oms'[o].state /\ market[o].done = Filled(oms'[o])
             /\ \A f \in oms'[o].fills \ oms[o].fills :
                  \A g \in oms[o].fills : g.trade # f.trade
    BY <1>9, ReconcileRows
  <2>2. UNCHANGED <<market, book, shown, day, reading, held, taken, journal>>
    BY <1>9 DEF Reconcile, brokerVars, captureVars
  <2>3. RecordsInv'
    BY <2>1, <2>2, RowsMove
  <2>. QED  BY <2>1, <2>3 DEF CountsOnce
<1>10. ASSUME NEW c \in held, AppendCapture(c) PROVE RecordsInv' /\ CountsOnce
  BY <1>10, AppendMoves DEF CountsOnce, AppendCapture
<1>11. ASSUME UNCHANGED lifecycleVars PROVE RecordsInv' /\ CountsOnce
  <2>1. UNCHANGED <<market, book, shown, day, reading, held, taken, oms, journal>>
    BY <1>11 DEF lifecycleVars, brokerVars, captureVars
  <2>2. BrokerTyped'
    BY <2>1 DEF BrokerTyped, RecordsInv
  <2>3. RowsTrue' /\ OwnBrokerId' /\ ClosedWithBroker'
    BY <2>1 DEF RecordsInv, RowsTrue, OwnBrokerId, ClosedWithBroker, Filled
  <2>. QED  BY <2>1, <2>2, <2>3 DEF RecordsInv, CountsOnce
<1>. QED  BY <1>1, <1>2, <1>3, <1>4, <1>5, <1>6, <1>7, <1>8, <1>9, <1>10, <1>11
          DEF LifecycleNext, BrokerNext, OmsNext, JournalNext

\* No observation counts a trade the OMS already counted, whichever id the trade was
\* recorded under (the exact-difference check of reconcile).
THEOREM ExecutionsCounted == LifecycleSpec => TradesCountedOnce
<1>1. LifecycleInit => RecordsInv
  BY RecordsStart
<1>2. RecordsInv /\ [LifecycleNext]_lifecycleVars => RecordsInv'
  BY RecordsStep
<1>3. RecordsInv /\ [LifecycleNext]_lifecycleVars =>
        [\A o \in Orders : \A f \in oms'[o].fills \ oms[o].fills :
           f.from = "KITE" => \A g \in oms[o].fills : g.trade # f.trade]_oms
  BY RecordsStep DEF CountsOnce
<1>. QED  BY <1>1, <1>2, <1>3, PTL DEF LifecycleSpec, TradesCountedOnce

-----------------------------------------------------------------------------
(* The replay of the capture journal.                                      *)

\* What replay makes of one more capture.
Learnt(r, c) == Learn(DayStart(r, c), c)

\* The recursive function behind FoldLeft, in the replay of captures cs.
LearntOver(g, cs, S) ==
  g = [T \in SUBSET S |-> IF T = {} THEN ReplayStart0
                          ELSE Learnt(g[T \ {Max(T)}], cs[Max(T)])]

\* What the replay stands for.
LEMMA ReplayJournalDef ==
  ReplayJournal = (CHOOSE g : LearntOver(g, journal, DOMAIN journal))[DOMAIN journal]
BY DEF ReplayJournal, FoldLeft, MapThenFoldSet, LearntOver, Learnt

\* Two such functions agree where both are defined.
LEMMA LearntAgree ==
  ASSUME NEW cs, NEW S, NEW R, NEW g, NEW h,
         LearntOver(g, cs, S), LearntOver(h, cs, R),
         NEW U, Positions(U), U \subseteq S, U \subseteq R
  PROVE  g[U] = h[U]
<1>. DEFINE Bad == {T \in SUBSET U : g[T] # h[T]}
<1>. SUFFICES ASSUME Bad # {} PROVE FALSE
  OBVIOUS
<1>1. PICK T \in Bad : \A V \in Bad : V \subseteq T => V = T
  <2>1. Bad \subseteq SUBSET U
    OBVIOUS
  <2>2. IsFiniteSet(U)
    BY SubPositions
  <2>. HIDE DEF Bad
  <2>. QED  BY <2>1, <2>2, MinimalSubset
<1>2. T # {}
  <2>. SUFFICES ASSUME T = {} PROVE FALSE
    OBVIOUS
  <2>1. g[{}] = h[{}]
    BY DEF LearntOver
  <2>. QED  BY <1>1, <2>1
<1>3. Max(T) \in T
  BY <1>1, <1>2, SubPositions, MaxOfFinite
<1>4. T \ {Max(T)} \notin Bad
  BY <1>1, <1>3
<1>5. g[T \ {Max(T)}] = h[T \ {Max(T)}]
  BY <1>4
<1>6. /\ g[T] = Learnt(g[T \ {Max(T)}], cs[Max(T)])
      /\ h[T] = Learnt(h[T \ {Max(T)}], cs[Max(T)])
  <2>1. T \in SUBSET S /\ T \in SUBSET R
    BY <1>1
  <2>. HIDE DEF Bad
  <2>. QED  BY <1>2, <2>1 DEF LearntOver
<1>. QED  BY <1>1, <1>5, <1>6

\* Such a function exists over every finite set of positions.
LEMMA LearntExist ==
  ASSUME NEW cs, NEW S, Positions(S)
  PROVE  \E g : LearntOver(g, cs, S)
<1>. DEFINE Bad == {T \in SUBSET S : ~ \E g : LearntOver(g, cs, T)}
<1>. SUFFICES ASSUME Bad # {} PROVE FALSE
  OBVIOUS
<1>1. PICK U \in Bad : \A V \in Bad : V \subseteq U => V = U
  <2>1. Bad \subseteq SUBSET S
    OBVIOUS
  <2>2. IsFiniteSet(S)
    BY SubPositions
  <2>. HIDE DEF Bad
  <2>. QED  BY <2>1, <2>2, MinimalSubset
<1>. DEFINE G(V) == CHOOSE g : LearntOver(g, cs, V)
            Below(T) == T \ {Max(T)}
            h == [T \in SUBSET U |->
                    IF T = {} THEN ReplayStart0
                    ELSE Learnt(G(Below(T))[Below(T)], cs[Max(T)])]
<1>2. \A T \in SUBSET U : T # {} => Max(T) \in T
  <2>. SUFFICES ASSUME NEW T \in SUBSET U, T # {} PROVE Max(T) \in T
    OBVIOUS
  <2>1. Positions(T)
    BY <1>1, SubPositions
  <2>. QED  BY <2>1, MaxOfFinite
<1>3. \A T \in SUBSET U : T # U => LearntOver(G(T), cs, T)
  BY <1>1
<1>4. \A T \in SUBSET U : Positions(T)
  BY <1>1, SubPositions
<1>5. ASSUME NEW T \in SUBSET U, T # {}
      PROVE  h[Below(T)] = G(Below(T))[Below(T)]
  <2>. DEFINE V == Below(T)
  <2>1. V \in SUBSET U /\ V # U
    BY <1>2, <1>5
  <2>2. LearntOver(G(V), cs, V)
    BY <1>3, <2>1
  <2>3. CASE V = {}
    <3>1. G(V)[{}] = ReplayStart0
      <4>. HIDE DEF V, G
      <4>. QED  BY <2>2 DEF LearntOver
    <3>2. h[V] = ReplayStart0
      BY <2>1, <2>3
    <3>. QED  BY <2>3, <3>1, <3>2
  <2>4. CASE V # {}
    <3>1. Max(V) \in V /\ Below(V) \in SUBSET U /\ Below(V) # U
      BY <1>2, <2>1, <2>4
    <3>2. LearntOver(G(Below(V)), cs, Below(V))
      BY <1>3, <3>1
    <3>3. G(V)[Below(V)] = G(Below(V))[Below(V)]
      <4>1. Positions(Below(V)) /\ Below(V) \subseteq V
        BY <1>4, <3>1
      <4>. HIDE DEF G, Below
      <4>. QED  BY LearntAgree, <2>2, <3>2, <4>1
    <3>4. G(V)[V] = Learnt(G(V)[Below(V)], cs[Max(V)])
      <4>1. V \in SUBSET V
        OBVIOUS
      <4>2. G(V)[V] = Learnt(G(V)[V \ {Max(V)}], cs[Max(V)])
        <5>. HIDE DEF V, G, h, Below, Bad
        <5>. QED  BY <2>2, <2>4, <4>1 DEF LearntOver
      <4>. QED  BY <4>2
    <3>5. h[V] = Learnt(G(Below(V))[Below(V)], cs[Max(V)])
      BY <2>1, <2>4
    <3>. QED  BY <3>3, <3>4, <3>5
  <2>. QED  BY <2>3, <2>4
<1>6. LearntOver(h, cs, U)
  <2>1. ASSUME NEW T \in SUBSET U
        PROVE  (IF T = {} THEN ReplayStart0
                ELSE Learnt(G(Below(T))[Below(T)], cs[Max(T)]))
                = (IF T = {} THEN ReplayStart0
                   ELSE Learnt(h[Below(T)], cs[Max(T)]))
    <3>. HIDE DEF G, Below, h
    <3>. QED  BY <1>5
  <2>2. h = [T \in SUBSET U |-> IF T = {} THEN ReplayStart0
                                ELSE Learnt(h[Below(T)], cs[Max(T)])]
    <3>1. \A T \in SUBSET U :
             h[T] = IF T = {} THEN ReplayStart0
                    ELSE Learnt(G(Below(T))[Below(T)], cs[Max(T)])
      OBVIOUS
    <3>2. h = [T \in SUBSET U |-> h[T]]
      OBVIOUS
    <3>. HIDE DEF G, Below, h
    <3>. QED  BY <2>1, <3>1, <3>2
  <2>. QED  BY <2>2 DEF LearntOver
<1>. QED  BY <1>1, <1>6

-----------------------------------------------------------------------------
(* An honest journal.                                                      *)

\* What a later look at a row or a trade count shows on the same day.
RowGrows(x, y) ==
  /\ x # Missing => y # Missing
  /\ x.filled <= y.filled
  /\ x.status \in BrokerTerminal => y = x
OrdersGrow(x, y) == \A o \in Orders : RowGrows(x[o], y[o])
TradesGrow(x, y) == \A o \in Orders : x[o] <= y[o]

\* Capture y was taken after capture x.
Precedes(x, y) ==
  /\ x.day <= y.day
  /\ x.day = y.day => OrdersGrow(x.orders, y.orders) /\ TradesGrow(x.trades, y.trades)

\* A capture that shows at least what record r has of the day.
Covers(r, y) ==
  \A o \in Orders :
    /\ r.rows[o] # Missing => y.orders[o] # Missing
    /\ r.trades[o] <= y.trades[o]
    /\ r.top[o] <= y.orders[o].filled
    /\ r.ended[o] # Missing => y.orders[o] = r.ended[o]

Overnight == {"day_boundary_unresolved_orders"}
ReplayRecord ==
  [day : Nat, rows : OrderBook, trades : TradeBook, top : TradeBook, ended : OrderBook,
   issues : SUBSET Overnight]

\* r is what replay has after the first k of captures cs: without a regression, and what
\* it knows of the day is shown by whatever capture they all precede.
Replayed(r, cs, k) ==
  /\ r \in ReplayRecord
  /\ \A y \in Capture :
       y.day = r.day /\ (\A j \in 1..k : Precedes(cs[j], y)) => Covers(r, y)

\* Before the first capture of a day.
LEMMA DayBegins ==
  ASSUME NEW r, NEW c \in Capture, r \in ReplayRecord, r.day # c.day
  PROVE  /\ DayStart(r, c) \in ReplayRecord
         /\ DayStart(r, c).day = c.day
         /\ \A y \in Capture : Covers(DayStart(r, c), y)
<1>1. PICK left \in SUBSET Overnight :
        left = r.issues \cup
             (IF \E o \in Orders : /\ r.rows[o] # Missing
                                   /\ r.rows[o].status \notin BrokerTerminal
              THEN {"day_boundary_unresolved_orders"} ELSE {})
  BY DEF ReplayRecord, Overnight
<1>2. PICK new : new = [day |-> c.day, rows |-> [o \in Orders |-> Missing],
                        trades |-> [o \in Orders |-> 0], top |-> [o \in Orders |-> 0],
                        ended |-> [o \in Orders |-> Missing], issues |-> left]
  OBVIOUS
<1>3. DayStart(r, c) = new
  <2>1. PICK none : none = [o \in Orders |-> Missing]
    OBVIOUS
  <2>2. PICK zero : zero = [o \in Orders |-> 0]
    OBVIOUS
  <2>3. PICK start : start = [day |-> 0, rows |-> none, trades |-> zero, top |-> zero,
                              ended |-> none, issues |-> {}]
    OBVIOUS
  <2>4. start = ReplayStart0
    BY <2>1, <2>2, <2>3 DEF ReplayStart0
  <2>5. DayStart(r, c) = [start EXCEPT !.day = c.day, !.issues = left]
    BY <1>1, <2>4 DEF DayStart
  <2>. QED  BY <1>2, <2>1, <2>2, <2>3, <2>5
<1>4. new \in ReplayRecord
  BY <1>2 DEF ReplayRecord, OrderBook, TradeBook, BookRow, BrokerStatuses, Missing, Capture
<1>5. ASSUME NEW y \in Capture PROVE Covers(new, y)
  BY <1>2 DEF Covers, Capture, OrderBook, TradeBook, BookRow
<1>. QED  BY <1>2, <1>3, <1>4, <1>5

\* One more capture of the day shows no regression.
LEMMA LearnHonest ==
  ASSUME NEW r \in ReplayRecord, NEW c \in Capture, r.day = c.day, Covers(r, c)
  PROVE  /\ Learn(r, c) \in ReplayRecord
         /\ Learn(r, c).day = r.day
         /\ \A y \in Capture :
              y.day = r.day /\ Covers(r, y) /\ Precedes(c, y) => Covers(Learn(r, c), y)
<1>1. CASE Inspection(c) = "changing"
  BY <1>1 DEF Learn
<1>2. CASE Inspection(c) # "changing"
  <2>1. /\ r.rows \in OrderBook /\ r.trades \in TradeBook /\ r.top \in TradeBook
        /\ r.ended \in OrderBook /\ r.issues \in SUBSET Overnight
        /\ r = [day |-> r.day, rows |-> r.rows, trades |-> r.trades, top |-> r.top,
                ended |-> r.ended, issues |-> r.issues]
    BY DEF ReplayRecord
  <2>2. c.orders \in OrderBook /\ c.trades \in TradeBook
        /\ \A o \in Orders : c.orders[o] \in BookRow /\ c.orders[o].filled \in Nat
    BY DEF Capture, OrderBook, BookRow
  <2>3. TemporalIssues(r, c) = {}
    <3>1. ASSUME NEW o \in Orders
          PROVE  /\ ~ (r.rows[o] # Missing /\ c.orders[o] = Missing)
                 /\ ~ (c.trades[o] < r.trades[o])
                 /\ ~ (r.rows[o] # Missing /\ c.orders[o].filled < r.top[o])
                 /\ ~ (r.ended[o] # Missing /\ c.orders[o] # r.ended[o])
      BY <2>1, <2>2 DEF Covers, TradeBook
    <3>. QED  BY <3>1 DEF TemporalIssues
  <2>4. PICK rows : rows = [o \in Orders |-> IF c.orders[o] = Missing THEN r.rows[o]
                                             ELSE c.orders[o]]
    OBVIOUS
  <2>5. PICK trades : trades = [o \in Orders |-> Max({r.trades[o], c.trades[o]})]
    OBVIOUS
  <2>6. PICK top : top = [o \in Orders |-> Max({r.top[o], c.orders[o].filled})]
    OBVIOUS
  <2>7. PICK ended : ended = [o \in Orders |->
                       IF r.ended[o] = Missing /\ c.orders[o].status \in BrokerTerminal
                       THEN c.orders[o] ELSE r.ended[o]]
    OBVIOUS
  <2>8. PICK new : new = [day |-> r.day, rows |-> rows, trades |-> trades, top |-> top,
                          ended |-> ended, issues |-> r.issues]
    OBVIOUS
  <2>9. Learn(r, c) = new
    <3>1. Learn(r, c) = [r EXCEPT !.issues = r.issues \cup TemporalIssues(r, c),
                                  !.rows = rows, !.trades = trades, !.top = top,
                                  !.ended = ended]
      BY <1>2, <2>4, <2>5, <2>6, <2>7 DEF Learn
    <3>2. r.issues \cup TemporalIssues(r, c) = r.issues
      BY <2>3
    <3>. QED  BY <2>1, <2>8, <3>1, <3>2
  <2>10. /\ rows \in OrderBook /\ ended \in OrderBook
    BY <2>1, <2>2, <2>4, <2>7 DEF OrderBook
  <2>11. ASSUME NEW x \in Nat, NEW y \in Nat PROVE Max({x, y}) \in {x, y}
    <3>1. Positions({x, y})
      <4>1. IsFiniteSet({x, y})
        <5>1. IsFiniteSet({x})
          BY FS_Singleton
        <5>2. IsFiniteSet({x} \cup {y}) /\ {x, y} = {x} \cup {y}
          BY <5>1, FS_AddElement
        <5>. QED  BY <5>2
      <4>. QED  BY <4>1 DEF Positions
    <3>. QED  BY <3>1, MaxOfFinite
  <2>12. \A o \in Orders : trades[o] \in {r.trades[o], c.trades[o]}
                           /\ top[o] \in {r.top[o], c.orders[o].filled}
    <3>. SUFFICES ASSUME NEW o \in Orders
                  PROVE  trades[o] \in {r.trades[o], c.trades[o]}
                         /\ top[o] \in {r.top[o], c.orders[o].filled}
      OBVIOUS
    <3>1. /\ r.trades[o] \in Nat /\ c.trades[o] \in Nat
          /\ r.top[o] \in Nat /\ c.orders[o].filled \in Nat
      BY <2>1, <2>2 DEF TradeBook
    <3>. QED  BY <2>5, <2>6, <2>11, <3>1
  <2>13. trades \in TradeBook /\ top \in TradeBook
    BY <2>1, <2>2, <2>5, <2>6, <2>12 DEF TradeBook
  <2>14. new \in ReplayRecord
    BY <2>1, <2>8, <2>10, <2>13 DEF ReplayRecord
  <2>15. ASSUME NEW y \in Capture, y.day = r.day, Covers(r, y), Precedes(c, y)
         PROVE  Covers(new, y)
    <3>. SUFFICES ASSUME NEW o \in Orders
                  PROVE  /\ rows[o] # Missing => y.orders[o] # Missing
                         /\ trades[o] <= y.trades[o]
                         /\ top[o] <= y.orders[o].filled
                         /\ ended[o] # Missing => y.orders[o] = ended[o]
      BY <2>8 DEF Covers
    <3>1. /\ r.rows[o] # Missing => y.orders[o] # Missing
          /\ r.trades[o] <= y.trades[o]
          /\ r.top[o] <= y.orders[o].filled
          /\ r.ended[o] # Missing => y.orders[o] = r.ended[o]
      BY <2>15 DEF Covers
    <3>2. /\ c.orders[o] # Missing => y.orders[o] # Missing
          /\ c.trades[o] <= y.trades[o]
          /\ c.orders[o].filled <= y.orders[o].filled
          /\ c.orders[o].status \in BrokerTerminal => y.orders[o] = c.orders[o]
      BY <2>15 DEF Precedes, OrdersGrow, TradesGrow, RowGrows
    <3>3. rows[o] # Missing => y.orders[o] # Missing
      BY <2>4, <3>1, <3>2
    <3>4. ended[o] # Missing => y.orders[o] = ended[o]
      BY <2>7, <3>1, <3>2
    <3>5. trades[o] <= y.trades[o] /\ top[o] <= y.orders[o].filled
      BY <2>12, <3>1, <3>2
    <3>. QED  BY <3>3, <3>4, <3>5
  <2>16. new.day = r.day
    BY <2>8
  <2>. QED  BY <2>9, <2>14, <2>15, <2>16
<1>. QED  BY <1>1, <1>2

\* One more capture, of the same day or of a later one.
LEMMA LearntHonest ==
  ASSUME NEW cs, NEW k \in Nat, NEW r, Replayed(r, cs, k), NEW c \in Capture,
         c = cs[k + 1], \A j \in 1..k : Precedes(cs[j], c)
  PROVE  Replayed(Learnt(r, c), cs, k + 1)
<1>1. PICK s : s = DayStart(r, c)
  OBVIOUS
<1>2. /\ s \in ReplayRecord /\ s.day = c.day
      /\ \A y \in Capture :
           y.day = c.day /\ (\A j \in 1..k : Precedes(cs[j], y)) => Covers(s, y)
  <2>1. CASE r.day = c.day
    <3>1. s = r
      BY <1>1, <2>1 DEF DayStart
    <3>. QED  BY <2>1, <3>1 DEF Replayed
  <2>2. CASE r.day # c.day
    BY <1>1, <2>2, DayBegins DEF Replayed
  <2>. QED  BY <2>1, <2>2
<1>3. Covers(s, c)
  BY <1>2
<1>4. PICK new : new = Learn(s, c)
  OBVIOUS
<1>5. /\ new \in ReplayRecord /\ new.day = c.day
      /\ \A y \in Capture :
           y.day = c.day /\ Covers(s, y) /\ Precedes(c, y) => Covers(new, y)
  BY <1>2, <1>3, <1>4, LearnHonest
<1>6. 1..k \subseteq 1..(k + 1) /\ k + 1 \in 1..(k + 1)
  OBVIOUS
<1>7. ASSUME NEW y \in Capture, y.day = new.day,
             \A j \in 1..(k + 1) : Precedes(cs[j], y)
      PROVE  Covers(new, y)
  <2>1. \A j \in 1..k : Precedes(cs[j], y)
    BY <1>6, <1>7
  <2>2. Precedes(c, y)
    BY <1>6, <1>7
  <2>. QED  BY <1>2, <1>5, <1>7, <2>1, <2>2
<1>8. Learnt(r, c) = new
  BY <1>1, <1>4 DEF Learnt
<1>. QED  BY <1>5, <1>7, <1>8 DEF Replayed

\* A journal in which every capture precedes the later ones replays without a regression.
LEMMA OrderedJournalReplays ==
  ASSUME journal \in Seq(Capture),
         \A i, j \in 1..Len(journal) : i < j => Precedes(journal[i], journal[j])
  PROVE  HonestJournalReplays
<1>. PICK cs : cs = journal
  OBVIOUS
<1>. PICK n : n = Len(cs)
  OBVIOUS
<1>. DEFINE g == CHOOSE h : LearntOver(h, cs, 1..n)
            Bad == {k \in 0..n : ~ Replayed(g[1..k], cs, k)}
<1>1. n \in Nat /\ DOMAIN cs = 1..n /\ Positions(1..n)
  BY FS_Interval DEF Positions
<1>2. LearntOver(g, cs, 1..n)
  <2>1. \E h : LearntOver(h, cs, 1..n)
    BY <1>1, LearntExist
  <2>. QED  BY <2>1
<1>3. Bad = {}
  <2>. SUFFICES ASSUME Bad # {} PROVE FALSE
    OBVIOUS
  <2>1. PICK k \in Bad : \A j \in Bad : k <= j
    <3>1. Bad \subseteq 0..n
      OBVIOUS
    <3>. HIDE DEF Bad
    <3>. QED  BY <1>1, <3>1, LeastOf
  <2>2. k \in 0..n /\ ~ Replayed(g[1..k], cs, k)
    OBVIOUS
  <2>. HIDE DEF g
  <2>3. k # 0
    <3>. SUFFICES ASSUME k = 0 PROVE FALSE
      OBVIOUS
    <3>1. 1..k = {}
      BY <1>1
    <3>2. g[{}] = ReplayStart0
      BY <1>2 DEF LearntOver
    <3>3. ReplayStart0 \in ReplayRecord
      BY DEF ReplayStart0, ReplayRecord, OrderBook, TradeBook, BookRow, BrokerStatuses,
             Missing
    <3>4. \A y \in Capture : Covers(ReplayStart0, y)
      BY DEF ReplayStart0, Covers, Capture, OrderBook, TradeBook, BookRow
    <3>5. Replayed(ReplayStart0, cs, k)
      BY <3>3, <3>4 DEF Replayed
    <3>. QED  BY <2>2, <3>1, <3>2, <3>5
  <2>4. PICK m : m = k - 1
    OBVIOUS
  <2>5. m \in 0..n /\ m \in Nat /\ k = m + 1 /\ k \in 1..n /\ ~ (k <= m)
    BY <1>1, <2>2, <2>3, <2>4
  <2>6. Replayed(g[1..m], cs, m)
    BY <2>1, <2>5
  <2>7. Max(1..k) = k /\ (1..k) \ {k} = 1..m
    <3>1. k \in 1..k /\ \A y \in 1..k : k >= y
      BY <2>5
    <3>2. \A x \in 1..k : (\A y \in 1..k : x >= y) => x = k
      BY <2>5
    <3>3. Max(1..k) = k
      BY <3>1, <3>2 DEF Max
    <3>4. (1..k) \ {k} = 1..m
      BY <2>5
    <3>. QED  BY <3>3, <3>4
  <2>8. g[1..k] = Learnt(g[1..m], cs[k])
    <3>1. 1..k \in SUBSET (1..n) /\ 1..k # {}
      BY <1>1, <2>5
    <3>2. g[1..k] = Learnt(g[(1..k) \ {Max(1..k)}], cs[Max(1..k)])
      <4>. DEFINE T == 1..k
                  D == 1..n
      <4>1. T \in SUBSET D /\ T # {} /\ LearntOver(g, cs, D)
        BY <1>2, <3>1
      <4>2. g[T] = Learnt(g[T \ {Max(T)}], cs[Max(T)])
        <5>. HIDE DEF T, D
        <5>. QED  BY <4>1 DEF LearntOver
      <4>. QED  BY <4>2
    <3>. QED  BY <2>7, <3>2
  <2>9. cs[k] \in Capture /\ \A j \in 1..m : Precedes(cs[j], cs[k])
    BY <1>1, <2>5
  <2>10. Replayed(Learnt(g[1..m], cs[k]), cs, k)
    BY <2>5, <2>6, <2>9, LearntHonest
  <2>. QED  BY <2>2, <2>8, <2>10
<1>4. Replayed(g[1..n], cs, n)
  BY <1>1, <1>3
<1>5. ReplayJournal = g[1..n]
  BY <1>1, ReplayJournalDef
<1>. QED
  <2>. HIDE DEF g
  <2>. QED  BY <1>4, <1>5 DEF Replayed, ReplayRecord, Overnight, HonestJournalReplays

-----------------------------------------------------------------------------
(* The order the captures were taken in.                                   *)

Captures == held \cup Range(journal)

\* No row is ahead of the exchange; readings and captures follow one another, each shows
\* what the earlier ones of its day showed, and the books of today show it still.
Chronology ==
  /\ \A o \in Orders : book[o].filled <= market[o].done
  /\ \A i \in 1..Len(reading) :
       /\ reading[1].at <= reading[i].at /\ reading[i].at <= day
       /\ reading[i].at = day =>
            IF i \in {1, 3} THEN OrdersGrow(reading[i].rows, book)
                            ELSE TradesGrow(reading[i].rows, shown)
  /\ \A c \in Captures :
       /\ c.number <= taken /\ c.day <= day
       /\ c.day = day => OrdersGrow(c.orders, book) /\ TradesGrow(c.trades, shown)
       /\ \A i \in 1..Len(reading) :
            /\ c.day <= reading[i].at
            /\ c.day = reading[i].at =>
                 IF i \in {1, 3} THEN OrdersGrow(c.orders, reading[i].rows)
                                 ELSE TradesGrow(c.trades, reading[i].rows)
  /\ \A x, y \in Captures : x.number < y.number => Precedes(x, y)
  /\ \A i, j \in 1..Len(journal) : i < j => journal[i].number < journal[j].number

\* Growth composes.
LEMMA Grows ==
  /\ \A x \in OrderBook : OrdersGrow(x, x)
  /\ \A x \in TradeBook : TradesGrow(x, x)
  /\ \A x, y, z \in OrderBook : OrdersGrow(x, y) /\ OrdersGrow(y, z) => OrdersGrow(x, z)
  /\ \A x, y, z \in TradeBook : TradesGrow(x, y) /\ TradesGrow(y, z) => TradesGrow(x, z)
<1>1. ASSUME NEW x \in OrderBook PROVE OrdersGrow(x, x)
  BY DEF OrdersGrow, RowGrows, OrderBook, BookRow
<1>2. ASSUME NEW x \in TradeBook PROVE TradesGrow(x, x)
  BY DEF TradesGrow, TradeBook
<1>3. ASSUME NEW x \in OrderBook, NEW y \in OrderBook, NEW z \in OrderBook,
             OrdersGrow(x, y), OrdersGrow(y, z)
      PROVE  OrdersGrow(x, z)
  <2>. SUFFICES ASSUME NEW o \in Orders PROVE RowGrows(x[o], z[o])
    BY DEF OrdersGrow
  <2>1. RowGrows(x[o], y[o]) /\ RowGrows(y[o], z[o])
    BY <1>3 DEF OrdersGrow
  <2>2. x[o].filled \in Nat /\ y[o].filled \in Nat /\ z[o].filled \in Nat
    BY DEF OrderBook, BookRow
  <2>. QED  BY <2>1, <2>2 DEF RowGrows
<1>4. ASSUME NEW x \in TradeBook, NEW y \in TradeBook, NEW z \in TradeBook,
             TradesGrow(x, y), TradesGrow(y, z)
      PROVE  TradesGrow(x, z)
  BY <1>4 DEF TradesGrow, TradeBook
<1>. QED  BY <1>1, <1>2, <1>3, <1>4

\* What the types say of captures and readings.
LEMMA CapturesTyped ==
  ASSUME BrokerTyped
  PROVE  /\ Captures \subseteq Capture
         /\ \A c \in Captures : c.orders \in OrderBook /\ c.trades \in TradeBook
                                /\ c.day \in Nat /\ c.number \in Nat
         /\ \A i \in 1..Len(reading) :
              /\ reading[i].at \in Nat
              /\ IF i \in {1, 3} THEN reading[i].rows \in OrderBook
                                 ELSE reading[i].rows \in TradeBook
<1>1. Range(journal) \subseteq Capture
  BY DEF BrokerTyped, Range
<1>2. Captures \subseteq Capture
  BY <1>1 DEF Captures, BrokerTyped
<1>3. \A c \in Captures : c.orders \in OrderBook /\ c.trades \in TradeBook
                          /\ c.day \in Nat /\ c.number \in Nat
  BY <1>2 DEF Capture
<1>4. ASSUME NEW i \in 1..Len(reading)
      PROVE  /\ reading[i].at \in Nat
             /\ IF i \in {1, 3} THEN reading[i].rows \in OrderBook
                                ELSE reading[i].rows \in TradeBook
  <2>1. reading[i] \in IF i \in {1, 3} THEN OrdersRead ELSE TradesRead
    BY DEF BrokerTyped
  <2>. QED  BY <2>1 DEF OrdersRead, TradesRead
<1>. QED  BY <1>2, <1>3, <1>4

\* The exchange or the OMS moves, the books and captures stand still.
LEMMA ExchangeAhead ==
  ASSUME BrokerTyped, BrokerTyped', Chronology,
         UNCHANGED <<book, shown, day, reading, held, taken, journal>>,
         \A o \in Orders : market[o].done <= market'[o].done
  PROVE  Chronology'
<1>1. \A o \in Orders : book'[o].filled <= market'[o].done
  <2>. SUFFICES ASSUME NEW o \in Orders PROVE book'[o].filled <= market'[o].done
    OBVIOUS
  <2>1. book[o].filled \in Nat /\ market[o].done \in Nat /\ market'[o].done \in Nat
    BY DEF BrokerTyped, OrderBook, BookRow
  <2>2. book[o].filled <= market[o].done /\ market[o].done <= market'[o].done
    BY DEF Chronology
  <2>. QED  BY <2>1, <2>2
<1>2. Captures' = Captures
  BY DEF Captures
<1>. QED  BY <1>1, <1>2 DEF Chronology

\* The books catch up on the day.
LEMMA BooksAhead ==
  ASSUME BrokerTyped, BrokerTyped', Chronology,
         UNCHANGED <<market, day, reading, held, taken, journal>>,
         OrdersGrow(book, book'), TradesGrow(shown, shown'),
         \A o \in Orders : book'[o].filled <= market[o].done
  PROVE  Chronology'
<1>1. Captures' = Captures
  BY DEF Captures
<1>2. book \in OrderBook /\ book' \in OrderBook /\ shown \in TradeBook /\ shown' \in TradeBook
  BY DEF BrokerTyped
<1>3. ASSUME NEW i \in 1..Len(reading), reading[i].at = day
      PROVE  IF i \in {1, 3} THEN OrdersGrow(reading[i].rows, book')
                             ELSE TradesGrow(reading[i].rows, shown')
  <2>1. IF i \in {1, 3} THEN OrdersGrow(reading[i].rows, book)
                        ELSE TradesGrow(reading[i].rows, shown)
    BY <1>3 DEF Chronology
  <2>2. IF i \in {1, 3} THEN reading[i].rows \in OrderBook
                        ELSE reading[i].rows \in TradeBook
    BY CapturesTyped
  <2>. QED  BY <1>2, <2>1, <2>2, Grows
<1>4. ASSUME NEW c \in Captures, c.day = day
      PROVE  OrdersGrow(c.orders, book') /\ TradesGrow(c.trades, shown')
  <2>1. OrdersGrow(c.orders, book) /\ TradesGrow(c.trades, shown)
    BY <1>4 DEF Chronology
  <2>2. c.orders \in OrderBook /\ c.trades \in TradeBook
    BY CapturesTyped
  <2>. QED  BY <1>2, <2>1, <2>2, Grows
<1>. QED  BY <1>1, <1>3, <1>4 DEF Chronology

\* A day passes: no reading and no capture is of the new one.
LEMMA DayAhead ==
  ASSUME BrokerTyped, BrokerTyped', Chronology, NewDay
  PROVE  Chronology'
<1>1. UNCHANGED <<reading, held, taken, journal>> /\ day' = day + 1 /\ day \in Nat
  BY DEF NewDay, captureVars, BrokerTyped
<1>2. Captures' = Captures
  BY <1>1 DEF Captures
<1>3. \A o \in Orders : book'[o].filled <= market'[o].done
  <2>. SUFFICES ASSUME NEW o \in Orders PROVE book'[o].filled <= market'[o].done
    OBVIOUS
  <2>1. book'[o] = Missing /\ market'[o].done \in Nat
    BY DEF NewDay, BrokerTyped
  <2>. QED  BY <2>1 DEF Missing
<1>4. ASSUME NEW i \in 1..Len(reading)
      PROVE  reading[1].at <= reading[i].at /\ reading[i].at <= day' /\ reading[i].at # day'
  <2>1. reading[1].at <= reading[i].at /\ reading[i].at <= day
    BY DEF Chronology
  <2>2. reading[i].at \in Nat
    BY CapturesTyped
  <2>. QED  BY <1>1, <2>1, <2>2
<1>5. ASSUME NEW c \in Captures
      PROVE  c.number <= taken /\ c.day <= day' /\ c.day # day'
  <2>1. c.number <= taken /\ c.day <= day
    BY DEF Chronology
  <2>2. c.day \in Nat
    BY CapturesTyped
  <2>. QED  BY <1>1, <2>1, <2>2
<1>. QED  BY <1>1, <1>2, <1>3, <1>4, <1>5 DEF Chronology

\* A book is read as it stands.
LEMMA ReadAhead ==
  ASSUME BrokerTyped, BrokerTyped', Chronology, ReadBooks
  PROVE  Chronology'
<1>1. UNCHANGED <<market, book, shown, day, held, taken, journal>>
  BY DEF ReadBooks, brokerVars
<1>2. Captures' = Captures
  BY <1>1 DEF Captures
<1>3. PICK n \in Nat : n = Len(reading) /\ n < 4
  <2>1. reading \in Seq(OrdersRead \cup TradesRead)
    BY DEF BrokerTyped
  <2>. DEFINE W == OrdersRead \cup TradesRead
  <2>2. reading \in Seq(W)
    BY <2>1
  <2>. HIDE DEF W
  <2>3. Len(reading) \in Nat
    BY <2>2, LenProperties
  <2>. QED  BY <2>3 DEF ReadBooks
<1>4. PICK next : next = IF n % 2 = 0 THEN [at |-> day, rows |-> book]
                                      ELSE [at |-> day, rows |-> shown]
  OBVIOUS
<1>5. /\ Len(reading') = n + 1 /\ reading'[n + 1] = next
      /\ \A i \in 1..n : reading'[i] = reading[i]
  <2>1. reading' = Append(reading, next)
    BY <1>3, <1>4 DEF ReadBooks
  <2>2. reading \in Seq(OrdersRead \cup TradesRead)
    BY DEF BrokerTyped
  <2>. QED  BY <1>3, <2>1, <2>2
<1>6. /\ next.at = day
      /\ n + 1 \in {1, 3} => next.rows = book
      /\ n + 1 \notin {1, 3} => next.rows = shown
  <2>1. n = 0 \/ n = 1 \/ n = 2 \/ n = 3
    BY <1>3
  <2>2. CASE n = 0 \/ n = 2
    <3>1. n % 2 = 0 /\ n + 1 \in {1, 3}
      BY <2>2
    <3>. QED  BY <1>4, <3>1
  <2>3. CASE n = 1 \/ n = 3
    <3>1. n % 2 # 0 /\ n + 1 \notin {1, 3}
      BY <2>3
    <3>. QED  BY <1>4, <3>1
  <2>. QED  BY <2>1, <2>2, <2>3
<1>7. day \in Nat /\ book \in OrderBook /\ shown \in TradeBook
  BY DEF BrokerTyped
<1>8. ASSUME NEW i \in 1..(n + 1)
      PROVE  /\ reading'[1].at <= reading'[i].at /\ reading'[i].at <= day
             /\ reading'[i].at = day =>
                  IF i \in {1, 3} THEN OrdersGrow(reading'[i].rows, book)
                                  ELSE TradesGrow(reading'[i].rows, shown)
             /\ \A c \in Captures :
                  /\ c.day <= reading'[i].at
                  /\ c.day = reading'[i].at =>
                       IF i \in {1, 3} THEN OrdersGrow(c.orders, reading'[i].rows)
                                       ELSE TradesGrow(c.trades, reading'[i].rows)
  <2>1. CASE i = n + 1
    <3>1. reading'[i] = next
      BY <1>5, <2>1
    <3>2. reading'[1].at <= day
      <4>1. CASE n = 0
        BY <1>6, <1>7, <2>1, <3>1, <4>1
      <4>2. CASE n # 0
        <5>1. 1 \in 1..n
          BY <4>2
        <5>. QED  BY <1>3, <1>5, <5>1 DEF Chronology
      <4>. QED  BY <4>1, <4>2
    <3>3. OrdersGrow(book, book) /\ TradesGrow(shown, shown)
      BY <1>7, Grows
    <3>4. \A c \in Captures :
            c.day <= day /\ (c.day = day => OrdersGrow(c.orders, book)
                                            /\ TradesGrow(c.trades, shown))
      BY DEF Chronology
    <3>. QED  BY <1>6, <1>7, <2>1, <3>1, <3>2, <3>3, <3>4
  <2>2. CASE i # n + 1
    <3>1. i \in 1..n /\ 1 \in 1..n
      BY <2>2
    <3>2. reading'[i] = reading[i] /\ reading'[1] = reading[1] /\ i \in 1..Len(reading)
      BY <1>3, <1>5, <3>1
    <3>. QED  BY <3>2 DEF Chronology
  <2>. QED  BY <2>1, <2>2
<1>. QED  BY <1>1, <1>2, <1>5, <1>8 DEF Chronology

\* A capture is finished on the day its reading began, or dropped.
LEMMA FinishAhead ==
  ASSUME BrokerTyped, BrokerTyped', Chronology, FinishCapture
  PROVE  Chronology'
<1>1. UNCHANGED <<market, book, shown, day, journal>> /\ reading' = << >> /\ Len(reading) = 4
  BY DEF FinishCapture, brokerVars
<1>2. 1..Len(reading') = {} /\ taken \in Nat
  BY <1>1 DEF BrokerTyped
<1>3. CASE reading[1].at # day
  <2>1. UNCHANGED <<held, taken>>
    BY <1>3 DEF FinishCapture
  <2>2. Captures' = Captures
    BY <1>1, <2>1 DEF Captures
  <2>. QED  BY <1>1, <1>2, <2>1, <2>2 DEF Chronology
<1>4. CASE reading[1].at = day
  <2>1. PICK c : held' = held \cup {c} /\ c.number = taken + 1 /\ c.day = day
                 /\ c.orders = reading[3].rows /\ c.trades = reading[4].rows
    <3>1. PICK steady \in BOOLEAN :
            steady = (reading[1] = reading[3] /\ reading[2] = reading[4])
      OBVIOUS
    <3>2. PICK c : c = [number |-> taken + 1, day |-> day, stable |-> steady,
                        orders |-> reading[3].rows, trades |-> reading[4].rows]
      OBVIOUS
    <3>3. held' = held \cup {c}
      BY <1>4, <3>1, <3>2 DEF FinishCapture
    <3>. QED  BY <3>2, <3>3
  <2>2. taken' = taken + 1
    BY <1>4 DEF FinishCapture
  <2>3. Captures' = Captures \cup {c}
    BY <1>1, <2>1 DEF Captures
  <2>4. 3 \in 1..Len(reading) /\ 4 \in 1..Len(reading)
    BY <1>1
  <2>5. reading[3].at = day /\ reading[4].at = day
    <3>1. /\ reading[1].at <= reading[3].at /\ reading[3].at <= day
          /\ reading[1].at <= reading[4].at /\ reading[4].at <= day
      BY <2>4 DEF Chronology
    <3>2. reading[3].at \in Nat /\ reading[4].at \in Nat /\ day \in Nat
      BY <2>4, CapturesTyped DEF BrokerTyped
    <3>. QED  BY <1>4, <3>1, <3>2
  <2>6. OrdersGrow(c.orders, book) /\ TradesGrow(c.trades, shown)
    BY <2>1, <2>4, <2>5 DEF Chronology
  <2>7. ASSUME NEW x \in Captures PROVE Precedes(x, c) /\ x.number < c.number
    <3>1. x.day <= day /\ x.number <= taken /\ x.number \in Nat
      BY CapturesTyped DEF Chronology
    <3>2. x.day = day => OrdersGrow(x.orders, reading[3].rows)
                         /\ TradesGrow(x.trades, reading[4].rows)
      BY <2>4, <2>5 DEF Chronology
    <3>. QED  BY <1>2, <2>1, <3>1, <3>2 DEF Precedes
  <2>8. ASSUME NEW x \in Captures' PROVE x.number <= taken' /\ x.day <= day
    <3>1. CASE x = c
      BY <1>2, <2>1, <2>2, <3>1 DEF BrokerTyped
    <3>2. CASE x \in Captures
      <4>1. x.number <= taken /\ x.day <= day /\ x.number \in Nat
        BY <3>2, CapturesTyped DEF Chronology
      <4>. QED  BY <1>2, <2>2, <4>1
    <3>. QED  BY <2>3, <3>1, <3>2
  <2>9. ASSUME NEW x \in Captures', NEW y \in Captures', x.number < y.number
        PROVE  Precedes(x, y)
    <3>1. CASE x \in Captures /\ y \in Captures
      BY <2>9, <3>1 DEF Chronology
    <3>2. CASE y = c
      <4>1. x # c
        BY <1>2, <2>1, <2>9, <3>2
      <4>. QED  BY <2>3, <2>7, <3>2, <4>1
    <3>3. CASE x = c /\ y \in Captures
      <4>1. y.number < c.number /\ c.number \in Nat /\ y.number \in Nat
        BY <1>2, <2>1, <2>7, <3>3, CapturesTyped
      <4>. QED  BY <2>9, <3>3, <4>1
    <3>. QED  BY <2>3, <3>1, <3>2, <3>3
  <2>10. ASSUME NEW x \in Captures', x.day = day
         PROVE  OrdersGrow(x.orders, book) /\ TradesGrow(x.trades, shown)
    <3>1. CASE x = c
      BY <2>6, <3>1
    <3>2. CASE x \in Captures
      BY <2>10, <3>2 DEF Chronology
    <3>. QED  BY <2>3, <3>1, <3>2
  <2>. QED  BY <1>1, <1>2, <2>8, <2>9, <2>10 DEF Chronology
<1>. QED  BY <1>3, <1>4

\* A capture is dropped as too old, or kept by the journal.
LEMMA CapturesKept ==
  ASSUME BrokerTyped, BrokerTyped', Chronology,
         NEW c \in held, Expire(c) \/ AppendCapture(c)
  PROVE  Chronology'
<1>1. UNCHANGED <<market, book, shown, day, reading, taken>>
  BY DEF Expire, AppendCapture, brokerVars, captureVars
<1>2. CASE Expire(c)
  <2>1. Captures' \subseteq Captures /\ journal' = journal
    BY <1>2 DEF Expire, Captures
  <2>. QED  BY <1>1, <2>1 DEF Chronology
<1>3. CASE AppendCapture(c)
  <2>1. /\ journal' = Append(journal, c) /\ held' = held
        /\ \A h \in Range(journal) : h.number < c.number
    BY <1>3 DEF AppendCapture, AfterHead, captureVars
  <2>2. PICK n \in Nat : n = Len(journal)
    BY DEF BrokerTyped
  <2>3. /\ Len(journal') = n + 1 /\ journal'[n + 1] = c
        /\ \A i \in 1..n : journal'[i] = journal[i]
        /\ DOMAIN journal = 1..n /\ DOMAIN journal' = 1..(n + 1)
    BY <2>1, <2>2 DEF BrokerTyped
  <2>4. Captures' \subseteq Captures
    <3>. SUFFICES ASSUME NEW i \in 1..(n + 1) PROVE journal'[i] \in Captures
      BY <2>1, <2>3 DEF Captures, Range
    <3>1. CASE i = n + 1
      BY <2>3, <3>1 DEF Captures
    <3>2. CASE i # n + 1
      <4>1. i \in 1..n
        BY <3>2
      <4>. QED  BY <2>3, <4>1 DEF Captures, Range
    <3>. QED  BY <3>1, <3>2
  <2>5. ASSUME NEW i \in 1..(n + 1), NEW j \in 1..(n + 1), i < j
        PROVE  journal'[i].number < journal'[j].number
    <3>1. i \in 1..n /\ journal'[i] = journal[i]
      BY <2>3, <2>5
    <3>2. CASE j = n + 1
      <4>1. journal[i] \in Range(journal)
        BY <2>3, <3>1 DEF Range
      <4>. QED  BY <2>1, <2>3, <3>1, <3>2, <4>1
    <3>3. CASE j # n + 1
      <4>1. j \in 1..n /\ journal'[j] = journal[j]
        BY <2>3, <3>3
      <4>. QED  BY <2>2, <2>5, <3>1, <4>1 DEF Chronology
    <3>. QED  BY <3>2, <3>3
  <2>. QED  BY <1>1, <2>3, <2>4, <2>5 DEF Chronology
<1>. QED  BY <1>2, <1>3

\* A fresh database.
LEMMA ChronologyStart == LifecycleInit => Chronology
<1>. SUFFICES ASSUME LifecycleInit PROVE Chronology
  OBVIOUS
<1>1. 1..Len(reading) = {} /\ 1..Len(journal) = {}
  BY DEF LifecycleInit
<1>2. Captures = {}
  BY DEF LifecycleInit, Captures, Range
<1>3. \A o \in Orders : book[o].filled <= market[o].done
  BY DEF LifecycleInit, Missing
<1>. QED  BY <1>1, <1>2, <1>3 DEF Chronology

\* Every step keeps the chronology.
LEMMA ChronologyStep ==
  ASSUME BrokerTyped, BrokerTyped', RowsTrue, Chronology, [LifecycleNext]_lifecycleVars
  PROVE  Chronology'
<1>1. market \in [Orders -> [status : BrokerStatuses, done : Nat]]
      /\ book \in OrderBook /\ shown \in TradeBook
  BY DEF BrokerTyped
<1>2. \A o \in Orders : market[o].done \in Nat
  BY <1>1
<1>3. ASSUME NEW o \in Orders, Submit(o) \/ Trade(o) \/ CancelAtBroker(o) PROVE Chronology'
  <2>1. UNCHANGED <<book, shown, day, reading, held, taken, journal>>
    BY <1>3 DEF Submit, Trade, CancelAtBroker, captureVars
  <2>2. ASSUME NEW x \in Orders PROVE market[x].done <= market'[x].done
    <3>1. CASE Submit(o)
      BY <1>1, <1>2, <3>1 DEF Submit
    <3>2. CASE Trade(o)
      <4>1. PICK s : market' = [market EXCEPT ![o].done = @ + 1, ![o].status = s]
        BY <3>2 DEF Trade
      <4>2. PICK first : first = [market EXCEPT ![o].done = @ + 1]
        OBVIOUS
      <4>3. /\ first \in [Orders -> [status : BrokerStatuses, done : Nat]]
            /\ first[x].done = IF x = o THEN market[x].done + 1 ELSE market[x].done
        BY <1>1, <4>2
      <4>4. market' = [first EXCEPT ![o].status = s]
        BY <4>1, <4>2
      <4>5. market'[x].done = first[x].done
        BY <4>3, <4>4
      <4>. QED  BY <1>2, <4>3, <4>5
    <3>3. CASE CancelAtBroker(o)
      BY <1>1, <1>2, <3>3 DEF CancelAtBroker
    <3>. QED  BY <1>3, <3>1, <3>2, <3>3
  <2>. QED  BY <2>1, <2>2, ExchangeAhead
<1>4. ASSUME NEW o \in Orders, ShowOrder(o) PROVE Chronology'
  <2>1. UNCHANGED <<market, shown, day, reading, held, taken, journal>>
    BY <1>4 DEF ShowOrder, captureVars
  <2>2. PICK row : row = [status |-> market[o].status, filled |-> market[o].done]
    OBVIOUS
  <2>3. book' = [book EXCEPT ![o] = row] /\ market[o].status # "NONE"
    BY <1>4, <2>2 DEF ShowOrder
  <2>4. \A x \in Orders : book'[x] = IF x = o THEN row ELSE book[x]
    BY <1>1, <2>3 DEF OrderBook
  <2>5. \A x \in Orders : book[x].filled <= market[x].done
    BY DEF Chronology
  <2>6. RowGrows(book[o], row)
    <3>1. row # Missing /\ book[o].filled <= row.filled
      BY <2>2, <2>3, <2>5 DEF Missing
    <3>2. ASSUME book[o].status \in BrokerTerminal PROVE row = book[o]
      <4>1. market[o].status = book[o].status /\ market[o].done = book[o].filled
        BY <3>2 DEF RowsTrue, RowTrue
      <4>2. book[o] = [status |-> book[o].status, filled |-> book[o].filled]
        BY <1>1 DEF OrderBook, BookRow
      <4>. QED  BY <2>2, <4>1, <4>2
    <3>. QED  BY <3>1, <3>2 DEF RowGrows
  <2>7. OrdersGrow(book, book')
    <3>1. OrdersGrow(book, book)
      BY <1>1, Grows
    <3>. QED  BY <2>4, <2>6, <3>1 DEF OrdersGrow
  <2>8. \A x \in Orders : book'[x].filled <= market[x].done
    BY <1>2, <2>2, <2>4, <2>5
  <2>9. TradesGrow(shown, shown')
    BY <1>1, <2>1, Grows
  <2>. QED  BY <2>1, <2>7, <2>8, <2>9, BooksAhead
<1>5. ASSUME NEW o \in Orders, ShowTrade(o) PROVE Chronology'
  <2>1. UNCHANGED <<market, book, day, reading, held, taken, journal>>
    BY <1>5 DEF ShowTrade, captureVars
  <2>2. TradesGrow(shown, shown')
    BY <1>1, <1>5 DEF ShowTrade, TradesGrow, TradeBook
  <2>3. OrdersGrow(book, book')
    BY <1>1, <2>1, Grows
  <2>4. \A x \in Orders : book'[x].filled <= market[x].done
    BY <2>1 DEF Chronology
  <2>. QED  BY <2>1, <2>2, <2>3, <2>4, BooksAhead
<1>6. ASSUME UNCHANGED <<market, book, shown, day, reading, held, taken, journal>>
      PROVE  Chronology'
  <2>1. \A o \in Orders : market[o].done <= market'[o].done
    BY <1>2, <1>6
  <2>. QED  BY <1>6, <2>1, ExchangeAhead
<1>7. ASSUME NEW o \in Orders, NEW i \in 1..Lots[o], Callback(o, i) PROVE Chronology'
  BY <1>6, <1>7 DEF Callback, brokerVars, captureVars
<1>8. ASSUME NEW c \in held, NEW s \in Bindings, Reconcile(c, s) PROVE Chronology'
  BY <1>6, <1>8 DEF Reconcile, brokerVars, captureVars
<1>9. ASSUME UNCHANGED lifecycleVars PROVE Chronology'
  BY <1>6, <1>9 DEF lifecycleVars, brokerVars, captureVars
<1>10. ASSUME NEW c \in held, Expire(c) \/ AppendCapture(c) PROVE Chronology'
  BY <1>10, CapturesKept
<1>11. ASSUME NewDay \/ ReadBooks \/ FinishCapture PROVE Chronology'
  BY <1>11, DayAhead, ReadAhead, FinishAhead
<1>. QED  BY <1>3, <1>4, <1>5, <1>7, <1>8, <1>9, <1>10, <1>11
          DEF LifecycleNext, BrokerNext, OmsNext, JournalNext

\* Captures taken one after another make a journal without a regression.
LEMMA ChronologyReplays ==
  ASSUME BrokerTyped, Chronology
  PROVE  HonestJournalReplays
<1>1. journal \in Seq(Capture) /\ DOMAIN journal = 1..Len(journal)
  BY DEF BrokerTyped
<1>2. \A i \in 1..Len(journal) : journal[i] \in Captures
  BY <1>1 DEF Captures, Range
<1>3. \A i, j \in 1..Len(journal) : i < j => Precedes(journal[i], journal[j])
  BY <1>2 DEF Chronology
<1>. QED  BY <1>1, <1>3, OrderedJournalReplays

\* However captures are torn, late, repeated, applied or appended out of order, the OMS
\* closes an order only with everything the exchange executed counted, and the journal of
\* an honest broker replays without a regression (OmsBrokerLifecycleReconciler.reconcile,
\* BrokerJournal.append and replay).
THEOREM BrokerRecords == LifecycleSpec => []BrokerRecordsAgree
<1>. DEFINE Inv == RecordsInv /\ Chronology
<1>1. LifecycleInit => Inv
  BY RecordsStart, ChronologyStart
<1>2. Inv /\ [LifecycleNext]_lifecycleVars => Inv'
  <2>. SUFFICES ASSUME Inv, [LifecycleNext]_lifecycleVars PROVE Inv'
    OBVIOUS
  <2>1. RecordsInv'
    BY RecordsStep
  <2>2. BrokerTyped /\ BrokerTyped' /\ RowsTrue /\ Chronology
    BY <2>1 DEF RecordsInv
  <2>3. Chronology'
    BY <2>2, ChronologyStep
  <2>. QED  BY <2>1, <2>3
<1>3. Inv => BrokerRecordsAgree
  BY ChronologyReplays DEF RecordsInv, BrokerRecordsAgree
<1>. QED
  <2>. HIDE DEF Inv
  <2>. QED  BY <1>1, <1>2, <1>3, PTL DEF LifecycleSpec

=============================================================================
