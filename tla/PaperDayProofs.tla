--------------------------- MODULE PaperDayProofs ---------------------------
(***************************************************************************)
(* Theorems about PaperDay.tla: what the paper ledger holds after any mix  *)
(* of entries, trims, protective exits, flattening and refused or locked   *)
(* executions, and when the daemon trades at all, for any finitely many    *)
(* symbols, prices, sizes, decisions, calendars, limits and restarts.      *)
(***************************************************************************)
EXTENDS PaperDay, FiniteSumTheorems, SequenceTheorems

-----------------------------------------------------------------------------
(* The replay of the fills.                                                *)

\* g gives the books after each of the first n fills.
ReplaysTo(g, fills, n) ==
  g = [m \in 0 .. n |-> IF m = 0 THEN BlankBooks ELSE ReplayFill(g[m - 1], fills[m])]

\* What Replayed stands for.
LEMMA ReplayedDef ==
  \A fills : Replayed(fills) = CHOOSE g : ReplaysTo(g, fills, Len(fills))
BY DEF Replayed, ReplaysTo

\* The books of any number of fills exist.
LEMMA ReplaysExist ==
  ASSUME NEW fills, NEW n \in Nat
  PROVE  \E g : ReplaysTo(g, fills, n)
<1>. DEFINE Bad == {k \in 0 .. n : ~ \E g : ReplaysTo(g, fills, k)}
<1>1. Bad = {}
  <2>. SUFFICES ASSUME Bad # {} PROVE FALSE
    OBVIOUS
  <2>1. PICK k \in Bad : \A j \in Bad : k <= j
    <3>1. Bad \subseteq 0 .. n
      OBVIOUS
    <3>. HIDE DEF Bad
    <3>. QED  BY <3>1, LeastOf
  <2>2. k \in 0 .. n /\ ~ \E g : ReplaysTo(g, fills, k)
    OBVIOUS
  <2>3. k # 0
    <3>. DEFINE h == [m \in 0 .. 0 |-> BlankBooks]
    <3>1. h = [m \in 0 .. 0 |-> IF m = 0 THEN BlankBooks ELSE ReplayFill(h[m - 1], fills[m])]
      <4>1. \A m \in 0 .. 0 : m = 0
        OBVIOUS
      <4>. DEFINE R(m) == ReplayFill(h[m - 1], fills[m])
      <4>2. h = [m \in 0 .. 0 |-> IF m = 0 THEN BlankBooks ELSE R(m)]
        <5>. HIDE DEF R
        <5>. QED  BY <4>1
      <4>. QED  BY <4>2
    <3>. HIDE DEF h
    <3>2. ReplaysTo(h, fills, 0)
      BY <3>1 DEF ReplaysTo
    <3>. QED  BY <2>2, <3>2
  <2>4. k - 1 \in 0 .. n /\ k - 1 \notin Bad
    <3>. HIDE DEF Bad
    <3>. QED  BY <2>1, <2>2, <2>3
  <2>5. PICK g : ReplaysTo(g, fills, k - 1)
    BY <2>4
  <2>. DEFINE Above(f, m) == IF m = 0 THEN BlankBooks ELSE ReplayFill(f[m - 1], fills[m])
              h == [m \in 0 .. k |-> IF m = k THEN Above(g, k) ELSE g[m]]
  <2>6. g = [m \in 0 .. (k - 1) |-> Above(g, m)]
    BY <2>5 DEF ReplaysTo
  <2>7. ASSUME NEW m \in 0 .. k
        PROVE  h[m] = Above(h, m)
    <3>1. m # 0 => m - 1 \in 0 .. k /\ m - 1 # k
      <4>. HIDE DEF Bad, h, Above
      <4>. QED  BY <2>2
    <3>2. m # 0 => h[m - 1] = g[m - 1]
      <4>. HIDE DEF Bad, Above
      <4>. QED  BY <3>1
    <3>3. Above(h, m) = Above(g, m)
      <4>. HIDE DEF Bad, h
      <4>. QED  BY <3>2
    <3>4. m # k => m \in 0 .. (k - 1)
      <4>. HIDE DEF Bad, h, Above
      <4>. QED  BY <2>2
    <3>5. m # k => g[m] = Above(g, m)
      <4>. HIDE DEF Bad, h, Above
      <4>. QED  BY <2>6, <3>4
    <3>6. h[m] = IF m = k THEN Above(g, k) ELSE g[m]
      <4>. HIDE DEF Bad, Above
      <4>. QED  OBVIOUS
    <3>. HIDE DEF Bad, h, Above
    <3>. QED  BY <3>3, <3>5, <3>6
  <2>8. ReplaysTo(h, fills, k)
    <3>1. h = [m \in 0 .. k |-> h[m]]
      <4>. HIDE DEF Bad, Above
      <4>. QED  OBVIOUS
    <3>2. h = [m \in 0 .. k |-> Above(h, m)]
      <4>. HIDE DEF Bad, h, Above
      <4>. QED  BY <2>7, <3>1
    <3>. HIDE DEF h
    <3>. QED  BY <3>2 DEF ReplaysTo
  <2>. HIDE DEF h
  <2>. QED  BY <2>2, <2>8
<1>2. n \in 0 .. n
  OBVIOUS
<1>. QED  BY <1>1, <1>2

\* The replay, one fill at a time.
LEMMA ReplaySteps ==
  ASSUME NEW fills, Len(fills) \in Nat
  PROVE  /\ Replayed(fills)[0] = BlankBooks
         /\ \A m \in 1 .. Len(fills) :
              Replayed(fills)[m] = ReplayFill(Replayed(fills)[m - 1], fills[m])
<1>1. ReplaysTo(Replayed(fills), fills, Len(fills))
  BY ReplaysExist, ReplayedDef
<1>2. PICK g : g = Replayed(fills)
  OBVIOUS
<1>3. g = [m \in 0 .. Len(fills) |->
             IF m = 0 THEN BlankBooks ELSE ReplayFill(g[m - 1], fills[m])]
  BY <1>1, <1>2 DEF ReplaysTo
<1>. QED  BY <1>2, <1>3

\* A fill appended at the end changes no earlier books.
LEMMA ReplayAppends ==
  ASSUME NEW F, NEW fills \in Seq(F), NEW f \in F
  PROVE  LET more == Append(fills, f) IN
         /\ more \in Seq(F) /\ Len(more) = Len(fills) + 1 /\ Len(fills) \in Nat
         /\ more[Len(fills) + 1] = f
         /\ \A m \in 1 .. Len(fills) : more[m] = fills[m]
         /\ \A m \in 0 .. Len(fills) : Replayed(more)[m] = Replayed(fills)[m]
         /\ Replayed(more)[Len(fills) + 1] = ReplayFill(Replayed(fills)[Len(fills)], f)
<1>1. PICK more : more = Append(fills, f)
  OBVIOUS
<1>2. PICK n : n = Len(fills)
  OBVIOUS
<1>3. /\ more \in Seq(F) /\ Len(more) = n + 1 /\ n \in Nat /\ more[n + 1] = f
      /\ \A m \in 1 .. n : more[m] = fills[m]
  BY <1>1, <1>2
<1>4. /\ Replayed(fills)[0] = BlankBooks /\ Replayed(more)[0] = BlankBooks
      /\ \A m \in 1 .. n :
           Replayed(fills)[m] = ReplayFill(Replayed(fills)[m - 1], fills[m])
      /\ \A m \in 1 .. (n + 1) : Replayed(more)[m] = ReplayFill(Replayed(more)[m - 1], more[m])
  <2>1. Len(fills) \in Nat /\ Len(more) \in Nat
    BY <1>2, <1>3
  <2>2. /\ Replayed(fills)[0] = BlankBooks
        /\ \A m \in 1 .. n :
             Replayed(fills)[m] = ReplayFill(Replayed(fills)[m - 1], fills[m])
    BY <1>2, <2>1, ReplaySteps
  <2>3. /\ Replayed(more)[0] = BlankBooks
        /\ \A m \in 1 .. (n + 1) :
             Replayed(more)[m] = ReplayFill(Replayed(more)[m - 1], more[m])
    BY <1>3, <2>1, ReplaySteps
  <2>. QED  BY <2>2, <2>3
<1>. DEFINE Bad == {m \in 0 .. n : Replayed(more)[m] # Replayed(fills)[m]}
<1>5. Bad = {}
  <2>. SUFFICES ASSUME Bad # {} PROVE FALSE
    OBVIOUS
  <2>1. PICK m \in Bad : \A j \in Bad : m <= j
    <3>1. Bad \subseteq 0 .. n
      OBVIOUS
    <3>. HIDE DEF Bad
    <3>. QED  BY <1>3, <3>1, LeastOf
  <2>2. m \in 0 .. n /\ Replayed(more)[m] # Replayed(fills)[m]
    OBVIOUS
  <2>3. m \in 1 .. n /\ m - 1 \in 0 .. n /\ m \in 1 .. (n + 1) /\ ~ (m <= m - 1)
    <3>. HIDE DEF Bad
    <3>. QED  BY <1>3, <1>4, <2>2
  <2>4. m - 1 \notin Bad
    <3>. HIDE DEF Bad
    <3>. QED  BY <2>1, <2>3
  <2>5. Replayed(more)[m - 1] = Replayed(fills)[m - 1]
    BY <2>3, <2>4
  <2>. HIDE DEF Bad
  <2>. QED  BY <1>3, <1>4, <2>2, <2>3, <2>5
<1>6. \A m \in 0 .. n : Replayed(more)[m] = Replayed(fills)[m]
  BY <1>5
<1>7. Replayed(more)[n + 1] = ReplayFill(Replayed(fills)[n], f)
  <2>1. n + 1 \in 1 .. (n + 1) /\ n \in 0 .. n /\ (n + 1) - 1 = n
    BY <1>3
  <2>. QED  BY <1>3, <1>4, <1>6, <2>1
<1>. HIDE DEF Bad
<1>. QED  BY <1>1, <1>2, <1>3, <1>6, <1>7

-----------------------------------------------------------------------------
(* The ledger and one execution.                                           *)

\* The positions, the idempotency keys and the fills the tables hold.
HeldRows == [qty : Nat, avg : Int, stop : Nat, target : Nat]
Keys == Decisions \cup {NoKey}
FillRows ==
  [sym : Symbols, side : {"BUY", "SELL"}, qty : Nat \ {0}, price : Int, stop : Nat,
   target : Nat, margin : Int, key : Keys, protective : BOOLEAN]

\* The tables; what the risk state's two rows may be is left open.
Ledgers(Peaks, Dailies) ==
  [cash : Int, pos : [Symbols -> HeldRows], reserved : [Symbols -> Int],
   ledger : Seq(FillRows), claims : SUBSET Keys, cooldown : [Symbols -> Nat],
   durable : {"none", "operator", "fault"}, peak : Peaks, daily : Dailies]
IsLedger(x) == \E Peaks, Dailies : x \in Ledgers(Peaks, Dailies)

\* What is submitted to the broker.
IsOrder(o) ==
  /\ o.sym \in Symbols /\ o.side \in {"BUY", "SELL"} /\ o.qty \in Nat \ {0} /\ o.price \in Nat
  /\ o.stop \in Nat /\ o.target \in Nat /\ o.key \in Keys /\ o.until \in Nat
  /\ o.protective \in BOOLEAN

\* An order a protective exit may submit sells all there is.
Orderly(x, o) ==
  /\ IsOrder(o)
  /\ o.protective => o.side = "SELL" /\ o.qty = x.pos[o.sym].qty

\* The parts of a commit: the fill, the position after it and the cash it moves.
Entry(x, o) ==
  [sym |-> o.sym, side |-> o.side, qty |-> o.qty, price |-> FillPrice(o), stop |-> o.stop,
   target |-> o.target, margin |-> MarginChange(x, o), key |-> o.key,
   protective |-> o.protective]
RowAfter(x, o) ==
  LET p == x.pos[o.sym]
      bought == p.qty + o.qty
  IN IF o.side = "BUY"
     THEN HeldRow(bought, Units(p.avg * p.qty + Notional(o), bought), Levels(p, o))
     ELSE SoldRow(p, p.qty - o.qty)
Flow(x, o) ==
  LET p == x.pos[o.sym]
      margin == MarginChange(x, o)
  IN IF o.sym \in Futures
     THEN IF o.side = "BUY" THEN -margin ELSE (FillPrice(o) - p.avg) * o.qty - margin
     ELSE IF o.side = "BUY" THEN -Notional(o) ELSE Notional(o)

\* The fields of a ledger.
LEMMA LedgerFields ==
  ASSUME NEW x, IsLedger(x)
  PROVE  /\ x.cash \in Int /\ x.reserved \in [Symbols -> Int] /\ x.ledger \in Seq(FillRows)
         /\ Len(x.ledger) \in Nat
         /\ x.claims \in SUBSET Keys /\ x.cooldown \in [Symbols -> Nat]
         /\ x.durable \in {"none", "operator", "fault"}
         /\ \A s \in Symbols : /\ x.pos[s].qty \in Nat /\ x.pos[s].avg \in Int
                               /\ x.pos[s].stop \in Nat /\ x.pos[s].target \in Nat
                               /\ x.pos[s] \in HeldRows
         /\ x.pos \in [Symbols -> HeldRows]
<1>1. PICK P, Q : x \in Ledgers(P, Q)
  BY DEF IsLedger
<1>2. /\ x.cash \in Int /\ x.reserved \in [Symbols -> Int] /\ x.ledger \in Seq(FillRows)
      /\ x.claims \in SUBSET Keys /\ x.cooldown \in [Symbols -> Nat]
      /\ x.durable \in {"none", "operator", "fault"} /\ x.pos \in [Symbols -> HeldRows]
  BY <1>1 DEF Ledgers
<1>3. \A s \in Symbols : x.pos[s] \in HeldRows
  BY <1>2
<1>4. \A s \in Symbols : /\ x.pos[s].qty \in Nat /\ x.pos[s].avg \in Int
                         /\ x.pos[s].stop \in Nat /\ x.pos[s].target \in Nat
  BY <1>3 DEF HeldRows
<1>5. Len(x.ledger) \in Nat
  BY <1>2, LenProperties
<1>. QED  BY <1>2, <1>3, <1>4, <1>5

\* A whole quotient of whole numbers.
LEMMA WholeUnits ==
  ASSUME NEW i \in Int, NEW n \in Nat \ {0}
  PROVE  Units(i, n) \in Int
BY DEF Units

\* What is booked is of the tables' types.
LEMMA PartsAreTyped ==
  ASSUME NEW x, IsLedger(x), NEW o, IsOrder(o), o.side = "SELL" => o.qty <= x.pos[o.sym].qty
  PROVE  /\ MarginChange(x, o) \in Int /\ FillPrice(o) \in Int /\ Notional(o) \in Int
         /\ Flow(x, o) \in Int /\ RowAfter(x, o) \in HeldRows /\ Entry(x, o) \in FillRows
         /\ RowAfter(x, o).qty = IF o.side = "BUY" THEN x.pos[o.sym].qty + o.qty
                                 ELSE x.pos[o.sym].qty - o.qty
<1>1. /\ o.sym \in Symbols /\ o.side \in {"BUY", "SELL"} /\ o.qty \in Nat \ {0}
      /\ o.price \in Nat /\ o.stop \in Nat /\ o.target \in Nat /\ o.key \in Keys
      /\ o.protective \in BOOLEAN
  BY DEF IsOrder
<1>2. Slippage \in Nat /\ MarginPerUnit \in Nat /\ Fee \in Nat
  BY LedgerAssumption
<1>3. PICK p : p = x.pos[o.sym]
  OBVIOUS
<1>4. /\ p.qty \in Nat /\ p.avg \in Int /\ p.stop \in Nat /\ p.target \in Nat /\ p \in HeldRows
      /\ x.reserved[o.sym] \in Int
  BY <1>1, <1>3, LedgerFields
<1>5. FillPrice(o) \in Int
  BY <1>1, <1>2 DEF FillPrice
<1>6. Notional(o) \in Int
  BY <1>1, <1>5 DEF Notional
<1>7. MarginChange(x, o) \in Int
  <2>1. CASE o.sym \notin Futures \/ o.side = "BUY"
    BY <1>1, <1>2, <2>1 DEF MarginChange
  <2>2. CASE o.sym \in Futures /\ o.side = "SELL"
    <3>1. PICK i \in Int, n \in Nat \ {0} : i = x.reserved[o.sym] * o.qty /\ n = p.qty
      BY <1>1, <1>3, <1>4, <2>2
    <3>2. PICK k \in Int : k = Units(i, n)
      BY WholeUnits
    <3>3. MarginChange(x, o) = - k
      BY <1>3, <2>2, <3>1, <3>2 DEF MarginChange
    <3>. QED  BY <3>3
  <2>. QED  BY <1>1, <2>1, <2>2
<1>8. Flow(x, o) \in Int
  <2>1. (FillPrice(o) - p.avg) * o.qty \in Int
    BY <1>1, <1>4, <1>5
  <2>. QED  BY <1>3, <1>6, <1>7, <2>1 DEF Flow
<1>9. /\ RowAfter(x, o) \in HeldRows
      /\ RowAfter(x, o).qty = IF o.side = "BUY" THEN p.qty + o.qty ELSE p.qty - o.qty
  <2>1. CASE o.side = "BUY"
    <3>1. PICK n \in Nat \ {0} : n = p.qty + o.qty
      BY <1>1, <1>4
    <3>2. PICK i \in Int : i = p.avg * p.qty + Notional(o)
      BY <1>4, <1>6
    <3>3. PICK avg \in Int : avg = Units(i, n)
      BY WholeUnits
    <3>4. PICK l : l = Levels(p, o)
      OBVIOUS
    <3>5. l.stop \in Nat /\ l.target \in Nat
      BY <1>1, <1>4, <3>4 DEF Levels
    <3>6. PICK row : row = HeldRow(n, avg, l)
      OBVIOUS
    <3>7. row \in HeldRows /\ row.qty = n
      BY <3>5, <3>6 DEF HeldRow, HeldRows
    <3>8. RowAfter(x, o) = row
      BY <1>3, <2>1, <3>1, <3>2, <3>3, <3>4, <3>6 DEF RowAfter
    <3>. QED  BY <2>1, <3>1, <3>7, <3>8
  <2>2. CASE o.side = "SELL"
    <3>1. PICK n \in Nat : n = p.qty - o.qty
      BY <1>1, <1>3, <1>4, <2>2
    <3>2. PICK row : row = SoldRow(p, n)
      OBVIOUS
    <3>3. row \in HeldRows /\ row.qty = n
      BY <1>4, <3>2 DEF SoldRow, HeldRows, Flat
    <3>4. RowAfter(x, o) = row
      BY <1>3, <2>2, <3>1, <3>2 DEF RowAfter
    <3>. QED  BY <2>2, <3>1, <3>3, <3>4
  <2>. QED  BY <1>1, <2>1, <2>2
<1>10. Entry(x, o) \in FillRows
  <2>1. PICK margin \in Int, price \in Int : margin = MarginChange(x, o) /\ price = FillPrice(o)
    BY <1>5, <1>7
  <2>. QED  BY <1>1, <2>1 DEF Entry, FillRows
<1>. QED  BY <1>3, <1>5, <1>6, <1>7, <1>8, <1>9, <1>10

\* One more fill.
Grown(fills, f, more) == more = Append(fills, f)

\* The tables after a commit.
LEMMA CommitFields ==
  ASSUME NEW x, IsLedger(x), NEW o, IsOrder(o), o.side = "SELL" => o.qty <= x.pos[o.sym].qty,
         NEW y, y = Commit(x, o)
  PROVE  /\ IsLedger(y)
         /\ y.cash = x.cash + Flow(x, o) - Fee
         /\ y.pos = [x.pos EXCEPT ![o.sym] = RowAfter(x, o)]
         /\ y.reserved = [x.reserved EXCEPT ![o.sym] = x.reserved[o.sym] + MarginChange(x, o)]
         /\ Grown(x.ledger, Entry(x, o), y.ledger)
         /\ y.claims = x.claims \cup ({o.key} \ {NoKey})
         /\ y.cooldown \in [Symbols -> Nat]
         /\ y.durable = x.durable
<1>1. PICK P, Q : x \in Ledgers(P, Q)
  BY DEF IsLedger
<1>2. o.sym \in Symbols /\ o.key \in Keys /\ o.until \in Nat
  BY DEF IsOrder
<1>3. PICK flow \in Int, row \in HeldRows, margin \in Int, entry \in FillRows :
        /\ flow = Flow(x, o) /\ row = RowAfter(x, o) /\ margin = MarginChange(x, o)
        /\ entry = Entry(x, o)
  BY PartsAreTyped
<1>4. PICK until, key, s : until = o.until /\ key = o.key /\ s = o.sym
  OBVIOUS
<1>5. y = [x EXCEPT !.cash = x.cash + flow - Fee, !.pos[s] = row,
                    !.reserved[s] = x.reserved[s] + margin,
                    !.claims = x.claims \cup ({key} \ {NoKey}),
                    !.cooldown[s] = IF until > 0 THEN until ELSE x.cooldown[s],
                    !.ledger = Append(x.ledger, entry)]
  BY <1>3, <1>4 DEF Commit, Flow, RowAfter, Entry
<1>6. Fee \in Int
  BY LedgerAssumption
<1>7. PICK cash \in Int : cash = x.cash + flow - Fee
  BY <1>1, <1>6 DEF Ledgers
<1>8. PICK pos \in [Symbols -> HeldRows] : pos = [x.pos EXCEPT ![s] = row]
  BY <1>1, <1>2, <1>4 DEF Ledgers
<1>9. PICK reserved \in [Symbols -> Int] :
        reserved = [x.reserved EXCEPT ![s] = x.reserved[s] + margin]
  <2>1. PICK r \in [Symbols -> Int] : r = x.reserved
    BY LedgerFields
  <2>2. r[s] + margin \in Int
    BY <1>2, <1>4
  <2>. QED  BY <2>1, <2>2
<1>10. PICK claims \in SUBSET Keys : claims = x.claims \cup ({key} \ {NoKey})
  BY <1>1, <1>2, <1>4 DEF Ledgers
<1>11. PICK cooldown \in [Symbols -> Nat] :
         cooldown = [x.cooldown EXCEPT ![s] = IF until > 0 THEN until ELSE x.cooldown[s]]
  <2>1. PICK r \in [Symbols -> Nat] : r = x.cooldown
    BY LedgerFields
  <2>2. (IF until > 0 THEN until ELSE r[s]) \in Nat
    BY <1>2, <1>4
  <2>. QED  BY <2>1, <2>2
<1>12. PICK ledger \in Seq(FillRows) : ledger = Append(x.ledger, entry)
  BY LedgerFields, AppendProperties
<1>13. y = [x EXCEPT !.cash = cash, !.pos = pos, !.reserved = reserved, !.claims = claims,
                     !.cooldown = cooldown, !.ledger = ledger]
  BY <1>5, <1>7, <1>8, <1>9, <1>10, <1>11, <1>12
<1>14. /\ y \in Ledgers(P, Q) /\ y.cash = cash /\ y.pos = pos /\ y.reserved = reserved
       /\ y.ledger = ledger /\ y.claims = claims /\ y.cooldown = cooldown
       /\ y.durable = x.durable
  BY <1>1, <1>13 DEF Ledgers
<1>15. IsLedger(y)
  BY <1>14 DEF IsLedger
<1>16. Grown(x.ledger, entry, y.ledger)
  BY <1>12, <1>14 DEF Grown
<1>. QED  BY <1>3, <1>4, <1>7, <1>8, <1>9, <1>10, <1>11, <1>14, <1>15, <1>16

\* Replaying the new fill over the old books gives the new ones.
LEMMA FillReplays ==
  ASSUME NEW x, IsLedger(x), NEW o, IsOrder(o), o.side = "SELL" => o.qty <= x.pos[o.sym].qty,
         NEW y, y = Commit(x, o)
  PROVE  ReplayFill(Books(x), Entry(x, o)) = Books(y)
<1>1. /\ y.cash = x.cash + Flow(x, o) - Fee
      /\ y.pos = [x.pos EXCEPT ![o.sym] = RowAfter(x, o)]
      /\ y.reserved = [x.reserved EXCEPT ![o.sym] = x.reserved[o.sym] + MarginChange(x, o)]
  BY CommitFields
<1>2. PICK price \in Int, margin \in Int, q \in Nat \ {0}, cash \in Int, f \in FillRows :
        /\ price = FillPrice(o) /\ margin = MarginChange(x, o) /\ q = o.qty /\ cash = x.cash
        /\ f = Entry(x, o)
  BY PartsAreTyped, LedgerFields DEF IsOrder
<1>3. /\ f.sym = o.sym /\ f.side = o.side /\ f.qty = q /\ f.price = price /\ f.margin = margin
      /\ f.stop = o.stop /\ f.target = o.target
  BY <1>2 DEF Entry
<1>4. PICK b : b = Books(x)
  OBVIOUS
<1>5. b.cash = cash /\ b.pos = x.pos /\ b.reserved = x.reserved
  BY <1>2, <1>4 DEF Books
<1>6. PICK p : p = x.pos[o.sym]
  OBVIOUS
<1>7. Fee \in Int /\ o.sym \in Symbols /\ o.side \in {"BUY", "SELL"} /\ p.avg \in Int
  BY <1>6, LedgerAssumption, LedgerFields DEF IsOrder
<1>8. PICK paid \in Int : paid = price * q
  OBVIOUS
<1>9. PICK gain \in Int : gain = (price - p.avg) * q
  BY <1>7
<1>10. Notional(o) = paid
  BY <1>2, <1>8 DEF Notional
<1>11. o.sym \notin Futures => margin = 0
  BY <1>2 DEF MarginChange
<1>12. CASE o.side = "BUY"
  <2>1. RowAfter(x, o) = HeldRow(p.qty + q, Units(p.avg * p.qty + paid, p.qty + q), Levels(p, o))
    BY <1>2, <1>6, <1>10, <1>12 DEF RowAfter
  <2>2. Levels(p, f) = Levels(p, o)
    BY <1>3 DEF Levels
  <2>3. ReplayFill(b, f) = ReplayBuy(b, f)
    BY <1>3, <1>12 DEF ReplayFill
  <2>4. ReplayBuy(b, f) =
          [cash |-> cash - (IF o.sym \in Futures THEN margin ELSE paid) - Fee,
           pos |-> [x.pos EXCEPT ![o.sym] = RowAfter(x, o)],
           reserved |-> [x.reserved EXCEPT ![o.sym] = x.reserved[o.sym] + margin]]
    BY <1>3, <1>5, <1>6, <1>8, <2>1, <2>2 DEF ReplayBuy
  <2>5. Flow(x, o) = - (IF o.sym \in Futures THEN margin ELSE paid)
    BY <1>2, <1>10, <1>12 DEF Flow
  <2>6. y.cash = cash - (IF o.sym \in Futures THEN margin ELSE paid) - Fee
    BY <1>1, <1>2, <1>7, <2>5
  <2>. QED  BY <1>1, <1>2, <1>4, <2>3, <2>4, <2>6 DEF Books
<1>13. CASE o.side = "SELL"
  <2>1. RowAfter(x, o) = IF p.qty - q = 0 THEN Flat ELSE [p EXCEPT !.qty = p.qty - q]
    BY <1>2, <1>6, <1>13 DEF RowAfter, SoldRow
  <2>2. ReplayFill(b, f) = ReplaySell(b, f)
    BY <1>3, <1>13 DEF ReplayFill
  <2>3. ReplaySell(b, f) =
          [cash |-> cash + (IF o.sym \in Futures THEN gain - margin ELSE paid) - Fee,
           pos |-> [x.pos EXCEPT ![o.sym] = RowAfter(x, o)],
           reserved |-> [x.reserved EXCEPT ![o.sym] = x.reserved[o.sym] + margin]]
    BY <1>3, <1>5, <1>6, <1>8, <1>9, <2>1 DEF ReplaySell
  <2>4. Flow(x, o) = IF o.sym \in Futures THEN gain - margin ELSE paid
    BY <1>2, <1>6, <1>9, <1>10, <1>13 DEF Flow
  <2>. QED  BY <1>1, <1>2, <1>4, <2>2, <2>3, <2>4 DEF Books
<1>. QED  BY <1>7, <1>12, <1>13

\* A share of a multiple of n is exact.
LEMMA ExactShare ==
  ASSUME NEW m \in Nat, NEW n \in Nat \ {0}, NEW q \in Nat
  PROVE  Units((m * n) * q, n) = m * q
<1>1. PICK c \in Int : c = m * q
  OBVIOUS
<1>2. (m * n) * q = n * c
  <2>1. PICK a \in Int : a = m * n
    OBVIOUS
  <2>2. (m * n) * q = n * (m * q)
    OBVIOUS
  <2>. QED  BY <1>1, <2>2
<1>3. (n * c) \div n = c
  <2>1. PICK k \in Int : k = (n * c) \div n
    OBVIOUS
  <2>2. n * k <= n * c /\ n * c < n * k + n
    BY <2>1
  <2>3. ~ (k + 1 <= c)
    <3>. SUFFICES ASSUME k + 1 <= c PROVE FALSE
      OBVIOUS
    <3>1. n * (k + 1) <= n * c
      OBVIOUS
    <3>2. n * (k + 1) = n * k + n
      OBVIOUS
    <3>. QED  BY <2>2, <3>1, <3>2
  <2>4. ~ (c + 1 <= k)
    <3>. SUFFICES ASSUME c + 1 <= k PROVE FALSE
      OBVIOUS
    <3>1. n * (c + 1) <= n * k
      OBVIOUS
    <3>2. n * (c + 1) = n * c + n
      OBVIOUS
    <3>3. PICK u \in Int, v \in Int : u = n * c /\ v = n * k
      OBVIOUS
    <3>4. u + n <= v /\ v <= u
      BY <2>2, <3>1, <3>2, <3>3
    <3>. QED  BY <3>3, <3>4
  <2>. QED  BY <2>1, <2>3, <2>4
<1>. QED  BY <1>1, <1>2, <1>3 DEF Units

\* What the tables hold: books that replay, one fill per key and every filled key claimed,
\* exits that sell what the fills before them left open, and margin for the open units.
KeysOnce(x) ==
  /\ \A i, j \in 1 .. Len(x.ledger) :
       x.ledger[i].key # NoKey /\ x.ledger[i].key = x.ledger[j].key => i = j
  /\ \A i \in 1 .. Len(x.ledger) : x.ledger[i].key # NoKey => x.ledger[i].key \in x.claims
ClosesWhole(x) ==
  \A n \in 1 .. Len(x.ledger) :
    x.ledger[n].protective => Replayed(x.ledger)[n - 1].pos[x.ledger[n].sym].qty = x.ledger[n].qty

\* The margin held for a future is its open units'.
MarginHeld(x) == \A s \in Futures : x.reserved[s] = MarginPerUnit * x.pos[s].qty

\* What every commit keeps: the tables replay, keys fill once, exits close, margin is held.
LedgerInv(x) == IsLedger(x) /\ Matched(x) /\ KeysOnce(x) /\ ClosesWhole(x) /\ MarginHeld(x)

\* The open units' margin, after units are bought or sold.
LEMMA CommitKeepsMargin ==
  ASSUME NEW x, IsLedger(x), MarginHeld(x), NEW o, IsOrder(o),
         o.side = "SELL" => o.qty <= x.pos[o.sym].qty, NEW y, y = Commit(x, o)
  PROVE  MarginHeld(y)
<1>1. /\ y.pos = [x.pos EXCEPT ![o.sym] = RowAfter(x, o)]
      /\ y.reserved = [x.reserved EXCEPT ![o.sym] = x.reserved[o.sym] + MarginChange(x, o)]
  BY CommitFields
<1>2. /\ x.pos \in [Symbols -> HeldRows] /\ x.reserved \in [Symbols -> Int]
      /\ \A s \in Symbols : x.pos[s].qty \in Nat
      /\ o.sym \in Symbols /\ o.qty \in Nat \ {0} /\ o.side \in {"BUY", "SELL"}
      /\ Futures \subseteq Symbols /\ MarginPerUnit \in Nat
  BY LedgerFields, LedgerAssumption DEF IsOrder
<1>3. SUFFICES ASSUME NEW s \in Futures
               PROVE  y.reserved[s] = MarginPerUnit * y.pos[s].qty
  BY DEF MarginHeld
<1>4. x.reserved[s] = MarginPerUnit * x.pos[s].qty
  BY DEF MarginHeld
<1>5. CASE s # o.sym
  BY <1>1, <1>2, <1>4, <1>5
<1>6. CASE s = o.sym
  <2>1. PICK n \in Nat, q \in Nat \ {0} : n = x.pos[s].qty /\ q = o.qty
    BY <1>2
  <2>2. y.pos[s].qty = IF o.side = "BUY" THEN n + q ELSE n - q
    <3>1. RowAfter(x, o).qty = IF o.side = "BUY" THEN n + q ELSE n - q
      BY <1>6, <2>1, PartsAreTyped
    <3>. QED  BY <1>1, <1>2, <1>6, <3>1
  <2>3. y.reserved[s] = x.reserved[s] + MarginChange(x, o)
    BY <1>1, <1>2, <1>6
  <2>4. PICK a \in Int, b \in Int : a = MarginPerUnit * n /\ b = MarginPerUnit * q
    BY <1>2
  <2>5. MarginPerUnit * (n + q) = a + b /\ MarginPerUnit * (n - q) = a - b
    BY <1>2, <2>4
  <2>6. CASE o.side = "BUY"
    <3>1. MarginChange(x, o) = b
      BY <1>6, <2>1, <2>4, <2>6 DEF MarginChange
    <3>. QED  BY <1>4, <2>1, <2>2, <2>3, <2>4, <2>5, <2>6, <3>1
  <2>7. CASE o.side = "SELL"
    <3>1. n \in Nat \ {0}
      BY <1>6, <2>1, <2>7
    <3>2. Units(a * q, n) = b
      BY <1>2, <2>4, <3>1, ExactShare
    <3>3. MarginChange(x, o) = - b
      BY <1>4, <1>6, <2>1, <2>4, <2>7, <3>2 DEF MarginChange
    <3>. QED  BY <1>4, <2>1, <2>2, <2>3, <2>4, <2>5, <2>7, <3>3
  <2>. QED  BY <1>2, <2>6, <2>7
<1>. QED  BY <1>5, <1>6

\* What a commit that nothing refused leaves.
LEMMA CommitKeeps ==
  ASSUME NEW x, LedgerInv(x), NEW o, Orderly(x, o), ~Refused(x, o), NEW y, y = Commit(x, o)
  PROVE  LedgerInv(y)
<1>1. IsLedger(x) /\ Matched(x) /\ KeysOnce(x) /\ ClosesWhole(x) /\ MarginHeld(x)
  BY DEF LedgerInv
<1>2. IsOrder(o) /\ (o.side = "SELL" => o.qty <= x.pos[o.sym].qty) /\ o.sym \in Symbols
  <2>1. IsOrder(o)
    BY DEF Orderly
  <2>2. ~Unfunded(x, o)
    BY DEF Refused
  <2>3. x.pos[o.sym].qty \in Nat /\ o.qty \in Nat
    BY <1>1, <2>1, LedgerFields DEF IsOrder
  <2>. QED  BY <2>1, <2>2, <2>3 DEF Unfunded, IsOrder
<1>3. IsLedger(y) /\ Grown(x.ledger, Entry(x, o), y.ledger)
      /\ y.claims = x.claims \cup ({o.key} \ {NoKey})
  BY <1>1, <1>2, CommitFields
<1>4. PICK f \in FillRows : f = Entry(x, o)
  BY <1>1, <1>2, PartsAreTyped
<1>5. f.sym = o.sym /\ f.qty = o.qty /\ f.key = o.key /\ f.protective = o.protective
  BY <1>4 DEF Entry
<1>6. PICK fills \in Seq(FillRows) : fills = x.ledger
  BY <1>1, LedgerFields
<1>7. PICK more : more = y.ledger
  OBVIOUS
<1>8. PICK n \in Nat : n = Len(fills)
  BY LenProperties
<1>9. /\ Len(more) = n + 1 /\ more[n + 1] = f
      /\ \A m \in 1 .. n : more[m] = fills[m]
      /\ \A m \in 0 .. n : Replayed(more)[m] = Replayed(fills)[m]
      /\ Replayed(more)[n + 1] = ReplayFill(Replayed(fills)[n], f)
  BY <1>3, <1>4, <1>6, <1>7, <1>8, ReplayAppends DEF Grown
<1>10. Replayed(fills)[n] = Books(x)
  BY <1>1, <1>6, <1>8 DEF Matched
<1>11. Matched(y)
  <2>1. ReplayFill(Books(x), f) = Books(y)
    BY <1>1, <1>2, <1>4, FillReplays
  <2>. QED  BY <1>7, <1>9, <1>10, <2>1 DEF Matched
<1>12. \A m \in 1 .. (n + 1) : m = n + 1 \/ m \in 1 .. n
  OBVIOUS
<1>13. KeysOnce(y)
  <2>1. /\ \A i, j \in 1 .. n : fills[i].key # NoKey /\ fills[i].key = fills[j].key => i = j
        /\ \A i \in 1 .. n : fills[i].key # NoKey => fills[i].key \in x.claims
    BY <1>1, <1>6, <1>8 DEF KeysOnce
  <2>2. f.key # NoKey => f.key \notin x.claims
    BY <1>5 DEF Refused, DuplicateKey
  <2>3. \A i \in 1 .. n : f.key # NoKey => fills[i].key # f.key
    BY <2>1, <2>2
  <2>4. \A i, j \in 1 .. (n + 1) :
          more[i].key # NoKey /\ more[i].key = more[j].key => i = j
    BY <1>9, <1>12, <2>1, <2>3
  <2>5. \A i \in 1 .. (n + 1) : more[i].key # NoKey => more[i].key \in y.claims
    BY <1>3, <1>5, <1>9, <1>12, <2>1
  <2>. QED  BY <1>7, <1>9, <2>4, <2>5 DEF KeysOnce
<1>14. ClosesWhole(y)
  <2>1. \A m \in 1 .. n :
          fills[m].protective => Replayed(fills)[m - 1].pos[fills[m].sym].qty = fills[m].qty
    BY <1>1, <1>6, <1>8 DEF ClosesWhole
  <2>2. \A m \in 1 .. (n + 1) : m - 1 \in 0 .. n
    OBVIOUS
  <2>3. f.protective => Books(x).pos[f.sym].qty = f.qty
    BY <1>5 DEF Orderly, Books
  <2>4. (n + 1) - 1 = n
    OBVIOUS
  <2>5. ASSUME NEW m \in 1 .. (n + 1), more[m].protective
        PROVE  Replayed(more)[m - 1].pos[more[m].sym].qty = more[m].qty
    <3>1. Replayed(more)[m - 1] = Replayed(fills)[m - 1]
      BY <1>9, <2>2
    <3>2. CASE m = n + 1
      BY <1>9, <1>10, <2>3, <2>4, <2>5, <3>1, <3>2
    <3>3. CASE m \in 1 .. n
      BY <1>9, <2>1, <2>5, <3>1, <3>3
    <3>. QED  BY <1>12, <3>2, <3>3
  <2>. QED  BY <1>7, <1>9, <2>5 DEF ClosesWhole
<1>15. MarginHeld(y)
  BY <1>1, <1>2, CommitKeepsMargin
<1>. QED  BY <1>3, <1>11, <1>13, <1>14, <1>15 DEF LedgerInv

\* One execution: nothing changes, or one entry is appended that nothing refused.
Filled(x, o, y) ==
  /\ ~Refused(x, o)
  /\ Grown(x.ledger, Entry(x, o), y.ledger)
  /\ Len(x.ledger) \in Nat /\ Len(y.ledger) = Len(x.ledger) + 1
  /\ Last(y.ledger) = Entry(x, o)

\* An execution keeps the ledger's promises, whether it fills or is refused (_execute).
LEMMA ExecuteKeeps ==
  ASSUME NEW x, LedgerInv(x), NEW o, Orderly(x, o), NEW y, y = Execute(x, o)
  PROVE  LedgerInv(y) /\ y.durable = x.durable /\ (y = x \/ Filled(x, o, y))
<1>1. CASE Refused(x, o)
  BY <1>1 DEF Execute
<1>2. CASE ~Refused(x, o)
  <2>1. y = Commit(x, o)
    BY <1>2 DEF Execute
  <2>2. IsLedger(x) /\ IsOrder(o) /\ (o.side = "SELL" => o.qty <= x.pos[o.sym].qty)
    <3>1. IsLedger(x) /\ IsOrder(o) /\ ~Unfunded(x, o)
      BY <1>2 DEF LedgerInv, Orderly, Refused
    <3>2. x.pos[o.sym].qty \in Nat /\ o.qty \in Nat
      BY <3>1, LedgerFields DEF IsOrder
    <3>. QED  BY <3>1, <3>2 DEF Unfunded
  <2>3. Grown(x.ledger, Entry(x, o), y.ledger) /\ y.durable = x.durable
    <3>1. PICK z : z = Commit(x, o)
      OBVIOUS
    <3>2. Grown(x.ledger, Entry(x, o), z.ledger) /\ z.durable = x.durable
      BY <2>2, <3>1, CommitFields
    <3>. QED  BY <2>1, <3>1, <3>2
  <2>4. PICK fills \in Seq(FillRows), f \in FillRows : fills = x.ledger /\ f = Entry(x, o)
    BY <2>2, LedgerFields, PartsAreTyped
  <2>5. /\ Len(fills) \in Nat /\ Len(Append(fills, f)) = Len(fills) + 1
        /\ Append(fills, f)[Len(fills) + 1] = f
    BY LenProperties, AppendProperties
  <2>6. Last(Append(fills, f)) = f
    BY <2>5 DEF Last
  <2>7. Filled(x, o, y)
    BY <1>2, <2>3, <2>4, <2>5, <2>6 DEF Filled, Grown
  <2>. QED  BY <1>2, <2>1, <2>3, <2>7, CommitKeeps
<1>. QED  BY <1>1, <1>2

-----------------------------------------------------------------------------
(* A walk over the symbols: the sweep and the pre-close flatten.           *)

\* The engine, of which only the kept marks matter here; and what a walk carries.
IsEngine(g) ==
  \E Seens, Opens, Blinds :
    g \in [last : [Symbols -> Nat], seen : Seens, open : Opens, blind : Blinds]

\* What a walk carries from one symbol to the next.
IsProgress(c) == c = [d |-> c.d, e |-> c.e, failed |-> c.failed, filled |-> c.filled]

\* The marks and the time a walk meets.
IsWalk(w) ==
  w.kind \in {"sweep", "flatten"} /\ w.marks \in [Symbols -> Nat] /\ w.now \in Nat

\* One symbol's turn in a walk.
Turn(w, c, s) ==
  IF w.kind = "sweep" THEN SweepOne(c, s, w.marks, w.now, w.jammed)
  ELSE FlattenOne(c, s, w.marks, w.now, w.jammed)

\* A walk over the symbols T that sold something: the last fill is an exit in one of them,
\* priced, when the sweep sold it unmonitored, within the band of the kept mark.
SoldIn(w, before, after, T) ==
  /\ Len(after.d.ledger) > Len(before.d.ledger)
  /\ Last(after.d.ledger).side = "SELL"
  /\ \E s \in T :
       /\ Last(after.d.ledger).sym = s
       /\ w.kind = "sweep" /\ ~Monitored => ~Discontinuity(before.e.last[s], w.marks[s])

\* What the turns of the symbols T leave.
Walked(w, before, after, T) ==
  /\ IsProgress(after) /\ LedgerInv(after.d) /\ IsEngine(after.e)
  /\ after.d.durable = before.d.durable
  /\ after.d = before.d \/ SoldIn(w, before, after, T)
  /\ \A s \in Symbols \ T : after.e.last[s] = before.e.last[s]
  /\ ~Monitored => \A s \in Symbols : \/ after.e.last[s] = before.e.last[s]
                                      \/ ~Discontinuity(before.e.last[s], after.e.last[s])
  /\ w.kind = "flatten" => after.e = before.e

\* An observation of the gap monitor leaves the kept marks alone.
LEMMA ObserveKeepsMarks ==
  ASSUME NEW g, IsEngine(g), NEW s, NEW m, NEW t, NEW h, h = Observe(g, s, m, t)
  PROVE  IsEngine(h) /\ h.last = g.last
<1>1. PICK Seens, Opens, Blinds :
        g \in [last : [Symbols -> Nat], seen : Seens, open : Opens, blind : Blinds]
  BY DEF IsEngine
<1>2. CASE ~Monitored
  BY <1>2 DEF Observe
<1>3. CASE Monitored
  <2>1. PICK u : u = OpenSince(g.open[s], Verdict(g, s, m, t), t)
    OBVIOUS
  <2>2. h = [g EXCEPT !.seen[s] = [mark |-> m, at |-> t], !.open[s] = u]
    BY <1>3, <2>1 DEF Observe
  <2>3. PICK seen, opened :
          seen = [g.seen EXCEPT ![s] = [mark |-> m, at |-> t]] /\ opened = [g.open EXCEPT ![s] = u]
    OBVIOUS
  <2>4. h = [g EXCEPT !.seen = seen, !.open = opened]
    BY <2>2, <2>3
  <2>5. h \in [last : [Symbols -> Nat], seen : {seen}, open : {opened}, blind : Blinds]
    BY <1>1, <2>4
  <2>6. h.last = g.last
    BY <1>1, <2>4
  <2>. QED  BY <2>5, <2>6 DEF IsEngine
<1>. QED  BY <1>2, <1>3

\* The engine g with the mark m kept for the symbol s.
Marking(g, s, m) == [g EXCEPT !.last[s] = m]

\* Keeping a mark leaves the engine well formed and every other mark alone (_judge).
LEMMA MarkKept ==
  ASSUME NEW g, IsEngine(g), NEW s \in Symbols, NEW m \in Nat, NEW h, h = Marking(g, s, m)
  PROVE  IsEngine(h) /\ h.last[s] = m /\ \A u \in Symbols \ {s} : h.last[u] = g.last[u]
<1>1. PICK Seens, Opens, Blinds :
        g \in [last : [Symbols -> Nat], seen : Seens, open : Opens, blind : Blinds]
  BY DEF IsEngine
<1>2. PICK last \in [Symbols -> Nat] : last = [g.last EXCEPT ![s] = m]
  BY <1>1
<1>3. h = [g EXCEPT !.last = last]
  BY <1>2 DEF Marking
<1>4. /\ h.last = last
      /\ h \in [last : [Symbols -> Nat], seen : Seens, open : Opens, blind : Blinds]
  BY <1>1, <1>3
<1>5. last[s] = m /\ \A u \in Symbols \ {s} : last[u] = g.last[u]
  BY <1>1, <1>2
<1>. QED  BY <1>4, <1>5 DEF IsEngine

\* A liquidation sells all that is open, at the mark.
LEMMA ExitIsOrderly ==
  ASSUME NEW x, LedgerInv(x), NEW s \in Symbols, x.pos[s].qty # 0, NEW m \in Nat, NEW t \in Nat,
         NEW o, o = ExitOrder(x, s, m, t), NEW y, y = Execute(x, o), y # x
  PROVE  /\ LedgerInv(y) /\ y.durable = x.durable /\ Len(y.ledger) > Len(x.ledger)
         /\ Last(y.ledger).side = "SELL" /\ Last(y.ledger).sym = s
<1>1. x.pos[s].qty \in Nat \ {0} /\ x.pos[s].stop \in Nat /\ x.pos[s].target \in Nat
  BY LedgerFields DEF LedgerInv
<1>2. t + Cooldown \in Nat
  BY EngineAssumption
<1>3. /\ o.sym = s /\ o.side = "SELL" /\ o.qty = x.pos[s].qty /\ o.price = m
      /\ o.stop = x.pos[s].stop /\ o.target = x.pos[s].target /\ o.key = NoKey
      /\ o.until = t + Cooldown /\ o.protective \in BOOLEAN
  BY DEF ExitOrder
<1>4. Orderly(x, o)
  BY <1>1, <1>2, <1>3 DEF Orderly, IsOrder, Keys
<1>5. LedgerInv(y) /\ y.durable = x.durable /\ Filled(x, o, y)
  BY <1>4, ExecuteKeeps
<1>6. /\ Len(x.ledger) \in Nat /\ Len(y.ledger) = Len(x.ledger) + 1
      /\ Last(y.ledger) = Entry(x, o)
  BY <1>5 DEF Filled
<1>7. Last(y.ledger).side = "SELL" /\ Last(y.ledger).sym = s
  BY <1>3, <1>6 DEF Entry
<1>. QED  BY <1>5, <1>6, <1>7

\* A mark is inside the band around itself.
LEMMA NoStepNoJump ==
  ASSUME NEW m \in Nat
  PROVE  ~Discontinuity(m, m)
<1>1. Step(m, m) = 0
  BY DEF Step
<1>2. m * BandPercent \in Nat
  BY EngineAssumption
<1>. QED  BY <1>1, <1>2 DEF Discontinuity

\* The basis of a mark: kept while the stop is suspended, and moved inside the band otherwise.
LEMMA BasisInBand ==
  ASSUME NEW g, IsEngine(g), NEW s \in Symbols, NEW m \in Nat, NEW v, NEW t,
         NEW r, r = Rebased(g, s, m, v, t)
  PROVE  /\ r.last \in Nat
         /\ ~Monitored =>
              r.last = g.last[s] \/ (r.last = m /\ ~Discontinuity(g.last[s], m))
         /\ ~Monitored /\ ~r.suspended => ~Discontinuity(g.last[s], m)
<1>1. g.last[s] \in Nat
  BY DEF IsEngine
<1>2. CASE Declared(s, t) \/ (Discontinuity(g.last[s], m) /\ ~(Monitored /\ v = "intrasession"))
  <2>1. r.last = g.last[s] /\ r.suspended
    BY <1>2 DEF Rebased
  <2>. QED  BY <1>1, <2>1
<1>3. CASE ~(Declared(s, t)
             \/ (Discontinuity(g.last[s], m) /\ ~(Monitored /\ v = "intrasession")))
  <2>1. r.last = m
    BY <1>3 DEF Rebased
  <2>2. ~Monitored => ~Discontinuity(g.last[s], m)
    BY <1>3
  <2>. QED  BY <2>1, <2>2
<1>. QED  BY <1>2, <1>3

\* The ledger after the exit of a symbol in a turn.
ExitIn(w, c, s) == Execute(c.d, ExitOrder(c.d, s, w.marks[s], w.now))

\* The mark the exit is compared on, re-based or not.
BasisIn(w, c, s) ==
  Rebased(c.e, s, w.marks[s], Verdict(c.e, s, w.marks[s], w.now), w.now)

\* The engine after the mark was judged.
JudgedIn(w, c, s) ==
  [Observe(c.e, s, w.marks[s], w.now) EXCEPT !.last[s] = BasisIn(w, c, s).last]

\* What a turn of the sweep writes.
LEMMA SweepTurnParts ==
  ASSUME NEW w, NEW c, IsProgress(c), IsEngine(c.e), NEW s,
         NEW r, r = SweepOne(c, s, w.marks, w.now, w.jammed)
  PROVE  /\ IsProgress(r)
         /\ \/ r.d = c.d
            \/ /\ r.d = ExitIn(w, c, s) /\ r.d # c.d
               /\ c.d.pos[s].qty # 0 /\ ~BasisIn(w, c, s).suspended
         /\ r.e = JudgedIn(w, c, s) \/ (IsEngine(r.e) /\ r.e.last = c.e.last)
<1>1. PICK x, g, f, k : c = [d |-> x, e |-> g, failed |-> f, filled |-> k]
  BY DEF IsProgress
<1>2. c.d = x /\ c.e = g
  BY <1>1
<1>3. PICK judged, basis, sold :
        judged = JudgedIn(w, c, s) /\ basis = BasisIn(w, c, s) /\ sold = ExitIn(w, c, s)
  OBVIOUS
<1>4. r = IF x.pos[s].qty = 0 \/ (x.pos[s].stop = 0 /\ x.pos[s].target = 0) THEN c
          ELSE IF w.marks[s] = 0 THEN [c EXCEPT !.e.blind = @ \union {s}]
          ELSE IF ~(~basis.suspended /\ Breach(x.pos[s], w.marks[s]) # "none")
               THEN [c EXCEPT !.e = judged]
          ELSE IF s \in w.jammed \/ sold = x THEN [c EXCEPT !.e = judged, !.failed = TRUE]
          ELSE [c EXCEPT !.e = judged, !.d = sold, !.filled = TRUE]
  BY <1>2, <1>3 DEF SweepOne, JudgedIn, BasisIn, ExitIn
<1>5. CASE r = c
  BY <1>2, <1>5
<1>6. CASE r = [c EXCEPT !.e.blind = @ \union {s}]
  <2>1. PICK blind : blind = g.blind \union {s}
    OBVIOUS
  <2>2. PICK h : h = [g EXCEPT !.blind = blind]
    OBVIOUS
  <2>3. r = [c EXCEPT !.e = h]
    BY <1>1, <1>6, <2>1, <2>2
  <2>4. IsProgress(r) /\ r.d = x /\ r.e = h
    BY <1>1, <2>3 DEF IsProgress
  <2>5. IsEngine(h) /\ h.last = g.last
    <3>1. PICK Seens, Opens, Blinds :
            g \in [last : [Symbols -> Nat], seen : Seens, open : Opens, blind : Blinds]
      BY <1>2 DEF IsEngine
    <3>2. /\ h \in [last : [Symbols -> Nat], seen : Seens, open : Opens, blind : {blind}]
          /\ h.last = g.last
      BY <2>2, <3>1
    <3>. QED  BY <3>2 DEF IsEngine
  <2>. QED  BY <1>2, <2>4, <2>5
<1>7. CASE r = [c EXCEPT !.e = judged]
  <2>1. IsProgress(r) /\ r.d = x /\ r.e = judged
    BY <1>1, <1>7 DEF IsProgress
  <2>. QED  BY <1>2, <1>3, <2>1
<1>8. CASE r = [c EXCEPT !.e = judged, !.failed = TRUE]
  <2>1. IsProgress(r) /\ r.d = x /\ r.e = judged
    BY <1>1, <1>8 DEF IsProgress
  <2>. QED  BY <1>2, <1>3, <2>1
<1>9. CASE /\ r = [c EXCEPT !.e = judged, !.d = sold, !.filled = TRUE] /\ sold # x
           /\ x.pos[s].qty # 0 /\ ~basis.suspended
  <2>1. IsProgress(r) /\ r.d = sold /\ r.e = judged
    BY <1>1, <1>9 DEF IsProgress
  <2>. QED  BY <1>2, <1>3, <1>9, <2>1
<1>10. \/ r = c
       \/ r = [c EXCEPT !.e.blind = @ \union {s}]
       \/ r = [c EXCEPT !.e = judged]
       \/ r = [c EXCEPT !.e = judged, !.failed = TRUE]
       \/ /\ r = [c EXCEPT !.e = judged, !.d = sold, !.filled = TRUE] /\ sold # x
          /\ x.pos[s].qty # 0 /\ ~basis.suspended
  BY <1>4
<1>. QED  BY <1>5, <1>6, <1>7, <1>8, <1>9, <1>10

\* A turn of the sweep.
LEMMA SweepTurn ==
  ASSUME NEW w, IsWalk(w), w.kind = "sweep", NEW c, LedgerInv(c.d), IsProgress(c), IsEngine(c.e),
         NEW s \in Symbols, NEW r, r = SweepOne(c, s, w.marks, w.now, w.jammed)
  PROVE  Walked(w, c, r, {s})
<1>1. /\ IsProgress(r)
      /\ \/ r.d = c.d
         \/ /\ r.d = ExitIn(w, c, s) /\ r.d # c.d
            /\ c.d.pos[s].qty # 0 /\ ~BasisIn(w, c, s).suspended
      /\ r.e = JudgedIn(w, c, s) \/ (IsEngine(r.e) /\ r.e.last = c.e.last)
  BY SweepTurnParts
<1>2. PICK m \in Nat, t \in Nat : m = w.marks[s] /\ t = w.now
  BY DEF IsWalk
<1>3. PICK basis : basis = BasisIn(w, c, s)
  OBVIOUS
<1>4. PICK v : basis = Rebased(c.e, s, m, v, t)
  BY <1>2, <1>3 DEF BasisIn
<1>5. /\ basis.last \in Nat
      /\ ~Monitored =>
           basis.last = c.e.last[s] \/ (basis.last = m /\ ~Discontinuity(c.e.last[s], m))
      /\ ~Monitored /\ ~basis.suspended => ~Discontinuity(c.e.last[s], m)
  BY <1>4, BasisInBand
<1>6. /\ IsEngine(r.e)
      /\ \A u \in Symbols \ {s} : r.e.last[u] = c.e.last[u]
      /\ r.e.last[s] = c.e.last[s] \/ r.e.last[s] = basis.last
  <2>1. CASE IsEngine(r.e) /\ r.e.last = c.e.last
    BY <2>1
  <2>2. CASE r.e = JudgedIn(w, c, s)
    <3>1. PICK g : g = Observe(c.e, s, m, t)
      OBVIOUS
    <3>2. IsEngine(g) /\ g.last = c.e.last
      BY <3>1, ObserveKeepsMarks
    <3>3. PICK h : h = r.e
      OBVIOUS
    <3>4. PICK l \in Nat : l = basis.last
      BY <1>5
    <3>5. h = Marking(g, s, l)
      BY <1>2, <1>3, <2>2, <3>1, <3>3, <3>4 DEF JudgedIn, Marking
    <3>6. IsEngine(h) /\ h.last[s] = l /\ \A u \in Symbols \ {s} : h.last[u] = g.last[u]
      BY <3>2, <3>5, MarkKept
    <3>. QED  BY <3>2, <3>3, <3>4, <3>6
  <2>. QED  BY <1>1, <2>1, <2>2
<1>7. ~Monitored => \A u \in Symbols : \/ r.e.last[u] = c.e.last[u]
                                      \/ ~Discontinuity(c.e.last[u], r.e.last[u])
  BY <1>5, <1>6
<1>8. LedgerInv(r.d) /\ r.d.durable = c.d.durable /\ (r.d = c.d \/ SoldIn(w, c, r, {s}))
  <2>1. CASE r.d = c.d
    BY <2>1
  <2>2. CASE /\ r.d = ExitIn(w, c, s) /\ r.d # c.d
             /\ c.d.pos[s].qty # 0 /\ ~basis.suspended
    <3>1. PICK x, y, o : x = c.d /\ y = r.d /\ o = ExitOrder(x, s, m, t)
      OBVIOUS
    <3>2. y = Execute(x, o) /\ y # x /\ x.pos[s].qty # 0 /\ LedgerInv(x)
      BY <1>2, <2>2, <3>1 DEF ExitIn
    <3>3. /\ LedgerInv(y) /\ y.durable = x.durable /\ Len(y.ledger) > Len(x.ledger)
          /\ Last(y.ledger).side = "SELL" /\ Last(y.ledger).sym = s
      BY <1>2, <3>1, <3>2, ExitIsOrderly
    <3>4. ~Monitored => ~Discontinuity(c.e.last[s], w.marks[s])
      BY <1>2, <1>5, <2>2
    <3>. QED  BY <3>1, <3>3, <3>4 DEF SoldIn
  <2>. QED  BY <1>1, <1>3, <2>1, <2>2
<1>. QED  BY <1>1, <1>6, <1>7, <1>8 DEF Walked

\* A turn of the flatten.
LEMMA FlattenTurn ==
  ASSUME NEW w, IsWalk(w), w.kind = "flatten", NEW c, LedgerInv(c.d), IsProgress(c), IsEngine(c.e),
         NEW s \in Symbols, NEW r, r = FlattenOne(c, s, w.marks, w.now, w.jammed)
  PROVE  Walked(w, c, r, {s})
<1>1. PICK x, g, f, k : c = [d |-> x, e |-> g, failed |-> f, filled |-> k]
  BY DEF IsProgress
<1>2. c.d = x /\ c.e = g
  BY <1>1
<1>3. PICK m \in Nat, t \in Nat : m = w.marks[s] /\ t = w.now
  BY DEF IsWalk
<1>4. PICK o : o = ExitOrder(x, s, m, t)
  OBVIOUS
<1>5. PICK y : y = Execute(x, o)
  OBVIOUS
<1>6. r = IF x.pos[s].qty = 0 THEN c
          ELSE IF m = 0 \/ s \in w.jammed \/ y = x THEN [c EXCEPT !.failed = TRUE]
          ELSE [c EXCEPT !.d = y, !.filled = TRUE]
  BY <1>2, <1>3, <1>4, <1>5 DEF FlattenOne
<1>7. CASE r = c \/ r = [c EXCEPT !.failed = TRUE]
  <2>1. IsProgress(r) /\ r.d = c.d /\ r.e = c.e
    BY <1>1, <1>7 DEF IsProgress
  <2>. QED  BY <2>1 DEF Walked
<1>8. CASE r = [c EXCEPT !.d = y, !.filled = TRUE] /\ x.pos[s].qty # 0 /\ y # x
  <2>1. IsProgress(r) /\ r.d = y /\ r.e = c.e
    BY <1>1, <1>8 DEF IsProgress
  <2>2. /\ LedgerInv(y) /\ y.durable = x.durable /\ Len(y.ledger) > Len(x.ledger)
        /\ Last(y.ledger).side = "SELL" /\ Last(y.ledger).sym = s
    BY <1>2, <1>3, <1>4, <1>5, <1>8, ExitIsOrderly
  <2>3. SoldIn(w, c, r, {s})
    BY <1>2, <2>1, <2>2 DEF SoldIn
  <2>. QED  BY <1>2, <2>1, <2>2, <2>3 DEF Walked
<1>. QED  BY <1>6, <1>7, <1>8

\* Either turn.
LEMMA TurnKeeps ==
  ASSUME NEW w, IsWalk(w), NEW c, LedgerInv(c.d), IsProgress(c), IsEngine(c.e), NEW s \in Symbols,
         NEW r, r = Turn(w, c, s)
  PROVE  Walked(w, c, r, {s})
<1>1. CASE w.kind = "sweep"
  <2>1. r = SweepOne(c, s, w.marks, w.now, w.jammed)
    BY <1>1 DEF Turn
  <2>. QED  BY <1>1, <2>1, SweepTurn
<1>2. CASE w.kind = "flatten"
  <2>1. r = FlattenOne(c, s, w.marks, w.now, w.jammed)
    BY <1>2 DEF Turn
  <2>. QED  BY <1>2, <2>1, FlattenTurn
<1>. QED  BY <1>1, <1>2 DEF IsWalk

\* A turn of a symbol not yet met, after a walk over others.
LEMMA WalkedFurther ==
  ASSUME NEW w, NEW c, NEW b, NEW a, NEW T, T \subseteq Symbols, NEW s \in Symbols, s \notin T,
         Walked(w, c, b, T), Walked(w, b, a, {s})
  PROVE  Walked(w, c, a, T \cup {s})
<1>1. /\ IsProgress(a) /\ LedgerInv(a.d) /\ IsEngine(a.e)
      /\ a.d.durable = c.d.durable
      /\ w.kind = "flatten" => a.e = c.e
  BY DEF Walked
<1>2. /\ \A u \in Symbols \ T : b.e.last[u] = c.e.last[u]
      /\ \A u \in Symbols \ {s} : a.e.last[u] = b.e.last[u]
      /\ b.d = c.d \/ SoldIn(w, c, b, T)
      /\ a.d = b.d \/ SoldIn(w, b, a, {s})
  BY DEF Walked
<1>3. \A u \in Symbols \ (T \cup {s}) : a.e.last[u] = c.e.last[u]
  BY <1>2
<1>4. ~Monitored => \A u \in Symbols : \/ a.e.last[u] = c.e.last[u]
                                       \/ ~Discontinuity(c.e.last[u], a.e.last[u])
  <2>1. ~Monitored => \A u \in Symbols : \/ b.e.last[u] = c.e.last[u]
                                         \/ ~Discontinuity(c.e.last[u], b.e.last[u])
    BY DEF Walked
  <2>2. ~Monitored => \/ a.e.last[s] = b.e.last[s]
                      \/ ~Discontinuity(b.e.last[s], a.e.last[s])
    BY DEF Walked
  <2>3. b.e.last[s] = c.e.last[s]
    BY <1>2
  <2>. QED  BY <1>2, <2>1, <2>2, <2>3
<1>5. a.d = c.d \/ SoldIn(w, c, a, T \cup {s})
  <2>1. CASE a.d = b.d
    <3>1. SoldIn(w, c, b, T) => SoldIn(w, c, a, T \cup {s})
      BY <2>1 DEF SoldIn
    <3>. QED  BY <1>2, <2>1, <3>1
  <2>2. CASE SoldIn(w, b, a, {s})
    <3>1. /\ Len(a.d.ledger) > Len(b.d.ledger)
          /\ Last(a.d.ledger).side = "SELL" /\ Last(a.d.ledger).sym = s
          /\ w.kind = "sweep" /\ ~Monitored => ~Discontinuity(b.e.last[s], w.marks[s])
      BY <2>2 DEF SoldIn
    <3>2. b.e.last[s] = c.e.last[s]
      BY <1>2
    <3>3. Len(a.d.ledger) > Len(c.d.ledger)
      <4>1. b.d = c.d \/ Len(b.d.ledger) > Len(c.d.ledger)
        BY <1>2 DEF SoldIn
      <4>2. CASE b.d = c.d
        BY <3>1, <4>2
      <4>3. CASE Len(b.d.ledger) > Len(c.d.ledger)
        <5>1. Len(b.d.ledger) \in Nat /\ Len(a.d.ledger) \in Nat
          BY LedgerFields DEF Walked, LedgerInv
        <5>. QED  BY <3>1, <4>3, <5>1
      <4>. QED  BY <4>1, <4>2, <4>3
    <3>. QED  BY <3>1, <3>2, <3>3 DEF SoldIn
  <2>. QED  BY <1>2, <2>1, <2>2
<1>. QED  BY <1>1, <1>3, <1>4, <1>5 DEF Walked

-----------------------------------------------------------------------------
(* The fold behind a walk, over the subsets of the symbols.                *)

\* g gives the walk's progress over every subset of S, one turn at a time.
WalksOver(g, w, start, S) ==
  g = [T \in SUBSET S |->
         IF T = {} THEN start ELSE Turn(w, g[T \ {Picked(T)}], Picked(T))]

\* The equation of such a function, turn by turn.
LEMMA WalkSteps ==
  ASSUME NEW g, NEW w, NEW start, NEW S, WalksOver(g, w, start, S)
  PROVE  /\ g[{}] = start
         /\ \A T \in SUBSET S : T # {} => g[T] = Turn(w, g[T \ {Picked(T)}], Picked(T))
BY DEF WalksOver

\* Two such functions agree where both are defined.
LEMMA WalksAgree ==
  ASSUME NEW w, NEW start, NEW S, NEW R, NEW g, NEW h, WalksOver(g, w, start, S),
         WalksOver(h, w, start, R), NEW U, IsFiniteSet(U), U \subseteq S, U \subseteq R
  PROVE  g[U] = h[U]
<1>. DEFINE Bad == {T \in SUBSET U : g[T] # h[T]}
<1>. SUFFICES ASSUME Bad # {} PROVE FALSE
  OBVIOUS
<1>1. PICK T \in Bad : \A V \in Bad : V \subseteq T => V = T
  <2>1. Bad \subseteq SUBSET U
    OBVIOUS
  <2>. HIDE DEF Bad
  <2>. QED  BY <2>1, MinimalSubset
<1>2. T \in SUBSET S /\ T \in SUBSET R /\ T \subseteq U /\ g[T] # h[T]
  BY <1>1
<1>3. T # {}
  <2>. HIDE DEF Bad
  <2>. QED  BY <1>2, WalkSteps
<1>4. Picked(T) \in T
  BY <1>3 DEF Picked
<1>5. T \ {Picked(T)} \notin Bad
  BY <1>1, <1>4
<1>6. g[T \ {Picked(T)}] = h[T \ {Picked(T)}]
  BY <1>2, <1>5
<1>7. /\ g[T] = Turn(w, g[T \ {Picked(T)}], Picked(T))
      /\ h[T] = Turn(w, h[T \ {Picked(T)}], Picked(T))
  <2>. HIDE DEF Bad
  <2>. QED  BY <1>2, <1>3, WalkSteps
<1>. HIDE DEF Bad
<1>. QED  BY <1>2, <1>6, <1>7

\* Such a function exists over every finite set.
LEMMA WalksExist ==
  ASSUME NEW w, NEW start, NEW S, IsFiniteSet(S)
  PROVE  \E g : WalksOver(g, w, start, S)
<1>. DEFINE Bad == {T \in SUBSET S : ~ \E g : WalksOver(g, w, start, T)}
<1>. SUFFICES ASSUME Bad # {} PROVE FALSE
  OBVIOUS
<1>1. PICK U \in Bad : \A V \in Bad : V \subseteq U => V = U
  <2>1. Bad \subseteq SUBSET S
    OBVIOUS
  <2>. HIDE DEF Bad
  <2>. QED  BY <2>1, MinimalSubset
<1>. DEFINE G(V) == CHOOSE g : WalksOver(g, w, start, V)
            Below(T) == T \ {Picked(T)}
            Next1(f, T) == IF T = {} THEN start ELSE Turn(w, f[Below(T)], Picked(T))
            h == [T \in SUBSET U |-> Next1(G(Below(T)), T)]
<1>2. \A T \in SUBSET U : T # {} => Picked(T) \in T
  BY DEF Picked
<1>3. \A T \in SUBSET U : T # U => WalksOver(G(T), w, start, T)
  BY <1>1
<1>4. \A T \in SUBSET U : IsFiniteSet(T)
  BY FS_Subset
<1>5. ASSUME NEW T \in SUBSET U, T # {}
      PROVE  h[Below(T)] = G(Below(T))[Below(T)]
  <2>1. PICK V : V = Below(T)
    OBVIOUS
  <2>2. V \in SUBSET U /\ V # U
    BY <1>2, <1>5, <2>1
  <2>3. WalksOver(G(V), w, start, V)
    BY <1>3, <2>2
  <2>4. h[V] = Next1(G(Below(V)), V)
    BY <2>2
  <2>5. CASE V = {}
    <3>1. G(V)[V] = start
      <4>. HIDE DEF G, Bad, h
      <4>. QED  BY <2>3, <2>5, WalkSteps
    <3>. QED  BY <2>1, <2>4, <2>5, <3>1
  <2>6. CASE V # {}
    <3>1. Picked(V) \in V /\ Below(V) \in SUBSET U /\ Below(V) # U
      BY <1>2, <2>2, <2>6
    <3>2. WalksOver(G(Below(V)), w, start, Below(V))
      BY <1>3, <3>1
    <3>3. G(V)[Below(V)] = G(Below(V))[Below(V)]
      <4>1. IsFiniteSet(Below(V)) /\ Below(V) \subseteq V
        BY <1>4, <3>1
      <4>. HIDE DEF G, Below, Bad, h
      <4>. QED  BY WalksAgree, <2>3, <3>2, <4>1
    <3>4. G(V)[V] = Turn(w, G(V)[Below(V)], Picked(V))
      <4>1. V \in SUBSET V
        OBVIOUS
      <4>. HIDE DEF G, Bad, h
      <4>. QED  BY <2>3, <2>6, <4>1, WalkSteps
    <3>5. h[V] = Turn(w, G(Below(V))[Below(V)], Picked(V))
      <4>. HIDE DEF G, Bad, h, Below
      <4>. QED  BY <2>4, <2>6
    <3>. HIDE DEF G, Bad, h, Below
    <3>. QED  BY <2>1, <3>3, <3>4, <3>5
  <2>. HIDE DEF G, Bad, h, Below
  <2>. QED  BY <2>5, <2>6
<1>6. WalksOver(h, w, start, U)
  <2>1. ASSUME NEW T \in SUBSET U
        PROVE  Next1(G(Below(T)), T) = Next1(h, T)
    <3>. HIDE DEF G, Below, h, Bad
    <3>. QED  BY <1>5
  <2>2. h = [T \in SUBSET U |-> Next1(h, T)]
    <3>1. \A T \in SUBSET U : h[T] = Next1(G(Below(T)), T)
      OBVIOUS
    <3>2. h = [T \in SUBSET U |-> h[T]]
      OBVIOUS
    <3>. HIDE DEF G, Below, h, Next1
    <3>. QED  BY <2>1, <3>1, <3>2
  <2>. HIDE DEF h
  <2>. QED  BY <2>2 DEF WalksOver
<1>. HIDE DEF h
<1>. QED  BY <1>1, <1>6

\* The same with the turns of a sweep, and the fold the daemon's sweep is.
SweepsOver(g, start, S, ms, t, jam) ==
  g = [T \in SUBSET S |->
         IF T = {} THEN start ELSE SweepOne(g[T \ {Picked(T)}], Picked(T), ms, t, jam)]
SweepFold(start, S, ms, t, jam) ==
  FoldSet(LAMBDA s, c : SweepOne(c, s, ms, t, jam), start, S)

\* What the fold of the sweep stands for.
LEMMA SweepFoldDef ==
  ASSUME NEW start, NEW S, NEW ms, NEW t, NEW jam
  PROVE  SweepFold(start, S, ms, t, jam) = (CHOOSE g : SweepsOver(g, start, S, ms, t, jam))[S]
BY DEF SweepFold, FoldSet, MapThenFoldSet, SweepsOver, Picked

\* The sweep is a walk.
LEMMA SweepIsWalk ==
  ASSUME NEW start, NEW S, IsFiniteSet(S), NEW ms, NEW t, NEW jam, NEW w,
         w = [kind |-> "sweep", marks |-> ms, now |-> t, jammed |-> jam]
  PROVE  \E g : /\ WalksOver(g, w, start, S)
                /\ SweepFold(start, S, ms, t, jam) = g[S]
<1>1. \A c, s : Turn(w, c, s) = SweepOne(c, s, ms, t, jam)
  BY DEF Turn
<1>2. ASSUME NEW g
      PROVE  SweepsOver(g, start, S, ms, t, jam) <=> WalksOver(g, w, start, S)
  <2>1. [T \in SUBSET S |->
           IF T = {} THEN start ELSE SweepOne(g[T \ {Picked(T)}], Picked(T), ms, t, jam)]
        = [T \in SUBSET S |->
             IF T = {} THEN start ELSE Turn(w, g[T \ {Picked(T)}], Picked(T))]
    BY <1>1
  <2>. QED  BY <2>1 DEF SweepsOver, WalksOver
<1>3. \E g : SweepsOver(g, start, S, ms, t, jam)
  BY <1>2, WalksExist
<1>4. PICK h : h = CHOOSE g : SweepsOver(g, start, S, ms, t, jam)
  OBVIOUS
<1>5. SweepsOver(h, start, S, ms, t, jam)
  BY <1>3, <1>4
<1>6. SweepFold(start, S, ms, t, jam) = h[S]
  BY <1>4, SweepFoldDef
<1>. QED  BY <1>2, <1>5, <1>6

\* The same with the turns of a flatten, and the fold the daemon's flatten is.
FlattensOver(g, start, S, ms, t, jam) ==
  g = [T \in SUBSET S |->
         IF T = {} THEN start ELSE FlattenOne(g[T \ {Picked(T)}], Picked(T), ms, t, jam)]
FlattenFold(start, S, ms, t, jam) ==
  FoldSet(LAMBDA s, x : FlattenOne(x, s, ms, t, jam), start, S)

\* What the fold of the flatten stands for.
LEMMA FlattenFoldDef ==
  ASSUME NEW start, NEW S, NEW ms, NEW t, NEW jam
  PROVE  FlattenFold(start, S, ms, t, jam) = (CHOOSE g : FlattensOver(g, start, S, ms, t, jam))[S]
BY DEF FlattenFold, FoldSet, MapThenFoldSet, FlattensOver, Picked

\* The flatten is a walk.
LEMMA FlattenIsWalk ==
  ASSUME NEW start, NEW S, IsFiniteSet(S), NEW ms, NEW t, NEW jam, NEW w,
         w = [kind |-> "flatten", marks |-> ms, now |-> t, jammed |-> jam]
  PROVE  \E g : /\ WalksOver(g, w, start, S)
                /\ FlattenFold(start, S, ms, t, jam) = g[S]
<1>1. \A c, s : Turn(w, c, s) = FlattenOne(c, s, ms, t, jam)
  BY DEF Turn
<1>2. ASSUME NEW g
      PROVE  FlattensOver(g, start, S, ms, t, jam) <=> WalksOver(g, w, start, S)
  <2>1. [T \in SUBSET S |->
           IF T = {} THEN start ELSE FlattenOne(g[T \ {Picked(T)}], Picked(T), ms, t, jam)]
        = [T \in SUBSET S |->
             IF T = {} THEN start ELSE Turn(w, g[T \ {Picked(T)}], Picked(T))]
    BY <1>1
  <2>. QED  BY <2>1 DEF FlattensOver, WalksOver
<1>3. \E g : FlattensOver(g, start, S, ms, t, jam)
  BY <1>2, WalksExist
<1>4. PICK h : h = CHOOSE g : FlattensOver(g, start, S, ms, t, jam)
  OBVIOUS
<1>5. FlattensOver(h, start, S, ms, t, jam)
  BY <1>3, <1>4
<1>6. FlattenFold(start, S, ms, t, jam) = h[S]
  BY <1>4, FlattenFoldDef
<1>. QED  BY <1>2, <1>5, <1>6

\* A whole walk.
LEMMA WalkKeeps ==
  ASSUME NEW w, IsWalk(w), NEW start, LedgerInv(start.d), IsProgress(start), IsEngine(start.e),
         NEW g, WalksOver(g, w, start, Symbols)
  PROVE  Walked(w, start, g[Symbols], Symbols)
<1>1. IsFiniteSet(Symbols)
  BY LedgerAssumption
<1>. DEFINE Bad == {T \in SUBSET Symbols : ~Walked(w, start, g[T], T)}
<1>. SUFFICES ASSUME Bad # {} PROVE FALSE
  <2>1. Symbols \in SUBSET Symbols
    OBVIOUS
  <2>. QED  BY <2>1
<1>2. PICK T \in Bad : \A V \in Bad : V \subseteq T => V = T
  <2>1. Bad \subseteq SUBSET Symbols
    OBVIOUS
  <2>. HIDE DEF Bad
  <2>. QED  BY <1>1, <2>1, MinimalSubset
<1>3. T \in SUBSET Symbols /\ ~Walked(w, start, g[T], T)
  BY <1>2
<1>4. g[{}] = start /\ (T # {} => g[T] = Turn(w, g[T \ {Picked(T)}], Picked(T)))
  <2>. HIDE DEF Bad
  <2>. QED  BY <1>3, WalkSteps
<1>5. CASE T = {}
  <2>1. Walked(w, start, start, {})
    BY DEF Walked
  <2>. HIDE DEF Bad
  <2>. QED  BY <1>3, <1>4, <1>5, <2>1
<1>6. CASE T # {}
  <2>1. PICK s, V : s = Picked(T) /\ V = T \ {s}
    OBVIOUS
  <2>2. s \in T
    BY <1>6, <2>1 DEF Picked
  <2>3. s \in Symbols /\ s \notin V /\ V \cup {s} = T /\ V \subseteq Symbols
    BY <1>3, <2>1, <2>2
  <2>4. V \notin Bad
    BY <1>2, <2>1, <2>2
  <2>5. PICK b, a : b = g[V] /\ a = g[T]
    OBVIOUS
  <2>6. Walked(w, start, b, V)
    BY <2>3, <2>4, <2>5
  <2>. HIDE DEF Bad
  <2>7. a = Turn(w, b, s)
    BY <1>4, <1>6, <2>1, <2>5
  <2>8. LedgerInv(b.d) /\ IsProgress(b) /\ IsEngine(b.e)
    BY <2>6 DEF Walked
  <2>9. Walked(w, b, a, {s})
    BY <2>3, <2>7, <2>8, TurnKeeps
  <2>10. Walked(w, start, a, V \cup {s})
    BY <2>3, <2>6, <2>9, WalkedFurther
  <2>. QED  BY <1>3, <2>3, <2>5, <2>10
<1>. QED  BY <1>5, <1>6

-----------------------------------------------------------------------------
(* The sweep and the flatten.                                              *)

\* What a walk meets, as one record.
WalkOf(kind, ms, t, jam) == [kind |-> kind, marks |-> ms, now |-> t, jammed |-> jam]

\* A ledger and an engine before a sweep.
Before(x, g) == [d |-> x, e |-> g, failed |-> FALSE, filled |-> FALSE]

\* A sweep over every symbol.
LEMMA SweepKeeps ==
  ASSUME NEW x, LedgerInv(x), NEW g, IsEngine(g), NEW ms \in [Symbols -> Nat], NEW t \in Nat,
         NEW jam, NEW r, r = Sweep(x, g, ms, t, jam)
  PROVE  Walked(WalkOf("sweep", ms, t, jam), Before(x, g), r, Symbols)
<1>1. PICK w : w = WalkOf("sweep", ms, t, jam)
  OBVIOUS
<1>2. IsWalk(w) /\ w.kind = "sweep"
  BY <1>1 DEF IsWalk, WalkOf
<1>3. PICK h : h = [g EXCEPT !.blind = {}]
  OBVIOUS
<1>4. IsEngine(h) /\ h.last = g.last
  <2>1. PICK Seens, Opens, Blinds :
          g \in [last : [Symbols -> Nat], seen : Seens, open : Opens, blind : Blinds]
    BY DEF IsEngine
  <2>2. PICK none : none = {}
    OBVIOUS
  <2>3. /\ h \in [last : [Symbols -> Nat], seen : Seens, open : Opens, blind : {none}]
        /\ h.last = g.last
    BY <1>3, <2>1, <2>2
  <2>. QED  BY <2>3 DEF IsEngine
<1>5. PICK start : start = [d |-> x, e |-> h, failed |-> FALSE, filled |-> FALSE]
  OBVIOUS
<1>6. IsProgress(start) /\ start.d = x /\ start.e = h
  BY <1>5 DEF IsProgress
<1>7. PICK done : done = SweepFold(start, Symbols, ms, t, jam)
  OBVIOUS
<1>8. r = [done EXCEPT !.e = Forget(@, Open(done.d))]
  BY <1>3, <1>5, <1>7 DEF Sweep, SweepFold
<1>9. Walked(w, start, done, Symbols)
  <2>1. PICK f : WalksOver(f, w, start, Symbols) /\ done = f[Symbols]
    BY <1>1, <1>7, LedgerAssumption, SweepIsWalk DEF WalkOf
  <2>2. LedgerInv(start.d) /\ IsEngine(start.e)
    BY <1>4, <1>6
  <2>. QED  BY <1>2, <1>6, <2>1, <2>2, WalkKeeps
<1>10. PICK k : k = Forget(done.e, Open(done.d))
  OBVIOUS
<1>11. IsEngine(k) /\ k.last = done.e.last
  <2>1. PICK f : f = done.e
    OBVIOUS
  <2>2. PICK Seens, Opens, Blinds :
          f \in [last : [Symbols -> Nat], seen : Seens, open : Opens, blind : Blinds]
    BY <1>9, <2>1 DEF Walked, IsEngine
  <2>3. PICK seen, open : k = [f EXCEPT !.seen = seen, !.open = open]
    BY <1>10, <2>1 DEF Forget
  <2>4. /\ k \in [last : [Symbols -> Nat], seen : {seen}, open : {open}, blind : Blinds]
        /\ k.last = f.last
    BY <2>2, <2>3
  <2>. QED  BY <2>1, <2>4 DEF IsEngine
<1>12. IsProgress(r) /\ r.d = done.d /\ r.e = k
  <2>1. IsProgress(done)
    BY <1>9 DEF Walked
  <2>2. PICK y, f, a, b : done = [d |-> y, e |-> f, failed |-> a, filled |-> b]
    BY <2>1 DEF IsProgress
  <2>3. r = [done EXCEPT !.e = k]
    BY <1>8, <1>10, <2>2
  <2>. QED  BY <2>2, <2>3 DEF IsProgress
<1>13. PICK c : c = Before(x, g)
  OBVIOUS
<1>14. c.d = x /\ c.e = g
  BY <1>13 DEF Before
<1>15. LedgerInv(r.d) /\ r.d.durable = c.d.durable /\ (r.d = c.d \/ SoldIn(w, c, r, Symbols))
  <2>1. /\ LedgerInv(done.d) /\ done.d.durable = start.d.durable
        /\ done.d = start.d \/ SoldIn(w, start, done, Symbols)
    BY <1>9 DEF Walked
  <2>2. SoldIn(w, start, done, Symbols) => SoldIn(w, c, r, Symbols)
    BY <1>4, <1>6, <1>12, <1>14 DEF SoldIn
  <2>. QED  BY <1>6, <1>12, <1>14, <2>1, <2>2
<1>16. ~Monitored => \A s \in Symbols : \/ r.e.last[s] = c.e.last[s]
                                        \/ ~Discontinuity(c.e.last[s], r.e.last[s])
  BY <1>4, <1>6, <1>9, <1>11, <1>12, <1>14 DEF Walked
<1>17. Walked(w, c, r, Symbols)
  BY <1>2, <1>11, <1>12, <1>15, <1>16 DEF Walked
<1>. QED  BY <1>1, <1>13, <1>17

\* A flatten over every symbol.
LEMMA FlattenKeeps ==
  ASSUME NEW c, LedgerInv(c.d), IsProgress(c), IsEngine(c.e), NEW ms \in [Symbols -> Nat],
         NEW t \in Nat, NEW jam, NEW r, r = Flatten(c, ms, t, jam)
  PROVE  Walked(WalkOf("flatten", ms, t, jam), c, r, Symbols)
<1>1. PICK w : w = WalkOf("flatten", ms, t, jam)
  OBVIOUS
<1>2. IsWalk(w)
  BY <1>1 DEF IsWalk, WalkOf
<1>3. r = FlattenFold(c, Symbols, ms, t, jam)
  BY DEF Flatten, FlattenFold
<1>4. PICK f : WalksOver(f, w, c, Symbols) /\ r = f[Symbols]
  BY <1>1, <1>3, LedgerAssumption, FlattenIsWalk DEF WalkOf
<1>5. Walked(w, c, f[Symbols], Symbols)
  BY <1>2, <1>4, WalkKeeps
<1>. QED  BY <1>1, <1>4, <1>5

-----------------------------------------------------------------------------
(* The kill switch.                                                        *)

\* The states of a switch: clear, halted by the operator, halted by a fault.
Halts == {"none", "operator", "fault"}

\* The memory switch beside the ledger: an operator halt is in the database only while the
\* halt file is there, and memory never takes a fault in the database for the operator's.
SwitchInv(h) ==
  /\ h = [halt |-> h.halt, d |-> h.d]
  /\ LedgerInv(h.d) /\ h.halt \in Halts
  /\ file \/ h.d.durable # "operator"
  /\ h.halt = "operator" => h.d.durable # "fault"

\* Only the durable switch and the risk state's rows may differ.
SameTables(x, y) ==
  /\ y.cash = x.cash /\ y.pos = x.pos /\ y.reserved = x.reserved /\ y.ledger = x.ledger
  /\ y.claims = x.claims /\ y.cooldown = x.cooldown

\* A halt may have been latched, or an operator's taken back, in the same ledger; none in the
\* database is released.
Switched(h, g) ==
  /\ SwitchInv(g) /\ SameTables(h.d, g.d)
  /\ g.d.durable = "none" => h.d.durable = "none"

\* The tables alone decide what the ledger holds.
LEMMA TablesDecide ==
  ASSUME NEW x, LedgerInv(x), NEW y, IsLedger(y), SameTables(x, y)
  PROVE  LedgerInv(y)
<1>1. /\ Matched(x) /\ KeysOnce(x) /\ ClosesWhole(x) /\ MarginHeld(x)
      /\ y.cash = x.cash /\ y.pos = x.pos /\ y.reserved = x.reserved /\ y.ledger = x.ledger
      /\ y.claims = x.claims
  BY DEF LedgerInv, SameTables
<1>2. Books(y) = Books(x)
  BY <1>1 DEF Books
<1>3. Matched(y)
  BY <1>1, <1>2 DEF Matched
<1>4. KeysOnce(y)
  BY <1>1 DEF KeysOnce
<1>5. ClosesWhole(y)
  BY <1>1 DEF ClosesWhole
<1>6. MarginHeld(y)
  BY <1>1 DEF MarginHeld
<1>. QED  BY <1>3, <1>4, <1>5, <1>6 DEF LedgerInv

\* A new value of the durable switch.
LEMMA DurableSet ==
  ASSUME NEW x, LedgerInv(x), NEW v \in Halts, NEW y, y = [x EXCEPT !.durable = v]
  PROVE  LedgerInv(y) /\ SameTables(x, y) /\ y.durable = v
<1>1. PICK P, Q : x \in Ledgers(P, Q)
  BY DEF LedgerInv, IsLedger
<1>2. y \in Ledgers(P, Q) /\ y.durable = v
  BY <1>1 DEF Ledgers, Halts
<1>3. SameTables(x, y)
  BY <1>1 DEF Ledgers, SameTables
<1>. QED  BY <1>2, <1>3, TablesDecide DEF IsLedger

\* A marked book.
LEMMA EquityRecorded ==
  ASSUME NEW x, LedgerInv(x), NEW day, NEW equity, NEW y, y = RecordEquity(x, day, equity)
  PROVE  LedgerInv(y) /\ SameTables(x, y) /\ y.durable = x.durable
<1>1. PICK P, Q : x \in Ledgers(P, Q)
  BY DEF LedgerInv, IsLedger
<1>2. PICK a, b : y = [x EXCEPT !.daily = a, !.peak = b]
  BY DEF RecordEquity
<1>3. y \in Ledgers({b}, {a}) /\ y.durable = x.durable
  BY <1>1, <1>2 DEF Ledgers
<1>4. SameTables(x, y)
  BY <1>1, <1>2 DEF Ledgers, SameTables
<1>. QED  BY <1>3, <1>4, TablesDecide DEF IsLedger

\* The figures a caller dates, recorded beside the ledger.
LEMMA BooksMarked ==
  ASSUME NEW x, LedgerInv(x), NEW at, NEW y, y = Marked(x, at)
  PROVE  LedgerInv(y) /\ SameTables(x, y) /\ y.durable = x.durable
<1>1. PICK day, equity : y = RecordEquity(x, day, equity)
  BY DEF Marked
<1>. QED  BY <1>1, EquityRecorded

\* Memory set to m and the database to v.
SetTo(h, m, v) == [h EXCEPT !.halt = m, !.d.durable = v]

\* The memory switch and the durable one are set together.
LEMMA SwitchSet ==
  ASSUME NEW h, SwitchInv(h), NEW m \in Halts, NEW v \in Halts,
         NEW g, g = SetTo(h, m, v),
         file \/ v # "operator", m = "operator" => v # "fault"
  PROVE  SwitchInv(g) /\ SameTables(h.d, g.d) /\ g.d.durable = v
<1>1. PICK a, x : h = [halt |-> a, d |-> x]
  BY DEF SwitchInv
<1>2. LedgerInv(x) /\ h.d = x
  BY <1>1 DEF SwitchInv
<1>3. PICK y : y = [x EXCEPT !.durable = v]
  OBVIOUS
<1>4. g = [halt |-> m, d |-> y]
  BY <1>1, <1>3 DEF SetTo
<1>5. LedgerInv(y) /\ SameTables(x, y) /\ y.durable = v
  BY <1>2, <1>3, DurableSet
<1>6. g.halt = m /\ g.d = y
  BY <1>4
<1>7. SwitchInv(g)
  BY <1>4, <1>5, <1>6 DEF SwitchInv
<1>. QED  BY <1>2, <1>5, <1>6, <1>7

\* A latched fault.
LEMMA FaultLatched ==
  ASSUME NEW h, SwitchInv(h), NEW g, g = Engage(h)
  PROVE  Switched(h, g)
<1>1. CASE h.halt # "none"
  BY <1>1 DEF Engage, Switched, SameTables
<1>2. CASE h.halt = "none"
  <2>1. PICK m \in Halts, v \in Halts : m = "fault" /\ v = "fault"
    BY DEF Halts
  <2>2. g = SetTo(h, m, v)
    BY <1>2, <2>1 DEF Engage, SetTo
  <2>3. SwitchInv(g) /\ SameTables(h.d, g.d) /\ g.d.durable = v
    BY <2>1, <2>2, SwitchSet
  <2>. QED  BY <2>1, <2>3 DEF Switched
<1>. QED  BY <1>1, <1>2

\* The operator's file, read.
LEMMA FileRead ==
  ASSUME NEW h, SwitchInv(h), NEW g, g = ApplyOperatorHalt(h)
  PROVE  Switched(h, g)
<1>1. CASE file /\ h.halt = "none"
  <2>1. PICK m \in Halts, v \in Halts : m = "operator" /\ v = "operator"
    BY DEF Halts
  <2>2. g = SetTo(h, m, v)
    BY <1>1, <2>1 DEF ApplyOperatorHalt, SetTo
  <2>3. SwitchInv(g) /\ SameTables(h.d, g.d) /\ g.d.durable = v
    BY <1>1, <2>1, <2>2, SwitchSet
  <2>. QED  BY <2>1, <2>3 DEF Switched
<1>2. CASE ~file /\ h.halt = "operator"
  <2>1. PICK m \in Halts, v \in Halts : m = "none" /\ v = "none"
    BY DEF Halts
  <2>2. g = SetTo(h, m, v)
    BY <1>2, <2>1 DEF ApplyOperatorHalt, SetTo
  <2>3. SwitchInv(g) /\ SameTables(h.d, g.d) /\ g.d.durable = v
    BY <2>1, <2>2, SwitchSet
  <2>4. h.d.durable = "none"
    <3>1. h.d.durable # "operator" /\ h.d.durable # "fault" /\ IsLedger(h.d)
      BY <1>2 DEF SwitchInv, LedgerInv
    <3>. QED  BY <3>1, LedgerFields
  <2>. QED  BY <2>3, <2>4 DEF Switched
<1>3. CASE g = h
  BY <1>3 DEF Switched, SameTables
<1>. QED  BY <1>1, <1>2, <1>3 DEF ApplyOperatorHalt

\* One after the other.
LEMMA SwitchedTwice ==
  ASSUME NEW h, NEW g, NEW k, Switched(h, g), Switched(g, k)
  PROVE  Switched(h, k)
BY DEF Switched, SameTables

-----------------------------------------------------------------------------
(* The daemon's day.                                                       *)

\* The orders a cadence carries to the broker.
OrderRows ==
  [sym : Symbols, side : {"BUY", "SELL"}, qty : Nat \ {0}, price : Nat, stop : Nat,
   target : Nat, key : Keys, until : Nat, protective : BOOLEAN, at : Nat]

\* The inductive invariant: the ledger and the switch as above, a clock and marks, and the
\* order a cadence carries to the broker, which is dated when the cadence began.
DayInv ==
  /\ LedgerInv(d) /\ IsEngine(e)
  /\ halt \in Halts
  /\ file \/ d.durable # "operator"
  /\ halt = "operator" => d.durable # "fault"
  /\ now \in Nat /\ marks \in [Symbols -> Nat]
  /\ began \in Nat /\ began <= now
  /\ pc = "submitting" => order \in OrderRows /\ ~order.protective /\ order.at <= now

\* An entry is filled after the cooldown and without a durable halt.
EntryAllowed == \A s \in Symbols : BoughtNow(s) => now >= d.cooldown[s] /\ d.durable = "none"

\* A kept mark moves inside the band, and an exit away from the window sells inside it.
BasisComparable ==
  \A s \in Open(d) :
    /\ e'.last[s] # 0 => ~Discontinuity(e.last[s], e'.last[s])
    /\ SoldByExit(s) /\ now \notin FlattenAt => ~Discontinuity(e.last[s], marks[s])

\* The state before the first step.
LEMMA InitDay ==
  Init => DayInv
<1>. SUFFICES ASSUME Init PROVE DayInv
  OBVIOUS
<1>1. PICK x : x = EmptyLedger
  OBVIOUS
<1>2. PICK flat \in HeldRows : flat = Flat
  <2>1. Flat \in HeldRows
    BY DEF HeldRows, Flat
  <2>. QED  BY <2>1
<1>3. /\ x.cash = StartingCapital /\ x.pos = [s \in Symbols |-> flat]
      /\ x.reserved = [s \in Symbols |-> 0] /\ x.ledger = <<>> /\ x.durable = "none"
  BY <1>1, <1>2 DEF EmptyLedger
<1>4. IsLedger(x)
  <2>1. PICK fills \in Seq(FillRows) : fills = <<>>
    <3>1. <<>> \in Seq(FillRows)
      OBVIOUS
    <3>. QED  BY <3>1
  <2>2. PICK daily, claims :
          daily = [day |-> 0, opening |-> 0, last |-> 0] /\ claims = {}
    OBVIOUS
  <2>3. PICK pos \in [Symbols -> HeldRows] : pos = [s \in Symbols |-> Flat]
    BY <1>2
  <2>4. PICK zeros \in [Symbols -> Nat] : zeros = [s \in Symbols |-> 0]
    OBVIOUS
  <2>5. zeros \in [Symbols -> Int] /\ StartingCapital \in Int
    BY LedgerAssumption
  <2>6. x = [cash |-> StartingCapital, pos |-> pos, reserved |-> zeros, ledger |-> fills,
             claims |-> claims, cooldown |-> zeros, durable |-> "none",
             peak |-> StartingCapital, daily |-> daily]
    BY <1>1, <2>1, <2>2, <2>3, <2>4 DEF EmptyLedger
  <2>7. x \in Ledgers({StartingCapital}, {daily})
    <3>1. claims \in SUBSET Keys
      BY <2>2
    <3>. QED  BY <2>5, <2>6, <3>1 DEF Ledgers
  <2>. QED  BY <2>7 DEF IsLedger
<1>5. Len(x.ledger) = 0
  BY <1>3
<1>6. Matched(x)
  <2>1. Replayed(x.ledger)[0] = BlankBooks
    BY <1>5, ReplaySteps
  <2>2. Books(x) = BlankBooks
    BY <1>2, <1>3 DEF Books, BlankBooks
  <2>. QED  BY <1>5, <2>1, <2>2 DEF Matched
<1>7. KeysOnce(x) /\ ClosesWhole(x)
  BY <1>5 DEF KeysOnce, ClosesWhole
<1>8. MarginHeld(x)
  <2>1. \A s \in Futures : s \in Symbols
    BY LedgerAssumption
  <2>2. \A s \in Symbols : x.reserved[s] = 0 /\ x.pos[s].qty = 0
    BY <1>2, <1>3 DEF Flat
  <2>3. MarginPerUnit * 0 = 0
    BY LedgerAssumption
  <2>. QED  BY <2>1, <2>2, <2>3 DEF MarginHeld
<1>9. LedgerInv(x)
  BY <1>4, <1>6, <1>7, <1>8 DEF LedgerInv
<1>10. IsEngine(e)
  <2>1. PICK last, seen, opened, blind :
          /\ last \in [Symbols -> Nat]
          /\ e = [last |-> last, seen |-> seen, open |-> opened, blind |-> blind]
    BY DEF Init, FreshEngine
  <2>2. e \in [last : [Symbols -> Nat], seen : {seen}, open : {opened}, blind : {blind}]
    BY <2>1
  <2>. QED  BY <2>2 DEF IsEngine
<1>11. marks \in [Symbols -> Nat]
  <2>1. Prices \subseteq Nat
    BY DayAssumption
  <2>. QED  BY <2>1 DEF Init
<1>. QED  BY <1>1, <1>3, <1>9, <1>10, <1>11 DEF Init, DayInv, Halts

\* The switch of a day.
LEMMA SwitchHeld ==
  ASSUME DayInv
  PROVE  SwitchInv(Switch) /\ Switch.d = d /\ Switch.halt = halt
BY DEF DayInv, SwitchInv, Switch

\* A switch is installed.
LEMMA SwitchInstalled ==
  ASSUME NEW g, SwitchInv(g), Install(g), file' = file
  PROVE  /\ LedgerInv(d') /\ d' = g.d /\ halt' \in Halts
         /\ file' \/ d'.durable # "operator"
         /\ halt' = "operator" => d'.durable # "fault"
BY DEF SwitchInv, Install

\* A new engine has seen nothing.
LEMMA FreshIsEngine ==
  IsEngine(FreshEngine) /\ \A s \in Symbols : FreshEngine.last[s] = 0
<1>1. PICK last, seen, opened, blind :
        /\ last \in [Symbols -> Nat]
        /\ FreshEngine = [last |-> last, seen |-> seen, open |-> opened, blind |-> blind]
        /\ last = [s \in Symbols |-> 0]
  BY DEF FreshEngine
<1>2. FreshEngine \in [last : [Symbols -> Nat], seen : {seen}, open : {opened}, blind : {blind}]
  BY <1>1
<1>3. FreshEngine.last = last
  BY <1>1
<1>. QED  BY <1>1, <1>2, <1>3 DEF IsEngine

\* A step that fills nothing and moves no kept mark.
LEMMA NothingFilled ==
  ASSUME DayInv, d'.ledger = d.ledger, e'.last = e.last \/ e' = FreshEngine
  PROVE  EntryAllowed /\ BasisComparable
<1>1. Len(d.ledger) \in Nat
  BY LedgerFields DEF DayInv, LedgerInv
<1>2. ~ (Len(d'.ledger) > Len(d.ledger))
  BY <1>1
<1>3. ASSUME NEW s \in Symbols, e'.last[s] # 0
      PROVE  ~Discontinuity(e.last[s], e'.last[s])
  <2>1. e'.last[s] = e.last[s]
    BY <1>3, FreshIsEngine
  <2>2. e.last[s] \in Nat
    BY DEF DayInv, IsEngine
  <2>. QED  BY <2>1, <2>2, NoStepNoJump
<1>4. EntryAllowed
  BY <1>2 DEF EntryAllowed, BoughtNow
<1>5. BasisComparable
  <2>1. \A s \in Open(d) : s \in Symbols /\ ~SoldByExit(s)
    BY <1>2 DEF Open, SoldByExit
  <2>. QED  BY <1>3, <2>1 DEF BasisComparable
<1>. QED  BY <1>4, <1>5

\* What the exits of a tick or of a cadence's sweep leave of a ledger and an engine.
ExitSold(x, g, y) ==
  /\ Len(y.ledger) > Len(x.ledger) /\ Last(y.ledger).side = "SELL"
  /\ \E s \in Symbols :
       /\ Last(y.ledger).sym = s
       /\ ~Monitored /\ now \notin FlattenAt => ~Discontinuity(g.last[s], marks[s])

\* What a sweep leaves behind, whether it sold or not.
SweptTo(x, g, y, k) ==
  /\ LedgerInv(y) /\ IsEngine(k) /\ y.durable = x.durable
  /\ y = x \/ ExitSold(x, g, y)
  /\ ~Monitored => \A s \in Symbols : k.last[s] = g.last[s] \/ ~Discontinuity(g.last[s], k.last[s])

\* The sweep alone.
LEMMA SweepExits ==
  ASSUME DayInv, NEW x, LedgerInv(x), NEW jam, NEW r, r = Sweep(x, e, marks, now, jam)
  PROVE  SweptTo(x, e, r.d, r.e) /\ IsProgress(r)
<1>1. IsEngine(e) /\ marks \in [Symbols -> Nat] /\ now \in Nat
  BY DEF DayInv
<1>2. PICK w, c : w = WalkOf("sweep", marks, now, jam) /\ c = Before(x, e)
  OBVIOUS
<1>3. Walked(w, c, r, Symbols)
  BY <1>1, <1>2, SweepKeeps
<1>4. w.kind = "sweep" /\ w.marks = marks /\ c.d = x /\ c.e = e
  BY <1>2 DEF WalkOf, Before
<1>5. SoldIn(w, c, r, Symbols) => ExitSold(x, e, r.d)
  BY <1>4 DEF SoldIn, ExitSold
<1>. QED  BY <1>3, <1>4, <1>5 DEF Walked, SweptTo

\* The exits of a tick.
LEMMA TickExits ==
  ASSUME DayInv, NEW jam, NEW r, r = Exits(jam)
  PROVE  SweptTo(d, e, r.d, r.e)
<1>1. PICK c : c = Sweep(d, e, marks, now, jam)
  OBVIOUS
<1>2. LedgerInv(d) /\ marks \in [Symbols -> Nat] /\ now \in Nat
  BY DEF DayInv
<1>3. SweptTo(d, e, c.d, c.e) /\ IsProgress(c)
  BY <1>1, <1>2, SweepExits
<1>4. CASE r = c
  BY <1>3, <1>4
<1>5. CASE now \in FlattenAt /\ r = Flatten(c, marks, now, jam)
  <2>1. LedgerInv(c.d) /\ IsEngine(c.e)
    BY <1>3 DEF SweptTo
  <2>2. PICK w : w = WalkOf("flatten", marks, now, jam)
    OBVIOUS
  <2>3. Walked(w, c, r, Symbols)
    BY <1>2, <1>3, <1>5, <2>1, <2>2, FlattenKeeps
  <2>4. w.kind = "flatten"
    BY <2>2 DEF WalkOf
  <2>5. /\ LedgerInv(r.d) /\ IsEngine(r.e) /\ r.d.durable = c.d.durable /\ r.e = c.e
        /\ r.d = c.d \/ SoldIn(w, c, r, Symbols)
    BY <2>3, <2>4 DEF Walked
  <2>6. ASSUME SoldIn(w, c, r, Symbols)
        PROVE  ExitSold(d, e, r.d)
    <3>1. /\ Len(r.d.ledger) > Len(c.d.ledger) /\ Last(r.d.ledger).side = "SELL"
          /\ \E s \in Symbols : Last(r.d.ledger).sym = s
      BY <2>6 DEF SoldIn
    <3>2. Len(r.d.ledger) \in Nat /\ Len(c.d.ledger) \in Nat /\ Len(d.ledger) \in Nat
      BY <1>2, <2>1, <2>5, LedgerFields DEF LedgerInv
    <3>3. c.d = d \/ Len(c.d.ledger) > Len(d.ledger)
      BY <1>3 DEF SweptTo, ExitSold
    <3>4. Len(r.d.ledger) > Len(d.ledger)
      <4>1. CASE c.d = d
        BY <3>1, <4>1
      <4>2. CASE Len(c.d.ledger) > Len(d.ledger)
        BY <3>1, <3>2, <4>2
      <4>. QED  BY <3>3, <4>1, <4>2
    <3>. QED  BY <1>5, <3>1, <3>4 DEF ExitSold
  <2>. QED  BY <1>3, <2>5, <2>6 DEF SweptTo
<1>. QED  BY <1>1, <1>4, <1>5 DEF Exits

\* Exits buy nothing, and unmonitored judge and sell inside the band.
LEMMA ExitsAllowed ==
  ASSUME DayInv, NEW x, NEW y, SweptTo(x, e, y, e'), x.ledger = d.ledger, d'.ledger = y.ledger
  PROVE  EntryAllowed /\ (~Monitored => BasisComparable)
<1>1. Len(d.ledger) \in Nat
  BY LedgerFields DEF DayInv, LedgerInv
<1>2. y = x \/ ExitSold(x, e, y)
  BY DEF SweptTo
<1>3. ASSUME NEW s \in Symbols, Len(d'.ledger) > Len(d.ledger), Last(d'.ledger).sym = s
      PROVE  /\ Last(d'.ledger).side = "SELL"
             /\ ~Monitored /\ now \notin FlattenAt => ~Discontinuity(e.last[s], marks[s])
  <2>1. y # x
    BY <1>1, <1>3
  <2>2. ExitSold(x, e, y)
    BY <1>2, <2>1
  <2>. QED  BY <1>3, <2>2 DEF ExitSold
<1>4. EntryAllowed
  BY <1>3 DEF EntryAllowed, BoughtNow
<1>5. ASSUME ~Monitored
      PROVE  BasisComparable
  <2>1. SUFFICES ASSUME NEW s \in Open(d)
                 PROVE  /\ e'.last[s] # 0 => ~Discontinuity(e.last[s], e'.last[s])
                        /\ SoldByExit(s) /\ now \notin FlattenAt
                             => ~Discontinuity(e.last[s], marks[s])
    BY DEF BasisComparable
  <2>2. s \in Symbols
    BY DEF Open
  <2>3. e'.last[s] = e.last[s] \/ ~Discontinuity(e.last[s], e'.last[s])
    BY <1>5, <2>2 DEF SweptTo
  <2>4. ~Discontinuity(e.last[s], e.last[s])
    <3>1. e.last[s] \in Nat
      BY <2>2 DEF DayInv, IsEngine
    <3>. QED  BY <3>1, NoStepNoJump
  <2>5. e'.last[s] = e.last[s] => ~Discontinuity(e.last[s], e'.last[s])
    BY <2>4
  <2>6. SoldByExit(s) /\ now \notin FlattenAt => ~Discontinuity(e.last[s], marks[s])
    BY <1>3, <1>5, <2>2 DEF SoldByExit
  <2>. QED  BY <2>3, <2>5, <2>6
<1>. QED  BY <1>4, <1>5

-----------------------------------------------------------------------------
(* One lemma per action.                                                   *)

\* An order in hand is still one when nothing of the cadence or the clock changed.
LEMMA OrderStays ==
  ASSUME DayInv, UNCHANGED <<pc, order, now>>
  PROVE  pc' = "submitting" => order' \in OrderRows /\ ~order'.protective /\ order'.at <= now'
BY DEF DayInv

\* The protection thread's tick.
LEMMA TickStep ==
  ASSUME DayInv, NEW jam, ProtectionTick(jam)
  PROVE  DayInv' /\ EntryAllowed /\ (~Monitored => BasisComparable)
<1>1. PICK done, books : done = Exits(jam) /\ books = Marked(done.d, now)
  OBVIOUS
<1>2. PICK h, g : /\ h = [Switch EXCEPT !.d = books]
                  /\ g = EngageIf(ApplyOperatorHalt(h), Fault(done, books))
  OBVIOUS
<1>3. Install(g) /\ e' = done.e /\ UNCHANGED <<world, cadence>>
  BY <1>1, <1>2 DEF ProtectionTick
<1>4. SweptTo(d, e, done.d, done.e)
  BY <1>1, TickExits
<1>5. LedgerInv(done.d) /\ IsEngine(done.e) /\ done.d.durable = d.durable
  BY <1>4 DEF SweptTo
<1>6. LedgerInv(books) /\ SameTables(done.d, books) /\ books.durable = d.durable
  <2>. QED  BY <1>1, <1>5, BooksMarked
<1>7. SwitchInv(h) /\ h.d = books
  <2>1. h = [halt |-> halt, d |-> books]
    BY <1>2 DEF Switch
  <2>. QED  BY <1>6, <2>1 DEF SwitchInv, DayInv
<1>8. PICK k : k = ApplyOperatorHalt(h)
  OBVIOUS
<1>9. Switched(h, k)
  BY <1>7, <1>8, FileRead
<1>10. g = k \/ g = Engage(k)
  BY <1>2, <1>8 DEF EngageIf
<1>11. Switched(h, g)
  <2>1. SwitchInv(k)
    BY <1>9 DEF Switched
  <2>. QED  BY <1>9, <1>10, <2>1, FaultLatched, SwitchedTwice
<1>12. SwitchInv(g) /\ g.d.ledger = done.d.ledger
  BY <1>6, <1>7, <1>11 DEF Switched, SameTables
<1>13. /\ file' = file /\ now' = now /\ marks' = marks
       /\ pc' = pc /\ order' = order /\ began' = began
  BY <1>3 DEF world, cadence
<1>14. /\ LedgerInv(d') /\ d' = g.d /\ halt' \in Halts
       /\ file' \/ d'.durable # "operator"
       /\ halt' = "operator" => d'.durable # "fault"
  BY <1>3, <1>12, <1>13, SwitchInstalled
<1>15. DayInv'
  <2>1. now' \in Nat /\ marks' \in [Symbols -> Nat]
    BY <1>13 DEF DayInv
  <2>2. pc' = "submitting" => order' \in OrderRows /\ ~order'.protective /\ order'.at <= now'
    BY <1>13, OrderStays
  <2>3. began' \in Nat /\ began' <= now'
    BY <1>13 DEF DayInv
  <2>. QED  BY <1>3, <1>5, <1>14, <2>1, <2>2, <2>3 DEF DayInv
<1>16. EntryAllowed /\ (~Monitored => BasisComparable)
  <2>1. PICK y : y = done.d
    OBVIOUS
  <2>2. SweptTo(d, e, y, e') /\ d'.ledger = y.ledger
    BY <1>3, <1>4, <1>12, <1>14, <2>1
  <2>. QED  BY <2>2, ExitsAllowed
<1>. QED  BY <1>15, <1>16

\* A cadence reads the halt file and sweeps.
LEMMA CadenceStartStep ==
  ASSUME DayInv, NEW jam, CadenceStart(jam)
  PROVE  DayInv' /\ EntryAllowed /\ (~Monitored => BasisComparable)
<1>1. PICK h : h = ApplyOperatorHalt(Switch)
  OBVIOUS
<1>2. PICK swept : swept = Sweep(h.d, e, marks, now, jam)
  OBVIOUS
<1>3. PICK z, g : z = Marked(swept.d, now) /\ g = [h EXCEPT !.d = z]
  OBVIOUS
<1>4. /\ Install(g) /\ e' = swept.e /\ pc' = "analysing" /\ began' = now
      /\ UNCHANGED world
  BY <1>1, <1>2, <1>3 DEF CadenceStart
<1>5. SwitchInv(h) /\ SameTables(d, h.d)
  BY <1>1, SwitchHeld, FileRead DEF Switched
<1>6. LedgerInv(h.d)
  BY <1>5 DEF SwitchInv
<1>7. SweptTo(h.d, e, swept.d, swept.e)
  BY <1>2, <1>6, SweepExits
<1>8. LedgerInv(z) /\ IsEngine(swept.e) /\ z.durable = h.d.durable /\ z.ledger = swept.d.ledger
  <2>1. LedgerInv(swept.d) /\ IsEngine(swept.e) /\ swept.d.durable = h.d.durable
    BY <1>7 DEF SweptTo
  <2>2. LedgerInv(z) /\ SameTables(swept.d, z) /\ z.durable = swept.d.durable
    BY <1>3, <2>1, BooksMarked
  <2>. QED  BY <2>1, <2>2 DEF SameTables
<1>9. SwitchInv(g) /\ g.d = z
  <2>1. g = [halt |-> h.halt, d |-> z]
    BY <1>3, <1>5 DEF SwitchInv
  <2>. QED  BY <1>5, <1>8, <2>1 DEF SwitchInv
<1>10. file' = file /\ now' = now /\ marks' = marks
  BY <1>4 DEF world
<1>11. /\ LedgerInv(d') /\ d' = g.d /\ halt' \in Halts
       /\ file' \/ d'.durable # "operator"
       /\ halt' = "operator" => d'.durable # "fault"
  BY <1>4, <1>9, <1>10, SwitchInstalled
<1>12. DayInv'
  <2>1. now' \in Nat /\ marks' \in [Symbols -> Nat]
    BY <1>10 DEF DayInv
  <2>2. began' \in Nat /\ began' <= now'
    BY <1>4, <1>10 DEF DayInv
  <2>. QED  BY <1>4, <1>8, <1>11, <2>1, <2>2 DEF DayInv
<1>13. EntryAllowed /\ (~Monitored => BasisComparable)
  <2>1. PICK x, y : x = h.d /\ y = swept.d
    OBVIOUS
  <2>2. SweptTo(x, e, y, e') /\ d'.ledger = y.ledger /\ x.ledger = d.ledger
    BY <1>4, <1>5, <1>7, <1>8, <1>9, <1>11, <2>1 DEF SameTables
  <2>. QED  BY <2>2, ExitsAllowed
<1>. QED  BY <1>12, <1>13

\* The swarm proposes an order at the mark it analysed.
LEMMA ProposeStep ==
  ASSUME DayInv, NEW s \in Symbols, NEW side \in {"BUY", "SELL"}, NEW key \in NextDecisions,
         NEW qty \in Sizes[side], Propose(s, side, qty, key)
  PROVE  DayInv' /\ EntryAllowed /\ BasisComparable
<1>1. UNCHANGED <<d, e, halt, now, marks, file, began>> /\ marks[s] # 0
  BY DEF Propose, world
<1>2. order' \in OrderRows /\ ~order'.protective /\ order'.at <= now'
  <2>1. PICK m \in Nat \ {0} : m = marks[s]
    BY <1>1 DEF DayInv
  <2>2. PICK stop \in Nat : stop = IF side = "BUY" THEN m - 1 ELSE 0
    OBVIOUS
  <2>3. PICK target \in Nat : target = IF side = "BUY" THEN m + 1 ELSE 0
    OBVIOUS
  <2>4. qty \in Nat \ {0}
    BY DayAssumption
  <2>5. key \in Keys
    BY DEF NextDecisions, Keys
  <2>6. order' = [sym |-> s, side |-> side, qty |-> qty, price |-> m, stop |-> stop,
                  target |-> target, key |-> key, until |-> 0, protective |-> FALSE, at |-> began]
    BY <2>1, <2>2, <2>3 DEF Propose
  <2>7. began \in Nat /\ began <= now
    BY DEF DayInv
  <2>8. order' \in OrderRows
    BY <2>4, <2>5, <2>6, <2>7 DEF OrderRows
  <2>9. ~order'.protective /\ order'.at <= now'
    BY <1>1, <2>6, <2>7
  <2>. QED  BY <2>8, <2>9
<1>3. DayInv'
  BY <1>1, <1>2 DEF DayInv
<1>. QED  BY <1>1, <1>3, NothingFilled

\* A tick of the cadence ends without an order, or fails.
LEMMA HoldStep ==
  ASSUME DayInv, Hold
  PROVE  DayInv' /\ EntryAllowed /\ BasisComparable
<1>1. UNCHANGED <<e, now, marks, file>> /\ pc' = "idle" /\ began' = 0
  BY DEF Hold, world
<1>2. PICK h : h = EngageIf(Switch, ~Matched(d))
  OBVIOUS
<1>3. PICK z, g : z = Marked(h.d, began) /\ g = [h EXCEPT !.d = z]
  OBVIOUS
<1>4. Install(g)
  BY <1>2, <1>3 DEF Hold
<1>5. SwitchInv(h) /\ SameTables(d, h.d)
  <2>1. h = Switch \/ h = Engage(Switch)
    BY <1>2 DEF EngageIf
  <2>2. CASE h = Switch
    BY <2>2, SwitchHeld DEF SameTables
  <2>3. CASE h = Engage(Switch)
    BY <2>3, SwitchHeld, FaultLatched DEF Switched
  <2>. QED  BY <2>1, <2>2, <2>3
<1>6. LedgerInv(z) /\ SameTables(h.d, z) /\ z.durable = h.d.durable
  <2>1. LedgerInv(h.d)
    BY <1>5 DEF SwitchInv
  <2>. QED  BY <1>3, <2>1, BooksMarked
<1>7. SwitchInv(g) /\ g.d = z
  <2>1. g = [halt |-> h.halt, d |-> z]
    BY <1>3, <1>5 DEF SwitchInv
  <2>. QED  BY <1>5, <1>6, <2>1 DEF SwitchInv
<1>8. /\ LedgerInv(d') /\ d' = g.d /\ halt' \in Halts
      /\ file' \/ d'.durable # "operator"
      /\ halt' = "operator" => d'.durable # "fault"
  BY <1>1, <1>4, <1>7, SwitchInstalled
<1>9. DayInv'
  BY <1>1, <1>8 DEF DayInv
<1>10. d'.ledger = d.ledger
  BY <1>5, <1>6, <1>7, <1>8 DEF SameTables
<1>. QED  BY <1>1, <1>9, <1>10, NothingFilled

\* A cadence that fails may latch a fault, and changes no position.
LEMMA CadenceFailsStep ==
  ASSUME DayInv, CadenceFails
  PROVE  DayInv' /\ EntryAllowed /\ BasisComparable
<1>1. UNCHANGED <<e, now, marks, file>> /\ pc' = "idle" /\ began' = 0
  BY DEF CadenceFails, world
<1>2. PICK g : Install(g) /\ (g = Switch \/ g = Engage(Switch))
  BY DEF CadenceFails, EngageIf
<1>3. SwitchInv(g) /\ SameTables(d, g.d)
  <2>1. CASE g = Switch
    BY <2>1, SwitchHeld DEF SameTables
  <2>2. CASE g = Engage(Switch)
    BY <2>2, SwitchHeld, FaultLatched DEF Switched
  <2>. QED  BY <1>2, <2>1, <2>2
<1>4. /\ LedgerInv(d') /\ d' = g.d /\ halt' \in Halts
      /\ file' \/ d'.durable # "operator"
      /\ halt' = "operator" => d'.durable # "fault"
  BY <1>1, <1>2, <1>3, SwitchInstalled
<1>5. d'.ledger = d.ledger
  BY <1>3, <1>4 DEF SameTables
<1>6. DayInv'
  BY <1>1, <1>4 DEF DayInv
<1>. QED  BY <1>1, <1>5, <1>6, NothingFilled

\* The clock and the prices move.
LEMMA AdvanceStep ==
  ASSUME DayInv, Advance
  PROVE  DayInv' /\ EntryAllowed /\ BasisComparable
<1>1. UNCHANGED <<d, e, halt, file, pc, order, began>> /\ now' = now + 1
  BY DEF Advance, cadence
<1>2. marks' \in [Symbols -> Nat]
  <2>1. Prices \union {0} \subseteq Nat
    BY DayAssumption
  <2>. QED  BY <2>1 DEF Advance
<1>3. now' \in Nat /\ now <= now' /\ began' <= now'
  BY <1>1 DEF DayInv
<1>4. pc' = "submitting" => order' \in OrderRows /\ ~order'.protective /\ order'.at <= now'
  <2>1. order \in OrderRows => order.at \in Nat
    BY DEF OrderRows
  <2>2. pc = "submitting" => order \in OrderRows /\ ~order.protective /\ order.at <= now
    BY DEF DayInv
  <2>3. now \in Nat
    BY DEF DayInv
  <2>. QED  BY <1>1, <1>3, <2>1, <2>2, <2>3
<1>5. DayInv'
  BY <1>1, <1>2, <1>3, <1>4 DEF DayInv
<1>. QED  BY <1>1, <1>5, NothingFilled

\* The operator's file and the operator's resume.
LEMMA TouchStep ==
  ASSUME DayInv, TouchHaltFile
  PROVE  DayInv' /\ EntryAllowed /\ BasisComparable
<1>1. UNCHANGED <<d, e, halt, now, marks, pc, order, began>> /\ file'
  BY DEF TouchHaltFile, cadence
<1>2. DayInv'
  BY <1>1 DEF DayInv
<1>. QED  BY <1>1, <1>2, NothingFilled

\* A resume changes the halt in the database, never a position.
LEMMA ResumeStep ==
  ASSUME DayInv, NEW override, Resume(override)
  PROVE  DayInv' /\ EntryAllowed /\ BasisComparable
<1>1. UNCHANGED <<e, halt, now, marks, pc, order, began>>
  BY DEF Resume, cadence
<1>2. LedgerInv(d)
  BY DEF DayInv
<1>3. PICK v \in Halts : v = "none"
  BY DEF Halts
<1>4. \/ d' = d /\ d.durable # "operator"
      \/ d' = [d EXCEPT !.durable = v]
  BY <1>3 DEF Resume
<1>5. LedgerInv(d') /\ d'.ledger = d.ledger /\ d'.durable # "operator"
      /\ (d'.durable = "fault" => d.durable = "fault")
  <2>1. CASE d' = d /\ d.durable # "operator"
    BY <1>2, <2>1
  <2>2. CASE d' = [d EXCEPT !.durable = v]
    <3>1. LedgerInv(d') /\ SameTables(d, d') /\ d'.durable = v
      BY <1>2, <2>2, DurableSet
    <3>. QED  BY <1>3, <3>1 DEF SameTables
  <2>. QED  BY <1>4, <2>1, <2>2
<1>6. DayInv'
  BY <1>1, <1>5 DEF DayInv
<1>. QED  BY <1>1, <1>5, <1>6, NothingFilled

\* A restart reads the switch back from the database.
LEMMA RestartStep ==
  ASSUME DayInv, Restart
  PROVE  DayInv' /\ EntryAllowed /\ BasisComparable
<1>1. UNCHANGED <<d, file, now, marks>> /\ e' = FreshEngine /\ halt' = d.durable /\ pc' = "idle"
      /\ began' = 0
  BY DEF Restart
<1>2. d.durable \in Halts
  BY LedgerFields DEF DayInv, LedgerInv, Halts
<1>3. DayInv'
  BY <1>1, <1>2, FreshIsEngine DEF DayInv
<1>. QED  BY <1>1, <1>3, NothingFilled

\* What a SELL is cut down to.
LEMMA CutToHolding ==
  ASSUME NEW x, IsLedger(x), NEW o, o \in OrderRows, ~o.protective,
         o.side = "SELL" => x.pos[o.sym].qty # 0, NEW cut, cut = Clamped(x, o)
  PROVE  /\ Orderly(x, cut)
         /\ cut.sym = o.sym /\ cut.side = o.side /\ cut.protective = o.protective
<1>1. /\ o.sym \in Symbols /\ o.side \in {"BUY", "SELL"} /\ o.qty \in Nat \ {0}
      /\ o.price \in Nat /\ o.stop \in Nat /\ o.target \in Nat /\ o.key \in Keys
      /\ o.until \in Nat /\ o.protective \in BOOLEAN
  BY DEF OrderRows
<1>2. CASE o.side # "SELL"
  <2>1. cut = o
    BY <1>2 DEF Clamped
  <2>. QED  BY <1>1, <2>1 DEF Orderly, IsOrder
<1>3. CASE o.side = "SELL"
  <2>1. PICK n \in Nat \ {0}, q \in Nat \ {0} : n = x.pos[o.sym].qty /\ q = o.qty
    BY <1>1, <1>3, LedgerFields
  <2>2. PICK m : m = Min({q, n})
    OBVIOUS
  <2>3. m \in {q, n}
    <3>1. \E k \in {q, n} : \A j \in {q, n} : k <= j
      <4>1. CASE q <= n
        BY <4>1
      <4>2. CASE n <= q
        BY <4>2
      <4>. QED  BY <4>1, <4>2
    <3>. QED  BY <2>2, <3>1 DEF Min
  <2>4. cut = [o EXCEPT !.qty = m]
    BY <1>3, <2>1, <2>2 DEF Clamped
  <2>5. /\ cut.sym = o.sym /\ cut.side = o.side /\ cut.qty = m /\ cut.price = o.price
        /\ cut.stop = o.stop /\ cut.target = o.target /\ cut.key = o.key
        /\ cut.until = o.until /\ cut.protective = o.protective
    BY <2>4 DEF OrderRows
  <2>. QED  BY <1>1, <2>3, <2>5 DEF Orderly, IsOrder
<1>. QED  BY <1>2, <1>3

\* The locked half of a decision.
LEMMA SubmitStep ==
  ASSUME DayInv, NEW locked, Submit(locked)
  PROVE  DayInv' /\ EntryAllowed /\ BasisComparable
<1>1. PICK h0, h1 : /\ h0 = [Switch EXCEPT !.d = Marked(d, now)]
                    /\ h1 = ApplyOperatorHalt(h0)
  OBVIOUS
<1>2. PICK h : h = IF order.side = "BUY" THEN EntryChecks(h1) ELSE h1
  OBVIOUS
<1>3. /\ pc = "submitting" /\ pc' = "analysing"
      /\ UNCHANGED <<e, now, marks, file, began>>
  BY DEF Submit, world
<1>4. \/ Install(h)
      \/ /\ ~SwarmRefuses(h, order)
         /\ Install([h EXCEPT !.d = Execute(h.d, Clamped(h.d, order))])
  BY <1>1, <1>2, SwitchHeld DEF Submit
<1>5. Switched(Switch, h1)
  <2>1. PICK z : z = Marked(d, now)
    OBVIOUS
  <2>2. LedgerInv(z) /\ SameTables(d, z) /\ z.durable = d.durable
    BY <2>1, BooksMarked DEF DayInv
  <2>3. h0 = [halt |-> halt, d |-> z]
    BY <1>1, <2>1 DEF Switch
  <2>4. SwitchInv(h0) /\ h0.d = z
    BY <2>2, <2>3 DEF DayInv, SwitchInv
  <2>5. Switched(Switch, h0)
    BY <2>2, <2>4, SwitchHeld DEF Switched
  <2>6. Switched(h0, h1)
    BY <1>1, <2>4, FileRead
  <2>. QED  BY <2>5, <2>6, SwitchedTwice
<1>6. Switched(Switch, h)
  <2>1. CASE h = h1
    BY <1>5, <2>1
  <2>2. CASE h = EntryChecks(h1)
    <3>1. PICK g : g = EngageIf(h1, ~Covered(h1.d))
      OBVIOUS
    <3>2. g = h1 \/ g = Engage(h1)
      BY <3>1 DEF EngageIf
    <3>3. h = EngageIf(g, ~Matched(g.d))
      <4>1. h = EngageIf(EngageIf(h1, ~Covered(h1.d)), ~Matched(h1.d))
        BY <2>2 DEF EntryChecks
      <4>2. Matched(g.d) <=> Matched(h1.d)
        <5>1. SwitchInv(h1)
          BY <1>5 DEF Switched
        <5>2. Switched(h1, g)
          BY <3>2, <5>1, FaultLatched DEF Switched, SameTables
        <5>. QED  BY <5>1, <5>2 DEF Switched, SwitchInv, LedgerInv
      <4>. QED  BY <3>1, <4>1, <4>2 DEF EngageIf
    <3>4. h = g \/ h = Engage(g)
      BY <3>3 DEF EngageIf
    <3>5. Switched(Switch, g)
      <4>1. SwitchInv(h1)
        BY <1>5 DEF Switched
      <4>. QED  BY <1>5, <3>2, <4>1, FaultLatched, SwitchedTwice
    <3>6. SwitchInv(g)
      BY <3>5 DEF Switched
    <3>. QED  BY <3>4, <3>5, <3>6, FaultLatched, SwitchedTwice
  <2>. QED  BY <1>2, <2>1, <2>2
<1>7. /\ SwitchInv(h) /\ SameTables(d, h.d)
      /\ h.d.durable = "none" => d.durable = "none"
  BY <1>6, SwitchHeld DEF Switched
<1>8. /\ order \in OrderRows /\ ~order.protective /\ order.at <= now
      /\ now \in Nat /\ marks \in [Symbols -> Nat] /\ IsEngine(e)
      /\ began \in Nat /\ began <= now
  BY <1>3 DEF DayInv
<1>9. CASE Install(h)
  <2>1. /\ LedgerInv(d') /\ d' = h.d /\ halt' \in Halts
        /\ file' \/ d'.durable # "operator"
        /\ halt' = "operator" => d'.durable # "fault"
    BY <1>3, <1>7, <1>9, SwitchInstalled
  <2>2. DayInv'
    BY <1>3, <1>8, <2>1 DEF DayInv
  <2>3. d'.ledger = d.ledger
    BY <1>7, <2>1 DEF SameTables
  <2>. QED  BY <1>3, <2>2, <2>3, NothingFilled
<1>10. CASE /\ ~SwarmRefuses(h, order)
            /\ Install([h EXCEPT !.d = Execute(h.d, Clamped(h.d, order))])
  <2>1. PICK x : x = h.d
    OBVIOUS
  <2>2. PICK o : o = Clamped(x, order)
    OBVIOUS
  <2>3. PICK y : y = Execute(x, o)
    OBVIOUS
  <2>4. PICK g : g = [h EXCEPT !.d = y] /\ Install(g)
    BY <1>10, <2>1, <2>2, <2>3
  <2>5. LedgerInv(x) /\ IsLedger(x)
    BY <1>7, <2>1 DEF SwitchInv, LedgerInv
  <2>6. order.side = "SELL" => x.pos[order.sym].qty # 0
    BY <1>10, <2>1 DEF SwarmRefuses
  <2>7. Orderly(x, o) /\ o.sym = order.sym /\ o.side = order.side /\ ~o.protective
    BY <1>8, <2>2, <2>5, <2>6, CutToHolding
  <2>8. LedgerInv(y) /\ y.durable = x.durable /\ (y = x \/ Filled(x, o, y))
    BY <2>3, <2>5, <2>7, ExecuteKeeps
  <2>9. SwitchInv(g) /\ g.d = y
    <3>1. g = [halt |-> h.halt, d |-> y]
      BY <1>7, <2>4 DEF SwitchInv
    <3>. QED  BY <1>7, <2>1, <2>8, <3>1 DEF SwitchInv
  <2>10. /\ LedgerInv(d') /\ d' = y /\ halt' \in Halts
         /\ file' \/ d'.durable # "operator"
         /\ halt' = "operator" => d'.durable # "fault"
    BY <1>3, <2>4, <2>9, SwitchInstalled
  <2>11. DayInv'
    BY <1>3, <1>8, <2>10 DEF DayInv
  <2>12. CASE y = x
    <3>1. d'.ledger = d.ledger
      BY <1>7, <2>1, <2>10, <2>12 DEF SameTables
    <3>. QED  BY <1>3, <2>11, <3>1, NothingFilled
  <2>13. CASE Filled(x, o, y)
    <3>1. ~Refused(x, o) /\ Last(d'.ledger) = Entry(x, o)
      BY <2>10, <2>13 DEF Filled
    <3>2. /\ Last(d'.ledger).sym = o.sym /\ Last(d'.ledger).side = o.side
          /\ ~Last(d'.ledger).protective
      BY <2>7, <3>1 DEF Entry
    <3>3. o.side = "BUY" => d.durable = "none"
      BY <1>7, <2>1, <3>1 DEF Refused, PilotBlocks
    <3>4. o.side = "BUY" => now >= d.cooldown[o.sym]
      <4>1. SUFFICES ASSUME o.side = "BUY" PROVE now >= d.cooldown[o.sym]
        OBVIOUS
      <4>2. ~ (order.at < d.cooldown[o.sym])
        BY <1>7, <1>10, <2>7, <4>1 DEF SwarmRefuses, Cooling, SameTables
      <4>3. o.sym \in Symbols /\ order.at \in Nat
        BY <1>8, <2>7 DEF OrderRows
      <4>4. d.cooldown[o.sym] \in Nat
        BY <4>3, LedgerFields DEF DayInv, LedgerInv
      <4>. QED  BY <1>8, <4>2, <4>3, <4>4
    <3>5. EntryAllowed
      BY <3>2, <3>3, <3>4 DEF EntryAllowed, BoughtNow
    <3>6. BasisComparable
      <4>1. \A s \in Open(d) : s \in Symbols /\ ~SoldByExit(s)
        BY <3>2 DEF Open, SoldByExit
      <4>2. \A s \in Symbols : ~Discontinuity(e.last[s], e.last[s])
        <5>1. \A s \in Symbols : e.last[s] \in Nat
          BY <1>8 DEF IsEngine
        <5>. QED  BY <5>1, NoStepNoJump
      <4>. QED  BY <1>3, <4>1, <4>2 DEF BasisComparable
    <3>. QED  BY <2>11, <3>5, <3>6
  <2>. QED  BY <2>8, <2>12, <2>13
<1>. QED  BY <1>4, <1>9, <1>10

\* Every step.
LEMMA DayStep ==
  ASSUME DayInv, [Next]_vars
  PROVE  DayInv'
<1>1. ASSUME NEW jam \in SUBSET Symbols, ProtectionTick(jam) PROVE DayInv'
  BY <1>1, TickStep
<1>2. ASSUME NEW override \in BOOLEAN, Resume(override) PROVE DayInv'
  BY <1>2, ResumeStep
<1>3. ASSUME Others PROVE DayInv'
  BY <1>3, CadenceStartStep, ProposeStep, HoldStep, CadenceFailsStep, SubmitStep, AdvanceStep,
     TouchStep, RestartStep DEF Others
<1>4. ASSUME UNCHANGED vars PROVE DayInv'
  BY <1>4 DEF vars, DayInv
<1>. QED  BY <1>1, <1>2, <1>3, <1>4 DEF Next

\* The inductive invariant holds in every state: what the ledger promises after any execution,
\* beside the switch, the clock and the order in hand.
LEMMA DayInvariance ==
  Spec => []DayInv
<1>. QED  BY InitDay, DayStep, PTL DEF Spec

\* Replaying the fills gives the cash, the positions with their levels and the margin in the
\* tables, after any mix of entries, trims, exits, flattening and refused executions.
THEOREM BooksAlwaysReplay == Spec => []BooksReplay
<1>1. DayInv => BooksReplay
  BY DEF DayInv, LedgerInv, BooksReplay
<1>. QED  BY <1>1, DayInvariance, PTL

\* A decision fills once however often it is submitted, and a protective exit sells the whole
\* of what the fills before it left open.
THEOREM TradesOnce == Spec => []NothingTradesTwice
<1>1. DayInv => NothingTradesTwice
  <2>. SUFFICES ASSUME DayInv PROVE NothingTradesTwice
    OBVIOUS
  <2>1. KeysOnce(d) /\ ClosesWhole(d) /\ d.ledger \in Seq(FillRows)
    BY LedgerFields DEF DayInv, LedgerInv
  <2>2. DOMAIN d.ledger = 1 .. Len(d.ledger)
    BY <2>1, LenProperties
  <2>3. OneFillPerDecision
    BY <2>1, <2>2 DEF KeysOnce, OneFillPerDecision
  <2>4. ExitsCloseTheWhole
    BY <2>1, <2>2 DEF ClosesWhole, ExitsCloseTheWhole, PriorPosition
  <2>. QED  BY <2>3, <2>4 DEF NothingTradesTwice
<1>. QED  BY <1>1, DayInvariance, PTL

\* The margin held for a contract is what its open units asked for, however it is trimmed.
THEOREM MarginOfUnits == Spec => []MarginFollowsUnits
<1>1. DayInv => MarginFollowsUnits
  BY DEF DayInv, LedgerInv, MarginHeld, MarginFollowsUnits
<1>. QED  BY <1>1, DayInvariance, PTL

\* No entry is filled while its symbol cools down after an exit, even one decided before the
\* exit, and none while a halt is in the database.
THEOREM NoEntryThen == Spec => NoEntryAfterExitOrHalt
<1>1. DayInv /\ [Next]_vars
        => [\A s \in Symbols : BoughtNow(s) => now >= d.cooldown[s] /\ d.durable = "none"]_vars
  <2>. SUFFICES ASSUME DayInv, Next PROVE EntryAllowed
    BY DEF EntryAllowed
  <2>1. ASSUME NEW jam \in SUBSET Symbols, ProtectionTick(jam) PROVE EntryAllowed
    BY <2>1, TickStep
  <2>2. ASSUME NEW override \in BOOLEAN, Resume(override) PROVE EntryAllowed
    BY <2>2, ResumeStep
  <2>3. ASSUME Others PROVE EntryAllowed
    BY <2>3, CadenceStartStep, ProposeStep, HoldStep, CadenceFailsStep, SubmitStep, AdvanceStep,
       TouchStep, RestartStep DEF Others
  <2>. QED  BY <2>1, <2>2, <2>3 DEF Next
<1>. QED  BY <1>1, DayInvariance, PTL DEF Spec, NoEntryAfterExitOrHalt

\* Without the gap monitor the kept mark moves inside the band only, and a liquidation away
\* from the flatten window is priced within it: a re-based quote never books a loss.
THEOREM RebasedNeverSells ==
  ASSUME ~Monitored
  PROVE  Spec => RebasedQuoteNeverSells
<1>1. DayInv /\ [Next]_vars
        => [\A s \in Open(d) :
              /\ e'.last[s] # 0 => ~Discontinuity(e.last[s], e'.last[s])
              /\ SoldByExit(s) /\ now \notin FlattenAt
                   => ~Discontinuity(e.last[s], marks[s])]_vars
  <2>. SUFFICES ASSUME DayInv, Next PROVE BasisComparable
    BY DEF BasisComparable
  <2>1. ASSUME NEW jam \in SUBSET Symbols, ProtectionTick(jam) PROVE BasisComparable
    BY <2>1, TickStep
  <2>2. ASSUME NEW override \in BOOLEAN, Resume(override) PROVE BasisComparable
    BY <2>2, ResumeStep
  <2>3. ASSUME Others PROVE BasisComparable
    BY <2>3, CadenceStartStep, ProposeStep, HoldStep, CadenceFailsStep, SubmitStep, AdvanceStep,
       TouchStep, RestartStep DEF Others
  <2>. QED  BY <2>1, <2>2, <2>3 DEF Next
<1>. QED  BY <1>1, DayInvariance, PTL DEF Spec, RebasedQuoteNeverSells
=============================================================================
