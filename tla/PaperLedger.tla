---------------------------- MODULE PaperLedger ----------------------------
(***************************************************************************)
(* The paper broker's ledger: one SQLite database with the account, the    *)
(* open positions, the reserved futures margin, every fill, the claimed    *)
(* idempotency keys and the re-entry cooldowns.  A fill changes all of     *)
(* them in one transaction, so the tables are the fields of one record d   *)
(* and an operation is an operator from a record to the next one.          *)
(*                                                                         *)
(* One tenant under a configured pilot scope; instrument identities are    *)
(* fixed.  Prices are whole ticks and averages round down to a tick.  A    *)
(* level of 0 is an absent stop or target, a cooldown of 0 an absent one.  *)
(***************************************************************************)
EXTENDS Integers, Sequences, FiniteSets, SequencesExt, FiniteSetsExt

CONSTANTS
  Symbols,          \* instruments in the pilot scope
  Futures,          \* those of them that are margined
  MarginPerUnit,    \* what the broker's margin file asks for one unit
  Slippage,         \* how far a fill is from its reference price
  Fee,              \* statutory charges of a fill
  StartingCapital,
  NoKey             \* a submission without an idempotency key

ASSUME LedgerAssumption ==
  /\ IsFiniteSet(Symbols)
  /\ Futures \subseteq Symbols
  /\ {MarginPerUnit, Slippage, Fee} \subseteq Nat
  /\ StartingCapital \in Nat \ {0}

Flat == [qty |-> 0, avg |-> 0, stop |-> 0, target |-> 0]

\* The tables as the schema creates them, with the account row of the tenant.
EmptyLedger ==
  [cash |-> StartingCapital, pos |-> [s \in Symbols |-> Flat],
   reserved |-> [s \in Symbols |-> 0], ledger |-> <<>>, claims |-> {},
   cooldown |-> [s \in Symbols |-> 0], durable |-> "none",
   peak |-> StartingCapital, daily |-> [day |-> 0, opening |-> 0, last |-> 0]]

Open(d) == {s \in Symbols : d.pos[s].qty > 0}
Units(n, d) == n \div d
FillPrice(o) == IF o.side = "BUY" THEN o.price + Slippage ELSE o.price - Slippage
Notional(o) == FillPrice(o) * o.qty
-----------------------------------------------------------------------------
(* Reconciliation: the books rebuilt from the fills alone.                 *)

BlankBooks ==
  [cash |-> StartingCapital, pos |-> [s \in Symbols |-> Flat],
   reserved |-> [s \in Symbols |-> 0]]

\* A level a BUY names replaces the held one; a SELL keeps what guards the rest.
Levels(p, f) ==
  [stop |-> IF f.side = "BUY" /\ f.stop > 0 THEN f.stop ELSE p.stop,
   target |-> IF f.side = "BUY" /\ f.target > 0 THEN f.target ELSE p.target]

HeldRow(n, avg, levels) ==
  [qty |-> n, avg |-> avg, stop |-> levels.stop, target |-> levels.target]

ReplayBuy(b, f) ==
  LET p == b.pos[f.sym]
      n == p.qty + f.qty
      paid == IF f.sym \in Futures THEN f.margin ELSE f.price * f.qty
  IN [cash |-> b.cash - paid - Fee,
      pos |-> [b.pos EXCEPT ![f.sym] =
                 HeldRow(n, Units(p.avg * p.qty + f.price * f.qty, n), Levels(p, f))],
      reserved |-> [b.reserved EXCEPT ![f.sym] = @ + f.margin]]

ReplaySell(b, f) ==
  LET p == b.pos[f.sym]
      n == p.qty - f.qty
      got == IF f.sym \in Futures
             THEN (f.price - p.avg) * f.qty - f.margin
             ELSE f.price * f.qty
  IN [cash |-> b.cash + got - Fee,
      pos |-> [b.pos EXCEPT ![f.sym] = IF n = 0 THEN Flat ELSE [p EXCEPT !.qty = n]],
      reserved |-> [b.reserved EXCEPT ![f.sym] = @ + f.margin]]

ReplayFill(b, f) == IF f.side = "BUY" THEN ReplayBuy(b, f) ELSE ReplaySell(b, f)

\* The books after the first n fills, for each n.
Replayed(fills) ==
  LET books[n \in 0 .. Len(fills)] ==
        IF n = 0 THEN BlankBooks ELSE ReplayFill(books[n - 1], fills[n])
  IN books

Books(d) == [cash |-> d.cash, pos |-> d.pos, reserved |-> d.reserved]

\* reconcile_paper: "matched" when the replayed books are the stored ones.
Matched(d) == Replayed(d.ledger)[Len(d.ledger)] = Books(d)

\* protection_coverage: "complete" when every open row has a stop, and a target above it.
Covered(d) ==
  \A s \in Open(d) :
    /\ d.pos[s].stop > 0
    /\ d.pos[s].target > 0 => d.pos[s].target > d.pos[s].stop
-----------------------------------------------------------------------------
(* One execution.                                                          *)

\* _assert_pilot_order: a BUY needs a clear durable switch, full coverage and books that match.
PilotBlocks(d, o) ==
  \/ o.sym \notin Symbols
  \/ o.side = "BUY" /\ (d.durable # "none" \/ ~Covered(d) \/ ~Matched(d))

\* The stop of a pilot BUY is below the entry, its target above, and it loosens no held stop.
LevelsRefused(d, o) ==
  LET target == Levels(d.pos[o.sym], o).target
      held == d.pos[o.sym].stop
  IN /\ o.side = "BUY"
     /\ \/ o.stop = 0
        \/ o.stop >= Min({o.price, FillPrice(o)})
        \/ target > 0 /\ target <= Max({o.price, FillPrice(o)})
        \/ held > 0 /\ o.stop < held

Unfunded(d, o) ==
  IF o.side = "SELL"
  THEN \/ o.qty > d.pos[o.sym].qty
       \/ o.sym \in Futures /\ d.reserved[o.sym] = 0
  ELSE (IF o.sym \in Futures THEN MarginPerUnit * o.qty ELSE Notional(o)) + Fee > d.cash

\* Defect: a sale releases the whole margin, whatever it leaves open.
ReleaseAll(d, o) ==
  IF o.sym \notin Futures THEN 0
  ELSE IF o.side = "BUY" THEN MarginPerUnit * o.qty ELSE -d.reserved[o.sym]
\* Margin taken or released: the file's amount for the units bought, the sold share of it back.
MarginChange(d, o) ==
  IF o.sym \notin Futures THEN 0
  ELSE IF o.side = "BUY" THEN MarginPerUnit * o.qty
  ELSE -Units(d.reserved[o.sym] * o.qty, d.pos[o.sym].qty)

\* Defect: the replay guard is never consulted.
UnguardedKey(d, o) == FALSE
\* INSERT OR IGNORE INTO paper_idempotency found the key already claimed.
DuplicateKey(d, o) == o.key # NoKey /\ o.key \in d.claims

Refused(d, o) ==
  PilotBlocks(d, o) \/ DuplicateKey(d, o) \/ LevelsRefused(d, o) \/ Unfunded(d, o)

\* Defect: a sale that leaves units open erases their stop with the sold ones.
EraseSold(p, n) == IF n = 0 THEN Flat ELSE [p EXCEPT !.qty = n, !.stop = 0]
\* The position row after a sale: deleted at zero, otherwise with its average and its levels.
SoldRow(p, n) == IF n = 0 THEN Flat ELSE [p EXCEPT !.qty = n]

\* The transaction of _execute_once, once nothing refused it.
Commit(d, o) ==
  LET p == d.pos[o.sym]
      margin == MarginChange(d, o)
      bought == p.qty + o.qty
      row == IF o.side = "BUY"
             THEN HeldRow(bought, Units(p.avg * p.qty + Notional(o), bought), Levels(p, o))
             ELSE SoldRow(p, p.qty - o.qty)
      flow == IF o.sym \in Futures
              THEN IF o.side = "BUY" THEN -margin ELSE (FillPrice(o) - p.avg) * o.qty - margin
              ELSE IF o.side = "BUY" THEN -Notional(o) ELSE Notional(o)
  IN [d EXCEPT
        !.cash = @ + flow - Fee,
        !.pos[o.sym] = row,
        !.reserved[o.sym] = @ + margin,
        !.claims = @ \union ({o.key} \ {NoKey}),
        !.cooldown[o.sym] = IF o.until > 0 THEN o.until ELSE @,
        !.ledger = Append(@, [sym |-> o.sym, side |-> o.side, qty |-> o.qty,
                              price |-> FillPrice(o), stop |-> o.stop, target |-> o.target,
                              margin |-> margin, key |-> o.key, protective |-> o.protective])]

\* A refusal raises before the commit and the transaction rolls back.
Execute(d, o) == IF Refused(d, o) THEN d ELSE Commit(d, o)
-----------------------------------------------------------------------------
(* Values read from the ledger and the risk state beside it.               *)

\* _validated_fill_receipt: the quantity and average before fill n, replayed from the earlier ones.
PriorPosition(d, n) ==
  LET p == Replayed(d.ledger)[n - 1].pos[d.ledger[n].sym]
  IN [qty |-> p.qty, avg |-> p.avg]

\* _mark_position and _metrics_locked: an unpriced holding is valued at its average.
Value(d, marks, s) ==
  LET p == d.pos[s]
      mark == IF marks[s] = 0 THEN p.avg ELSE marks[s]
  IN IF p.qty = 0 THEN 0
     ELSE IF s \in Futures THEN d.reserved[s] + (mark - p.avg) * p.qty
     ELSE mark * p.qty

Equity(d, marks) == d.cash + MapThenSumSet(LAMBDA s : Value(d, marks, s), Symbols)

\* record_equity: a new day opens at the last equity of the latest earlier one; no reader
\* looks further back, so only the latest row is kept, and a figure dated before it goes.
RecordEquity(d, day, equity) ==
  LET opening == IF d.daily.day = day THEN d.daily.opening
                 ELSE IF d.daily.day = 0 THEN equity ELSE d.daily.last
  IN [d EXCEPT !.daily = IF day < @.day THEN @
                         ELSE [day |-> day, opening |-> opening, last |-> equity],
               !.peak = Max({@, equity})]
=============================================================================
