----------------------------- MODULE DurableOms -----------------------------
(***************************************************************************)
(* The durable order-management journal: DurableOms of                     *)
(* src/src/quant_ai/orders/oms.py.                                         *)
(*                                                                         *)
(* Every public method is one SQLite transaction (BEGIN IMMEDIATE under an *)
(* RLock, rolled back on any exception), so every method is one action: a  *)
(* method that raises changes nothing, which is the action not being       *)
(* enabled, and a method that finds its work already done returns without  *)
(* writing, which is the UNCHANGED disjunct of the action.                 *)
(*                                                                         *)
(* A client order id is the hash of the order's economics and its decision *)
(* id, so an id fixes its quantity and its economic identity: the          *)
(* constants Qty and Econ.  The protective levels are NOT hashed: they are *)
(* the part of the intent that two callers of one id may disagree on.      *)
(* Timestamps, wording and the hash chain are left out; the sequence       *)
(* number that the chain protects is kept.  The stored average price is    *)
(* kept as the notional it is the quotient of.                             *)
(***************************************************************************)
EXTENDS Integers, Sequences, FiniteSets, SequencesExt, FiniteSums,
        OrderLifecycle

CONSTANTS
  ClientIds,   \* client order ids
  Qty,         \* requested quantity of each id
  Econ,        \* tenant, strategy, instrument and side of each id
  Levels,      \* protective levels an intent may carry
  BrokerIds,   \* broker order ids
  NoBroker,    \* NULL broker_order_id
  FillIds,     \* execution ids
  Source,      \* the broker order an external (KITE2) fill id is derived from
  Prices,      \* fill prices
  MaxEvents    \* bound: journal rows per order

ASSUME ClientsAssumption == IsFiniteSet(ClientIds)
ASSUME QtyAssumption == Qty \in [ClientIds -> Nat \ {0}]
ASSUME BrokerAssumption == NoBroker \notin BrokerIds
ASSUME SourceAssumption == Source \in [FillIds -> BrokerIds \cup {NoBroker}]
ASSUME PricesAssumption == Prices \subseteq Nat \ {0}
ASSUME MaxEventsAssumption == MaxEvents \in Nat

VARIABLES
  orders,        \* oms_orders, the projection
  events,        \* oms_events, per order
  fills,         \* oms_fills
  bindings,      \* oms_broker_evidence_bindings: broker order id per order
  replacements   \* oms_replacements

vars == <<orders, events, fills, bindings, replacements>>

MaybeBroker == BrokerIds \cup {NoBroker}

Row == [state : OrderStates \cup {"ABSENT"}, filled : Nat, notional : Nat,
        broker : MaybeBroker, seq : Nat]

Absent == [state |-> "ABSENT", filled |-> 0, notional |-> 0,
           broker |-> NoBroker, seq |-> 0]

FillRow == [fill : FillIds, order : ClientIds, qty : Nat, price : Nat,
            broker : MaybeBroker]

Link == [original : ClientIds, replacement : ClientIds]

Init ==
  /\ orders = [o \in ClientIds |-> Absent]
  /\ events = [o \in ClientIds |-> << >>]
  /\ fills = {}
  /\ bindings = [o \in ClientIds |-> NoBroker]
  /\ replacements = {}

-----------------------------------------------------------------------------
(* Helpers the operations share.                                           *)

Present(o) == orders[o].state # "ABSENT"

\* Defect: the remainder of a cancelled order ignores its partial fills.
PendingAsRequested(o) == Qty[o]

\* OmsOrder.pending_quantity.
Pending(o) == Qty[o] - orders[o].filled

FillsOf(o) == {r \in fills : r.order = o}

\* What fill rows paid and bought together.
NotionalOf(rows) == SumOf([r \in rows |-> r.price * r.qty], rows)
QuantityOf(rows) == SumOf([r \in rows |-> r.qty], rows)

\* replacement_for: the order that replaced o, as a set of at most one.
Replacement(o) == {l.replacement : l \in {k \in replacements : k.original = o}}

\* Defect: an existing lineage row does not stop a second replacement.
NotReplacedUnchecked(o) == TRUE

NotReplaced(o) == Replacement(o) = {}

\* Defect: any order that is not full yet accepts any fill.
FitsAnyRemainder(o, q) == orders[o].filled < Qty[o]

FitsRemainder(o, q) == orders[o].filled + q <= Qty[o]

\* _broker_identity: a second, different broker id raises.
SameBroker(existing, supplied) ==
  existing = NoBroker \/ supplied = NoBroker \/ existing = supplied

MergedBroker(existing, supplied) ==
  IF existing # NoBroker THEN existing ELSE supplied

\* _append_event_locked: the event takes the number after the row's
\* last_event_sequence, which every writer also stores back in the row.
NextSeq(o) == orders[o].seq + 1

RoomFor(o) == Len(events[o]) < MaxEvents

-----------------------------------------------------------------------------
(* verify / _verify_locked: replay the journal and compare.                *)

ReplayStart ==
  [ok |-> TRUE, at |-> 0, state |-> "CREATED", broker |-> NoBroker,
   filled |-> 0, notional |-> 0, fills |-> {}, evidence |-> NoBroker]

\* The FILL arm of the replay.
ReplayFill(o, r, e) ==
  LET total  == r.filled + e.qty
      target == IF total = Qty[o] THEN "FILLED" ELSE "PARTIALLY_FILLED"
      broker == MergedBroker(r.broker, e.broker)
  IN [r EXCEPT
        !.ok = /\ @
               /\ total <= Qty[o]
               /\ e.total = total
               /\ e.notional = r.notional + e.price * e.qty
               /\ e.state = target
               /\ Allowed(r.state, target)
               /\ SameBroker(r.broker, e.broker)
               /\ Source[e.fill] # NoBroker =>
                     /\ Source[e.fill] = broker
                     /\ r.evidence = broker
               /\ e.fill \notin {x.fill : x \in r.fills},
        !.at = @ + 1, !.state = target, !.broker = broker,
        !.filled = total, !.notional = @ + e.price * e.qty,
        !.fills = @ \cup {[fill |-> e.fill, qty |-> e.qty, price |-> e.price,
                           broker |-> broker]}]

\* One row of the journal, in sequence order; the binding and the replacement of the
\* order are read from their tables.
ReplayStep(o, r, e, bound, replacement) ==
  LET seen == [r EXCEPT !.ok = @ /\ e.seq = r.at + 1, !.at = @ + 1]
  IN CASE e.kind = "CREATED" ->
            [seen EXCEPT !.ok = @ /\ e.seq = 1 /\ e.qty = Qty[o]]
       [] e.kind = "FILL" ->
            [ReplayFill(o, r, e) EXCEPT !.ok = @ /\ e.seq = r.at + 1]
       [] e.kind = "BROKER_EVIDENCE_BOUND" ->
            [seen EXCEPT !.ok = /\ @
                                /\ r.evidence = NoBroker
                                /\ r.state # "CREATED"
                                /\ bound = e.broker,
                         !.evidence = e.broker]
       [] e.kind = "BROKER_ID_OBSERVED" ->
            [seen EXCEPT !.ok = /\ @
                                /\ e.state = r.state
                                /\ SameBroker(r.broker, e.broker),
                         !.broker = MergedBroker(@, e.broker)]
       [] e.kind = "REPLACED_BY" ->
            [seen EXCEPT !.ok = /\ @
                                /\ r.state = "CANCELLED"
                                /\ e.by \in replacement]
       [] OTHER ->
            [seen EXCEPT !.ok = /\ @
                                /\ e.from = r.state
                                /\ Allowed(r.state, e.kind)
                                /\ SameBroker(r.broker, e.broker),
                         !.state = e.kind,
                         !.broker = MergedBroker(@, e.broker)]

Replay(o) ==
  FoldLeft(LAMBDA r, e : ReplayStep(o, r, e, bindings[o], Replacement(o)),
           ReplayStart, events[o])

\* The stored fill rows are the replayed ones; a row may omit the broker id.
FillHistoryMatches(o, r) ==
  /\ {x.fill : x \in FillsOf(o)} = {x.fill : x \in r.fills}
  /\ \A x \in FillsOf(o) : \E y \in r.fills :
       /\ x.fill = y.fill /\ x.qty = y.qty /\ x.price = y.price
       /\ x.broker \in {NoBroker, y.broker}

Verify(o) ==
  /\ events[o] # << >>
  /\ events[o][1].kind = "CREATED"
  /\ LET r == Replay(o)
     IN /\ r.ok
        /\ Len(events[o]) = orders[o].seq
        /\ bindings[o] = r.evidence
        /\ r.state = "FILLED" => r.filled = Qty[o]
        /\ r.state = orders[o].state
        /\ r.broker = orders[o].broker
        /\ r.filled = orders[o].filled
        /\ r.notional = orders[o].notional
        /\ FillHistoryMatches(o, r)

-----------------------------------------------------------------------------
(* Operations.                                                             *)

\* Defect: the INSERT leaves last_event_sequence out.
NewRowWithoutSequence ==
  [state |-> "CREATED", filled |-> 0, notional |-> 0, broker |-> NoBroker]

NewRow == [Absent EXCEPT !.state = "CREATED", !.seq = 1]

CreatedEvent(o, l) ==
  [seq |-> 1, kind |-> "CREATED", qty |-> Qty[o], levels |-> l]

\* create: idempotent for the same full intent (stored levels included),
\* read back through intent_snapshot, which verifies the order first.
Create(o, l) ==
  \/ /\ Present(o)
     /\ Verify(o)
     /\ events[o][1].levels = l
     /\ UNCHANGED vars
  \/ /\ ~Present(o)
     /\ RoomFor(o)
     /\ orders' = [orders EXCEPT ![o] = NewRow]
     /\ events' = [events EXCEPT ![o] = Append(@, CreatedEvent(o, l))]
     /\ UNCHANGED <<fills, bindings, replacements>>

\* transition: the table, then the broker identity, then row and event.
Transition(o, target, b) ==
  /\ Present(o)
  /\ Allowed(orders[o].state, target)
  /\ SameBroker(orders[o].broker, b)
  /\ RoomFor(o)
  /\ LET broker == MergedBroker(orders[o].broker, b)
     IN /\ orders' = [orders EXCEPT ![o].state = target,
                                    ![o].broker = broker,
                                    ![o].seq = NextSeq(o)]
        /\ events' = [events EXCEPT ![o] = Append(@,
                       [seq |-> NextSeq(o), kind |-> target, from |-> orders[o].state,
                        broker |-> broker])]
  /\ UNCHANGED <<fills, bindings, replacements>>

ApproveRisk(o) == Transition(o, "RISK_APPROVED", NoBroker)

Submitted(o, b) == Transition(o, "SUBMITTED", b)

SubmissionUncertain(o) == Transition(o, "SUBMISSION_UNCERTAIN", NoBroker)

Reject(o) == Transition(o, "REJECTED", NoBroker)

Cancel(o) == Transition(o, "CANCELLED", NoBroker)

\* Defect: the row is updated but the observation is not journaled.
BindBrokerIdentityUnjournaled(o, b) ==
  /\ Present(o)
  /\ SameBroker(orders[o].broker, b)
  /\ orders' = [orders EXCEPT ![o].broker = b]
  /\ UNCHANGED <<events, fills, bindings, replacements>>

\* bind_broker_identity: no state change; a repeat writes nothing.
BindBrokerIdentity(o, b) ==
  /\ Present(o)
  /\ b # NoBroker
  /\ SameBroker(orders[o].broker, b)
  /\ \/ /\ orders[o].broker = b
        /\ UNCHANGED vars
     \/ /\ orders[o].broker # b
        /\ RoomFor(o)
        /\ orders' = [orders EXCEPT ![o].broker = b, ![o].seq = NextSeq(o)]
        /\ events' = [events EXCEPT ![o] = Append(@,
                       [seq |-> NextSeq(o), kind |-> "BROKER_ID_OBSERVED", broker |-> b,
                        state |-> orders[o].state])]
        /\ UNCHANGED <<fills, bindings, replacements>>

\* bind_broker_evidence: checked against the order's broker id, which it does
\* not set; UNIQUE over the broker order.
BindBrokerEvidence(o, b) ==
  /\ Present(o)
  /\ b # NoBroker
  /\ orders[o].state # "CREATED"
  /\ SameBroker(orders[o].broker, b)
  /\ \/ /\ bindings[o] = b
        /\ UNCHANGED vars
     \/ /\ bindings[o] = NoBroker
        /\ \A x \in ClientIds : bindings[x] # b
        /\ RoomFor(o)
        /\ bindings' = [bindings EXCEPT ![o] = b]
        /\ orders' = [orders EXCEPT ![o].seq = NextSeq(o)]
        /\ events' = [events EXCEPT ![o] = Append(@,
                       [seq |-> NextSeq(o), kind |-> "BROKER_EVIDENCE_BOUND", broker |-> b])]
        /\ UNCHANGED <<fills, replacements>>

\* replace_cancelled: one new order for a confirmed cancel, never more than
\* what the cancelled order left unfilled.
ReplaceCancelled(o, n, l) ==
  \/ /\ n \in Replacement(o)
     /\ Present(n)
     /\ Verify(n)
     /\ events[n][1].levels = l
     /\ UNCHANGED vars
  \/ /\ NotReplaced(o)
     /\ orders[o].state = "CANCELLED"
     /\ Pending(o) > 0
     /\ Econ[n] = Econ[o]
     /\ Qty[n] <= Pending(o)
     /\ ~Present(n)
     /\ RoomFor(o)
     /\ RoomFor(n)
     /\ orders' = [orders EXCEPT ![n] = NewRow, ![o].seq = NextSeq(o)]
     /\ events' = [events EXCEPT
                    ![n] = Append(@, CreatedEvent(n, l)),
                    ![o] = Append(@, [seq |-> NextSeq(o),
                                      kind |-> "REPLACED_BY", by |-> n])]
     /\ replacements' = replacements \cup {[original |-> o, replacement |-> n]}
     /\ UNCHANGED <<fills, bindings>>

\* Defect: the fill names its broker order, but the binding is not compared.
SourceNamed(o, f, b) == Source[f] # NoBroker => Source[f] = b

\* assert_fill_source: an external fill names the broker order the persisted
\* evidence binding names.
SourceBound(o, f, b) ==
  Source[f] # NoBroker => Source[f] = b /\ bindings[o] = b

\* Defect: INSERT OR IGNORE into oms_fills, without the duplicate lookup.
NewFillUnchecked(f) == TRUE

NewFill(f) == \A x \in fills : x.fill # f

\* fill: a fill id seen before is either the same fill (nothing happens) or
\* an error; otherwise the quantity must fit in what is still open.
Fill(o, f, q, p, b) ==
  /\ Present(o)
  /\ SourceBound(o, f, b)
  /\ \/ /\ [fill |-> f, order |-> o, qty |-> q, price |-> p, broker |-> b]
              \in fills
        /\ UNCHANGED vars
     \/ /\ NewFill(f)
        /\ orders[o].state \in
              {"SUBMITTED", "SUBMISSION_UNCERTAIN", "PARTIALLY_FILLED"}
        /\ FitsRemainder(o, q)
        /\ SameBroker(orders[o].broker, b)
        /\ RoomFor(o)
        /\ LET total    == orders[o].filled + q
               target   == IF total = Qty[o] THEN "FILLED"
                                             ELSE "PARTIALLY_FILLED"
               notional == NotionalOf(FillsOf(o)) + p * q
               broker   == MergedBroker(orders[o].broker, b)
           IN /\ Allowed(orders[o].state, target)
              /\ fills' = fills \cup {[fill |-> f, order |-> o, qty |-> q,
                                       price |-> p, broker |-> b]}
              /\ orders' = [orders EXCEPT ![o] =
                              [state |-> target, filled |-> total,
                               notional |-> notional, broker |-> broker,
                               seq |-> NextSeq(o)]]
              /\ events' = [events EXCEPT ![o] = Append(@,
                       [seq |-> NextSeq(o), kind |-> "FILL", fill |-> f, qty |-> q,
                              price |-> p, total |-> total,
                              notional |-> notional, state |-> target,
                              broker |-> broker])]
        /\ UNCHANGED <<bindings, replacements>>

Next ==
  \E o \in ClientIds :
    \/ \E l \in Levels : Create(o, l)
    \/ ApproveRisk(o)
    \/ \E b \in MaybeBroker : Submitted(o, b)
    \/ SubmissionUncertain(o)
    \/ Reject(o)
    \/ Cancel(o)
    \/ \E b \in BrokerIds : BindBrokerIdentity(o, b)
    \/ \E b \in BrokerIds : BindBrokerEvidence(o, b)
    \/ \E n \in ClientIds, l \in Levels : ReplaceCancelled(o, n, l)
    \/ \E f \in FillIds, q \in 1..Qty[o], p \in Prices, b \in MaybeBroker :
         Fill(o, f, q, p, b)

Spec == Init /\ [][Next]_vars

-----------------------------------------------------------------------------
(* Properties.                                                             *)

\* Every table holds rows of its schema.
TypeOK ==
  /\ orders \in [ClientIds -> Row]
  /\ DOMAIN events = ClientIds
  /\ \A o \in ClientIds : Len(events[o]) <= MaxEvents
  /\ fills \subseteq FillRow
  /\ bindings \in [ClientIds -> MaybeBroker]
  /\ replacements \subseteq Link

\* verify() accepts every order in every reachable state: no sequence of
\* accepted calls leaves a projection that replaying its own journal refuses
\* (callers treat a refusal as corruption and stop trading the order).
EveryOrderVerifies == \A o \in ClientIds : Present(o) => Verify(o)

\* The projected quantity agrees with the lifecycle state: an order with a
\* fill is never rejected nor looks unfilled again, FILLED means exactly the
\* requested quantity and PARTIALLY_FILLED strictly less, whatever mix of
\* fills, duplicates, cancels and late callbacks arrived.
FilledAgreesWithState ==
  \A o \in ClientIds :
    /\ orders[o].filled <= Qty[o]
    /\ orders[o].filled > 0 =>
         orders[o].state \in {"PARTIALLY_FILLED", "FILLED", "CANCELLED"}
    /\ orders[o].state = "PARTIALLY_FILLED" =>
         orders[o].filled \in 1..(Qty[o] - 1)
    /\ orders[o].state = "FILLED" <=> orders[o].filled = Qty[o]

\* A cancelled order is replaced at most once, by an order no larger than
\* what it left unfilled, and no late fill shrinks that remainder afterwards.
ReplacementFitsRemainder ==
  \A k \in replacements :
    /\ orders[k.original].state = "CANCELLED"
    /\ Present(k.replacement)
    /\ Qty[k.replacement] <= Qty[k.original] - orders[k.original].filled
    /\ \A j \in replacements :
         (j.original = k.original \/ j.replacement = k.replacement) => j = k

\* Filled quantity of an order and of the chain of orders that replaced it.
LineageFilled ==
  LET sum[d \in 0..Cardinality(ClientIds)] ==
        [o \in ClientIds |->
           orders[o].filled +
             (IF d = 0 THEN 0 ELSE SumOf(sum[d - 1], Replacement(o)))]
  IN sum[Cardinality(ClientIds)]

\* Cancel-and-replace never trades more than the first order asked for,
\* however many times the remainder is replaced.
LineageWithinOriginal == \A o \in ClientIds : LineageFilled[o] <= Qty[o]

\* The projected quantity of every order is the sum of its distinct fill rows.
FillsCountedOnce ==
  \A o \in ClientIds : orders[o].filled = QuantityOf(FillsOf(o))

\* A fill of an external broker order is on the order whose evidence names it.
ExternalFillsAttributed ==
  \A r \in fills : Source[r.fill] # NoBroker =>
    /\ bindings[r.order] = Source[r.fill]
    /\ orders[r.order].broker = Source[r.fill]
    /\ \A o \in ClientIds : bindings[o] = Source[r.fill] => o = r.order

\* An execution id counts once, replays and redeliveries included, and an execution of an
\* external broker order counts for the one order whose persisted evidence names that broker
\* order (oms.py fill, bind_broker_evidence).
ExecutionsHaveOneOwner == FillsCountedOnce /\ ExternalFillsAttributed

\* A closed order stays closed and keeps its quantity, and a broker identity
\* once recorded is never replaced by another one.
ClosedOrdersStayClosed ==
  [][\A o \in ClientIds :
       /\ orders[o].state \in Terminal =>
            /\ orders'[o].state = orders[o].state
            /\ orders'[o].filled = orders[o].filled
       /\ orders[o].broker # NoBroker => orders'[o].broker = orders[o].broker
    ]_vars
=============================================================================
