-------------------------- MODULE DurableOmsProofs --------------------------
(***************************************************************************)
(* Theorems about DurableOms.tla: closed orders stay closed, the fills of  *)
(* an order agree with its state, verify() accepts every order, every      *)
(* execution counts once and chains of replacements stay within their      *)
(* first order, for any finitely many orders and any quantities, execution *)
(* ids, prices and bounds.                                                 *)
(***************************************************************************)
EXTENDS DurableOms, FiniteSumTheorems

-----------------------------------------------------------------------------
(* The rows of oms_orders and oms_replacements.                            *)

\* The columns the theorems are about.
Shape(r) == DOMAIN r = {"state", "filled", "notional", "broker", "seq"}

RowsTyped ==
  /\ DOMAIN orders = ClientIds
  /\ \A o \in ClientIds :
       /\ Shape(orders[o])
       /\ orders[o].state \in OrderStates \cup {"ABSENT"}
       /\ orders[o].filled \in Nat
       /\ orders[o].state = "ABSENT" => orders[o].broker = NoBroker
  /\ replacements \subseteq Link

\* The inductive invariant: the rows and the two safety properties.  They are
\* inductive together: a lineage row names a cancelled order, which takes no
\* fill, and the filled quantity is what the replacement was measured against.
LineageInv ==
  /\ RowsTyped
  /\ FilledAgreesWithState
  /\ ReplacementFitsRemainder

\* What a call may do to the row of one order.
Kept(o) == orders'[o].state = orders[o].state /\ orders'[o].filled = orders[o].filled

Moved(o, target) ==
  /\ Allowed(orders[o].state, target)
  /\ target \in {"RISK_APPROVED", "SUBMITTED", "SUBMISSION_UNCERTAIN",
                 "REJECTED", "CANCELLED"}
  /\ orders'[o].state = target
  /\ orders'[o].filled = orders[o].filled

Opened(o) ==
  /\ orders[o].state = "ABSENT"
  /\ orders'[o].state = "CREATED"
  /\ orders'[o].filled = 0

Traded(o) ==
  /\ orders[o].state \in {"SUBMITTED", "SUBMISSION_UNCERTAIN", "PARTIALLY_FILLED"}
  /\ \E q \in 1..Qty[o] :
       /\ orders[o].filled + q <= Qty[o]
       /\ orders'[o].filled = orders[o].filled + q
       /\ orders'[o].state = IF orders[o].filled + q = Qty[o]
                             THEN "FILLED" ELSE "PARTIALLY_FILLED"

\* Only replace_cancelled writes lineage: one row, for a cancelled order that
\* had none, naming an order it creates within the remainder.
Linked ==
  \E o, n \in ClientIds :
    /\ orders[o].state = "CANCELLED" /\ Kept(o)
    /\ Opened(n)
    /\ Qty[n] <= Qty[o] - orders[o].filled
    /\ \A k \in replacements : k.original # o
    /\ replacements' = replacements \cup {[original |-> o, replacement |-> n]}

RowStep(o) ==
  Kept(o) \/ Opened(o) \/ Traded(o) \/ \E t \in OrderStates : Moved(o, t)

\* A broker identity, once recorded, is never replaced by another one.
BrokerKept(o) ==
  /\ orders[o].broker # NoBroker => orders'[o].broker = orders[o].broker
  /\ orders'[o].state = "ABSENT" => orders'[o].broker = NoBroker

TableStep ==
  /\ DOMAIN orders' = ClientIds
  /\ \A o \in ClientIds : Shape(orders'[o]) /\ RowStep(o) /\ BrokerKept(o)

\* The lifecycle moves.
LEMMA TransitionRows ==
  ASSUME RowsTyped, NEW o \in ClientIds, NEW b,
         NEW target \in {"RISK_APPROVED", "SUBMITTED", "SUBMISSION_UNCERTAIN",
                         "REJECTED", "CANCELLED"},
         Transition(o, target, b)
  PROVE  TableStep /\ UNCHANGED replacements
<1>1. DOMAIN orders' = ClientIds
  BY DEF Transition, RowsTyped
<1>2. Allowed(orders[o].state, target) /\ UNCHANGED replacements
  BY DEF Transition
<1>3. /\ orders'[o] = [orders[o] EXCEPT
                        !.state = target,
                        !.broker = MergedBroker(orders[o].broker, b),
                        !.seq = NextSeq(o)]
      /\ \A x \in ClientIds : x # o => orders'[x] = orders[x]
  BY DEF Transition, RowsTyped
<1>4. Moved(o, target) /\ Shape(orders'[o]) /\ BrokerKept(o)
  BY <1>2, <1>3 DEF Moved, Shape, BrokerKept, MergedBroker, RowsTyped
<1>5. target \in OrderStates
  BY DEF OrderStates
<1>6. QED
  BY <1>1, <1>2, <1>3, <1>4, <1>5 DEF TableStep, RowStep, Kept, RowsTyped,
     BrokerKept

\* A row nobody writes.
LEMMA QuietRows ==
  ASSUME RowsTyped, UNCHANGED orders
  PROVE  TableStep
BY DEF RowsTyped, TableStep, RowStep, Kept, BrokerKept

\* create.
LEMMA CreateRows ==
  ASSUME RowsTyped, NEW o \in ClientIds, NEW l, Create(o, l)
  PROVE  TableStep /\ UNCHANGED replacements
<1>1. CASE UNCHANGED vars
  BY <1>1, QuietRows DEF vars
<1>2. CASE ~Present(o) /\ orders' = [orders EXCEPT ![o] = NewRow]
  <2>1. /\ DOMAIN orders' = ClientIds
        /\ orders'[o] = NewRow
        /\ \A x \in ClientIds : x # o => orders'[x] = orders[x]
    BY <1>2 DEF RowsTyped
  <2>2. Opened(o) /\ Shape(orders'[o])
    BY <1>2, <2>1 DEF Opened, Present, NewRow, Absent, Shape
  <2>3. UNCHANGED replacements
    BY <1>2 DEF Create, vars
  <2>4. BrokerKept(o)
    BY <1>2, <2>1, <2>2 DEF BrokerKept, Opened, RowsTyped
  <2>5. QED
    BY <2>1, <2>2, <2>3, <2>4 DEF TableStep, RowStep, Kept,
       BrokerKept, RowsTyped
<1>3. QED
  BY <1>1, <1>2 DEF Create

\* bind_broker_identity and bind_broker_evidence change no state or quantity.
LEMMA BindRows ==
  ASSUME RowsTyped, NEW o \in ClientIds, NEW b,
         BindBrokerIdentity(o, b) \/ BindBrokerEvidence(o, b)
  PROVE  TableStep /\ UNCHANGED replacements
<1>1. CASE UNCHANGED vars
  BY <1>1, QuietRows DEF vars
<1>2. CASE /\ orders[o].broker # b
           /\ BindBrokerIdentity(o, b)
  <2>1. /\ DOMAIN orders' = ClientIds
        /\ orders'[o] = [orders[o] EXCEPT !.broker = b, !.seq = NextSeq(o)]
        /\ \A x \in ClientIds : x # o => orders'[x] = orders[x]
        /\ SameBroker(orders[o].broker, b) /\ b # NoBroker
        /\ orders[o].state # "ABSENT"
        /\ UNCHANGED replacements
    BY <1>2 DEF BindBrokerIdentity, Present, RowsTyped, vars
  <2>2. Kept(o) /\ Shape(orders'[o]) /\ BrokerKept(o)
    BY <1>2, <2>1 DEF Kept, Shape, BrokerKept, SameBroker, RowsTyped
  <2>3. QED
    BY <2>1, <2>2 DEF TableStep, RowStep, Kept, BrokerKept, RowsTyped
<1>3. CASE /\ bindings[o] = NoBroker
           /\ b # NoBroker
           /\ BindBrokerEvidence(o, b)
  <2>1. /\ DOMAIN orders' = ClientIds
        /\ orders'[o] = [orders[o] EXCEPT !.seq = NextSeq(o)]
        /\ \A x \in ClientIds : x # o => orders'[x] = orders[x]
        /\ UNCHANGED replacements
    BY <1>3 DEF BindBrokerEvidence, RowsTyped, vars
  <2>2. Kept(o) /\ Shape(orders'[o]) /\ BrokerKept(o)
    BY <2>1 DEF Kept, Shape, BrokerKept, RowsTyped
  <2>3. QED
    BY <2>1, <2>2 DEF TableStep, RowStep, Kept, BrokerKept, RowsTyped
<1>4. QED
  BY <1>1, <1>2, <1>3 DEF BindBrokerIdentity, BindBrokerEvidence

\* replace_cancelled: one row is opened and one lineage row written.
LEMMA ReplaceRows ==
  ASSUME RowsTyped, NEW o \in ClientIds, NEW n \in ClientIds, NEW l,
         ReplaceCancelled(o, n, l)
  PROVE  TableStep /\ (UNCHANGED replacements \/ Linked)
<1>1. CASE UNCHANGED vars
  BY <1>1, QuietRows DEF vars
<1>2. CASE ~UNCHANGED vars
  <2>1. /\ NotReplaced(o)
        /\ orders[o].state = "CANCELLED"
        /\ Qty[n] <= Pending(o)
        /\ ~Present(n)
        /\ orders' = [orders EXCEPT ![n] = NewRow, ![o].seq = NextSeq(o)]
        /\ replacements' = replacements \cup {[original |-> o, replacement |-> n]}
    BY <1>2 DEF ReplaceCancelled
  <2>2. n # o
    BY <2>1 DEF Present
  <2>3. /\ DOMAIN orders' = ClientIds
        /\ orders'[n] = NewRow
        /\ orders'[o] = [orders[o] EXCEPT !.seq = NextSeq(o)]
        /\ \A x \in ClientIds : x # o /\ x # n => orders'[x] = orders[x]
    BY <2>1, <2>2 DEF RowsTyped
  <2>4. Kept(o) /\ Shape(orders'[o]) /\ BrokerKept(o)
    BY <2>3 DEF Kept, Shape, BrokerKept, RowsTyped
  <2>5. Opened(n) /\ Shape(orders'[n]) /\ BrokerKept(n)
    BY <2>1, <2>3 DEF Opened, Present, NewRow, Absent, Shape, BrokerKept,
       RowsTyped
  <2>6. \A k \in replacements : k.original # o
    BY <2>1 DEF NotReplaced, Replacement
  <2>7. Linked
    BY <2>1, <2>4, <2>5, <2>6 DEF Linked, Pending
  <2>8. QED
    BY <2>3, <2>4, <2>5, <2>7 DEF TableStep, RowStep, Kept, BrokerKept,
       RowsTyped
<1>3. QED
  BY <1>1, <1>2

\* fill.
LEMMA FillRows ==
  ASSUME RowsTyped, NEW o \in ClientIds, NEW f, NEW q \in 1..Qty[o], NEW p,
         NEW b, Fill(o, f, q, p, b)
  PROVE  TableStep /\ UNCHANGED replacements
<1>1. CASE UNCHANGED vars
  BY <1>1, QuietRows DEF vars
<1>2. CASE ~UNCHANGED vars
  <2> DEFINE total == orders[o].filled + q
             target == IF total = Qty[o] THEN "FILLED" ELSE "PARTIALLY_FILLED"
             broker == MergedBroker(orders[o].broker, b)
             notional == NotionalOf(FillsOf(o)) + p * q
             row == [state |-> target, filled |-> total, notional |-> notional,
                     broker |-> broker, seq |-> NextSeq(o)]
  <2>1. /\ orders[o].state \in
              {"SUBMITTED", "SUBMISSION_UNCERTAIN", "PARTIALLY_FILLED"}
        /\ FitsRemainder(o, q)
        /\ orders' = [orders EXCEPT ![o] = row]
        /\ UNCHANGED replacements
    BY <1>2 DEF Fill
  <2> HIDE DEF notional
  <2>2. /\ DOMAIN orders' = ClientIds
        /\ orders'[o] = row
        /\ \A x \in ClientIds : x # o => orders'[x] = orders[x]
    BY <2>1 DEF RowsTyped
  <2>3. Traded(o) /\ Shape(orders'[o]) /\ BrokerKept(o)
    BY <2>1, <2>2 DEF Traded, FitsRemainder, Shape, BrokerKept, MergedBroker
  <2>4. QED
    BY <2>1, <2>2, <2>3 DEF TableStep, RowStep, Kept, BrokerKept, RowsTyped
<1>3. QED
  BY <1>1, <1>2

\* Every call keeps a row, opens it, moves it along the table or fills it.
LEMMA Calls ==
  ASSUME RowsTyped, [Next]_vars
  PROVE  TableStep /\ (UNCHANGED replacements \/ Linked)
<1>1. CASE UNCHANGED vars
  BY <1>1, QuietRows DEF vars
<1>2. ASSUME NEW o \in ClientIds,
             \/ ApproveRisk(o) \/ (\E b \in MaybeBroker : Submitted(o, b))
             \/ SubmissionUncertain(o) \/ Reject(o) \/ Cancel(o)
      PROVE  TableStep /\ UNCHANGED replacements
  BY <1>2, TransitionRows DEF ApproveRisk, Submitted, SubmissionUncertain,
     Reject, Cancel
<1>3. QED
  BY <1>1, <1>2, CreateRows, BindRows, ReplaceRows, FillRows DEF Next

-----------------------------------------------------------------------------
(* The invariant and what follows from it.                                 *)

\* A closed row is kept: the lifecycle table has no way out of it.
LEMMA ClosedKept ==
  ASSUME TableStep, NEW o \in ClientIds, orders[o].state \in Terminal
  PROVE  Kept(o)
BY DEF TableStep, RowStep, Opened, Traded, Moved, Allowed, Terminal

\* A step keeps the schema of rows and lineage.
LEMMA RowsTypedStep ==
  ASSUME LineageInv, TableStep, UNCHANGED replacements \/ Linked
  PROVE  RowsTyped'
<1>1. \A o \in ClientIds : /\ Qty[o] \in Nat
                           /\ orders[o].filled \in Nat
  BY QtyAssumption DEF LineageInv, RowsTyped
<1>2. ASSUME NEW o \in ClientIds
      PROVE  /\ orders'[o].state \in OrderStates \cup {"ABSENT"}
             /\ orders'[o].filled \in Nat
  BY <1>1 DEF TableStep, RowStep, Kept, Opened, Traded, Moved, OrderStates,
     LineageInv, RowsTyped
<1>3. replacements' \subseteq Link
  BY DEF Linked, Link, LineageInv, RowsTyped
<1>4. \A o \in ClientIds : orders'[o].state = "ABSENT" => orders'[o].broker = NoBroker
  BY DEF TableStep, BrokerKept
<1>5. QED
  BY <1>2, <1>3, <1>4 DEF RowsTyped, TableStep

\* A step keeps the filled quantity in line with the state of its row.
LEMMA FilledStep ==
  ASSUME LineageInv, TableStep
  PROVE  FilledAgreesWithState'
<1> SUFFICES ASSUME NEW o \in ClientIds
             PROVE  /\ orders'[o].filled <= Qty[o]
                    /\ orders'[o].filled > 0 => orders'[o].state
                         \in {"PARTIALLY_FILLED", "FILLED", "CANCELLED"}
                    /\ orders'[o].state = "PARTIALLY_FILLED" =>
                         orders'[o].filled \in 1..(Qty[o] - 1)
                    /\ orders'[o].state = "FILLED" <=> orders'[o].filled = Qty[o]
  BY DEF FilledAgreesWithState
<1>1. /\ Qty[o] \in Nat /\ Qty[o] # 0
      /\ orders[o].filled \in Nat
      /\ orders[o].filled <= Qty[o]
      /\ orders[o].filled > 0 =>
           orders[o].state \in {"PARTIALLY_FILLED", "FILLED", "CANCELLED"}
      /\ orders[o].state = "PARTIALLY_FILLED" =>
           orders[o].filled \in 1..(Qty[o] - 1)
      /\ orders[o].state = "FILLED" <=> orders[o].filled = Qty[o]
  BY QtyAssumption DEF LineageInv, RowsTyped, FilledAgreesWithState
<1>2. CASE Kept(o) \/ Opened(o)
  BY <1>1, <1>2 DEF Kept, Opened
<1>3. CASE Traded(o)
  BY <1>1, <1>3 DEF Traded
<1>4. CASE \E t \in OrderStates : Moved(o, t)
  BY <1>1, <1>4 DEF Moved, Allowed
<1>5. QED
  BY <1>2, <1>3, <1>4 DEF TableStep, RowStep

\* A step keeps every replacement within what its order had left.
LEMMA LineageStep ==
  ASSUME LineageInv, TableStep, UNCHANGED replacements \/ Linked
  PROVE  ReplacementFitsRemainder'
<1>1. ASSUME NEW k \in replacements
      PROVE  /\ k.original \in ClientIds /\ k.replacement \in ClientIds
             /\ Kept(k.original)
             /\ orders'[k.original].state = "CANCELLED"
             /\ orders[k.replacement].state # "ABSENT"
             /\ orders'[k.replacement].state # "ABSENT"
             /\ Qty[k.replacement] <= Qty[k.original] - orders'[k.original].filled
             /\ \A j \in replacements :
                  j.original = k.original \/ j.replacement = k.replacement => j = k
  <2>1. /\ k.original \in ClientIds /\ k.replacement \in ClientIds
        /\ orders[k.original].state = "CANCELLED"
        /\ orders[k.replacement].state # "ABSENT"
        /\ Qty[k.replacement] <= Qty[k.original] - orders[k.original].filled
        /\ \A j \in replacements :
             j.original = k.original \/ j.replacement = k.replacement => j = k
    BY DEF LineageInv, RowsTyped, Link, ReplacementFitsRemainder, Present
  <2>2. Kept(k.original)
    BY <2>1, ClosedKept DEF Terminal
  <2>3. orders'[k.replacement].state # "ABSENT"
    BY <2>1 DEF TableStep, RowStep, Kept, Opened, Traded, Moved
  <2>4. QED
    BY <2>1, <2>2, <2>3 DEF Kept
<1>2. CASE UNCHANGED replacements
  BY <1>1, <1>2 DEF ReplacementFitsRemainder, Present
<1>3. CASE Linked
  <2>1. PICK o \in ClientIds, n \in ClientIds :
          /\ orders[o].state = "CANCELLED" /\ Kept(o)
          /\ Opened(n)
          /\ Qty[n] <= Qty[o] - orders[o].filled
          /\ \A k \in replacements : k.original # o
          /\ replacements' = replacements \cup {[original |-> o, replacement |-> n]}
    BY <1>3 DEF Linked
  <2> DEFINE new == [original |-> o, replacement |-> n]
  <2>2. new.original = o /\ new.replacement = n
    OBVIOUS
  <2>3. /\ orders'[o].state = "CANCELLED"
        /\ orders[n].state = "ABSENT" /\ orders'[n].state # "ABSENT"
        /\ Qty[n] <= Qty[o] - orders'[o].filled
    BY <2>1 DEF Kept, Opened
  <2>4. \A k \in replacements : k.original # o /\ k.replacement # n
    BY <1>1, <2>1, <2>3
  <2> HIDE DEF new
  <2>5. replacements' = replacements \cup {new}
    BY <2>1 DEF new
  <2>6. QED
    BY <1>1, <2>2, <2>3, <2>4, <2>5 DEF ReplacementFitsRemainder, Present
<1>4. QED
  BY <1>2, <1>3

\* LineageInv is inductive.
LEMMA LineageInvariance == Spec => []LineageInv
<1>1. Init => LineageInv
  <2> SUFFICES ASSUME Init
               PROVE  LineageInv
    OBVIOUS
  <2>1. /\ DOMAIN orders = ClientIds
        /\ \A o \in ClientIds : orders[o] = Absent
        /\ replacements = {}
    BY DEF Init
  <2>2. QED
    BY <2>1, QtyAssumption DEF LineageInv, RowsTyped, Shape, Absent,
       FilledAgreesWithState, ReplacementFitsRemainder
<1>2. LineageInv /\ [Next]_vars => LineageInv'
  <2> SUFFICES ASSUME LineageInv, [Next]_vars
               PROVE  LineageInv'
    OBVIOUS
  <2>1. TableStep /\ (UNCHANGED replacements \/ Linked)
    BY Calls DEF LineageInv
  <2>2. QED
    BY <2>1, RowsTypedStep, FilledStep, LineageStep DEF LineageInv
<1>3. QED
  BY <1>1, <1>2, PTL DEF Spec

\* A filled order is never rejected, FILLED is exactly the requested
\* quantity and PARTIALLY_FILLED strictly less, in every interleaving of
\* fills, duplicates, cancels and late callbacks.
THEOREM QuantityAgrees == Spec => []FilledAgreesWithState
<1>1. LineageInv => FilledAgreesWithState
  BY DEF LineageInv
<1>2. QED
  BY <1>1, LineageInvariance, PTL

\* replace_cancelled: at most one replacement, never more than the cancelled
\* order left unfilled, and no late fill shrinks that remainder.
THEOREM ReplacementFits == Spec => []ReplacementFitsRemainder
<1>1. LineageInv => ReplacementFitsRemainder
  BY DEF LineageInv
<1>2. QED
  BY <1>1, LineageInvariance, PTL

\* A closed order keeps its state and its quantity, and a recorded broker
\* identity is never replaced.
THEOREM ClosedForGood == Spec => ClosedOrdersStayClosed
<1>1. LineageInv /\ [Next]_vars =>
        [\A o \in ClientIds :
           /\ orders[o].state \in Terminal =>
                /\ orders'[o].state = orders[o].state
                /\ orders'[o].filled = orders[o].filled
           /\ orders[o].broker # NoBroker => orders'[o].broker = orders[o].broker
        ]_vars
  <2> SUFFICES ASSUME LineageInv, [Next]_vars, NEW o \in ClientIds
               PROVE  /\ orders[o].state \in Terminal => Kept(o)
                      /\ BrokerKept(o)
    BY DEF Kept, BrokerKept
  <2>1. TableStep
    BY Calls DEF LineageInv
  <2>2. QED
    BY <2>1, ClosedKept DEF TableStep
<1>2. QED
  BY <1>1, LineageInvariance, PTL DEF Spec, ClosedOrdersStayClosed

-----------------------------------------------------------------------------
(* verify() as a run: one replay record per journal row.                   *)

\* The recursive function behind FoldLeft, in verify's Replay.
ReplaysOver(g, o, es, b, n, S) ==
  g = [T \in SUBSET S |-> IF T = {} THEN ReplayStart
                          ELSE ReplayStep(o, g[T \ {Max(T)}], es[Max(T)], b, n)]

\* What Replay stands for.
LEMMA ReplayDef ==
  ASSUME NEW o
  PROVE  Replay(o) = (CHOOSE g : ReplaysOver(g, o, events[o], bindings[o], Replacement(o),
                                               DOMAIN events[o]))
                        [DOMAIN events[o]]
BY DEF Replay, FoldLeft, MapThenFoldSet, ReplaysOver

\* Two such functions agree where both are defined.
LEMMA ReplaysAgree ==
  ASSUME NEW o, NEW es, NEW b, NEW n, NEW S, NEW R, NEW g, NEW h,
         ReplaysOver(g, o, es, b, n, S), ReplaysOver(h, o, es, b, n, R),
         NEW U, Positions(U), U \subseteq S, U \subseteq R
  PROVE  g[U] = h[U]
<1>. DEFINE Bad == {T \in SUBSET U : g[T] # h[T]}
<1>. SUFFICES ASSUME Bad # {} PROVE FALSE
  OBVIOUS
<1>1. PICK T \in Bad : \A V \in Bad : V \subseteq T => V = T
  <2>1. Bad \subseteq SUBSET U
    OBVIOUS
  <2>2. IsFiniteSet(U)
    BY SubPositions
  <2>. HIDE DEF Bad
  <2>. QED  BY <2>1, <2>2, MinimalSubset
<1>2. T # {}
  <2>. SUFFICES ASSUME T = {} PROVE FALSE
    OBVIOUS
  <2>1. g[{}] = h[{}]
    BY DEF ReplaysOver
  <2>. QED  BY <1>1, <2>1
<1>3. Max(T) \in T
  BY <1>1, <1>2, SubPositions, MaxOfFinite
<1>4. T \ {Max(T)} \notin Bad
  BY <1>1, <1>3
<1>5. g[T \ {Max(T)}] = h[T \ {Max(T)}]
  BY <1>4
<1>6. /\ g[T] = ReplayStep(o, g[T \ {Max(T)}], es[Max(T)], b, n)
      /\ h[T] = ReplayStep(o, h[T \ {Max(T)}], es[Max(T)], b, n)
  <2>1. T \in SUBSET S /\ T \in SUBSET R
    BY <1>1
  <2>. HIDE DEF Bad
  <2>. QED  BY <1>2, <2>1 DEF ReplaysOver
<1>. QED  BY <1>1, <1>5, <1>6

\* Such a function exists over every finite set of positions.
LEMMA ReplaysExist ==
  ASSUME NEW o, NEW es, NEW b, NEW n, NEW S, Positions(S)
  PROVE  \E g : ReplaysOver(g, o, es, b, n, S)
<1>. DEFINE Bad == {T \in SUBSET S : ~ \E g : ReplaysOver(g, o, es, b, n, T)}
<1>. SUFFICES ASSUME Bad # {} PROVE FALSE
  OBVIOUS
<1>1. PICK U \in Bad : \A V \in Bad : V \subseteq U => V = U
  <2>1. Bad \subseteq SUBSET S
    OBVIOUS
  <2>2. IsFiniteSet(S)
    BY SubPositions
  <2>. HIDE DEF Bad
  <2>. QED  BY <2>1, <2>2, MinimalSubset
<1>. DEFINE G(V) == CHOOSE g : ReplaysOver(g, o, es, b, n, V)
            Below(T) == T \ {Max(T)}
            h == [T \in SUBSET U |->
                    IF T = {} THEN ReplayStart
                    ELSE ReplayStep(o, G(Below(T))[Below(T)], es[Max(T)], b, n)]
<1>2. \A T \in SUBSET U : T # {} => Max(T) \in T
  <2>. SUFFICES ASSUME NEW T \in SUBSET U, T # {} PROVE Max(T) \in T
    OBVIOUS
  <2>1. Positions(T)
    BY <1>1, SubPositions
  <2>. QED  BY <2>1, MaxOfFinite
<1>3. \A T \in SUBSET U : T # U => ReplaysOver(G(T), o, es, b, n, T)
  BY <1>1
<1>4. \A T \in SUBSET U : Positions(T)
  BY <1>1, SubPositions
<1>5. ASSUME NEW T \in SUBSET U, T # {}
      PROVE  h[Below(T)] = G(Below(T))[Below(T)]
  <2>. DEFINE V == Below(T)
  <2>1. V \in SUBSET U /\ V # U
    BY <1>2, <1>5
  <2>2. ReplaysOver(G(V), o, es, b, n, V)
    BY <1>3, <2>1
  <2>3. CASE V = {}
    <3>1. G(V)[{}] = ReplayStart
      <4>. HIDE DEF V, G
      <4>. QED  BY <2>2 DEF ReplaysOver
    <3>2. h[V] = ReplayStart
      BY <2>1, <2>3
    <3>. QED  BY <2>3, <3>1, <3>2
  <2>4. CASE V # {}
    <3>1. Max(V) \in V /\ Below(V) \in SUBSET U /\ Below(V) # U
      BY <1>2, <2>1, <2>4
    <3>2. ReplaysOver(G(Below(V)), o, es, b, n, Below(V))
      BY <1>3, <3>1
    <3>3. G(V)[Below(V)] = G(Below(V))[Below(V)]
      <4>1. Positions(Below(V)) /\ Below(V) \subseteq V
        BY <1>4, <3>1
      <4>. HIDE DEF G, Below
      <4>. QED  BY ReplaysAgree, <2>2, <3>2, <4>1
    <3>4. G(V)[V] = ReplayStep(o, G(V)[Below(V)], es[Max(V)], b, n)
      <4>1. V \in SUBSET V
        OBVIOUS
      <4>2. G(V)[V] = ReplayStep(o, G(V)[V \ {Max(V)}], es[Max(V)], b, n)
        <5>. HIDE DEF V, G, h, Below, Bad
        <5>. QED  BY <2>2, <2>4, <4>1 DEF ReplaysOver
      <4>. QED  BY <4>2
    <3>5. h[V] = ReplayStep(o, G(Below(V))[Below(V)], es[Max(V)], b, n)
      BY <2>1, <2>4
    <3>. QED  BY <3>3, <3>4, <3>5
  <2>. QED  BY <2>3, <2>4
<1>6. ReplaysOver(h, o, es, b, n, U)
  <2>1. ASSUME NEW T \in SUBSET U
        PROVE  (IF T = {} THEN ReplayStart
                ELSE ReplayStep(o, G(Below(T))[Below(T)], es[Max(T)], b, n))
                = (IF T = {} THEN ReplayStart
                   ELSE ReplayStep(o, h[Below(T)], es[Max(T)], b, n))
    <3>. HIDE DEF G, Below, h
    <3>. QED  BY <1>5
  <2>2. h = [T \in SUBSET U |-> IF T = {} THEN ReplayStart
                                ELSE ReplayStep(o, h[Below(T)], es[Max(T)], b, n)]
    <3>1. \A T \in SUBSET U :
             h[T] = IF T = {} THEN ReplayStart
                    ELSE ReplayStep(o, G(Below(T))[Below(T)], es[Max(T)], b, n)
      OBVIOUS
    <3>2. h = [T \in SUBSET U |-> h[T]]
      OBVIOUS
    <3>. HIDE DEF G, Below, h
    <3>. QED  BY <2>1, <3>1, <3>2
  <2>. QED  BY <2>2 DEF ReplaysOver
<1>. QED  BY <1>1, <1>6

Sequenced(s) == \E X : s \in Seq(X)

\* rs is the run of verify over the rows es of order o, given the evidence b its broker
\* order is bound to and the orders m that replaced it.
RunOf(rs, o, es, b, m) ==
  /\ rs[0] = ReplayStart
  /\ \A i \in 1..Len(es) : rs[i] = ReplayStep(o, rs[i - 1], es[i], b, m)

\* A run ends where verify's Replay does.
LEMMA RunEnds ==
  ASSUME NEW o, NEW es, Sequenced(es), NEW b, NEW m, NEW rs, RunOf(rs, o, es, b, m)
  PROVE  (CHOOSE g : ReplaysOver(g, o, es, b, m, DOMAIN es))[DOMAIN es] = rs[Len(es)]
<1>. DEFINE n == Len(es)
            g == CHOOSE h : ReplaysOver(h, o, es, b, m, 1..n)
            Bad == {T \in SUBSET (1..n) : \E k \in 0..n : T = 1..k /\ g[T] # rs[k]}
<1>1. n \in Nat /\ DOMAIN es = 1..n /\ Positions(1..n) /\ IsFiniteSet(1..n)
  BY FS_Interval DEF Positions, Sequenced
<1>2. ReplaysOver(g, o, es, b, m, 1..n)
  <2>1. \E h : ReplaysOver(h, o, es, b, m, 1..n)
    <3>. HIDE DEF n
    <3>. QED  BY <1>1, ReplaysExist
  <2>. QED  BY <2>1
<1>3. Bad = {}
  <2>. SUFFICES ASSUME Bad # {} PROVE FALSE
    OBVIOUS
  <2>1. PICK T \in Bad : \A V \in Bad : V \subseteq T => V = T
    <3>1. Bad \subseteq SUBSET (1..n)
      OBVIOUS
    <3>2. IsFiniteSet(1..n)
      BY <1>1
    <3>. DEFINE D == 1..n
    <3>3. Bad \subseteq SUBSET D /\ IsFiniteSet(D)
      BY <3>1, <3>2
    <3>. HIDE DEF Bad, n, g, D
    <3>. QED  BY <3>3, MinimalSubset
  <2>2. PICK k \in 0..n : T = 1..k /\ g[T] # rs[k]
    BY <2>1
  <2>3. k # 0
    <3>. SUFFICES ASSUME k = 0 PROVE FALSE
      OBVIOUS
    <3>1. T = {}
      <4>. HIDE DEF Bad, g, n
      <4>. QED  BY <2>2
    <3>2. g[{}] = ReplayStart
      <4>. HIDE DEF g, n, Bad
      <4>. QED  BY <1>2 DEF ReplaysOver
    <3>. QED  BY <2>2, <3>1, <3>2 DEF RunOf
  <2>4. k \in 1..n /\ k - 1 \in 0..n /\ T \in SUBSET (1..n) /\ T # {}
    <3>1. T \in SUBSET (1..n)
      BY <2>1
    <3>2. T = 1..k /\ k \in 0..n
      BY <2>2
    <3>. HIDE DEF Bad, g, n
    <3>3. k \in 1..n /\ k - 1 \in 0..n
      BY <1>1, <2>3, <3>2
    <3>4. k \in T
      BY <3>2, <3>3
    <3>. QED  BY <3>1, <3>3, <3>4
  <2>5. Max(T) = k /\ T \ {k} = 1..(k - 1)
    <3>1. k \in T /\ \A y \in T : k >= y
      <4>. HIDE DEF Bad, g, n
      <4>. QED  BY <2>2, <2>4
    <3>2. \A x, y \in T : x \in Int /\ y \in Int
      BY <2>4
    <3>3. Max(T) = k
      <4>1. \A x \in T : (\A y \in T : x >= y) => x = k
        BY <3>1, <3>2
      <4>. HIDE DEF Bad, g, n
      <4>. QED  BY <3>1, <4>1 DEF Max
    <3>. HIDE DEF Bad, g, n
    <3>. QED  BY <2>2, <2>4, <3>3
  <2>6. g[T] = ReplayStep(o, g[1..(k - 1)], es[k], b, m)
    <3>. DEFINE D == 1..n
    <3>1. T \in SUBSET D /\ T # {} /\ ReplaysOver(g, o, es, b, m, D)
      BY <1>2, <2>4
    <3>2. g[T] = ReplayStep(o, g[T \ {Max(T)}], es[Max(T)], b, m)
      <4>. HIDE DEF Bad, g, n, D
      <4>. QED  BY <3>1 DEF ReplaysOver
    <3>. HIDE DEF Bad, g, n
    <3>. QED  BY <2>5, <3>2
  <2>7. g[1..(k - 1)] = rs[k - 1]
    <3>1. 1..(k - 1) \subseteq T /\ 1..(k - 1) # T /\ 1..(k - 1) \in SUBSET (1..n)
      <4>1. k \in T /\ k \notin 1..(k - 1)
        <5>. HIDE DEF Bad, g, n
        <5>. QED  BY <2>2, <2>4
      <4>2. 1..(k - 1) \subseteq T
        BY <2>5
      <4>. QED  BY <2>4, <4>1, <4>2
    <3>2. 1..(k - 1) \notin Bad
      BY <2>1, <3>1
    <3>. QED  BY <2>4, <3>1, <3>2
  <2>8. rs[k] = ReplayStep(o, rs[k - 1], es[k], b, m)
    BY <2>4 DEF RunOf
  <2>. QED  BY <2>2, <2>6, <2>7, <2>8
<1>4. n \in 0..n /\ 1..n \in SUBSET (1..n)
  BY <1>1
<1>5. g[1..n] = rs[n]
  BY <1>3, <1>4
<1>. QED  BY <1>1, <1>5

\* What verify replays.
LEMMA ReplayIsRun ==
  ASSUME NEW o, Sequenced(events[o]), NEW rs,
         RunOf(rs, o, events[o], bindings[o], Replacement(o))
  PROVE  Replay(o) = rs[Len(events[o])]
<1>1. PICK es, b, m : es = events[o] /\ b = bindings[o] /\ m = Replacement(o)
  OBVIOUS
<1>2. Replay(o) = (CHOOSE g : ReplaysOver(g, o, es, b, m, DOMAIN es))[DOMAIN es]
  BY <1>1, ReplayDef
<1>3. Sequenced(es) /\ RunOf(rs, o, es, b, m)
  BY <1>1
<1>4. (CHOOSE g : ReplaysOver(g, o, es, b, m, DOMAIN es))[DOMAIN es] = rs[Len(es)]
  BY <1>3, RunEnds
<1>. QED  BY <1>1, <1>2, <1>4

-----------------------------------------------------------------------------
(* The inductive invariant.                                                *)

ReplayRecord(r) ==
  DOMAIN r = {"ok", "at", "state", "broker", "filled", "notional", "fills", "evidence"}

\* The replay record r of the last row of a journal stands for the stored row, the bound
\* evidence and the fill rows.
Fits(r, row, bound, rows) ==
  /\ ReplayRecord(r) /\ r.ok
  /\ r.at = row.seq /\ r.state = row.state /\ r.broker = row.broker
  /\ r.filled = row.filled /\ r.notional = row.notional
  /\ r.evidence = bound
  /\ {x.fill : x \in rows} = {x.fill : x \in r.fills}
  /\ \A x \in rows : \E y \in r.fills :
       /\ x.fill = y.fill /\ x.qty = y.qty /\ x.price = y.price
       /\ x.broker \in {NoBroker, y.broker}

\* The rows es of order o replay to what is stored.
Replays(o, es, row, bound, named, rows) ==
  \E rs : RunOf(rs, o, es, bound, named) /\ Fits(rs[Len(es)], row, bound, rows)

\* What the rows of the journal say of the other tables does not change later: the
\* evidence they bound stays bound, and the replacement they name stays named.
RowsStand(o) ==
  \A i \in 1..Len(events[o]) :
    /\ events[o][i].kind = "BROKER_EVIDENCE_BOUND" => bindings[o] # NoBroker
    /\ events[o][i].kind = "REPLACED_BY" => events[o][i].by \in Replacement(o)

\* An order that is there was created by its first row, and its rows replay to what is
\* stored; one that is not there has nothing at all.
Journaled(o) ==
  /\ Len(events[o]) = orders[o].seq
  /\ Present(o) => /\ Len(events[o]) > 0 /\ events[o][1].kind = "CREATED"
                   /\ Replays(o, events[o], orders[o], bindings[o], Replacement(o),
                              FillsOf(o))
  /\ ~ Present(o) => /\ Len(events[o]) = 0 /\ bindings[o] = NoBroker
                     /\ FillsOf(o) = {}

\* The fill rows of an order are distinct executions, and its row is their sum.
FillRowsAgree ==
  /\ IsFiniteSet(fills)
  /\ \A r, s \in fills : r.fill = s.fill => r = s
  /\ \A o \in ClientIds : /\ orders[o].filled = QuantityOf(FillsOf(o))
                          /\ orders[o].notional = NotionalOf(FillsOf(o))

\* Two orders never share the evidence of one broker order.
BindingsUnique ==
  \A o, x \in ClientIds : bindings[o] = bindings[x] /\ bindings[o] # NoBroker => o = x

\* What every order has of its journal.
OrderJournaled(o) == Sequenced(events[o]) /\ Journaled(o) /\ RowsStand(o)

\* What the fill rows and the evidence have to do with the orders.
FillsAttributed == FillRowsAgree /\ ExternalFillsAttributed /\ BindingsUnique

TablesAgree ==
  /\ TypeOK
  /\ FillsAttributed
  /\ \A o \in ClientIds : OrderJournaled(o)

JournalInv == LineageInv /\ TablesAgree

-----------------------------------------------------------------------------
(* One more row.                                                           *)

\* A row that reads the same evidence and the same replacement replays the same.
LEMMA StepStands ==
  ASSUME NEW o, NEW r, NEW e, NEW b, NEW m, NEW c, NEW k,
         e.kind = "BROKER_EVIDENCE_BOUND" => b = c,
         e.kind = "REPLACED_BY" => e.by \in m /\ e.by \in k
  PROVE  ReplayStep(o, r, e, b, m) = ReplayStep(o, r, e, c, k)
BY DEF ReplayStep

\* Appending keeps a sequence.
LEMMA Appended ==
  ASSUME NEW s, Sequenced(s), NEW e
  PROVE  /\ Sequenced(Append(s, e)) /\ Len(s) \in Nat
         /\ Len(Append(s, e)) = Len(s) + 1
         /\ Append(s, e)[Len(s) + 1] = e
         /\ \A i \in 1..Len(s) : Append(s, e)[i] = s[i]
<1>1. PICK X : s \in Seq(X)
  BY DEF Sequenced
<1>2. s \in Seq(X \cup {e}) /\ e \in X \cup {e}
  BY <1>1
<1>3. Append(s, e) \in Seq(X \cup {e})
  BY <1>2
<1>. QED  BY <1>1, <1>2, <1>3 DEF Sequenced

\* A run stays a run while its rows stand.
LEMMA RunStands ==
  ASSUME NEW o, NEW es, NEW rs, NEW b, NEW m, NEW c, NEW k, RunOf(rs, o, es, b, m),
         \A i \in 1..Len(es) : /\ es[i].kind = "BROKER_EVIDENCE_BOUND" => b = c
                               /\ es[i].kind = "REPLACED_BY" => es[i].by \in m /\ es[i].by \in k
  PROVE  RunOf(rs, o, es, c, k)
<1>1. ASSUME NEW i \in 1..Len(es)
      PROVE  rs[i] = ReplayStep(o, rs[i - 1], es[i], c, k)
  <2>1. rs[i] = ReplayStep(o, rs[i - 1], es[i], b, m)
    BY DEF RunOf
  <2>2. ReplayStep(o, rs[i - 1], es[i], b, m) = ReplayStep(o, rs[i - 1], es[i], c, k)
    BY StepStands
  <2>. QED  BY <2>1, <2>2
<1>. QED  BY <1>1 DEF RunOf

\* One more row extends it.
LEMMA RunExtends ==
  ASSUME NEW o, NEW es, Sequenced(es), NEW rs, NEW b, NEW m, RunOf(rs, o, es, b, m), NEW e
  PROVE  \E qs : /\ RunOf(qs, o, Append(es, e), b, m)
                 /\ qs[Len(Append(es, e))] = ReplayStep(o, rs[Len(es)], e, b, m)
<1>. DEFINE n == Len(es)
            qs == [i \in 0..(n + 1) |-> IF i = n + 1 THEN ReplayStep(o, rs[n], e, b, m)
                                                    ELSE rs[i]]
<1>1. /\ n \in Nat /\ Len(Append(es, e)) = n + 1
      /\ Append(es, e)[n + 1] = e
      /\ \A i \in 1..n : Append(es, e)[i] = es[i]
  BY Appended
<1>2. /\ qs[n + 1] = ReplayStep(o, rs[n], e, b, m)
      /\ \A i \in 0..n : qs[i] = rs[i]
  <2>. HIDE DEF n
  <2>. QED  BY <1>1
<1>3. ASSUME NEW i \in 1..(n + 1)
      PROVE  qs[i] = ReplayStep(o, qs[i - 1], Append(es, e)[i], b, m)
  <2>1. CASE i = n + 1
    <3>1. qs[i - 1] = rs[n]
      <4>. HIDE DEF n, qs
      <4>. QED  BY <1>1, <1>2, <2>1
    <3>. HIDE DEF qs
    <3>. QED  BY <1>1, <1>2, <2>1, <3>1
  <2>2. CASE i # n + 1
    <3>1. i \in 1..n /\ qs[i] = rs[i] /\ qs[i - 1] = rs[i - 1]
      <4>. HIDE DEF n, qs
      <4>. QED  BY <1>1, <1>2, <2>2
    <3>2. rs[i] = ReplayStep(o, rs[i - 1], es[i], b, m)
      BY <3>1 DEF RunOf
    <3>. HIDE DEF qs
    <3>. QED  BY <1>1, <3>1, <3>2
  <2>. QED  BY <2>1, <2>2
<1>4. qs[0] = ReplayStart
  <2>1. qs[0] = rs[0]
    <3>. HIDE DEF n, qs
    <3>. QED  BY <1>1, <1>2
  <2>. QED  BY <2>1 DEF RunOf
<1>5. RunOf(qs, o, Append(es, e), b, m)
  <2>. HIDE DEF qs
  <2>. QED  BY <1>1, <1>3, <1>4 DEF RunOf
<1>6. qs[Len(Append(es, e))] = ReplayStep(o, rs[n], e, b, m)
  BY <1>1, <1>2
<1>. QED  BY <1>5, <1>6

\* An order that a call does not write keeps its journal.
LEMMA QuietJournal ==
  ASSUME NEW o, OrderJournaled(o),
         orders'[o] = orders[o], events'[o] = events[o], bindings'[o] = bindings[o],
         FillsOf(o)' = FillsOf(o), Replacement(o) \subseteq Replacement(o)'
  PROVE  OrderJournaled(o)'
<1>1. PICK es, b, m, k, row, rows :
        /\ es = events[o] /\ b = bindings[o] /\ m = Replacement(o) /\ k = Replacement(o)'
        /\ row = orders[o] /\ rows = FillsOf(o)
  OBVIOUS
<1>2. \A i \in 1..Len(es) : es[i].kind = "REPLACED_BY" => es[i].by \in m /\ es[i].by \in k
  BY <1>1 DEF OrderJournaled, RowsStand
<1>3. ASSUME Replays(o, es, row, b, m, rows)
      PROVE  Replays(o, es, row, b, k, rows)
  BY <1>2, <1>3, RunStands DEF Replays
<1>4. Journaled(o)'
  BY <1>1, <1>3 DEF OrderJournaled, Journaled, Present
<1>5. RowsStand(o)'
  BY <1>1, <1>2 DEF OrderJournaled, RowsStand
<1>. QED  BY <1>4, <1>5 DEF OrderJournaled

\* Row e replays from the old stored row to the new one.
RowFits(o, e, row, c, rows, new, b, m, more) ==
  \A r : Fits(r, row, c, rows) => Fits(ReplayStep(o, r, e, b, m), new, b, more)

\* The replay of one more row.
LEMMA RowReplays ==
  ASSUME NEW o, NEW es, Sequenced(es), NEW rs, NEW b, NEW m, RunOf(rs, o, es, b, m),
         NEW e, NEW new, NEW more, Fits(ReplayStep(o, rs[Len(es)], e, b, m), new, b, more)
  PROVE  Replays(o, Append(es, e), new, b, m, more)
<1>1. \E qs : /\ RunOf(qs, o, Append(es, e), b, m)
              /\ qs[Len(Append(es, e))] = ReplayStep(o, rs[Len(es)], e, b, m)
  BY RunExtends
<1>. QED  BY <1>1 DEF Replays

\* A row that fits extends the replay.
LEMMA ReplaysExtend ==
  ASSUME NEW o, NEW es, Sequenced(es), NEW e, NEW row, NEW c, NEW k, NEW rows,
         NEW new, NEW b, NEW m, NEW more,
         Replays(o, es, row, c, k, rows), RowFits(o, e, row, c, rows, new, b, m, more),
         \A i \in 1..Len(es) : /\ es[i].kind = "BROKER_EVIDENCE_BOUND" => c = b
                               /\ es[i].kind = "REPLACED_BY" => es[i].by \in k /\ es[i].by \in m
  PROVE  Replays(o, Append(es, e), new, b, m, more)
<1>1. PICK rs : RunOf(rs, o, es, c, k) /\ Fits(rs[Len(es)], row, c, rows)
  BY DEF Replays
<1>2. RunOf(rs, o, es, b, m)
  BY <1>1, RunStands
<1>3. Fits(ReplayStep(o, rs[Len(es)], e, b, m), new, b, more)
  BY <1>1 DEF RowFits
<1>. QED  BY <1>2, <1>3, RowReplays

\* An order that a call adds one row to keeps its journal, when that row replays to what
\* the call stored.
LEMMA OneMoreRow ==
  ASSUME NEW o, OrderJournaled(o), NEW e, NEW b, NEW m,
         Present(o), Present(o)', events'[o] = Append(events[o], e),
         orders'[o].seq = orders[o].seq + 1,
         b = bindings'[o], m = Replacement(o)', Replacement(o) \subseteq m,
         b = bindings[o] \/ bindings[o] = NoBroker,
         e.kind = "BROKER_EVIDENCE_BOUND" => b # NoBroker,
         e.kind = "REPLACED_BY" => e.by \in m,
         RowFits(o, e, orders[o], bindings[o], FillsOf(o), orders'[o], b, m, FillsOf(o)')
  PROVE  OrderJournaled(o)'
<1>1. PICK es, c, k, row, rows, new, more :
        /\ es = events[o] /\ c = bindings[o] /\ k = Replacement(o)
        /\ row = orders[o] /\ rows = FillsOf(o)
        /\ new = orders'[o] /\ more = FillsOf(o)'
  OBVIOUS
<1>2. /\ Sequenced(es) /\ Len(es) = row.seq /\ Len(es) > 0
      /\ es[1].kind = "CREATED"
      /\ Replays(o, es, row, c, k, rows)
      /\ RowFits(o, e, row, c, rows, new, b, m, more)
  BY <1>1 DEF OrderJournaled, Journaled
<1>3. /\ Sequenced(Append(es, e)) /\ Len(es) \in Nat
      /\ Len(Append(es, e)) = Len(es) + 1
      /\ Append(es, e)[Len(es) + 1] = e
      /\ \A i \in 1..Len(es) : Append(es, e)[i] = es[i]
  BY <1>2, Appended
<1>4. \A i \in 1..Len(es) :
        /\ es[i].kind = "BROKER_EVIDENCE_BOUND" => c # NoBroker /\ c = b
        /\ es[i].kind = "REPLACED_BY" => es[i].by \in k /\ es[i].by \in m
  BY <1>1 DEF OrderJournaled, RowsStand
<1>5. Replays(o, Append(es, e), new, b, m, more)
  BY <1>2, <1>4, ReplaysExtend
<1>6. Journaled(o)'
  <2>1. /\ Len(Append(es, e)) = new.seq /\ Len(Append(es, e)) > 0
        /\ Append(es, e)[1].kind = "CREATED"
    BY <1>1, <1>2, <1>3
  <2>. QED  BY <1>1, <1>5, <2>1 DEF Journaled
<1>7. RowsStand(o)'
  <2>1. ASSUME NEW i \in 1..(Len(es) + 1)
        PROVE  /\ Append(es, e)[i].kind = "BROKER_EVIDENCE_BOUND" => b # NoBroker
               /\ Append(es, e)[i].kind = "REPLACED_BY" => Append(es, e)[i].by \in m
    <3>1. i \in 1..Len(es) \/ i = Len(es) + 1
      BY <1>3
    <3>. QED  BY <1>3, <1>4, <3>1
  <2>. QED  BY <1>1, <1>3, <2>1 DEF RowsStand
<1>. QED  BY <1>1, <1>3, <1>6, <1>7 DEF OrderJournaled

-----------------------------------------------------------------------------
(* What verify makes of each kind of row.                                  *)

\* A lifecycle move.
LEMMA MoveReplays ==
  ASSUME NEW o, NEW r, NEW e, NEW row, NEW new, NEW b, NEW m, NEW rows,
         Fits(r, row, b, rows),
         e.kind \in {"RISK_APPROVED", "SUBMITTED", "SUBMISSION_UNCERTAIN",
                    "REJECTED", "CANCELLED"},
         e.seq = row.seq + 1, e.from = row.state, Allowed(row.state, e.kind),
         SameBroker(row.broker, e.broker),
         new.state = e.kind, new.broker = MergedBroker(row.broker, e.broker),
         new.seq = row.seq + 1, new.filled = row.filled, new.notional = row.notional
  PROVE  Fits(ReplayStep(o, r, e, b, m), new, b, rows)
<1>. DEFINE n == ReplayStep(o, r, e, b, m)
<1>1. /\ ReplayRecord(n) /\ n.at = r.at + 1 /\ n.state = e.kind
      /\ n.broker = MergedBroker(r.broker, e.broker) /\ n.filled = r.filled
      /\ n.notional = r.notional /\ n.fills = r.fills /\ n.evidence = r.evidence
  BY DEF Fits, ReplayStep, ReplayRecord
<1>2. n.ok
  BY DEF Fits, ReplayStep, ReplayRecord
<1>. HIDE DEF n
<1>3. /\ n.at = new.seq /\ n.state = new.state /\ n.broker = new.broker
      /\ n.filled = new.filled /\ n.notional = new.notional /\ n.evidence = b
  BY <1>1 DEF Fits
<1>4. Fits(n, new, b, rows)
  BY <1>1, <1>2, <1>3 DEF Fits
<1>. QED  BY <1>4 DEF n

\* An observed broker id.
LEMMA ObservationReplays ==
  ASSUME NEW o, NEW r, NEW e, NEW row, NEW new, NEW b, NEW m, NEW rows,
         Fits(r, row, b, rows), e.kind = "BROKER_ID_OBSERVED",
         e.seq = row.seq + 1, e.state = row.state, SameBroker(row.broker, e.broker),
         new.state = row.state, new.broker = MergedBroker(row.broker, e.broker),
         new.seq = row.seq + 1, new.filled = row.filled, new.notional = row.notional
  PROVE  Fits(ReplayStep(o, r, e, b, m), new, b, rows)
<1>. DEFINE n == ReplayStep(o, r, e, b, m)
<1>1. /\ ReplayRecord(n) /\ n.at = r.at + 1 /\ n.state = r.state
      /\ n.broker = MergedBroker(r.broker, e.broker) /\ n.filled = r.filled
      /\ n.notional = r.notional /\ n.fills = r.fills /\ n.evidence = r.evidence
  BY DEF Fits, ReplayStep, ReplayRecord
<1>2. n.ok
  BY DEF Fits, ReplayStep, ReplayRecord
<1>. HIDE DEF n
<1>3. /\ n.at = new.seq /\ n.state = new.state /\ n.broker = new.broker
      /\ n.filled = new.filled /\ n.notional = new.notional /\ n.evidence = b
  BY <1>1 DEF Fits
<1>4. Fits(n, new, b, rows)
  BY <1>1, <1>2, <1>3 DEF Fits
<1>. QED  BY <1>4 DEF n

\* The evidence of a broker order.
LEMMA EvidenceReplays ==
  ASSUME NEW o, NEW r, NEW e, NEW row, NEW new, NEW b, NEW m, NEW rows,
         Fits(r, row, NoBroker, rows), e.kind = "BROKER_EVIDENCE_BOUND",
         e.seq = row.seq + 1, e.broker = b, row.state # "CREATED",
         new.state = row.state, new.broker = row.broker,
         new.seq = row.seq + 1, new.filled = row.filled, new.notional = row.notional
  PROVE  Fits(ReplayStep(o, r, e, b, m), new, b, rows)
<1>. DEFINE n == ReplayStep(o, r, e, b, m)
<1>1. /\ ReplayRecord(n) /\ n.at = r.at + 1 /\ n.state = r.state
      /\ n.broker = r.broker /\ n.filled = r.filled
      /\ n.notional = r.notional /\ n.fills = r.fills /\ n.evidence = e.broker
  BY DEF Fits, ReplayStep, ReplayRecord
<1>2. n.ok
  BY DEF Fits, ReplayStep, ReplayRecord
<1>. HIDE DEF n
<1>3. /\ n.at = new.seq /\ n.state = new.state /\ n.broker = new.broker
      /\ n.filled = new.filled /\ n.notional = new.notional /\ n.evidence = b
  BY <1>1 DEF Fits
<1>4. Fits(n, new, b, rows)
  BY <1>1, <1>2, <1>3 DEF Fits
<1>. QED  BY <1>4 DEF n

\* The order that replaces a cancelled one.
LEMMA ReplacementReplays ==
  ASSUME NEW o, NEW r, NEW e, NEW row, NEW new, NEW b, NEW m, NEW rows,
         Fits(r, row, b, rows), e.kind = "REPLACED_BY",
         e.seq = row.seq + 1, e.by \in m, row.state = "CANCELLED",
         new.state = row.state, new.broker = row.broker,
         new.seq = row.seq + 1, new.filled = row.filled, new.notional = row.notional
  PROVE  Fits(ReplayStep(o, r, e, b, m), new, b, rows)
<1>. DEFINE n == ReplayStep(o, r, e, b, m)
<1>1. /\ ReplayRecord(n) /\ n.at = r.at + 1 /\ n.state = r.state
      /\ n.broker = r.broker /\ n.filled = r.filled
      /\ n.notional = r.notional /\ n.fills = r.fills /\ n.evidence = r.evidence
  BY DEF Fits, ReplayStep, ReplayRecord
<1>2. n.ok
  BY DEF Fits, ReplayStep, ReplayRecord
<1>. HIDE DEF n
<1>3. /\ n.at = new.seq /\ n.state = new.state /\ n.broker = new.broker
      /\ n.filled = new.filled /\ n.notional = new.notional /\ n.evidence = b
  BY <1>1 DEF Fits
<1>4. Fits(n, new, b, rows)
  BY <1>1, <1>2, <1>3 DEF Fits
<1>. QED  BY <1>4 DEF n

\* The first row.
LEMMA CreationReplays ==
  ASSUME NEW o, NEW r, r = ReplayStart, NEW e, NEW b, NEW m,
         e.kind = "CREATED", e.seq = 1, e.qty = Qty[o], b = NoBroker
  PROVE  Fits(ReplayStep(o, r, e, b, m), NewRow, b, {})
<1>. DEFINE n == ReplayStep(o, r, e, b, m)
<1>1. /\ ReplayRecord(r) /\ r.ok /\ r.at = 0 /\ r.state = "CREATED"
      /\ r.broker = NoBroker /\ r.filled = 0 /\ r.notional = 0 /\ r.fills = {}
      /\ r.evidence = NoBroker
  BY DEF ReplayStart, ReplayRecord
<1>2. /\ ReplayRecord(n) /\ n.at = r.at + 1 /\ n.state = r.state
      /\ n.broker = r.broker /\ n.filled = r.filled
      /\ n.notional = r.notional /\ n.fills = r.fills /\ n.evidence = r.evidence
  <2>1. ReplayRecord(r)
    BY <1>1
  <2>. QED  BY <2>1 DEF ReplayStep, ReplayRecord
<1>3. n.ok
  <2>1. ReplayRecord(r) /\ r.ok /\ r.at = 0
    BY <1>1
  <2>2. e.seq = r.at + 1
    BY <2>1
  <2>. QED  BY <2>1, <2>2 DEF ReplayStep, ReplayRecord
<1>4. /\ NewRow.seq = 1 /\ NewRow.state = "CREATED" /\ NewRow.broker = NoBroker
      /\ NewRow.filled = 0 /\ NewRow.notional = 0
  BY DEF NewRow, Absent
<1>5. n.at = 1
  BY <1>1, <1>2
<1>. HIDE DEF n
<1>6. Fits(n, NewRow, b, {})
  BY <1>1, <1>2, <1>3, <1>4, <1>5 DEF Fits
<1>. QED  BY <1>6 DEF n

\* A fill, of an execution that the order has no row of.
LEMMA FillReplays ==
  ASSUME NEW o, NEW r, NEW e, NEW row, NEW new, NEW b, NEW m, NEW rows, NEW x,
         Fits(r, row, b, rows), e.kind = "FILL", e.seq = row.seq + 1,
         row.filled + e.qty <= Qty[o], e.total = row.filled + e.qty,
         e.notional = row.notional + e.price * e.qty,
         e.state = (IF row.filled + e.qty = Qty[o] THEN "FILLED" ELSE "PARTIALLY_FILLED"),
         Allowed(row.state, e.state), SameBroker(row.broker, e.broker),
         e.broker = MergedBroker(row.broker, e.broker),
         Source[e.fill] # NoBroker => Source[e.fill] = e.broker /\ b = e.broker,
         x.fill = e.fill, x.qty = e.qty, x.price = e.price, x.broker \in {NoBroker, e.broker},
         \A y \in rows : y.fill # e.fill,
         new.state = e.state, new.broker = e.broker, new.seq = row.seq + 1,
         new.filled = e.total, new.notional = e.notional
  PROVE  Fits(ReplayStep(o, r, e, b, m), new, b, rows \cup {x})
<1>. DEFINE n == ReplayStep(o, r, e, b, m)
            y == [fill |-> e.fill, qty |-> e.qty, price |-> e.price, broker |-> e.broker]
<1>1. /\ ReplayRecord(r) /\ r.ok /\ r.at = row.seq /\ r.state = row.state
      /\ r.broker = row.broker /\ r.filled = row.filled /\ r.notional = row.notional
      /\ r.evidence = b /\ {z.fill : z \in rows} = {z.fill : z \in r.fills}
  BY DEF Fits
<1>2. /\ ReplayRecord(n) /\ n.at = r.at + 1 /\ n.state = e.state
      /\ n.broker = e.broker /\ n.filled = r.filled + e.qty
      /\ n.notional = r.notional + e.price * e.qty /\ n.evidence = r.evidence
      /\ n.fills = r.fills \cup {y}
  <2>1. /\ ReplayRecord(n) /\ n.at = r.at + 1
        /\ n.state = IF r.filled + e.qty = Qty[o] THEN "FILLED" ELSE "PARTIALLY_FILLED"
        /\ n.broker = MergedBroker(r.broker, e.broker) /\ n.filled = r.filled + e.qty
        /\ n.notional = r.notional + e.price * e.qty /\ n.evidence = r.evidence
        /\ n.fills = r.fills \cup {[fill |-> e.fill, qty |-> e.qty, price |-> e.price,
                                    broker |-> MergedBroker(r.broker, e.broker)]}
    <3>. ReplayRecord(r)
      BY <1>1
    <3>. QED  BY DEF ReplayStep, ReplayFill, ReplayRecord
  <2>2. e.broker = MergedBroker(r.broker, e.broker)
    BY <1>1
  <2>3. e.state = IF r.filled + e.qty = Qty[o] THEN "FILLED" ELSE "PARTIALLY_FILLED"
    BY <1>1
  <2>. HIDE DEF n
  <2>. QED  BY <2>1, <2>2, <2>3
<1>3. e.fill \notin {z.fill : z \in r.fills}
  BY <1>1
<1>4. n.ok
  <2>1. /\ e.seq = r.at + 1 /\ r.filled + e.qty <= Qty[o] /\ e.total = r.filled + e.qty
        /\ e.notional = r.notional + e.price * e.qty
        /\ e.state = IF r.filled + e.qty = Qty[o] THEN "FILLED" ELSE "PARTIALLY_FILLED"
        /\ Allowed(r.state, e.state) /\ SameBroker(r.broker, e.broker)
        /\ e.broker = MergedBroker(r.broker, e.broker)
        /\ Source[e.fill] # NoBroker => Source[e.fill] = e.broker /\ r.evidence = e.broker
    BY <1>1
  <2>2. ReplayFill(o, r, e).ok
    BY <1>1, <1>3, <2>1 DEF ReplayFill, ReplayRecord
  <2>3. DOMAIN ReplayFill(o, r, e) = DOMAIN r
    BY DEF ReplayFill
  <2>. HIDE DEF n
  <2>4. n = [ReplayFill(o, r, e) EXCEPT !.ok = @ /\ e.seq = r.at + 1]
    BY DEF n, ReplayStep
  <2>. QED  BY <1>1, <2>1, <2>2, <2>3, <2>4 DEF ReplayRecord
<1>5. y.fill = e.fill /\ y.qty = e.qty /\ y.price = e.price /\ y.broker = e.broker
  OBVIOUS
<1>. HIDE DEF n, y
<1>6. {z.fill : z \in rows \cup {x}} = {z.fill : z \in r.fills \cup {y}}
  <2>1. /\ {z.fill : z \in rows \cup {x}} = {z.fill : z \in rows} \cup {e.fill}
        /\ {z.fill : z \in r.fills \cup {y}} = {z.fill : z \in r.fills} \cup {e.fill}
    BY <1>5
  <2>. QED  BY <1>1, <2>1
<1>7. \A z \in rows \cup {x} : \E w \in r.fills \cup {y} :
        /\ z.fill = w.fill /\ z.qty = w.qty /\ z.price = w.price
        /\ z.broker \in {NoBroker, w.broker}
  BY <1>5 DEF Fits
<1>8. /\ n.at = new.seq /\ n.state = new.state /\ n.broker = new.broker
      /\ n.filled = new.filled /\ n.notional = new.notional /\ n.evidence = b
  BY <1>1, <1>2
<1>9. Fits(n, new, b, rows \cup {x})
  BY <1>2, <1>4, <1>6, <1>7, <1>8 DEF Fits
<1>. QED  BY <1>9 DEF n

-----------------------------------------------------------------------------
(* What each call does to the journal of an order.                         *)

\* The first row of a journal replays to the row that create stores.
LEMMA FirstRow ==
  ASSUME NEW o, NEW es, Sequenced(es), Len(es) = 0, NEW b, b = NoBroker, NEW m, NEW e,
         e.kind = "CREATED", e.seq = 1, e.qty = Qty[o]
  PROVE  Replays(o, Append(es, e), NewRow, b, m, {})
<1>1. PICK rs : rs[0] = ReplayStart
  <2>1. [i \in {0} |-> ReplayStart][0] = ReplayStart
    OBVIOUS
  <2>. QED  BY <2>1
<1>2. RunOf(rs, o, es, b, m)
  BY <1>1 DEF RunOf
<1>3. PICK r : r = rs[Len(es)]
  OBVIOUS
<1>4. Fits(ReplayStep(o, r, e, b, m), NewRow, b, {})
  <2>1. r = ReplayStart
    BY <1>1, <1>3
  <2>. QED  BY <2>1, CreationReplays
<1>. QED  BY <1>2, <1>3, <1>4, RowReplays

\* A new order.
LEMMA CreationJournal ==
  ASSUME NEW o, OrderJournaled(o), ~ Present(o), NEW l,
         events'[o] = Append(events[o], CreatedEvent(o, l)), orders'[o] = NewRow,
         bindings'[o] = bindings[o], FillsOf(o)' = FillsOf(o)
  PROVE  OrderJournaled(o)'
<1>1. PICK es, e, b, m, rows :
        /\ es = events[o] /\ e = CreatedEvent(o, l) /\ b = bindings[o]
        /\ m = Replacement(o)' /\ rows = FillsOf(o)
  OBVIOUS
<1>2. /\ Sequenced(es) /\ Len(es) = 0 /\ b = NoBroker /\ rows = {}
      /\ e.kind = "CREATED" /\ e.seq = 1 /\ e.qty = Qty[o]
  BY <1>1 DEF OrderJournaled, Journaled, CreatedEvent
<1>3. /\ Sequenced(Append(es, e)) /\ Len(Append(es, e)) = 1 /\ Append(es, e)[1] = e
  <2>1. /\ Sequenced(Append(es, e)) /\ Len(Append(es, e)) = Len(es) + 1
        /\ Append(es, e)[Len(es) + 1] = e
    BY <1>2, Appended
  <2>2. Len(es) + 1 = 1
    BY <1>2
  <2>. QED  BY <2>1, <2>2
<1>4. Replays(o, Append(es, e), NewRow, b, m, rows)
  BY <1>2, FirstRow
<1>5. NewRow.seq = 1 /\ NewRow.state = "CREATED"
  BY DEF NewRow, Absent
<1>6. Journaled(o)'
  BY <1>1, <1>2, <1>3, <1>4, <1>5 DEF Journaled, Present
<1>7. RowsStand(o)'
  <2>1. \A i \in 1..1 : Append(es, e)[i].kind = "CREATED"
    BY <1>2, <1>3
  <2>. QED  BY <1>1, <1>3, <2>1 DEF RowsStand
<1>. QED  BY <1>1, <1>3, <1>6, <1>7 DEF OrderJournaled

\* transition.
LEMMA TransitionJournal ==
  ASSUME JournalInv, NEW o \in ClientIds, NEW b,
         NEW target \in {"RISK_APPROVED", "SUBMITTED", "SUBMISSION_UNCERTAIN",
                         "REJECTED", "CANCELLED"},
         Transition(o, target, b)
  PROVE  OrderJournaled(o)'
<1>. DEFINE broker == MergedBroker(orders[o].broker, b)
<1>1. PICK e : e = [seq |-> NextSeq(o), kind |-> target, from |-> orders[o].state,
                    broker |-> broker]
  OBVIOUS
<1>2. /\ e.seq = orders[o].seq + 1 /\ e.kind = target /\ e.from = orders[o].state
      /\ e.broker = broker
  BY <1>1 DEF NextSeq
<1>3. /\ events'[o] = Append(events[o], e)
      /\ orders'[o] = [orders[o] EXCEPT !.state = target, !.broker = broker,
                                        !.seq = NextSeq(o)]
      /\ bindings' = bindings /\ fills' = fills /\ replacements' = replacements
      /\ Present(o) /\ Allowed(orders[o].state, target)
      /\ SameBroker(orders[o].broker, b)
  BY <1>1 DEF Transition, JournalInv, TablesAgree, TypeOK
<1>4. /\ orders'[o].state = e.kind /\ orders'[o].broker = broker
      /\ orders'[o].seq = orders[o].seq + 1
      /\ orders'[o].filled = orders[o].filled /\ orders'[o].notional = orders[o].notional
  BY <1>2, <1>3 DEF NextSeq, JournalInv, TablesAgree, LineageInv, RowsTyped, Shape
<1>5. SameBroker(orders[o].broker, e.broker) /\ broker = MergedBroker(orders[o].broker, e.broker)
  BY <1>2, <1>3 DEF SameBroker, MergedBroker
<1>6. PICK k, m, row, new, rows :
        /\ k = bindings[o] /\ m = Replacement(o) /\ row = orders[o] /\ new = orders'[o]
        /\ rows = FillsOf(o)
  OBVIOUS
<1>7. FillsOf(o)' = rows /\ Replacement(o)' = m /\ bindings'[o] = k
  BY <1>3, <1>6 DEF FillsOf, Replacement
<1>8. RowFits(o, e, row, k, rows, new, k, m, rows)
  <2>. HIDE DEF broker
  <2>1. /\ e.seq = row.seq + 1 /\ e.from = row.state /\ Allowed(row.state, e.kind)
        /\ SameBroker(row.broker, e.broker) /\ new.state = e.kind
        /\ new.broker = MergedBroker(row.broker, e.broker) /\ new.seq = row.seq + 1
        /\ new.filled = row.filled /\ new.notional = row.notional
    BY <1>2, <1>3, <1>4, <1>5, <1>6
  <2>. QED  BY <1>2, <2>1, MoveReplays DEF RowFits
<1>9. Present(o)'
  BY <1>2, <1>4 DEF Present
<1>10. OrderJournaled(o) /\ e.kind # "BROKER_EVIDENCE_BOUND" /\ e.kind # "REPLACED_BY"
  BY <1>2 DEF JournalInv, TablesAgree
<1>. HIDE DEF broker
<1>. QED  BY <1>3, <1>4, <1>6, <1>7, <1>8, <1>9, <1>10, OneMoreRow

\* bind_broker_identity, when it writes.
LEMMA IdentityJournal ==
  ASSUME JournalInv, NEW o \in ClientIds, NEW b \in BrokerIds,
         BindBrokerIdentity(o, b), orders[o].broker # b
  PROVE  OrderJournaled(o)'
<1>1. PICK e : e = [seq |-> NextSeq(o), kind |-> "BROKER_ID_OBSERVED", broker |-> b,
                    state |-> orders[o].state]
  OBVIOUS
<1>2. /\ e.seq = orders[o].seq + 1 /\ e.kind = "BROKER_ID_OBSERVED" /\ e.broker = b
      /\ e.state = orders[o].state
  BY <1>1 DEF NextSeq
<1>3. /\ events'[o] = Append(events[o], e)
      /\ orders'[o] = [orders[o] EXCEPT !.broker = b, !.seq = NextSeq(o)]
      /\ bindings' = bindings /\ fills' = fills /\ replacements' = replacements
      /\ Present(o) /\ orders[o].broker = NoBroker /\ b # NoBroker
  BY <1>1, BrokerAssumption
     DEF BindBrokerIdentity, SameBroker, vars, JournalInv, TablesAgree, TypeOK
<1>4. /\ orders'[o].state = orders[o].state /\ orders'[o].broker = b
      /\ orders'[o].seq = orders[o].seq + 1
      /\ orders'[o].filled = orders[o].filled /\ orders'[o].notional = orders[o].notional
  BY <1>3 DEF NextSeq, JournalInv, TablesAgree, LineageInv, RowsTyped, Shape
<1>5. SameBroker(orders[o].broker, b) /\ b = MergedBroker(orders[o].broker, b)
  BY <1>3 DEF SameBroker, MergedBroker
<1>6. PICK k, m, row, new, rows :
        /\ k = bindings[o] /\ m = Replacement(o) /\ row = orders[o] /\ new = orders'[o]
        /\ rows = FillsOf(o)
  OBVIOUS
<1>7. FillsOf(o)' = rows /\ Replacement(o)' = m /\ bindings'[o] = k
  BY <1>3, <1>6 DEF FillsOf, Replacement
<1>8. RowFits(o, e, row, k, rows, new, k, m, rows)
  <2>1. /\ e.seq = row.seq + 1 /\ e.state = row.state
        /\ SameBroker(row.broker, e.broker) /\ new.state = row.state
        /\ new.broker = MergedBroker(row.broker, e.broker) /\ new.seq = row.seq + 1
        /\ new.filled = row.filled /\ new.notional = row.notional
    BY <1>2, <1>3, <1>4, <1>5, <1>6
  <2>. QED  BY <1>2, <2>1, ObservationReplays DEF RowFits
<1>9. Present(o)'
  BY <1>3, <1>4 DEF Present
<1>10. OrderJournaled(o) /\ e.kind # "BROKER_EVIDENCE_BOUND" /\ e.kind # "REPLACED_BY"
  BY <1>2 DEF JournalInv, TablesAgree
<1>. QED  BY <1>3, <1>4, <1>6, <1>7, <1>8, <1>9, <1>10, OneMoreRow

\* bind_broker_evidence, when it writes.
LEMMA EvidenceJournal ==
  ASSUME JournalInv, NEW o \in ClientIds, NEW b \in BrokerIds,
         BindBrokerEvidence(o, b), bindings[o] # b
  PROVE  OrderJournaled(o)'
<1>1. PICK e : e = [seq |-> NextSeq(o), kind |-> "BROKER_EVIDENCE_BOUND", broker |-> b]
  OBVIOUS
<1>2. /\ e.seq = orders[o].seq + 1 /\ e.kind = "BROKER_EVIDENCE_BOUND" /\ e.broker = b
  BY <1>1 DEF NextSeq
<1>3. /\ events'[o] = Append(events[o], e)
      /\ orders'[o] = [orders[o] EXCEPT !.seq = NextSeq(o)]
      /\ bindings[o] = NoBroker /\ bindings'[o] = b
      /\ fills' = fills /\ replacements' = replacements
      /\ Present(o) /\ orders[o].state # "CREATED" /\ b # NoBroker
  BY <1>1, BrokerAssumption DEF BindBrokerEvidence, vars, JournalInv, TablesAgree, TypeOK
<1>4. /\ orders'[o].state = orders[o].state /\ orders'[o].broker = orders[o].broker
      /\ orders'[o].seq = orders[o].seq + 1
      /\ orders'[o].filled = orders[o].filled /\ orders'[o].notional = orders[o].notional
  BY <1>3 DEF NextSeq, JournalInv, TablesAgree, LineageInv, RowsTyped, Shape
<1>5. PICK k, m, row, new, rows :
        /\ k = bindings[o] /\ m = Replacement(o) /\ row = orders[o] /\ new = orders'[o]
        /\ rows = FillsOf(o)
  OBVIOUS
<1>6. FillsOf(o)' = rows /\ Replacement(o)' = m
  BY <1>3, <1>5 DEF FillsOf, Replacement
<1>7. RowFits(o, e, row, k, rows, new, b, m, rows)
  <2>1. /\ e.seq = row.seq + 1 /\ row.state # "CREATED"
        /\ new.state = row.state /\ new.broker = row.broker /\ new.seq = row.seq + 1
        /\ new.filled = row.filled /\ new.notional = row.notional
    BY <1>2, <1>3, <1>4, <1>5
  <2>2. k = NoBroker
    BY <1>3, <1>5
  <2>. QED  BY <1>2, <2>1, <2>2, EvidenceReplays DEF RowFits
<1>8. Present(o)'
  BY <1>3, <1>4 DEF Present
<1>9. OrderJournaled(o) /\ e.kind # "REPLACED_BY"
  BY <1>2 DEF JournalInv, TablesAgree
<1>10. RowFits(o, e, orders[o], bindings[o], FillsOf(o), orders'[o], b, m, FillsOf(o)')
  BY <1>5, <1>6, <1>7
<1>11. b = bindings'[o] /\ m = Replacement(o)' /\ Replacement(o) \subseteq m
  BY <1>3, <1>5, <1>6
<1>. QED  BY <1>3, <1>4, <1>8, <1>9, <1>10, <1>11, OneMoreRow

\* replace_cancelled, when it writes: the cancelled order and the new one.
LEMMA ReplacedJournal ==
  ASSUME JournalInv, NEW o \in ClientIds, NEW n \in ClientIds, NEW l,
         ReplaceCancelled(o, n, l), ~ UNCHANGED vars
  PROVE  OrderJournaled(o)' /\ OrderJournaled(n)'
<1>1. PICK e : e = [seq |-> NextSeq(o), kind |-> "REPLACED_BY", by |-> n]
  OBVIOUS
<1>2. e.seq = orders[o].seq + 1 /\ e.kind = "REPLACED_BY" /\ e.by = n
  BY <1>1 DEF NextSeq
<1>3. /\ orders[o].state = "CANCELLED" /\ ~ Present(n)
      /\ orders' = [orders EXCEPT ![n] = NewRow, ![o].seq = NextSeq(o)]
      /\ events' = [events EXCEPT ![n] = Append(@, CreatedEvent(n, l)),
                                  ![o] = Append(@, e)]
      /\ replacements' = replacements \cup {[original |-> o, replacement |-> n]}
      /\ fills' = fills /\ bindings' = bindings
  BY <1>1 DEF ReplaceCancelled
<1>4. o # n
  BY <1>3 DEF Present
<1>5. /\ events'[o] = Append(events[o], e)
      /\ orders'[o] = [orders[o] EXCEPT !.seq = NextSeq(o)]
      /\ events'[n] = Append(events[n], CreatedEvent(n, l)) /\ orders'[n] = NewRow
  BY <1>3, <1>4 DEF JournalInv, TablesAgree, TypeOK
<1>6. /\ orders'[o].state = orders[o].state /\ orders'[o].broker = orders[o].broker
      /\ orders'[o].seq = orders[o].seq + 1
      /\ orders'[o].filled = orders[o].filled /\ orders'[o].notional = orders[o].notional
  BY <1>5 DEF NextSeq, JournalInv, TablesAgree, LineageInv, RowsTyped, Shape
<1>7. \A x : FillsOf(x)' = FillsOf(x)
  BY <1>3 DEF FillsOf
<1>8. n \in Replacement(o)' /\ Replacement(o) \subseteq Replacement(o)'
  <2>. DEFINE link == [original |-> o, replacement |-> n]
  <2>1. link.original = o /\ link.replacement = n /\ link \in replacements'
    BY <1>3
  <2>2. replacements \subseteq replacements'
    BY <1>3
  <2>. HIDE DEF link
  <2>. QED  BY <2>1, <2>2 DEF Replacement
<1>9. OrderJournaled(n)'
  BY <1>3, <1>5, <1>7, CreationJournal DEF JournalInv, TablesAgree
<1>10. OrderJournaled(o)'
  <2>1. PICK k, m, row, new, rows :
          /\ k = bindings[o] /\ m = Replacement(o)' /\ row = orders[o] /\ new = orders'[o]
          /\ rows = FillsOf(o)
    OBVIOUS
  <2>2. RowFits(o, e, row, k, rows, new, k, m, rows)
    <3>1. /\ e.seq = row.seq + 1 /\ e.by \in m /\ row.state = "CANCELLED"
          /\ new.state = row.state /\ new.broker = row.broker /\ new.seq = row.seq + 1
          /\ new.filled = row.filled /\ new.notional = row.notional
      BY <1>2, <1>3, <1>6, <1>8, <2>1
    <3>. QED  BY <1>2, <3>1, ReplacementReplays DEF RowFits
  <2>3. Present(o) /\ Present(o)'
    BY <1>3, <1>6 DEF Present
  <2>4. OrderJournaled(o) /\ e.kind # "BROKER_EVIDENCE_BOUND" /\ e.by \in m
    BY <1>2, <1>8, <2>1 DEF JournalInv, TablesAgree
  <2>5. FillsOf(o)' = rows /\ bindings'[o] = k
    BY <1>3, <1>7, <2>1
  <2>. QED  BY <1>5, <1>6, <1>8, <2>1, <2>2, <2>3, <2>4, <2>5, OneMoreRow
<1>. QED  BY <1>9, <1>10

\* fill, when it writes.
LEMMA FillJournal ==
  ASSUME JournalInv, NEW o \in ClientIds, NEW f \in FillIds, NEW q \in 1..Qty[o],
         NEW p \in Prices, NEW b \in MaybeBroker, Fill(o, f, q, p, b), ~ UNCHANGED vars
  PROVE  OrderJournaled(o)'
<1>. DEFINE total == orders[o].filled + q
            target == IF total = Qty[o] THEN "FILLED" ELSE "PARTIALLY_FILLED"
            notional == NotionalOf(FillsOf(o)) + p * q
            broker == MergedBroker(orders[o].broker, b)
<1>1. PICK e : e = [seq |-> NextSeq(o), kind |-> "FILL", fill |-> f, qty |-> q, price |-> p,
                    total |-> total, notional |-> notional, state |-> target,
                    broker |-> broker]
  OBVIOUS
<1>2. PICK x : x = [fill |-> f, order |-> o, qty |-> q, price |-> p, broker |-> b]
  OBVIOUS
<1>3. /\ events'[o] = Append(events[o], e)
      /\ orders'[o] = [state |-> target, filled |-> total, notional |-> notional,
                       broker |-> broker, seq |-> NextSeq(o)]
      /\ fills' = fills \cup {x}
      /\ bindings' = bindings /\ replacements' = replacements
      /\ Present(o) /\ SourceBound(o, f, b) /\ NewFill(f) /\ FitsRemainder(o, q)
      /\ SameBroker(orders[o].broker, b) /\ Allowed(orders[o].state, target)
  BY <1>1, <1>2 DEF Fill, JournalInv, TablesAgree, TypeOK
<1>4. /\ e.seq = orders[o].seq + 1 /\ e.kind = "FILL" /\ e.fill = f /\ e.qty = q /\ e.price = p
      /\ e.total = total /\ e.notional = notional /\ e.state = target /\ e.broker = broker
      /\ x.fill = f /\ x.qty = q /\ x.price = p /\ x.broker = b /\ x.order = o
  <2>. HIDE DEF total, target, notional, broker
  <2>. QED  BY <1>1, <1>2 DEF NextSeq
<1>5. /\ orders'[o].state = target /\ orders'[o].broker = broker
      /\ orders'[o].seq = orders[o].seq + 1
      /\ orders'[o].filled = total /\ orders'[o].notional = notional
  <2>. HIDE DEF total, target, notional, broker
  <2>. QED  BY <1>3 DEF NextSeq
<1>6. PICK k, m, row, new, rows :
        /\ k = bindings[o] /\ m = Replacement(o) /\ row = orders[o] /\ new = orders'[o]
        /\ rows = FillsOf(o)
  OBVIOUS
<1>7. FillsOf(o)' = rows \cup {x} /\ Replacement(o)' = m /\ bindings'[o] = k
  BY <1>3, <1>4, <1>6 DEF FillsOf, Replacement
<1>8. RowFits(o, e, row, k, rows, new, k, m, rows \cup {x})
  <2>1. /\ row.filled + e.qty <= Qty[o] /\ e.total = row.filled + e.qty
        /\ e.state = (IF row.filled + e.qty = Qty[o] THEN "FILLED" ELSE "PARTIALLY_FILLED")
    BY <1>3, <1>4, <1>6 DEF FitsRemainder
  <2>2. e.notional = row.notional + e.price * e.qty
    BY <1>4, <1>6 DEF JournalInv, TablesAgree, FillsAttributed, FillRowsAgree
  <2>3. /\ e.broker = MergedBroker(row.broker, e.broker) /\ SameBroker(row.broker, e.broker)
        /\ x.broker \in {NoBroker, e.broker}
    BY <1>3, <1>4, <1>6 DEF SameBroker, MergedBroker
  <2>4. Source[e.fill] # NoBroker => Source[e.fill] = e.broker /\ k = e.broker
    BY <1>3, <1>4, <1>6 DEF SourceBound, SameBroker, MergedBroker
  <2>5. \A y \in rows : y.fill # e.fill
    BY <1>3, <1>4, <1>6 DEF NewFill, FillsOf
  <2>6. /\ e.seq = row.seq + 1 /\ Allowed(row.state, e.state)
        /\ x.fill = e.fill /\ x.qty = e.qty /\ x.price = e.price
        /\ new.state = e.state /\ new.broker = e.broker /\ new.seq = row.seq + 1
        /\ new.filled = e.total /\ new.notional = e.notional
    <3>. HIDE DEF total, target, notional, broker
    <3>. QED  BY <1>3, <1>4, <1>5, <1>6
  <2>. HIDE DEF total, target, notional, broker
  <2>. QED  BY <1>4, <2>1, <2>2, <2>3, <2>4, <2>5, <2>6, FillReplays DEF RowFits
<1>9. Present(o)'
  BY <1>5 DEF Present
<1>10. OrderJournaled(o) /\ e.kind # "BROKER_EVIDENCE_BOUND" /\ e.kind # "REPLACED_BY"
  <2>. HIDE DEF total, target, notional, broker
  <2>. QED  BY <1>4 DEF JournalInv, TablesAgree
<1>. HIDE DEF total, target, notional, broker
<1>. QED  BY <1>3, <1>5, <1>6, <1>7, <1>8, <1>9, <1>10, OneMoreRow

-----------------------------------------------------------------------------
(* What each call does to the tables.                                      *)

\* One row of oms_orders and one of oms_events is written.
LEMMA RowStored ==
  ASSUME JournalInv, NEW o \in ClientIds, NEW new \in Row, NEW e, RoomFor(o),
         orders' = [orders EXCEPT ![o] = new],
         events' = [events EXCEPT ![o] = Append(@, e)]
  PROVE  /\ orders' \in [ClientIds -> Row] /\ DOMAIN events' = ClientIds
         /\ \A x \in ClientIds : Len(events'[x]) <= MaxEvents
         /\ \A x \in ClientIds : x # o => orders'[x] = orders[x] /\ events'[x] = events[x]
<1>1. /\ orders \in [ClientIds -> Row] /\ DOMAIN events = ClientIds
      /\ \A x \in ClientIds : Len(events[x]) <= MaxEvents
      /\ Sequenced(events[o])
  BY DEF JournalInv, TablesAgree, TypeOK, OrderJournaled
<1>2. /\ orders' \in [ClientIds -> Row] /\ DOMAIN events' = ClientIds
      /\ events'[o] = Append(events[o], e)
      /\ \A x \in ClientIds : x # o => orders'[x] = orders[x] /\ events'[x] = events[x]
  BY <1>1
<1>3. Len(events'[o]) <= MaxEvents
  <2>1. PICK es : es = events[o]
    OBVIOUS
  <2>2. Len(es) \in Nat /\ Len(Append(es, e)) = Len(es) + 1
    BY <1>1, <2>1, Appended
  <2>. QED  BY <1>2, <2>1, <2>2, MaxEventsAssumption DEF RoomFor
<1>. QED  BY <1>1, <1>2, <1>3

\* The order of a call that leaves it alone.
LEMMA QuietOrder ==
  ASSUME JournalInv, NEW x \in ClientIds,
         orders'[x] = orders[x], events'[x] = events[x], bindings'[x] = bindings[x],
         FillsOf(x)' = FillsOf(x), replacements \subseteq replacements'
  PROVE  OrderJournaled(x)'
<1>1. OrderJournaled(x)
  BY DEF JournalInv, TablesAgree
<1>2. Replacement(x) \subseteq Replacement(x)'
  BY DEF Replacement
<1>. QED  BY <1>1, <1>2, QuietJournal

\* A call that writes no fill row and no quantity.
LEMMA FillRowsKept ==
  ASSUME JournalInv, fills' = fills,
         \A x \in ClientIds : /\ orders'[x].filled = orders[x].filled
                             /\ orders'[x].notional = orders[x].notional
  PROVE  FillRowsAgree'
<1>1. \A x : FillsOf(x)' = FillsOf(x)
  BY DEF FillsOf
<1>2. FillRowsAgree
  BY DEF JournalInv, TablesAgree, FillsAttributed
<1>. QED  BY <1>1, <1>2 DEF FillRowsAgree

\* A call that writes no evidence either.
LEMMA AttributionKept ==
  ASSUME JournalInv, fills' = fills, bindings' = bindings,
         \A x \in ClientIds : /\ orders'[x].filled = orders[x].filled
                             /\ orders'[x].notional = orders[x].notional
                             /\ BrokerKept(x)
  PROVE  FillsAttributed'
<1>1. FillsAttributed /\ fills \subseteq FillRow
  BY DEF JournalInv, TablesAgree, TypeOK
<1>2. FillRowsAgree'
  BY FillRowsKept
<1>3. ExternalFillsAttributed'
  <2>. SUFFICES ASSUME NEW r \in fills, Source[r.fill] # NoBroker
                PROVE  /\ bindings[r.order] = Source[r.fill]
                       /\ orders'[r.order].broker = Source[r.fill]
                       /\ \A x \in ClientIds : bindings[x] = Source[r.fill] => x = r.order
    BY DEF ExternalFillsAttributed
  <2>1. r.order \in ClientIds
    BY <1>1 DEF FillRow
  <2>. QED  BY <1>1, <2>1 DEF FillsAttributed, ExternalFillsAttributed, BrokerKept
<1>4. BindingsUnique'
  BY <1>1 DEF FillsAttributed, BindingsUnique
<1>. QED  BY <1>2, <1>3, <1>4 DEF FillsAttributed

\* A call that writes nothing.
LEMMA QuietTables ==
  ASSUME JournalInv, UNCHANGED vars
  PROVE  TablesAgree'
<1>1. /\ orders' = orders /\ events' = events /\ fills' = fills
      /\ bindings' = bindings /\ replacements' = replacements
  BY DEF vars
<1>2. TypeOK'
  BY <1>1 DEF JournalInv, TablesAgree, TypeOK
<1>3. FillsAttributed'
  <2>1. \A x \in ClientIds : BrokerKept(x)
    BY <1>1 DEF BrokerKept, JournalInv, LineageInv, RowsTyped
  <2>. QED  BY <1>1, <2>1, AttributionKept
<1>4. ASSUME NEW x \in ClientIds PROVE OrderJournaled(x)'
  <2>1. FillsOf(x)' = FillsOf(x)
    BY <1>1 DEF FillsOf
  <2>. QED  BY <1>1, <2>1, QuietOrder
<1>. QED  BY <1>2, <1>3, <1>4 DEF TablesAgree

\* transition.
LEMMA TransitionTables ==
  ASSUME JournalInv, NEW o \in ClientIds, NEW b \in MaybeBroker,
         NEW target \in {"RISK_APPROVED", "SUBMITTED", "SUBMISSION_UNCERTAIN",
                         "REJECTED", "CANCELLED"},
         Transition(o, target, b)
  PROVE  TablesAgree'
<1>. DEFINE broker == MergedBroker(orders[o].broker, b)
            new == [orders[o] EXCEPT !.state = target, !.broker = broker, !.seq = NextSeq(o)]
            e == [seq |-> NextSeq(o), kind |-> target, from |-> orders[o].state,
                  broker |-> broker]
<1>1. /\ orders' = [orders EXCEPT ![o] = new]
      /\ events' = [events EXCEPT ![o] = Append(@, e)]
      /\ bindings' = bindings /\ fills' = fills /\ replacements' = replacements
      /\ RoomFor(o)
  BY DEF Transition
<1>2. orders[o] \in Row
  BY DEF JournalInv, TablesAgree, TypeOK
<1>3. new \in Row /\ new.filled = orders[o].filled /\ new.notional = orders[o].notional
  <2>1. broker \in MaybeBroker /\ NextSeq(o) \in Nat /\ target \in OrderStates
    BY <1>2 DEF Row, NextSeq, MergedBroker, OrderStates
  <2>2. PICK t, c, k, row : t = target /\ c = broker /\ k = NextSeq(o) /\ row = orders[o]
    OBVIOUS
  <2>3. new = [row EXCEPT !.state = t, !.broker = c, !.seq = k]
    BY <2>2
  <2>. HIDE DEF broker, new
  <2>. QED  BY <1>2, <2>1, <2>2, <2>3 DEF Row
<1>. HIDE DEF new, e
<1>4. /\ orders' \in [ClientIds -> Row] /\ DOMAIN events' = ClientIds
      /\ \A x \in ClientIds : Len(events'[x]) <= MaxEvents
      /\ \A x \in ClientIds : x # o => orders'[x] = orders[x] /\ events'[x] = events[x]
  BY <1>1, <1>3, RowStored
<1>5. TypeOK'
  BY <1>1, <1>4 DEF JournalInv, TablesAgree, TypeOK
<1>6. FillsAttributed'
  <2>1. \A x \in ClientIds : BrokerKept(x)
    BY TransitionRows DEF JournalInv, LineageInv, TableStep
  <2>2. orders'[o] = new
    BY <1>1 DEF JournalInv, TablesAgree, TypeOK
  <2>. QED  BY <1>1, <1>3, <1>4, <2>1, <2>2, AttributionKept
<1>7. ASSUME NEW x \in ClientIds PROVE OrderJournaled(x)'
  <2>1. CASE x = o
    BY <2>1, TransitionJournal
  <2>2. CASE x # o
    <3>1. FillsOf(x)' = FillsOf(x)
      BY <1>1 DEF FillsOf
    <3>. QED  BY <1>1, <1>4, <2>2, <3>1, QuietOrder
  <2>. QED  BY <2>1, <2>2
<1>. QED  BY <1>5, <1>6, <1>7 DEF TablesAgree

\* create: the order had no fill row, so its quantity is still the sum of them.
LEMMA CreateTables ==
  ASSUME JournalInv, NEW o \in ClientIds, NEW l, Create(o, l)
  PROVE  TablesAgree'
<1>1. CASE UNCHANGED vars
  BY <1>1, QuietTables
<1>2. CASE ~ UNCHANGED vars
  <2>. DEFINE e == CreatedEvent(o, l)
  <2>1. /\ orders' = [orders EXCEPT ![o] = NewRow]
        /\ events' = [events EXCEPT ![o] = Append(@, e)]
        /\ bindings' = bindings /\ fills' = fills /\ replacements' = replacements
        /\ RoomFor(o) /\ ~ Present(o)
    BY <1>2 DEF Create
  <2>2. NewRow \in Row /\ NewRow.filled = 0 /\ NewRow.notional = 0
    BY DEF NewRow, Absent, Row, OrderStates, MaybeBroker
  <2>. HIDE DEF e
  <2>3. /\ orders' \in [ClientIds -> Row] /\ DOMAIN events' = ClientIds
        /\ \A x \in ClientIds : Len(events'[x]) <= MaxEvents
        /\ \A x \in ClientIds : x # o => orders'[x] = orders[x] /\ events'[x] = events[x]
    BY <2>1, <2>2, RowStored
  <2>4. TypeOK'
    BY <2>1, <2>3 DEF JournalInv, TablesAgree, TypeOK
  <2>5. orders'[o] = NewRow /\ events'[o] = Append(events[o], e)
    BY <2>1 DEF JournalInv, TablesAgree, TypeOK
  <2>6. orders[o].filled = 0 /\ orders[o].notional = 0
    <3>1. FillsOf(o) = {}
      BY <2>1 DEF JournalInv, TablesAgree, OrderJournaled, Journaled
    <3>2. orders[o].filled = QuantityOf({}) /\ orders[o].notional = NotionalOf({})
      BY <3>1 DEF JournalInv, TablesAgree, FillsAttributed, FillRowsAgree
    <3>. QED  BY <3>2, SumEmpty DEF QuantityOf, NotionalOf
  <2>7. FillsAttributed'
    <3>1. \A x \in ClientIds : BrokerKept(x)
      BY CreateRows DEF JournalInv, LineageInv, TableStep
    <3>. QED  BY <2>1, <2>2, <2>3, <2>5, <2>6, <3>1, AttributionKept
  <2>8. ASSUME NEW x \in ClientIds PROVE OrderJournaled(x)'
    <3>1. FillsOf(x)' = FillsOf(x)
      BY <2>1 DEF FillsOf
    <3>2. CASE x = o
      <4>1. OrderJournaled(o) /\ FillsOf(o)' = FillsOf(o) /\ bindings'[o] = bindings[o]
        BY <2>1, <3>1, <3>2 DEF JournalInv, TablesAgree
      <4>2. events'[o] = Append(events[o], CreatedEvent(o, l))
        BY <2>5 DEF e
      <4>. QED  BY <2>1, <2>5, <3>2, <4>1, <4>2, CreationJournal
    <3>3. CASE x # o
      BY <2>1, <2>3, <3>1, <3>3, QuietOrder
    <3>. QED  BY <3>2, <3>3
  <2>. QED  BY <2>4, <2>7, <2>8 DEF TablesAgree
<1>. QED  BY <1>1, <1>2

\* bind_broker_identity.
LEMMA IdentityTables ==
  ASSUME JournalInv, NEW o \in ClientIds, NEW b \in BrokerIds, BindBrokerIdentity(o, b)
  PROVE  TablesAgree'
<1>1. CASE UNCHANGED vars
  BY <1>1, QuietTables
<1>2. CASE ~ UNCHANGED vars
  <2>. DEFINE e == [seq |-> NextSeq(o), kind |-> "BROKER_ID_OBSERVED", broker |-> b,
                    state |-> orders[o].state]
              new == [orders[o] EXCEPT !.broker = b, !.seq = NextSeq(o)]
  <2>1. /\ orders' = [orders EXCEPT ![o] = new]
        /\ events' = [events EXCEPT ![o] = Append(@, e)]
        /\ bindings' = bindings /\ fills' = fills /\ replacements' = replacements
        /\ RoomFor(o) /\ orders[o].broker # b
    BY <1>2 DEF BindBrokerIdentity
  <2>2. new \in Row /\ new.filled = orders[o].filled /\ new.notional = orders[o].notional
    <3>1. orders[o] \in Row
      BY DEF JournalInv, TablesAgree, TypeOK
    <3>2. b \in MaybeBroker /\ NextSeq(o) \in Nat
      BY <3>1 DEF Row, NextSeq, MaybeBroker
    <3>3. PICK k, row : k = NextSeq(o) /\ row = orders[o]
      OBVIOUS
    <3>4. new = [row EXCEPT !.broker = b, !.seq = k]
      BY <3>3
    <3>. HIDE DEF new
    <3>. QED  BY <3>1, <3>2, <3>3, <3>4 DEF Row
  <2>. HIDE DEF e, new
  <2>3. /\ orders' \in [ClientIds -> Row] /\ DOMAIN events' = ClientIds
        /\ \A x \in ClientIds : Len(events'[x]) <= MaxEvents
        /\ \A x \in ClientIds : x # o => orders'[x] = orders[x] /\ events'[x] = events[x]
    BY <2>1, <2>2, RowStored
  <2>4. TypeOK'
    BY <2>1, <2>3 DEF JournalInv, TablesAgree, TypeOK
  <2>5. FillsAttributed'
    <3>1. \A x \in ClientIds : BrokerKept(x)
      BY BindRows DEF JournalInv, LineageInv, TableStep
    <3>2. orders'[o] = new
      BY <2>1 DEF JournalInv, TablesAgree, TypeOK
    <3>. QED  BY <2>1, <2>2, <2>3, <3>1, <3>2, AttributionKept
  <2>6. ASSUME NEW x \in ClientIds PROVE OrderJournaled(x)'
    <3>1. CASE x = o
      BY <2>1, <3>1, IdentityJournal
    <3>2. CASE x # o
      <4>1. FillsOf(x)' = FillsOf(x)
        BY <2>1 DEF FillsOf
      <4>. QED  BY <2>1, <2>3, <3>2, <4>1, QuietOrder
    <3>. QED  BY <3>1, <3>2
  <2>. QED  BY <2>4, <2>5, <2>6 DEF TablesAgree
<1>. QED  BY <1>1, <1>2

\* bind_broker_evidence: the order had no evidence and no other order has this one, so no
\* external fill loses its owner or gets a second one.
LEMMA EvidenceTables ==
  ASSUME JournalInv, NEW o \in ClientIds, NEW b \in BrokerIds, BindBrokerEvidence(o, b)
  PROVE  TablesAgree'
<1>1. CASE UNCHANGED vars
  BY <1>1, QuietTables
<1>2. CASE ~ UNCHANGED vars
  <2>. DEFINE e == [seq |-> NextSeq(o), kind |-> "BROKER_EVIDENCE_BOUND", broker |-> b]
              new == [orders[o] EXCEPT !.seq = NextSeq(o)]
  <2>1. /\ orders' = [orders EXCEPT ![o] = new]
        /\ events' = [events EXCEPT ![o] = Append(@, e)]
        /\ bindings' = [bindings EXCEPT ![o] = b]
        /\ fills' = fills /\ replacements' = replacements
        /\ RoomFor(o) /\ bindings[o] = NoBroker /\ b # NoBroker
        /\ \A x \in ClientIds : bindings[x] # b
    BY <1>2 DEF BindBrokerEvidence
  <2>2. new \in Row /\ new.filled = orders[o].filled /\ new.notional = orders[o].notional
    <3>1. orders[o] \in Row
      BY DEF JournalInv, TablesAgree, TypeOK
    <3>2. NextSeq(o) \in Nat
      BY <3>1 DEF Row, NextSeq
    <3>3. PICK k, row : k = NextSeq(o) /\ row = orders[o]
      OBVIOUS
    <3>4. new = [row EXCEPT !.seq = k]
      BY <3>3
    <3>. HIDE DEF new
    <3>. QED  BY <3>1, <3>2, <3>3, <3>4 DEF Row
  <2>. HIDE DEF e, new
  <2>3. /\ orders' \in [ClientIds -> Row] /\ DOMAIN events' = ClientIds
        /\ \A x \in ClientIds : Len(events'[x]) <= MaxEvents
        /\ \A x \in ClientIds : x # o => orders'[x] = orders[x] /\ events'[x] = events[x]
    BY <2>1, <2>2, RowStored
  <2>4. /\ bindings' \in [ClientIds -> MaybeBroker] /\ bindings'[o] = b /\ orders'[o] = new
        /\ \A x \in ClientIds : x # o => bindings'[x] = bindings[x]
    BY <2>1 DEF JournalInv, TablesAgree, TypeOK, MaybeBroker
  <2>5. TypeOK'
    BY <2>1, <2>3, <2>4 DEF JournalInv, TablesAgree, TypeOK
  <2>6. FillsAttributed'
    <3>1. \A x \in ClientIds : BrokerKept(x)
      BY BindRows DEF JournalInv, LineageInv, TableStep
    <3>2. FillRowsAgree'
      BY <2>1, <2>2, <2>3, <2>4, FillRowsKept
    <3>3. ExternalFillsAttributed'
      <4>. SUFFICES ASSUME NEW r \in fills, Source[r.fill] # NoBroker
                    PROVE  /\ bindings'[r.order] = Source[r.fill]
                           /\ orders'[r.order].broker = Source[r.fill]
                           /\ \A x \in ClientIds :
                                bindings'[x] = Source[r.fill] => x = r.order
        BY <2>1 DEF ExternalFillsAttributed
      <4>1. r.order \in ClientIds
        BY DEF JournalInv, TablesAgree, TypeOK, FillRow
      <4>2. /\ bindings[r.order] = Source[r.fill] /\ orders[r.order].broker = Source[r.fill]
            /\ \A x \in ClientIds : bindings[x] = Source[r.fill] => x = r.order
        BY DEF JournalInv, TablesAgree, FillsAttributed, ExternalFillsAttributed
      <4>3. orders'[r.order].broker = Source[r.fill]
        BY <3>1, <4>1, <4>2 DEF BrokerKept
      <4>. QED  BY <2>1, <2>4, <4>1, <4>2, <4>3
    <3>4. BindingsUnique'
      BY <2>1, <2>4 DEF JournalInv, TablesAgree, FillsAttributed, BindingsUnique
    <3>. QED  BY <3>2, <3>3, <3>4 DEF FillsAttributed
  <2>7. ASSUME NEW x \in ClientIds PROVE OrderJournaled(x)'
    <3>1. CASE x = o
      <4>1. bindings[o] # b
        BY <2>1
      <4>. QED  BY <3>1, <4>1, EvidenceJournal
    <3>2. CASE x # o
      <4>1. FillsOf(x)' = FillsOf(x)
        BY <2>1 DEF FillsOf
      <4>. QED  BY <2>1, <2>3, <2>4, <3>2, <4>1, QuietOrder
    <3>. QED  BY <3>1, <3>2
  <2>. QED  BY <2>5, <2>6, <2>7 DEF TablesAgree
<1>. QED  BY <1>1, <1>2

\* replace_cancelled: the cancelled order keeps its quantity, the new one starts at none.
LEMMA ReplaceTables ==
  ASSUME JournalInv, NEW o \in ClientIds, NEW n \in ClientIds, NEW l,
         ReplaceCancelled(o, n, l)
  PROVE  TablesAgree'
<1>1. CASE UNCHANGED vars
  BY <1>1, QuietTables
<1>2. CASE ~ UNCHANGED vars
  <2>. DEFINE e == [seq |-> NextSeq(o), kind |-> "REPLACED_BY", by |-> n]
              f == CreatedEvent(n, l)
              new == [orders[o] EXCEPT !.seq = NextSeq(o)]
              link == [original |-> o, replacement |-> n]
  <2>1. /\ orders' = [orders EXCEPT ![n] = NewRow, ![o].seq = NextSeq(o)]
        /\ events' = [events EXCEPT ![n] = Append(@, f), ![o] = Append(@, e)]
        /\ bindings' = bindings /\ fills' = fills
        /\ replacements' = replacements \cup {link}
        /\ RoomFor(o) /\ RoomFor(n) /\ ~ Present(n) /\ orders[o].state = "CANCELLED"
    BY <1>2 DEF ReplaceCancelled
  <2>2. o # n
    BY <2>1 DEF Present
  <2>3. new \in Row /\ new.filled = orders[o].filled /\ new.notional = orders[o].notional
    <3>1. orders[o] \in Row
      BY DEF JournalInv, TablesAgree, TypeOK
    <3>2. NextSeq(o) \in Nat
      BY <3>1 DEF Row, NextSeq
    <3>3. PICK k, row : k = NextSeq(o) /\ row = orders[o]
      OBVIOUS
    <3>4. new = [row EXCEPT !.seq = k]
      BY <3>3
    <3>. HIDE DEF new
    <3>. QED  BY <3>1, <3>2, <3>3, <3>4 DEF Row
  <2>4. NewRow \in Row /\ NewRow.filled = 0 /\ NewRow.notional = 0
    BY DEF NewRow, Absent, Row, OrderStates, MaybeBroker
  <2>5. link \in Link
    BY DEF Link
  <2>6. orders' = [orders EXCEPT ![n] = NewRow, ![o] = new]
    BY <2>1, <2>2 DEF JournalInv, TablesAgree, TypeOK
  <2>. HIDE DEF e, f, new, link
  <2>7. /\ orders' \in [ClientIds -> Row] /\ orders'[o] = new /\ orders'[n] = NewRow
        /\ \A x \in ClientIds : x # o /\ x # n => orders'[x] = orders[x]
    BY <2>2, <2>3, <2>4, <2>6 DEF JournalInv, TablesAgree, TypeOK
  <2>8. /\ DOMAIN events' = ClientIds
        /\ events'[o] = Append(events[o], e) /\ events'[n] = Append(events[n], f)
        /\ \A x \in ClientIds : x # o /\ x # n => events'[x] = events[x]
    BY <2>1, <2>2 DEF JournalInv, TablesAgree, TypeOK
  <2>9. \A x \in ClientIds : Len(events'[x]) <= MaxEvents
    <3>1. ASSUME NEW x \in {o, n}, NEW g
          PROVE  Len(Append(events[x], g)) <= MaxEvents
      <4>1. PICK es : es = events[x]
        OBVIOUS
      <4>2. Sequenced(es) /\ Len(es) < MaxEvents
        BY <2>1, <4>1 DEF RoomFor, JournalInv, TablesAgree, OrderJournaled
      <4>3. Len(es) \in Nat /\ Len(Append(es, g)) = Len(es) + 1
        BY <4>2, Appended
      <4>. QED  BY <4>1, <4>2, <4>3, MaxEventsAssumption
    <3>. QED  BY <2>8, <3>1 DEF JournalInv, TablesAgree, TypeOK
  <2>10. TypeOK'
    BY <2>1, <2>5, <2>7, <2>8, <2>9 DEF JournalInv, TablesAgree, TypeOK
  <2>11. orders[n].filled = 0 /\ orders[n].notional = 0
    <3>1. FillsOf(n) = {}
      BY <2>1 DEF JournalInv, TablesAgree, OrderJournaled, Journaled
    <3>2. orders[n].filled = QuantityOf({}) /\ orders[n].notional = NotionalOf({})
      BY <3>1 DEF JournalInv, TablesAgree, FillsAttributed, FillRowsAgree
    <3>. QED  BY <3>2, SumEmpty DEF QuantityOf, NotionalOf
  <2>12. FillsAttributed'
    <3>1. \A x \in ClientIds : BrokerKept(x)
      BY ReplaceRows DEF JournalInv, LineageInv, TableStep
    <3>. QED  BY <2>1, <2>3, <2>4, <2>7, <2>11, <3>1, AttributionKept
  <2>13. ASSUME NEW x \in ClientIds PROVE OrderJournaled(x)'
    <3>1. CASE x = o \/ x = n
      BY <1>2, <3>1, ReplacedJournal
    <3>2. CASE x # o /\ x # n
      <4>1. FillsOf(x)' = FillsOf(x)
        BY <2>1 DEF FillsOf
      <4>. QED  BY <2>1, <2>7, <2>8, <3>2, <4>1, QuietOrder
    <3>. QED  BY <3>1, <3>2
  <2>. QED  BY <2>10, <2>12, <2>13 DEF TablesAgree
<1>. QED  BY <1>1, <1>2

\* The sums over the fill rows of an order, one row later.
LEMMA SumsOfFills ==
  ASSUME NEW rows, IsFiniteSet(rows), rows \subseteq FillRow, NEW x \in FillRow, x \notin rows
  PROVE  /\ QuantityOf(rows \cup {x}) = QuantityOf(rows) + x.qty
         /\ NotionalOf(rows \cup {x}) = NotionalOf(rows) + x.price * x.qty
<1>. DEFINE more == rows \cup {x}
            q == [r \in rows |-> r.qty]
            qs == [r \in more |-> r.qty]
            p == [r \in rows |-> r.price * r.qty]
            ps == [r \in more |-> r.price * r.qty]
<1>1. \A r \in more : r.qty \in Int /\ r.price \in Int
  BY DEF FillRow
<1>2. \A r \in more : r.price * r.qty \in Int
  <2>. HIDE DEF more
  <2>. SUFFICES ASSUME NEW r \in more PROVE r.price * r.qty \in Int
    OBVIOUS
  <2>1. PICK u, v : u = r.price /\ v = r.qty
    OBVIOUS
  <2>2. u \in Int /\ v \in Int
    BY <1>1, <2>1
  <2>3. u * v \in Int
    BY <2>2
  <2>. QED  BY <2>1, <2>3
<1>3. /\ \A r \in rows : q[r] = qs[r] /\ qs[r] \in Int /\ p[r] = ps[r] /\ ps[r] \in Int
      /\ qs[x] = x.qty /\ qs[x] \in Int
      /\ ps[x] = x.price * x.qty /\ ps[x] \in Int
  BY <1>1, <1>2
<1>4. /\ QuantityOf(more) = SumOf(qs, more) /\ QuantityOf(rows) = SumOf(q, rows)
      /\ NotionalOf(more) = SumOf(ps, more) /\ NotionalOf(rows) = SumOf(p, rows)
  BY DEF QuantityOf, NotionalOf
<1>. HIDE DEF q, qs, p, ps
<1>5. SumOf(qs, rows \cup {x}) = SumOf(qs, rows) + qs[x]
  BY <1>3, SumAdd
<1>6. SumOf(ps, rows \cup {x}) = SumOf(ps, rows) + ps[x]
  BY <1>3, SumAdd
<1>7. SumOf(qs, rows) = SumOf(q, rows)
  <2>1. \A r \in rows : q[r] = qs[r] /\ q[r] \in Int /\ qs[r] \in Int
    BY <1>3
  <2>. QED  BY <2>1, SumSame
<1>8. SumOf(ps, rows) = SumOf(p, rows)
  <2>1. \A r \in rows : p[r] = ps[r] /\ p[r] \in Int /\ ps[r] \in Int
    BY <1>3
  <2>. QED  BY <2>1, SumSame
<1>. QED  BY <1>3, <1>4, <1>5, <1>6, <1>7, <1>8

\* fill: a new execution adds its quantity and its notional to the sums, and an external
\* one is of the broker order whose evidence the order has.
LEMMA FillTables ==
  ASSUME JournalInv, NEW o \in ClientIds, NEW f \in FillIds, NEW q \in 1..Qty[o],
         NEW p \in Prices, NEW b \in MaybeBroker, Fill(o, f, q, p, b)
  PROVE  TablesAgree'
<1>1. CASE UNCHANGED vars
  BY <1>1, QuietTables
<1>2. CASE ~ UNCHANGED vars
  <2>. DEFINE total == orders[o].filled + q
              target == IF total = Qty[o] THEN "FILLED" ELSE "PARTIALLY_FILLED"
              notional == NotionalOf(FillsOf(o)) + p * q
              broker == MergedBroker(orders[o].broker, b)
              e == [seq |-> NextSeq(o), kind |-> "FILL", fill |-> f, qty |-> q, price |-> p,
                    total |-> total, notional |-> notional, state |-> target,
                    broker |-> broker]
              new == [state |-> target, filled |-> total, notional |-> notional,
                      broker |-> broker, seq |-> NextSeq(o)]
              x == [fill |-> f, order |-> o, qty |-> q, price |-> p, broker |-> b]
  <2>1. /\ orders' = [orders EXCEPT ![o] = new]
        /\ events' = [events EXCEPT ![o] = Append(@, e)]
        /\ fills' = fills \cup {x}
        /\ bindings' = bindings /\ replacements' = replacements
        /\ RoomFor(o) /\ SourceBound(o, f, b) /\ NewFill(f)
        /\ SameBroker(orders[o].broker, b)
    BY <1>2 DEF Fill
  <2>2. /\ x \in FillRow /\ x.fill = f /\ x.order = o /\ x.qty = q /\ x.price = p
        /\ p \in Nat /\ q \in Nat
    <3>1. q \in Nat /\ p \in Nat
      BY QtyAssumption, PricesAssumption
    <3>. QED  BY <3>1 DEF FillRow
  <2>3. /\ new.filled = total /\ new.notional = notional /\ new.broker = broker
        /\ new.state = target /\ new.seq = NextSeq(o)
    <3>. HIDE DEF total, target, notional, broker
    <3>. QED  OBVIOUS
  <2>4. /\ IsFiniteSet(fills) /\ fills \subseteq FillRow
        /\ \A r, s \in fills : r.fill = s.fill => r = s
        /\ \A y \in ClientIds : /\ orders[y].filled = QuantityOf(FillsOf(y))
                               /\ orders[y].notional = NotionalOf(FillsOf(y))
    BY DEF JournalInv, TablesAgree, TypeOK, FillsAttributed, FillRowsAgree
  <2>5. /\ IsFiniteSet(FillsOf(o)) /\ FillsOf(o) \subseteq FillRow /\ x \notin FillsOf(o)
    <3>1. FillsOf(o) \subseteq fills
      BY DEF FillsOf
    <3>2. x \notin fills
      BY <2>1, <2>2 DEF NewFill
    <3>. HIDE DEF x
    <3>. QED  BY <2>4, <3>1, <3>2, FS_Subset
  <2>6. /\ new.filled = QuantityOf(FillsOf(o) \cup {x})
        /\ new.notional = NotionalOf(FillsOf(o) \cup {x})
    <3>1. PICK rows : rows = FillsOf(o)
      OBVIOUS
    <3>2. /\ QuantityOf(rows \cup {x}) = QuantityOf(rows) + x.qty
          /\ NotionalOf(rows \cup {x}) = NotionalOf(rows) + x.price * x.qty
      <4>. HIDE DEF x
      <4>. QED  BY <2>2, <2>5, <3>1, SumsOfFills
    <3>. HIDE DEF x, new
    <3>. QED  BY <2>2, <2>3, <2>4, <3>1, <3>2
  <2>7. new \in Row
    <3>1. orders[o] \in Row
      BY DEF JournalInv, TablesAgree, TypeOK
    <3>2. NextSeq(o) \in Nat /\ total \in Nat /\ broker \in MaybeBroker /\ target \in OrderStates
      BY <2>2, <3>1 DEF Row, NextSeq, MergedBroker, OrderStates
    <3>3. notional \in Nat
      <4>1. PICK k : k = NotionalOf(FillsOf(o))
        OBVIOUS
      <4>2. k \in Nat
        BY <2>4, <3>1, <4>1 DEF Row
      <4>3. p * q \in Nat
        BY <2>2
      <4>4. k + p * q \in Nat
        BY <4>2, <4>3
      <4>. QED  BY <4>1, <4>4
    <3>. HIDE DEF total, target, notional, broker
    <3>. QED  BY <3>2, <3>3 DEF Row
  <2>. HIDE DEF total, target, notional, e, new, x
  <2>8. /\ orders' \in [ClientIds -> Row] /\ DOMAIN events' = ClientIds
        /\ \A y \in ClientIds : Len(events'[y]) <= MaxEvents
        /\ \A y \in ClientIds : y # o => orders'[y] = orders[y] /\ events'[y] = events[y]
    BY <2>1, <2>7, RowStored
  <2>9. orders'[o] = new
    BY <2>1 DEF JournalInv, TablesAgree, TypeOK
  <2>10. TypeOK'
    BY <2>1, <2>2, <2>8 DEF JournalInv, TablesAgree, TypeOK
  <2>11. /\ FillsOf(o)' = FillsOf(o) \cup {x}
         /\ \A y : y # o => FillsOf(y)' = FillsOf(y)
    BY <2>1, <2>2 DEF FillsOf
  <2>12. FillRowsAgree'
    <3>1. IsFiniteSet(fills')
      BY <2>1, <2>4, FS_AddElement
    <3>2. \A r, s \in fills' : r.fill = s.fill => r = s
      BY <2>1, <2>2, <2>4 DEF NewFill
    <3>3. ASSUME NEW y \in ClientIds
          PROVE  /\ orders'[y].filled = QuantityOf(FillsOf(y)')
                 /\ orders'[y].notional = NotionalOf(FillsOf(y)')
      BY <2>4, <2>6, <2>8, <2>9, <2>11
    <3>. QED  BY <3>1, <3>2, <3>3 DEF FillRowsAgree
  <2>13. ExternalFillsAttributed'
    <3>1. \A y \in ClientIds : BrokerKept(y)
      BY FillRows DEF JournalInv, LineageInv, TableStep
    <3>. SUFFICES ASSUME NEW r \in fills', Source[r.fill] # NoBroker
                  PROVE  /\ bindings[r.order] = Source[r.fill]
                         /\ orders'[r.order].broker = Source[r.fill]
                         /\ \A y \in ClientIds : bindings[y] = Source[r.fill] => y = r.order
      BY <2>1 DEF ExternalFillsAttributed
    <3>2. CASE r \in fills
      <4>1. r.order \in ClientIds
        BY <2>4, <3>2 DEF FillRow
      <4>2. /\ bindings[r.order] = Source[r.fill] /\ orders[r.order].broker = Source[r.fill]
            /\ \A y \in ClientIds : bindings[y] = Source[r.fill] => y = r.order
        BY <3>2 DEF JournalInv, TablesAgree, FillsAttributed, ExternalFillsAttributed
      <4>. QED  BY <3>1, <4>1, <4>2 DEF BrokerKept
    <3>3. CASE r = x
      <4>1. Source[f] = b /\ bindings[o] = b /\ b # NoBroker
        BY <2>1, <2>2, <3>3 DEF SourceBound
      <4>2. new.broker = b
        BY <2>1, <2>3, <4>1 DEF SameBroker, MergedBroker
      <4>3. \A y \in ClientIds : bindings[y] = b => y = o
        BY <4>1 DEF JournalInv, TablesAgree, FillsAttributed, BindingsUnique
      <4>. QED  BY <2>2, <2>9, <3>3, <4>1, <4>2, <4>3
    <3>. QED  BY <2>1, <3>2, <3>3
  <2>14. BindingsUnique'
    BY <2>1 DEF JournalInv, TablesAgree, FillsAttributed, BindingsUnique
  <2>15. ASSUME NEW y \in ClientIds PROVE OrderJournaled(y)'
    <3>1. CASE y = o
      BY <1>2, <3>1, FillJournal
    <3>2. CASE y # o
      <4>1. FillsOf(y)' = FillsOf(y)
        BY <2>11, <3>2
      <4>. QED  BY <2>1, <2>8, <3>2, <4>1, QuietOrder
    <3>. QED  BY <3>1, <3>2
  <2>. QED  BY <2>10, <2>12, <2>13, <2>14, <2>15 DEF TablesAgree, FillsAttributed
<1>. QED  BY <1>1, <1>2

-----------------------------------------------------------------------------
(* The invariant and what follows from it.                                 *)

\* The empty tables.
LEMMA JournalInit == Init => TablesAgree
<1>. SUFFICES ASSUME Init PROVE TablesAgree
  OBVIOUS
<1>1. /\ orders \in [ClientIds -> {Absent}] /\ events \in [ClientIds -> {<< >>}] /\ fills = {}
      /\ bindings \in [ClientIds -> {NoBroker}] /\ replacements = {}
  BY DEF Init
<1>2. Absent \in Row /\ Absent.state = "ABSENT" /\ Absent.filled = 0 /\ Absent.notional = 0
      /\ Absent.seq = 0
  BY DEF Absent, Row, MaybeBroker
<1>3. TypeOK
  <2>1. orders \in [ClientIds -> Row]
    BY <1>1, <1>2
  <2>. QED  BY <1>1, <2>1, MaxEventsAssumption DEF TypeOK, MaybeBroker
<1>4. FillsAttributed
  <2>1. QuantityOf({}) = 0 /\ NotionalOf({}) = 0
    BY SumEmpty DEF QuantityOf, NotionalOf
  <2>2. ASSUME NEW o \in ClientIds
        PROVE  FillsOf(o) = {} /\ orders[o].filled = 0 /\ orders[o].notional = 0
    BY <1>1, <1>2 DEF FillsOf
  <2>3. FillRowsAgree
    BY <1>1, <2>1, <2>2, FS_EmptySet DEF FillRowsAgree
  <2>. QED  BY <1>1, <2>3 DEF FillsAttributed, ExternalFillsAttributed, BindingsUnique
<1>5. ASSUME NEW o \in ClientIds PROVE OrderJournaled(o)
  <2>1. events[o] = << >> /\ bindings[o] = NoBroker /\ FillsOf(o) = {} /\ ~ Present(o)
        /\ orders[o].seq = 0
    BY <1>1, <1>2 DEF FillsOf, Present
  <2>2. Sequenced(<< >>) /\ Len(<< >>) = 0
    BY DEF Sequenced
  <2>. QED  BY <2>1, <2>2 DEF OrderJournaled, Journaled, RowsStand
<1>. QED  BY <1>3, <1>4, <1>5 DEF TablesAgree

\* Every call keeps the tables in agreement.
LEMMA JournalStep ==
  ASSUME JournalInv, [Next]_vars
  PROVE  TablesAgree'
<1>1. CASE UNCHANGED vars
  BY <1>1, QuietTables
<1>2. ASSUME NEW o \in ClientIds,
             \/ ApproveRisk(o) \/ (\E b \in MaybeBroker : Submitted(o, b))
             \/ SubmissionUncertain(o) \/ Reject(o) \/ Cancel(o)
      PROVE  TablesAgree'
  <2>1. NoBroker \in MaybeBroker
    BY DEF MaybeBroker
  <2>. QED  BY <1>2, <2>1, TransitionTables
              DEF ApproveRisk, Submitted, SubmissionUncertain, Reject, Cancel
<1>3. ASSUME NEW o \in ClientIds,
             \/ \E l \in Levels : Create(o, l)
             \/ \E b \in BrokerIds : BindBrokerIdentity(o, b) \/ BindBrokerEvidence(o, b)
             \/ \E n \in ClientIds, l \in Levels : ReplaceCancelled(o, n, l)
             \/ \E f \in FillIds, q \in 1..Qty[o], p \in Prices, b \in MaybeBroker :
                  Fill(o, f, q, p, b)
      PROVE  TablesAgree'
  BY <1>3, CreateTables, IdentityTables, EvidenceTables, ReplaceTables, FillTables
<1>. QED  BY <1>1, <1>2, <1>3 DEF Next

\* JournalInv is inductive.
LEMMA JournalInvariance == Spec => []JournalInv
<1>1. Init => TablesAgree
  BY JournalInit
<1>2. LineageInv /\ TablesAgree /\ [Next]_vars => TablesAgree'
  BY JournalStep DEF JournalInv
<1>3. LineageInv /\ TablesAgree <=> JournalInv
  BY DEF JournalInv
<1>. QED  BY <1>1, <1>2, <1>3, LineageInvariance, PTL DEF Spec

\* The tables keep their schema, and no journal outgrows its bound.
THEOREM TypeCorrect == Spec => []TypeOK
<1>1. JournalInv => TypeOK
  BY DEF JournalInv, TablesAgree
<1>. QED  BY <1>1, JournalInvariance, PTL

\* verify() accepts every order after any calls: the projection is what its journal replays
\* to, evidence, replacement and fill rows included.
THEOREM OrdersVerify == Spec => []EveryOrderVerifies
<1>1. JournalInv => EveryOrderVerifies
  <2>. SUFFICES ASSUME JournalInv, NEW o \in ClientIds, Present(o) PROVE Verify(o)
    BY DEF EveryOrderVerifies
  <2>1. /\ Sequenced(events[o]) /\ Len(events[o]) = orders[o].seq /\ Len(events[o]) > 0
        /\ events[o][1].kind = "CREATED"
        /\ Replays(o, events[o], orders[o], bindings[o], Replacement(o), FillsOf(o))
    BY DEF JournalInv, TablesAgree, OrderJournaled, Journaled
  <2>2. PICK rs : /\ RunOf(rs, o, events[o], bindings[o], Replacement(o))
                  /\ Fits(rs[Len(events[o])], orders[o], bindings[o], FillsOf(o))
    BY <2>1 DEF Replays
  <2>3. Replay(o) = rs[Len(events[o])]
    BY <2>1, <2>2, ReplayIsRun
  <2>4. PICK r : r = Replay(o)
    OBVIOUS
  <2>5. Fits(r, orders[o], bindings[o], FillsOf(o))
    BY <2>2, <2>3, <2>4
  <2>6. orders[o].state = "FILLED" => orders[o].filled = Qty[o]
    BY DEF JournalInv, LineageInv, FilledAgreesWithState
  <2>7. FillHistoryMatches(o, r)
    BY <2>5 DEF Fits, FillHistoryMatches
  <2>8. events[o] # << >>
    BY <2>1
  <2>. QED  BY <2>1, <2>4, <2>5, <2>6, <2>7, <2>8 DEF Verify, Fits
<1>. QED  BY <1>1, JournalInvariance, PTL

\* A fill id counts once, and an external one on the only order whose evidence names its
\* broker order.
THEOREM OneOwner == Spec => []ExecutionsHaveOneOwner
<1>1. JournalInv => ExecutionsHaveOneOwner
  BY DEF JournalInv, TablesAgree, FillsAttributed, FillRowsAgree,
     ExecutionsHaveOneOwner, FillsCountedOnce
<1>. QED  BY <1>1, JournalInvariance, PTL

-----------------------------------------------------------------------------
(* Chains of replacements.                                                 *)

\* The recursive function behind LineageFilled.
ChainSums(g, n) ==
  g = [d \in 0..n |->
         [o \in ClientIds |->
            orders[o].filled + (IF d = 0 THEN 0 ELSE SumOf(g[d - 1], Replacement(o)))]]

\* What LineageFilled stands for.
LEMMA LineageDef ==
  LineageFilled = (CHOOSE g : ChainSums(g, Cardinality(ClientIds)))[Cardinality(ClientIds)]
BY DEF LineageFilled, ChainSums

\* The function exists, along chains of any length.
LEMMA ChainSumsExist ==
  ASSUME NEW n \in Nat
  PROVE  \E g : ChainSums(g, n)
<1>. DEFINE Bad == {k \in 0..n : ~ \E g : ChainSums(g, k)}
<1>1. Bad = {}
  <2>. SUFFICES ASSUME Bad # {} PROVE FALSE
    OBVIOUS
  <2>1. PICK k \in Bad : \A j \in Bad : k <= j
    <3>1. Bad \subseteq 0..n
      OBVIOUS
    <3>. HIDE DEF Bad
    <3>. QED  BY <3>1, LeastOf
  <2>2. k \in 0..n /\ ~ \E g : ChainSums(g, k)
    OBVIOUS
  <2>3. k # 0
    <3>. DEFINE h == [d \in 0..0 |-> [o \in ClientIds |-> orders[o].filled + 0]]
    <3>1. ChainSums(h, 0)
      <4>1. \A d \in 0..0 : d = 0
        OBVIOUS
      <4>2. h = [d \in 0..0 |-> [o \in ClientIds |->
                    orders[o].filled + (IF d = 0 THEN 0 ELSE SumOf(h[d - 1], Replacement(o)))]]
        <5>. DEFINE R(d, o) == SumOf(h[d - 1], Replacement(o))
        <5>1. h = [d \in 0..0 |-> [o \in ClientIds |->
                      orders[o].filled + (IF d = 0 THEN 0 ELSE R(d, o))]]
          <6>. HIDE DEF R
          <6>. QED  BY <4>1
        <5>. QED  BY <5>1
      <4>. HIDE DEF h
      <4>. QED  BY <4>2 DEF ChainSums
    <3>. HIDE DEF h
    <3>. QED  BY <2>2, <3>1
  <2>4. k - 1 \in 0..n /\ k - 1 \notin Bad
    <3>. HIDE DEF Bad
    <3>. QED  BY <2>1, <2>2, <2>3
  <2>5. PICK g : ChainSums(g, k - 1)
    BY <2>4
  <2>. DEFINE Above(f, d) == [o \in ClientIds |->
                orders[o].filled + (IF d = 0 THEN 0 ELSE SumOf(f[d - 1], Replacement(o)))]
              h == [d \in 0..k |-> IF d = k THEN Above(g, k) ELSE g[d]]
  <2>6. g = [d \in 0..(k - 1) |-> Above(g, d)]
    BY <2>5 DEF ChainSums
  <2>7. ASSUME NEW d \in 0..k
        PROVE  h[d] = Above(h, d)
    <3>1. d # 0 => d - 1 \in 0..k /\ d - 1 # k
      <4>. HIDE DEF Bad, h, Above
      <4>. QED  BY <2>2
    <3>2. d # 0 => h[d - 1] = g[d - 1]
      <4>. HIDE DEF Bad, Above
      <4>. QED  BY <3>1
    <3>3. Above(h, d) = Above(g, d)
      <4>. HIDE DEF Bad, h
      <4>. QED  BY <3>2
    <3>4. d # k => d \in 0..(k - 1)
      <4>. HIDE DEF Bad, h, Above
      <4>. QED  BY <2>2
    <3>5. d # k => g[d] = Above(g, d)
      <4>. HIDE DEF Bad, h, Above
      <4>. QED  BY <2>6, <3>4
    <3>6. h[d] = IF d = k THEN Above(g, k) ELSE g[d]
      <4>. HIDE DEF Bad, Above
      <4>. QED  OBVIOUS
    <3>. HIDE DEF Bad, h, Above
    <3>. QED  BY <3>3, <3>5, <3>6
  <2>8. ChainSums(h, k)
    <3>1. h = [d \in 0..k |-> h[d]]
      <4>. HIDE DEF Bad, Above
      <4>. QED  OBVIOUS
    <3>2. h = [d \in 0..k |-> Above(h, d)]
      <4>. HIDE DEF Bad, h, Above
      <4>. QED  BY <2>7, <3>1
    <3>. HIDE DEF h
    <3>. QED  BY <3>2 DEF ChainSums
  <2>. HIDE DEF h
  <2>. QED  BY <2>2, <2>8
<1>2. n \in 0..n
  OBVIOUS
<1>. QED  BY <1>1, <1>2

\* An order has at most one replacement, within what it left unfilled.
LEMMA OneReplacement ==
  ASSUME LineageInv, NEW o \in ClientIds
  PROVE  \/ Replacement(o) = {}
         \/ \E n \in ClientIds : Replacement(o) = {n} /\ Qty[n] <= Qty[o] - orders[o].filled
<1>1. CASE \A k \in replacements : k.original # o
  BY <1>1 DEF Replacement
<1>2. CASE \E k \in replacements : k.original = o
  <2>1. PICK k \in replacements : k.original = o
    BY <1>2
  <2>2. /\ k.replacement \in ClientIds
        /\ Qty[k.replacement] <= Qty[o] - orders[o].filled
        /\ \A j \in replacements : j.original = o => j = k
    BY <2>1 DEF LineageInv, RowsTyped, Link, ReplacementFitsRemainder
  <2>3. Replacement(o) = {k.replacement}
    BY <2>1, <2>2 DEF Replacement
  <2>. QED  BY <2>2, <2>3
<1>. QED  BY <1>1, <1>2

\* No chain fills more than its first order asked for.
LEMMA ChainWithin ==
  ASSUME LineageInv, NEW n \in Nat, NEW g, ChainSums(g, n)
  PROVE  \A o \in ClientIds : g[n][o] <= Qty[o]
<1>. DEFINE Good(d) == \A o \in ClientIds : g[d][o] \in Nat /\ g[d][o] <= Qty[o]
            Bad == {d \in 0..n : ~ Good(d)}
<1>1. ASSUME NEW d \in 0..n, NEW o \in ClientIds
      PROVE  g[d][o] = orders[o].filled + (IF d = 0 THEN 0 ELSE SumOf(g[d - 1], Replacement(o)))
  BY DEF ChainSums
<1>2. \A o \in ClientIds : /\ orders[o].filled \in Nat /\ Qty[o] \in Nat
                           /\ orders[o].filled <= Qty[o]
  BY QtyAssumption DEF LineageInv, RowsTyped, FilledAgreesWithState
<1>3. Bad = {}
  <2>. SUFFICES ASSUME Bad # {} PROVE FALSE
    OBVIOUS
  <2>1. PICK d \in Bad : \A j \in Bad : d <= j
    <3>1. Bad \subseteq 0..n
      OBVIOUS
    <3>. HIDE DEF Bad
    <3>. QED  BY <3>1, LeastOf
  <2>2. d \in 0..n /\ ~ Good(d)
    OBVIOUS
  <2>3. d # 0 => Good(d - 1)
    <3>1. d # 0 => d - 1 \in 0..n /\ d - 1 \notin Bad
      <4>. HIDE DEF Bad, Good
      <4>. QED  BY <2>1, <2>2
    <3>. HIDE DEF Good
    <3>. QED  BY <3>1
  <2>. HIDE DEF Bad
  <2>4. ASSUME NEW o \in ClientIds
        PROVE  g[d][o] \in Nat /\ g[d][o] <= Qty[o]
    <3>1. CASE d = 0
      BY <1>1, <1>2, <2>2, <3>1
    <3>2. CASE d # 0 /\ Replacement(o) = {}
      <4>1. SumOf(g[d - 1], Replacement(o)) = 0
        BY <3>2, SumEmpty
      <4>2. g[d][o] = orders[o].filled + 0
        BY <1>1, <2>2, <3>2, <4>1
      <4>. QED  BY <1>2, <4>2
    <3>3. CASE d # 0 /\ Replacement(o) # {}
      <4>1. PICK m \in ClientIds :
              Replacement(o) = {m} /\ Qty[m] <= Qty[o] - orders[o].filled
        BY <3>3, OneReplacement
      <4>2. g[d - 1][m] \in Nat /\ g[d - 1][m] <= Qty[m]
        BY <2>3, <3>3
      <4>3. SumOf(g[d - 1], {m}) = g[d - 1][m]
        <5>1. PICK f : f = g[d - 1]
          OBVIOUS
        <5>2. f[m] \in Int
          BY <4>2, <5>1
        <5>. QED  BY <5>1, <5>2, SumSingle
      <4>4. g[d][o] = orders[o].filled + g[d - 1][m]
        <5>1. g[d][o] = orders[o].filled + SumOf(g[d - 1], Replacement(o))
          BY <1>1, <2>2, <3>3
        <5>2. PICK R : R = Replacement(o)
          OBVIOUS
        <5>3. R = {m}
          BY <4>1, <5>2
        <5>4. SumOf(g[d - 1], R) = g[d - 1][m]
          BY <4>3, <5>3
        <5>. QED  BY <5>1, <5>2, <5>4
      <4>. QED  BY <1>2, <4>1, <4>2, <4>4
    <3>. QED  BY <3>1, <3>2, <3>3
  <2>. QED  BY <2>2, <2>4
<1>4. n \in 0..n
  OBVIOUS
<1>. QED  BY <1>3, <1>4

\* Cancel-and-replace never fills more than the first order asked for, however long the
\* chain of replacements.
THEOREM LineageBounded == Spec => []LineageWithinOriginal
<1>1. LineageInv => LineageWithinOriginal
  <2>. SUFFICES ASSUME LineageInv, NEW o \in ClientIds PROVE LineageFilled[o] <= Qty[o]
    BY DEF LineageWithinOriginal
  <2>1. PICK n : n = Cardinality(ClientIds)
    OBVIOUS
  <2>2. n \in Nat
    BY <2>1, ClientsAssumption, FS_CardinalityType
  <2>3. PICK h : h = CHOOSE g : ChainSums(g, n)
    OBVIOUS
  <2>4. ChainSums(h, n)
    BY <2>2, <2>3, ChainSumsExist
  <2>5. LineageFilled = h[n]
    BY <2>1, <2>3, LineageDef
  <2>. QED  BY <2>2, <2>4, <2>5, ChainWithin
<1>. QED  BY <1>1, LineageInvariance, PTL

=============================================================================
