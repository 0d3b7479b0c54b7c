-------------------------- MODULE BrokerLifecycle --------------------------
(***************************************************************************)
(* Read-only broker evidence and the OMS: capture_kite and inspect_capture *)
(* of broker_observation.py, BrokerJournal of broker_journal.py and        *)
(* OmsBrokerLifecycleReconciler of broker_lifecycle.py (all under          *)
(* src/src/quant_ai/execution).                                            *)
(*                                                                         *)
(* The exchange executes an order trade by trade; the broker's order book  *)
(* and trade book show it later and not together.  A capture is four reads *)
(* of those books with the exchange running between them.  Captures wait,  *)
(* are applied late, twice or out of order, or grow too old to be applied. *)
(* The trades of an order have one lot each and are numbered as they       *)
(* execute; prices, identity columns and the hash chain are left out, as   *)
(* is the older fill-id format.                                            *)
(***************************************************************************)
EXTENDS Integers, Sequences, FiniteSets, FiniteSetsExt, SequencesExt,
        OrderLifecycle

CONSTANTS
  Orders,      \* OMS client order ids
  Lots,        \* requested quantity of each
  Placed,      \* the broker order id the broker gives to each, if it takes it
  NoId,        \* NULL broker order id
  MaxCaptures, \* bound: captures taken
  MaxHeld,     \* bound: captures waiting to be applied or journaled
  MaxDay       \* bound: broker days

ASSUME LotsAssumption == Lots \in [Orders -> Nat \ {0}]
ASSUME PlacedAssumption ==
  /\ \A o \in Orders : Placed[o] # NoId
  /\ \A o, p \in Orders : Placed[o] = Placed[p] => o = p

VARIABLES
  market,    \* per order, what the exchange did: status and lots executed
  book,      \* per order, the broker's order-book row, or Missing
  shown,     \* per order, lots the broker's trade book shows
  day,       \* broker day
  reading,   \* the books read so far by the capture under way
  held,      \* finished captures at hand
  taken,     \* captures finished
  oms,       \* the OMS row, evidence binding and fills of each order
  journal    \* the broker journal: captures in append order

brokerVars == <<market, book, shown, day>>
captureVars == <<reading, held, taken>>
lifecycleVars == <<brokerVars, captureVars, oms, journal>>

BrokerIds == {Placed[o] : o \in Orders}
BrokerTerminal == {"COMPLETE", "CANCELLED", "REJECTED"}
Missing == [status |-> "NONE", filled |-> 0]

LifecycleInit ==
  /\ market = [o \in Orders |-> [status |-> "NONE", done |-> 0]]
  /\ book = [o \in Orders |-> Missing]
  /\ shown = [o \in Orders |-> 0]
  /\ day = 1
  /\ reading = << >>
  /\ held = {}
  /\ taken = 0
  /\ oms = [o \in Orders |-> [state |-> "RISK_APPROVED", broker |-> NoId,
                              evidence |-> NoId, fills |-> {}]]
  /\ journal = << >>

Filled(row) == Cardinality(row.fills)

-----------------------------------------------------------------------------
(* The broker and the submitting adapter.                                  *)

\* The broker takes or refuses the order, and the adapter records the answer,
\* loses it, or dies before it records anything.
Submit(o) ==
  /\ market[o].status = "NONE"
  /\ oms[o].state = "RISK_APPROVED"
  /\ \E status \in {"OPEN", "REJECTED"} :
       market' = [market EXCEPT ![o].status = status]
  /\ \/ oms' = [oms EXCEPT ![o].state = "SUBMITTED", ![o].broker = Placed[o]]
     \/ oms' = [oms EXCEPT ![o].state = "SUBMISSION_UNCERTAIN"]
     \/ UNCHANGED oms
  /\ UNCHANGED <<book, shown, day, captureVars, journal>>

Trade(o) ==
  /\ market[o].status = "OPEN"
  /\ market' = [market EXCEPT ![o].done = @ + 1,
                              ![o].status = IF market[o].done + 1 = Lots[o]
                                            THEN "COMPLETE" ELSE "OPEN"]
  /\ UNCHANGED <<book, shown, day, captureVars, oms, journal>>

CancelAtBroker(o) ==
  /\ market[o].status = "OPEN"
  /\ market' = [market EXCEPT ![o].status = "CANCELLED"]
  /\ UNCHANGED <<book, shown, day, captureVars, oms, journal>>

\* The order book catches up with the exchange, on the day of the order.
ShowOrder(o) ==
  /\ market[o].status # "NONE"
  /\ day = 1
  /\ book' = [book EXCEPT ![o] = [status |-> market[o].status,
                                  filled |-> market[o].done]]
  /\ book' # book
  /\ UNCHANGED <<market, shown, day, captureVars, oms, journal>>

\* The trade book catches up by one trade.
ShowTrade(o) ==
  /\ day = 1
  /\ shown[o] < market[o].done
  /\ shown' = [shown EXCEPT ![o] = @ + 1]
  /\ UNCHANGED <<market, book, day, captureVars, oms, journal>>

\* Day orders lapse, nothing trades overnight, and the books start empty.
NewDay ==
  /\ day < MaxDay
  /\ day' = day + 1
  /\ market' = [o \in Orders |->
                  IF market[o].status = "OPEN"
                  THEN [market[o] EXCEPT !.status = "CANCELLED"] ELSE market[o]]
  /\ book' = [o \in Orders |-> Missing]
  /\ shown' = [o \in Orders |-> 0]
  /\ UNCHANGED <<captureVars, oms, journal>>

\* DurableOms.fill on one row: the lifecycle table and the open remainder.
Fillable(o, row, f) ==
  /\ f \notin row.fills
  /\ row.state \in {"SUBMITTED", "SUBMISSION_UNCERTAIN", "PARTIALLY_FILLED"}
  /\ Filled(row) < Lots[o]

WithFill(o, row, f) ==
  [row EXCEPT !.fills = @ \cup {f},
              !.state = IF Filled(row) + 1 = Lots[o] THEN "FILLED"
                                                     ELSE "PARTIALLY_FILLED"]

\* An execution callback records a trade under an id of its own, which says
\* nothing about the broker trade it came from.
Callback(o, i) ==
  LET f == [from |-> "CALLBACK", trade |-> i]
  IN /\ i <= market[o].done
     /\ oms[o].broker # NoId
     /\ Fillable(o, oms[o], f)
     /\ oms' = [oms EXCEPT ![o] = WithFill(o, @, f)]
     /\ UNCHANGED <<brokerVars, captureVars, journal>>

-----------------------------------------------------------------------------
(* capture_kite: orders, trades, orders, trades.                           *)

ReadBooks ==
  /\ taken < MaxCaptures
  /\ Cardinality(held) < MaxHeld
  /\ Len(reading) < 4
  /\ reading' = Append(reading,
                  IF Len(reading) % 2 = 0 THEN [at |-> day, rows |-> book]
                                          ELSE [at |-> day, rows |-> shown])
  /\ UNCHANGED <<brokerVars, held, taken, oms, journal>>

\* A capture that crosses the broker day is an error and is dropped.
FinishCapture ==
  /\ Len(reading) = 4
  /\ reading' = << >>
  /\ IF reading[1].at = day
     THEN /\ held' = held \cup
                {[number |-> taken + 1, day |-> day,
                  stable |-> /\ reading[1] = reading[3]
                             /\ reading[2] = reading[4],
                  orders |-> reading[3].rows, trades |-> reading[4].rows]}
          /\ taken' = taken + 1
     ELSE UNCHANGED <<held, taken>>
  /\ UNCHANGED <<brokerVars, oms, journal>>

\* _capture_age_issue: an old capture can no longer be applied.
Expire(c) ==
  /\ held' = held \ {c}
  /\ UNCHANGED <<brokerVars, reading, taken, oms, journal>>

Observed(c) == {o \in Orders : c.orders[o].status # "NONE"}

\* inspect_capture: what one capture shows must agree with itself.
Issues(c, o) ==
  \/ c.orders[o].status = "NONE" /\ c.trades[o] > 0
  \/ c.orders[o].filled # c.trades[o]
  \/ c.orders[o].status = "COMPLETE" /\ c.orders[o].filled # Lots[o]
  \/ c.orders[o].status = "REJECTED" /\ c.orders[o].filled > 0

Inspection(c) ==
  IF ~c.stable THEN "changing"
  ELSE IF \E o \in Orders : Issues(c, o) THEN "issues"
  ELSE IF Observed(c) = {} THEN "empty" ELSE "consistent"

-----------------------------------------------------------------------------
(* OmsBrokerLifecycleReconciler.reconcile.                                 *)

\* The order the observation is about, per OMS order, or NoId.
Bound(o, supplied) ==
  IF oms[o].broker # NoId THEN oms[o].broker ELSE supplied[o]

Candidates(c, supplied) ==
  {o \in Orders :
     \/ oms[o].state \notin Terminal
     \/ oms[o].broker \in {Placed[p] : p \in Observed(c)}
     \/ oms[o].broker # NoId /\ c.day = 1
     \/ supplied[o] # NoId}

\* The orders the capture has a row for; the others stay unresolved.
Matched(c, supplied) ==
  {o \in Candidates(c, supplied) :
     \E p \in Observed(c) : Placed[p] = Bound(o, supplied)}

BrokerRow(c, b) == CHOOSE p \in Orders : Placed[p] = b

KnownTrades(o) == {f.trade : f \in {g \in oms[o].fills : g.from = "KITE"}}

\* Executions of the capture that have no fill under their own id.
Unseen(c, o, p) ==
  IF c.orders[p].filled = Filled(oms[o]) THEN {}
  ELSE 1..c.trades[p] \ KnownTrades(o)

\* Defect: new executions are taken whatever the OMS already counted.
LineageAssumed(c, o, p) == TRUE

\* The new executions must explain the difference exactly: fills recorded
\* under other ids could be the same trades.
LineageExact(c, o, p) ==
  \/ c.orders[p].filled = Filled(oms[o])
  \/ Cardinality(Unseen(c, o, p)) = c.orders[p].filled - Filled(oms[o])

\* What makes the observation refuse the whole pass.
Refusal(c, supplied, o, p) ==
  \/ \E q \in Candidates(c, supplied) \ {o} :
       Bound(q, supplied) = Bound(o, supplied)
  \/ oms[o].broker # NoId /\ supplied[o] \notin {NoId, oms[o].broker}
  \/ Lots[o] # Lots[p]
  \/ oms[o].evidence \notin {NoId, Placed[p]}
  \/ Filled(oms[o]) > c.orders[p].filled
  \/ ~(KnownTrades(o) \subseteq 1..c.trades[p])
  \/ ~LineageExact(c, o, p)
  \/ oms[o].state = "FILLED" /\ c.orders[p].status # "COMPLETE"
  \/ /\ oms[o].state \in {"CANCELLED", "REJECTED"}
     /\ c.orders[p].status # oms[o].state

\* Defect: the broker's terminal status is taken before its executions.
AppliedStatusFirst(c, o, p) ==
  [oms[o] EXCEPT !.evidence = Placed[p], !.broker = Placed[p],
                 !.state = IF c.orders[p].status = "CANCELLED"
                           THEN "CANCELLED" ELSE @]

\* One order: bind the evidence and the broker id, then the executions, then
\* the broker's own terminal status.
Applied(c, o, p) ==
  LET row      == oms[o]
      known    == [row EXCEPT
                     !.evidence = Placed[p], !.broker = Placed[p],
                     !.state = IF @ \in {"RISK_APPROVED", "SUBMISSION_UNCERTAIN"}
                               THEN "SUBMITTED" ELSE @]
      fills    == {[from |-> "KITE", trade |-> i] : i \in Unseen(c, o, p)}
      filled   == IF fills = {} THEN known
                  ELSE [known EXCEPT
                          !.fills = @ \cup fills,
                          !.state = IF Filled(row) + Cardinality(fills) = Lots[o]
                                    THEN "FILLED" ELSE "PARTIALLY_FILLED"]
  IN IF /\ c.orders[p].status \in {"CANCELLED", "REJECTED"}
        /\ filled.state \notin Terminal
     THEN [filled EXCEPT !.state = c.orders[p].status] ELSE filled

\* An OMS call that raises rolls the whole observation back.
Raises(c, o, p) ==
  \/ Filled(oms[o]) + Cardinality(Unseen(c, o, p)) > Lots[o]
  \/ Unseen(c, o, p) # {} /\ oms[o].state \in Terminal
  \/ /\ c.orders[p].status = "COMPLETE"
     /\ Applied(c, o, p).state # "FILLED"

\* Supplied bindings name the broker order a submission really became; a
\* reviewer may also confuse two orders, if their economics tell them apart.
Bindings ==
  {s \in [Orders -> BrokerIds \cup {NoId}] :
     \A o, p \in Orders : s[o] = Placed[p] => o = p \/ Lots[o] # Lots[p]}

Reconcile(c, supplied) ==
  LET matched == Matched(c, supplied)
      of(o) == BrokerRow(c, Bound(o, supplied))
  IN /\ Inspection(c) \in {"consistent", "empty"}
     /\ \A o \in matched : /\ ~Refusal(c, supplied, o, of(o))
                           /\ ~Raises(c, o, of(o))
     /\ oms' = [o \in Orders |-> IF o \in matched THEN Applied(c, o, of(o))
                                                  ELSE oms[o]]
     /\ UNCHANGED <<brokerVars, captureVars, journal>>

-----------------------------------------------------------------------------
(* BrokerJournal.append and replay.                                        *)

\* Defect: only the duplicate is recognised, not an older capture.
AnyChronology(c) == TRUE

\* A capture may not start before the journal's last one finished.
AfterHead(c) == \A h \in Range(journal) : h.number < c.number

AppendCapture(c) ==
  /\ c \notin Range(journal)
  /\ AfterHead(c)
  /\ journal' = Append(journal, c)
  /\ UNCHANGED <<brokerVars, captureVars, oms>>

ReplayStart0 ==
  [day |-> 0, rows |-> [o \in Orders |-> Missing],
   trades |-> [o \in Orders |-> 0], top |-> [o \in Orders |-> 0],
   ended |-> [o \in Orders |-> Missing], issues |-> {}]

\* The temporal comparison of one capture with the day so far.
TemporalIssues(r, c) ==
  UNION {
    (IF r.rows[o] # Missing /\ c.orders[o] = Missing
       THEN {"previously_observed_order_missing"} ELSE {})
    \cup (IF c.trades[o] < r.trades[o]
            THEN {"previously_observed_trade_missing"} ELSE {})
    \cup (IF r.rows[o] # Missing /\ c.orders[o].filled < r.top[o]
            THEN {"filled_quantity_regressed"} ELSE {})
    \cup (IF r.ended[o] # Missing /\ c.orders[o] # r.ended[o]
            THEN {"terminal_order_changed"} ELSE {})
    : o \in Orders}

\* What the day starts from: nothing, with a note of what was left open.
DayStart(r, c) ==
  IF c.day = r.day THEN r
  ELSE [ReplayStart0 EXCEPT
          !.day = c.day,
          !.issues = r.issues \cup
             (IF \E o \in Orders : /\ r.rows[o] # Missing
                                   /\ r.rows[o].status \notin BrokerTerminal
              THEN {"day_boundary_unresolved_orders"} ELSE {})]

\* replay: an unstable capture is never compared nor learned from.
Learn(r, c) ==
  IF Inspection(c) = "changing" THEN r
  ELSE [r EXCEPT
          !.issues = @ \cup TemporalIssues(r, c),
          !.rows = [o \in Orders |-> IF c.orders[o] = Missing THEN @[o]
                                     ELSE c.orders[o]],
          !.trades = [o \in Orders |-> Max({@[o], c.trades[o]})],
          !.top = [o \in Orders |-> Max({@[o], c.orders[o].filled})],
          !.ended = [o \in Orders |->
                       IF @[o] = Missing /\ c.orders[o].status \in BrokerTerminal
                       THEN c.orders[o] ELSE @[o]]]

ReplayJournal ==
  FoldLeft(LAMBDA r, c : Learn(DayStart(r, c), c), ReplayStart0, journal)

-----------------------------------------------------------------------------
BrokerNext ==
  \/ \E o \in Orders :
       \/ Submit(o) \/ Trade(o) \/ CancelAtBroker(o)
       \/ ShowOrder(o) \/ ShowTrade(o)
  \/ NewDay
  \/ ReadBooks \/ FinishCapture

OmsNext ==
  \/ \E o \in Orders : \E i \in 1..Lots[o] : Callback(o, i)
  \/ \E c \in held : \/ Expire(c)
                     \/ \E s \in Bindings : Reconcile(c, s)

JournalNext == \E c \in held : AppendCapture(c)

LifecycleNext == BrokerNext \/ OmsNext \/ JournalNext

LifecycleSpec == LifecycleInit /\ [][LifecycleNext]_lifecycleVars

-----------------------------------------------------------------------------
(* Properties.                                                             *)

\* An observation never counts a trade the OMS already counted, whether it
\* was recorded from an earlier capture or by a callback under another id.
TradesCountedOnce ==
  [][\A o \in Orders : \A f \in oms'[o].fills \ oms[o].fills :
       f.from = "KITE" => \A g \in oms[o].fills : g.trade # f.trade
    ]_oms

\* An observation closes an order only with everything the exchange executed
\* counted: no trade shows up later for a cancelled or rejected OMS order.
ClosedWithBroker ==
  \A o \in Orders :
    oms[o].state \in {"CANCELLED", "REJECTED"} =>
      /\ market[o].status = oms[o].state
      /\ market[o].done = Filled(oms[o])

\* The journal of an honest broker replays without a regression, however late
\* its captures are appended: the only remark left is an order that was open
\* in the last capture of its day.
HonestJournalReplays == ReplayJournal.issues \subseteq {"day_boundary_unresolved_orders"}

\* BrokerRecordsAgree: neither the order management system nor the capture journal ends up
\* at odds with what the broker did, however captures are torn, delayed and repeated
\* (broker_lifecycle.py reconcile, broker_journal.py replay).
BrokerRecordsAgree == ClosedWithBroker /\ HonestJournalReplays
=============================================================================
