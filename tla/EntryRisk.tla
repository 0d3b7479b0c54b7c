------------------------------ MODULE EntryRisk ------------------------------
(***************************************************************************)
(* What a paper entry may cost and leave behind: the plan's quantity       *)
(* (portfolio/sizing.py), the stress test (intelligence/adversarial.py),   *)
(* the warden with its firewall, book and overnight limits (risk/warden.py,*)
(* risk/policy.py, risk/overnight.py).                                     *)
(*                                                                         *)
(* A book is a record: units held, marks, cash, the equity the day opened  *)
(* with and its peak.  All symbols are Indian equities without derivatives;*)
(* limits are whole percents of equity.                                    *)
(***************************************************************************)
EXTENDS FiniteSums

CONSTANTS Symbols,
          Sectors,           \* the operator's groups: a set of sets of symbols
          StopFraction,      \* plan.stop_loss_fraction
          TradeRisk,         \* plan.per_trade_risk_fraction
          PositionCap,       \* plan.max_position_fraction
          TradeCap,          \* max_single_trade_notional
          CashReserve,       \* plan.cash_reserve_fraction
          GrossCap,          \* max_gross_exposure
          SectorCap,         \* max_sector_exposure
          OvernightCap,      \* max_overnight_gross
          DailyLoss,         \* max_daily_loss
          Drawdown,          \* max_drawdown
          StressTolerance,   \* tolerance_fraction
          BookTolerance,     \* book_tolerance_fraction
          MaxOpenPositions,  \* directives.max_open_positions
          ProbeFraction      \* exploration_notional_fraction

ASSUME LimitsAssumption ==
    /\ IsFiniteSet(Symbols)
    /\ \A group \in Sectors : group \subseteq Symbols
    /\ \A cap \in {StopFraction, TradeRisk, PositionCap, TradeCap, GrossCap, SectorCap,
                   OvernightCap, DailyLoss, Drawdown, StressTolerance, BookTolerance} :
          cap \in 1 .. 100
    /\ CashReserve \in 0 .. 100
    /\ ProbeFraction \in 0 .. 5 \cup {10}
    /\ MaxOpenPositions \in Nat

WorstShock == 8                  \* CRISIS_GAP_DOWN_8PCT

ExposureOf(b, s) == b.held[s] * b.mark[s]
Exposures(b) == [s \in Symbols |-> ExposureOf(b, s)]
Gross(b, S) == SumOf(Exposures(b), S)
GrossOf(b) == Gross(b, Symbols)
EquityOf(b) == b.cash + GrossOf(b)
OpenIn(b) == {s \in Symbols : b.held[s] > 0}

\* amount is no more than cap percent of the book's equity.
Within(amount, cap, b) == 100 * amount <= cap * EquityOf(b)

-----------------------------------------------------------------------------
\* quantity_from_plan: four caps, the tightest wins.
PlanQuantity(b, price) ==
    LET equity == EquityOf(b)
        deployable == (equity * (100 - CashReserve)) \div 100 - GrossOf(b)
    IN IF price <= 0 \/ equity <= 0 THEN 0
       ELSE Max({0, Min({(equity * TradeRisk) \div (price * StopFraction),
                         (equity * PositionCap) \div (100 * price),
                         (equity * TradeCap) \div (100 * price),
                         (IF deployable < 0 THEN 0 ELSE deployable) \div price})})

\* probe_quantity: a fraction of the book, whole units, possibly none.
ProbeQuantity(b, price) == (EquityOf(b) * ProbeFraction) \div (100 * price)

\* _apply_conflict: half of a conflicted entry, never less than one unit.
ConflictSized(quantity, conflicted) ==
    IF quantity <= 0 THEN 0
    ELSE IF conflicted THEN Max({1, quantity \div 2}) ELSE quantity

-----------------------------------------------------------------------------
\* RiskFirewall's two circuit breakers, on the worse of the day's and the peak's loss.
LossHalt(b) ==
    \/ 100 * (b.peak - EquityOf(b)) >= Drawdown * b.peak
    \/ 100 * (EquityOf(b) - b.opening) <= -(DailyLoss * EquityOf(b))

\* RiskDeskAgent: what the plan would not allow, said before anything is proposed.
DeskBreach(b, s) ==
    LET used == b.opening - EquityOf(b)
        fallen == b.peak - EquityOf(b)
    IN \/ used > 0 /\ 100 * used >= DailyLoss * EquityOf(b)
       \/ fallen > 0 /\ 100 * fallen >= Drawdown * b.peak
       \/ 100 * GrossOf(b) + PositionCap * EquityOf(b) > GrossCap * EquityOf(b)
       \/ 100 * ExposureOf(b, s) >= PositionCap * EquityOf(b)

\* AdversarialStressAgent: the trade alone and the book it would leave, under the gap.
StressPasses(b, notional) ==
    /\ WorstShock * notional <= StressTolerance * EquityOf(b)
    /\ WorstShock * (GrossOf(b) + notional) <= BookTolerance * EquityOf(b)

\* RiskFirewall.evaluate for an order that adds exposure.
FirewallAdmits(b, s, notional) ==
    /\ EquityOf(b) > 0
    /\ ~LossHalt(b)
    /\ GrossOf(b) + notional <= EquityOf(b)
    /\ Within(notional, LET least == {TradeCap, PositionCap} IN Min(least), b)
    /\ Within(ExposureOf(b, s) + notional, PositionCap, b)
    /\ Within(GrossOf(b) + notional, GrossCap, b)

\* Defect: the groups are judged on the book before the order.
DefectSectorAdmits(b, s, notional) ==
    \A group \in Sectors : Within(Gross(b, group), SectorCap, b)

\* BookRiskFirewall._group_breach over the projected book.
SectorAdmits(b, s, notional) ==
    \A group \in Sectors :
        Within(Gross(b, group) + (IF s \in group THEN notional ELSE 0), SectorCap, b)

\* OvernightExposureFirewall, judged at the instant the evidence describes.
OvernightAdmits(b, phase, notional) ==
    /\ phase = "open"
    /\ Within(GrossOf(b) + notional, OvernightCap, b)

\* RiskWarden.evaluate for a BUY.
WardenAdmits(b, s, quantity, price, phase) ==
    LET notional == quantity * price
    IN /\ quantity > 0 /\ price > 0
       /\ Within(GrossOf(b) + notional, GrossCap, b)        \* one country
       /\ FirewallAdmits(b, s, notional)
       /\ SectorAdmits(b, s, notional)
       /\ OvernightAdmits(b, phase, notional)
=============================================================================
