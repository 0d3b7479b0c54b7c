------------------------- MODULE CapitalContribution -------------------------
(***************************************************************************)
(* A deposit into a paper account (execution/capital_contribution.py) next *)
(* to the process that measures it: PortfolioTracker (execution/portfolio  *)
(* .py) reads the cash, records the day's equity and records the peak in   *)
(* three separate transactions, and keeps the peak it last saw in memory.  *)
(* The deposit is one transaction of another process.                      *)
(*                                                                         *)
(* Fills and marks are one figure, gained: what trading made of the        *)
(* account so far, marks included.  It depends on no deposit, so every     *)
(* stored figure has a counterpart without deposits.  Refusals of          *)
(* malformed input and the reconciliation, which a deposit never breaks    *)
(* (PaperLedger), are left out.                                            *)
(***************************************************************************)
EXTENDS Integers, FiniteSets, FiniteSetsExt

CONSTANTS
  FirstCapital,
  References,   \* names an operator gives to deposits
  Deposits,     \* amounts
  Gains,        \* what trading may have made of the account
  LastUtcDay

ASSUME ContributionAssumption ==
  /\ FirstCapital \in Nat \ {0}
  /\ Deposits \subseteq Nat \ {0}
  /\ Gains \subseteq Int /\ 0 \in Gains
  /\ LastUtcDay \in Nat \ {0}

VARIABLES
  utcDate,
  gained,
  funds,       \* paper_accounts: starting_capital and peak_equity
  daily,       \* risk_daily_equity
  recorded,    \* paper_capital_contributions: the amount under a reference
  tracker,     \* the running PortfolioTracker and the measurement under way
  reported,    \* its last PortfolioMetrics
  history      \* gains that were measured, where the days opened, and the days whose
               \* opening rests on a measurement that a deposit overtook

contributionVars ==
  <<utcDate, gained, funds, daily, recorded, tracker, reported, history>>

NoPeak == 0
NoDay == [opening |-> "none"]
NothingReported == [equity |-> -1]

\* PortfolioTracker.__init__: the stored peak, or the capital.
Started == [step |-> "idle",
            peak |-> IF funds.peak = NoPeak THEN funds.capital ELSE funds.peak]

ContributionInit ==
  /\ utcDate = 1
  /\ gained = 0
  /\ funds = [capital |-> FirstCapital, peak |-> NoPeak]
  /\ daily = [n \in 1..LastUtcDay |-> NoDay]
  /\ recorded = [r \in References |-> 0]
  /\ tracker = [step |-> "idle", peak |-> FirstCapital]
  /\ reported = NothingReported
  /\ history = [high |-> 0, sure |-> 0, last |-> 0, torn |-> FALSE,
                opened |-> [n \in 1..LastUtcDay |-> 0], unsure |-> {}]

Cash == funds.capital + gained

-----------------------------------------------------------------------------
(* PortfolioTracker._metrics_locked.                                       *)

ReadCash ==
  /\ tracker.step = "idle"
  /\ tracker' = [step |-> "read", peak |-> tracker.peak, date |-> utcDate,
                 equity |-> Cash, capital |-> funds.capital, gain |-> gained]
  /\ UNCHANGED <<utcDate, gained, funds, daily, recorded, reported, history>>

Before(date) == {n \in 1..date - 1 : daily[n] # NoDay}
LatestDay(date) == \A n \in 1..LastUtcDay : n > date => daily[n] = NoDay

\* A deposit came between the reading of the cash and this step.
DepositSince == tracker.capital # funds.capital

\* record_equity: a day opens with what the last one ended with.
RecordEquity ==
  LET date == tracker.date
      opening == IF daily[date] # NoDay THEN daily[date].opening
                 ELSE IF Before(date) # {} THEN daily[Max(Before(date))].last
                 ELSE tracker.equity
  IN /\ tracker.step = "read"
     /\ daily' = [daily EXCEPT ![date] = [opening |-> opening, last |-> tracker.equity]]
     /\ tracker' = [step |-> "peak", peak |-> tracker.peak, opening |-> opening,
                    equity |-> tracker.equity, capital |-> tracker.capital,
                    gain |-> tracker.gain]
     /\ history' = [history EXCEPT
          !.last = IF LatestDay(date) THEN tracker.gain ELSE @,
          !.torn = IF LatestDay(date) THEN DepositSince ELSE @,
          !.opened[date] = IF daily[date] # NoDay THEN @
                          ELSE IF Before(date) # {} THEN history.last ELSE tracker.gain,
          !.unsure = IF daily[date] = NoDay
                        /\ (IF Before(date) # {} THEN history.torn ELSE DepositSince)
                     THEN @ \cup {date} ELSE @]
     /\ UNCHANGED <<utcDate, gained, funds, recorded, reported>>

Higher(x, y) == IF x > y THEN x ELSE y

\* record_peak_equity, for an equity above the peak in memory, and the report.
RecordPeak ==
  LET rises == tracker.equity > tracker.peak
      stored == IF rises THEN Higher(funds.peak, tracker.equity) ELSE funds.peak
      seen == IF rises THEN stored ELSE tracker.peak
  IN /\ tracker.step = "peak"
     /\ funds' = [funds EXCEPT !.peak = stored]
     /\ tracker' = [step |-> "idle", peak |-> seen]
     /\ reported' = [equity |-> tracker.equity, peak |-> seen, opening |-> tracker.opening,
                     gain |-> tracker.gain, torn |-> DepositSince]
     /\ history' = [history EXCEPT
          !.high = Higher(@, tracker.gain),
          !.sure = IF DepositSince THEN @ ELSE Higher(@, tracker.gain)]
     /\ UNCHANGED <<utcDate, gained, daily, recorded>>

-----------------------------------------------------------------------------
(* contribute.                                                             *)

\* Defect: an account that never marked a peak is left without one.
PeakIfStored(amount) == IF funds.peak = NoPeak THEN NoPeak ELSE funds.peak + amount

\* Without a stored peak the drawdown is measured from the capital.
NewPeak(amount) ==
  (IF funds.peak = NoPeak THEN funds.capital ELSE funds.peak) + amount

\* Defect: only the opening of the day rises.
OpeningOnly(amount) ==
  IF daily[utcDate] # NoDay THEN [daily[utcDate] EXCEPT !.opening = @ + amount] ELSE NoDay

\* Today's row rises; without one the day opens here with the deposit.
RaisedDay(amount) ==
  IF daily[utcDate] # NoDay
  THEN [opening |-> daily[utcDate].opening + amount, last |-> daily[utcDate].last + amount]
  ELSE IF Before(utcDate) = {} THEN NoDay
  ELSE LET last == daily[Max(Before(utcDate))].last + amount
       IN [opening |-> last, last |-> last]

\* A reference that is recorded writes nothing, with the same amount or another.
Contribute(r, amount) ==
  /\ recorded[r] = 0
  /\ recorded' = [recorded EXCEPT ![r] = amount]
  /\ funds' = [capital |-> funds.capital + amount, peak |-> NewPeak(amount)]
  /\ daily' = [daily EXCEPT ![utcDate] = RaisedDay(amount)]
  /\ history' = [history EXCEPT
       !.opened[utcDate] = IF daily[utcDate] = NoDay THEN history.last ELSE @,
       !.unsure = IF daily[utcDate] = NoDay /\ history.torn THEN @ \cup {utcDate} ELSE @]
  /\ UNCHANGED <<utcDate, gained, tracker, reported>>

Repeat(r, amount) == recorded[r] # 0 /\ UNCHANGED contributionVars

-----------------------------------------------------------------------------

\* Fills and marks; the tracker measures under the broker's lock, marks move.
MarksMove ==
  /\ \E to \in Gains : gained' = to
  /\ UNCHANGED <<utcDate, funds, daily, recorded, tracker, reported, history>>

Midnight ==
  /\ utcDate < LastUtcDay
  /\ utcDate' = utcDate + 1
  /\ UNCHANGED <<gained, funds, daily, recorded, tracker, reported, history>>

\* The process restarts, wherever its measurement was.
RestartTracker ==
  /\ tracker' = Started
  /\ UNCHANGED <<utcDate, gained, funds, daily, recorded, reported, history>>

ContributionNext ==
  \/ ReadCash \/ RecordEquity \/ RecordPeak
  \/ \E r \in References, amount \in Deposits : Contribute(r, amount) \/ Repeat(r, amount)
  \/ MarksMove \/ Midnight \/ RestartTracker

ContributionSpec == ContributionInit /\ [][ContributionNext]_contributionVars

-----------------------------------------------------------------------------
(* Properties.                                                             *)

\* The durable peak is the capital, deposits included, and the highest gain
\* that was measured.  Only a measurement that a deposit overtook may be
\* missing from it.
PeakCarriesDeposits ==
  LET peak == IF funds.peak = NoPeak THEN funds.capital ELSE funds.peak
  IN history.sure <= peak - funds.capital /\ peak - funds.capital <= history.high

CapitalIsDeposits ==
  LET contributed == {r \in References : recorded[r] # 0}
  IN funds.capital = FirstCapital + MapThenSumSet(LAMBDA r : recorded[r], contributed)

\* Today opened with what was measured last, the deposits since then added.  Only a day
\* that opens from a measurement a deposit overtook may stand on the older equity; the
\* next measurement ends that, for every later day.
DayCarriesDeposits ==
  daily[utcDate] # NoDay /\ utcDate \notin history.unsure =>
    daily[utcDate].opening = funds.capital + history.opened[utcDate]

\* DepositsAreCapital: a deposit raises the stored figures the drawdown and the day's loss
\* are measured from by exactly its amount, once per reference, whenever it falls between
\* the steps of a measurement, a midnight or a restart.  A measurement it overtook may be
\* missing from the peak, and a day that opens from one stands on the older equity; the peak
\* a running tracker keeps in memory is DrawdownKept's (capital_contribution.py contribute,
\* risk_state.py record_equity, paper_ledger.py record_peak_equity).
DepositsAreCapital == PeakCarriesDeposits /\ DayCarriesDeposits /\ CapitalIsDeposits

\* DrawdownKept: the drawdown a running tracker reports is the one trading caused.  The
\* deposit says that the rupee drawdown already suffered is kept rather than erased
\* (capital_contribution.py:13-14).
DrawdownKept ==
  reported # NothingReported /\ ~reported.torn =>
    reported.peak - reported.equity >= history.sure - reported.gain
=============================================================================
