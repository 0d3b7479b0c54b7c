------------------------------ MODULE TickFeed ------------------------------
(***************************************************************************)
(* Quotes between the websocket and the decisions: TickBuffer              *)
(* (src/src/quant_ai/marketdata/ticker_stream.py) keeps the accepted ticks *)
(* of all symbols in one bounded deque and hands each on to                *)
(* TickBarAggregator (marketdata/live_feed.py), which rolls them into bars *)
(* that close with their window.  DaemonRunner._warm_intraday_history      *)
(* (daemon.py) seeds bars of the provider while the ticks already arrive,  *)
(* for a moment that was read before the provider was asked.               *)
(*                                                                         *)
(* A quote is its last price and its cumulative volume; malformed and      *)
(* crossed ones are the quotes outside SaneQuotes.  Listeners run under    *)
(* the lock of the buffer, so put is one step.  Counters of accepted and   *)
(* rejected ticks are left out.                                            *)
(***************************************************************************)
EXTENDS Integers, Sequences, FiniteSets, FiniteSetsExt, Functions, FiniteSums

CONSTANTS
  FeedSymbols,
  QuotesOf,     \* per symbol, the quotes a provider may send
  SaneQuotes,   \* those that tick_value_issue lets through
  WarmBar,      \* values of every bar the provider's history shows
  BarLength, DayLength,
  MaxTickAge,   \* CadenceMarketReader.max_tick_age
  BufferSize,   \* TickBuffer maxlen
  MaxBars,      \* TickBarAggregator max_bars
  MaxClock, MaxArrivals

\* Prices and volumes are whole, in their smallest unit; quotes that pass are not negative.
ASSUME FeedAssumption ==
  /\ {BarLength, DayLength} \subseteq Nat \ {0}
  /\ {MaxTickAge, MaxClock} \subseteq Nat
  /\ {BufferSize, MaxBars, MaxArrivals, WarmBar} \subseteq Int
  /\ \A s \in FeedSymbols : \A quote \in QuotesOf[s] \cap SaneQuotes :
       quote.price \in Nat /\ quote.volume \in Nat

VARIABLES
  instant,
  retained,   \* TickBuffer._ticks, oldest first
  latest,     \* TickBuffer._latest
  bars,       \* TickBarAggregator: its five dictionaries, per symbol
  warmUp,     \* the moment the warm-up was begun for, NotBegun or Over
  accepted    \* history: the ticks put accepted and what was sealed then

feedVars == <<instant, retained, latest, bars, warmUp, accepted>>

NoTick == [at |-> -1]
NoBar == [end |-> -1]
NotBegun == -1
Over == -2

FeedInit ==
  /\ instant = 0
  /\ retained = << >>
  /\ latest = [s \in FeedSymbols |-> NoTick]
  /\ bars = [s \in FeedSymbols |->
       [closed |-> << >>, forming |-> NoBar, volume |-> -1,
        observed |-> -1, sealed |-> -1]]
  /\ warmUp = NotBegun
  /\ accepted = << >>

-----------------------------------------------------------------------------
(* TickBarAggregator.                                                      *)

WindowStart(t) == t - (t % BarLength)
WindowEnd(t) == WindowStart(t) + BarLength
DateOf(t) == t \div DayLength

LastBars(series) ==
  SubSeq(series, Max({1, Len(series) - MaxBars + 1}), Len(series))

\* _close.
Closed(b) ==
  [b EXCEPT !.closed = LastBars(Append(@, b.forming)), !.forming = NoBar]

\* _roll: time has passed, with or without a tick.
Rolled(b, now) ==
  LET sealed == [b EXCEPT !.sealed = Max({@, WindowStart(now)})]
  IN IF b.forming # NoBar /\ b.forming.end <= now THEN Closed(sealed) ELSE sealed

\* _volume_delta: the counter is cumulative and starts again every session.
VolumeDelta(b, tick) ==
  IF \/ b.volume = -1 \/ tick.volume < b.volume
     \/ b.observed # -1 /\ DateOf(tick.at) # DateOf(b.observed)
  THEN 0 ELSE tick.volume - b.volume

\* Defect: only the order of the ticks is looked at.
OrderOnly(b, tick) == tick.at >= b.observed

\* A tick may not be older than the last one, nor fall in a sealed window.
Ingestible(b, tick) == tick.at >= b.observed /\ tick.at >= b.sealed

OpenBar(tick, volume) ==
  [end |-> WindowEnd(tick.at), open |-> tick.price, high |-> tick.price,
   low |-> tick.price, close |-> tick.price, volume |-> volume, warm |-> FALSE]

Extended(bar, tick, volume) ==
  [bar EXCEPT !.high = Max({@, tick.price}), !.low = Min({@, tick.price}),
              !.close = tick.price, !.volume = @ + volume]

\* ingest.
Ingested(b, tick) ==
  IF ~Ingestible(b, tick) THEN b
  ELSE LET delta == VolumeDelta(b, tick)
           later == b.forming # NoBar /\ b.forming.end <= WindowStart(tick.at)
           next == IF later THEN Closed(b) ELSE b
       IN [next EXCEPT
             !.volume = tick.volume,
             !.observed = tick.at,
             !.forming = IF @ = NoBar THEN OpenBar(tick, delta)
                         ELSE Extended(@, tick, delta)]

-----------------------------------------------------------------------------
(* TickBuffer.                                                             *)

\* Defect: an older tick of the symbol is let in.
AnyOrder(tick, now) == tick.at <= now /\ latest[tick.symbol] # tick

\* put refuses the future, the past of the symbol and the same tick again.
Acceptable(tick, now) ==
  /\ tick.at <= now
  /\ tick.at >= latest[tick.symbol].at
  /\ latest[tick.symbol] # tick

Put(s, quote, at) ==
  LET tick == [symbol |-> s, price |-> quote.price, volume |-> quote.volume, at |-> at]
  IN /\ quote \in SaneQuotes
     /\ Acceptable(tick, instant)
     /\ Len(accepted) < MaxArrivals
     /\ retained' = LET all == Append(retained, tick)
                    IN IF Len(all) > BufferSize THEN Tail(all) ELSE all
     /\ latest' = [latest EXCEPT ![s] = tick]
     /\ bars' = [bars EXCEPT ![s] = Ingested(@, tick)]
     /\ accepted' = Append(accepted, [tick |-> tick, sealed |-> bars[s].sealed])
     /\ UNCHANGED <<instant, warmUp>>

\* latest_at_or_before.
AtOrBefore(s, cutoff) ==
  IF latest[s].at <= cutoff THEN latest[s]
  ELSE LET old == {i \in DOMAIN retained : retained[i].symbol = s /\ retained[i].at <= cutoff}
       IN IF old = {} THEN NoTick ELSE retained[Max(old)]

\* CadenceMarketReader.market_data_status: the quote a decision is made on.
DecisionTick(s, cutoff) ==
  LET tick == AtOrBefore(s, cutoff)
  IN IF cutoff - tick.at > MaxTickAge THEN NoTick ELSE tick

-----------------------------------------------------------------------------
(* Readers and the warm-up.                                                *)

\* recent_closed_bars and closed_bars for a moment that may have passed.
Read(s, now) ==
  /\ now <= instant
  /\ bars' = [bars EXCEPT ![s] = Rolled(@, now)]
  /\ UNCHANGED <<instant, retained, latest, warmUp, accepted>>

\* start reads the clock and leaves the event loop to the streams.
BeginWarmUp ==
  /\ warmUp = NotBegun
  /\ warmUp' = instant
  /\ UNCHANGED <<instant, retained, latest, bars, accepted>>

HistoryBar(end) ==
  [end |-> end, open |-> WarmBar, high |-> WarmBar, low |-> WarmBar,
   close |-> WarmBar, volume |-> WarmBar, warm |-> TRUE]

\* The position of the bar of every window, the last one where a window has several.
ByEnd(series) ==
  [n \in {bar.end : bar \in Range(series)} |-> Max({i \in DOMAIN series : series[i].end = n})]

\* sorted: the i-th of a set of moments.
Nth(S, i) == CHOOSE n \in S : Cardinality({m \in S : m < n}) = i - 1

\* seed_candles: the provider's bars replace the ones of the same windows.
Seeded(b, history) ==
  LET kept == ByEnd(b.closed)
      seeds == {bar.end : bar \in history}
      ends == DOMAIN kept \cup seeds
      BarAt(n) == IF n \in seeds THEN HistoryBar(n) ELSE b.closed[kept[n]]
      series == [i \in 1..Cardinality(ends) |-> BarAt(Nth(ends, i))]
  IN IF history = {} THEN b
     ELSE [b EXCEPT !.closed = LastBars(series), !.sealed = Max({@, Max(ends)})]

\* _warm_intraday_history: the candles the provider shows as closed at the
\* moment the warm-up was begun for, any number of the last ones missing, are
\* seeded and counted with a read.  A failed request seeds nothing.
WarmUp ==
  /\ warmUp >= 0
  /\ warmUp' = Over
  /\ \E shown \in [FeedSymbols -> {n \in BarLength..MaxClock : n % BarLength = 0} \cup {0}] :
       /\ \A s \in FeedSymbols : shown[s] <= warmUp
       /\ bars' = [s \in FeedSymbols |->
            LET history == {HistoryBar(n) : n \in {m \in BarLength..shown[s] : m % BarLength = 0}}
            IN IF history = {} THEN bars[s]
               ELSE Rolled(Seeded(bars[s], history), warmUp)]
  /\ UNCHANGED <<instant, retained, latest, accepted>>

ClockTick ==
  /\ instant < MaxClock
  /\ instant' = instant + 1
  /\ UNCHANGED <<retained, latest, bars, warmUp, accepted>>

FeedNext ==
  \/ \E s \in FeedSymbols : \E quote \in QuotesOf[s], at \in 0..MaxClock : Put(s, quote, at)
  \/ \E s \in FeedSymbols, now \in 0..MaxClock : Read(s, now)
  \/ BeginWarmUp \/ WarmUp \/ ClockTick

FeedSpec == FeedInit /\ [][FeedNext]_feedVars

-----------------------------------------------------------------------------
(* Properties.                                                             *)

\* The arrivals of a symbol, those that came before their window was sealed and those of one
\* window among them, by position.
TicksOf(all, s) == {i \in DOMAIN all : all[i].tick.symbol = s}
Taken(all, s) == {i \in TicksOf(all, s) : all[i].tick.at >= all[i].sealed}
InWindow(all, s, end) == {i \in Taken(all, s) : WindowEnd(all[i].tick.at) = end}

\* What a tick adds to the volume of the one taken before it.
Gained(all, s, i) ==
  LET before == {j \in Taken(all, s) : j < i}
      last == all[Max(before)].tick
  IN IF before = {} \/ DateOf(all[i].tick.at) # DateOf(last.at) THEN 0
     ELSE Max({0, all[i].tick.volume - last.volume})

\* What the ticks of one window amount to.
BarOf(all, s, end) ==
  LET inside == InWindow(all, s, end)
      prices == {all[i].tick.price : i \in inside}
  IN IF inside = {} THEN NoBar ELSE
     [end |-> end, open |-> all[Min(inside)].tick.price, high |-> Max(prices),
      low |-> Min(prices), close |-> all[Max(inside)].tick.price,
      volume |-> SumOf([i \in inside |-> Gained(all, s, i)], inside), warm |-> FALSE]

BarsTellTheTicks ==
  \A s \in FeedSymbols : \A bar \in Range(bars[s].closed) :
    ~bar.warm => bar = BarOf(accepted, s, bar.end)

\* A decision formed for an earlier moment is given the newest quote of that
\* moment, never one that arrived for a later one while the models were asked
\* and never an older one because the newest was evicted.
AsOfReadsExact ==
  \A s \in FeedSymbols, cutoff \in 0..MaxClock :
    LET tick == DecisionTick(s, cutoff)
        known == {i \in TicksOf(accepted, s) : accepted[i].tick.at <= cutoff}
    IN tick # NoTick =>
         /\ known # {} /\ tick = accepted[Max(known)].tick
         /\ \A i \in known : accepted[i].tick.at <= tick.at

\* FeedHonest: what the readers are shown is what the accepted ticks say.  A bar
\* that ticks made is the summary of the ticks of its window that came before it
\* was sealed, however late others come, and a quote read for a past moment is the
\* newest of that moment (live_feed.py ingest, ticker_stream.py put and
\* latest_at_or_before, orchestration/cadence.py market_data_status).
FeedHonest == BarsTellTheTicks /\ AsOfReadsExact

\* ClosedMinutesStandOnce: the closed bars of a symbol follow each other in time and no
\* minute has two, as docs/TICK_INTEGRITY.md says of a clock-closed minute: it is sealed
\* and cannot be recreated by a later arrival (live_feed.py _close, seed_candles).
ClosedMinutesStandOnce ==
  \A s \in FeedSymbols : LET series == bars[s].closed IN
    \A i \in 2..Len(series) : series[i - 1].end < series[i].end
=============================================================================
