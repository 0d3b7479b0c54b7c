------------------------------ MODULE PaperDay ------------------------------
(***************************************************************************)
(* The trading daemon over the paper ledger: a protection thread that      *)
(* sweeps every second, a cadence that analyses for minutes and then       *)
(* submits under the broker lock, an operator with a halt file and a       *)
(* resume command in another process, and a process that may restart.      *)
(*                                                                         *)
(* Each action is what one thread does while it holds the broker lock.     *)
(* The prices move and the clock advances between any two of them.         *)
(***************************************************************************)
EXTENDS ExitEngine

CONSTANTS
  Decisions,        \* the decision ids 1, 2, ... the swarm may reach
  NoOrder,
  Prices,           \* the marks a feed may show
  Sizes,            \* the sizes a proposal may have, by side
  MaxTime,
  MaxFills,
  Scaling,          \* allow_position_scaling
  MaxOpen,          \* max_open_positions
  DayOf,            \* the UTC date of each time
  FlattenAt,        \* times inside the pre-close flatten window
  UnpricedLimit,    \* unprotected_halt_seconds
  FailureLimit,     \* halt_after_consecutive_failures
  DrawdownPercent,
  DailyLossPercent,
  MaxRestarts

ASSUME DayAssumption ==
  /\ Prices \subseteq Nat \ {0} /\ \A side \in {"BUY", "SELL"} : Sizes[side] \subseteq Nat \ {0}
  /\ {MaxTime, MaxFills, MaxOpen, UnpricedLimit, MaxRestarts} \subseteq Nat
  /\ {FailureLimit, DrawdownPercent, DailyLossPercent} \subseteq Nat \ {0}
  /\ Scaling \in BOOLEAN
  /\ \A t \in 1 .. MaxTime :
       /\ Phase[t] \in {"regular", "auction", "closed"} /\ CloseOf[t] \in Nat
       /\ DayOf[t] \in Nat \ {0}

VARIABLES
  d,          \* the ledger and the durable risk state
  e,          \* the exit engine
  halt,       \* the in-memory kill switch: "none", "operator" or "fault"
  file,       \* the operator halt file exists
  now, marks,
  unpriced,   \* when each blind symbol's halt clock started, 0 while it is paused
  pc, order,  \* the cadence: "idle", "analysing" or "submitting" its order
  began,      \* the time run_once was called with, 0 while the cadence is idle
  failures,   \* consecutive failed cadence ticks
  restarts,
  ticked      \* nothing has changed since the last protection tick

vars == <<d, e, halt, file, now, marks, unpriced, pc, order, began, failures, restarts, ticked>>
cadence == <<pc, order, began, failures>>
world == <<now, marks, file, restarts>>

Init ==
  /\ d = EmptyLedger
  /\ e = FreshEngine
  /\ halt = "none" /\ file = FALSE
  /\ now = 1
  /\ marks \in [Symbols -> Prices]
  /\ unpriced = [s \in Symbols |-> 0]
  /\ pc = "idle" /\ order = NoOrder /\ began = 0
  /\ failures = 0 /\ restarts = 0 /\ ticked = FALSE
-----------------------------------------------------------------------------
(* The kill switch.  h carries the memory switch and the ledger.           *)

\* engage_kill_switch: returns at once when the switch is already engaged.
Engage(h) ==
  IF h.halt # "none" THEN h ELSE [h EXCEPT !.halt = "fault", !.d.durable = "fault"]

EngageIf(h, fault) == IF fault THEN Engage(h) ELSE h

\* apply_operator_halt: the file engages, its absence releases what the file engaged.
ApplyOperatorHalt(h) ==
  IF file /\ h.halt = "none" THEN [h EXCEPT !.halt = "operator", !.d.durable = "operator"]
  ELSE IF ~file /\ h.halt = "operator" THEN [h EXCEPT !.halt = "none", !.d.durable = "none"]
  ELSE h

Switch == [halt |-> halt, d |-> d]
Install(h) == halt' = h.halt /\ d' = h.d
-----------------------------------------------------------------------------
(* The protection thread.                                                  *)

\* prices_expected: the regular session without the closing auction.
PricesExpected == Phase[now] = "regular"

\* Defect: every tick starts the clock again.
ClocksFromNow(blind) == [s \in Symbols |-> IF s \notin blind \/ ~PricesExpected THEN 0 ELSE now]
\* _check_protection_reachable: the halt clock of a symbol runs only while prices are expected.
Clocks(blind) ==
  [s \in Symbols |-> IF s \notin blind \/ ~PricesExpected THEN 0
                     ELSE IF unpriced[s] # 0 THEN unpriced[s] ELSE now]
Unreachable(clocks) ==
  \E s \in Symbols : clocks[s] # 0 /\ now - clocks[s] >= UnpricedLimit

\* The breakers of protection_tick over the marked book.
Breaker(x) ==
  LET equity == Equity(x, marks)
  IN \/ (x.peak - equity) * 100 >= x.peak * DrawdownPercent
     \/ x.daily.opening > 0
        /\ (x.daily.opening - equity) * 100 >= x.daily.opening * DailyLossPercent

\* The sweep of a tick, and the pre-close flatten after it, in the closing auction too.
Exits(jammed) ==
  LET swept == Sweep(d, e, marks, now, jammed)
  IN IF now \in FlattenAt /\ Phase[now] # "closed" THEN Flatten(swept, marks, now, jammed)
     ELSE swept

\* metrics(at): the marked book, recorded under the date of the caller's own time.
Marked(x, at) == RecordEquity(x, DayOf[at], Equity(x, marks))

\* What latches a halt: coverage, a failed exit, an unreachable holding, an overdue gap, the
\* books after a fill, a breaker.
Fault(done, books) ==
  \/ ~Covered(d) \/ done.failed \/ Unreachable(Clocks(done.e.blind))
  \/ GapOverdue(done.e, now)
  \/ done.filled /\ ~Matched(books)
  \/ Breaker(books)

\* protection_tick, with the halt file read first.
ProtectionTick(jammed) ==
  LET done == Exits(jammed)
      books == Marked(done.d, now)
  IN /\ Install(EngageIf(ApplyOperatorHalt([Switch EXCEPT !.d = books]), Fault(done, books)))
     /\ e' = done.e
     /\ unpriced' = Clocks(done.e.blind)
     /\ ticked' = TRUE
     /\ UNCHANGED <<world, cadence>>
-----------------------------------------------------------------------------
(* The cadence.                                                            *)

\* run_once up to the analysis: halt file and a sweep, the figures before the decision, then
\* the AI calls start.
CadenceStart(jammed) ==
  LET h == ApplyOperatorHalt(Switch)
      swept == Sweep(h.d, e, marks, now, jammed)
  IN /\ pc = "idle"
     /\ Install([h EXCEPT !.d = Marked(swept.d, now)])
     /\ e' = swept.e
     /\ pc' = "analysing" /\ began' = now
     /\ ticked' = FALSE
     /\ UNCHANGED <<world, unpriced, order, failures>>

\* Decision ids are minted in order; an earlier one may be proposed again.
NextDecisions == {k \in Decisions : k <= Cardinality(d.claims) + 1}

\* The swarm answers with a proposal priced at the mark it analysed.
Propose(s, side, qty, key) ==
  /\ pc = "analysing"
  /\ Phase[now] # "closed"
  /\ marks[s] # 0
  /\ order' = [sym |-> s, side |-> side, qty |-> qty, price |-> marks[s],
               stop |-> IF side = "BUY" THEN marks[s] - 1 ELSE 0,
               target |-> IF side = "BUY" THEN marks[s] + 1 ELSE 0,
               key |-> key, until |-> 0, protective |-> FALSE, at |-> began]
  /\ pc' = "submitting"
  /\ ticked' = FALSE
  /\ UNCHANGED <<d, e, halt, world, unpriced, began, failures>>

\* Nothing is left to decide, or nothing was: off hours, a hold, a veto before the broker.
\* The tick reconciles the books and ends with its closing figures.
Hold ==
  /\ pc = "analysing"
  /\ Install([EngageIf(Switch, ~Matched(d)) EXCEPT !.d = Marked(@, began)])
  /\ pc' = "idle" /\ began' = 0 /\ failures' = 0
  /\ ticked' = FALSE
  /\ UNCHANGED <<e, world, unpriced, order>>

\* _handle_cadence_failure: the tick raised; enough of them in a row latch a halt.
CadenceFails ==
  /\ pc = "analysing"
  /\ failures' = Min({failures + 1, FailureLimit})  \* read by the comparison below alone
  /\ Install(EngageIf(Switch, failures' >= FailureLimit))
  /\ pc' = "idle" /\ began' = 0
  /\ ticked' = FALSE
  /\ UNCHANGED <<e, world, unpriced, order>>

\* The entry checks of _pilot_pre_submit that latch a halt when they fail.
EntryChecks(h) == EngageIf(EngageIf(h, ~Covered(h.d)), ~Matched(h.d))

\* _pilot_pre_submit: session, a fresh mark still at the reference, and every holding priced.
MarketRefuses(o) ==
  \/ Phase[now] = "closed"
  \/ marks[o.sym] # o.price
  \/ \E s \in Open(d) : marks[s] = 0

\* Defect: the cooldown is the one the analysis saw, not the one an exit has recorded since.
CoolingThen(x, o) == o.at < o.until
\* _in_exit_cooldown, judged at the instant the analysis observed.
Cooling(x, o) == o.at < x.cooldown[o.sym]

\* _execute_proposal_locked: what may still be bought or sold now that the lock is held.
SwarmRefuses(h, o) ==
  LET held == h.d.pos[o.sym].qty
  IN IF o.side = "SELL" THEN held = 0
     ELSE \/ h.halt # "none"
          \/ held > 0 /\ ~Scaling
          \/ held = 0 /\ Cardinality(Open(h.d)) >= MaxOpen
          \/ Cooling(h.d, o)

\* A SELL never exceeds the holding.
Clamped(x, o) ==
  IF o.side = "SELL" THEN [o EXCEPT !.qty = Min({@, x.pos[o.sym].qty})] ELSE o

\* The locked half of a decision: the snapshot, the checks, then _execute with its lock
\* retries.  The tick goes on with its next instrument.
Submit(locked) ==
  LET h1 == ApplyOperatorHalt([Switch EXCEPT !.d = Marked(@, now)])
      h2 == IF order.side = "BUY" THEN EntryChecks(h1) ELSE h1
      refused == MarketRefuses(order) \/ SwarmRefuses(h2, order) \/ locked
  IN /\ pc = "submitting"
     /\ Len(d.ledger) + Cardinality(Open(d)) + 2 <= MaxFills  \* room for the exits
     /\ Install(IF refused THEN h2 ELSE [h2 EXCEPT !.d = Execute(@, Clamped(@, order))])
     /\ pc' = "analysing" /\ order' = NoOrder
     /\ ticked' = FALSE
     /\ UNCHANGED <<e, world, unpriced, began, failures>>
-----------------------------------------------------------------------------
(* The world.                                                              *)

\* The clock advances and each price moves, stands or goes quiet.
Advance ==
  /\ now < MaxTime
  /\ now' = now + 1
  /\ marks' \in [Symbols -> Prices \union {0}]
  /\ ticked' = FALSE
  /\ UNCHANGED <<d, e, halt, file, unpriced, cadence, restarts>>

TouchHaltFile ==
  /\ ~file /\ file' = TRUE
  /\ ticked' = FALSE
  /\ UNCHANGED <<d, e, halt, now, marks, unpriced, cadence, restarts>>

\* _resume in the CLI's own process: the file goes, and an operator halt in the database with it;
\* a fault halt goes only under the named override.  The daemon's memory is out of its reach.
Resume(override) ==
  /\ file \/ d.durable # "none"
  /\ file' = FALSE
  /\ d' = IF d.durable = "operator" \/ override THEN [d EXCEPT !.durable = "none"] ELSE d
  /\ ticked' = FALSE
  /\ UNCHANGED <<e, halt, now, marks, unpriced, cadence, restarts>>

\* The process restarts: memory is rebuilt and the switch is read back from the database.
Restart ==
  /\ restarts < MaxRestarts
  /\ restarts' = restarts + 1
  /\ e' = FreshEngine
  /\ halt' = d.durable
  /\ unpriced' = [s \in Symbols |-> 0]
  /\ pc' = "idle" /\ order' = NoOrder /\ began' = 0 /\ failures' = 0
  /\ ticked' = FALSE
  /\ UNCHANGED <<d, file, now, marks>>

\* Every step but the protection thread's and the operator's resume.
Others ==
  \/ \E jammed \in SUBSET Symbols : CadenceStart(jammed)
  \/ \E s \in Symbols, side \in {"BUY", "SELL"}, key \in NextDecisions :
       \E qty \in Sizes[side] : Propose(s, side, qty, key)
  \/ Hold
  \/ CadenceFails
  \/ \E locked \in BOOLEAN : Submit(locked)
  \/ Advance
  \/ TouchHaltFile
  \/ Restart

Next ==
  \/ \E jammed \in SUBSET Symbols : ProtectionTick(jammed)
  \/ \E override \in BOOLEAN : Resume(override)
  \/ Others

\* The protection thread loops on a one-second timer whatever the cadence does, so a tick
\* follows whatever else happens, and time passes.
TickTaken == ticked' = TRUE

Spec ==
  /\ Init /\ [][Next]_vars
  /\ WF_ticked(TickTaken)
  /\ WF_now(Advance)
-----------------------------------------------------------------------------
(* Properties.                                                             *)

\* Replaying the fills gives the cash, the positions with their levels and the margin in the
\* tables, after any mix of entries, trims, liquidations and refused or locked executions.
BooksReplay == Matched(d)

\* At most one fill carries the key of a decision.
OneFillPerDecision ==
  \A i, j \in DOMAIN d.ledger :
    d.ledger[i].key # NoKey /\ d.ledger[i].key = d.ledger[j].key => i = j

\* A protective exit sells what the earlier fills left open.
ExitsCloseTheWhole ==
  \A n \in DOMAIN d.ledger :
    d.ledger[n].protective => PriorPosition(d, n).qty = d.ledger[n].qty

\* However often a decision is submitted, over restarts too, it fills once; and a protective
\* exit never trims a position and never sells one twice, with the cadence selling beside it
\* (paper_ledger.py execute, protective_exits.py _liquidate).
NothingTradesTwice == OneFillPerDecision /\ ExitsCloseTheWhole

BoughtNow(s) ==
  /\ Len(d'.ledger) > Len(d.ledger)
  /\ Last(d'.ledger).sym = s /\ Last(d'.ledger).side = "BUY"

\* No entry is filled in a symbol while its re-entry cooldown runs, even one the swarm had
\* decided on before the stop was hit, and none while a halt is in the database.
NoEntryAfterExitOrHalt ==
  [][\A s \in Symbols : BoughtNow(s) => now >= d.cooldown[s] /\ d.durable = "none"]_vars

SoldByExit(s) ==
  /\ Len(d'.ledger) > Len(d.ledger)
  /\ Last(d'.ledger).sym = s /\ Last(d'.ledger).protective

\* Without the gap monitor the mark a holding is judged by moves only in steps inside the
\* band, and a liquidation away from the flatten window is priced within it too: a re-based
\* quote never books a loss, not even when the feed keeps showing it.
RebasedQuoteNeverSells ==
  [][\A s \in Open(d) :
       /\ e'.last[s] # 0 => ~Discontinuity(e.last[s], e'.last[s])
       /\ SoldByExit(s) /\ now \notin FlattenAt => ~Discontinuity(e.last[s], marks[s])]_vars

\* A holding the sweep cannot price while prices are expected ends priced, sold, halted or in
\* a closed market: a dead feed never leaves the book unprotected and trading.
UnpricedHoldingHalts ==
  \A s \in Symbols :
    (unpriced[s] # 0 /\ unpriced[s] + UnpricedLimit <= MaxTime)
      ~> (halt # "none" \/ unpriced[s] = 0)

\* The margin held for a contract is what its open units asked for, however it is trimmed and
\* liquidated: the replay repeats the stored amounts and would repeat a wrong release.
MarginFollowsUnits == \A s \in Futures : d.reserved[s] = MarginPerUnit * d.pos[s].qty

OpenStepStays ==
  [][\A s \in Open(d) \cap Open(d') :
       e.open[s] # 0 /\ e'.open[s] = 0 => Declared(s, now) \/ restarts' # restarts]_vars

OverdueStepHalts ==
  \A s \in Symbols :
    (e.open[s] # 0 /\ e.open[s] + ResolveWithin <= MaxTime)
      ~> (halt # "none" \/ e.open[s] = 0)

\* A price step the monitor could not explain stays open while the position is held, whatever
\* the next quotes look like: only a declared corporate action or a restart closes it.  One
\* that is still open when its deadline passes ends in a halt (overnight.py OvernightGapMonitor).
OpenStepAnswered == OpenStepStays /\ OverdueStepHalts

OpenedNow(s) == d.pos[s].qty = 0 /\ d'.pos[s].qty > 0

\* The mark the engine keeps for a symbol is comparable with the cost of the position now
\* opened in it, as _rebased says of the stored mark: the stop is never suspended for a step
\* that an earlier position of the symbol saw.
KeptMarkIsComparable ==
  [][\A s \in Symbols : OpenedNow(s) => ~Discontinuity(e.last[s], d'.pos[s].avg)]_vars
=============================================================================
