# Verification of the Pramana paper-trading core

TLA+ modules, TLC configurations and TLAPS proofs for `quant_ai`, a paper-only
trading platform: how ticks become bars and a decision, how a decision is judged
again when its answer arrives, how an approved order becomes a paper fill, how
that fill reaches the order journal, the program journal and the books exactly
once although no transaction spans two of these stores, how holdings are
protected meanwhile, and how the records survive crashes, restores and the
processes that write beside them.

Paths below are relative to `src/src/quant_ai/` unless they say otherwise.

## 1. The system

Agents and models propose a trade, deterministic risk code approves or vetoes
it, and an execution layer records it. Everything that must survive a crash
lives in SQLite files or in files that are linked or renamed into place:

| Component | State it keeps | Operations | Interacts with |
|---|---|---|---|
| Order lifecycle (`orders/state.py`) | none | the transition table | every order path |
| Durable OMS (`orders/oms.py`) | `oms_orders` (projection), `oms_events` (journal), `oms_fills`, `oms_broker_evidence_bindings`, `oms_replacements` | create, approve, submitted, submission_uncertain, bind identity / evidence, fill, cancel, reject, replace_cancelled, verify | coordinator, swarm runtime, broker lifecycle, paper recovery |
| Program journal (`execution/program.py`) | `execution_programs`, `execution_program_slices` | create, claim_slice, mark_filled_unaccounted, mark_executed, mark_failed, recovery_required | coordinator, shared risk |
| Paper ledger (`execution/paper_ledger.py`) | fills, cash, positions, margin, submission keys, cooldowns, evidence | execute, sell_protected, submit_with_evidence, receipts | coordinator, swarm runtime, protective exits |
| Accounting journal (`accounting/journal.py`, `trading.py`) | double-entry transactions | post, atomic, verify | coordinator, mirror |
| Accounting mirror (`accounting/protective.py`) | none | reconcile | ledger (reads), accounting (writes) |
| Coordinator (`execution/institutional.py`) | in-memory request context only | prepare, execute_due, reconcile_accounting | all of the above |
| Shared risk (`execution/shared_risk*.py`) | reservations, releases, ledger-side admission witnesses | bind, reserve, check, cancel_unclaimed | program journal, paper ledger |
| Protective exits, gap monitor (`execution/protective_exits.py`, `overnight.py`) | last marks, open steps, cooldowns | sweep, flatten | paper ledger, daemon |
| Daemon (`execution/daemon.py`, `daemon.py`, `cli.py`) | halt, failure and blind-holding counters | protection tick, cadence, halt file, resume, restart | everything |
| Swarm runtime (`agents/swarm_runtime.py`) | none | judge, submit, direct dispatch | OMS, ledger |
| Decision making (`intelligence/pipeline.py`, `agents/atlas.py`, `risk/`, `portfolio/`) | probes of the session | evidence, consensus, overlay, gates, sizing, warden | feed, AI budget, daemon |
| AI budget (`llm/budget.py`, `llm/spend.py`) | per-scope and total counters, tickets | reserve, dispatch, finish | LLM clients |
| Live feed (`marketdata/ticker_stream.py`, `live_feed.py`) | tick buffer, bars, socket generation | put, warm-up, supervise | daemon, decisions |
| Paper OMS recovery, bundles (`orders/paper_recovery.py`, `operations/recovery_bundle.py`) | recovery records, copies | inspect, recover, capture | OMS, ledger |
| Broker lifecycle (`execution/broker_lifecycle.py`, `broker_journal.py`) | captured evidence | capture, reconcile, replay | OMS |
| Operator recovery (`operations/institutional_operator.py`) | request / outcome records | apply | coordinator |
| Risk state, deposits (`execution/risk_state.py`, `portfolio.py`, `capital_contribution.py`) | day's opening equity, peak, kill switch, contributions | record_equity, record_peak_equity, contribute | warden, ledger |
| Outcomes and learning (`analytics/outcome_resolver.py`, `feedback.py`, `specialist_skill.py`) | outcomes of journal rows, feedback events, weekly reports | resolve, refresh, publish | decision journal, ledger |
| Session renewal (`operations/zerodha_renewal.py`) | the deployment's `.env` | publish_to_env | operator, broker |

What is hard in it:

* **Several stores, no common transaction.** One slice takes nine commits in the
  order claim, OMS create / approve / submitted, ledger fill, OMS fill, journal
  mark, posting, journal finish; an AI call walks three ledgers; an admission
  commits its witness before what it witnesses. The process can die, a call can
  raise or return early after any of them.
* **Several processes and threads.** The stores are shared files. `execute_due`
  and `reconcile_accounting` of different processes interleave commit by commit;
  the protection thread sells beside a cadence that analyses for minutes; socket
  callbacks act on a connection that was replaced after they looked.
* **Uncertain answers.** "An exception from the submit call is not proof that
  no commit occurred" (`execution/institutional.py:837`): recovery must look
  for the receipt, never submit again.
* **Stale state.** A proposal is formed on a snapshot minutes old; a mark
  outlives the quote or the position it described; a peak is kept in memory
  while another process raises the stored one.
* **Redelivery and reordering.** Fills, cancels, captures, ticks and late returns
  come in any order and more than once.
* **Loss and restoration.** The program journal can be restored from an older
  backup, or be lost, while the ledger lives on.

`PROJECT.json` lists every component, modelled or not, and every hazard at its
line with the properties that cover it.

## 2. Modules

| Module | Models |
|---|---|
| `OrderLifecycle` | the transition table of `orders/state.py` |
| `DurableOms` | `orders/oms.py`: one action per method, `verify()` as a replay |
| `ProgramJournal` | `execution/program.py`: the journal's transactions as action pieces |
| `PaperExecution` | the coordinator over all four stores; EXTENDS `ProgramJournal`, `OrderLifecycle` |
| `SliceOutcome` | what execution promises of one child order |
| `SharedRisk` | the loss budget of several programs and its witness in the ledger; EXTENDS `ProgramJournal` |
| `TradingBooks` | the double-entry journal against the ledger, posted by the coordinator and by the mirror |
| `PaperLedger` | `execution/paper_ledger.py`: one fill as one transaction over all its tables, and the replay |
| `ExitEngine` | protective exits and the overnight gap monitor; EXTENDS `PaperLedger` |
| `PaperDay` | the daemon: protection thread, cadence, operator, restart; EXTENDS `ExitEngine` |
| `HaltLatch` | `PaperDay` with the history of reported faults |
| `Specialists`, `Consensus`, `EntryRisk` | evidence of a tick; the CIO, gates and exploration; sizing and limits |
| `DecisionCycle` | one decision from tick to journal row; EXTENDS `Consensus`, `EntryRisk` |
| `AiBudget` | the token and dollar ledgers and the calls that walk them |
| `TickFeed` | the tick buffer, bars and warm-up |
| `StreamSupervisor` | sockets, callbacks, the event loop and the supervisor |
| `BrokerLifecycle` | broker captures against the OMS, and the capture journal |
| `PaperRecovery` | the direct paper path, its reviewed recovery, recovery bundles; EXTENDS `OrderLifecycle` |
| `OperatorRecovery` | the operator's request log |
| `Interruptions` | what the paper path, its bundle and the operator's log promise together; EXTENDS the two before |
| `CapitalContribution` | deposits beside the tracker that measures equity |
| `DecisionOutcomes` | outcomes of entries, feedback and the engine rebuilt from it |
| `WeeklySkill` | the weekly policy of several daemons |
| `SessionRenewal` | publication of a renewed broker session |
| `MCDurableOms`, `MCPaperExecution`, `MCPaperDay`, `MCHaltLatch`, `MCDecision`, `MCRecovery` | small instances for TLC; the last two put parts side by side that share no state, and `part` says which of them moves |
| `FiniteSums` | the sum of a function over a finite set, as the budgets use it |
| `FiniteSumTheorems` | lemmas about those sums |
| `PaperExecutionProofs`, `DurableOmsProofs`, `BrokerProofs` | theorems about the module each is named for |
| `PaperDayProofs` | theorems about `PaperDay` with its ledger and exit engine |
| `DecisionProofs` | theorems about `DecisionCycle` with its specialists, consensus and limits, about `AiBudget` and about `TickFeed` |
| `AccountProofs` | theorems about `SharedRisk`, `CapitalContribution`, `DecisionOutcomes` and `TradingBooks` |
| `RecordProofs` | theorems about `WeeklySkill`, `SessionRenewal`, `StreamSupervisor` and `Interruptions` |

Definitions whose comment begins with "Defect:" are faulty variants of the
definition that follows; no specification uses them. Each shows that a property
can fail: replacing the definition by its variant makes TLC report the property.

### DurableOms

Every public method runs in one `BEGIN IMMEDIATE` transaction, so each is one
action. A method that raises is a disabled action; a method that finds its work
done is the `UNCHANGED vars` disjunct. The row (`orders`) and the journal
(`events`) are separate variables written by separate conjuncts, as in the
code, and `Verify` replays the journal with the code's checks and compares the
result with the row, the fills, the binding and the lineage.

A client order id is a hash of economics and decision, hence the constants `Qty`
and `Econ`. The protective levels are not hashed, so they are an input that two
callers may disagree on. `Source[f]` is the broker order an external execution
id is derived from. The average price is kept as the notional it is the quotient
of. Left out: the hash chain, timestamps, order geometry, the `paperRecovery`
proof.

### ProgramJournal and PaperExecution

The journal keeps the state of programs and slices and the broker id of a slice.
`PaperExecution` adds the OMS projection of each child (`oms`, `obroker`), the
ledger as the sequence of committed fills (a position stands for the broker
order id), the set of posted positions, and for every coordinator its stack:
program counter, program, slice, the list it loaded and the ledger length its
mirror read. The steps follow the commits:

| Code | Steps |
|---|---|
| `execute_due` entry, due list | `ExecuteDue`, `ReadDue` |
| loop head and mirror | `NextDue`, `MirrorBeforeClaim`, `DueDone` |
| claim | `Claim`, `ClaimRefused` |
| checks | `ChecksPass`, `ChecksFail` (mark_failed) |
| OMS | `OmsCreate`, `OmsApprove`, `OmsSubmitted` |
| broker | `BrokerSubmit` (may raise after its commit) |
| records | `OmsFilled`, `Mark`, `Post`, `Finish` |
| `reconcile_accounting` | `Reconcile`, `ScanUnresolved`, `ScanReceipt`, `Refill`, `Readopt`, `ScanDone`, `Account`, `Settle`, `AccountDone`, `MirrorAfterRecovery` |
| death, exception, early return | `Fault` |
| elsewhere | `Prepare`, `Cancel` (cancel_unclaimed), `ProtectiveExit` |

Abstractions to know of:

* The risk, edge, liquidity and shared-risk checks are one pass/fail choice; the
  shared-risk one is `SharedRisk`.
* The program state and `recovery_required` read at entry are one read;
  nothing is written between them and the claim repeats both tests.
* An order that is not CREATED any more, a duplicate submission key and the
  identity checks that raise end the call, which is `Fault`.
* The mirror re-reads the ledger after posting; the model does so in the
  posting step. A ledger that advances between the two is the early return that
  `Fault` also allows.
* Every child fills whole, as the paper broker does. Cash, positions, prices and
  fees are `PaperLedger`'s, balances `TradingBooks`'.
* A protective exit closes a position that some strategy fill opened, so exits
  never outnumber strategy fills; which symbol it closes is left out.

### SharedRisk and TradingBooks

`SharedRisk` has the journal of `ProgramJournal` with the reservations
(`account`, `reserved`, `released`) and, as separate variables, what the ledger
database knows (`pin`, `witness`, `fills`). `PrepareLost` is the crash between
the witness and the journal transaction, `Backup` / `Restore` an older journal
put back, `Restart` a process with another policy. Which share a sale closed is
recorded nowhere; `sold` is that truth, and the properties compare the derived
charge with it. `Check` then `SubmitEntry` are two steps, since
`assert_bound_entry` looks again in the ledger's own transaction.

In `TradingBooks` the ledger fills (`booked`, `holding`) and both posters write
one set of transactions (`entered`), each under its own id. `PostFill` may come
at once or after a crash; its basis is the average the receipt kept. `ReadLedger`
and `MirrorExits` are the mirror's snapshot and its transaction, with fills
possible in between. Amounts are fine enough that averages are whole.

### PaperLedger, ExitEngine, PaperDay and HaltLatch

A fill changes account, positions, margin, keys and cooldowns in one
transaction, so `PaperLedger` is a module of operators from one record of all
tables to the next (`Execute`, refused by `Refused`) plus the replay
(`Matched`) the daemon itself runs. `ExitEngine` keeps in memory the last
comparable mark, the open steps and what it could not price; `Sweep` walks the
positions as the code does. In `PaperDay` an action is what one thread does
while it holds the broker lock:

| Code | Action |
|---|---|
| `protection_tick` | `ProtectionTick` (halt file, sweep, flatten, books, faults) |
| `run_once` up to the AI calls, with the equity recorded before them | `CadenceStart` |
| an instrument's answer; the end of the tick; an exception | `Propose`; `Hold`; `CadenceFails` |
| `_pilot_pre_submit`, `_execute_proposal_locked`, `_execute` | `Submit` |
| operator | `TouchHaltFile`, `Resume` |
| environment | `Advance` (time and prices; 0 is no quote), `Restart` |

Fees are one amount; an execution may find the database locked. The dollar
figures of a proposal and its levels are a stop one tick below and a target one
tick above the mark. `began` is the time `run_once` was called with: minutes later it
still dates the orders and the closing figures of that tick, and a figure dated before
the day's row changes no later one. After a submission the tick goes on with another
instrument or ends; in which order a cadence visits its instruments is left open.
`CloseOf` gives the close of the session of each time's local date, which is what
`crossed_session_boundary` compares with. `HaltLatch` only adds the history `owed`.

### Specialists, Consensus, EntryRisk and DecisionCycle

`Begin` takes a tape (ages, scores, quote, regime, attribution weights) and forms
the evidence and the specialists' own decision; `Answered` lays the model's view
over it; `Decide` applies the expected-value gate and the exploration budget;
`Enter`, `Reduce` or `Refuse` is the locked half on a fresh snapshot; `Journal`
or `JournalFails` writes the row. Between any two: `Tick` (time, marks),
`ProtectiveExit`, `SwitchHalt`, `Restart`. The specialists' formulas are not
modelled, their scores are inputs; the correlation and expected-shortfall
measures, contract checks and the remaining pre-submit gates are the free
`Refuse`. Fractions are whole percents; friction and fees are left to
`PaperLedger`, and with them the worst entry price that sizing may use; marks are so
coarse that every move exceeds the drift tolerance. `Explorable` compares exact
percentages where the code rounds to four places, and `ProbeFraction` may be larger than
the five percent `agents/atlas.py` allows. The warden's cap per asset class and its leg
for realised losses only refuse more and belong to the free `Refuse`.
The overnight window is judged at the start of the decision, as in the code.
An answer with an invalid schema, or none, is a neutral hold, which the
exploration budget may still probe. One instrument per cadence.

### AiBudget

Each ledger operation is one transaction and one step of a call: `ReserveTokens`
per token ledger, `ReserveDollars`, `Dispatch`, then the provider (`Answer`,
`NoAnswer`), `SettleDollars`, `SettleTokens`, or back through `CancelTokens`.
`Crash` and `NextUtcDay` may come anywhere. Prices, changes of the limits and
the ticketless interface, which nothing in `src/` calls, are left out. What a
reply reports is one figure for both ledgers: a null or malformed cache count, which
`llm/spend.py` counts as 0 and `llm/budget.py` refuses, is not told apart.

### TickFeed and StreamSupervisor

`Put` is the buffer with its listener (one lock), `WarmUp` seeds bars for a
moment that `BeginWarmUp` read earlier (all symbols in one step, where the code takes
one instrument after another; their aggregators share nothing), `Read` closes bars, and
`DecisionTick` is what a decision with an old cutoff is given. `StreamSupervisor` has the library's
sockets, one callback that has looked but not yet acted (`Fires`, `Act`), the
calls scheduled on the event loop (`RunCall`), the queue of one error and the
supervisor (`TakeError`, `WriteEvent`, `Stop`, `Start`). Writing the event may fail: that
of a disconnection is reported like a failed start, and when the report fails too, or
`start` raises what nobody handles, the task takes the socket down and ends (`ended`),
which nothing notices before the shutdown. Delays, counters of
rejected ticks, order-book updates and the IBKR stream are left out. The retry
flag of a replacement socket that is still connecting may be stale; it only
suppresses the watchdog's report, and `RetryFlagDown` speaks of open sockets.

### BrokerLifecycle, PaperRecovery and OperatorRecovery

`BrokerLifecycle` has an exchange that trades lot by lot, the broker's two books
that show it later, four-read captures, `Reconcile` with its refusals, and the
capture journal with its replay. Prices, identity columns and the older fill-id
format are left out. `PaperRecovery` is the direct path commit by commit with
`Crash`, the review and the recovery, and a bundle whose files are inventoried,
copied and inventoried again under a running writer. `Captured`, the bundle's verdict on
its copies, leaves out the comparisons of `operations/oms_recovery.py:122-129` that
raise; whether a bundle is torn is judged from the inventories. `OperatorRecovery` is the
request log around one reconciliation, whose content is `PaperExecution`.

### CapitalContribution, DecisionOutcomes, WeeklySkill and SessionRenewal

`CapitalContribution` lets a deposit commit between the three transactions of a
measurement. Fills and marks are one figure, `gained`, on which deposits have no
influence, so every stored figure has a counterpart without deposits. A
measurement that a deposit overtook writes the older equity (`torn`, until the next
measurement). `DepositsAreCapital` is about the stored figures only, and excepts two
things: such a measurement may be missing from the peak, and a day that opens from it
(`unsure`) stands on an opening without the deposit; every later day is covered again.
The peak in the tracker's memory is not among them: it is `DrawdownKept`'s, a finding.

`DecisionOutcomes` is a cadence over one instrument: decisions, rows, evidence,
one transaction per resolved row, feedback, weights, with exits by others and
restarts between them. Fills come from one process, so their times increase; a
wall clock stepped back would make the evidence refuse every later resolution.
Forward returns, the 90-day lookback, the feedback window, evidence that is stored but
does not reconcile, and the weights themselves are left out.

`WeeklySkill` has several daemons that draft, link and read back one report per
week while returns are still being resolved. Decisions of a cadence are taken to
be over before the week turns, when the venue is closed. `SessionRenewal` has
publishers under an advisory lock, an editor who takes none, and logins; the
broker is assumed to end an account's older session on a new login.

## 3. What the runs show

| Run | Instance | Properties |
|---|---|---|
| `oms_journal` | one order of 2 lots and a second of 1, 2 broker ids, an internal and an external execution id, 2 prices, 2 protective levels, 8 journal rows | `TypeOK`, `EveryOrderVerifies`, `ExecutionsHaveOneOwner`, `ClosedOrdersStayClosed` |
| `oms_lineage` | three orders (3, 3 and 1 lots), 2 execution ids | `FilledAgreesWithState`, `ReplacementFitsRemainder`, `LineageWithinOriginal` |
| `paper_execution` | programs of 2 and 1 slices, 2 coordinators, 2 faults, 1 exit | `TypeOK`, all safety properties of §2 and the refinement |
| `paper_execution_live` | one program of 2 slices, 2 coordinators, 1 fault, 1 exit | `ReconcileSettles` |
| `paper_day` | one equity, 3 times, 2 prices or none, 2 decisions, 4 fills, 1 restart | `BooksReplay`, `NothingTradesTwice`, `NoEntryAfterExitOrHalt`, `RebasedQuoteNeverSells`, `UnpricedHoldingHalts` |
| `paper_margin` | one future over a night: 4 times (session, night, closing auction of the next day with the flatten window, a third session), gap monitor armed, one declared action, no fee | `MarginFollowsUnits`, `OpenStepAnswered` |
| `decision` | parts: 7 tapes, 4 views, 2 decisions over 4 ticks and 3 symbols; 2 calls over 2 ledgers and 2 days; 3 arrivals in a buffer of 2 | `EntriesWithinCaps`, `OnlyTightened`, `BudgetCoversSpend`, `FeedHonest` |
| `recovery` | parts, each small: see below | `BrokerRecordsAgree`, `TradesCountedOnce`, `InterruptionsRecoverable`, `BudgetHolds`, `LostHistoryHolds`, `SocketAccountedFor`, `DepositsAreCapital`, `BooksFollowLedger`, `CreditMatchesLedger`, `OnePolicyPerWeek`, `PublishKeepsFile` |
| `halt_latch`, `kept_mark`, `feed_minutes`, `deposit` | small instances of the above | one violated property each, see Findings |

Orders and execution:

* `EveryOrderVerifies`: callers treat a refused verify as corruption, so no
  accepted sequence of calls may produce an order that its own journal refuses.
* `ExecutionsHaveOneOwner`: an execution counts once, for the order it belongs to.
* `LineageWithinOriginal`: cancel-and-replace, however often repeated, never
  trades more than the first order asked for.
* `OneUnresolvedSlice` and `ClaimHeldAtSubmission`: the account-wide fence of
  `claim_slice`, seen from the journal and from the coordinator about to submit.
  The second one is what the ledger demands of a pinned account
  (`assert_bound_entry` in `execution/shared_risk_binding.py`).
* `FillsHaveAnOwner`: a committed fill belongs to a slice that recovery looks at
  or that is finished, never to a failed, cancelled or unclaimed one.
* `ExecutedEverywhere` and `PostedAfterRecorded`: the order of the records.
* `EndedProgramsStayEnded`: `mark_filled_unaccounted` writes ACTIVE without
  reading the program's state. Only the account-wide fence keeps it from
  reviving an ended program; if unfilled claims did not count as unresolved, it
  would.
* `ExitsPostedInOrder`: a mirrored exit finds every earlier fill posted.
* `ImplementsOutcome`: each child order stays open, is closed untraded, or is
  traded once and then booked once, and nothing trades while another traded
  order waits to be booked.
* `ReconcileSettles`: none of reconcile's own checks can stop it on a fill it
  has seen, whatever another coordinator does to that slice meanwhile.
* `BudgetHolds`, `LostHistoryHolds`: the shares open right now never risk more
  than the budget, and once the ledger witnesses a program the journal lost,
  nothing is admitted or bought.
* `BooksFollowLedger`: whoever posts a fill, when and in which order, the
  double-entry balances end as the ledger's cash, margin and cost, and the mirror
  never meets a posting its replay refuses.

The trading day and the decision:

* `NothingTradesTwice`, `NoEntryAfterExitOrHalt`: with the protection thread
  beside an analysis that started before it.
* `RebasedQuoteNeverSells`, `UnpricedHoldingHalts`, `OpenStepAnswered`: what
  protection may never sell on, and what must end in a halt.
* `EntriesWithinCaps`: an entry respects every limit on the book of that moment.
* `OnlyTightened`: neither the model, nor the gates, nor exploration makes an
  entry the specialists did not, and probes stay within the session's budget
  over restarts. The comment "so a restart cannot reset the day's budget"
  (`agents/atlas.py:207-208`) holds up to the rows lost between a fill and its
  journal row, which `lostRows` counts.
* `BudgetCoversSpend`, `FeedHonest`: ceilings bound what was really spent, and a
  past cutoff never sees a later quote. The dollar ledger trusts a reply that
  reports no usage, the token ledger keeps its reservation.

Records across interruptions (`recovery`):

* `BrokerRecordsAgree`, `TradesCountedOnce` (an order of 3 lots, and a pair; 2
  captures, 2 days): torn and late captures never close an order early, count a
  trade twice or leave a journal that does not replay.
* `InterruptionsRecoverable` (2 decisions; 3 requests, 2 actors): a fill left by
  a crash is always repairable, a certified bundle is never torn, a request runs
  once.
* `SocketAccountedFor` (2 sockets, 7 callbacks), `DepositsAreCapital` (2
  deposits, 2 days), `CreditMatchesLedger` (3 entries, 4 fills),
  `OnePolicyPerWeek` (2 daemons, 2 weeks), `PublishKeepsFile` (2 publishers, 2
  accounts, 3 logins), `BooksFollowLedger` (4 fills, 2 prices),
  `BudgetHolds` (2 programs, 3 slices, 2 policies, 2 faults).

**Bounds.** Every bound is a named constant in a guard. Eight journal rows hold a
complete order with identity, evidence and two fills. Two faults are enough to
crash an execution and then its recovery; three slices in two programs are enough
for a sibling and a stranger of a fenced slice; two coordinators, publishers or
daemons are enough for a race. Three times hold an entry, a breach and what
follows it; four fills hold an entry, a trim, an addition and an exit. The parts
of `decision` and `recovery` share no state, so checking them side by side loses
nothing. Two parts are narrowed further in the MC modules. In `recovery` only the
first trade of the order of three lots also comes by callback, and the second
order, of one lot, moves only in the part `pair`, where nothing comes by callback
and the books stand still while they are read: a torn capture and a callback are
met with one order, a confusion of two orders with the pair. In `decision` the
kill switch turns only while an order waits for the broker lock, under which it
is read, and the ticks of the second symbol come in time: they are there to take
places in the shared buffer. The proofs remove the bounds for the properties
they cover.

**Deadlock** is checked in the OMS and execution runs: a repeated call is always
accepted by the OMS, and some coordinator call can always be started, even when
a `DISPATCHING` slice without a receipt fences the account. The other runs stop
where their bounds on time, fills or faults are used up, and do not check it.

**Fairness.** `FairSpec` of `PaperExecution` assumes weak fairness of the steps of
a call that has started: a running process keeps running. Nobody is obliged to
start a call. Recovery is explicit in the code (an operator asks for it;
`automaticRecovery` is false), so "every fill is eventually accounted" does not
hold and is not claimed, and neither is progress of a `DISPATCHING` slice that has
no receipt. `PaperDay` assumes that a protection tick follows whatever else
happens (the thread loops on a one-second timer) and that time passes. No other
specification assumes any.

### Findings

| Run | What the code does |
|---|---|
| `halt_latch` | `engage_kill_switch` returns when the switch is engaged already; a fault found during an operator halt is not recorded, and removing the halt file resumes trading, against `execution/daemon.py:496` and `cli.py:561-563` |
| `kept_mark` | the mark kept for a symbol outlives the position, so a later position far from it has its stop suspended although its own price made no step, against `execution/protective_exits.py:263` |
| `feed_minutes` | a minute that ticks were forming while the warm-up seeded it is closed a second time, behind later bars, against `src/docs/TICK_INTEGRITY.md:15` |
| `deposit` | a running tracker measures the drawdown from the peak it remembers, which a deposit did not raise, until equity exceeds that peak or the engine restarts, against `execution/capital_contribution.py:13`; the runbook (`src/docs/PAPER_CAPITAL_CONTRIBUTION.md`, step 3) orders that restart, which narrows the window |

## 4. What is proved

For all values of the constants (any number of programs, slices, coordinators,
faults, orders, quantities, calls and limits), from the named assumptions next
to the constants.

**Paper execution** (`PaperExecutionProofs`): `TypeCorrect`,
`Fenced`, `FillsOwned`, `ProgramSummary`, `ExecutedAgrees`, `AccountingFollows`,
`SubmissionHoldsClaim`, `EndedForGood`, `ExitsInOrder` and `Refinement`
(`Spec => ImplementsOutcome`).

The argument rests on `IInv == TypeInv /\ StoreInv /\ CallInv`. The properties
are not inductive: whether `Mark` may write ACTIVE depends on what the calling
process did several commits ago. `StoreInv` says, per slice, which combinations
of journal state, OMS state, ledger and postings exist; `CallInv` says what each
program counter knows (from `checks` to `submit` the caller is the only holder of
the only open claim and nothing is filled; from `receipt` on the fill is there,
and so on). Every other coordinator's step preserves that knowledge because it
could only disturb it by a claim, which the fence refuses, or by adopting the
receipt, which writes the same values. Refinement then follows step by step:
`BrokerSubmit` is `Trade`, the first posting is `Book`, a failed check or a
cancellation is `Close`, and everything else stutters.

**The durable OMS** (`DurableOmsProofs`): `TypeCorrect`,
`OrdersVerify`, `OneOwner`, `LineageBounded`, `QuantityAgrees`,
`ReplacementFits`, `ClosedForGood`.

Two invariants carry them. `LineageInv` joins the row types with the relation of
a row's state to its filled quantity and with what a lineage row knew when it was
written: it names a cancelled order, a cancelled order takes no fill, so the
remainder a replacement was measured against never shrinks. `LineageBounded`
follows by induction on the length of a chain of replacements, as a minimal
counterexample. `JournalInv == LineageInv /\ TablesAgree` is about `verify()`.
The replay is one record per journal row; `TablesAgree` says that the replay of
the journal as it stands ends at the row of the order, that the fills it has met
are the ones in `oms_fills` with the row's totals as their sums, and that the
binding and lineage rows stand where the replay asks for them. A journal row
appended at the end changes no earlier record of the replay (again by a minimal
counterexample), so each method has to be compared with the last record only.
Every method keeps a row, opens it, moves it along the table or fills it (`Calls`).

**Shared risk** (`AccountProofs`): `LostHistoryStops`, `BudgetNeverExceeded`.

`LostHistoryStops` is an action property with one argument per action. The budget
needs `RiskInv == Shapes /\ LossWithinBudget /\ CheckedFits`. `LossWithinBudget`
alone is not inductive: the capacity check and the fill it permits are two
transactions. `CheckedFits` says that a slice that passed the check and was not
filled is still the dispatching one, and that the open shares with it stay within
the budget: the fence lets nothing else trade in between, and after a restart or a
restored journal the slice is checked again. Which shares a sale closed is
recorded nowhere, so the code charges the riskiest ones; the exchange argument
`ChargeCovers` shows that no other attribution of the sales leaves more risk open.
It needs finitely many slices.

**AI budget** (`DecisionProofs`): `BooksKept`, `SpendCovered`.

`SpendInv` says that each counter of a ledger is the sum of a weight over its
tickets (calls, tokens used, allowance reserved), for every scope, day and kind of
ledger, and that what the tickets hold, an allowance while the call is open and
the smaller of allowance and usage once it is settled, never exceeds the limit. The
counters alone would not be inductive: a provider may report more than the
allowance, and then `used` passes the limit although the ledger did all it
promised. `CallsAssumption` (finitely many calls, each with a nonempty chain of
different ledgers) is what the sums need.

**The trading day** (`PaperDayProofs`): `BooksAlwaysReplay`, `TradesOnce`,
`MarginOfUnits`, `NoEntryThen` and `RebasedNeverSells`, the last two action properties.

`DayInv` is about the ledger first (`LedgerInv`): the tables are the replay of the
fills, a key that filled is claimed and filled once, each protective fill sold what the
replay before it held, and a future's margin is that of its open units. None of these
survives a fill without the others: a sale is replayed right only if the row it
prices is the replayed one, and the margin a sale returns, a quotient of the margin
held, is that of its units only if the margin held was (`CommitKeepsMargin`).
`ExecuteKeeps` shows it of one execution, with whatever refuses it, and
`LedgerInv` holds of every ledger a walk passes through, not only of the ones between
two ticks.

A sweep or a flatten is a fold over the positions, one execution after another, so what
it leaves is proved by walking: `SweepTurn` and `FlattenTurn` say what one symbol's turn
does, `WalkKeeps` carries it through any set of symbols by a smallest counterexample,
and the function behind the library's fold is shown to exist and to be that walk
(`SweepFoldDef`, `FlattenFoldDef`). This is why the symbols must be finitely many.

The rest of `DayInv` says that the database holds an operator's halt only while the
halt file is there, that memory never takes a fault in the database for the operator's
halt, and that the order a cadence carries to the broker was judged at an earlier
instant. `NoEntryThen` needs no more than
that, because the cooldown and the halt are judged again under the lock;
`RebasedNeverSells` assumes `~Monitored`, as the code does: with the overnight monitor
attached, a step inside one session is a market move the stop answers to, and the
property is not promised.

**Decisions** (`DecisionProofs`): `DecisionsStayFormed`, `EntriesCapped` and
`ModelOnlyTightens`, the last two action properties. `CycleInv` says what the decision
in flight is at each stage: its own decision is what the specialists' evidence gives;
the decision carried is that one, lowered in stance and confidence (`Tightened`), or a
probe that its regime and evidence allow. `CoreBuys`, `OverlayTightens`, `GateTightens`
and `ProbeIsLabelled` show it of each stage, and `SizedWithinPlan` that a lower
confidence never sizes a larger order, in whole units. The session's budget follows from
`BudgetInv`: the journalled probes of a session and the one in flight are within it, and
each filled probe has its row, will have it, or is counted in `lostRows`; a restart
forgets the decision and the counter in memory together, so nothing is counted twice.
That the limits are kept after minutes of waiting needs no memory of the
snapshot the decision was formed on: the gates judge the book read under the lock, and
`EntryAdds` and `EntryAddsTo` compute, for a symbol not held before, the book they leave
in every group it belongs to. The sectors may overlap. `LimitsAssumption`,
`PolicyAssumption` and `CycleAssumption` are used: finitely many symbols, limits in
percent, positive prices, at least one specialist required.

**Quotes and bars** (`DecisionProofs`): `QuotesAndBarsHonest`. `FeedInv` says of each
symbol what its aggregator knows of the arrivals so far (`Tells`). `Remembers`: the last
volume and moment are those of the last tick it took. `FormingTells`: the forming bar is
that of this tick's window, or the window is sealed. `ClosedTell`: a closed bar is the
provider's, or it is what the ticks of its window say and the window is `Past`, sealed or
ended before the last tick, so that no tick taken later can belong to it. Without
`Past` the property is not inductive: nothing would stop the next tick from adding to
a closed window. What a bar summarises is followed as arrivals join (`BarStarts`,
`BarGrows`, `BarStays`), with its volume as a sum of gains; a late tick is an arrival
that is not taken (`UntakenKeeps`). The warm-up sorts by moments (`NthOf`: the i-th of
finitely many exists), and its bars are marked as the provider's, so it needs no word on
what they contain. The quotes need that the arrivals of a symbol are in the order of
their moments (`InOrder`), which `put` enforces, and that the buffer holds all arrivals
but a first part of them (`Keeps`): the newest tick of the buffer at a moment is then the
newest there was, or the buffer shows none and no quote is given. `FeedAssumption` is
used: window lengths are positive, clocks and bounds whole, and the prices and volumes
that pass `tick_value_issue` are not negative.

**Broker lifecycle** (`BrokerProofs`): `ExecutionsCounted` (an action property) and
`BrokerRecords`.

`RecordsInv` says that a row which calls an order over, in the broker's book, in a
half-read capture or in a finished one, says what the exchange did, however old it
is; that an order of the OMS knows no broker id but its own; and that an order the
OMS closed has all its executions. A capture of an order that is not over may be
late, but `reconcile` adds the trades it shows only when the quantity missing from
the OMS is exactly their sum; as a callback's fill carries another id, a trade
counted both ways would leave a difference, and the capture is refused
(`LineageExact`). The journal half is `Chronology`: each reading shows at least what
the readings before it showed, a reading does not outlive its day, captures are
numbered as they were taken, and the journal holds them in that order. It is kept by
the appending check `AfterHead`. Every capture therefore precedes the later ones,
and the replay, whose memory at each point covers every capture met (a minimal
counterexample over the journal's positions), finds no regression.
`LotsAssumption` and `PlacedAssumption` (a quantity is positive, the broker's ids are
distinct and none is NULL) are used.

**Weekly policy** (`RecordProofs`): `PolicyHolds`. `WeeklyInv` names the reports that
are `Settled` as this week's policy: accepted, read back by a daemon, cached or used.
There is at most one (`OneSettled`), since `link` creates the week's file only once
and a daemon uses what it reads back and not what it drafted. `OlderReport` is the
exception of a ledger written by an older version, whose display report may have been
used in the first week; whoever drafts that week's report copies it.
`WeeklyAssumption` bounds the weeks by a positive number.

**Broker session** (`RecordProofs`): `FileKept`, an action property. `RenewalInv` says
what each step of a publication knows: the lock, held from reading to renaming, keeps
other publishers out; the broker's answer, given under that lock, says that no later
session of the account is in the file; and the comparison leaves only an editor who
comes between it and the rename. `PublishersAssumption` says that a free lock is
nobody's.

**Quote stream** (`RecordProofs`): `ConnectionAccounted`. `StreamInv` adds to the
property, whose first part also allows a supervisor that ended itself and with it the
socket, what a callback that is still acting knows (it is the current socket's, or
the new socket is only connecting), that an open socket whose connect callback has
acted has no retry noted, and that the pending counters are the numbers of ingestions
in the event loop's queue, of all connections and of the current one.

**Interruptions** (`RecordProofs`): `Recoverable`. `RecoveryInv` orders the two
databases: the OMS knows of a submission before the ledger holds its fill, and of the
fill only afterwards; a row carries the recovery's marker exactly when there is an
audit, whose hash is that of the row's last event. `BundleFollows` says how far each
copy lags behind, as the ledger only grows. `OperatorInv` says that a request is
logged before it runs, that its count is zero until the reconciliation begins, and
that room for its outcome stays in the log; `EventsAssumption` makes the log's limit
a number.

**Deposits** (`AccountProofs`): `Deposited`. `ContributionInv` says what the running
tracker knows while deposits pass it by: the peak in memory lies between the first
capital and the durable peak; a measurement under way holds the capital it read,
which is less than today's exactly when a deposit came since, and its equity is that
capital and the gain read with it; a row after the day being measured exists only if
a deposit opened it; and the newest day's row ends with the gain last measured, unless
a deposit overtook that measurement, in which case a day opened from it is `unsure`. The
last two are what makes a day that a deposit opens, from the row of the day before,
start with the right figure. The capital itself is a sum over the recorded
references, which the induction keeps finite (`DepositCounted`).

**Credited outcomes** (`AccountProofs`): `CreditAddsUp`. `CreditInv` says that a decision
fills at most once and buys, that a row names the fill of its decision and is either
waiting or carries the outcome of the closed episode of that fill, that a row about to
be written is not there yet, and that stored feedback repeats its row. The fills only
grow, so a closed episode never changes (`EpisodesStay`), and `PeriodIsEpisode` gives
it the second form the property uses: the holding period of each of its fills. Two
episodes with a common fill are therefore one, all rows of a period share one
denominator, and their numerators are the net result times a part of the purchases
(`SumRenamed`, `SumScaled`), which is between none and all of them. The source check
of the feedback never refuses because feedback and rows only agree (`RefreshKeeps`).
`OutcomeAssumption` says that prices are positive and that an exit is not named like
an entry.

**Double-entry books** (`AccountProofs`): `BooksAgree`, `MoneyKept`. The fills are the
common source of both accounts, so `BooksInv` relates each to them. `TablesInv`: a
replay of the fills ends at the holding, each receipt kept the average before its
fill, and cash and margin are sums of what the fills moved; the margin a sale
releases is a quotient, but of a product (`ExactRelease`), so it leaves no remainder.
`JournalInv`: a posting in the journal is the one its fill's receipt gives. Whoever
posted it, a balance is therefore a sum by fills (`SumByFill`, `BalanceIs`), with no
word on the order. What the mirror posts comes from its replay of a snapshot; it is
the same because the replay follows the receipts (`ReplayOfReceipts`), and it misses
nothing because, by `MirrorInv`, no posting and no fill of the coordinator is newer
than the snapshot: the coordinator submits only after a report that is still valid.
`MoneyKept` holds for any prices. The cost of securities does not: where an average
is rounded, the ledger's cost and the journal's differ by the remainder, so
`BooksAgree` says `WholeAverages => BooksFollowLedger`. `WholeAverages` is true in
every state of `recovery` (prices 720 and 1440, up to 3 lots); the code keeps the
quotients as decimals of 28 digits.

`FiniteSumTheorems` holds what these sums use: a sum changes by what one summand
changes by, is monotone, splits into parts and counts a set. The library's
induction theorems take an operator as a parameter and cannot be cited, so these
lemmas are proved from a smallest set that would violate them; that argument and the
maximum of a finite set, stated first, also serve `DurableOmsProofs`, `DecisionProofs`,
`BrokerProofs`, `AccountProofs` and `RecordProofs`.

Only model-checked is liveness (`ReconcileSettles`, `UnpricedHoldingHalts`,
`OpenStepAnswered`), which is out of the prover's reach, as ENABLED is. Bars and their
order are written with positions (`Taken`, `InWindow`, `Nth`) and sums over sets instead
of filtered and sorted sequences, so that nothing in them is recursive. The runs that
expect a violation are counterexamples and have no theorem.

## 5. Not modelled

* Provider adapters, prompts, parsing, HTTP surface, web console, manifests and
  report tooling: I/O or presentation.
* The specialists' formulas, regime reading, correlation, expected shortfall and
  factor measures, execution planning and friction: decimal arithmetic over
  histories without state of its own.
* Research, backtesting, validation, tearsheets and promotion: statistics over
  stored rows. Forward returns of decisions are among them; the docstring at
  `analytics/outcome_resolver.py:193-197` calls the next session's first cadence
  the last chance for the close return, while line 203 accepts any cadence of
  that session.
* Live brokers, which are disabled in this repository.
* Settlement (`accounting/settlement.py`), which only tests use. To know of it: the
  journal posting commits before the settlement row, and its payload contains the
  time, so a repetition after a crash with another time is refused
  (`transaction_id_payload_mismatch`); and a settlement in a tenant that also has
  protective exits would be an unmapped transaction to their mirror.
* Restoring a bundle (it recomputes the verdict on the same bytes), identity
  transitions of instruments, multi-currency books, the hash chains, the alert
  deduplication of the boot check and the pre-market watch.
* The order of the instruments within one cadence, session plans and telemetry
  projections.
* In `WeeklySkill`, the week of an upgrade: with a display report of an older
  version in force, a daemon already in the next week could overwrite it before a
  laggard adopts it.

`PROJECT.json` gives the reason for each component. What would come next: settlement if
production code starts to use it, and forward returns with the calendar they depend on.
