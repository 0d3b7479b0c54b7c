---------------------------- MODULE DecisionCycle ----------------------------
(***************************************************************************)
(* One decision from its tick to its journal row (execution/daemon.py      *)
(* run_once, intelligence/pipeline.py run_async, agents/swarm_runtime.py), *)
(* with everything that happens to the book while the language model is    *)
(* asked: marks move, the protection thread exits positions, the operator  *)
(* halts, the session closes, the process dies.                            *)
(*                                                                         *)
(* The tick is judged on the snapshot it began with.  The answer comes     *)
(* later, and the order is judged again under the broker's lock on the     *)
(* book of that moment.                                                    *)
(***************************************************************************)
EXTENDS Consensus, EntryRisk, Sequences

CONSTANTS Tapes,             \* what the providers may deliver on a tick
          Views,             \* what the model may answer
          UseModel,          \* an llm_client is configured
          Watchlist,         \* the instruments the cadence decides on
          Prices,            \* [Symbols -> set of marks a symbol may have]
          StartingCash,
          StartingBooks,     \* units held when the cadence starts
          Phases,            \* the phase of each tick of a session
          LastTick,          \* bound on the ticks modelled
          MaxDecisions,      \* bound on the decisions begun
          CooldownTicks      \* how long an exit bars re-entry

SessionOf(t) == t \div Len(Phases)
PhaseAt(t) == Phases[1 + (t % Len(Phases))]
Sessions == 0 .. SessionOf(LastTick)

\* What the providers may deliver and the model may answer.
Tape == [score : [Voters -> Int], age : [DOMAIN TTL -> Nat \cup {Absent}],
         quote : {"none", "tight", "torn"}, regime : DOMAIN Playbook, trust : [Agents -> Nat]]
View == [stance : DOMAIN StanceScore \cup {"invalid"}, confidence : Int, win : Int, risk : Int]

ASSUME CycleAssumption ==
    /\ Tapes \subseteq Tape
    /\ Views \subseteq View
    /\ UseModel \in BOOLEAN
    /\ Watchlist \subseteq Symbols
    /\ \A s \in Symbols : Prices[s] # {} /\ Prices[s] \subseteq Nat \ {0}
    /\ StartingCash \in Nat
    /\ StartingBooks \subseteq [Symbols -> Nat]
    /\ Phases \in Seq({"open", "closing", "closed"}) \ {<< >>}
    /\ LastTick \in Nat
    /\ MaxDecisions \in Nat
    /\ CooldownTicks \in Nat

VARIABLES clock,        \* the instant, in ticks
          book,         \* the ledger: held, mark, cash, opening, peak
          cooldown,     \* [Symbols -> tick]: exit_cooldown_until
          halted,       \* the kill switch
          issued,       \* [Sessions -> Nat]: _probes_issued, this process's memory
          probeRows,    \* [Sessions -> Nat]: probe = 1 rows of the decision journal
          probeFills,   \* [Sessions -> Nat]: fills whose evidence is labelled a probe
          lostRows,     \* [Sessions -> Nat]: probe fills whose row was never written
          begun,        \* decisions begun
          pending       \* the decision in flight

cycleVars == <<clock, book, cooldown, halted, issued, probeRows, probeFills,
               lostRows, begun, pending>>
market == <<clock, cooldown, halted>>
probes == <<issued, probeRows, probeFills, lostRows>>

None == [stage |-> "none"]
NoProbes == [d \in Sessions |-> 0]

CycleInit ==
    /\ clock = 0
    /\ \E held \in StartingBooks :
         LET flat == [held |-> held, mark |-> [s \in Symbols |-> Min(Prices[s])],
                      cash |-> StartingCash, opening |-> 0, peak |-> 0]
         IN book = [flat EXCEPT !.opening = EquityOf(flat), !.peak = EquityOf(flat)]
    /\ cooldown = [s \in Symbols |-> 0]
    /\ halted = FALSE
    /\ issued = NoProbes /\ probeRows = NoProbes /\ probeFills = NoProbes /\ lostRows = NoProbes
    /\ begun = 0
    /\ pending = None

\* Every snapshot records the peak.
Recorded(b) == [b EXCEPT !.peak = GreaterOf(@, EquityOf(b))]

-----------------------------------------------------------------------------
(***************************************************************************)
(* run_once and run_async up to the call of the model: the snapshot, the   *)
(* evidence, the plan's quantity and the specialists' own decision.        *)
(***************************************************************************)
Begin(s) ==
    LET b == Recorded(book)
        breached == DeskBreach(b, s)
    IN /\ pending = None
       /\ begun < MaxDecisions
       /\ PhaseAt(clock) # "closed"
       /\ \E tape \in Tapes :
            LET said == EvidenceOf(tape, breached)
                evidence == Attributed(said, tape.trust)
                own == DecideCore(evidence, tape.regime)
            IN pending' = [stage |-> IF UseModel /\ ~HardHold(evidence) THEN "asked"
                                     ELSE "answered",
                           subject |-> s, at |-> clock, price |-> b.mark[s],
                           plan |-> ConflictSized(PlanQuantity(b, b.mark[s]), Conflicted(said)),
                           evidence |-> evidence, regime |-> tape.regime,
                           own |-> own, decision |-> own]
       /\ book' = b
       /\ begun' = begun + 1
       /\ UNCHANGED <<market, probes>>

\* The model answers, or does not: no answer is a neutral view without conviction.
Answered ==
    /\ pending.stage = "asked"
    /\ \E view \in Views :
         pending' = [pending EXCEPT !.stage = "answered",
                        !.decision = Overlay(pending.own, view, pending.regime)]
    /\ UNCHANGED <<market, book, probes, begun>>

\* _probes_used: the journal's count or this process's, whichever is greater.
ProbesUsed(d) == GreaterOf(issued[d], probeRows[d])

\* decide_with_llm's last line: the expected-value gate, then the exploration budget.
\* A budget that cannot be read is spent.
Decide ==
    LET d == SessionOf(pending.at)
        gated == EvGated(pending.evidence, pending.decision)
    IN /\ pending.stage = "answered"
       /\ \E readable \in BOOLEAN :
            LET probing == /\ Explorable(pending.evidence, gated, pending.regime)
                           /\ readable /\ ProbesUsed(d) < ProbesPerDay
            IN /\ pending' = [pending EXCEPT
                                 !.stage = "proposed",
                                 !.decision = IF probing THEN Probe(pending.evidence, gated)
                                                         ELSE gated]
               /\ issued' = IF probing THEN [issued EXCEPT ![d] = ProbesUsed(d) + 1] ELSE issued
       /\ UNCHANGED <<market, book, probeRows, probeFills, lostRows, begun>>

-----------------------------------------------------------------------------
(***************************************************************************)
(* _execute_proposal: one step under the broker's lock, on a new snapshot. *)
(***************************************************************************)
Fresh == Recorded(book)

EntryQuantity(b) ==
    IF pending.decision.probe THEN ProbeQuantity(b, pending.price)
    ELSE SizedQuantity(pending.plan, pending.decision.confidence, pending.regime)

CoolingDown(s) == pending.at < cooldown[s]

\* What the journal needs of a decision that has ended.
Outcome(stage) == [stage |-> stage, at |-> pending.at, probe |-> pending.decision.probe]

\* _pilot_pre_submit: the session is open and the market has not left the reference.
PreSubmit == PhaseAt(clock) # "closed" /\ book.mark[pending.subject] = pending.price

Admitted(b, s, quantity) ==
    /\ ~halted
    /\ StressPasses(b, quantity * pending.price)
    /\ WardenAdmits(b, s, quantity, pending.price, PhaseAt(pending.at))
    /\ b.held[s] = 0
    /\ Cardinality(OpenIn(b)) < MaxOpenPositions
    /\ ~CoolingDown(s)

Enter ==
    LET s == pending.subject
        quantity == EntryQuantity(Fresh)
    IN /\ pending.stage = "proposed"
       /\ StanceScore[pending.decision.action] > 0
       /\ PreSubmit
       /\ Admitted(Fresh, s, quantity)
       /\ quantity * pending.price <= book.cash
       /\ book' = [Fresh EXCEPT !.held[s] = quantity, !.cash = @ - quantity * pending.price]
       /\ IF pending.decision.probe
          THEN probeFills' = [probeFills EXCEPT ![SessionOf(pending.at)] = @ + 1]
          ELSE UNCHANGED probeFills
       /\ pending' = Outcome("filled")
       /\ UNCHANGED <<market, issued, probeRows, lostRows, begun>>

\* A SELL never exceeds the holding, and an unsized one exits in full.
SellQuantity(held) ==
    IF pending.plan > 0 THEN LesserOf(pending.plan, held) ELSE held

\* A covered SELL passes the halt, the stress test and every cap.
Reduce ==
    LET s == pending.subject
        quantity == SellQuantity(book.held[s])
    IN /\ pending.stage = "proposed"
       /\ pending.decision.action \in {"SELL", "STRONG_SELL"}
       /\ book.held[s] > 0
       /\ PreSubmit
       /\ book' = [Fresh EXCEPT !.held[s] = @ - quantity, !.cash = @ + quantity * book.mark[s]]
       /\ pending' = Outcome("filled")
       /\ UNCHANGED <<market, probes, begun>>

\* Any gate may refuse, those left out of the model too, and a hold proposes nothing.
Refuse ==
    /\ pending.stage = "proposed"
    /\ pending' = Outcome("refused")
    /\ UNCHANGED <<market, book, probes, begun>>

\* _journal_decision: the row of the decision, filled or refused.
Journal ==
    LET d == SessionOf(pending.at)
    IN /\ pending.stage \in {"filled", "refused"}
       /\ probeRows' = IF pending.probe THEN [probeRows EXCEPT ![d] = @ + 1] ELSE probeRows
       /\ pending' = None
       /\ UNCHANGED <<market, book, issued, probeFills, lostRows, begun>>

Lost ==
    IF pending.stage = "filled" /\ pending.probe
    THEN [lostRows EXCEPT ![SessionOf(pending.at)] = @ + 1] ELSE lostRows

\* A journal fault is swallowed: the row is lost, the process remembers.
JournalFails ==
    /\ pending.stage \in {"filled", "refused"}
    /\ pending' = None
    /\ lostRows' = Lost
    /\ UNCHANGED <<market, book, issued, probeRows, probeFills, begun>>

-----------------------------------------------------------------------------
\* The process dies and restarts: its memory and its decision are gone.
Restart ==
    /\ pending # None \/ issued # NoProbes
    /\ pending' = None
    /\ issued' = NoProbes
    /\ lostRows' = Lost
    /\ UNCHANGED <<market, book, probeRows, probeFills, begun>>

\* The protection thread liquidates a position and bars its re-entry.
ProtectiveExit(s) ==
    /\ book.held[s] > 0
    /\ PhaseAt(clock) # "closed"
    /\ book' = [book EXCEPT !.held[s] = 0, !.cash = @ + book.held[s] * book.mark[s]]
    /\ cooldown' = [cooldown EXCEPT ![s] = clock + CooldownTicks]
    /\ UNCHANGED <<clock, halted, probes, begun, pending>>

\* The halt file appears or goes, or a fault engages the switch.
SwitchHalt ==
    /\ halted' = ~halted
    /\ UNCHANGED <<clock, cooldown, book, probes, begun, pending>>

\* Time passes and marks move; a new session opens where it opens and takes its own
\* baseline.
Tick ==
    /\ clock < LastTick
    /\ clock' = clock + 1
    /\ \E mark \in [Symbols -> UNION Range(Prices)] :
         LET moved == [book EXCEPT !.mark = mark]
         IN /\ \A s \in Symbols : mark[s] \in Prices[s]
            /\ PhaseAt(clock') = "closed" => mark = book.mark
            /\ book' = IF SessionOf(clock') = SessionOf(clock) THEN moved
                       ELSE [moved EXCEPT !.opening = EquityOf(moved)]
    /\ UNCHANGED <<cooldown, halted, probes, begun, pending>>

CycleNext ==
    \/ \E s \in Watchlist : Begin(s)
    \/ Answered \/ Decide
    \/ Enter \/ Reduce \/ Refuse
    \/ Journal \/ JournalFails
    \/ Restart
    \/ \E s \in Symbols : ProtectiveExit(s)
    \/ SwitchHalt \/ Tick

CycleSpec == CycleInit /\ [][CycleNext]_cycleVars

-----------------------------------------------------------------------------
Entered(s) == book'.held[s] > book.held[s]

\* EntriesWithinCaps: the book an entry leaves is within every limit at the marks of
\* that moment, however long ago and on whatever snapshot the decision was formed:
\* no entry under a halt, past a loss limit, beside a position or too soon after an
\* exit (swarm_runtime.py _execute_proposal, warden.py evaluate).
EntriesWithinCaps ==
    [][\A s \in Symbols : Entered(s) =>
         LET after == book'
             equity == EquityOf(book)
             UnderCap(amount, cap) == 100 * amount <= cap * equity
         IN /\ ~halted
            /\ UnderCap(ExposureOf(after, s), Min({TradeCap, PositionCap}))
            /\ UnderCap(GrossOf(after), Min({GrossCap, OvernightCap}))
            /\ WorstShock * GrossOf(after) <= BookTolerance * equity
            /\ \A group \in Sectors : s \in group => UnderCap(Gross(after, group), SectorCap)
            /\ after.cash >= 0
            /\ Cardinality(OpenIn(after)) <= MaxOpenPositions
            /\ cooldown[s] <= clock
            /\ 100 * (book.opening - equity) < DailyLoss * equity
      ]_cycleVars

\* What three specialists at the floor must have said, whatever the model answered.
OwnBuy(e, regime) ==
    /\ \A a \in Agents : e[a].stance # "AVOID"
    /\ 100 * LeanOf(e) >= 45 * WeightOf(e)
    /\ WeightOf(e) >= Floor(regime) * Cardinality(Participating(e))

\* OnlyTightened: neither the model, nor the gates, nor the exploration budget makes an
\* entry the specialists did not: it is their own BUY at their own floor and no larger
\* than the plan at their confidence, or a labelled probe of their lean within the
\* session's budget, which a restart does not reset except by the rows it lost
\* (atlas.py _decide_with_llm_core, _explore, _probes_used).
OnlyTightened ==
    [][/\ \A s \in Symbols : Entered(s) =>
            IF pending.decision.probe
            THEN /\ Playbook[pending.regime].probes
                 /\ ScoreAtLeast(pending.evidence, ProbeScore)
                 /\ 100 * book'.held[s] * pending.price <= ProbeFraction * EquityOf(book)
            ELSE /\ OwnBuy(pending.evidence, pending.regime)
                 /\ book'.held[s] <= pending.plan
                 /\ book'.held[s] <= SizedQuantity(pending.plan, pending.own.confidence,
                                                   pending.regime)
       /\ \A d \in Sessions : probeFills'[d] <= ProbesPerDay + lostRows'[d]
      ]_cycleVars
=============================================================================
