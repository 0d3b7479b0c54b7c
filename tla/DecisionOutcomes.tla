--------------------------- MODULE DecisionOutcomes ---------------------------
(***************************************************************************)
(* What a decision earned: the paper fills of one instrument, the rows of  *)
(* the decision journal, the resolver that gives an entry its share of the *)
(* flat-to-flat episode it belonged to (analytics/outcome_resolver.py,     *)
(* validation/trade_evidence.py), the append-only feedback and the engine  *)
(* that is rebuilt from it before every weighting (analytics/feedback.py,  *)
(* attribution.py), in the order in which a cadence runs them              *)
(* (execution/daemon.py).  Each row is resolved in a transaction of its    *)
(* own; the process may die between any two.                               *)
(*                                                                         *)
(* Time is the number of fills.  Trade evidence depends on the fills it    *)
(* was computed from only, and is their number.  A share is a fraction,    *)
(* [num, den].  Forward returns are left out, and so are the weights,      *)
(* which are arithmetic of the credited entries.                           *)
(***************************************************************************)
EXTENDS Integers, Sequences, FiniteSets, FiniteSetsExt, FiniteSums

CONSTANTS
  Entries,     \* decisions that may buy
  Supported,   \* those with a supporter of positive confidence
  BuyPrices, SellPrices, MaxLots,
  Exits,       \* triggers of protective exits, and operators
  FillFee,     \* cash fees of a fill
  LastFill     \* bound: fills

ASSUME OutcomeAssumption ==
  /\ Supported \subseteq Entries
  /\ FillFee \in Nat
  /\ BuyPrices \subseteq Nat \ {0} /\ SellPrices \subseteq Nat \ {0}
  /\ MaxLots \in Nat
  /\ Entries \cap (Exits \cup {"SWARM"}) = {}

VARIABLES
  traded,      \* paper_ledger: lots, negative when sold, their price, and who traded
  decided,     \* paper_decisions: the order of each filled entry and its outcome
  feedback,    \* paper_specialist_feedback
  engine,      \* the attribution engine in memory
  cadence      \* run_once: where it is, and the trade evidence in memory

outcomeVars == <<traded, decided, feedback, engine, cadence>>

NoDecision == [order |-> 0]
Unresolved == [exit |-> 0]
NoEvent == [exit |-> 0]
NotComputed == -1
Between == [step |-> "idle", stamp |-> 0, evidence |-> NotComputed]

OutcomesInit ==
  /\ traded = << >>
  /\ decided = [d \in Entries |-> NoDecision]
  /\ feedback = [d \in Entries |-> NoEvent]
  /\ engine = [status |-> "no_closed_entries", at |-> 0, credited |-> {}]
  /\ cadence = Between

-----------------------------------------------------------------------------
(* build_trade_evidence: episodes from flat to flat.                       *)

LotsMoved == [i \in DOMAIN traded |-> traded[i].lots]
Holding(n) == SumOf(LotsMoved, 1..n)

\* Defect: an episode ends with a sale.
EndsWithSale(i) == traded[i].lots < 0

EndsEpisode(i) == Holding(i) = 0

\* The closed episodes among the first n fills, each as its set of fills.
Episodes(n) ==
  {{i \in 1..close : \A j \in i..close - 1 : ~EndsEpisode(j)} :
     close \in {i \in 1..n : EndsEpisode(i)}}

Notional == [i \in DOMAIN traded |-> traded[i].lots * traded[i].price]
Bought(episode) == {i \in episode : traded[i].lots > 0}
NetOf(episode) == -SumOf(Notional, episode) - FillFee * Cardinality(episode)

(* _episode_outcome and _exit_trigger.                                     *)

\* Defect: every entry takes the whole result.
WholeResult(i, episode) == [num |-> NetOf(episode), den |-> 1]

Share(i, episode) ==
  [num |-> NetOf(episode) * Notional[i], den |-> SumOf(Notional, Bought(episode))]

Outcome(i, episode) ==
  [exit |-> Max(episode), net |-> Share(i, episode), trigger |-> traded[Max(episode)].by]

-----------------------------------------------------------------------------
(* refresh_feedback with _event and _persist, as of fill number at.        *)

Resolved(d) == decided[d] # NoDecision /\ decided[d].outcome # Unresolved

EventOf(d) == [order |-> decided[d].order, exit |-> decided[d].outcome.exit,
               net |-> decided[d].outcome.net]

Events(at) == {d \in Supported : Resolved(d) /\ decided[d].outcome.exit <= at}

\* A stored event whose source changed, or is no longer there, refuses all.
SourceChanged(at) ==
  \E d \in Entries :
    /\ feedback[d] # NoEvent
    /\ feedback[d].exit <= at
    /\ d \notin Events(at) \/ EventOf(d) # feedback[d]

RefreshFeedback(at) ==
  IF SourceChanged(at)
  THEN /\ engine' = [status |-> "refused", at |-> at, credited |-> {}]
       /\ UNCHANGED feedback
  ELSE /\ engine' = [status |-> IF \E d \in Entries \ Supported : Resolved(d) THEN "partial"
                                ELSE IF Events(at) = {} THEN "no_closed_entries"
                                ELSE "applied",
                     at |-> at, credited |-> Events(at)]
       /\ feedback' = [d \in Entries |->
                         IF d \in Events(at) /\ feedback[d] = NoEvent THEN EventOf(d)
                         ELSE feedback[d]]

-----------------------------------------------------------------------------
(* A cadence.                                                              *)

At(step) == cadence.step = step
Goes(step) == cadence' = [cadence EXCEPT !.step = step]

BeginDecisions ==
  /\ At("idle")
  /\ cadence' = [cadence EXCEPT !.step = "weigh", !.stamp = Len(traded)]
  /\ UNCHANGED <<traded, decided, feedback, engine>>

\* weight_evidence, with the time the request was observed.
Weigh ==
  /\ At("weigh")
  /\ RefreshFeedback(cadence.stamp)
  /\ Goes("decide")
  /\ UNCHANGED <<traded, decided>>

Fill(lots, price, by) ==
  /\ Len(traded) < LastFill
  /\ Holding(Len(traded)) + lots >= 0
  /\ traded' = Append(traded, [lots |-> lots, price |-> price, by |-> by])

\* A decision buys; one that sells is evidence of the exit only.
DecisionBuys(d, lots, price) ==
  /\ At("decide")
  /\ decided[d] = NoDecision
  /\ \A i \in DOMAIN traded : traded[i].by # d
  /\ Fill(lots, price, d)
  /\ cadence' = [step |-> "journal", stamp |-> cadence.stamp,
                 evidence |-> cadence.evidence, entry |-> d]
  /\ UNCHANGED <<decided, feedback, engine>>

DecisionSells(lots, price) ==
  /\ At("decide")
  /\ Fill(-lots, price, "SWARM")
  /\ Goes("evidence")
  /\ UNCHANGED <<decided, feedback, engine>>

DecisionHolds ==
  /\ At("decide")
  /\ Goes("evidence")
  /\ UNCHANGED <<traded, decided, feedback, engine>>

\* _journal_decision: the row names the order that the decision filled.
JournalDecision ==
  /\ At("journal")
  /\ \E i \in DOMAIN traded :
       /\ traded[i].by = cadence.entry
       /\ decided' = [decided EXCEPT ![cadence.entry] = [order |-> i, outcome |-> Unresolved]]
  /\ cadence' = [step |-> "evidence", stamp |-> cadence.stamp, evidence |-> cadence.evidence]
  /\ UNCHANGED <<traded, feedback, engine>>

\* _reconcile_pilot computes the evidence that the resolver is given.
ComputeEvidence ==
  /\ At("evidence")
  /\ cadence' = [cadence EXCEPT !.step = "resolve", !.evidence = Len(traded)]
  /\ UNCHANGED <<traded, decided, feedback, engine>>

\* Rows that wait for an outcome and whose episode the evidence has closed.
Closable ==
  {d \in Entries :
     /\ decided[d] # NoDecision
     /\ decided[d].outcome = Unresolved
     /\ \E episode \in Episodes(cadence.evidence) : decided[d].order \in episode}

\* update_decision, for the oldest such row.
ResolveRow ==
  /\ At("resolve")
  /\ \E d \in Closable, episode \in Episodes(cadence.evidence) :
       /\ decided[d].order \in episode
       /\ \A other \in Closable : decided[d].order <= decided[other].order
       /\ decided' = [decided EXCEPT ![d].outcome = Outcome(decided[d].order, episode)]
  /\ UNCHANGED <<traded, feedback, engine, cadence>>

\* The record callback and the quality report refresh the engine by the clock.
FinishCadence ==
  /\ At("resolve")
  /\ Closable = {}
  /\ RefreshFeedback(Len(traded))
  /\ Goes("idle")
  /\ UNCHANGED <<traded, decided>>

\* Protective exits and operators sell whatever the cadence is doing.
SoldElsewhere(lots, price) ==
  /\ \E by \in Exits : Fill(-lots, price, by)
  /\ UNCHANGED <<decided, feedback, engine, cadence>>

\* restore_from_journal; a filled decision without a row never gets one.
RestartDecisions ==
  /\ ~At("idle")
  /\ cadence' = Between
  /\ RefreshFeedback(Len(traded))
  /\ UNCHANGED <<traded, decided>>

OutcomesNext ==
  \/ BeginDecisions \/ Weigh \/ DecisionHolds \/ JournalDecision
  \/ ComputeEvidence \/ ResolveRow \/ FinishCadence \/ RestartDecisions
  \/ \E lots \in 1..MaxLots :
       \/ \E d \in Entries, price \in BuyPrices : DecisionBuys(d, lots, price)
       \/ \E price \in SellPrices : DecisionSells(lots, price) \/ SoldElsewhere(lots, price)

OutcomesSpec == OutcomesInit /\ [][OutcomesNext]_outcomeVars

-----------------------------------------------------------------------------
(* Properties.                                                             *)

\* The fills of the episode that entry i belonged to, from the fills up to now.
HoldingPeriod(i) ==
  {j \in DOMAIN traded :
     \A n \in DOMAIN traded :
       (i <= n /\ n < j) \/ (j <= n /\ n < i) => Holding(n) # 0}

\* An outcome is what the ledger still says of a position that is closed, and
\* the entries of one position never share more than it made or lost.
OutcomesAddUp ==
  \A d \in {x \in Entries : Resolved(x)} :
    LET period == HoldingPeriod(decided[d].order)
        shared == {x \in Entries : Resolved(x) /\ decided[x].order \in period}
        total == SumOf([x \in shared |-> decided[x].outcome.net.num], shared)
        den == decided[d].outcome.net.den
    IN /\ Holding(Max(period)) = 0
       /\ decided[d].outcome.exit = Max(period)
       /\ \A x \in shared : decided[x].outcome.net.den = den
       /\ IF {decided[x].order : x \in shared} = Bought(period)
          THEN total = NetOf(period) * den
          ELSE \/ 0 <= total /\ total <= NetOf(period) * den
               \/ NetOf(period) * den <= total /\ total <= 0

\* The engine credits exactly the stored entries that were closed when it was
\* refreshed, and never refuses what the system itself has written.
EngineReplaysFeedback ==
  /\ engine.status # "refused"
  /\ engine.credited =
       {d \in Entries : feedback[d] # NoEvent /\ feedback[d].exit <= engine.at}

\* Between cadences nothing that the last evidence closed waits for its credit.
NothingWaits ==
  At("idle") /\ cadence.evidence # NotComputed =>
    Closable = {} /\ \A d \in Supported : Resolved(d) => feedback[d] = EventOf(d)

\* CreditMatchesLedger: however exits, crashes, lost rows and refreshes interleave, the
\* credit the specialists are weighted by adds up to the result of the positions that were
\* closed, each counted once (outcome_resolver.py _episode_outcome, feedback.py _persist).
CreditMatchesLedger == OutcomesAddUp /\ EngineReplaysFeedback /\ NothingWaits
=============================================================================
