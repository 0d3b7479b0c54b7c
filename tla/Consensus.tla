------------------------------ MODULE Consensus ------------------------------
(***************************************************************************)
(* The CIO (agents/atlas.py): the specialists' consensus, the language     *)
(* model's view laid over it, the expected-value gate and the exploration  *)
(* budget, and the playbook that sizes what is left (agents/playbook.py).  *)
(*                                                                         *)
(* Probabilities and payoffs are in ten-thousandths, so an expected value  *)
(* is in 1/10^8; the code rounds it at 1/10^6 and the model does not.      *)
(***************************************************************************)
EXTENDS Specialists

CONSTANTS MinAgents,         \* AtlasPolicy.min_evidence_agents
          BaseFloor,         \* min_consensus_confidence
          MaxExpectedRisk,   \* max_expected_risk, in ten-thousandths
          EvGate,            \* ev_gate
          ProbesPerDay,      \* exploration_max_per_day
          ProbeConfidence,   \* exploration_min_confidence
          ProbeScore         \* exploration_min_weighted_score

ASSUME PolicyAssumption ==
    /\ MinAgents \in Nat \ {0}
    /\ EvGate \in BOOLEAN
    /\ ProbesPerDay \in Nat
    /\ ProbeConfidence \in 1 .. BaseFloor
    /\ ProbeScore \in 1 .. 45
    /\ BaseFloor \in 1 .. 69
    /\ MaxExpectedRisk \in Nat

StanceScore == [STRONG_BUY |-> 2, BUY |-> 1, NEUTRAL |-> 0, SELL |-> -1,
                STRONG_SELL |-> -2, AVOID |-> -3]

\* PLAYBOOKS: every regime only tightens the plan.
Playbook ==
    [trending_up     |-> [raise |-> 0,  size |-> 100, probes |-> TRUE],
     ranging         |-> [raise |-> 5,  size |-> 75,  probes |-> TRUE],
     trending_down   |-> [raise |-> 10, size |-> 50,  probes |-> FALSE],
     high_volatility |-> [raise |-> 15, size |-> 35,  probes |-> FALSE],
     unread          |-> [raise |-> 0,  size |-> 100, probes |-> TRUE]]

Floor(regime) == BaseFloor + Playbook[regime].raise

-----------------------------------------------------------------------------
\* stale_budget_seconds: published domains are given two weeks.
StaleBudget(a) == IF a \in {"commodity", "us"} THEN 14 * Day ELSE Hour
OverAge(e, a) == e[a].age > StaleBudget(a)

Abstained(e) == {a \in Voters : /\ e[a].stance = "NEUTRAL"
                                /\ OverAge(e, a) \/ e[a].confidence <= 0}
Participating(e) == Voters \ Abstained(e)

Leanings(e) == [a \in Agents |-> StanceScore[e[a].stance] * e[a].confidence]
WeightOf(e) == SumOf(Convictions(e), Participating(e))
LeanOf(e) == SumOf(Leanings(e), Participating(e))

\* The weighted score and the mean confidence compared with percents, exactly.
ScoreAtLeast(e, bar) == 100 * LeanOf(e) >= bar * WeightOf(e)
ScoreAtMost(e, bar) == 100 * LeanOf(e) <= bar * WeightOf(e)
ConfidenceAtLeast(e, bar) == WeightOf(e) >= bar * Cardinality(Participating(e))

\* expected_return and expected_risk of SwarmAgent._evidence, weighted.
Payoff(e, worth) ==
    SumOf([a \in Agents |-> worth[a] * e[a].confidence], Participating(e)) \div WeightOf(e)

\* The early returns of _decide_core: a hold no model is asked about.
HardHold(e) ==
    \/ \E a \in Voters : OverAge(e, a) /\ e[a].stance \notin {"NEUTRAL", "AVOID"}
    \/ \E a \in Agents : e[a].stance = "AVOID"
    \/ Cardinality(Participating(e)) < MinAgents
    \/ WeightOf(e) <= 0

\* forecast.probability_up: half plus half of lean times conviction.
ProbabilityUp(e) ==
    GreaterOf(500, LesserOf(9500,
        5000 + (25 * LeanOf(e)) \div Cardinality(Participating(e))))

Held == [action |-> "NEUTRAL", confidence |-> 0, win |-> 0, risk |-> 0, probe |-> FALSE]

DecideCore(e, regime) ==
    IF HardHold(e) THEN Held
    ELSE LET risk == Payoff(e, [a \in Agents |-> 3 * GreaterOf(e[a].score, -e[a].score)])
         IN [action |->
               IF ~ConfidenceAtLeast(e, Floor(regime)) \/ risk > MaxExpectedRisk THEN "NEUTRAL"
               ELSE IF ScoreAtLeast(e, 125) THEN "STRONG_BUY"
               ELSE IF ScoreAtLeast(e, 45)  THEN "BUY"
               ELSE IF ScoreAtMost(e, -125) THEN "STRONG_SELL"
               ELSE IF ScoreAtMost(e, -45)  THEN "SELL"
               ELSE "NEUTRAL",
             confidence |-> WeightOf(e) \div Cardinality(Participating(e)),
             win |-> Payoff(e, [a \in Agents |-> 4 * e[a].score]), risk |-> risk, probe |-> FALSE]

-----------------------------------------------------------------------------
(***************************************************************************)
(* _decide_with_llm_core: the model's view may only tighten.  An answer    *)
(* that fails the schema is a hold.                                        *)
(***************************************************************************)
ViewedStance(view, regime) ==
    IF \/ view.risk > MaxExpectedRisk
       \/ StanceScore[view.stance] > 0 /\ view.confidence < Floor(regime)
    THEN "NEUTRAL" ELSE view.stance

Tightens(stance, decision) == StanceScore[stance] < StanceScore[decision.action]

\* Defect: the model's stance replaces the specialists'.
DefectOverlay(decision, view, regime) ==
    IF view.stance = "invalid" THEN Held
    ELSE [action |-> ViewedStance(view, regime), confidence |-> view.confidence,
          win |-> view.win, risk |-> view.risk, probe |-> FALSE]

Overlay(decision, view, regime) ==
    LET stance == ViewedStance(view, regime)
    IN IF view.stance = "invalid" THEN Held
       ELSE IF ~Tightens(stance, decision) THEN decision
       ELSE [action |-> stance,
             confidence |-> IF StanceScore[stance] > 0
                            THEN LesserOf(view.confidence, decision.confidence)
                            ELSE view.confidence,
             win |-> view.win, risk |-> view.risk, probe |-> FALSE]

\* expected_value.record and _ev_gated, priced at the forecast the specialists made
\* before the model was asked; ten basis points of round-trip cost.
ExpectedValue(e, decision) ==
    LET p == ProbabilityUp(e)
    IN p * decision.win - (10000 - p) * decision.risk - 100000

EvGated(e, decision) ==
    IF EvGate /\ StanceScore[decision.action] > 0 /\ ExpectedValue(e, decision) < 0
    THEN [decision EXCEPT !.action = "NEUTRAL"] ELSE decision

-----------------------------------------------------------------------------
(***************************************************************************)
(* _explore: a hold with a recorded consensus may become a labelled probe. *)
(***************************************************************************)
Explorable(e, decision, regime) ==
    /\ decision.action = "NEUTRAL"
    /\ ~HardHold(e)
    /\ ScoreAtLeast(e, ProbeScore)
    /\ ConfidenceAtLeast(e, ProbeConfidence)
    /\ DecideCore(e, regime).risk <= MaxExpectedRisk
    /\ Playbook[regime].probes

Probe(e, decision) ==
    [decision EXCEPT !.action = "BUY", !.probe = TRUE,
                     !.confidence = WeightOf(e) \div Cardinality(Participating(e))]

\* sized_quantity: half of the plan at the floor, all of it at 0.85, then the
\* playbook's share, and never less than one unit of what the plan allowed.
SizedQuantity(plan, confidence, regime) ==
    LET floor == Floor(regime)
        span == 85 - floor
        progress == GreaterOf(0, LesserOf(span, confidence - floor))
        scaled == (plan * 50 * (span + progress) * Playbook[regime].size) \div (10000 * span)
    IN IF plan <= 0 THEN 0 ELSE GreaterOf(1, scaled)
=============================================================================
