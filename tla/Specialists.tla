----------------------------- MODULE Specialists -----------------------------
(***************************************************************************)
(* What one analysis tick hands to the CIO (intelligence/pipeline.py       *)
(* run_async, intelligence/freshness.py, agents/swarm.py): the age of each *)
(* source becomes a weight, the weight scales or silences each specialist, *)
(* and two desks say whether the book should act at all.                   *)
(*                                                                         *)
(* A tape is what the providers delivered on the tick: the age of every    *)
(* source in seconds, the score each specialist's own formula gives its    *)
(* inputs, the live quote, the regime and the attribution weights.  The    *)
(* formulas are not modelled, their scores are inputs.  Fractions are      *)
(* whole percents.                                                         *)
(***************************************************************************)
EXTENDS FiniteSums, Functions

Hour == 3600
Day == 24 * Hour
Absent == -1                      \* no observation, or one from the future

Voters == {"geopolitical", "commodity", "india", "us", "technical"}
DeskAgents == {"liquidity", "risk"}
Agents == Voters \cup DeskAgents

\* _freshness_sources
Sources == [geopolitical |-> {"news"}, commodity |-> {"macro"},
            india |-> {"news", "fundamentals"}, us |-> {"news", "macro", "fundamentals"},
            technical |-> {"price"}, liquidity |-> {"price"}, risk |-> {"price"}]
Streamed == {"price", "news"}
TTL == [price |-> 60, news |-> 1800, macro |-> 7 * Day, fundamentals |-> Day]

\* The conviction each specialist publishes on an Indian equity with all its inputs.
BaseConfidence ==
    [geopolitical |-> 76, commodity |-> 74, india |-> 80, us |-> 0, technical |-> 84]

LesserOf(a, b) == IF a < b THEN a ELSE b
GreaterOf(a, b) == IF a > b THEN a ELSE b

-----------------------------------------------------------------------------
(***************************************************************************)
(* FreshnessValidator.validate and the pipeline's use of it: a streamed    *)
(* source is current or worthless, a published one fades.                  *)
(***************************************************************************)
Current(source, age) == age # Absent /\ age <= TTL[source]

SourceWeight(source, age) ==
    IF age = Absent THEN 0
    ELSE IF Current(source, age) THEN 100
    ELSE GreaterOf(10, LesserOf(50, (100 * TTL[source]) \div age))

RequiredFreshness(a, ages) ==
    IF \E s \in Sources[a] \cap Streamed : ~Current(s, ages[s]) THEN 0
    ELSE Min({SourceWeight(s, ages[s]) : s \in Sources[a]})

RequiredAge(a, ages) == Max({GreaterOf(0, ages[s]) : s \in Sources[a]})

-----------------------------------------------------------------------------
\* SwarmAgent._stance
StanceOf(score) ==
    IF score >= 60 THEN "STRONG_BUY"
    ELSE IF score >= 15  THEN "BUY"
    ELSE IF score <= -60 THEN "STRONG_SELL"
    ELSE IF score <= -15 THEN "SELL"
    ELSE "NEUTRAL"

\* SwarmAgent._evidence: below a quarter of its weight a specialist is silent.
Scored(a, tape) ==
    LET weight == RequiredFreshness(a, tape.age)
    IN [stance     |-> IF weight > 25 THEN StanceOf(tape.score[a]) ELSE "NEUTRAL",
        confidence |-> (BaseConfidence[a] * weight) \div 100,
        score      |-> tape.score[a],
        age        |-> RequiredAge(a, tape.age)]

\* SwarmAgent._gate: a desk verdict under the same rule, with no forecast in it.
Gate(a, tape, observed, breached) ==
    LET weight == RequiredFreshness(a, tape.age)
        judges == observed /\ weight > 25
    IN [stance     |-> IF judges /\ breached THEN "AVOID" ELSE "NEUTRAL",
        confidence |-> IF ~judges THEN 0
                       ELSE ((IF breached THEN 90 ELSE 70) * weight) \div 100,
        score      |-> 0,
        age        |-> RequiredAge(a, tape.age)]

\* LiquidityDeskAgent: no two-sided quote, no verdict.
LiquidityDesk(tape) == Gate("liquidity", tape, tape.quote # "none", tape.quote = "torn")

\* The evidence of one tick; breached is the risk desk's verdict on the snapshot.
EvidenceOf(tape, breached) ==
    [a \in Agents |-> CASE a = "liquidity" -> LiquidityDesk(tape)
                        [] a = "risk"      -> Gate("risk", tape, TRUE, breached)
                        [] OTHER           -> Scored(a, tape)]

Convictions(evidence) == [a \in Agents |-> evidence[a].confidence]

\* _conflict_ratio at or above 0.40, over every agent, desks included.
Conflicted(evidence) ==
    LET Weigh(stances) == SumOf(Convictions(evidence),
                                {a \in Agents : evidence[a].stance \in stances})
        for == Weigh({"BUY", "STRONG_BUY"})
        against == Weigh({"SELL", "STRONG_SELL", "AVOID"})
    IN for + against > 0 /\ 100 * LesserOf(for, against) >= 40 * (for + against)

\* AgentAttributionEngine.weight_evidence: what each agent's record has earned it.
Attributed(evidence, trust) ==
    [a \in Agents |-> [evidence[a] EXCEPT
                         !.confidence = LesserOf(100, (@ * trust[a]) \div 100)]]
=============================================================================
