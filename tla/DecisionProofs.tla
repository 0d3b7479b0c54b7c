--------------------------- MODULE DecisionProofs ---------------------------
(***************************************************************************)
(* Theorems about DecisionCycle.tla: the limits every paper entry keeps at *)
(* its own moment, and what the model, the gates and the exploration       *)
(* budget may add to the specialists, for any symbols, groups, limits,     *)
(* prices, evidence, answers, phases, books and number of decisions.       *)
(* About AiBudget.tla, which meters the calls those decisions ask for:     *)
(* what the AI providers really spent stays within the daily limits, for   *)
(* any finitely many calls, scopes, chains of ledgers, allowances, days    *)
(* and answers.  And about TickFeed.tla, where the quotes and bars they    *)
(* are made on come from: bars say what their ticks say and a past quote   *)
(* is the newest of its moment, for any symbols, quotes, window and day    *)
(* lengths, bounds of the buffer and of the bars, and number of arrivals.  *)
(***************************************************************************)
EXTENDS DecisionCycle, AiBudget, TickFeed, FiniteSumTheorems, SequenceTheorems

-----------------------------------------------------------------------------
(* Arithmetic the desks and the plan share.                                *)

\* Min and Max of a pair, and of the four caps of a plan, are among them.
LEMMA OfPair ==
  ASSUME NEW i \in Int, NEW j \in Int
  PROVE  /\ Min({i, j}) \in {i, j} /\ Min({i, j}) <= i /\ Min({i, j}) <= j
         /\ Min({i, j}) \in Int
         /\ Max({i, j}) \in {i, j} /\ Max({i, j}) \in Int /\ Max({i, j}) >= i /\ Max({i, j}) >= j
<1>1. \E x \in {i, j} : \A y \in {i, j} : x <= y
  OBVIOUS
<1>2. \E x \in {i, j} : \A y \in {i, j} : x >= y
  OBVIOUS
<1>3. Min({i, j}) \in {i, j} /\ \A y \in {i, j} : Min({i, j}) <= y
  BY <1>1 DEF Min
<1>4. Max({i, j}) \in {i, j} /\ \A y \in {i, j} : Max({i, j}) >= y
  BY <1>2 DEF Max
<1>. QED  BY <1>3, <1>4

\* The least of four numbers is a number.
LEMMA OfFour ==
  ASSUME NEW i \in Int, NEW j \in Int, NEW k \in Int, NEW l \in Int
  PROVE  Min({i, j, k, l}) \in Int
<1>1. \E x \in {i, j} : \A y \in {i, j} : x <= y
  OBVIOUS
<1>2. \E x \in {k, l} : \A y \in {k, l} : x <= y
  OBVIOUS
<1>3. \E x \in {i, j, k, l} : \A y \in {i, j, k, l} : x <= y
  BY <1>1, <1>2
<1>4. Min({i, j, k, l}) \in {i, j, k, l}
  BY <1>3 DEF Min
<1>. QED  BY <1>4

\* A number divided by a positive one: how the quotient compares.
LEMMA Quotients ==
  /\ \A x \in Int, y \in Nat \ {0} : x \div y \in Int /\ y * (x \div y) <= x
  /\ \A x, k \in Int, y \in Nat \ {0} : x <= k * y => x \div y <= k
  /\ \A x, z \in Int, y \in Nat \ {0} : x <= z => x \div y <= z \div y
<1>1. \A x \in Int, y \in Nat \ {0} :
         x \div y \in Int /\ y * (x \div y) <= x /\ x < y * (x \div y) + y
  OBVIOUS
<1>2. ASSUME NEW x \in Int, NEW k \in Int, NEW y \in Nat \ {0}, NEW m \in Int,
             y * m <= x, x <= k * y
      PROVE  m <= k
  <2>1. CASE m >= k + 1
    <3>1. y * m >= y * (k + 1)
      BY <2>1, <1>2
    <3>2. y * (k + 1) = k * y + y
      OBVIOUS
    <3>. QED  BY <3>1, <3>2, <1>2
  <2>. QED  BY <2>1
<1>3. ASSUME NEW x \in Int, NEW z \in Int, NEW y \in Nat \ {0}, NEW m \in Int, NEW k \in Int,
             x <= z, y * m <= x, z < y * k + y
      PROVE  m <= k
  <2>1. CASE m >= k + 1
    <3>1. y * m >= y * (k + 1)
      BY <2>1, <1>3
    <3>2. y * (k + 1) = y * k + y
      OBVIOUS
    <3>. QED  BY <3>1, <3>2, <1>3
  <2>. QED  BY <2>1
<1>4. ASSUME NEW x \in Int, NEW k \in Int, NEW y \in Nat \ {0}, x <= k * y
      PROVE  x \div y <= k
  BY <1>1, <1>2, <1>4
<1>5. ASSUME NEW x \in Int, NEW z \in Int, NEW y \in Nat \ {0}, x <= z
      PROVE  x \div y <= z \div y
  BY <1>1, <1>3, <1>5
<1>. QED  BY <1>1, <1>4, <1>5

\* Products of positive numbers are positive.
LEMMA Products ==
  /\ \A x, y \in Nat : x * y \in Nat
  /\ \A x, y \in Nat \ {0} : x * y \in Nat \ {0}
OBVIOUS

-----------------------------------------------------------------------------
(* The evidence of a tick and the consensus formed of it.                  *)

\* What the consensus needs of the specialists' answers.
IsEvidence(e) ==
  \A x \in Agents : e[x].confidence \in Int /\ e[x].stance \in DOMAIN StanceScore

Decision(act, conf, win, risk, flag) ==
  [action |-> act, confidence |-> conf, win |-> win, risk |-> risk, probe |-> flag]

IsFlag(x) == x \in BOOLEAN

\* What the CIO hands on.
IsDecision(o) ==
  \E act, conf, win, risk, flag :
     /\ act \in DOMAIN StanceScore /\ conf \in Int /\ IsFlag(flag)
     /\ o = Decision(act, conf, win, risk, flag)

\* The fields of a decision.
LEMMA Decided ==
  ASSUME NEW act, NEW conf, NEW win, NEW risk, NEW flag
  PROVE  /\ Decision(act, conf, win, risk, flag).action = act
         /\ Decision(act, conf, win, risk, flag).confidence = conf
         /\ Decision(act, conf, win, risk, flag).probe = flag
BY DEF Decision

\* A decision whose action is withdrawn.
LEMMA Withdrawn ==
  ASSUME NEW act, NEW conf, NEW win, NEW risk, NEW flag,
         NEW o, o = Decision(act, conf, win, risk, flag),
         NEW p, p = [o EXCEPT !.action = "NEUTRAL"]
  PROVE  p = Decision("NEUTRAL", conf, win, risk, flag)
BY DEF Decision

\* What a decision consists of.
LEMMA DecisionFields ==
  ASSUME NEW o, IsDecision(o)
  PROVE  o.action \in DOMAIN StanceScore /\ o.confidence \in Int /\ o.probe \in BOOLEAN
<1>1. o.action \in DOMAIN StanceScore /\ o.confidence \in Int /\ IsFlag(o.probe)
  BY Decided DEF IsDecision
<1>. QED  BY <1>1 DEF IsFlag

\* The seven specialists are finitely many.
LEMMA FewAgents ==
  /\ IsFiniteSet(Agents)
  /\ \A e : IsFiniteSet(Participating(e)) /\ Participating(e) \subseteq Agents
<1>1. IsFiniteSet({"geopolitical"})
  BY FS_Singleton
<1>2. IsFiniteSet({"geopolitical"} \cup {"commodity"})
  BY <1>1, FS_AddElement
<1>3. IsFiniteSet({"geopolitical"} \cup {"commodity"} \cup {"india"})
  BY <1>2, FS_AddElement
<1>4. IsFiniteSet({"geopolitical"} \cup {"commodity"} \cup {"india"} \cup {"us"})
  BY <1>3, FS_AddElement
<1>5. IsFiniteSet({"geopolitical"} \cup {"commodity"} \cup {"india"} \cup {"us"}
                    \cup {"technical"})
  BY <1>4, FS_AddElement
<1>6. {"geopolitical"} \cup {"commodity"} \cup {"india"} \cup {"us"} \cup {"technical"} = Voters
  BY DEF Voters
<1>7. IsFiniteSet(Voters)
  BY <1>5, <1>6
<1>8. IsFiniteSet(Voters \cup {"liquidity"})
  BY <1>7, FS_AddElement
<1>9. IsFiniteSet(Voters \cup {"liquidity"} \cup {"risk"})
  BY <1>8, FS_AddElement
<1>10. Voters \cup {"liquidity"} \cup {"risk"} = Agents
  BY DEF Agents, DeskAgents
<1>11. \A e : Participating(e) \subseteq Voters
  BY DEF Participating
<1>. QED  BY <1>7, <1>9, <1>10, <1>11, FS_Subset DEF Agents

\* Freshness turns every age into a whole percent.
LEMMA FreshnessIsPercent ==
  ASSUME NEW tape \in Tape, NEW x \in Agents
  PROVE  RequiredFreshness(x, tape.age) \in 0 .. 100
<1>1. Sources[x] \subseteq DOMAIN TTL /\ Sources[x] # {}
  BY DEF Sources, TTL, Agents, Voters, DeskAgents
<1>2. \A s \in DOMAIN TTL : TTL[s] \in Nat \ {0}
  BY DEF TTL, Day, Hour
<1>3. \A s \in DOMAIN TTL : tape.age[s] \in Nat \cup {-1}
  BY DEF Tape, Absent
<1>4. \A s \in DOMAIN TTL : SourceWeight(s, tape.age[s]) \in 0 .. 100
  <2>1. SUFFICES ASSUME NEW s \in DOMAIN TTL PROVE SourceWeight(s, tape.age[s]) \in 0 .. 100
    OBVIOUS
  <2>2. CASE tape.age[s] = Absent \/ Current(s, tape.age[s])
    BY <2>2 DEF SourceWeight
  <2>3. CASE ~ (tape.age[s] = Absent \/ Current(s, tape.age[s]))
    <3>1. tape.age[s] \in Nat \ {0} /\ TTL[s] \in Nat
      BY <2>3, <1>2, <1>3 DEF Current, Absent
    <3>2. (100 * TTL[s]) \div tape.age[s] \in Int
      BY <3>1, Quotients
    <3>. QED  BY <2>3, <3>2 DEF SourceWeight, GreaterOf, LesserOf
  <2>. QED  BY <2>2, <2>3
<1>. DEFINE W == {SourceWeight(s, tape.age[s]) : s \in Sources[x]}
<1>5. W \subseteq 0 .. 100 /\ W # {}
  BY <1>1, <1>4
<1>6. \E k \in W : \A j \in W : k <= j
  BY <1>5, LeastOf
<1>7. Min(W) \in W
  BY <1>6 DEF Min
<1>. QED  BY <1>5, <1>7 DEF RequiredFreshness

\* What the tick hands to the CIO is evidence.
LEMMA EvidenceIsTyped ==
  ASSUME NEW tape \in Tape, NEW breached
  PROVE  IsEvidence(Attributed(EvidenceOf(tape, breached), tape.trust))
<1>. DEFINE raw == EvidenceOf(tape, breached)
<1>1. \A x \in Agents : RequiredFreshness(x, tape.age) \in Int
  BY FreshnessIsPercent
<1>2. \A n \in Int : StanceOf(n) \in DOMAIN StanceScore
  BY DEF StanceOf, StanceScore
<1>3. \A m \in Int, n \in Int : (m * n) \div 100 \in Int
  OBVIOUS
<1>4. \A x \in Voters : /\ raw[x] = Scored(x, tape)
                        /\ tape.score[x] \in Int /\ BaseConfidence[x] \in Int
  <2>1. ASSUME NEW x \in Voters PROVE raw[x] = Scored(x, tape)
    <3>1. x \in Agents /\ x # "liquidity" /\ x # "risk"
      BY DEF Agents, Voters
    <3>. QED  BY <3>1 DEF EvidenceOf
  <2>2. \A x \in Voters : tape.score[x] \in Int
    BY DEF Tape
  <2>3. \A x \in Voters : BaseConfidence[x] \in Int
    BY DEF BaseConfidence, Voters
  <2>. QED  BY <2>1, <2>2, <2>3
<1>5. raw["liquidity"] = LiquidityDesk(tape) /\ raw["risk"] = Gate("risk", tape, TRUE, breached)
  BY DEF EvidenceOf, Agents, DeskAgents
<1>6. \A x \in Voters : /\ raw[x].confidence \in Int
                        /\ raw[x].stance \in DOMAIN StanceScore
                        /\ "confidence" \in DOMAIN raw[x] /\ "stance" \in DOMAIN raw[x]
  <2>1. SUFFICES ASSUME NEW x \in Voters
                 PROVE  /\ Scored(x, tape).confidence \in Int
                        /\ Scored(x, tape).stance \in DOMAIN StanceScore
                        /\ "confidence" \in DOMAIN Scored(x, tape)
                        /\ "stance" \in DOMAIN Scored(x, tape)
    BY <1>4
  <2>2. (BaseConfidence[x] * RequiredFreshness(x, tape.age)) \div 100 \in Int
    BY <1>1, <1>3, <1>4 DEF Agents
  <2>3. StanceOf(tape.score[x]) \in DOMAIN StanceScore /\ "NEUTRAL" \in DOMAIN StanceScore
    BY <1>2, <1>4 DEF StanceScore
  <2>. QED  BY <2>2, <2>3 DEF Scored
<1>7. ASSUME NEW x \in DeskAgents, NEW observed, NEW fails
      PROVE  /\ Gate(x, tape, observed, fails).confidence \in Int
             /\ Gate(x, tape, observed, fails).stance \in DOMAIN StanceScore
             /\ "confidence" \in DOMAIN Gate(x, tape, observed, fails)
             /\ "stance" \in DOMAIN Gate(x, tape, observed, fails)
  <2>1. \A m \in {70, 90} : (m * RequiredFreshness(x, tape.age)) \div 100 \in Int
    BY <1>1, <1>3 DEF Agents
  <2>2. (IF fails THEN 90 ELSE 70) \in {70, 90}
    OBVIOUS
  <2>3. (IF observed /\ RequiredFreshness(x, tape.age) > 25 /\ fails THEN "AVOID" ELSE "NEUTRAL")
           \in DOMAIN StanceScore
    BY DEF StanceScore
  <2>. QED  BY <2>1, <2>2, <2>3 DEF Gate
<1>8. \A x \in Agents : /\ raw[x].confidence \in Int
                        /\ raw[x].stance \in DOMAIN StanceScore
                        /\ "confidence" \in DOMAIN raw[x] /\ "stance" \in DOMAIN raw[x]
  <2>1. "liquidity" \in DeskAgents /\ "risk" \in DeskAgents
    BY DEF DeskAgents
  <2>2. /\ raw["liquidity"].confidence \in Int
        /\ raw["liquidity"].stance \in DOMAIN StanceScore
        /\ "confidence" \in DOMAIN raw["liquidity"] /\ "stance" \in DOMAIN raw["liquidity"]
    BY <1>5, <1>7, <2>1 DEF LiquidityDesk
  <2>3. /\ raw["risk"].confidence \in Int
        /\ raw["risk"].stance \in DOMAIN StanceScore
        /\ "confidence" \in DOMAIN raw["risk"] /\ "stance" \in DOMAIN raw["risk"]
    BY <1>5, <1>7, <2>1
  <2>4. \A x \in Agents : x \in Voters \/ x = "liquidity" \/ x = "risk"
    BY DEF Agents, DeskAgents
  <2>. HIDE DEF raw
  <2>. QED  BY <1>6, <2>2, <2>3, <2>4
<1>9. \A x \in Agents : tape.trust[x] \in Int
  BY DEF Tape
<1>10. \A x \in Agents : LesserOf(100, (raw[x].confidence * tape.trust[x]) \div 100) \in Int
  BY <1>3, <1>8, <1>9 DEF LesserOf
<1>11. \A x \in Agents : Attributed(raw, tape.trust)[x]
            = [raw[x] EXCEPT !.confidence =
                 LesserOf(100, (raw[x].confidence * tape.trust[x]) \div 100)]
  BY DEF Attributed
<1>12. \A x \in Agents : /\ Attributed(raw, tape.trust)[x].confidence \in Int
                         /\ Attributed(raw, tape.trust)[x].stance = raw[x].stance
  <2>1. ASSUME NEW o, "confidence" \in DOMAIN o, "stance" \in DOMAIN o, NEW n
        PROVE  [o EXCEPT !.confidence = n].confidence = n /\
               [o EXCEPT !.confidence = n].stance = o.stance
    BY <2>1
  <2>2. ASSUME NEW x \in Agents
        PROVE  /\ Attributed(raw, tape.trust)[x].confidence \in Int
               /\ Attributed(raw, tape.trust)[x].stance = raw[x].stance
    <3>. DEFINE n == LesserOf(100, (raw[x].confidence * tape.trust[x]) \div 100)
    <3>1. n \in Int
      BY <1>10
    <3>2. Attributed(raw, tape.trust)[x] = [raw[x] EXCEPT !.confidence = n]
      BY <1>11
    <3>3. "confidence" \in DOMAIN raw[x] /\ "stance" \in DOMAIN raw[x]
      BY <1>8
    <3>. HIDE DEF raw, n
    <3>. QED  BY <2>1, <3>1, <3>2, <3>3
  <2>. QED  BY <2>2
<1>. QED  BY <1>8, <1>12 DEF IsEvidence

\* The weights of the evidence are numbers.
LEMMA WeightsAreNumbers ==
  ASSUME NEW e, IsEvidence(e)
  PROVE  WeightOf(e) \in Int /\ LeanOf(e) \in Int /\ Cardinality(Participating(e)) \in Nat
<1>1. \A x \in Agents : Convictions(e)[x] \in Int
  BY DEF IsEvidence, Convictions
<1>2. \A t \in DOMAIN StanceScore : StanceScore[t] \in Int
  BY DEF StanceScore
<1>3. \A x \in Agents : Leanings(e)[x] \in Int
  BY <1>2 DEF IsEvidence, Leanings
<1>. QED  BY <1>1, <1>3, FewAgents, SumInt, FS_CardinalityType DEF WeightOf, LeanOf

-----------------------------------------------------------------------------
(* What the answer of the model and the gates make of the consensus.       *)

\* The confidence floor of every regime leaves room for the plan to grow, and no regime
\* sizes above the plan.
LEMMA Regimes ==
  ASSUME NEW regime \in DOMAIN Playbook
  PROVE  Floor(regime) \in 1 .. 84 /\ Playbook[regime].size \in 1 .. 100
<1>1. Playbook[regime].raise \in 0 .. 15 /\ Playbook[regime].size \in 1 .. 100
  BY DEF Playbook
<1>2. BaseFloor \in 1 .. 69
  BY PolicyAssumption
<1>. QED  BY <1>1, <1>2 DEF Floor

\* Decision o is no stronger than decision own: it buys where own buys, at no more
\* confidence.
Tightened(o, own) ==
  StanceScore[o.action] > 0 =>
    StanceScore[own.action] > 0 /\ o.confidence <= own.confidence

\* Holding is a decision.
LEMMA HoldIsDecision ==
  IsDecision(Held) /\ Held.probe = FALSE /\ StanceScore[Held.action] = 0
<1>0. PICK no : no = FALSE
  OBVIOUS
<1>1. Held = Decision("NEUTRAL", 0, 0, 0, no)
  BY <1>0 DEF Held, Decision
<1>2. "NEUTRAL" \in DOMAIN StanceScore /\ StanceScore["NEUTRAL"] = 0
  BY DEF StanceScore
<1>3. Held.action = "NEUTRAL" /\ Held.probe = no
  BY <1>1, Decided
<1>4. IsFlag(no)
  BY <1>0 DEF IsFlag
<1>5. IsDecision(Held)
  BY <1>1, <1>2, <1>4 DEF IsDecision
<1>6. Held.probe = FALSE
  BY DEF Held
<1>. QED  BY <1>2, <1>3, <1>5, <1>6

\* The consensus is a decision without a probe, and what it buys is the specialists' own
\* buy at their own floor (atlas.py _decide_core).
LEMMA CoreBuys ==
  ASSUME NEW e, IsEvidence(e), NEW regime \in DOMAIN Playbook
  PROVE  /\ IsDecision(DecideCore(e, regime))
         /\ DecideCore(e, regime).probe = FALSE
         /\ StanceScore[DecideCore(e, regime).action] > 0 => OwnBuy(e, regime)
<1>. DEFINE o == DecideCore(e, regime)
<1>1. CASE HardHold(e)
  <2>1. o = Held
    BY <1>1 DEF DecideCore
  <2>. QED  BY <2>1, HoldIsDecision
<1>2. CASE ~ HardHold(e)
  <2>1. PICK risk : risk = Payoff(e, [x \in Agents |-> 3 * GreaterOf(e[x].score, -e[x].score)])
    OBVIOUS
  <2>2. PICK win : win = Payoff(e, [x \in Agents |-> 4 * e[x].score])
    OBVIOUS
  <2>. DEFINE act == IF ~ConfidenceAtLeast(e, Floor(regime)) \/ risk > MaxExpectedRisk
                     THEN "NEUTRAL"
                     ELSE IF ScoreAtLeast(e, 125) THEN "STRONG_BUY"
                     ELSE IF ScoreAtLeast(e, 45)  THEN "BUY"
                     ELSE IF ScoreAtMost(e, -125) THEN "STRONG_SELL"
                     ELSE IF ScoreAtMost(e, -45)  THEN "SELL"
                     ELSE "NEUTRAL"
              conf == WeightOf(e) \div Cardinality(Participating(e))
  <2>0. PICK no : no = FALSE
    OBVIOUS
  <2>3. o = Decision(act, conf, win, risk, no)
    BY <1>2, <2>0, <2>1, <2>2 DEF DecideCore, Decision
  <2>4. WeightOf(e) \in Int /\ LeanOf(e) \in Int /\ Cardinality(Participating(e)) \in Nat
    BY WeightsAreNumbers
  <2>5. /\ Cardinality(Participating(e)) >= 1 /\ WeightOf(e) > 0
        /\ \A x \in Agents : e[x].stance # "AVOID"
    BY <1>2, <2>4, PolicyAssumption DEF HardHold
  <2>6. conf \in Int
    BY <2>4, <2>5, Quotients
  <2>7. act \in {"NEUTRAL", "STRONG_BUY", "BUY", "STRONG_SELL", "SELL"}
    OBVIOUS
  <2>8. act \in {"STRONG_BUY", "BUY"} =>
          /\ ConfidenceAtLeast(e, Floor(regime))
          /\ ScoreAtLeast(e, 125) \/ ScoreAtLeast(e, 45)
    OBVIOUS
  <2>. HIDE DEF act, conf
  <2>9. IsDecision(o) /\ o.probe = FALSE /\ o.action = act
    <3>1. act \in DOMAIN StanceScore
      BY <2>7 DEF StanceScore
    <3>2. IsFlag(no)
      BY <2>0 DEF IsFlag
    <3>. HIDE DEF o
    <3>3. o.probe = no /\ o.action = act
      BY <2>3, Decided
    <3>4. IsDecision(o)
      BY <2>3, <2>6, <3>1, <3>2 DEF IsDecision
    <3>5. o.probe = FALSE
      BY <2>0, <3>3
    <3>. QED  BY <3>3, <3>4, <3>5
  <2>10. StanceScore[act] > 0 => act \in {"STRONG_BUY", "BUY"}
    BY <2>7 DEF StanceScore
  <2>11. act \in {"STRONG_BUY", "BUY"} => OwnBuy(e, regime)
    BY <2>4, <2>5, <2>8 DEF OwnBuy, ConfidenceAtLeast, ScoreAtLeast
  <2>. QED  BY <2>9, <2>10, <2>11
<1>. QED  BY <1>1, <1>2

\* The model's view laid over the consensus is no stronger than it
\* (atlas.py _decide_with_llm_core).
LEMMA OverlayTightens ==
  ASSUME NEW own, IsDecision(own), own.probe = FALSE, NEW view \in View, NEW regime
  PROVE  /\ IsDecision(Overlay(own, view, regime))
         /\ Overlay(own, view, regime).probe = FALSE
         /\ Tightened(Overlay(own, view, regime), own)
<1>. DEFINE o == Overlay(own, view, regime)
<1>1. CASE view.stance = "invalid"
  <2>1. o = Held
    BY <1>1 DEF Overlay
  <2>. QED  BY <2>1, HoldIsDecision DEF Tightened
<1>2. CASE view.stance # "invalid" /\ ~ Tightens(ViewedStance(view, regime), own)
  <2>1. o = own
    BY <1>2 DEF Overlay
  <2>2. own.confidence \in Int
    BY DecisionFields
  <2>. QED  BY <2>1, <2>2 DEF Tightened
<1>3. CASE view.stance # "invalid" /\ Tightens(ViewedStance(view, regime), own)
  <2>1. PICK t : t = ViewedStance(view, regime)
    OBVIOUS
  <2>2. t \in DOMAIN StanceScore /\ StanceScore[t] < StanceScore[own.action]
    <3>1. view.stance \in DOMAIN StanceScore
      BY <1>3 DEF View
    <3>2. "NEUTRAL" \in DOMAIN StanceScore
      BY DEF StanceScore
    <3>. QED  BY <1>3, <2>1, <3>1, <3>2 DEF ViewedStance, Tightens
  <2>. DEFINE c == IF StanceScore[t] > 0 THEN LesserOf(view.confidence, own.confidence)
                   ELSE view.confidence
  <2>0. PICK no : no = FALSE
    OBVIOUS
  <2>3. o = Decision(t, c, view.win, view.risk, no)
    BY <1>3, <2>0, <2>1 DEF Overlay, Decision
  <2>4. view.confidence \in Int /\ own.confidence \in Int /\ own.action \in DOMAIN StanceScore
    BY DecisionFields DEF View
  <2>5. c \in Int /\ (StanceScore[t] > 0 => c <= own.confidence)
    BY <2>4 DEF LesserOf
  <2>6. \A u \in DOMAIN StanceScore : StanceScore[u] \in Int
    BY DEF StanceScore
  <2>. HIDE DEF c, o
  <2>7. o.action = t /\ o.confidence = c /\ o.probe = no
    BY <2>3, Decided
  <2>8. IsDecision(o)
    <3>1. IsFlag(no)
      BY <2>0 DEF IsFlag
    <3>. QED  BY <2>2, <2>3, <2>5, <3>1 DEF IsDecision
  <2>9. StanceScore[t] > 0 => StanceScore[own.action] > 0
    BY <2>2, <2>4, <2>6
  <2>10. o.probe = FALSE
    BY <2>0, <2>7
  <2>11. Tightened(o, own)
    BY <2>5, <2>7, <2>9 DEF Tightened
  <2>. QED  BY <2>8, <2>10, <2>11 DEF o
<1>. QED  BY <1>1, <1>2, <1>3

\* The expected-value gate changes a buy into a hold or nothing.
LEMMA GateTightens ==
  ASSUME NEW o, IsDecision(o), o.probe = FALSE, NEW own, Tightened(o, own), NEW e
  PROVE  /\ IsDecision(EvGated(e, o)) /\ EvGated(e, o).probe = FALSE
         /\ Tightened(EvGated(e, o), own)
<1>0. PICK act, conf, win, risk, flag :
        /\ act \in DOMAIN StanceScore /\ conf \in Int /\ IsFlag(flag)
        /\ o = Decision(act, conf, win, risk, flag)
  BY DEF IsDecision
<1>1. CASE EvGated(e, o) = o
  BY <1>1
<1>2. CASE EvGated(e, o) = [o EXCEPT !.action = "NEUTRAL"]
  <2>1. EvGated(e, o) = Decision("NEUTRAL", conf, win, risk, flag)
    BY <1>0, <1>2, Withdrawn
  <2>2. "NEUTRAL" \in DOMAIN StanceScore /\ StanceScore["NEUTRAL"] = 0
    BY DEF StanceScore
  <2>3. EvGated(e, o).action = "NEUTRAL" /\ EvGated(e, o).probe = flag /\ o.probe = flag
    BY <1>0, <2>1, Decided
  <2>4. IsDecision(EvGated(e, o))
    BY <1>0, <2>1, <2>2 DEF IsDecision
  <2>5. EvGated(e, o).probe = FALSE
    BY <2>3
  <2>. QED  BY <2>2, <2>3, <2>4, <2>5 DEF Tightened
<1>. QED  BY <1>1, <1>2 DEF EvGated

\* A probe is a decision and says so.
LEMMA ProbeIsLabelled ==
  ASSUME NEW e, IsEvidence(e), NEW o, IsDecision(o), ~ HardHold(e)
  PROVE  IsDecision(Probe(e, o)) /\ Probe(e, o).probe = TRUE
<1>. DEFINE c == WeightOf(e) \div Cardinality(Participating(e))
<1>0. PICK act, conf, win, risk, flag :
        /\ act \in DOMAIN StanceScore /\ conf \in Int /\ IsFlag(flag)
        /\ o = Decision(act, conf, win, risk, flag)
  BY DEF IsDecision
<1>1. WeightOf(e) \in Int /\ Cardinality(Participating(e)) \in Nat
  BY WeightsAreNumbers
<1>2. Cardinality(Participating(e)) >= 1
  BY <1>1, PolicyAssumption DEF HardHold
<1>3. c \in Int
  BY <1>1, <1>2, Quotients
<1>9. PICK yes : yes = TRUE
  OBVIOUS
<1>4. Probe(e, o) = [o EXCEPT !.action = "BUY", !.probe = yes, !.confidence = c]
  BY <1>9 DEF Probe
<1>. HIDE DEF c
<1>5. Probe(e, o) = Decision("BUY", c, win, risk, yes)
  <2>. PICK p : p = Probe(e, o)
    OBVIOUS
  <2>1. p = [o EXCEPT !.action = "BUY", !.probe = yes, !.confidence = c]
    BY <1>4
  <2>2. p = Decision("BUY", c, win, risk, yes)
    BY <1>0, <2>1 DEF Decision
  <2>. QED  BY <2>2
<1>6. "BUY" \in DOMAIN StanceScore
  BY DEF StanceScore
<1>7. IsDecision(Probe(e, o))
  <2>1. IsFlag(yes)
    BY <1>9 DEF IsFlag
  <2>. QED  BY <1>3, <1>5, <1>6, <2>1 DEF IsDecision
<1>8. Probe(e, o).probe = yes
  BY <1>5, Decided
<1>. QED  BY <1>7, <1>8, <1>9

\* sized_quantity gives no more than the plan, and no more for less confidence.
LEMMA SizedWithinPlan ==
  ASSUME NEW regime \in DOMAIN Playbook, NEW plan \in Int, NEW c \in Int
  PROVE  /\ SizedQuantity(plan, c, regime) \in Nat
         /\ plan > 0 => SizedQuantity(plan, c, regime) <= plan
         /\ \A k \in Int :
              c <= k => SizedQuantity(plan, c, regime) <= SizedQuantity(plan, k, regime)
<1>. DEFINE span == 85 - Floor(regime)
            Progress(k) == GreaterOf(0, LesserOf(span, k - Floor(regime)))
            size == Playbook[regime].size
            Raw(k) == plan * 50 * (span + Progress(k)) * size
            Scaled(k) == Raw(k) \div (10000 * span)
<1>1. span \in Nat \ {0} /\ size \in 1 .. 100 /\ Floor(regime) \in Nat
  BY Regimes
<1>2. \A k \in Int : Progress(k) \in 0 .. span
  BY <1>1 DEF GreaterOf, LesserOf
<1>3. \A k, l \in Int : k <= l => Progress(k) <= Progress(l)
  BY <1>1 DEF GreaterOf, LesserOf
<1>4. \A k : SizedQuantity(plan, k, regime) = IF plan <= 0 THEN 0 ELSE GreaterOf(1, Scaled(k))
  BY DEF SizedQuantity
<1>5. CASE plan <= 0
  BY <1>4, <1>5
<1>6. CASE plan > 0
  <2>0. plan \in Nat \ {0} /\ 10000 * span \in Nat \ {0}
    BY <1>1, <1>6
  <2>1. ASSUME NEW k \in Int
        PROVE  Raw(k) \in Int /\ Raw(k) <= plan * (10000 * span)
    <3>. HIDE DEF span, Progress, size
    <3>1. PICK g \in 0 .. span : g = Progress(k)
      BY <1>2
    <3>2. (span + g) * size \in Nat /\ (span + g) * size <= (2 * span) * 100
      <4>1. (span + g) * size <= (span + g) * 100
        BY <1>1, <3>1
      <4>. QED  BY <4>1, <1>1, <3>1
    <3>3. PICK m \in Nat : m = (span + g) * size
      BY <3>2
    <3>4. (plan * 50) * m <= (plan * 50) * (200 * span)
      BY <2>0, <1>1, <3>2, <3>3
    <3>5. (plan * 50) * (200 * span) = plan * (10000 * span)
      BY <2>0, <1>1
    <3>6. plan * 50 * (span + g) * size = (plan * 50) * m
      BY <2>0, <1>1, <3>1, <3>3
    <3>. QED  BY <3>1, <3>3, <3>4, <3>5, <3>6, <2>0
  <2>2. ASSUME NEW k \in Int, NEW l \in Int, k <= l
        PROVE  Raw(k) <= Raw(l)
    <3>. HIDE DEF span, Progress, size
    <3>1. PICK g \in 0 .. span, h \in 0 .. span :
             g = Progress(k) /\ h = Progress(l) /\ g <= h
      BY <1>2, <1>3, <2>2
    <3>2. (plan * 50 * size) * (span + g) <= (plan * 50 * size) * (span + h)
      <4>1. plan * 50 * size \in Nat
        BY <2>0, <1>1
      <4>2. PICK m \in Nat : m = plan * 50 * size
        BY <4>1
      <4>3. m * (span + g) <= m * (span + h)
        BY <3>1, <1>1
      <4>. QED  BY <4>2, <4>3
    <3>3. \A x, y, z \in Int : x * y * z = (x * z) * y
      OBVIOUS
    <3>4. /\ plan * 50 * (span + g) * size = (plan * 50 * size) * (span + g)
          /\ plan * 50 * (span + h) * size = (plan * 50 * size) * (span + h)
      BY <3>1, <3>3, <2>0, <1>1
    <3>. QED  BY <3>1, <3>2, <3>4
  <2>. HIDE DEF span, Raw
  <2>3. ASSUME NEW k \in Int PROVE Scaled(k) \in Int /\ Scaled(k) <= plan
    <3>1. PICK x \in Int : x = Raw(k) /\ x <= plan * (10000 * span)
      BY <2>1
    <3>2. PICK y \in Nat \ {0} : y = 10000 * span
      BY <2>0
    <3>3. x \div y \in Int /\ x <= plan * y
      BY <3>1, <3>2, Quotients
    <3>4. \A u, k2 \in Int, v \in Nat \ {0} : u <= k2 * v => u \div v <= k2
      BY Quotients
    <3>5. x \div y <= plan
      BY <2>0, <3>3, <3>4
    <3>. QED  BY <3>1, <3>2, <3>3, <3>5
  <2>4. ASSUME NEW k \in Int, NEW l \in Int, k <= l PROVE Scaled(k) <= Scaled(l)
    <3>1. PICK x \in Int, z \in Int : x = Raw(k) /\ z = Raw(l) /\ x <= z
      BY <2>1, <2>2, <2>4
    <3>2. PICK y \in Nat \ {0} : y = 10000 * span
      BY <2>0
    <3>3. x \div y <= z \div y
      BY <3>1, Quotients
    <3>. QED  BY <3>1, <3>2, <3>3
  <2>. HIDE DEF Scaled
  <2>. QED  BY <1>4, <1>6, <2>3, <2>4 DEF GreaterOf
<1>. QED  BY <1>5, <1>6

-----------------------------------------------------------------------------
(* The book: what it is worth, and what an entry does to it.               *)

IsBook(b) ==
  b \in [held : [Symbols -> Nat], mark : [Symbols -> Nat \ {0}], cash : Int, opening : Int,
         peak : Int]

\* Exposures are numbers, and so is what is made of them.
LEMMA BookIsNumbers ==
  ASSUME NEW b, IsBook(b)
  PROVE  /\ \A s \in Symbols : ExposureOf(b, s) \in Nat /\ Exposures(b)[s] = ExposureOf(b, s)
         /\ \A S \in SUBSET Symbols : IsFiniteSet(S) /\ Gross(b, S) \in Int
         /\ GrossOf(b) \in Nat /\ EquityOf(b) \in Int
<1>1. \A s \in Symbols : b.held[s] \in Nat /\ b.mark[s] \in Nat /\ b.cash \in Int
  BY DEF IsBook
<1>2. \A s \in Symbols : ExposureOf(b, s) \in Nat /\ Exposures(b)[s] = ExposureOf(b, s)
  BY <1>1, Products DEF ExposureOf, Exposures
<1>3. \A S \in SUBSET Symbols : IsFiniteSet(S)
  BY LimitsAssumption, FS_Subset
<1>4. \A S \in SUBSET Symbols : Gross(b, S) \in Int
  BY <1>2, <1>3, SumInt DEF Gross
<1>5. GrossOf(b) \in Nat
  BY <1>2, LimitsAssumption, SumNat DEF Gross, GrossOf
<1>6. b.cash \in Int
  BY DEF IsBook
<1>7. EquityOf(b) \in Int
  BY <1>5, <1>6 DEF EquityOf
<1>. QED  BY <1>2, <1>3, <1>4, <1>5, <1>7

\* Recording the peak changes nothing that is held or priced.
LEMMA RecordedBook ==
  ASSUME NEW b, IsBook(b)
  PROVE  /\ IsBook(Recorded(b))
         /\ Recorded(b).held = b.held /\ Recorded(b).mark = b.mark /\ Recorded(b).cash = b.cash
         /\ Recorded(b).opening = b.opening
         /\ \A s \in Symbols : ExposureOf(Recorded(b), s) = ExposureOf(b, s)
         /\ \A S : Gross(Recorded(b), S) = Gross(b, S)
         /\ GrossOf(Recorded(b)) = GrossOf(b) /\ EquityOf(Recorded(b)) = EquityOf(b)
         /\ OpenIn(Recorded(b)) = OpenIn(b)
<1>1. PICK p \in Int : p = GreaterOf(b.peak, EquityOf(b))
  BY BookIsNumbers DEF IsBook, GreaterOf
<1>2. PICK r : r = Recorded(b)
  OBVIOUS
<1>3. r = [b EXCEPT !.peak = p]
  BY <1>1, <1>2 DEF Recorded
<1>4. IsBook(r) /\ r.held = b.held /\ r.mark = b.mark /\ r.cash = b.cash /\ r.opening = b.opening
  BY <1>1, <1>3 DEF IsBook
<1>5. \A s : ExposureOf(r, s) = ExposureOf(b, s)
  BY <1>4 DEF ExposureOf
<1>6. Exposures(r) = Exposures(b)
  BY <1>5 DEF Exposures
<1>7. \A S : Gross(r, S) = Gross(b, S)
  BY <1>6 DEF Gross
<1>8. GrossOf(r) = GrossOf(b) /\ EquityOf(r) = EquityOf(b)
  BY <1>4, <1>7 DEF GrossOf, EquityOf
<1>9. OpenIn(r) = OpenIn(b)
  BY <1>4 DEF OpenIn
<1>. QED  BY <1>2, <1>4, <1>5, <1>7, <1>8, <1>9

EntryOf(b, s, quantity, cash) == [b EXCEPT !.held[s] = quantity, !.cash = cash]

\* An entry of a symbol that was not held adds its notional to its exposure, and one
\* position.
LEMMA EntryAdds ==
  ASSUME NEW b, IsBook(b), NEW s \in Symbols, b.held[s] = 0, NEW quantity \in Nat \ {0},
         NEW cash \in Int
  PROVE  /\ IsBook(EntryOf(b, s, quantity, cash)) /\ EntryOf(b, s, quantity, cash).cash = cash
         /\ EntryOf(b, s, quantity, cash).mark = b.mark
         /\ EntryOf(b, s, quantity, cash).held = [b.held EXCEPT ![s] = quantity]
         /\ ExposureOf(EntryOf(b, s, quantity, cash), s) = quantity * b.mark[s]
         /\ ExposureOf(b, s) = 0
         /\ Cardinality(OpenIn(b)) \in Nat
         /\ Cardinality(OpenIn(EntryOf(b, s, quantity, cash)))
              = Cardinality(OpenIn(b)) + 1
<1>0. PICK after : after = EntryOf(b, s, quantity, cash)
  OBVIOUS
<1>1. /\ IsBook(after) /\ after.cash = cash /\ after.mark = b.mark
      /\ after.held = [b.held EXCEPT ![s] = quantity]
  <2>1. b.held \in [Symbols -> Nat]
    BY DEF IsBook
  <2>2. PICK f \in [Symbols -> Nat] : f = [b.held EXCEPT ![s] = quantity]
    BY <2>1
  <2>3. PICK next : next = [b EXCEPT !.held = f, !.cash = cash]
    OBVIOUS
  <2>4. after = next
    BY <1>0, <2>2, <2>3 DEF EntryOf
  <2>5. IsBook(next) /\ next.cash = cash /\ next.mark = b.mark /\ next.held = f
    BY <2>2, <2>3 DEF IsBook
  <2>. QED  BY <2>2, <2>4, <2>5
<1>2. ExposureOf(after, s) = quantity * b.mark[s] /\ b.mark[s] \in Nat
  BY <1>1 DEF ExposureOf, IsBook
<1>3. ExposureOf(b, s) = 0
  BY <1>2 DEF ExposureOf
<1>4. OpenIn(after) = OpenIn(b) \cup {s} /\ s \notin OpenIn(b)
  BY <1>1 DEF OpenIn, IsBook
<1>5. IsFiniteSet(OpenIn(b))
  BY LimitsAssumption, FS_Subset DEF OpenIn
<1>6. /\ Cardinality(OpenIn(b)) \in Nat
      /\ Cardinality(OpenIn(after)) = Cardinality(OpenIn(b)) + 1
  BY <1>4, <1>5, FS_AddElement, FS_CardinalityType
<1>. QED  BY <1>0, <1>1, <1>2, <1>3, <1>6

\* And adds it to every group it is in.
LEMMA EntryAddsTo ==
  ASSUME NEW b, IsBook(b), NEW s \in Symbols, b.held[s] = 0, NEW quantity \in Nat \ {0},
         NEW cash \in Int, NEW S \in SUBSET Symbols, s \in S
  PROVE  Gross(EntryOf(b, s, quantity, cash), S) = Gross(b, S) + quantity * b.mark[s]
<1>1. PICK after : after = EntryOf(b, s, quantity, cash)
  OBVIOUS
<1>2. /\ IsBook(after) /\ after.mark = b.mark /\ after.held = [b.held EXCEPT ![s] = quantity]
      /\ ExposureOf(after, s) = quantity * b.mark[s] /\ ExposureOf(b, s) = 0
  BY <1>1, EntryAdds
<1>3. \A x \in Symbols : x # s => ExposureOf(after, x) = ExposureOf(b, x)
  BY <1>2 DEF ExposureOf, IsBook
<1>4. PICK f, g : f = Exposures(b) /\ g = Exposures(after)
  OBVIOUS
<1>5. \A x \in S : f[x] \in Int /\ g[x] \in Int /\ (x # s => f[x] = g[x])
  BY <1>2, <1>3, <1>4, BookIsNumbers
<1>6. IsFiniteSet(S)
  BY BookIsNumbers
<1>7. f[s] = 0 /\ g[s] = quantity * b.mark[s]
  BY <1>2, <1>4, BookIsNumbers
<1>8. SumOf(f, S) \in Int
  BY <1>5, <1>6, SumInt
<1>9. SumOf(g, S) = SumOf(f, S) - f[s] + g[s]
  BY <1>5, <1>6, SumChange
<1>10. g[s] \in Int
  BY <1>5
<1>11. SumOf(g, S) = SumOf(f, S) + g[s]
  BY <1>7, <1>8, <1>9, <1>10
<1>. QED  BY <1>1, <1>4, <1>7, <1>11 DEF Gross

\* The plan's quantity and the probe's are whole numbers.
LEMMA QuantitiesAreNumbers ==
  ASSUME NEW b, IsBook(b), NEW price \in Nat \ {0}
  PROVE  /\ PlanQuantity(b, price) \in Int
         /\ ProbeQuantity(b, price) \in Int
         /\ 100 * (ProbeQuantity(b, price) * price) <= ProbeFraction * EquityOf(b)
<1>1. PICK q \in Int : q = EquityOf(b)
  BY BookIsNumbers
<1>2. PICK g \in Int : g = GrossOf(b)
  BY BookIsNumbers
<1>3. /\ StopFraction \in Nat \ {0} /\ TradeRisk \in Int /\ PositionCap \in Int
      /\ TradeCap \in Int /\ CashReserve \in Int /\ ProbeFraction \in Int
  BY LimitsAssumption
<1>4. price * StopFraction \in Nat \ {0} /\ 100 * price \in Nat \ {0}
  BY <1>3, Products
<1>5. /\ (q * TradeRisk) \div (price * StopFraction) \in Int
      /\ (q * PositionCap) \div (100 * price) \in Int
      /\ (q * TradeCap) \div (100 * price) \in Int
  BY <1>3, <1>4, Quotients
<1>6. (q * (100 - CashReserve)) \div 100 - g \in Int
  BY <1>3, Quotients
<1>. DEFINE d == (q * (100 - CashReserve)) \div 100 - g
<1>7. (IF d < 0 THEN 0 ELSE d) \div price \in Int
  BY <1>6, Quotients
<1>. DEFINE least == Min({(q * TradeRisk) \div (price * StopFraction),
                          (q * PositionCap) \div (100 * price),
                          (q * TradeCap) \div (100 * price),
                          (IF d < 0 THEN 0 ELSE d) \div price})
<1>8. least \in Int
  BY <1>5, <1>7, OfFour
<1>9. PlanQuantity(b, price) = IF price <= 0 \/ q <= 0 THEN 0 ELSE Max({0, least})
  BY <1>1, <1>2 DEF PlanQuantity
<1>. HIDE DEF least
<1>10. PlanQuantity(b, price) \in Int
  <2>1. PICK k \in Int : k = least
    BY <1>8
  <2>2. PICK z \in Int : z = 0
    OBVIOUS
  <2>3. Max({z, k}) \in Int
    BY OfPair
  <2>. QED  BY <1>9, <2>1, <2>2, <2>3
<1>11. PICK n \in Int, y \in Nat \ {0} : n = q * ProbeFraction /\ y = 100 * price
  BY <1>3, <1>4
<1>12. n \div y \in Int /\ y * (n \div y) <= n
  BY Quotients
<1>13. ProbeQuantity(b, price) = n \div y
  BY <1>1, <1>11 DEF ProbeQuantity
<1>14. PICK m \in Int : m = n \div y
  BY <1>12
<1>15. 100 * (m * price) = y * m
  BY <1>11
<1>16. n = ProbeFraction * q
  BY <1>3, <1>11
<1>. QED  BY <1>1, <1>10, <1>12, <1>13, <1>14, <1>15, <1>16

-----------------------------------------------------------------------------
(* The invariant.                                                          *)

\* The decision in flight, from the snapshot it was formed on to its submission.
InFlight(stage, s, at, price, plan, evidence, regime, own, decision) ==
  [stage |-> stage, subject |-> s, at |-> at, price |-> price, plan |-> plan,
   evidence |-> evidence, regime |-> regime, own |-> own, decision |-> decision]

Shaped(p) ==
  \E stage, s, at, price, plan, evidence, regime, own, decision :
     p = InFlight(stage, s, at, price, plan, evidence, regime, own, decision)

\* The same decision at its next stage.
Moved(p, stage, decision) == [p EXCEPT !.stage = stage, !.decision = decision]

\* A decision is its specialists' own, tightened, or a probe that its evidence allows.
Formed(p, now) ==
  /\ Shaped(p)
  /\ p.stage \in {"asked", "answered", "proposed"}
  /\ p.subject \in Symbols /\ p.at \in 0 .. now /\ p.price \in Nat \ {0} /\ p.plan \in Int
  /\ IsEvidence(p.evidence) /\ p.regime \in DOMAIN Playbook
  /\ p.own = DecideCore(p.evidence, p.regime)
  /\ IsDecision(p.decision)
  /\ p.decision.probe = FALSE => Tightened(p.decision, p.own)
  /\ p.decision.probe = TRUE => /\ p.stage = "proposed"
                                /\ Playbook[p.regime].probes
                                /\ ScoreAtLeast(p.evidence, ProbeScore)

\* A decision that has been submitted or refused waits for its row.
ClosedDecision(p, now) ==
  p.stage \in {"filled", "refused"} /\ p.at \in 0 .. now /\ p.probe \in BOOLEAN

PendingInv(p, now) == p = None \/ Formed(p, now) \/ ClosedDecision(p, now)

WorldInv ==
  /\ clock \in 0 .. LastTick
  /\ IsBook(book)
  /\ cooldown \in [Symbols -> Nat]

\* A probe in flight, and one that was filled.
Probing(p) ==
  \/ p.stage = "proposed" /\ p.decision.probe = TRUE
  \/ p.stage \in {"filled", "refused"} /\ p.probe = TRUE
FilledProbe(p) == p.stage = "filled" /\ p.probe = TRUE

Flying(p, d) == IF Probing(p) /\ SessionOf(p.at) = d THEN 1 ELSE 0
Landing(p, d) == IF FilledProbe(p) /\ SessionOf(p.at) = d THEN 1 ELSE 0

\* The rows of a session and the probe in flight are within its budget, and every filled
\* probe has its row, will have it or has lost it.
BudgetInv ==
  /\ {issued, probeRows, probeFills, lostRows} \subseteq [Sessions -> Nat]
  /\ \A d \in Sessions :
       /\ probeRows[d] + Flying(pending, d) <= ProbesPerDay
       /\ probeFills[d] <= probeRows[d] + lostRows[d] + Landing(pending, d)

CycleInv == WorldInv /\ PendingInv(pending, clock) /\ BudgetInv

\* A moment up to the last tick is in a session.
LEMMA SessionExists ==
  ASSUME NEW at \in 0 .. LastTick
  PROVE  SessionOf(at) \in Sessions
<1>1. PICK n \in Nat \ {0} : n = Len(Phases)
  BY CycleAssumption, LenProperties, EmptySeq
<1>2. LastTick \in Nat
  BY CycleAssumption
<1>3. \A x, z \in Int, y \in Nat \ {0} : x <= z => x \div y <= z \div y
  BY Quotients
<1>4. at \div n <= LastTick \div n
  BY <1>2, <1>3
<1>5. at \div n \in Nat /\ LastTick \div n \in Nat
  BY <1>2
<1>. QED  BY <1>1, <1>4, <1>5 DEF SessionOf, Sessions

\* The fields of a decision in flight.
LEMMA InFlightFields ==
  ASSUME NEW stage, NEW s, NEW at, NEW price, NEW plan, NEW evidence, NEW regime, NEW own,
         NEW decision, NEW p,
         p = InFlight(stage, s, at, price, plan, evidence, regime, own, decision)
  PROVE  /\ p.stage = stage /\ p.subject = s /\ p.at = at /\ p.price = price /\ p.plan = plan
         /\ p.evidence = evidence /\ p.regime = regime /\ p.own = own /\ p.decision = decision
BY DEF InFlight

\* The next stage of a decision in flight.
LEMMA InFlightMoves ==
  ASSUME NEW p, Shaped(p), NEW stage, NEW decision
  PROVE  /\ Shaped(Moved(p, stage, decision))
         /\ Moved(p, stage, decision).stage = stage
         /\ Moved(p, stage, decision).decision = decision
         /\ Moved(p, stage, decision).subject = p.subject
         /\ Moved(p, stage, decision).at = p.at
         /\ Moved(p, stage, decision).price = p.price
         /\ Moved(p, stage, decision).plan = p.plan
         /\ Moved(p, stage, decision).evidence = p.evidence
         /\ Moved(p, stage, decision).regime = p.regime
         /\ Moved(p, stage, decision).own = p.own
<1>. PICK r : r = Moved(p, stage, decision)
  OBVIOUS
<1>0. r = [p EXCEPT !.stage = stage, !.decision = decision]
  BY DEF Moved
<1>1. PICK st, s, at, price, plan, evidence, regime, own, dec :
         p = InFlight(st, s, at, price, plan, evidence, regime, own, dec)
  BY DEF Shaped
<1>2. r = InFlight(stage, s, at, price, plan, evidence, regime, own, decision)
  BY <1>0, <1>1 DEF InFlight
<1>3. PICK next : next = InFlight(stage, s, at, price, plan, evidence, regime, own, decision)
  OBVIOUS
<1>4. /\ p.subject = s /\ p.at = at /\ p.price = price /\ p.plan = plan
      /\ p.evidence = evidence /\ p.regime = regime /\ p.own = own
  BY <1>1, InFlightFields
<1>5. /\ next.stage = stage /\ next.decision = decision
      /\ next.subject = s /\ next.at = at /\ next.price = price /\ next.plan = plan
      /\ next.evidence = evidence /\ next.regime = regime /\ next.own = own
  BY <1>3, InFlightFields
<1>6. Shaped(next)
  BY <1>3 DEF Shaped
<1>. QED  BY <1>2, <1>3, <1>4, <1>5, <1>6

-----------------------------------------------------------------------------
(* The invariant holds at the start, and every step keeps it.              *)

\* A book that has been priced for the first time is one.
LEMMA CycleStarts ==
  ASSUME CycleInit
  PROVE  CycleInv
<1>1. \A s \in Symbols : Min(Prices[s]) \in Nat \ {0}
  <2>1. SUFFICES ASSUME NEW s \in Symbols PROVE Min(Prices[s]) \in Nat \ {0}
    OBVIOUS
  <2>2. PICK x \in Prices[s] : Prices[s] \subseteq Nat \ {0}
    BY CycleAssumption
  <2>3. PICK n \in Nat : n = x
    BY <2>2
  <2>. DEFINE S == {y \in Prices[s] : y <= n}
  <2>4. S \subseteq 0 .. n /\ S # {}
    BY <2>2, <2>3
  <2>5. PICK k \in S : \A j \in S : k <= j
    BY <2>4, LeastOf
  <2>6. \A y \in Prices[s] : k <= y
    BY <2>2, <2>3, <2>5
  <2>7. Min(Prices[s]) \in Prices[s]
    BY <2>5, <2>6 DEF Min
  <2>. QED  BY <2>2, <2>7
<1>2. PICK held \in StartingBooks :
         LET flat == [held |-> held, mark |-> [s \in Symbols |-> Min(Prices[s])],
                      cash |-> StartingCash, opening |-> 0, peak |-> 0]
         IN book = [flat EXCEPT !.opening = EquityOf(flat), !.peak = EquityOf(flat)]
  BY DEF CycleInit
<1>3. PICK flat : flat = [held |-> held, mark |-> [s \in Symbols |-> Min(Prices[s])],
                          cash |-> StartingCash, opening |-> 0, peak |-> 0]
  OBVIOUS
<1>4. IsBook(flat)
  BY <1>1, <1>3, CycleAssumption DEF IsBook
<1>5. EquityOf(flat) \in Int
  BY <1>4, BookIsNumbers
<1>6. book = [flat EXCEPT !.opening = EquityOf(flat), !.peak = EquityOf(flat)]
  BY <1>2, <1>3
<1>7. IsBook(book)
  BY <1>4, <1>5, <1>6 DEF IsBook
<1>8. WorldInv
  BY <1>7, CycleAssumption DEF CycleInit, WorldInv
<1>9. PendingInv(pending, clock)
  BY DEF CycleInit, PendingInv
<1>10. pending = None /\ issued = NoProbes /\ probeRows = NoProbes
       /\ probeFills = NoProbes /\ lostRows = NoProbes
  BY DEF CycleInit
<1>11. \A d \in Sessions : NoProbes[d] = 0 /\ Flying(None, d) = 0 /\ Landing(None, d) = 0
  BY DEF NoProbes, Flying, Landing, Probing, FilledProbe, None
<1>12. NoProbes \in [Sessions -> Nat]
  BY DEF NoProbes
<1>13. BudgetInv
  BY <1>10, <1>11, <1>12, PolicyAssumption DEF BudgetInv
<1>. QED  BY <1>8, <1>9, <1>13 DEF CycleInv

\* A decision in flight stays what it is as time passes.
LEMMA PendingLater ==
  ASSUME NEW p, NEW now \in Nat, NEW later \in Nat, now <= later, PendingInv(p, now)
  PROVE  PendingInv(p, later)
<1>1. \A x \in 0 .. now : x \in 0 .. later
  OBVIOUS
<1>. QED  BY <1>1 DEF PendingInv, Formed, ClosedDecision

\* The budget stands while no row and no fill is added and no probe takes off.
LEMMA BudgetStands ==
  ASSUME BudgetInv, UNCHANGED <<probeRows, probeFills, lostRows>>,
         issued' \in [Sessions -> Nat],
         \A d \in Sessions : /\ Flying(pending', d) <= Flying(pending, d)
                             /\ Landing(pending, d) <= Landing(pending', d)
  PROVE  BudgetInv'
<1>1. \A p : \A d : Flying(p, d) \in Nat /\ Landing(p, d) \in Nat
  BY DEF Flying, Landing
<1>2. {issued, probeRows, probeFills, lostRows}' \subseteq [Sessions -> Nat]
  BY DEF BudgetInv
<1>3. ASSUME NEW d \in Sessions
      PROVE  /\ probeRows'[d] + Flying(pending', d) <= ProbesPerDay
             /\ probeFills'[d] <= probeRows'[d] + lostRows'[d] + Landing(pending', d)
  <2>1. probeRows[d] \in Nat /\ probeFills[d] \in Nat /\ lostRows[d] \in Nat
    BY DEF BudgetInv
  <2>2. /\ probeRows[d] + Flying(pending, d) <= ProbesPerDay
        /\ probeFills[d] <= probeRows[d] + lostRows[d] + Landing(pending, d)
    BY DEF BudgetInv
  <2>3. /\ Flying(pending', d) <= Flying(pending, d)
        /\ Landing(pending, d) <= Landing(pending', d)
    OBVIOUS
  <2>4. ProbesPerDay \in Nat
    BY PolicyAssumption
  <2>5. PICK f1 \in Nat, f2 \in Nat, l1 \in Nat, l2 \in Nat :
           /\ f1 = Flying(pending, d) /\ f2 = Flying(pending', d)
           /\ l1 = Landing(pending, d) /\ l2 = Landing(pending', d)
    BY <1>1
  <2>. QED  BY <2>1, <2>2, <2>3, <2>4, <2>5
<1>. QED  BY <1>2, <1>3 DEF BudgetInv

\* A decision that is not about a probe carries none.
LEMMA NoProbeFlies ==
  ASSUME NEW p, p.stage \in {"none", "asked", "answered"}
  PROVE  \A d : Flying(p, d) = 0 /\ Landing(p, d) = 0
BY DEF Flying, Landing, Probing, FilledProbe

\* Flying and landing probes are counted once.
LEMMA FlyingIsCounted ==
  \A p, d : Flying(p, d) \in {0, 1} /\ Landing(p, d) \in {0, 1}
            /\ Landing(p, d) <= Flying(p, d)
BY DEF Flying, Landing, Probing, FilledProbe

\* Begin: the snapshot records the peak and the decision is the specialists' own.
LEMMA BeginKeeps ==
  ASSUME CycleInv, NEW s \in Watchlist, Begin(s)
  PROVE  CycleInv'
<1>. DEFINE b == Recorded(book)
<1>1. s \in Symbols /\ IsBook(book) /\ clock \in Nat /\ clock \in 0 .. LastTick
  BY CycleAssumption DEF CycleInv, WorldInv
<1>2. IsBook(b)
  BY <1>1, RecordedBook
<1>3. book' = b /\ UNCHANGED <<clock, cooldown, issued, probeRows, probeFills, lostRows>>
      /\ pending = None
  BY DEF Begin, market, probes
<1>4. WorldInv'
  BY <1>1, <1>2, <1>3 DEF CycleInv, WorldInv
<1>5. PICK tape \in Tapes :
        LET said == EvidenceOf(tape, DeskBreach(b, s))
            evidence == Attributed(said, tape.trust)
            own == DecideCore(evidence, tape.regime)
        IN pending' = [stage |-> IF UseModel /\ ~HardHold(evidence) THEN "asked" ELSE "answered",
                       subject |-> s, at |-> clock, price |-> b.mark[s],
                       plan |-> ConflictSized(PlanQuantity(b, b.mark[s]), Conflicted(said)),
                       evidence |-> evidence, regime |-> tape.regime,
                       own |-> own, decision |-> own]
  BY DEF Begin
<1>6. PICK said, evidence, own, stage, plan, price :
        /\ said = EvidenceOf(tape, DeskBreach(b, s))
        /\ evidence = Attributed(said, tape.trust)
        /\ own = DecideCore(evidence, tape.regime)
        /\ stage = IF UseModel /\ ~HardHold(evidence) THEN "asked" ELSE "answered"
        /\ plan = ConflictSized(PlanQuantity(b, b.mark[s]), Conflicted(said))
        /\ price = b.mark[s]
  OBVIOUS
<1>7. pending' = InFlight(stage, s, clock, price, plan, evidence, tape.regime, own, own)
  BY <1>5, <1>6 DEF InFlight
<1>8. tape \in Tape
  BY CycleAssumption
<1>9. tape.regime \in DOMAIN Playbook /\ IsEvidence(evidence)
  BY <1>6, <1>8, EvidenceIsTyped DEF Tape
<1>10. price \in Nat \ {0}
  BY <1>1, <1>2, <1>6 DEF IsBook
<1>11. plan \in Int
  <2>1. PICK q \in Int : q = PlanQuantity(b, price)
    BY <1>2, <1>10, QuantitiesAreNumbers
  <2>2. plan = IF q <= 0 THEN 0 ELSE IF Conflicted(said) THEN Max({1, q \div 2}) ELSE q
    BY <1>6, <2>1 DEF ConflictSized
  <2>3. PICK one \in Int, h \in Int : one = 1 /\ h = q \div 2
    OBVIOUS
  <2>4. Max({one, h}) \in Int
    BY OfPair
  <2>. QED  BY <2>2, <2>3, <2>4
<1>12. IsDecision(own) /\ own.probe = FALSE
  BY <1>6, <1>9, CoreBuys
<1>13. own.confidence \in Int
  BY <1>12, DecisionFields
<1>14. PICK p : p = InFlight(stage, s, clock, price, plan, evidence, tape.regime, own, own)
  OBVIOUS
<1>15. /\ p.stage = stage /\ p.subject = s /\ p.at = clock /\ p.price = price /\ p.plan = plan
       /\ p.evidence = evidence /\ p.regime = tape.regime /\ p.own = own /\ p.decision = own
  BY <1>14, InFlightFields
<1>16. stage \in {"asked", "answered"}
  BY <1>6
<1>17. Formed(p, clock)
  <2>1. Shaped(p)
    BY <1>14 DEF Shaped
  <2>2. p.own = DecideCore(p.evidence, p.regime)
    BY <1>6, <1>15
  <2>3. Tightened(p.decision, p.own)
    BY <1>13, <1>15 DEF Tightened
  <2>4. p.decision.probe = FALSE
    BY <1>12, <1>15
  <2>5. p.at \in 0 .. clock
    BY <1>1, <1>15
  <2>. QED  BY <1>1, <1>9, <1>10, <1>11, <1>12, <1>15, <1>16, <2>1, <2>2, <2>3, <2>4, <2>5
            DEF Formed
<1>18. PendingInv(pending, clock)'
  BY <1>3, <1>7, <1>14, <1>17 DEF PendingInv
<1>19. BudgetInv'
  <2>1. \A d : Flying(p, d) = 0 /\ Landing(p, d) = 0
    BY <1>15, <1>16, NoProbeFlies
  <2>2. pending.stage = "none"
    BY <1>3 DEF None
  <2>3. \A d : Flying(pending, d) = 0 /\ Landing(pending, d) = 0
    BY <2>2, NoProbeFlies
  <2>4. issued' \in [Sessions -> Nat]
    BY <1>3 DEF CycleInv, BudgetInv
  <2>5. pending' = p
    BY <1>7, <1>14
  <2>. QED  BY <1>3, <2>1, <2>3, <2>4, <2>5, BudgetStands DEF CycleInv
<1>. QED  BY <1>4, <1>18, <1>19 DEF CycleInv

\* The stage of a decision tells what it is.
LEMMA StageTells ==
  ASSUME NEW p, NEW now, PendingInv(p, now)
  PROVE  /\ p.stage \in {"asked", "answered", "proposed"} => Formed(p, now)
         /\ p.stage \in {"filled", "refused"} => ClosedDecision(p, now)
<1>1. None.stage = "none"
  BY DEF None
<1>. QED  BY <1>1 DEF PendingInv, Formed, ClosedDecision

\* Answered: the view is laid over the specialists' decision.
LEMMA AnsweredKeeps ==
  ASSUME CycleInv, Answered
  PROVE  CycleInv'
<1>1. PICK view \in Views :
        pending' = [pending EXCEPT !.stage = "answered",
                      !.decision = Overlay(pending.own, view, pending.regime)]
  BY DEF Answered
<1>2. /\ pending.stage = "asked"
      /\ UNCHANGED <<clock, book, cooldown, issued, probeRows, probeFills, lostRows>>
  BY DEF Answered, market, probes
<1>3. Formed(pending, clock)
  BY <1>2, StageTells DEF CycleInv
<1>4. PICK o : o = Overlay(pending.own, view, pending.regime)
  OBVIOUS
<1>5. view \in View
  BY CycleAssumption
<1>6. IsDecision(pending.own) /\ pending.own.probe = FALSE
  BY <1>3, CoreBuys DEF Formed
<1>7. IsDecision(o) /\ o.probe = FALSE /\ Tightened(o, pending.own)
  BY <1>4, <1>5, <1>6, OverlayTightens
<1>8. PICK r : r = Moved(pending, "answered", o)
  OBVIOUS
<1>9. /\ Shaped(r)
      /\ r.stage = "answered" /\ r.decision = o
      /\ r.subject = pending.subject /\ r.at = pending.at /\ r.price = pending.price
      /\ r.plan = pending.plan /\ r.evidence = pending.evidence
      /\ r.regime = pending.regime /\ r.own = pending.own
  BY <1>3, <1>8, InFlightMoves DEF Formed
<1>10. pending' = r
  BY <1>1, <1>4, <1>8 DEF Moved
<1>11. Formed(r, clock)
  BY <1>3, <1>7, <1>9 DEF Formed
<1>12. PendingInv(pending, clock)'
  BY <1>2, <1>10, <1>11 DEF PendingInv
<1>13. WorldInv'
  BY <1>2 DEF CycleInv, WorldInv
<1>14. BudgetInv'
  <2>1. \A d : Flying(r, d) = 0 /\ Landing(r, d) = 0
    BY <1>9, NoProbeFlies
  <2>2. \A d : Flying(pending, d) = 0 /\ Landing(pending, d) = 0
    BY <1>2, NoProbeFlies
  <2>3. issued' \in [Sessions -> Nat]
    BY <1>2 DEF CycleInv, BudgetInv
  <2>. QED  BY <1>2, <1>10, <2>1, <2>2, <2>3, BudgetStands DEF CycleInv
<1>. QED  BY <1>12, <1>13, <1>14 DEF CycleInv

\* Decide: the gate tightens, and a hold becomes a probe only within the budget.
LEMMA DecideKeeps ==
  ASSUME CycleInv, Decide
  PROVE  CycleInv'
<1>1. PICK day, gated, probing, o :
        /\ day = SessionOf(pending.at)
        /\ gated = EvGated(pending.evidence, pending.decision)
        /\ probing \in BOOLEAN
        /\ probing => /\ Explorable(pending.evidence, gated, pending.regime)
                      /\ ProbesUsed(day) < ProbesPerDay
        /\ o = IF probing THEN Probe(pending.evidence, gated) ELSE gated
        /\ pending' = [pending EXCEPT !.stage = "proposed", !.decision = o]
        /\ issued' = IF probing THEN [issued EXCEPT ![day] = ProbesUsed(day) + 1] ELSE issued
  BY DEF Decide
<1>2. /\ pending.stage = "answered"
      /\ UNCHANGED <<clock, book, cooldown, probeRows, probeFills, lostRows>>
  BY DEF Decide, market
<1>3. Formed(pending, clock)
  BY <1>2, StageTells DEF CycleInv
<1>4. IsDecision(pending.decision) /\ pending.decision.probe = FALSE
      /\ Tightened(pending.decision, pending.own)
  <2>1. pending.decision.probe \in BOOLEAN
    BY <1>3, DecisionFields DEF Formed
  <2>. QED  BY <1>2, <1>3, <2>1 DEF Formed
<1>5. IsDecision(gated) /\ gated.probe = FALSE /\ Tightened(gated, pending.own)
  BY <1>1, <1>4, GateTightens
<1>6. IsEvidence(pending.evidence)
  BY <1>3 DEF Formed
<1>7. CASE probing
  <2>1. /\ ~ HardHold(pending.evidence) /\ ScoreAtLeast(pending.evidence, ProbeScore)
        /\ Playbook[pending.regime].probes
    BY <1>1, <1>7 DEF Explorable
  <2>2. IsDecision(o) /\ o.probe = TRUE
    BY <1>1, <1>5, <1>6, <1>7, <2>1, ProbeIsLabelled
  <2>. QED
    <3>1. PICK r : r = Moved(pending, "proposed", o)
      OBVIOUS
    <3>2. /\ Shaped(r)
          /\ r.stage = "proposed" /\ r.decision = o
          /\ r.subject = pending.subject /\ r.at = pending.at /\ r.price = pending.price
          /\ r.plan = pending.plan /\ r.evidence = pending.evidence
          /\ r.regime = pending.regime /\ r.own = pending.own
      BY <1>3, <3>1, InFlightMoves DEF Formed
    <3>3. pending' = r
      BY <1>1, <3>1 DEF Moved
    <3>4. Formed(r, clock)
      BY <1>3, <2>1, <2>2, <3>2 DEF Formed
    <3>5. PendingInv(pending, clock)'
      BY <1>2, <3>3, <3>4 DEF PendingInv
    <3>6. WorldInv'
      BY <1>2 DEF CycleInv, WorldInv
    <3>7. BudgetInv'
      <4>1. pending.at \in 0 .. LastTick
        BY <1>3, CycleAssumption DEF Formed, CycleInv, WorldInv
      <4>2. day \in Sessions
        BY <1>1, <4>1, SessionExists
      <4>3. /\ issued \in [Sessions -> Nat] /\ probeRows \in [Sessions -> Nat]
            /\ probeFills \in [Sessions -> Nat] /\ lostRows \in [Sessions -> Nat]
        BY DEF CycleInv, BudgetInv
      <4>4. ProbesUsed(day) \in Nat /\ probeRows[day] <= ProbesUsed(day)
        BY <4>2, <4>3 DEF ProbesUsed, GreaterOf
      <4>5. issued' \in [Sessions -> Nat]
        BY <1>1, <1>7, <4>2, <4>3, <4>4
      <4>6. ASSUME NEW d \in Sessions
            PROVE  /\ probeRows'[d] + Flying(pending', d) <= ProbesPerDay
                   /\ probeFills'[d] <= probeRows'[d] + lostRows'[d] + Landing(pending', d)
        <5>1. Flying(pending, d) = 0 /\ Landing(pending, d) = 0
          BY <1>2, NoProbeFlies
        <5>2. Landing(pending', d) = 0
          BY <3>2, <3>3 DEF Landing, FilledProbe
        <5>3. Flying(pending', d) \in {0, 1} /\ (Flying(pending', d) = 1 => d = day)
          BY <1>1, <3>2, <3>3 DEF Flying
        <5>4. probeRows[d] \in Nat /\ ProbesPerDay \in Nat
          BY <4>3, PolicyAssumption
        <5>5. probeRows[d] <= ProbesPerDay
          BY <5>1, <5>4 DEF CycleInv, BudgetInv
        <5>6. d = day => probeRows[d] + 1 <= ProbesPerDay
          BY <1>1, <1>7, <4>4, <5>4
        <5>7. probeFills[d] <= probeRows[d] + lostRows[d] + Landing(pending, d)
          BY DEF CycleInv, BudgetInv
        <5>. QED  BY <1>2, <5>1, <5>2, <5>3, <5>4, <5>5, <5>6, <5>7
      <4>. QED  BY <1>2, <4>3, <4>5, <4>6 DEF BudgetInv
    <3>. QED  BY <3>5, <3>6, <3>7 DEF CycleInv
<1>8. CASE ~ probing
  <2>1. IsDecision(o) /\ o.probe = FALSE /\ Tightened(o, pending.own)
    BY <1>1, <1>5, <1>8
  <2>2. PICK r : r = Moved(pending, "proposed", o)
    OBVIOUS
  <2>3. /\ Shaped(r)
        /\ r.stage = "proposed" /\ r.decision = o
        /\ r.subject = pending.subject /\ r.at = pending.at /\ r.price = pending.price
        /\ r.plan = pending.plan /\ r.evidence = pending.evidence
        /\ r.regime = pending.regime /\ r.own = pending.own
    BY <1>3, <2>2, InFlightMoves DEF Formed
  <2>4. pending' = r
    BY <1>1, <2>2 DEF Moved
  <2>5. Formed(r, clock)
    BY <1>3, <2>1, <2>3 DEF Formed
  <2>6. PendingInv(pending, clock)'
    BY <1>2, <2>4, <2>5 DEF PendingInv
  <2>7. WorldInv'
    BY <1>2 DEF CycleInv, WorldInv
  <2>8. BudgetInv'
    <3>1. \A d : Flying(r, d) = 0 /\ Landing(r, d) = 0
      BY <2>1, <2>3 DEF Flying, Landing, Probing, FilledProbe
    <3>2. \A d : Flying(pending, d) = 0 /\ Landing(pending, d) = 0
      BY <1>2, NoProbeFlies
    <3>3. issued' \in [Sessions -> Nat]
      BY <1>1, <1>8 DEF CycleInv, BudgetInv
    <3>. QED  BY <1>2, <2>4, <3>1, <3>2, <3>3, BudgetStands DEF CycleInv
  <2>. QED  BY <2>6, <2>7, <2>8 DEF CycleInv
<1>. QED  BY <1>1, <1>7, <1>8

-----------------------------------------------------------------------------
(* Submission.                                                             *)

\* What a decision that ends with a record of its probe leaves of it.
LEMMA Outcomes ==
  ASSUME NEW stage
  PROVE  /\ Outcome(stage).stage = stage /\ Outcome(stage).at = pending.at
         /\ Outcome(stage).probe = pending.decision.probe
BY DEF Outcome

\* A proposed decision and its outcome carry the same probe.
LEMMA OutcomeCarries ==
  ASSUME CycleInv, pending.stage = "proposed", NEW stage \in {"filled", "refused"},
         pending' = Outcome(stage), clock' = clock
  PROVE  /\ PendingInv(pending, clock)'
         /\ \A d : /\ Flying(pending', d) = Flying(pending, d)
                   /\ Landing(pending, d) = 0
                   /\ Landing(pending', d) = IF stage = "filled" THEN Flying(pending, d) ELSE 0
<1>1. Formed(pending, clock)
  BY StageTells DEF CycleInv
<1>2. pending.at \in 0 .. clock /\ IsDecision(pending.decision)
  BY <1>1 DEF Formed
<1>3. pending.decision.probe \in BOOLEAN
  BY <1>2, DecisionFields
<1>4. PICK p : p = pending'
  OBVIOUS
<1>5. p.stage = stage /\ p.at = pending.at /\ p.probe = pending.decision.probe
  BY <1>4, Outcomes
<1>6. ClosedDecision(p, clock)
  BY <1>2, <1>3, <1>5 DEF ClosedDecision
<1>7. PendingInv(pending, clock)'
  BY <1>4, <1>6 DEF PendingInv
<1>8. Probing(p) <=> Probing(pending)
  BY <1>5 DEF Probing
<1>9. FilledProbe(p) <=> stage = "filled" /\ Probing(pending)
  BY <1>5 DEF FilledProbe, Probing
<1>10. ~ FilledProbe(pending)
  BY DEF FilledProbe
<1>11. \A d : /\ Flying(p, d) = Flying(pending, d)
              /\ Landing(pending, d) = 0
              /\ Landing(p, d) = IF stage = "filled" THEN Flying(pending, d) ELSE 0
  BY <1>5, <1>8, <1>9, <1>10 DEF Flying, Landing
<1>. QED  BY <1>4, <1>7, <1>11

\* What an entry does to the book.
LEMMA EnterFacts ==
  ASSUME CycleInv, Enter
  PROVE  /\ Formed(pending, clock) /\ IsBook(Fresh)
         /\ StanceScore[pending.decision.action] > 0
         /\ Admitted(Fresh, pending.subject, EntryQuantity(Fresh))
         /\ EntryQuantity(Fresh) \in Nat \ {0}
         /\ Fresh.held[pending.subject] = 0
         /\ Fresh.mark[pending.subject] = pending.price
         /\ book' = [Fresh EXCEPT !.held[pending.subject] = EntryQuantity(Fresh),
                                  !.cash = book.cash - EntryQuantity(Fresh) * pending.price]
         /\ EntryQuantity(Fresh) * pending.price <= book.cash
         /\ book.cash - EntryQuantity(Fresh) * pending.price \in Int
<1>1. /\ pending.stage = "proposed" /\ StanceScore[pending.decision.action] > 0
      /\ PreSubmit /\ Admitted(Fresh, pending.subject, EntryQuantity(Fresh))
      /\ EntryQuantity(Fresh) * pending.price <= book.cash
  BY DEF Enter
<1>2. Formed(pending, clock)
  BY <1>1, StageTells DEF CycleInv
<1>3. IsBook(book)
  BY DEF CycleInv, WorldInv
<1>4. IsBook(Fresh) /\ Fresh.cash = book.cash /\ Fresh.mark = book.mark
  BY <1>3, RecordedBook DEF Fresh
<1>5. /\ pending.price \in Nat \ {0} /\ pending.plan \in Int /\ IsDecision(pending.decision)
      /\ pending.regime \in DOMAIN Playbook /\ pending.subject \in Symbols
  BY <1>2 DEF Formed
<1>6. pending.decision.confidence \in Int
  BY <1>5, DecisionFields
<1>7. EntryQuantity(Fresh) \in Int
  <2>1. ProbeQuantity(Fresh, pending.price) \in Int
    BY <1>4, <1>5, QuantitiesAreNumbers
  <2>2. SizedQuantity(pending.plan, pending.decision.confidence, pending.regime) \in Int
    BY <1>5, <1>6, SizedWithinPlan
  <2>. QED  BY <2>1, <2>2 DEF EntryQuantity
<1>8. EntryQuantity(Fresh) > 0 /\ Fresh.held[pending.subject] = 0
  BY <1>1 DEF Admitted, WardenAdmits
<1>9. Fresh.mark[pending.subject] = pending.price
  BY <1>1, <1>4 DEF PreSubmit
<1>10. book' = [Fresh EXCEPT !.held[pending.subject] = EntryQuantity(Fresh),
                             !.cash = book.cash - EntryQuantity(Fresh) * pending.price]
  BY <1>4 DEF Enter
<1>11. book.cash - EntryQuantity(Fresh) * pending.price \in Int
  BY <1>3, <1>5, <1>7 DEF IsBook
<1>. QED  BY <1>1, <1>2, <1>4, <1>7, <1>8, <1>9, <1>10, <1>11

\* Enter keeps the invariant: a filled probe is one that was in flight.
LEMMA EnterKeeps ==
  ASSUME CycleInv, Enter
  PROVE  CycleInv'
<1>1. PICK s, quantity, cash : /\ s = pending.subject /\ quantity = EntryQuantity(Fresh)
                               /\ cash = book.cash - EntryQuantity(Fresh) * pending.price
  OBVIOUS
<1>2. /\ s \in Symbols /\ IsBook(Fresh) /\ quantity \in Nat \ {0} /\ Fresh.held[s] = 0
      /\ cash \in Int
      /\ book' = [Fresh EXCEPT !.held[s] = quantity, !.cash = cash]
  BY <1>1, EnterFacts DEF Formed
<1>3. IsBook(book')
  <2>1. book' = EntryOf(Fresh, s, quantity, cash)
    BY <1>2 DEF EntryOf
  <2>2. IsBook(EntryOf(Fresh, s, quantity, cash))
    BY <1>2, EntryAdds
  <2>. QED  BY <2>1, <2>2
<1>4. /\ pending.stage = "proposed" /\ pending' = Outcome("filled")
      /\ UNCHANGED <<clock, cooldown, issued, probeRows, lostRows>>
      /\ probeFills' = IF pending.decision.probe
                       THEN [probeFills EXCEPT ![SessionOf(pending.at)] = @ + 1] ELSE probeFills
  BY DEF Enter, market
<1>5. WorldInv'
  BY <1>3, <1>4 DEF CycleInv, WorldInv
<1>6. /\ PendingInv(pending, clock)'
      /\ \A d : /\ Flying(pending', d) = Flying(pending, d)
                /\ Landing(pending, d) = 0
                /\ Landing(pending', d) = Flying(pending, d)
  BY <1>4, OutcomeCarries
<1>7. Formed(pending, clock)
  BY EnterFacts
<1>8. pending.decision.probe \in BOOLEAN /\ pending.at \in 0 .. clock
  BY <1>7, DecisionFields DEF Formed
<1>9. BudgetInv'
  <2>1. /\ issued \in [Sessions -> Nat] /\ probeRows \in [Sessions -> Nat]
        /\ probeFills \in [Sessions -> Nat] /\ lostRows \in [Sessions -> Nat]
    BY DEF CycleInv, BudgetInv
  <2>2. SessionOf(pending.at) \in Sessions
    BY <1>8, SessionExists, CycleAssumption DEF CycleInv, WorldInv
  <2>3. probeFills' \in [Sessions -> Nat]
    BY <1>4, <2>1, <2>2
  <2>4. ASSUME NEW d \in Sessions
        PROVE  /\ probeRows'[d] + Flying(pending', d) <= ProbesPerDay
               /\ probeFills'[d] <= probeRows'[d] + lostRows'[d] + Landing(pending', d)
    <3>1. /\ probeRows[d] + Flying(pending, d) <= ProbesPerDay
          /\ probeFills[d] <= probeRows[d] + lostRows[d] + Landing(pending, d)
      BY DEF CycleInv, BudgetInv
    <3>2. probeFills'[d] = probeFills[d] + Flying(pending, d)
      <4>1. CASE pending.decision.probe /\ d = SessionOf(pending.at)
        <5>1. Flying(pending, d) = 1
          BY <1>4, <4>1 DEF Flying, Probing
        <5>. QED  BY <1>4, <2>1, <4>1, <5>1
      <4>2. CASE ~ (pending.decision.probe /\ d = SessionOf(pending.at))
        <5>1. Flying(pending, d) = 0
          BY <1>4, <4>2 DEF Flying, Probing
        <5>2. probeFills'[d] = probeFills[d]
          BY <1>4, <2>1, <4>2
        <5>. QED  BY <2>1, <5>1, <5>2
      <4>. QED  BY <4>1, <4>2
    <3>3. PICK n : n = Flying(pending, d)
      OBVIOUS
    <3>4. /\ Flying(pending', d) = n /\ Landing(pending, d) = 0 /\ Landing(pending', d) = n
          /\ n \in Nat
      BY <1>6, <3>3, FlyingIsCounted
    <3>. QED  BY <1>4, <2>1, <3>1, <3>2, <3>3, <3>4
  <2>. QED  BY <1>4, <2>1, <2>3, <2>4 DEF BudgetInv
<1>. QED  BY <1>5, <1>6, <1>9 DEF CycleInv

\* A covered sell never sells more than is held.
LEMMA SellWithinHolding ==
  ASSUME CycleInv, Formed(pending, clock), NEW held \in Nat
  PROVE  SellQuantity(held) \in 0 .. held
BY DEF SellQuantity, LesserOf, Formed

\* Reduce.
LEMMA ReduceKeeps ==
  ASSUME CycleInv, Reduce
  PROVE  CycleInv' /\ \A s \in Symbols : ~ Entered(s)
<1>1. /\ pending.stage = "proposed" /\ pending' = Outcome("filled")
      /\ UNCHANGED <<clock, cooldown, issued, probeRows, probeFills, lostRows>>
  BY DEF Reduce, market, probes
<1>2. Formed(pending, clock)
  BY <1>1, StageTells DEF CycleInv
<1>3. PICK s \in Symbols : s = pending.subject
  BY <1>2 DEF Formed
<1>4. IsBook(book)
  BY DEF CycleInv, WorldInv
<1>5. IsBook(Fresh) /\ Fresh.held = book.held /\ Fresh.cash = book.cash
  BY <1>4, RecordedBook DEF Fresh
<1>6. PICK q \in 0 .. book.held[s] : q = SellQuantity(book.held[s])
  BY <1>2, <1>4, SellWithinHolding DEF IsBook
<1>7. book' = [Fresh EXCEPT !.held[s] = @ - q, !.cash = @ + q * book.mark[s]]
  BY <1>3, <1>6 DEF Reduce
<1>8. q * book.mark[s] \in Int /\ book.held[s] \in Nat
  BY <1>4, <1>6 DEF IsBook
<1>9. IsBook(book')
  <2>1. PICK n \in Nat, c \in Int : n = Fresh.held[s] - q /\ c = Fresh.cash + q * book.mark[s]
    BY <1>4, <1>5, <1>6, <1>8 DEF IsBook
  <2>2. PICK after : after = [Fresh EXCEPT !.held[s] = n, !.cash = c]
    OBVIOUS
  <2>3. book' = after
    BY <1>7, <2>1, <2>2
  <2>4. IsBook(after)
    BY <1>5, <2>1, <2>2 DEF IsBook
  <2>. QED  BY <2>3, <2>4
<1>10. \A x \in Symbols : book'.held[x] <= book.held[x]
  BY <1>4, <1>5, <1>6, <1>7, <1>8 DEF IsBook
<1>11. WorldInv'
  BY <1>1, <1>9 DEF CycleInv, WorldInv
<1>12. /\ PendingInv(pending, clock)'
       /\ \A d : /\ Flying(pending', d) = Flying(pending, d)
                 /\ Landing(pending, d) = 0
                 /\ Landing(pending', d) = Flying(pending, d)
  BY <1>1, OutcomeCarries
<1>13. BudgetInv'
  <2>1. \A d : /\ Flying(pending', d) <= Flying(pending, d)
               /\ Landing(pending, d) <= Landing(pending', d)
    <3>1. SUFFICES ASSUME NEW d
                   PROVE  Flying(pending', d) <= Flying(pending, d)
                          /\ Landing(pending, d) <= Landing(pending', d)
      OBVIOUS
    <3>2. PICK n : n = Flying(pending, d)
      OBVIOUS
    <3>3. Flying(pending', d) = n /\ Landing(pending, d) = 0 /\ Landing(pending', d) = n
      BY <1>12, <3>2
    <3>4. n \in Nat
      BY <3>2, FlyingIsCounted
    <3>. QED  BY <3>2, <3>3, <3>4
  <2>2. issued' \in [Sessions -> Nat]
    BY <1>1 DEF CycleInv, BudgetInv
  <2>. QED  BY <1>1, <2>1, <2>2, BudgetStands DEF CycleInv
<1>14. \A x \in Symbols : book'.held[x] \in Nat /\ book.held[x] \in Nat
  BY <1>4, <1>9 DEF IsBook
<1>. QED  BY <1>10, <1>11, <1>12, <1>13, <1>14 DEF CycleInv, Entered

\* Refuse.
LEMMA RefuseKeeps ==
  ASSUME CycleInv, Refuse
  PROVE  CycleInv'
<1>1. /\ pending.stage = "proposed" /\ pending' = Outcome("refused")
      /\ UNCHANGED <<clock, book, cooldown, issued, probeRows, probeFills, lostRows>>
  BY DEF Refuse, market, probes
<1>2. /\ PendingInv(pending, clock)'
      /\ \A d : /\ Flying(pending', d) = Flying(pending, d)
                /\ Landing(pending, d) = 0 /\ Landing(pending', d) = 0
  BY <1>1, OutcomeCarries
<1>3. WorldInv'
  BY <1>1 DEF CycleInv, WorldInv
<1>4. \A d : /\ Flying(pending', d) <= Flying(pending, d)
             /\ Landing(pending, d) <= Landing(pending', d)
  <2>1. SUFFICES ASSUME NEW d
                 PROVE  Flying(pending', d) <= Flying(pending, d)
                        /\ Landing(pending, d) <= Landing(pending', d)
    OBVIOUS
  <2>2. PICK n : n = Flying(pending, d)
    OBVIOUS
  <2>3. n \in Nat /\ Flying(pending', d) = n
    BY <1>2, <2>2, FlyingIsCounted
  <2>. QED  BY <1>2, <2>2, <2>3
<1>5. issued' \in [Sessions -> Nat]
  BY <1>1 DEF CycleInv, BudgetInv
<1>6. BudgetInv'
  BY <1>1, <1>4, <1>5, BudgetStands DEF CycleInv
<1>. QED  BY <1>2, <1>3, <1>6 DEF CycleInv

-----------------------------------------------------------------------------
(* Rows, restarts and the world.                                           *)

\* Journal: the row of a probe takes the place of the probe in flight.
LEMMA JournalKeeps ==
  ASSUME CycleInv, Journal
  PROVE  CycleInv'
<1>1. /\ pending.stage \in {"filled", "refused"} /\ pending' = None
      /\ UNCHANGED <<clock, book, cooldown, issued, probeFills, lostRows>>
      /\ probeRows' = IF pending.probe THEN [probeRows EXCEPT ![SessionOf(pending.at)] = @ + 1]
                      ELSE probeRows
  BY DEF Journal, market
<1>2. ClosedDecision(pending, clock)
  BY <1>1, StageTells DEF CycleInv
<1>3. pending.at \in 0 .. LastTick /\ pending.probe \in BOOLEAN
  BY <1>2, CycleAssumption DEF ClosedDecision, CycleInv, WorldInv
<1>4. /\ probeRows \in [Sessions -> Nat] /\ probeFills \in [Sessions -> Nat]
      /\ lostRows \in [Sessions -> Nat] /\ issued \in [Sessions -> Nat]
  BY DEF CycleInv, BudgetInv
<1>5. SessionOf(pending.at) \in Sessions
  BY <1>3, SessionExists
<1>6. probeRows' \in [Sessions -> Nat]
  BY <1>1, <1>4, <1>5
<1>7. ASSUME NEW d \in Sessions
      PROVE  /\ probeRows'[d] + Flying(pending', d) <= ProbesPerDay
             /\ probeFills'[d] <= probeRows'[d] + lostRows'[d] + Landing(pending', d)
  <2>1. /\ probeRows[d] + Flying(pending, d) <= ProbesPerDay
        /\ probeFills[d] <= probeRows[d] + lostRows[d] + Landing(pending, d)
    BY DEF CycleInv, BudgetInv
  <2>2. Flying(None, d) = 0 /\ Landing(None, d) = 0
    BY NoProbeFlies DEF None
  <2>3. probeRows'[d] = probeRows[d] + Flying(pending, d)
    <3>1. CASE pending.probe /\ d = SessionOf(pending.at)
      <4>1. Flying(pending, d) = 1
        BY <1>1, <3>1 DEF Flying, Probing
      <4>. QED  BY <1>1, <1>4, <3>1, <4>1
    <3>2. CASE ~ (pending.probe /\ d = SessionOf(pending.at))
      <4>1. Flying(pending, d) = 0
        BY <1>1, <3>2 DEF Flying, Probing
      <4>2. probeRows'[d] = probeRows[d]
        BY <1>1, <1>4, <3>2
      <4>. QED  BY <1>4, <4>1, <4>2
    <3>. QED  BY <3>1, <3>2
  <2>4. PICK n, m : n = Flying(pending, d) /\ m = Landing(pending, d)
    OBVIOUS
  <2>5. n \in Nat /\ m \in Nat /\ m <= n
    BY <2>4, FlyingIsCounted
  <2>6. ProbesPerDay \in Nat
    BY PolicyAssumption
  <2>. QED  BY <1>1, <1>4, <2>1, <2>2, <2>3, <2>4, <2>5, <2>6
<1>8. BudgetInv'
  BY <1>1, <1>4, <1>6, <1>7 DEF BudgetInv
<1>9. WorldInv'
  BY <1>1 DEF CycleInv, WorldInv
<1>10. PendingInv(pending, clock)'
  BY <1>1 DEF PendingInv
<1>. QED  BY <1>8, <1>9, <1>10 DEF CycleInv

\* A decision that is gone with its row: a journal fault or a restart.
LEMMA LostKeeps ==
  ASSUME CycleInv, pending' = None, lostRows' = Lost, issued' \in [Sessions -> Nat],
         UNCHANGED <<clock, book, cooldown, probeRows, probeFills>>
  PROVE  CycleInv'
<1>1. /\ probeRows \in [Sessions -> Nat] /\ probeFills \in [Sessions -> Nat]
      /\ lostRows \in [Sessions -> Nat]
  BY DEF CycleInv, BudgetInv
<1>2. /\ lostRows' \in [Sessions -> Nat]
      /\ \A d \in Sessions : lostRows'[d] = lostRows[d] + Landing(pending, d)
  <2>1. CASE pending.stage = "filled" /\ pending.probe
    <3>1. ClosedDecision(pending, clock)
      BY <2>1, StageTells DEF CycleInv
    <3>2. pending.at \in 0 .. LastTick
      BY <3>1, CycleAssumption DEF ClosedDecision, CycleInv, WorldInv
    <3>3. SessionOf(pending.at) \in Sessions
      BY <3>2, SessionExists
    <3>4. lostRows' = [lostRows EXCEPT ![SessionOf(pending.at)] = @ + 1]
      BY <2>1 DEF Lost
    <3>5. \A d : Landing(pending, d) = IF d = SessionOf(pending.at) THEN 1 ELSE 0
      BY <2>1 DEF Landing, FilledProbe
    <3>. QED  BY <1>1, <3>3, <3>4, <3>5
  <2>2. CASE ~ (pending.stage = "filled" /\ pending.probe)
    <3>1. lostRows' = lostRows
      BY <2>2 DEF Lost
    <3>2. \A d : Landing(pending, d) = 0
      BY <2>2 DEF Landing, FilledProbe
    <3>. QED  BY <1>1, <3>1, <3>2
  <2>. QED  BY <2>1, <2>2
<1>3. ASSUME NEW d \in Sessions
      PROVE  /\ probeRows'[d] + Flying(pending', d) <= ProbesPerDay
             /\ probeFills'[d] <= probeRows'[d] + lostRows'[d] + Landing(pending', d)
  <2>1. /\ probeRows[d] + Flying(pending, d) <= ProbesPerDay
        /\ probeFills[d] <= probeRows[d] + lostRows[d] + Landing(pending, d)
    BY DEF CycleInv, BudgetInv
  <2>2. Flying(None, d) = 0 /\ Landing(None, d) = 0
    BY NoProbeFlies DEF None
  <2>3. PICK n, m : n = Flying(pending, d) /\ m = Landing(pending, d)
    OBVIOUS
  <2>4. n \in Nat /\ m \in Nat
    BY <2>3, FlyingIsCounted
  <2>5. ProbesPerDay \in Nat
    BY PolicyAssumption
  <2>6. lostRows'[d] = lostRows[d] + m
    BY <1>2, <2>3
  <2>. QED  BY <1>1, <2>1, <2>2, <2>3, <2>4, <2>5, <2>6
<1>4. BudgetInv'
  <2>1. /\ issued' \in [Sessions -> Nat] /\ probeRows' \in [Sessions -> Nat]
        /\ probeFills' \in [Sessions -> Nat] /\ lostRows' \in [Sessions -> Nat]
    BY <1>1, <1>2
  <2>2. \A d \in Sessions :
          /\ probeRows'[d] + Flying(pending', d) <= ProbesPerDay
          /\ probeFills'[d] <= probeRows'[d] + lostRows'[d] + Landing(pending', d)
    BY <1>3
  <2>. QED  BY <2>1, <2>2 DEF BudgetInv
<1>5. WorldInv'
  BY DEF CycleInv, WorldInv
<1>6. PendingInv(pending, clock)'
  BY DEF PendingInv
<1>. QED  BY <1>4, <1>5, <1>6 DEF CycleInv

\* JournalFails and Restart.
LEMMA LossesKeep ==
  ASSUME CycleInv, JournalFails \/ Restart
  PROVE  CycleInv'
<1>1. NoProbes \in [Sessions -> Nat] /\ issued \in [Sessions -> Nat]
  BY DEF NoProbes, CycleInv, BudgetInv
<1>2. /\ pending' = None /\ lostRows' = Lost
      /\ issued' \in [Sessions -> Nat]
      /\ UNCHANGED <<clock, book, cooldown, probeRows, probeFills>>
  BY <1>1 DEF JournalFails, Restart, market
<1>. QED  BY <1>2, LostKeeps

\* The decision and its budget do not see what happens to the book and the clock.
LEMMA WorldMoves ==
  ASSUME CycleInv, WorldInv', clock <= clock', UNCHANGED <<pending, probes>>
  PROVE  CycleInv'
<1>1. clock \in Nat /\ clock' \in Nat /\ pending' = pending
  BY DEF CycleInv, WorldInv
<1>2. PendingInv(pending, clock')
  BY <1>1, PendingLater DEF CycleInv
<1>3. PendingInv(pending, clock)'
  BY <1>1, <1>2
<1>4. BudgetInv'
  <2>1. BudgetInv /\ UNCHANGED <<pending, issued, probeRows, probeFills, lostRows>>
    BY DEF CycleInv, probes
  <2>2. issued' \in [Sessions -> Nat] /\ UNCHANGED <<probeRows, probeFills, lostRows>>
    BY <2>1 DEF BudgetInv
  <2>3. \A d \in Sessions : /\ Flying(pending', d) <= Flying(pending, d)
                            /\ Landing(pending, d) <= Landing(pending', d)
    <3>1. SUFFICES ASSUME NEW d \in Sessions
                   PROVE  /\ Flying(pending', d) <= Flying(pending, d)
                          /\ Landing(pending, d) <= Landing(pending', d)
      OBVIOUS
    <3>2. PICK n, m : n = Flying(pending, d) /\ m = Landing(pending, d)
      OBVIOUS
    <3>3. n <= n /\ m <= m
      BY <3>2, FlyingIsCounted
    <3>. QED  BY <2>1, <3>2, <3>3
  <2>. QED  BY <2>1, <2>2, <2>3, BudgetStands
<1>. QED  BY <1>3, <1>4 DEF CycleInv

\* ProtectiveExit, SwitchHalt and Tick, none of which adds to a position.
LEMMA WorldKeeps ==
  ASSUME CycleInv, (\E s \in Symbols : ProtectiveExit(s)) \/ SwitchHalt \/ Tick
  PROVE  CycleInv' /\ \A s \in Symbols : ~ Entered(s)
<1>0. IsBook(book) /\ clock \in 0 .. LastTick /\ LastTick \in Nat /\ cooldown \in [Symbols -> Nat]
  BY CycleAssumption DEF CycleInv, WorldInv
<1>1. ASSUME NEW s \in Symbols, ProtectiveExit(s)
      PROVE  CycleInv' /\ \A x \in Symbols : ~ Entered(x)
  <2>1. /\ book' = [book EXCEPT !.held[s] = 0, !.cash = @ + book.held[s] * book.mark[s]]
        /\ cooldown' = [cooldown EXCEPT ![s] = clock + CooldownTicks]
        /\ UNCHANGED <<clock, pending, probes>>
    BY <1>1 DEF ProtectiveExit
  <2>2. PICK c \in Int : c = book.cash + book.held[s] * book.mark[s]
    BY <1>0 DEF IsBook
  <2>3. PICK after : after = [book EXCEPT !.held[s] = 0, !.cash = c]
    OBVIOUS
  <2>4. book' = after
    BY <2>1, <2>2, <2>3
  <2>5. IsBook(after) /\ \A x \in Symbols : ~ (after.held[x] > book.held[x])
    <3>1. after.held = [book.held EXCEPT ![s] = 0] /\ book.held \in [Symbols -> Nat]
      BY <1>0, <2>3 DEF IsBook
    <3>2. PICK f \in [Symbols -> Nat] : f = [book.held EXCEPT ![s] = 0]
      BY <3>1
    <3>3. after = [book EXCEPT !.held = f, !.cash = c]
      BY <2>3, <3>2
    <3>4. IsBook(after)
      BY <1>0, <2>2, <3>2, <3>3 DEF IsBook
    <3>5. \A x \in Symbols : f[x] <= book.held[x] /\ f[x] \in Nat /\ book.held[x] \in Nat
      BY <3>1, <3>2
    <3>. QED  BY <3>1, <3>2, <3>4, <3>5
  <2>6. cooldown' \in [Symbols -> Nat]
    BY <1>0, <2>1, CycleAssumption
  <2>7. WorldInv'
    BY <1>0, <2>1, <2>4, <2>5, <2>6 DEF WorldInv
  <2>8. CycleInv'
    BY <1>0, <2>1, <2>7, WorldMoves
  <2>. QED  BY <2>4, <2>5, <2>8 DEF Entered
<1>2. CASE SwitchHalt
  <2>1. UNCHANGED <<clock, book, cooldown, pending, probes>>
    BY <1>2 DEF SwitchHalt
  <2>2. WorldInv'
    BY <2>1 DEF CycleInv, WorldInv
  <2>3. CycleInv'
    BY <1>0, <2>1, <2>2, WorldMoves
  <2>. QED  BY <1>0, <2>1, <2>3 DEF Entered, IsBook
<1>3. CASE Tick
  <2>1. /\ clock < LastTick /\ clock' = clock + 1 /\ UNCHANGED <<cooldown, pending, probes>>
    BY <1>3 DEF Tick
  <2>2. PICK mark \in [Symbols -> UNION Range(Prices)] :
           LET moved == [book EXCEPT !.mark = mark]
           IN /\ \A s \in Symbols : mark[s] \in Prices[s]
              /\ book' = IF SessionOf(clock') = SessionOf(clock) THEN moved
                         ELSE [moved EXCEPT !.opening = EquityOf(moved)]
    BY <1>3 DEF Tick
  <2>3. PICK moved : moved = [book EXCEPT !.mark = mark]
    OBVIOUS
  <2>4. mark \in [Symbols -> Nat \ {0}]
    BY <2>2, CycleAssumption
  <2>5. IsBook(moved) /\ moved.held = book.held
    BY <1>0, <2>3, <2>4 DEF IsBook
  <2>6. PICK q \in Int : q = EquityOf(moved)
    BY <2>5, BookIsNumbers
  <2>7. PICK reopened : reopened = [moved EXCEPT !.opening = q]
    OBVIOUS
  <2>8. IsBook(reopened) /\ reopened.held = book.held
    BY <2>5, <2>7 DEF IsBook
  <2>9. book' = moved \/ book' = reopened
    BY <2>2, <2>3, <2>6, <2>7
  <2>10. IsBook(book') /\ book'.held = book.held
    BY <2>5, <2>8, <2>9
  <2>11. WorldInv'
    BY <1>0, <2>1, <2>10 DEF WorldInv
  <2>12. CycleInv'
    BY <1>0, <2>1, <2>11, WorldMoves
  <2>. QED  BY <1>0, <2>10, <2>12 DEF Entered, IsBook
<1>. QED  BY <1>1, <1>2, <1>3

\* Every step of the cadence keeps the invariant.
LEMMA StepsKeep ==
  ASSUME CycleInv, [CycleNext]_cycleVars
  PROVE  CycleInv'
<1>1. CASE \E s \in Watchlist : Begin(s)
  BY <1>1, BeginKeeps
<1>2. CASE Answered
  BY <1>2, AnsweredKeeps
<1>3. CASE Decide
  BY <1>3, DecideKeeps
<1>4. CASE Enter
  BY <1>4, EnterKeeps
<1>5. CASE Reduce
  BY <1>5, ReduceKeeps
<1>6. CASE Refuse
  BY <1>6, RefuseKeeps
<1>7. CASE Journal
  BY <1>7, JournalKeeps
<1>8. CASE JournalFails \/ Restart
  BY <1>8, LossesKeep
<1>9. CASE (\E s \in Symbols : ProtectiveExit(s)) \/ SwitchHalt \/ Tick
  BY <1>9, WorldKeeps
<1>10. CASE UNCHANGED cycleVars
  <2>1. WorldInv' /\ clock <= clock' /\ UNCHANGED <<pending, probes>>
    BY <1>10, CycleAssumption DEF cycleVars, probes, CycleInv, WorldInv
  <2>. QED  BY <2>1, WorldMoves
<1>. QED  BY <1>1, <1>2, <1>3, <1>4, <1>5, <1>6, <1>7, <1>8, <1>9, <1>10 DEF CycleNext

\* A decision in flight stays what its specialists said, tightened, or a probe its
\* evidence allows, and the probes of a session stay within its budget, through every
\* order of ticks, exits, halts, journal faults and restarts (execution/daemon.py
\* run_once, agents/atlas.py _probes_used).
THEOREM DecisionsStayFormed == CycleSpec => []CycleInv
<1>1. CycleInit => CycleInv
  BY CycleStarts
<1>2. CycleInv /\ [CycleNext]_cycleVars => CycleInv'
  BY StepsKeep
<1>. QED  BY <1>1, <1>2, PTL DEF CycleSpec

-----------------------------------------------------------------------------
(* The two properties of a step.                                           *)

\* Only Enter adds to a position, and only to that of its subject.
LEMMA OnlyEnterAdds ==
  ASSUME CycleInv, [CycleNext]_cycleVars, NEW s \in Symbols, Entered(s)
  PROVE  Enter /\ s = pending.subject
<1>1. IsBook(book) /\ book.held[s] \in Nat
  BY DEF CycleInv, WorldInv, IsBook
<1>2. book'.held # book.held
  BY <1>1 DEF Entered
<1>3. ~ \E x \in Watchlist : Begin(x)
  <2>1. SUFFICES ASSUME NEW x \in Watchlist, Begin(x) PROVE FALSE
    OBVIOUS
  <2>2. book' = Recorded(book)
    BY <2>1 DEF Begin
  <2>. QED  BY <1>1, <1>2, <2>2, RecordedBook
<1>4. ~ Reduce /\ ~ ((\E x \in Symbols : ProtectiveExit(x)) \/ SwitchHalt \/ Tick)
  BY ReduceKeeps, WorldKeeps
<1>5. ~ (Answered \/ Decide \/ Refuse \/ Journal \/ JournalFails \/ Restart
          \/ UNCHANGED cycleVars)
  BY <1>2 DEF Answered, Decide, Refuse, Journal, JournalFails, Restart, cycleVars
<1>6. Enter
  BY <1>3, <1>4, <1>5 DEF CycleNext
<1>7. PICK t, quantity, cash : /\ t = pending.subject /\ quantity = EntryQuantity(Fresh)
                               /\ cash = book.cash - EntryQuantity(Fresh) * pending.price
  OBVIOUS
<1>8. book' = EntryOf(Fresh, t, quantity, cash)
  BY <1>6, <1>7, EnterFacts DEF EntryOf
<1>9. /\ t \in Symbols /\ quantity \in Nat \ {0} /\ cash \in Int /\ IsBook(Fresh)
      /\ Fresh.held[t] = 0
  BY <1>6, <1>7, EnterFacts DEF Formed
<1>10. book'.held = [Fresh.held EXCEPT ![t] = quantity] /\ Fresh.held = book.held
  BY <1>1, <1>8, <1>9, EntryAdds, RecordedBook DEF Fresh
<1>11. s # t => book'.held[s] = book.held[s]
  BY <1>1, <1>10 DEF IsBook
<1>. QED  BY <1>1, <1>6, <1>7, <1>11 DEF Entered

\* The book an entry leaves: the fresh snapshot's, with the quantity the gates admitted.
LEMMA EntryLeaves ==
  ASSUME CycleInv, Enter, NEW s, s = pending.subject
  PROVE  LET n == EntryQuantity(Fresh) * pending.price IN
         /\ s \in Symbols /\ n \in Nat /\ book'.held[s] = EntryQuantity(Fresh)
         /\ book'.cash = book.cash - n /\ n <= book.cash
         /\ ExposureOf(book', s) = n /\ ExposureOf(Fresh, s) = 0
         /\ GrossOf(book') = GrossOf(Fresh) + n
         /\ \A S \in SUBSET Symbols : s \in S => Gross(book', S) = Gross(Fresh, S) + n
         /\ Cardinality(OpenIn(Fresh)) \in Nat
         /\ Cardinality(OpenIn(book')) = Cardinality(OpenIn(Fresh)) + 1
<1>1. PICK quantity, cash, price : /\ quantity = EntryQuantity(Fresh) /\ price = pending.price
                                   /\ cash = book.cash - EntryQuantity(Fresh) * pending.price
  OBVIOUS
<1>2. PICK after : after = EntryOf(Fresh, s, quantity, cash)
  OBVIOUS
<1>3. book' = after
  BY <1>1, <1>2, EnterFacts DEF EntryOf
<1>4. /\ s \in Symbols /\ quantity \in Nat \ {0} /\ cash \in Int /\ IsBook(Fresh)
      /\ Fresh.held[s] = 0 /\ Fresh.mark[s] = price /\ price \in Nat \ {0}
      /\ quantity * price <= book.cash
  BY <1>1, EnterFacts DEF Formed
<1>5. /\ after.cash = cash /\ after.held = [Fresh.held EXCEPT ![s] = quantity]
      /\ ExposureOf(after, s) = quantity * price /\ ExposureOf(Fresh, s) = 0
      /\ Cardinality(OpenIn(Fresh)) \in Nat
      /\ Cardinality(OpenIn(after)) = Cardinality(OpenIn(Fresh)) + 1
  BY <1>2, <1>4, EntryAdds
<1>6. \A S \in SUBSET Symbols : s \in S => Gross(after, S) = Gross(Fresh, S) + quantity * price
  <2>1. SUFFICES ASSUME NEW S \in SUBSET Symbols, s \in S
                 PROVE  Gross(after, S) = Gross(Fresh, S) + quantity * price
    OBVIOUS
  <2>. QED  BY <1>2, <1>4, <2>1, EntryAddsTo
<1>7. quantity * price \in Nat
  BY <1>4, Products
<1>8. after.held[s] = quantity
  BY <1>4, <1>5 DEF IsBook
<1>9. GrossOf(after) = GrossOf(Fresh) + quantity * price
  BY <1>4, <1>6 DEF GrossOf
<1>. QED  BY <1>1, <1>3, <1>4, <1>5, <1>6, <1>7, <1>8, <1>9

\* What the gates judged on the fresh snapshot, in numbers.
LEMMA GatesSaid ==
  ASSUME CycleInv, Enter, NEW s, s = pending.subject
  PROVE  LET n == EntryQuantity(Fresh) * pending.price
             q == EquityOf(book)
         IN /\ ~ halted /\ q \in Int
            /\ 100 * n <= Min({TradeCap, PositionCap}) * q
            /\ 100 * (GrossOf(Fresh) + n) <= GrossCap * q
            /\ 100 * (GrossOf(Fresh) + n) <= OvernightCap * q
            /\ WorstShock * (GrossOf(Fresh) + n) <= BookTolerance * q
            /\ \A group \in Sectors :
                 s \in group => 100 * (Gross(Fresh, group) + n) <= SectorCap * q
            /\ Cardinality(OpenIn(Fresh)) < MaxOpenPositions
            /\ cooldown[s] <= pending.at
            /\ ~ (100 * (q - book.opening) <= -(DailyLoss * q))
<1>1. PICK n : n = EntryQuantity(Fresh) * pending.price
  OBVIOUS
<1>2. IsBook(book)
  BY DEF CycleInv, WorldInv
<1>3. EquityOf(Fresh) = EquityOf(book) /\ Fresh.opening = book.opening /\ EquityOf(book) \in Int
  BY <1>2, RecordedBook, BookIsNumbers DEF Fresh
<1>4. Admitted(Fresh, s, EntryQuantity(Fresh)) /\ pending.at \in Nat
  BY EnterFacts DEF Formed
<1>5. /\ ~ halted /\ StressPasses(Fresh, n)
      /\ WardenAdmits(Fresh, s, EntryQuantity(Fresh), pending.price, PhaseAt(pending.at))
      /\ Cardinality(OpenIn(Fresh)) < MaxOpenPositions
      /\ ~ CoolingDown(s)
  BY <1>1, <1>4 DEF Admitted
<1>6. /\ FirewallAdmits(Fresh, s, n) /\ SectorAdmits(Fresh, s, n)
      /\ OvernightAdmits(Fresh, PhaseAt(pending.at), n)
  BY <1>1, <1>5 DEF WardenAdmits
<1>7. /\ 100 * n <= Min({TradeCap, PositionCap}) * EquityOf(Fresh)
      /\ 100 * (GrossOf(Fresh) + n) <= GrossCap * EquityOf(Fresh)
      /\ ~ LossHalt(Fresh)
  BY <1>6 DEF FirewallAdmits, Within
<1>8. 100 * (GrossOf(Fresh) + n) <= OvernightCap * EquityOf(Fresh)
  BY <1>6 DEF OvernightAdmits, Within
<1>9. WorstShock * (GrossOf(Fresh) + n) <= BookTolerance * EquityOf(Fresh)
  BY <1>5 DEF StressPasses
<1>10. \A group \in Sectors :
         s \in group => 100 * (Gross(Fresh, group) + n) <= SectorCap * EquityOf(Fresh)
  BY <1>6 DEF SectorAdmits, Within
<1>11. cooldown[s] <= pending.at
  <2>1. s \in Symbols /\ cooldown[s] \in Nat
    BY EnterFacts DEF Formed, CycleInv, WorldInv
  <2>. QED  BY <1>4, <1>5, <2>1 DEF CoolingDown
<1>12. ~ (100 * (EquityOf(Fresh) - Fresh.opening) <= -(DailyLoss * EquityOf(Fresh)))
  BY <1>7 DEF LossHalt
<1>. QED  BY <1>1, <1>3, <1>5, <1>7, <1>8, <1>9, <1>10, <1>11, <1>12

\* One entry, judged on the book of its own moment.
LEMMA EntryIsCapped ==
  ASSUME CycleInv, [CycleNext]_cycleVars, NEW s \in Symbols, Entered(s)
  PROVE  LET after == book'
             equity == EquityOf(book)
             UnderCap(amount, cap) == 100 * amount <= cap * equity
         IN /\ ~halted
            /\ UnderCap(ExposureOf(after, s), Min({TradeCap, PositionCap}))
            /\ UnderCap(GrossOf(after), Min({GrossCap, OvernightCap}))
            /\ WorstShock * GrossOf(after) <= BookTolerance * equity
            /\ \A group \in Sectors : s \in group => UnderCap(Gross(after, group), SectorCap)
            /\ after.cash >= 0
            /\ Cardinality(OpenIn(after)) <= MaxOpenPositions
            /\ cooldown[s] <= clock
            /\ 100 * (book.opening - equity) < DailyLoss * equity
<1>1. Enter /\ s = pending.subject
  BY OnlyEnterAdds
<1>2. PICK n, q, g : /\ n = EntryQuantity(Fresh) * pending.price /\ q = EquityOf(book)
                     /\ g = GrossOf(Fresh)
  OBVIOUS
<1>3. /\ n \in Nat /\ book'.cash = book.cash - n /\ n <= book.cash
      /\ ExposureOf(book', s) = n /\ GrossOf(book') = g + n
      /\ \A S \in SUBSET Symbols : s \in S => Gross(book', S) = Gross(Fresh, S) + n
      /\ Cardinality(OpenIn(Fresh)) \in Nat
      /\ Cardinality(OpenIn(book')) = Cardinality(OpenIn(Fresh)) + 1
  BY <1>1, <1>2, EntryLeaves
<1>4. /\ ~ halted /\ q \in Int
      /\ 100 * n <= Min({TradeCap, PositionCap}) * q
      /\ 100 * (g + n) <= GrossCap * q /\ 100 * (g + n) <= OvernightCap * q
      /\ WorstShock * (g + n) <= BookTolerance * q
      /\ \A group \in Sectors :
           s \in group => 100 * (Gross(Fresh, group) + n) <= SectorCap * q
      /\ Cardinality(OpenIn(Fresh)) < MaxOpenPositions /\ cooldown[s] <= pending.at
      /\ ~ (100 * (q - book.opening) <= -(DailyLoss * q))
  BY <1>1, <1>2, GatesSaid
<1>5. 100 * (g + n) <= Min({GrossCap, OvernightCap}) * q
  <2>1. PICK i \in Int, j \in Int : i = GrossCap /\ j = OvernightCap
    BY LimitsAssumption
  <2>2. Min({i, j}) = i \/ Min({i, j}) = j
    BY OfPair
  <2>. QED  BY <1>4, <2>1, <2>2
<1>6. \A group \in Sectors : s \in group => 100 * Gross(book', group) <= SectorCap * q
  BY <1>3, <1>4, LimitsAssumption
<1>7. book'.cash >= 0
  <2>1. book.cash \in Int
    BY DEF CycleInv, WorldInv, IsBook
  <2>. QED  BY <1>3, <2>1
<1>8. Cardinality(OpenIn(book')) <= MaxOpenPositions
  BY <1>3, <1>4, LimitsAssumption
<1>9. cooldown[s] <= clock
  <2>1. pending.at \in 0 .. clock
    BY <1>1, EnterFacts DEF Formed
  <2>2. clock \in Nat /\ cooldown[s] \in Nat
    BY DEF CycleInv, WorldInv
  <2>. QED  BY <1>4, <2>1, <2>2
<1>10. 100 * (book.opening - q) < DailyLoss * q
  <2>1. book.opening \in Int
    BY DEF CycleInv, WorldInv, IsBook
  <2>2. PICK loss \in Int : loss = DailyLoss * q
    BY <1>4, LimitsAssumption
  <2>. QED  BY <1>4, <2>1, <2>2
<1>. QED  BY <1>2, <1>3, <1>4, <1>5, <1>6, <1>7, <1>8, <1>9, <1>10

\* EntriesWithinCaps: however the marks moved, whatever was sold, and however long the
\* model was asked, the book an entry leaves is within every limit at its own moment
\* (swarm_runtime.py _execute_proposal, warden.py evaluate).
THEOREM EntriesCapped == CycleSpec => EntriesWithinCaps
<1>1. CycleInv /\ [CycleNext]_cycleVars =>
        [\A s \in Symbols : Entered(s) =>
           LET after == book'
               equity == EquityOf(book)
               UnderCap(amount, cap) == 100 * amount <= cap * equity
           IN /\ ~halted
              /\ UnderCap(ExposureOf(after, s), Min({TradeCap, PositionCap}))
              /\ UnderCap(GrossOf(after), Min({GrossCap, OvernightCap}))
              /\ WorstShock * GrossOf(after) <= BookTolerance * equity
              /\ \A group \in Sectors : s \in group => UnderCap(Gross(after, group), SectorCap)
              /\ after.cash >= 0
              /\ Cardinality(OpenIn(after)) <= MaxOpenPositions
              /\ cooldown[s] <= clock
              /\ 100 * (book.opening - equity) < DailyLoss * equity
        ]_cycleVars
  BY EntryIsCapped
<1>. QED  BY <1>1, DecisionsStayFormed, PTL DEF CycleSpec, EntriesWithinCaps

\* A probe's quantity is what its fraction of the book allows.
LEMMA ProbeIsSmall ==
  ASSUME CycleInv, Enter, NEW s, s = pending.subject, pending.decision.probe
  PROVE  /\ Playbook[pending.regime].probes
         /\ ScoreAtLeast(pending.evidence, ProbeScore)
         /\ 100 * book'.held[s] * pending.price <= ProbeFraction * EquityOf(book)
<1>1. Formed(pending, clock) /\ IsBook(Fresh) /\ pending.decision.probe = TRUE
  BY EnterFacts
<1>2. pending.price \in Nat \ {0} /\ IsBook(book)
  BY <1>1 DEF Formed, CycleInv, WorldInv
<1>3. PICK k, price : k = ProbeQuantity(Fresh, pending.price) /\ price = pending.price
  OBVIOUS
<1>4. book'.held[s] = k
  BY <1>3, EntryLeaves DEF EntryQuantity
<1>5. k \in Int /\ 100 * (k * price) <= ProbeFraction * EquityOf(Fresh)
  BY <1>1, <1>2, <1>3, QuantitiesAreNumbers
<1>6. EquityOf(Fresh) = EquityOf(book)
  BY <1>2, RecordedBook DEF Fresh
<1>7. 100 * k * price = 100 * (k * price)
  BY <1>2, <1>3, <1>5
<1>. QED  BY <1>1, <1>3, <1>4, <1>5, <1>6, <1>7 DEF Formed

\* Any other entry is the specialists' own, no larger than at their own confidence.
LEMMA EntryIsOwn ==
  ASSUME CycleInv, Enter, NEW s, s = pending.subject, ~ pending.decision.probe
  PROVE  /\ OwnBuy(pending.evidence, pending.regime)
         /\ book'.held[s] <= pending.plan
         /\ book'.held[s] <= SizedQuantity(pending.plan, pending.own.confidence,
                                           pending.regime)
<1>1. Formed(pending, clock) /\ IsDecision(pending.decision)
  BY EnterFacts DEF Formed
<1>2. pending.decision.probe \in BOOLEAN
  BY <1>1, DecisionFields
<1>3. Tightened(pending.decision, pending.own)
  BY <1>1, <1>2 DEF Formed
<1>4. /\ IsEvidence(pending.evidence) /\ pending.regime \in DOMAIN Playbook
      /\ pending.own = DecideCore(pending.evidence, pending.regime) /\ pending.plan \in Int
  BY <1>1 DEF Formed
<1>5. IsDecision(pending.own)
  BY <1>4, CoreBuys
<1>6. /\ StanceScore[pending.decision.action] > 0
      /\ EntryQuantity(Fresh) \in Nat \ {0}
  BY EnterFacts
<1>7. StanceScore[pending.own.action] > 0 /\ pending.decision.confidence <= pending.own.confidence
  BY <1>1, <1>3, <1>5, <1>6, DecisionFields DEF Tightened
<1>8. PICK plan \in Int, c \in Int, k \in Int, regime \in DOMAIN Playbook :
         /\ plan = pending.plan /\ c = pending.decision.confidence
         /\ k = pending.own.confidence /\ regime = pending.regime
  BY <1>1, <1>4, <1>5, DecisionFields
<1>9. PICK quantity : quantity = SizedQuantity(plan, c, regime)
  OBVIOUS
<1>10. quantity = EntryQuantity(Fresh) /\ book'.held[s] = quantity
  BY <1>8, <1>9, EntryLeaves DEF EntryQuantity
<1>11. plan > 0
  <2>1. quantity \in Nat \ {0}
    BY <1>6, <1>10
  <2>. QED  BY <1>8, <1>9, <2>1 DEF SizedQuantity
<1>12. quantity <= plan /\ quantity <= SizedQuantity(plan, k, regime)
  BY <1>7, <1>8, <1>9, <1>11, SizedWithinPlan
<1>. QED  BY <1>4, <1>7, <1>8, <1>10, <1>12, CoreBuys

\* The probes of a session that were filled are within its budget but for the rows lost.
LEMMA ProbesWithinBudget ==
  ASSUME CycleInv', NEW d \in Sessions
  PROVE  probeFills'[d] <= ProbesPerDay + lostRows'[d]
<1>1. probeRows'[d] \in Nat /\ probeFills'[d] \in Nat /\ lostRows'[d] \in Nat
  BY DEF CycleInv, BudgetInv
<1>2. /\ probeRows'[d] + Flying(pending', d) <= ProbesPerDay
      /\ probeFills'[d] <= probeRows'[d] + lostRows'[d] + Landing(pending', d)
  BY DEF CycleInv, BudgetInv
<1>3. PICK n, m : n = Flying(pending', d) /\ m = Landing(pending', d)
  OBVIOUS
<1>4. n \in Nat /\ m \in Nat /\ m <= n /\ ProbesPerDay \in Nat
  BY <1>3, FlyingIsCounted, PolicyAssumption
<1>. QED  BY <1>1, <1>2, <1>3, <1>4

\* OnlyTightened: neither the model, nor the gates, nor the exploration budget makes an
\* entry the specialists did not (atlas.py _decide_with_llm_core, _explore, _probes_used).
THEOREM ModelOnlyTightens == CycleSpec => OnlyTightened
<1>1. CycleInv /\ CycleInv' /\ [CycleNext]_cycleVars =>
        [/\ \A s \in Symbols : Entered(s) =>
              IF pending.decision.probe
              THEN /\ Playbook[pending.regime].probes
                   /\ ScoreAtLeast(pending.evidence, ProbeScore)
                   /\ 100 * book'.held[s] * pending.price <= ProbeFraction * EquityOf(book)
              ELSE /\ OwnBuy(pending.evidence, pending.regime)
                   /\ book'.held[s] <= pending.plan
                   /\ book'.held[s] <= SizedQuantity(pending.plan, pending.own.confidence,
                                                     pending.regime)
         /\ \A d \in Sessions : probeFills'[d] <= ProbesPerDay + lostRows'[d]
        ]_cycleVars
  <2>1. ASSUME CycleInv, [CycleNext]_cycleVars, NEW s \in Symbols, Entered(s)
        PROVE  IF pending.decision.probe
               THEN /\ Playbook[pending.regime].probes
                    /\ ScoreAtLeast(pending.evidence, ProbeScore)
                    /\ 100 * book'.held[s] * pending.price <= ProbeFraction * EquityOf(book)
               ELSE /\ OwnBuy(pending.evidence, pending.regime)
                    /\ book'.held[s] <= pending.plan
                    /\ book'.held[s] <= SizedQuantity(pending.plan, pending.own.confidence,
                                                      pending.regime)
    <3>1. Enter /\ s = pending.subject
      BY <2>1, OnlyEnterAdds
    <3>. QED  BY <2>1, <3>1, ProbeIsSmall, EntryIsOwn
  <2>2. CycleInv' => \A d \in Sessions : probeFills'[d] <= ProbesPerDay + lostRows'[d]
    BY ProbesWithinBudget
  <2>. QED  BY <2>1, <2>2
<1>. QED  BY <1>1, DecisionsStayFormed, PTL DEF CycleSpec, OnlyTightened

-----------------------------------------------------------------------------
(* What the tickets of a day add up to.                                    *)

OpenStatuses == {"admitted", "dispatched", "reserved"}
Ticket == [status : {"none", "admitted", "dispatched", "settled", "cancelled", "reserved"},
           day : Nat, used : Nat]

Kinds == {"calls", "used", "reserved", "held"}

\* What ticket t of call c weighs in each of the sums.  What it holds is its allowance while
\* it is open and, once it is settled, what was spent of it.
Weight(k, c, t) ==
  CASE k = "calls"    -> IF t.status \in {"none", "cancelled"} THEN 0 ELSE 1
    [] k = "used"     -> IF t.status \in {"none", "cancelled"} THEN 0 ELSE t.used
    [] k = "reserved" -> IF t.status \in OpenStatuses THEN Allowance[c] ELSE 0
    [] k = "held"     -> IF t.status \in OpenStatuses THEN Allowance[c]
                         ELSE IF t.status = "settled" THEN Least(t.used, Allowance[c]) ELSE 0

\* The same, if the ticket is one of day d and the call one of In.
WeightOn(k, d, In, c, t) == IF c \in In /\ t.day = d THEN Weight(k, c, t) ELSE 0

\* The sums over the tickets ts of every call.
TotalOf(k, d, In, ts) == SumOf([c \in Calls |-> WeightOn(k, d, In, c, ts[c])], Calls)

\* A weight is a number.
LEMMA Weights ==
  ASSUME NEW k \in Kinds, NEW c \in Calls, NEW t \in Ticket
  PROVE  Weight(k, c, t) \in Nat /\ \A d, In : WeightOn(k, d, In, c, t) \in Nat
<1>1. Weight(k, c, t) \in Nat
  <2>1. Allowance[c] \in Nat /\ t.used \in Nat
    BY BudgetAssumption DEF Ticket
  <2>2. Least(t.used, Allowance[c]) \in Nat
    BY <2>1 DEF Least
  <2>. QED  BY <2>1, <2>2 DEF Weight, Kinds
<1>. QED  BY <1>1 DEF WeightOn

\* So is their sum.
LEMMA Totals ==
  ASSUME NEW k \in Kinds, NEW d, NEW In, NEW ts \in [Calls -> Ticket]
  PROVE  TotalOf(k, d, In, ts) \in Nat
<1>. DEFINE f == [c \in Calls |-> WeightOn(k, d, In, c, ts[c])]
<1>1. \A c \in Calls : f[c] \in Nat
  <2>1. \A c \in Calls : WeightOn(k, d, In, c, ts[c]) \in Nat
    BY Weights
  <2>. QED  BY <2>1
<1>. HIDE DEF f
<1>2. SumOf(f, Calls) \in Nat
  BY <1>1, CallsAssumption, SumNat
<1>. QED  BY <1>2 DEF TotalOf, f

\* The same once call c holds ticket t in place of the one it had.
TotalAfter(k, d, In, ts, c, t) ==
  TotalOf(k, d, In, ts)
    + (IF c \in In /\ t.day = d THEN Weight(k, c, t) - Weight(k, c, ts[c]) ELSE 0)

\* One ticket is written: a first one, or one of the day it already had.
LEMMA TotalMoves ==
  ASSUME NEW k \in Kinds, NEW d, NEW In, NEW ts \in [Calls -> Ticket],
         NEW us \in [Calls -> Ticket], NEW c \in Calls,
         \A x \in Calls : x # c => us[x] = ts[x],
         ts[c].status = "none" \/ ts[c].day = us[c].day
  PROVE  TotalOf(k, d, In, us) = TotalAfter(k, d, In, ts, c, us[c])
<1>. DEFINE f == [x \in Calls |-> WeightOn(k, d, In, x, ts[x])]
            g == [x \in Calls |-> WeightOn(k, d, In, x, us[x])]
<1>1. PICK t : t = us[c] /\ t \in Ticket
  OBVIOUS
<1>2. \A x \in Calls : f[x] \in Int /\ g[x] \in Int /\ (x # c => f[x] = g[x])
  <2>1. \A x \in Calls : /\ WeightOn(k, d, In, x, ts[x]) \in Nat
                         /\ WeightOn(k, d, In, x, us[x]) \in Nat
    BY <1>1, Weights
  <2>. QED  BY <1>1, <2>1
<1>3. f[c] = WeightOn(k, d, In, c, ts[c]) /\ g[c] = WeightOn(k, d, In, c, t)
  BY <1>1
<1>4. TotalOf(k, d, In, ts) = SumOf(f, Calls) /\ TotalOf(k, d, In, us) = SumOf(g, Calls)
  BY DEF TotalOf
<1>. HIDE DEF f, g
<1>5. SumOf(g, Calls) = SumOf(f, Calls) - f[c] + g[c]
  BY <1>2, CallsAssumption, SumChange
<1>6. SumOf(f, Calls) \in Int
  BY <1>2, CallsAssumption, SumInt
<1>7. Weight(k, c, t) \in Nat /\ Weight(k, c, ts[c]) \in Nat
  <2>1. ts[c] \in Ticket
    OBVIOUS
  <2>. QED  BY <1>1, <2>1, Weights
<1>8. ts[c].status = "none" => Weight(k, c, ts[c]) = 0
  BY DEF Weight, Kinds, OpenStatuses
<1>9. g[c] - f[c] = IF c \in In /\ t.day = d THEN Weight(k, c, t) - Weight(k, c, ts[c]) ELSE 0
  BY <1>1, <1>3, <1>7, <1>8 DEF WeightOn
<1>10. f[c] \in Int /\ g[c] \in Int
  BY <1>2
<1>11. TotalOf(k, d, In, us) = TotalOf(k, d, In, ts) + (g[c] - f[c])
  BY <1>4, <1>5, <1>6, <1>10
<1>. QED  BY <1>1, <1>9, <1>11 DEF TotalAfter

\* A ticket that comes to weigh less does not raise the sum.
LEMMA TotalFalls ==
  ASSUME NEW k \in Kinds, NEW d, NEW In, NEW ts \in [Calls -> Ticket], NEW c \in Calls,
         NEW t \in Ticket, Weight(k, c, t) <= Weight(k, c, ts[c])
  PROVE  TotalAfter(k, d, In, ts, c, t) <= TotalOf(k, d, In, ts)
<1>1. ts[c] \in Ticket
  OBVIOUS
<1>2. Weight(k, c, t) \in Nat /\ Weight(k, c, ts[c]) \in Nat /\ TotalOf(k, d, In, ts) \in Nat
  BY <1>1, Weights, Totals
<1>. QED  BY <1>2 DEF TotalAfter

\* What the tickets hold is covered by what was reported of them and what is still reserved.
LEMMA HeldIsCounted ==
  ASSUME NEW d, NEW In, NEW ts \in [Calls -> Ticket]
  PROVE  TotalOf("held", d, In, ts) <= TotalOf("used", d, In, ts) + TotalOf("reserved", d, In, ts)
<1>. DEFINE f(k) == [c \in Calls |-> WeightOn(k, d, In, c, ts[c])]
            both == [c \in Calls |-> f("used")[c] + f("reserved")[c]]
<1>1. ASSUME NEW c \in Calls
      PROVE  /\ f("used")[c] \in Nat /\ f("reserved")[c] \in Nat /\ f("held")[c] \in Nat
             /\ f("held")[c] <= both[c]
             /\ both[c] = f("used")[c] + f("reserved")[c]
  <2>1. PICK t \in Ticket : t = ts[c]
    OBVIOUS
  <2>2. /\ WeightOn("used", d, In, c, t) \in Nat /\ WeightOn("reserved", d, In, c, t) \in Nat
        /\ WeightOn("held", d, In, c, t) \in Nat
    BY Weights DEF Kinds
  <2>3. WeightOn("held", d, In, c, t)
          <= WeightOn("used", d, In, c, t) + WeightOn("reserved", d, In, c, t)
    <3>1. Allowance[c] \in Nat /\ t.used \in Nat
      BY BudgetAssumption DEF Ticket
    <3>. QED  BY <3>1 DEF WeightOn, Weight, OpenStatuses, Least
  <2>. QED  BY <2>1, <2>2, <2>3
<1>2. /\ TotalOf("held", d, In, ts) = SumOf(f("held"), Calls)
      /\ TotalOf("used", d, In, ts) = SumOf(f("used"), Calls)
      /\ TotalOf("reserved", d, In, ts) = SumOf(f("reserved"), Calls)
  BY DEF TotalOf
<1>. HIDE DEF f, both
<1>3. SumOf(both, Calls) = SumOf(f("used"), Calls) + SumOf(f("reserved"), Calls)
  <2>1. PICK F, G : F = f("used") /\ G = f("reserved")
    OBVIOUS
  <2>2. \A x \in Calls : F[x] \in Int /\ G[x] \in Int /\ both[x] = F[x] + G[x]
    BY <1>1, <2>1
  <2>3. SumOf(both, Calls) = SumOf(F, Calls) + SumOf(G, Calls)
    BY <2>2, CallsAssumption, SumPlus
  <2>. QED  BY <2>1, <2>3
<1>4. \A c \in Calls : f("held")[c] \in Int /\ both[c] \in Int /\ f("held")[c] <= both[c]
  BY <1>1
<1>5. SumOf(f("held"), Calls) <= SumOf(both, Calls)
  BY <1>4, CallsAssumption, SumCompare
<1>. QED  BY <1>2, <1>3, <1>5

-----------------------------------------------------------------------------
(* The inductive invariant.                                                *)

Steps == {"reserve", "price", "dispatch", "sent", "settleDollars", "settle", "cancel", "done"}

Typed ==
  /\ utcDay \in BudgetDays
  /\ ticket \in [Ledgers -> [Calls -> Ticket]]
  /\ dollarTicket \in [Calls -> Ticket]
  /\ call \in [Calls -> [step : Steps, at : Nat, spent : Nat, said : Int]]
  /\ ledger \in [Ledgers -> [BudgetDays -> [AllRows ->
                  [calls : Int, used : Int, reserved : Int]]]]
  /\ dollars \in [BudgetDays -> [spent : Int, reserved : Int]]

\* The calls that row r of ledger l counts.
RowCalls(l, r) == {c \in Calls : l \in Range(LedgersOf[c]) /\ r \in Rows(c)}

RowOf(d, In, ts) == [calls |-> TotalOf("calls", d, In, ts), used |-> TotalOf("used", d, In, ts),
                     reserved |-> TotalOf("reserved", d, In, ts)]

\* The counters of the token ledgers are the sums of the tickets.
LedgerFollows ==
  \A l \in Ledgers, d \in BudgetDays, r \in AllRows :
    ledger[l][d][r] = RowOf(d, RowCalls(l, r), ticket[l])

\* The limits hold for the calls that were not given back, and for what their tickets hold:
\* the reported usage itself may exceed an allowance.
LedgerWithin ==
  \A l \in Ledgers, d \in BudgetDays :
    /\ TotalOf("calls", d, RowCalls(l, Account), ticket[l]) <= CallLimit[l]
    /\ TotalOf("held", d, RowCalls(l, Account), ticket[l]) <= TokenLimit[l]

Books == LedgerFollows /\ LedgerWithin

\* The same of the money.
DollarsFollow ==
  \A d \in BudgetDays :
    /\ dollars[d] = [spent |-> TotalOf("used", d, Calls, dollarTicket),
                     reserved |-> TotalOf("reserved", d, Calls, dollarTicket)]
    /\ TotalOf("held", d, Calls, dollarTicket) <= DollarLimit

\* A ticket belongs to the day it was admitted on, nothing is spent on it while it is open,
\* and what was really spent once it is settled.
TicketFits(t, spent) ==
  /\ t.status = "none" <=> t.day = 0
  /\ t.day \in BudgetDays \cup {0}
  /\ t.status \in OpenStatuses => t.used = 0
  /\ t.status = "settled" => t.used = spent

\* Where a client is says which of its tickets it has already taken.
CallFits(c) ==
  /\ call[c].at \in 1 .. Len(LedgersOf[c])
  /\ call[c].step = "reserve" =>
       \A i \in call[c].at .. Len(LedgersOf[c]) : ticket[LedgersOf[c][i]][c].status = "none"
  /\ call[c].step \in {"reserve", "price"} => dollarTicket[c].status = "none"
  /\ call[c].step \in {"reserve", "price", "dispatch"} =>
       /\ \A l \in Ledgers : ticket[l][c].status # "settled"
       /\ dollarTicket[c].status # "settled"
  /\ call[c].step \in {"settleDollars", "settle"} => call[c].said \in {Unknown, call[c].spent}
  /\ \A l \in Ledgers : /\ ticket[l][c].status # "reserved"
                         /\ TicketFits(ticket[l][c], call[c].spent)
  /\ dollarTicket[c].status \in {"none", "reserved", "settled"}
  /\ TicketFits(dollarTicket[c], call[c].spent)

SpendInv == Typed /\ Books /\ DollarsFollow /\ \A c \in Calls : CallFits(c)

-----------------------------------------------------------------------------
(* The token ledgers.                                                      *)

\* With it, the rows of its ledger and its day are written by the difference.
LEMMA RowsMove ==
  ASSUME Typed, LedgerFollows, NEW l \in Ledgers, NEW c \in Calls, l \in Range(LedgersOf[c]),
         NEW t \in Ticket, NEW D \in BudgetDays, t.day = D,
         ticket[l][c].status = "none" \/ ticket[l][c].day = D,
         ticket' = [ticket EXCEPT ![l][c] = t],
         NEW calls, calls = Weight("calls", c, t) - Weight("calls", c, ticket[l][c]),
         NEW used, used = Weight("used", c, t) - Weight("used", c, ticket[l][c]),
         NEW reserved, reserved = Weight("reserved", c, t) - Weight("reserved", c, ticket[l][c]),
         Bump(l, D, c, calls, used, reserved)
  PROVE  /\ LedgerFollows'
         /\ ledger' \in [Ledgers -> [BudgetDays -> [AllRows ->
                         [calls : Int, used : Int, reserved : Int]]]]
<1>1. /\ ticket \in [Ledgers -> [Calls -> Ticket]]
      /\ ledger \in [Ledgers -> [BudgetDays -> [AllRows -> [calls : Int, used : Int, reserved : Int]]]]
  BY DEF Typed
<1>2. /\ calls \in Int /\ used \in Int /\ reserved \in Int
  <2>1. ticket[l][c] \in Ticket
    BY <1>1
  <2>. QED  BY <2>1, Weights DEF Kinds
<1>3. PICK ts, us : ts = ticket[l] /\ us = ticket'[l]
  OBVIOUS
<1>4. ts \in [Calls -> Ticket] /\ ts[c] = ticket[l][c]
  BY <1>1, <1>3
<1>5. /\ us \in [Calls -> Ticket] /\ us[c] = t
      /\ \A x \in Calls : x # c => us[x] = ts[x]
      /\ ts[c].status = "none" \/ ts[c].day = us[c].day
      /\ \A m \in Ledgers : m # l => ticket'[m] = ticket[m]
  BY <1>1, <1>3
<1>6. \A k \in Kinds : \A d, In : TotalOf(k, d, In, us) = TotalAfter(k, d, In, ts, c, t)
  BY <1>4, <1>5, TotalMoves
<1>7. \A m \in Ledgers : m # l => ticket'[m] = ticket[m]
  BY <1>5
<1>. DEFINE Counter == [calls : Int, used : Int, reserved : Int]
            Shifted(r, x) == IF r \in Rows(c)
                           THEN [calls |-> x.calls + calls, used |-> x.used + used,
                                 reserved |-> x.reserved + reserved]
                           ELSE x
<1>8. ledger' = [ledger EXCEPT ![l][D] = [r \in AllRows |-> Shifted(r, @[r])]]
  BY DEF Bump
<1>9. \A r, x : x \in Counter => Shifted(r, x) \in Counter
  BY <1>2
<1>. HIDE DEF Shifted, Counter
<1>10. /\ ledger' \in [Ledgers -> [BudgetDays -> [AllRows -> Counter]]]
       /\ \A m \in Ledgers, d \in BudgetDays, r \in AllRows :
            ledger'[m][d][r] = IF m = l /\ d = D THEN Shifted(r, ledger[l][D][r]) ELSE ledger[m][d][r]
  <2>1. ledger \in [Ledgers -> [BudgetDays -> [AllRows -> Counter]]]
    BY <1>1 DEF Counter
  <2>. QED  BY <1>8, <1>9, <2>1
<1>11. ASSUME NEW m \in Ledgers, NEW d \in BudgetDays, NEW r \in AllRows
       PROVE  ledger'[m][d][r] = RowOf(d, RowCalls(m, r), ticket'[m])
  <2>1. ledger[m][d][r] = RowOf(d, RowCalls(m, r), ticket[m])
    BY DEF LedgerFollows
  <2>2. CASE m # l
    BY <1>7, <1>10, <2>1, <2>2
  <2>3. CASE m = l
    <3>1. c \in RowCalls(l, r) <=> r \in Rows(c)
      BY DEF RowCalls
    <3>2. PICK In : In = RowCalls(l, r)
      OBVIOUS
    <3>3. ASSUME NEW k \in Kinds
          PROVE  /\ TotalOf(k, d, In, ts) \in Int
                 /\ TotalOf(k, d, In, us)
                      = TotalOf(k, d, In, ts)
                        + (IF c \in In /\ t.day = d THEN Weight(k, c, t) - Weight(k, c, ts[c]) ELSE 0)
      <4>1. TotalOf(k, d, In, ts) \in Nat
        BY <1>4, Totals
      <4>2. TotalOf(k, d, In, us) = TotalAfter(k, d, In, ts, c, t)
        BY <1>6
      <4>. QED  BY <4>1, <4>2 DEF TotalAfter
    <3>4. "calls" \in Kinds /\ "used" \in Kinds /\ "reserved" \in Kinds
      BY DEF Kinds
    <3>5. CASE c \in In /\ D = d
      <4>1. ASSUME NEW k \in Kinds
            PROVE  TotalOf(k, d, In, us)
                     = TotalOf(k, d, In, ts) + (Weight(k, c, t) - Weight(k, c, ts[c]))
        BY <3>3, <3>5
      <4>2. /\ TotalOf("calls", d, In, us) = TotalOf("calls", d, In, ts) + calls
            /\ TotalOf("used", d, In, us) = TotalOf("used", d, In, ts) + used
            /\ TotalOf("reserved", d, In, us) = TotalOf("reserved", d, In, ts) + reserved
        BY <1>4, <3>4, <4>1
      <4>3. RowOf(d, In, us) = Shifted(r, RowOf(d, In, ts))
        BY <3>1, <3>2, <3>5, <4>2 DEF RowOf, Shifted
      <4>. QED  BY <1>3, <1>10, <2>1, <2>3, <3>2, <3>5, <4>3
    <3>6. CASE ~ (c \in In /\ D = d)
      <4>1. \A k \in Kinds : TotalOf(k, d, In, us) = TotalOf(k, d, In, ts)
        BY <3>3, <3>6
      <4>2. RowOf(d, In, us) = RowOf(d, In, ts)
        BY <3>4, <4>1 DEF RowOf
      <4>3. ledger'[l][d][r] = ledger[l][d][r]
        <5>1. CASE D # d
          BY <1>10, <5>1
        <5>2. CASE D = d
          <6>1. r \notin Rows(c)
            BY <3>1, <3>2, <3>6, <5>2
          <6>2. \A x : Shifted(r, x) = x
            BY <6>1 DEF Shifted
          <6>. QED  BY <1>10, <6>2, <5>2
        <5>. QED  BY <5>1, <5>2
      <4>. QED  BY <1>3, <2>1, <2>3, <3>2, <4>2, <4>3
    <3>. QED  BY <3>5, <3>6
  <2>. QED  BY <2>2, <2>3
<1>. QED  BY <1>10, <1>11 DEF LedgerFollows, Counter

\* A ticket written with its rows keeps the books if its day stays within the limits.
LEMMA BooksMove ==
  ASSUME Typed, Books, NEW l \in Ledgers, NEW c \in Calls, l \in Range(LedgersOf[c]),
         NEW t \in Ticket, NEW D \in BudgetDays, t.day = D,
         ticket[l][c].status = "none" \/ ticket[l][c].day = D,
         ticket' = [ticket EXCEPT ![l][c] = t],
         NEW calls, calls = Weight("calls", c, t) - Weight("calls", c, ticket[l][c]),
         NEW used, used = Weight("used", c, t) - Weight("used", c, ticket[l][c]),
         NEW reserved, reserved = Weight("reserved", c, t) - Weight("reserved", c, ticket[l][c]),
         Bump(l, D, c, calls, used, reserved),
         TotalAfter("calls", D, RowCalls(l, Account), ticket[l], c, t) <= CallLimit[l],
         TotalAfter("held", D, RowCalls(l, Account), ticket[l], c, t) <= TokenLimit[l]
  PROVE  /\ Books'
         /\ ledger' \in [Ledgers -> [BudgetDays -> [AllRows ->
                         [calls : Int, used : Int, reserved : Int]]]]
<1>1. /\ LedgerFollows'
      /\ ledger' \in [Ledgers -> [BudgetDays -> [AllRows ->
                      [calls : Int, used : Int, reserved : Int]]]]
  BY RowsMove DEF Books
<1>2. PICK ts, us : ts = ticket[l] /\ us = ticket'[l]
  OBVIOUS
<1>3. /\ ts \in [Calls -> Ticket] /\ us \in [Calls -> Ticket] /\ us[c] = t
      /\ \A x \in Calls : x # c => us[x] = ts[x]
      /\ ts[c].status = "none" \/ ts[c].day = us[c].day
      /\ \A m \in Ledgers : m # l => ticket'[m] = ticket[m]
  BY <1>2 DEF Typed
<1>4. \A k \in Kinds : \A d, In : TotalOf(k, d, In, us) = TotalAfter(k, d, In, ts, c, t)
  BY <1>3, TotalMoves
<1>5. "calls" \in Kinds /\ "held" \in Kinds
  BY DEF Kinds
<1>6. ASSUME NEW k \in Kinds, NEW d, NEW In, d # D
      PROVE  TotalOf(k, d, In, us) = TotalOf(k, d, In, ts)
  <2>1. TotalOf(k, d, In, us) = TotalAfter(k, d, In, ts, c, t)
    BY <1>4
  <2>2. TotalOf(k, d, In, ts) \in Nat
    BY <1>3, Totals
  <2>. QED  BY <1>6, <2>1, <2>2 DEF TotalAfter
<1>7. ASSUME NEW m \in Ledgers, NEW d \in BudgetDays
      PROVE  /\ TotalOf("calls", d, RowCalls(m, Account), ticket'[m]) <= CallLimit[m]
             /\ TotalOf("held", d, RowCalls(m, Account), ticket'[m]) <= TokenLimit[m]
  <2>1. /\ TotalOf("calls", d, RowCalls(m, Account), ticket[m]) <= CallLimit[m]
        /\ TotalOf("held", d, RowCalls(m, Account), ticket[m]) <= TokenLimit[m]
    BY DEF Books, LedgerWithin
  <2>2. CASE m # l
    BY <1>3, <2>1, <2>2
  <2>3. CASE m = l /\ d # D
    BY <1>2, <1>5, <1>6, <2>1, <2>3
  <2>4. CASE m = l /\ d = D
    BY <1>2, <1>4, <1>5, <2>4
  <2>. QED  BY <2>2, <2>3, <2>4
<1>. QED  BY <1>1, <1>7 DEF Books, LedgerWithin

\* A ticket that is only marked keeps them as they are.
LEMMA BooksStand ==
  ASSUME Typed, Books, UNCHANGED ledger, NEW l \in Ledgers, NEW c \in Calls,
         NEW t \in Ticket, ticket[l][c].day = t.day, ticket' = [ticket EXCEPT ![l][c] = t],
         \A k \in Kinds : Weight(k, c, t) = Weight(k, c, ticket[l][c])
  PROVE  Books'
<1>1. PICK ts, us : ts = ticket[l] /\ us = ticket'[l]
  OBVIOUS
<1>2. /\ ts \in [Calls -> Ticket] /\ us \in [Calls -> Ticket] /\ us[c] = t
      /\ \A x \in Calls : x # c => us[x] = ts[x]
      /\ ts[c].status = "none" \/ ts[c].day = us[c].day
      /\ \A m \in Ledgers : m # l => ticket'[m] = ticket[m]
  BY <1>1 DEF Typed
<1>3. \A k \in Kinds : \A d, In : TotalOf(k, d, In, us) = TotalAfter(k, d, In, ts, c, t)
  BY <1>2, TotalMoves
<1>4. ASSUME NEW k \in Kinds, NEW d, NEW In
      PROVE  TotalOf(k, d, In, us) = TotalOf(k, d, In, ts)
  <2>1. TotalOf(k, d, In, us) = TotalAfter(k, d, In, ts, c, t)
    BY <1>3
  <2>2. TotalOf(k, d, In, ts) \in Nat
    BY <1>2, Totals
  <2>3. Weight(k, c, t) \in Nat
    BY Weights
  <2>4. Weight(k, c, t) = Weight(k, c, ts[c])
    BY <1>1
  <2>. QED  BY <2>1, <2>2, <2>3, <2>4 DEF TotalAfter
<1>5. ASSUME NEW k \in Kinds, NEW m \in Ledgers, NEW d, NEW In
      PROVE  TotalOf(k, d, In, ticket'[m]) = TotalOf(k, d, In, ticket[m])
  <2>1. CASE m # l
    BY <1>2, <2>1
  <2>2. CASE m = l
    BY <1>1, <1>4, <2>2
  <2>. QED  BY <2>1, <2>2
<1>6. "calls" \in Kinds /\ "used" \in Kinds /\ "reserved" \in Kinds /\ "held" \in Kinds
  BY DEF Kinds
<1>7. \A m \in Ledgers : \A d, In : RowOf(d, In, ticket'[m]) = RowOf(d, In, ticket[m])
  BY <1>5, <1>6 DEF RowOf
<1>8. LedgerFollows'
  BY <1>7 DEF Books, LedgerFollows
<1>9. LedgerWithin'
  BY <1>5, <1>6 DEF Books, LedgerWithin
<1>. QED  BY <1>8, <1>9 DEF Books

-----------------------------------------------------------------------------
(* The steps of the token ledgers.                                         *)

\* The ledger a client is at is one it walks.
LEMMA HereIsWalked ==
  ASSUME NEW c \in Calls, CallFits(c)
  PROVE  Here(c) \in Ledgers /\ Here(c) \in Range(LedgersOf[c])
<1>1. PICK i : i = call[c].at
  OBVIOUS
<1>2. i \in 1 .. Len(LedgersOf[c])
  BY <1>1 DEF CallFits
<1>3. LedgersOf[c] \in Seq(Ledgers)
  BY CallsAssumption
<1>4. LedgersOf[c][i] \in Ledgers /\ LedgersOf[c][i] \in Range(LedgersOf[c])
  BY <1>2, <1>3 DEF Range
<1>. QED  BY <1>1, <1>4 DEF Here

\* The ticket of a reservation is a first one, and the row had room for it.
LEMMA ReserveBooks ==
  ASSUME Typed, Books, NEW c \in Calls, CallFits(c), ReserveTokens(c)
  PROVE  /\ Books'
         /\ ledger' \in [Ledgers -> [BudgetDays -> [AllRows ->
                         [calls : Int, used : Int, reserved : Int]]]]
<1>1. PICK l, D, t, old : /\ l = Here(c) /\ D = utcDay /\ old = ticket[l][c]
                          /\ t = [status |-> "admitted", day |-> D, used |-> 0]
  OBVIOUS
<1>2. l \in Ledgers /\ l \in Range(LedgersOf[c])
  BY <1>1, HereIsWalked
<1>3. D \in BudgetDays /\ D \in Nat
  BY <1>1 DEF Typed, BudgetDays
<1>4. t \in Ticket /\ old \in Ticket /\ t.day = D
  BY <1>1, <1>2, <1>3 DEF Ticket, Typed
<1>5. old.status = "none"
  <2>1. PICK i : i = call[c].at
    OBVIOUS
  <2>2. i \in 1 .. Len(LedgersOf[c]) /\ call[c].step = "reserve"
    BY <2>1 DEF CallFits, ReserveTokens
  <2>3. i \in i .. Len(LedgersOf[c])
    BY <2>2
  <2>4. ticket[LedgersOf[c][i]][c].status = "none"
    BY <2>1, <2>2, <2>3 DEF CallFits
  <2>. QED  BY <1>1, <2>1, <2>4 DEF Here
<1>6. ticket' = [ticket EXCEPT ![l][c] = t] /\ Bump(l, D, c, 1, 0, Allowance[c])
  BY <1>1 DEF ReserveTokens
<1>7. Allowance[c] \in Nat
  BY BudgetAssumption
<1>8. /\ Weight("calls", c, old) = 0 /\ Weight("used", c, old) = 0
      /\ Weight("reserved", c, old) = 0 /\ Weight("held", c, old) = 0
  BY <1>5 DEF Weight, OpenStatuses
<1>9. /\ Weight("calls", c, t) = 1 /\ Weight("used", c, t) = 0
      /\ Weight("reserved", c, t) = Allowance[c] /\ Weight("held", c, t) = Allowance[c]
  BY <1>1 DEF Weight, OpenStatuses
<1>10. /\ 1 = Weight("calls", c, t) - Weight("calls", c, old)
       /\ 0 = Weight("used", c, t) - Weight("used", c, old)
       /\ Allowance[c] = Weight("reserved", c, t) - Weight("reserved", c, old)
       /\ Weight("held", c, t) - Weight("held", c, old) = Allowance[c]
  BY <1>7, <1>8, <1>9
<1>11. PICK ts, In : ts = ticket[l] /\ In = RowCalls(l, Account)
  OBVIOUS
<1>12. ts \in [Calls -> Ticket] /\ ts[c] = old
  BY <1>1, <1>2, <1>11 DEF Typed
<1>13. /\ TotalOf("calls", D, In, ts) \in Nat /\ TotalOf("used", D, In, ts) \in Nat
       /\ TotalOf("reserved", D, In, ts) \in Nat /\ TotalOf("held", D, In, ts) \in Nat
  BY <1>12, Totals DEF Kinds
<1>14. /\ TotalOf("calls", D, In, ts) < CallLimit[l]
       /\ TotalOf("used", D, In, ts) + TotalOf("reserved", D, In, ts) + Allowance[c]
            <= TokenLimit[l]
  <2>1. Account \in Rows(c) /\ Account \in AllRows
    BY DEF Rows, AllRows
  <2>2. ledger[l][D][Account] = RowOf(D, In, ts)
    BY <1>2, <1>3, <1>11, <2>1 DEF Books, LedgerFollows
  <2>3. /\ ledger[l][D][Account].calls < CallLimit[l]
        /\ ledger[l][D][Account].used + ledger[l][D][Account].reserved + Allowance[c]
             <= TokenLimit[l]
    BY <1>1, <2>1 DEF ReserveTokens, Admits
  <2>. QED  BY <2>2, <2>3 DEF RowOf
<1>15. CallLimit[l] \in Nat /\ TokenLimit[l] \in Nat
  BY <1>2, BudgetAssumption
<1>16. TotalOf("held", D, In, ts) <= TotalOf("used", D, In, ts) + TotalOf("reserved", D, In, ts)
  BY <1>12, HeldIsCounted
<1>17. TotalAfter("calls", D, In, ts, c, t) <= CallLimit[l]
  BY <1>10, <1>12, <1>13, <1>14, <1>15 DEF TotalAfter
<1>18. TotalAfter("held", D, In, ts, c, t) <= TokenLimit[l]
  BY <1>7, <1>10, <1>12, <1>13, <1>14, <1>15, <1>16 DEF TotalAfter
<1>19. ticket[l][c].status = "none" \/ ticket[l][c].day = D
  BY <1>1, <1>5
<1>20. /\ 1 = Weight("calls", c, t) - Weight("calls", c, ticket[l][c])
       /\ 0 = Weight("used", c, t) - Weight("used", c, ticket[l][c])
       /\ Allowance[c] = Weight("reserved", c, t) - Weight("reserved", c, ticket[l][c])
  BY <1>1, <1>10
<1>21. /\ TotalAfter("calls", D, RowCalls(l, Account), ticket[l], c, t) <= CallLimit[l]
       /\ TotalAfter("held", D, RowCalls(l, Account), ticket[l], c, t) <= TokenLimit[l]
  BY <1>11, <1>17, <1>18
<1>. QED  BY <1>2, <1>3, <1>4, <1>6, <1>19, <1>20, <1>21, BooksMove

\* A ticket marked dispatched weighs what it weighed.
LEMMA DispatchBooks ==
  ASSUME Typed, Books, NEW c \in Calls, CallFits(c), Dispatch(c)
  PROVE  Books'
<1>1. PICK l, t, old : /\ l = Here(c) /\ old = ticket[l][c]
                       /\ t = [old EXCEPT !.status = "dispatched"]
  OBVIOUS
<1>2. l \in Ledgers /\ old.status = "admitted"
  BY <1>1, HereIsWalked DEF Dispatch
<1>3. old \in Ticket
  BY <1>1, <1>2 DEF Typed
<1>4. t \in Ticket /\ t.status = "dispatched" /\ t.day = old.day /\ t.used = old.used
  BY <1>1, <1>3 DEF Ticket
<1>5. ticket' = [ticket EXCEPT ![l][c] = t] /\ UNCHANGED ledger
  BY <1>1 DEF Dispatch
<1>6. \A k \in Kinds : Weight(k, c, t) = Weight(k, c, old)
  BY <1>2, <1>4 DEF Weight, Kinds, OpenStatuses
<1>7. /\ ticket[l][c].day = t.day
      /\ \A k \in Kinds : Weight(k, c, t) = Weight(k, c, ticket[l][c])
  BY <1>1, <1>4, <1>6
<1>. QED  BY <1>2, <1>4, <1>5, <1>7, BooksStand

\* A ticket that is settled or given back frees its allowance, on the day it was admitted.
LEMMA FinishBooks ==
  ASSUME Typed, Books, NEW c \in Calls, CallFits(c), NEW cancel \in BOOLEAN, NEW used \in Nat,
         cancel => used = 0, FinishTicket(Here(c), c, cancel, used)
  PROVE  /\ Books'
         /\ ledger' \in [Ledgers -> [BudgetDays -> [AllRows ->
                         [calls : Int, used : Int, reserved : Int]]]]
<1>1. PICK l, t, old, D :
        /\ l = Here(c) /\ old = ticket[l][c] /\ D = old.day
        /\ t = [old EXCEPT !.status = IF cancel THEN "cancelled" ELSE "settled", !.used = used]
  OBVIOUS
<1>2. l \in Ledgers /\ l \in Range(LedgersOf[c])
  BY <1>1, HereIsWalked
<1>3. old \in Ticket /\ TicketFits(old, call[c].spent)
  BY <1>1, <1>2 DEF Typed, CallFits
<1>4. old.status = (IF cancel THEN "admitted" ELSE "dispatched")
  BY <1>1 DEF FinishTicket, Finishable
<1>5. D \in BudgetDays /\ old.used = 0
  BY <1>1, <1>3, <1>4 DEF TicketFits, OpenStatuses
<1>6. /\ t \in Ticket /\ t.status = (IF cancel THEN "cancelled" ELSE "settled")
      /\ t.used = used /\ t.day = D
  BY <1>1, <1>3 DEF Ticket
<1>7. /\ ticket' = [ticket EXCEPT ![l][c] = t]
      /\ Bump(l, D, c, IF cancel THEN -1 ELSE 0, used, -Allowance[c])
  BY <1>1 DEF FinishTicket, TicketDay
<1>8. Allowance[c] \in Nat
  BY BudgetAssumption
<1>9. /\ Weight("calls", c, old) = 1 /\ Weight("used", c, old) = 0
      /\ Weight("reserved", c, old) = Allowance[c] /\ Weight("held", c, old) = Allowance[c]
  BY <1>4, <1>5 DEF Weight, OpenStatuses
<1>10. /\ Weight("calls", c, t) = IF cancel THEN 0 ELSE 1
       /\ Weight("used", c, t) = used
       /\ Weight("reserved", c, t) = 0
       /\ Weight("held", c, t) = IF cancel THEN 0 ELSE Least(used, Allowance[c])
  BY <1>6 DEF Weight, OpenStatuses
<1>11. /\ (IF cancel THEN -1 ELSE 0) = Weight("calls", c, t) - Weight("calls", c, ticket[l][c])
       /\ used = Weight("used", c, t) - Weight("used", c, ticket[l][c])
       /\ -Allowance[c] = Weight("reserved", c, t) - Weight("reserved", c, ticket[l][c])
  BY <1>1, <1>8, <1>9, <1>10
<1>12. PICK ts, In : ts = ticket[l] /\ In = RowCalls(l, Account)
  OBVIOUS
<1>13. ts \in [Calls -> Ticket] /\ ts[c] = old
  BY <1>1, <1>2, <1>12 DEF Typed
<1>14. /\ Weight("calls", c, t) <= Weight("calls", c, ts[c])
       /\ Weight("held", c, t) <= Weight("held", c, ts[c])
  BY <1>8, <1>9, <1>10, <1>13 DEF Least
<1>15. /\ TotalAfter("calls", D, In, ts, c, t) <= TotalOf("calls", D, In, ts)
       /\ TotalAfter("held", D, In, ts, c, t) <= TotalOf("held", D, In, ts)
  BY <1>6, <1>13, <1>14, TotalFalls DEF Kinds
<1>16. /\ TotalOf("calls", D, In, ts) <= CallLimit[l]
       /\ TotalOf("held", D, In, ts) <= TokenLimit[l]
  BY <1>2, <1>5, <1>12 DEF Books, LedgerWithin
<1>17. /\ TotalAfter("calls", D, RowCalls(l, Account), ticket[l], c, t) <= CallLimit[l]
       /\ TotalAfter("held", D, RowCalls(l, Account), ticket[l], c, t) <= TokenLimit[l]
  <2>1. /\ TotalOf("calls", D, In, ts) \in Nat /\ TotalOf("held", D, In, ts) \in Nat
    BY <1>13, Totals DEF Kinds
  <2>2. /\ CallLimit[l] \in Nat /\ TokenLimit[l] \in Nat
    BY <1>2, BudgetAssumption
  <2>3. /\ TotalAfter("calls", D, In, ts, c, t) \in Int
        /\ TotalAfter("held", D, In, ts, c, t) \in Int
    BY <2>1, <1>8, <1>9, <1>10, <1>13 DEF TotalAfter, Least
  <2>. QED  BY <1>12, <1>15, <1>16, <2>1, <2>2, <2>3
<1>18. ticket[l][c].status = "none" \/ ticket[l][c].day = D
  BY <1>1
<1>. QED  BY <1>2, <1>5, <1>6, <1>7, <1>11, <1>17, <1>18, BooksMove

-----------------------------------------------------------------------------
(* The steps of the dollar ledger.                                         *)

\* A dollar ticket written with its day keeps the dollar ledger if the day stays within the limit.
LEMMA DollarsMove ==
  ASSUME Typed, DollarsFollow, NEW c \in Calls, NEW t \in Ticket, NEW D \in BudgetDays, t.day = D,
         dollarTicket[c].status = "none" \/ dollarTicket[c].day = D,
         dollarTicket' = [dollarTicket EXCEPT ![c] = t],
         NEW spent, spent = Weight("used", c, t) - Weight("used", c, dollarTicket[c]),
         NEW reserved,
         reserved = Weight("reserved", c, t) - Weight("reserved", c, dollarTicket[c]),
         NEW row, row = [spent |-> dollars[D].spent + spent,
                         reserved |-> dollars[D].reserved + reserved],
         dollars' = [dollars EXCEPT ![D] = row],
         TotalAfter("held", D, Calls, dollarTicket, c, t) <= DollarLimit
  PROVE  DollarsFollow' /\ dollars' \in [BudgetDays -> [spent : Int, reserved : Int]]
<1>1. PICK ts, us : ts = dollarTicket /\ us = dollarTicket'
  OBVIOUS
<1>2. /\ ts \in [Calls -> Ticket] /\ us \in [Calls -> Ticket] /\ us[c] = t
      /\ \A x \in Calls : x # c => us[x] = ts[x]
      /\ ts[c].status = "none" \/ ts[c].day = us[c].day
      /\ ts[c] \in Ticket
  BY <1>1 DEF Typed
<1>3. \A k \in Kinds : \A d, In : TotalOf(k, d, In, us) = TotalAfter(k, d, In, ts, c, t)
  BY <1>2, TotalMoves
<1>4. "used" \in Kinds /\ "reserved" \in Kinds /\ "held" \in Kinds
  BY DEF Kinds
<1>5. ASSUME NEW k \in Kinds, NEW d
      PROVE  /\ TotalOf(k, d, Calls, ts) \in Nat
             /\ d # D => TotalOf(k, d, Calls, us) = TotalOf(k, d, Calls, ts)
             /\ d = D => TotalOf(k, d, Calls, us)
                           = TotalOf(k, d, Calls, ts) + (Weight(k, c, t) - Weight(k, c, ts[c]))
  <2>1. TotalOf(k, d, Calls, us) = TotalAfter(k, d, Calls, ts, c, t)
    BY <1>3
  <2>2. TotalOf(k, d, Calls, ts) \in Nat
    BY <1>2, Totals
  <2>. QED  BY <2>1, <2>2 DEF TotalAfter
<1>6. spent \in Int /\ reserved \in Int
  <2>1. /\ Weight("used", c, t) \in Nat /\ Weight("used", c, ts[c]) \in Nat
        /\ Weight("reserved", c, t) \in Nat /\ Weight("reserved", c, ts[c]) \in Nat
    BY <1>2, <1>4, Weights
  <2>. QED  BY <1>1, <2>1
<1>7. /\ dollars' \in [BudgetDays -> [spent : Int, reserved : Int]]
      /\ dollars'[D] = [spent |-> dollars[D].spent + spent,
                        reserved |-> dollars[D].reserved + reserved]
      /\ \A d \in BudgetDays : d # D => dollars'[d] = dollars[d]
  BY <1>6 DEF Typed
<1>8. ASSUME NEW d \in BudgetDays
      PROVE  /\ dollars'[d] = [spent |-> TotalOf("used", d, Calls, us),
                               reserved |-> TotalOf("reserved", d, Calls, us)]
             /\ TotalOf("held", d, Calls, us) <= DollarLimit
  <2>1. /\ dollars[d] = [spent |-> TotalOf("used", d, Calls, ts),
                         reserved |-> TotalOf("reserved", d, Calls, ts)]
        /\ TotalOf("held", d, Calls, ts) <= DollarLimit
    BY <1>1 DEF DollarsFollow
  <2>2. CASE d # D
    BY <1>4, <1>5, <1>7, <2>1, <2>2
  <2>3. CASE d = D
    <3>1. /\ TotalOf("used", d, Calls, us) = TotalOf("used", d, Calls, ts) + spent
          /\ TotalOf("reserved", d, Calls, us) = TotalOf("reserved", d, Calls, ts) + reserved
      BY <1>1, <1>4, <1>5, <2>3
    <3>2. TotalOf("held", d, Calls, us) <= DollarLimit
      BY <1>1, <1>3, <1>4, <2>3
    <3>. QED  BY <1>7, <2>1, <2>3, <3>1, <3>2
  <2>. QED  BY <2>2, <2>3
<1>. QED  BY <1>1, <1>7, <1>8 DEF DollarsFollow

\* A reservation fits what is left of the day after everything carried, spent and reserved.
LEMMA ReserveDollarsFollow ==
  ASSUME Typed, DollarsFollow, NEW c \in Calls, CallFits(c), ReserveDollars(c)
  PROVE  DollarsFollow' /\ dollars' \in [BudgetDays -> [spent : Int, reserved : Int]]
<1>1. PICK D, t, old : /\ D = utcDay /\ old = dollarTicket[c]
                       /\ t = [status |-> "reserved", day |-> D, used |-> 0]
  OBVIOUS
<1>2. D \in BudgetDays /\ D \in Nat
  BY <1>1 DEF Typed, BudgetDays
<1>3. t \in Ticket /\ old \in Ticket /\ t.day = D /\ Allowance[c] \in Nat
  BY <1>1, <1>2, BudgetAssumption DEF Ticket, Typed
<1>4. old.status = "none"
  BY <1>1 DEF CallFits, ReserveDollars
<1>5. dollarTicket' = [dollarTicket EXCEPT ![c] = t]
  BY <1>1 DEF ReserveDollars
<1>6. /\ Weight("used", c, old) = 0 /\ Weight("reserved", c, old) = 0
      /\ Weight("held", c, old) = 0
  BY <1>4 DEF Weight, OpenStatuses
<1>7. /\ Weight("used", c, t) = 0 /\ Weight("reserved", c, t) = Allowance[c]
      /\ Weight("held", c, t) = Allowance[c]
  BY <1>1 DEF Weight, OpenStatuses
<1>8. /\ 0 = Weight("used", c, t) - Weight("used", c, dollarTicket[c])
      /\ Allowance[c] = Weight("reserved", c, t) - Weight("reserved", c, dollarTicket[c])
  BY <1>1, <1>3, <1>6, <1>7
<1>9. dollars \in [BudgetDays -> [spent : Int, reserved : Int]]
  BY DEF Typed
<1>10. PICK row : row = [dollars[D] EXCEPT !.reserved = @ + Allowance[c]]
  OBVIOUS
<1>11. dollars' = [dollars EXCEPT ![D] = row]
  BY <1>1, <1>10 DEF ReserveDollars
<1>12. row = [spent |-> dollars[D].spent + 0, reserved |-> dollars[D].reserved + Allowance[c]]
  <2>1. PICK x : x = dollars[D] /\ x \in [spent : Int, reserved : Int]
    BY <1>2, <1>9
  <2>2. row = [spent |-> x.spent + 0, reserved |-> x.reserved + Allowance[c]]
    BY <1>10, <2>1
  <2>. QED  BY <2>1, <2>2
<1>13. PICK ts : ts = dollarTicket
  OBVIOUS
<1>14. ts \in [Calls -> Ticket] /\ ts[c] = old
  BY <1>1, <1>13 DEF Typed
<1>15. /\ TotalOf("used", D, Calls, ts) \in Nat /\ TotalOf("reserved", D, Calls, ts) \in Nat
       /\ TotalOf("held", D, Calls, ts) \in Nat
  BY <1>14, Totals DEF Kinds
<1>16. TotalOf("used", D, Calls, ts) + TotalOf("reserved", D, Calls, ts) + Allowance[c]
         <= DollarLimit
  <2>1. dollars[D] = [spent |-> TotalOf("used", D, Calls, ts),
                      reserved |-> TotalOf("reserved", D, Calls, ts)]
    BY <1>2, <1>13 DEF DollarsFollow
  <2>2. Carried(D) + dollars[D].spent + dollars[D].reserved + Allowance[c] <= DollarLimit
    BY <1>1 DEF ReserveDollars
  <2>3. Carried(D) \in Nat /\ DollarLimit \in Nat
    BY BudgetAssumption DEF Carried
  <2>. QED  BY <1>3, <1>15, <2>1, <2>2, <2>3
<1>17. TotalOf("held", D, Calls, ts)
         <= TotalOf("used", D, Calls, ts) + TotalOf("reserved", D, Calls, ts)
  BY <1>14, HeldIsCounted
<1>18. TotalAfter("held", D, Calls, ts, c, t) <= DollarLimit
  <2>1. DollarLimit \in Nat
    BY BudgetAssumption
  <2>. QED  BY <1>3, <1>6, <1>7, <1>14, <1>15, <1>16, <1>17, <2>1 DEF TotalAfter
<1>19. /\ dollarTicket[c].status = "none" \/ dollarTicket[c].day = D
       /\ TotalAfter("held", D, Calls, dollarTicket, c, t) <= DollarLimit
  BY <1>1, <1>4, <1>13, <1>18
<1>. QED  BY <1>2, <1>3, <1>5, <1>8, <1>11, <1>12, <1>19, DollarsMove

\* A settlement frees the allowance on the day it was reserved.
LEMMA SettleDollarsFollow ==
  ASSUME Typed, DollarsFollow, NEW c \in Calls, CallFits(c), SettleDollars(c)
  PROVE  DollarsFollow' /\ dollars' \in [BudgetDays -> [spent : Int, reserved : Int]]
<1>1. CASE UNCHANGED <<dollars, dollarTicket>>
  BY <1>1 DEF Typed, DollarsFollow
<1>2. CASE /\ call[c].said # Unknown
           /\ dollarTicket[c].status = "reserved"
           /\ dollarTicket' = [dollarTicket EXCEPT ![c].status = "settled",
                                                   ![c].used = call[c].said]
           /\ dollars' = [dollars EXCEPT ![dollarTicket[c].day].spent = @ + call[c].said,
                                         ![dollarTicket[c].day].reserved = @ - Allowance[c]]
  <2>1. PICK D, t, old, said : /\ old = dollarTicket[c] /\ D = old.day /\ said = call[c].said
                               /\ t = [old EXCEPT !.status = "settled", !.used = said]
    OBVIOUS
  <2>2. old \in Ticket /\ old.status = "reserved" /\ TicketFits(old, call[c].spent)
    BY <1>2, <2>1 DEF Typed, CallFits
  <2>3. D \in BudgetDays /\ old.used = 0
    BY <2>1, <2>2 DEF TicketFits, OpenStatuses
  <2>4. said \in Nat
    <3>1. call[c].step = "settleDollars"
      BY DEF SettleDollars
    <3>. QED  BY <1>2, <2>1, <3>1 DEF CallFits, Typed
  <2>5. /\ t \in Ticket /\ t.status = "settled" /\ t.used = said /\ t.day = D
    BY <2>1, <2>2, <2>4 DEF Ticket
  <2>6. dollarTicket \in [Calls -> Ticket] /\ dollars \in [BudgetDays -> [spent : Int, reserved : Int]]
    BY DEF Typed
  <2>7. dollarTicket' = [dollarTicket EXCEPT ![c] = t]
    BY <1>2, <2>1, <2>6
  <2>8. Allowance[c] \in Nat
    BY BudgetAssumption
  <2>9. PICK row : row = [dollars[D] EXCEPT !.spent = @ + said, !.reserved = @ - Allowance[c]]
    OBVIOUS
  <2>10. dollars' = [dollars EXCEPT ![D] = row]
    BY <1>2, <2>1, <2>3, <2>6, <2>9
  <2>11. row = [spent |-> dollars[D].spent + said,
               reserved |-> dollars[D].reserved + (-Allowance[c])]
    <3>1. PICK x : x = dollars[D] /\ x \in [spent : Int, reserved : Int]
      BY <2>3, <2>6
    <3>2. row = [spent |-> x.spent + said, reserved |-> x.reserved - Allowance[c]]
      BY <2>9, <3>1
    <3>3. x.reserved - Allowance[c] = x.reserved + (-Allowance[c])
      BY <2>8, <3>1
    <3>. QED  BY <3>1, <3>2, <3>3
  <2>12. /\ Weight("used", c, old) = 0 /\ Weight("reserved", c, old) = Allowance[c]
         /\ Weight("held", c, old) = Allowance[c]
    BY <2>2, <2>3 DEF Weight, OpenStatuses
  <2>13. /\ Weight("used", c, t) = said /\ Weight("reserved", c, t) = 0
         /\ Weight("held", c, t) = Least(said, Allowance[c])
    BY <2>5 DEF Weight, OpenStatuses
  <2>14. /\ said = Weight("used", c, t) - Weight("used", c, dollarTicket[c])
         /\ -Allowance[c] = Weight("reserved", c, t) - Weight("reserved", c, dollarTicket[c])
    BY <2>1, <2>4, <2>8, <2>12, <2>13
  <2>15. PICK ts : ts = dollarTicket
    OBVIOUS
  <2>16. ts \in [Calls -> Ticket] /\ ts[c] = old
    BY <2>1, <2>6, <2>15
  <2>17. Weight("held", c, t) <= Weight("held", c, ts[c])
    BY <2>4, <2>8, <2>12, <2>13, <2>16 DEF Least
  <2>18. TotalAfter("held", D, Calls, ts, c, t) <= TotalOf("held", D, Calls, ts)
    BY <2>5, <2>16, <2>17, TotalFalls DEF Kinds
  <2>19. TotalOf("held", D, Calls, ts) <= DollarLimit
    BY <2>3, <2>15 DEF DollarsFollow
  <2>20. TotalAfter("held", D, Calls, ts, c, t) <= DollarLimit
    <3>1. TotalOf("held", D, Calls, ts) \in Nat /\ DollarLimit \in Nat
      BY <2>16, Totals, BudgetAssumption DEF Kinds
    <3>2. TotalAfter("held", D, Calls, ts, c, t) \in Int
      BY <2>4, <2>8, <2>12, <2>13, <2>16, <3>1 DEF TotalAfter, Least
    <3>. QED  BY <2>18, <2>19, <3>1, <3>2
  <2>21. /\ dollarTicket[c].status = "none" \/ dollarTicket[c].day = D
         /\ TotalAfter("held", D, Calls, dollarTicket, c, t) <= DollarLimit
    BY <2>1, <2>15, <2>20
  <2>22. D \in BudgetDays
    BY <2>3
  <2>. QED  BY <2>5, <2>7, <2>10, <2>11, <2>14, <2>21, <2>22, DollarsMove
<1>. QED  BY <1>1, <1>2 DEF SettleDollars

-----------------------------------------------------------------------------
(* Where the clients are.                                                  *)

CallRecord == [step : Steps, at : Nat, spent : Nat, said : Int]

\* A step of one client leaves the others where they are.
LEMMA OthersFit ==
  ASSUME Typed, \A x \in Calls : CallFits(x), NEW c \in Calls,
         \A x \in Calls : x # c => /\ call'[x] = call[x]
                                  /\ dollarTicket'[x] = dollarTicket[x]
                                  /\ \A l \in Ledgers : ticket'[l][x] = ticket[l][x],
         CallFits(c)'
  PROVE  \A x \in Calls : CallFits(x)'
<1>1. ASSUME NEW x \in Calls, x # c
      PROVE  CallFits(x)'
  <2>1. /\ call'[x] = call[x] /\ dollarTicket'[x] = dollarTicket[x]
        /\ \A l \in Ledgers : ticket'[l][x] = ticket[l][x]
    BY <1>1
  <2>2. CallFits(x)
    OBVIOUS
  <2>3. ASSUME NEW i \in call[x].at .. Len(LedgersOf[x]), call[x].at \in 1 .. Len(LedgersOf[x])
        PROVE  LedgersOf[x][i] \in Ledgers
    <3>1. LedgersOf[x] \in Seq(Ledgers)
      BY CallsAssumption
    <3>. QED  BY <2>3, <3>1
  <2>. QED  BY <2>1, <2>2, <2>3 DEF CallFits
<1>. QED  BY <1>1

\* A client that moves on is still at one of its ledgers.
LEMMA Moves ==
  ASSUME Typed, NEW c \in Calls, CallFits(c), NEW after \in Steps, Onward(c, after)
  PROVE  /\ call' \in [Calls -> CallRecord]
         /\ \A x \in Calls : x # c => call'[x] = call[x]
         /\ call'[c].at \in 1 .. Len(LedgersOf[c])
         /\ call'[c].spent = call[c].spent /\ call'[c].said = call[c].said
         /\ \/ call'[c].step = after
            \/ call'[c].step = call[c].step /\ call'[c].at = call[c].at + 1
<1>1. call \in [Calls -> CallRecord]
  BY DEF Typed, CallRecord
<1>2. PICK k, i, n : k = call[c] /\ i = k.at /\ n = Len(LedgersOf[c])
  OBVIOUS
<1>3. k \in CallRecord /\ i \in 1 .. n /\ n \in Nat
  <2>1. LedgersOf[c] \in Seq(Ledgers)
    BY CallsAssumption
  <2>. QED  BY <1>1, <1>2, <2>1 DEF CallFits
<1>4. ASSUME NEW step \in Steps, NEW at \in 1 .. n, Go(c, step, at)
      PROVE  /\ call' \in [Calls -> CallRecord]
             /\ \A x \in Calls : x # c => call'[x] = call[x]
             /\ call'[c].at = at /\ call'[c].step = step
             /\ call'[c].spent = k.spent /\ call'[c].said = k.said
  <2>1. PICK new : new = [k EXCEPT !.step = step, !.at = at]
    OBVIOUS
  <2>2. /\ new \in CallRecord /\ new.step = step /\ new.at = at
        /\ new.spent = k.spent /\ new.said = k.said
    <3>1. at \in Nat /\ k \in CallRecord
      BY <1>3
    <3>. QED  BY <2>1, <3>1 DEF CallRecord
  <2>3. call' = [call EXCEPT ![c] = new]
    BY <1>1, <1>2, <1>4, <2>1 DEF Go
  <2>. QED  BY <1>1, <2>2, <2>3
<1>5. CASE AtLast(c)
  <2>1. Go(c, after, 1)
    BY <1>5 DEF Onward
  <2>2. 1 \in 1 .. n
    BY <1>3
  <2>. QED  BY <1>2, <1>4, <2>1, <2>2
<1>6. CASE ~ AtLast(c)
  <2>1. Go(c, k.step, i + 1)
    BY <1>2, <1>6 DEF Onward
  <2>2. i + 1 \in 1 .. n /\ k.step \in Steps
    BY <1>2, <1>3, <1>6 DEF AtLast, CallRecord
  <2>. QED  BY <1>2, <1>4, <2>1, <2>2
<1>. QED  BY <1>5, <1>6

\* The same for a client that goes to the start of its next walk.
LEMMA Goes ==
  ASSUME Typed, NEW c \in Calls, CallFits(c), NEW step \in Steps, Go(c, step, 1)
  PROVE  /\ call' \in [Calls -> CallRecord]
         /\ \A x \in Calls : x # c => call'[x] = call[x]
         /\ call'[c].at \in 1 .. Len(LedgersOf[c]) /\ call'[c].step = step
         /\ call'[c].spent = call[c].spent /\ call'[c].said = call[c].said
<1>1. call \in [Calls -> CallRecord]
  BY DEF Typed, CallRecord
<1>2. PICK k : k = call[c] /\ k \in CallRecord
  BY <1>1
<1>3. PICK new : new = [k EXCEPT !.step = step, !.at = 1]
  OBVIOUS
<1>4. /\ new \in CallRecord /\ new.step = step /\ new.at = 1
      /\ new.spent = k.spent /\ new.said = k.said
  BY <1>2, <1>3 DEF CallRecord
<1>5. call' = [call EXCEPT ![c] = new]
  BY <1>1, <1>2, <1>3 DEF Go
<1>6. 1 \in 1 .. Len(LedgersOf[c])
  <2>1. LedgersOf[c] \in Seq(Ledgers)
    BY CallsAssumption
  <2>2. call[c].at \in 1 .. Len(LedgersOf[c]) /\ Len(LedgersOf[c]) \in Nat
    BY <2>1 DEF CallFits
  <2>. QED  BY <2>2
<1>. QED  BY <1>1, <1>2, <1>4, <1>5, <1>6

\* What a ticket written by client c leaves of the others.
LEMMA TicketOfOne ==
  ASSUME Typed, NEW l \in Ledgers, NEW c \in Calls, NEW t \in Ticket,
         ticket' = [ticket EXCEPT ![l][c] = t]
  PROVE  /\ ticket' \in [Ledgers -> [Calls -> Ticket]]
         /\ ticket'[l][c] = t
         /\ \A m \in Ledgers, x \in Calls : m # l \/ x # c => ticket'[m][x] = ticket[m][x]
BY DEF Typed

\* An admission leaves the ledgers still to walk without a ticket.
LEMMA ReserveFits ==
  ASSUME Typed, NEW c \in Calls, CallFits(c), ReserveTokens(c)
  PROVE  /\ CallFits(c)'
         /\ call' \in [Calls -> CallRecord] /\ ticket' \in [Ledgers -> [Calls -> Ticket]]
         /\ \A x \in Calls : x # c => /\ call'[x] = call[x]
                                  /\ \A l \in Ledgers : ticket'[l][x] = ticket[l][x]
<1>1. PICK l, D, t, i, n : /\ l = Here(c) /\ D = utcDay /\ i = call[c].at /\ n = Len(LedgersOf[c])
                           /\ t = [status |-> "admitted", day |-> D, used |-> 0]
  OBVIOUS
<1>2. l \in Ledgers /\ D \in BudgetDays /\ D \in Nat \ {0}
  BY <1>1, HereIsWalked DEF Typed, BudgetDays
<1>3. t \in Ticket
  BY <1>1, <1>2 DEF Ticket
<1>4. dollarTicket' = dollarTicket
  BY DEF ReserveTokens
<1>5. ticket' = [ticket EXCEPT ![l][c] = t]
  BY <1>1 DEF ReserveTokens
<1>6. /\ ticket' \in [Ledgers -> [Calls -> Ticket]]
      /\ ticket'[l][c] = t
      /\ \A m \in Ledgers, x \in Calls : m # l \/ x # c => ticket'[m][x] = ticket[m][x]
  <2>1. l \in Ledgers /\ t \in Ticket
    BY <1>2, <1>3
  <2>. QED  BY <1>5, <2>1, TicketOfOne
<1>7. Onward(c, "price") /\ "price" \in Steps /\ call[c].step = "reserve"
  BY DEF ReserveTokens, Steps
<1>8. /\ call' \in [Calls -> CallRecord]
      /\ \A x \in Calls : x # c => call'[x] = call[x]
      /\ call'[c].at \in 1 .. n
      /\ call'[c].spent = call[c].spent /\ call'[c].said = call[c].said
      /\ \/ call'[c].step = "price"
         \/ call'[c].step = "reserve" /\ call'[c].at = i + 1
  BY <1>1, <1>7, Moves
<1>9. ASSUME call'[c].step = "reserve", NEW j \in call'[c].at .. n
      PROVE  ticket'[LedgersOf[c][j]][c].status = "none"
  <2>1. LedgersOf[c] \in Seq(Ledgers) /\ IsInjective(LedgersOf[c])
    BY CallsAssumption
  <2>2. i \in 1 .. n /\ n \in Nat
    BY <1>1, <2>1 DEF CallFits
  <2>3. j \in i .. n /\ j \in 1 .. n /\ j # i
    BY <1>8, <1>9, <2>2
  <2>4. LedgersOf[c][j] # LedgersOf[c][i] /\ LedgersOf[c][j] \in Ledgers
    BY <1>1, <2>1, <2>2, <2>3 DEF IsInjective
  <2>5. ticket[LedgersOf[c][j]][c].status = "none"
    BY <1>1, <1>7, <2>3 DEF CallFits
  <2>. QED  BY <1>1, <1>6, <2>4, <2>5 DEF Here
<1>10. t.status = "admitted" /\ TicketFits(t, call[c].spent)
  BY <1>1, <1>2 DEF TicketFits
<1>11. ASSUME NEW m \in Ledgers
       PROVE  /\ ticket'[m][c].status \notin {"settled", "reserved"}
              /\ TicketFits(ticket'[m][c], call[c].spent)
  <2>1. CASE m = l
    BY <1>6, <1>10, <2>1
  <2>2. CASE m # l
    BY <1>6, <1>7, <2>2 DEF CallFits
  <2>. QED  BY <2>1, <2>2
<1>12. /\ dollarTicket'[c].status = "none"
       /\ TicketFits(dollarTicket'[c], call'[c].spent)
  BY <1>4, <1>7, <1>8 DEF CallFits
<1>13. CallFits(c)'
  BY <1>1, <1>8, <1>9, <1>11, <1>12 DEF CallFits
<1>. QED  BY <1>6, <1>8, <1>13

\* A ticket that is settled or given back fits what was spent of it.
LEMMA FinishFits ==
  ASSUME Typed, NEW c \in Calls, CallFits(c), NEW cancel \in BOOLEAN, NEW used \in Nat,
         FinishTicket(Here(c), c, cancel, used), cancel \/ used = call[c].spent
  PROVE  /\ ticket' \in [Ledgers -> [Calls -> Ticket]]
         /\ \A l \in Ledgers : /\ ticket'[l][c].status # "reserved"
                              /\ TicketFits(ticket'[l][c], call[c].spent)
         /\ \A l \in Ledgers, x \in Calls : x # c => ticket'[l][x] = ticket[l][x]
<1>1. PICK l, t, old :
        /\ l = Here(c) /\ old = ticket[l][c]
        /\ t = [old EXCEPT !.status = IF cancel THEN "cancelled" ELSE "settled", !.used = used]
  OBVIOUS
<1>2. l \in Ledgers
  BY <1>1, HereIsWalked
<1>3. old \in Ticket /\ TicketFits(old, call[c].spent) /\ old.status # "none"
  BY <1>1, <1>2 DEF Typed, CallFits, FinishTicket, Finishable
<1>4. /\ t \in Ticket /\ t.status = (IF cancel THEN "cancelled" ELSE "settled")
      /\ t.used = used /\ t.day = old.day
  BY <1>1, <1>3 DEF Ticket
<1>5. ticket' = [ticket EXCEPT ![l][c] = t]
  BY <1>1 DEF FinishTicket
<1>6. /\ ticket' \in [Ledgers -> [Calls -> Ticket]]
      /\ ticket'[l][c] = t
      /\ \A m \in Ledgers, x \in Calls : m # l \/ x # c => ticket'[m][x] = ticket[m][x]
  BY <1>2, <1>4, <1>5, TicketOfOne
<1>7. t.status # "reserved" /\ TicketFits(t, call[c].spent)
  BY <1>3, <1>4 DEF TicketFits, OpenStatuses
<1>8. ASSUME NEW m \in Ledgers
      PROVE  /\ ticket'[m][c].status # "reserved"
             /\ TicketFits(ticket'[m][c], call[c].spent)
  <2>1. CASE m = l
    BY <1>6, <1>7, <2>1
  <2>2. CASE m # l
    BY <1>6, <2>2 DEF CallFits
  <2>. QED  BY <2>1, <2>2
<1>. QED  BY <1>6, <1>8

\* A step that leaves the ledgers alone and moves a client.
LEMMA QuietFits ==
  ASSUME Typed, NEW c \in Calls, CallFits(c), UNCHANGED <<ticket, dollarTicket>>,
         call'[c].at \in 1 .. Len(LedgersOf[c]), call'[c].spent = call[c].spent,
         call'[c].step \in {"sent", "settle", "settleDollars", "cancel", "done"},
         call'[c].step \in {"settle", "settleDollars"} => call'[c].said \in {Unknown, call[c].spent}
  PROVE  CallFits(c)'
BY DEF CallFits

\* Every step of a client leaves it, and the others, where their tickets say.
LEMMA ClientSteps ==
  ASSUME SpendInv, NEW c \in Calls,
         \/ ReserveTokens(c) \/ TokensRefused(c)
         \/ ReserveDollars(c) \/ SpendRefused(c)
         \/ Dispatch(c) \/ Answer(c) \/ NoAnswer(c)
         \/ SettleDollars(c) \/ SettleTokens(c) \/ CancelTokens(c)
  PROVE  SpendInv'
<1>1. Typed /\ Books /\ DollarsFollow /\ CallFits(c) /\ \A x \in Calls : CallFits(x)
  BY DEF SpendInv
<1>2. /\ call \in [Calls -> CallRecord] /\ ticket \in [Ledgers -> [Calls -> Ticket]]
      /\ dollarTicket \in [Calls -> Ticket] /\ utcDay \in BudgetDays
  BY <1>1 DEF Typed, CallRecord
<1>. DEFINE BooksOk == /\ Books'
                       /\ ledger' \in [Ledgers -> [BudgetDays -> [AllRows ->
                                       [calls : Int, used : Int, reserved : Int]]]]
            DollarsOk == DollarsFollow' /\ dollars' \in [BudgetDays -> [spent : Int, reserved : Int]]
            TicketsOk == /\ ticket' \in [Ledgers -> [Calls -> Ticket]]
                         /\ dollarTicket' \in [Calls -> Ticket]
                         /\ call' \in [Calls -> CallRecord]
                         /\ \A x \in Calls : x # c =>
                              /\ call'[x] = call[x]
                              /\ dollarTicket'[x] = dollarTicket[x]
                              /\ \A l \in Ledgers : ticket'[l][x] = ticket[l][x]
<1>3. UNCHANGED <<ledger, ticket>> => BooksOk
  BY <1>1 DEF Typed, Books, LedgerFollows, LedgerWithin
<1>4. UNCHANGED <<dollars, dollarTicket>> => DollarsOk
  BY <1>1 DEF Typed, DollarsFollow
<1>5. ASSUME BooksOk, DollarsOk, TicketsOk, CallFits(c)', utcDay' = utcDay
      PROVE  SpendInv'
  <2>1. \A x \in Calls : CallFits(x)'
    BY <1>1, <1>5, OthersFit
  <2>2. Typed'
    BY <1>2, <1>5 DEF Typed, CallRecord
  <2>. QED  BY <1>5, <2>1, <2>2 DEF SpendInv
<1>. HIDE DEF BooksOk, DollarsOk
<1>6. ASSUME NEW step \in {"done", "cancel"}, Go(c, step, 1),
             UNCHANGED <<ticket, dollarTicket>>
      PROVE  TicketsOk /\ CallFits(c)'
  <2>1. step \in Steps
    BY DEF Steps
  <2>2. /\ call' \in [Calls -> CallRecord]
        /\ \A x \in Calls : x # c => call'[x] = call[x]
        /\ call'[c].at \in 1 .. Len(LedgersOf[c]) /\ call'[c].step = step
        /\ call'[c].spent = call[c].spent /\ call'[c].said = call[c].said
    BY <1>1, <1>6, <2>1, Goes
  <2>3. CallFits(c)'
    BY <1>1, <1>6, <2>2, QuietFits
  <2>. QED  BY <1>2, <1>6, <2>2, <2>3
<1>7. CASE ReserveTokens(c)
  <2>1. BooksOk
    BY <1>1, <1>7, ReserveBooks DEF BooksOk
  <2>2. UNCHANGED <<dollars, dollarTicket>> /\ utcDay' = utcDay
    BY <1>7 DEF ReserveTokens
  <2>3. /\ CallFits(c)'
        /\ call' \in [Calls -> CallRecord] /\ ticket' \in [Ledgers -> [Calls -> Ticket]]
        /\ \A x \in Calls : x # c => /\ call'[x] = call[x]
                                  /\ \A l \in Ledgers : ticket'[l][x] = ticket[l][x]
    BY <1>1, <1>7, ReserveFits
  <2>4. TicketsOk
    BY <1>2, <2>2, <2>3
  <2>. QED  BY <1>4, <1>5, <2>1, <2>2, <2>3, <2>4
<1>8. CASE TokensRefused(c)
  <2>1. \E step \in {"done", "cancel"} : Go(c, step, 1)
    BY <1>8 DEF TokensRefused
  <2>2. UNCHANGED <<utcDay, ledger, ticket, dollars, dollarTicket>>
    BY <1>8 DEF TokensRefused
  <2>3. TicketsOk /\ CallFits(c)'
    BY <1>6, <2>1, <2>2
  <2>. QED  BY <1>3, <1>4, <1>5, <2>2, <2>3
<1>9. CASE SpendRefused(c)
  <2>1. Go(c, "cancel", 1)
    BY <1>9 DEF SpendRefused
  <2>2. UNCHANGED <<utcDay, ledger, ticket, dollars, dollarTicket>>
    BY <1>9 DEF SpendRefused
  <2>3. TicketsOk /\ CallFits(c)'
    BY <1>6, <2>1, <2>2
  <2>. QED  BY <1>3, <1>4, <1>5, <2>2, <2>3
<1>10. CASE NoAnswer(c)
  <2>1. Go(c, "done", 1)
    BY <1>10 DEF NoAnswer
  <2>2. UNCHANGED <<utcDay, ledger, ticket, dollars, dollarTicket>>
    BY <1>10 DEF NoAnswer
  <2>3. TicketsOk /\ CallFits(c)'
    BY <1>6, <2>1, <2>2
  <2>. QED  BY <1>3, <1>4, <1>5, <2>2, <2>3
<1>11. CASE Answer(c)
  <2>1. PICK said \in {Unknown, call[c].spent} :
          call' = [call EXCEPT ![c].step = "settleDollars", ![c].said = said]
    BY <1>11 DEF Answer
  <2>2. UNCHANGED <<utcDay, ledger, ticket, dollars, dollarTicket>>
    BY <1>11 DEF Answer
  <2>3. PICK k, new : k = call[c] /\ new = [k EXCEPT !.step = "settleDollars", !.said = said]
    OBVIOUS
  <2>4. k \in CallRecord /\ said \in Int
    BY <1>2, <2>1, <2>3 DEF CallRecord, Unknown
  <2>5. /\ new \in CallRecord /\ new.step = "settleDollars" /\ new.said = said
        /\ new.at = k.at /\ new.spent = k.spent
    BY <2>3, <2>4 DEF CallRecord, Steps
  <2>6. call' = [call EXCEPT ![c] = new]
    BY <1>2, <2>1, <2>3
  <2>7. /\ call' \in [Calls -> CallRecord] /\ call'[c] = new
        /\ \A x \in Calls : x # c => call'[x] = call[x]
    BY <1>2, <2>5, <2>6
  <2>8. TicketsOk
    BY <1>2, <2>2, <2>7
  <2>9. CallFits(c)'
    <3>1. call[c].at \in 1 .. Len(LedgersOf[c])
      BY <1>1 DEF CallFits
    <3>2. /\ call'[c].at \in 1 .. Len(LedgersOf[c]) /\ call'[c].spent = call[c].spent
          /\ call'[c].step = "settleDollars" /\ call'[c].said \in {Unknown, call[c].spent}
      BY <2>1, <2>3, <2>5, <2>7, <3>1
    <3>. QED  BY <1>1, <2>2, <3>2, QuietFits
  <2>. QED  BY <1>3, <1>4, <1>5, <2>2, <2>8, <2>9
<1>12. CASE ReserveDollars(c)
  <2>1. DollarsOk
    BY <1>1, <1>12, ReserveDollarsFollow DEF DollarsOk
  <2>2. UNCHANGED <<utcDay, ledger, ticket>> /\ Go(c, "dispatch", 1) /\ call[c].step = "price"
    BY <1>12 DEF ReserveDollars
  <2>3. /\ call' \in [Calls -> CallRecord]
        /\ \A x \in Calls : x # c => call'[x] = call[x]
        /\ call'[c].at \in 1 .. Len(LedgersOf[c]) /\ call'[c].step = "dispatch"
        /\ call'[c].spent = call[c].spent /\ call'[c].said = call[c].said
    <3>1. "dispatch" \in Steps
      BY DEF Steps
    <3>. QED  BY <1>1, <2>2, <3>1, Goes
  <2>4. PICK t : t = [status |-> "reserved", day |-> utcDay, used |-> 0]
    OBVIOUS
  <2>5. t \in Ticket /\ t.status = "reserved" /\ TicketFits(t, call[c].spent)
    <3>1. utcDay \in Nat \ {0}
      BY <1>2 DEF BudgetDays
    <3>. QED  BY <1>2, <2>4, <3>1 DEF Ticket, TicketFits
  <2>6. dollarTicket' = [dollarTicket EXCEPT ![c] = t]
    BY <1>12, <2>4 DEF ReserveDollars
  <2>7. /\ dollarTicket' \in [Calls -> Ticket] /\ dollarTicket'[c] = t
        /\ \A x \in Calls : x # c => dollarTicket'[x] = dollarTicket[x]
    BY <1>2, <2>5, <2>6
  <2>8. TicketsOk
    BY <1>2, <2>2, <2>3, <2>7
  <2>9. CallFits(c)'
    BY <1>1, <2>2, <2>3, <2>5, <2>7 DEF CallFits
  <2>. QED  BY <1>3, <1>5, <2>1, <2>2, <2>8, <2>9
<1>13. CASE Dispatch(c)
  <2>1. BooksOk
    <3>1. Books' /\ UNCHANGED ledger
      BY <1>1, <1>13, DispatchBooks DEF Dispatch
    <3>. QED  BY <1>1, <3>1 DEF BooksOk, Typed
  <2>2. UNCHANGED <<utcDay, dollars, dollarTicket>> /\ call[c].step = "dispatch"
    BY <1>13 DEF Dispatch
  <2>3. PICK l, t, old : /\ l = Here(c) /\ old = ticket[l][c]
                         /\ t = [old EXCEPT !.status = "dispatched"]
    OBVIOUS
  <2>4. l \in Ledgers /\ old.status = "admitted"
    BY <1>1, <1>13, <2>3, HereIsWalked DEF Dispatch
  <2>5. old \in Ticket /\ TicketFits(old, call[c].spent)
    BY <1>1, <1>2, <2>3, <2>4 DEF CallFits
  <2>6. t \in Ticket /\ t.status = "dispatched" /\ t.day = old.day /\ t.used = old.used
    BY <2>3, <2>5 DEF Ticket
  <2>7. ticket' = [ticket EXCEPT ![l][c] = t]
    BY <1>13, <2>3 DEF Dispatch
  <2>8. /\ ticket' \in [Ledgers -> [Calls -> Ticket]]
        /\ ticket'[l][c] = t
        /\ \A m \in Ledgers, x \in Calls : m # l \/ x # c => ticket'[m][x] = ticket[m][x]
    BY <1>1, <2>4, <2>6, <2>7, TicketOfOne
  <2>9. /\ call' \in [Calls -> CallRecord]
        /\ \A x \in Calls : x # c => call'[x] = call[x]
        /\ call'[c].at \in 1 .. Len(LedgersOf[c]) /\ call'[c].step \in {"dispatch", "sent"}
    <3>1. PICK k, i, n : k = call[c] /\ i = k.at /\ n = Len(LedgersOf[c])
      OBVIOUS
    <3>2. k \in CallRecord /\ i \in 1 .. n /\ n \in Nat
      <4>1. LedgersOf[c] \in Seq(Ledgers)
        BY CallsAssumption
      <4>. QED  BY <1>1, <1>2, <3>1, <4>1 DEF CallFits
    <3>3. CASE AtLast(c)
      <4>1. PICK spent \in Usages :
              call' = [call EXCEPT ![c].step = "sent", ![c].at = 1, ![c].spent = spent]
        BY <1>13, <3>3 DEF Dispatch
      <4>2. PICK new : new = [k EXCEPT !.step = "sent", !.at = 1, !.spent = spent]
        OBVIOUS
      <4>3. spent \in Nat
        BY <4>1, BudgetAssumption
      <4>4. new \in CallRecord /\ new.step = "sent" /\ new.at = 1
        BY <3>2, <4>2, <4>3 DEF CallRecord, Steps
      <4>5. call' = [call EXCEPT ![c] = new]
        BY <1>2, <3>1, <4>1, <4>2
      <4>. QED  BY <1>2, <3>1, <3>2, <4>4, <4>5
    <3>4. CASE ~ AtLast(c)
      <4>1. Go(c, "dispatch", i + 1)
        BY <1>13, <3>1, <3>4 DEF Dispatch
      <4>2. i + 1 \in 1 .. n
        BY <3>1, <3>2, <3>4 DEF AtLast
      <4>3. PICK new : new = [k EXCEPT !.step = "dispatch", !.at = i + 1]
        OBVIOUS
      <4>4. new \in CallRecord /\ new.step = "dispatch" /\ new.at = i + 1
        <5>1. i + 1 \in Nat
          BY <3>2
        <5>. QED  BY <3>2, <4>3, <5>1 DEF CallRecord, Steps
      <4>5. call' = [call EXCEPT ![c] = new]
        BY <1>2, <3>1, <4>1, <4>3 DEF Go
      <4>. QED  BY <1>2, <3>1, <4>2, <4>4, <4>5
    <3>. QED  BY <3>3, <3>4
  <2>10. TicketsOk
    BY <1>2, <2>2, <2>8, <2>9
  <2>11. ASSUME NEW m \in Ledgers
         PROVE  /\ ticket'[m][c].status # "reserved"
                /\ \A spent : TicketFits(ticket'[m][c], spent)
                /\ ticket'[m][c].status # "settled"
    <3>1. CASE m = l
      BY <2>4, <2>5, <2>6, <2>8, <3>1 DEF TicketFits, OpenStatuses
    <3>2. CASE m # l
      <4>1. ticket'[m][c] = ticket[m][c]
        BY <2>8, <3>2
      <4>2. /\ ticket[m][c].status \notin {"reserved", "settled"}
            /\ TicketFits(ticket[m][c], call[c].spent)
        BY <1>1, <2>2 DEF CallFits
      <4>. QED  BY <4>1, <4>2 DEF TicketFits
    <3>. QED  BY <3>1, <3>2
  <2>12. /\ dollarTicket'[c].status \in {"none", "reserved"}
         /\ \A spent : TicketFits(dollarTicket'[c], spent)
    <3>1. /\ dollarTicket[c].status \in {"none", "reserved"}
          /\ TicketFits(dollarTicket[c], call[c].spent)
      BY <1>1, <2>2 DEF CallFits
    <3>. QED  BY <2>2, <3>1 DEF TicketFits
  <2>13. CallFits(c)'
    BY <2>9, <2>11, <2>12 DEF CallFits
  <2>. QED  BY <1>4, <1>5, <2>1, <2>2, <2>10, <2>13
<1>14. CASE SettleDollars(c)
  <2>1. DollarsOk
    BY <1>1, <1>14, SettleDollarsFollow DEF DollarsOk
  <2>2. /\ UNCHANGED <<utcDay, ledger, ticket>> /\ Go(c, "settle", 1)
        /\ call[c].step = "settleDollars"
    BY <1>14 DEF SettleDollars
  <2>3. /\ call' \in [Calls -> CallRecord]
        /\ \A x \in Calls : x # c => call'[x] = call[x]
        /\ call'[c].at \in 1 .. Len(LedgersOf[c]) /\ call'[c].step = "settle"
        /\ call'[c].spent = call[c].spent /\ call'[c].said = call[c].said
    <3>1. "settle" \in Steps
      BY DEF Steps
    <3>. QED  BY <1>1, <2>2, <3>1, Goes
  <2>4. call[c].said \in {Unknown, call[c].spent} /\ call[c].spent \in Nat
    BY <1>1, <1>2, <2>2 DEF CallFits, CallRecord
  <2>5. CASE UNCHANGED dollarTicket
    <3>1. TicketsOk
      BY <1>2, <2>2, <2>3, <2>5
    <3>2. CallFits(c)'
      BY <1>1, <2>2, <2>3, <2>4, <2>5, QuietFits
    <3>. QED  BY <1>3, <1>5, <2>1, <2>2, <3>1, <3>2
  <2>6. CASE /\ call[c].said # Unknown
             /\ dollarTicket[c].status = "reserved"
             /\ dollarTicket' = [dollarTicket EXCEPT ![c].status = "settled",
                                                     ![c].used = call[c].said]
    <3>1. PICK t, old : /\ old = dollarTicket[c]
                        /\ t = [old EXCEPT !.status = "settled", !.used = call[c].said]
      OBVIOUS
    <3>2. old \in Ticket /\ TicketFits(old, call[c].spent) /\ old.status = "reserved"
      BY <1>1, <1>2, <2>6, <3>1 DEF CallFits
    <3>3. call[c].said = call[c].spent /\ call[c].said \in Nat
      BY <2>4, <2>6
    <3>4. t \in Ticket /\ t.status = "settled" /\ t.day = old.day /\ t.used = call[c].spent
      BY <3>1, <3>2, <3>3 DEF Ticket
    <3>5. TicketFits(t, call[c].spent)
      BY <3>2, <3>4 DEF TicketFits, OpenStatuses
    <3>6. dollarTicket' = [dollarTicket EXCEPT ![c] = t]
      BY <1>2, <2>6, <3>1
    <3>7. /\ dollarTicket' \in [Calls -> Ticket] /\ dollarTicket'[c] = t
          /\ \A x \in Calls : x # c => dollarTicket'[x] = dollarTicket[x]
      BY <1>2, <3>4, <3>6
    <3>8. TicketsOk
      BY <1>2, <2>2, <2>3, <3>7
    <3>9. CallFits(c)'
      BY <1>1, <2>2, <2>3, <2>4, <3>4, <3>5, <3>7 DEF CallFits
    <3>. QED  BY <1>3, <1>5, <2>1, <2>2, <3>8, <3>9
  <2>. QED  BY <1>14, <2>5, <2>6 DEF SettleDollars
<1>15. ASSUME NEW step \in {"settle", "cancel"}, call[c].step = step, Onward(c, "done"),
              UNCHANGED <<utcDay, dollars, dollarTicket>>,
              \/ UNCHANGED <<ledger, ticket>>
              \/ \E cancel \in BOOLEAN, used \in Nat :
                   /\ FinishTicket(Here(c), c, cancel, used)
                   /\ cancel => used = 0
                   /\ cancel \/ used = call[c].spent
       PROVE  SpendInv'
  <2>1. BooksOk
    <3>1. CASE UNCHANGED <<ledger, ticket>>
      BY <1>3, <3>1
    <3>2. ASSUME NEW cancel \in BOOLEAN, NEW used \in Nat,
                 FinishTicket(Here(c), c, cancel, used), cancel => used = 0
          PROVE  BooksOk
      BY <1>1, <3>2, FinishBooks DEF BooksOk
    <3>. QED  BY <1>15, <3>1, <3>2
  <2>2. /\ ticket' \in [Ledgers -> [Calls -> Ticket]]
        /\ \A l \in Ledgers : /\ ticket'[l][c].status # "reserved"
                             /\ TicketFits(ticket'[l][c], call[c].spent)
        /\ \A l \in Ledgers, x \in Calls : x # c => ticket'[l][x] = ticket[l][x]
    <3>1. CASE UNCHANGED <<ledger, ticket>>
      BY <1>1, <1>2, <3>1 DEF CallFits
    <3>2. ASSUME NEW cancel \in BOOLEAN, NEW used \in Nat,
                 FinishTicket(Here(c), c, cancel, used), cancel \/ used = call[c].spent
          PROVE  /\ ticket' \in [Ledgers -> [Calls -> Ticket]]
                 /\ \A l \in Ledgers : /\ ticket'[l][c].status # "reserved"
                                      /\ TicketFits(ticket'[l][c], call[c].spent)
                 /\ \A l \in Ledgers, x \in Calls : x # c => ticket'[l][x] = ticket[l][x]
      BY <1>1, <3>2, FinishFits
    <3>. QED  BY <1>15, <3>1, <3>2
  <2>3. /\ call' \in [Calls -> CallRecord]
        /\ \A x \in Calls : x # c => call'[x] = call[x]
        /\ call'[c].at \in 1 .. Len(LedgersOf[c])
        /\ call'[c].spent = call[c].spent /\ call'[c].said = call[c].said
        /\ call'[c].step \in {"done", step}
    <3>1. "done" \in Steps
      BY DEF Steps
    <3>2. /\ call' \in [Calls -> CallRecord]
          /\ \A x \in Calls : x # c => call'[x] = call[x]
          /\ call'[c].at \in 1 .. Len(LedgersOf[c])
          /\ call'[c].spent = call[c].spent /\ call'[c].said = call[c].said
          /\ \/ call'[c].step = "done"
             \/ call'[c].step = call[c].step /\ call'[c].at = call[c].at + 1
      BY <1>1, <1>15, <3>1, Moves
    <3>. QED  BY <1>15, <3>2
  <2>4. TicketsOk
    BY <1>2, <1>15, <2>2, <2>3
  <2>5. CallFits(c)'
    <3>1. step = "settle" => call[c].said \in {Unknown, call[c].spent}
      BY <1>1, <1>15 DEF CallFits
    <3>2. /\ dollarTicket[c].status \in {"none", "reserved", "settled"}
          /\ TicketFits(dollarTicket[c], call[c].spent)
      BY <1>1 DEF CallFits
    <3>. QED  BY <1>15, <2>2, <2>3, <3>1, <3>2 DEF CallFits
  <2>. QED  BY <1>4, <1>5, <1>15, <2>1, <2>4, <2>5
<1>16. CASE SettleTokens(c)
  <2>1. /\ call[c].step = "settle" /\ Onward(c, "done")
        /\ UNCHANGED <<utcDay, dollars, dollarTicket>>
    BY <1>16 DEF SettleTokens
  <2>2. CASE UNCHANGED <<ledger, ticket>>
    BY <1>15, <2>1, <2>2
  <2>3. CASE call[c].said > 0 /\ FinishTicket(Here(c), c, FALSE, call[c].said)
    <3>1. call[c].said = call[c].spent /\ call[c].said \in Nat
      BY <1>1, <1>2, <2>1, <2>3 DEF CallFits, CallRecord, Unknown
    <3>2. \E cancel \in BOOLEAN, used \in Nat :
            /\ FinishTicket(Here(c), c, cancel, used)
            /\ cancel => used = 0
            /\ cancel \/ used = call[c].spent
      BY <2>3, <3>1
    <3>. QED  BY <1>15, <2>1, <3>2
  <2>. QED  BY <1>16, <2>2, <2>3 DEF SettleTokens
<1>17. CASE CancelTokens(c)
  <2>1. /\ call[c].step = "cancel" /\ Onward(c, "done")
        /\ UNCHANGED <<utcDay, dollars, dollarTicket>>
    BY <1>17 DEF CancelTokens
  <2>2. CASE UNCHANGED <<ledger, ticket>>
    BY <1>15, <2>1, <2>2
  <2>3. CASE FinishTicket(Here(c), c, TRUE, 0)
    <3>1. \E cancel \in BOOLEAN, used \in Nat :
            /\ FinishTicket(Here(c), c, cancel, used)
            /\ cancel => used = 0
            /\ cancel \/ used = call[c].spent
      BY <2>3
    <3>. QED  BY <1>15, <2>1, <3>1
  <2>. QED  BY <1>17, <2>2, <2>3 DEF CancelTokens
<1>. QED  BY <1>7, <1>8, <1>9, <1>10, <1>11, <1>12, <1>13, <1>14, <1>16, <1>17

\* A process that dies, and midnight, leave the ledgers as they are.
LEMMA WorldSteps ==
  ASSUME SpendInv, Crash \/ NextUtcDay
  PROVE  SpendInv'
<1>1. Typed /\ Books /\ DollarsFollow /\ \A x \in Calls : CallFits(x)
  BY DEF SpendInv
<1>2. UNCHANGED <<ledger, ticket, dollars, dollarTicket>>
  BY DEF Crash, NextUtcDay
<1>3. Books' /\ DollarsFollow'
  BY <1>1, <1>2 DEF Books, LedgerFollows, LedgerWithin, DollarsFollow
<1>4. CASE Crash
  <2>1. utcDay' = utcDay
    BY <1>4 DEF Crash
  <2>2. ASSUME NEW c \in Calls
        PROVE  call'[c] \in CallRecord /\ CallFits(c)'
    <3>1. PICK k : k = call[c]
      OBVIOUS
    <3>2. k \in CallRecord /\ CallFits(c)
      BY <1>1, <3>1 DEF Typed, CallRecord
    <3>3. CASE call'[c] = call[c]
      BY <1>2, <3>1, <3>2, <3>3 DEF CallFits
    <3>4. CASE call'[c] = [k EXCEPT !.step = "done", !.at = 1]
      <4>1. /\ call'[c] \in CallRecord /\ call'[c].step = "done" /\ call'[c].at = 1
            /\ call'[c].spent = k.spent
        <5>1. PICK new : new = [k EXCEPT !.step = "done", !.at = 1]
          OBVIOUS
        <5>2. new \in CallRecord /\ new.step = "done" /\ new.at = 1 /\ new.spent = k.spent
          BY <3>2, <5>1 DEF CallRecord, Steps
        <5>. QED  BY <3>4, <5>1, <5>2
      <4>2. 1 \in 1 .. Len(LedgersOf[c])
        <5>1. LedgersOf[c] \in Seq(Ledgers)
          BY CallsAssumption
        <5>. QED  BY <3>2, <5>1 DEF CallFits
      <4>. QED  BY <1>2, <3>1, <3>2, <4>1, <4>2 DEF CallFits
    <3>. QED  BY <1>4, <3>1, <3>3, <3>4 DEF Crash
  <2>3. call' \in [Calls -> CallRecord]
    BY <1>4, <2>2 DEF Crash
  <2>4. Typed'
    BY <1>1, <1>2, <2>1, <2>3 DEF Typed, CallRecord
  <2>. QED  BY <1>3, <2>2, <2>4 DEF SpendInv
<1>5. CASE NextUtcDay
  <2>1. utcDay' \in BudgetDays /\ call' = call
    BY <1>1, <1>5, BudgetAssumption DEF NextUtcDay, Typed, BudgetDays
  <2>2. Typed'
    BY <1>1, <1>2, <2>1 DEF Typed
  <2>3. \A c \in Calls : CallFits(c)'
    BY <1>1, <1>2, <2>1 DEF CallFits
  <2>. QED  BY <1>3, <2>2, <2>3 DEF SpendInv
<1>. QED  BY <1>4, <1>5

\* At the start nothing is reserved.
LEMMA StartsFree ==
  ASSUME BudgetInit
  PROVE  SpendInv
<1>. DEFINE none == [c \in Calls |-> NoTicket]
<1>1. NoTicket \in Ticket
  BY DEF NoTicket, Ticket
<1>2. ASSUME NEW k \in Kinds, NEW d, NEW In
      PROVE  TotalOf(k, d, In, none) = 0
  <2>. DEFINE f == [c \in Calls |-> WeightOn(k, d, In, c, none[c])]
  <2>1. \A c \in Calls : f[c] = 0
    BY DEF WeightOn, Weight, Kinds, OpenStatuses, NoTicket
  <2>2. TotalOf(k, d, In, none) = SumOf(f, Calls)
    BY DEF TotalOf
  <2>. HIDE DEF f
  <2>3. SumOf(f, {}) = SumOf(f, Calls)
    <3>1. /\ \A x \in Calls : f[x] \in Int
          /\ \A x \in {} : f[x] = f[x]
          /\ \A x \in Calls \ {} : f[x] = 0
          /\ {} \subseteq Calls
      BY <2>1
    <3>. QED  BY <3>1, CallsAssumption, SumPart
  <2>4. SumOf(f, {}) = 0
    BY SumEmpty
  <2>. QED  BY <2>2, <2>3, <2>4
<1>3. /\ ticket = [l \in Ledgers |-> none] /\ dollarTicket = none
      /\ dollars = [d \in BudgetDays |-> [spent |-> 0, reserved |-> 0]]
      /\ ledger = [l \in Ledgers |-> [d \in BudgetDays |->
                     [r \in AllRows |-> [calls |-> 0, used |-> 0, reserved |-> 0]]]]
  BY DEF BudgetInit
<1>4. Typed
  <2>1. utcDay \in BudgetDays
    BY BudgetAssumption DEF BudgetInit, BudgetDays
  <2>2. call \in [Calls -> [step : Steps, at : Nat, spent : Nat, said : Int]]
    BY DEF BudgetInit, Steps, Unknown
  <2>. QED  BY <1>1, <1>3, <2>1, <2>2 DEF Typed
<1>5. \A c \in Calls : CallFits(c)
  <2>1. ASSUME NEW c \in Calls
        PROVE  CallFits(c)
    <3>1. LedgersOf[c] \in Seq(Ledgers) /\ LedgersOf[c] # << >>
      BY CallsAssumption
    <3>2. 1 \in 1 .. Len(LedgersOf[c])
      BY <3>1
    <3>3. call[c] = [step |-> "reserve", at |-> 1, spent |-> 0, said |-> Unknown]
      BY DEF BudgetInit
    <3>4. \A spent : TicketFits(NoTicket, spent)
      BY DEF TicketFits, NoTicket, OpenStatuses
    <3>5. NoTicket.status = "none"
      BY DEF NoTicket
    <3>6. \A i \in 1 .. Len(LedgersOf[c]) : LedgersOf[c][i] \in Ledgers
      BY <3>1
    <3>. QED  BY <1>3, <3>2, <3>3, <3>4, <3>5, <3>6 DEF CallFits
  <2>. QED  BY <2>1
<1>. HIDE DEF none
<1>6. LedgerFollows
  BY <1>2, <1>3 DEF LedgerFollows, RowOf, Kinds
<1>7. LedgerWithin
  BY <1>2, <1>3, BudgetAssumption DEF LedgerWithin, Kinds
<1>8. DollarsFollow
  BY <1>2, <1>3, BudgetAssumption DEF DollarsFollow, Kinds
<1>. QED  BY <1>4, <1>5, <1>6, <1>7, <1>8 DEF SpendInv, Books

\* The books are kept: each counter is the sum of its tickets, and what they hold is within
\* the limits, whatever the order of calls, answers, crashes and midnights.
THEOREM BooksKept == BudgetSpec => []SpendInv
<1>1. BudgetInit => SpendInv
  BY StartsFree
<1>2. SpendInv /\ [BudgetNext]_budgetVars => SpendInv'
  <2>. SUFFICES ASSUME SpendInv, [BudgetNext]_budgetVars
                PROVE  SpendInv'
    OBVIOUS
  <2>1. CASE UNCHANGED budgetVars
    <3>1. UNCHANGED <<utcDay, ledger, ticket, dollars, dollarTicket, call>>
      BY <2>1 DEF budgetVars
    <3>. QED  BY <3>1 DEF SpendInv, Typed, Books, LedgerFollows, LedgerWithin, DollarsFollow,
                          CallFits
  <2>2. ASSUME NEW c \in Calls,
               \/ ReserveTokens(c) \/ TokensRefused(c)
               \/ ReserveDollars(c) \/ SpendRefused(c)
               \/ Dispatch(c) \/ Answer(c) \/ NoAnswer(c)
               \/ SettleDollars(c) \/ SettleTokens(c) \/ CancelTokens(c)
        PROVE  SpendInv'
    BY <2>2, ClientSteps
  <2>3. CASE Crash \/ NextUtcDay
    BY <2>3, WorldSteps
  <2>. QED  BY <2>1, <2>2, <2>3 DEF BudgetNext
<1>. QED  BY <1>1, <1>2, PTL DEF BudgetSpec

-----------------------------------------------------------------------------
(* What the books say of the calls.                                        *)

\* A total is the sum over those of its calls whose tickets weigh anything.
LEMMA TotalOver ==
  ASSUME NEW k \in Kinds, NEW d, NEW In, NEW ts \in [Calls -> Ticket],
         NEW T, T \subseteq Calls, NEW g,
         \A c \in T : c \in In /\ ts[c].day = d /\ g[c] = Weight(k, c, ts[c]),
         \A c \in Calls \ T : c \in In /\ ts[c].day = d => Weight(k, c, ts[c]) = 0
  PROVE  TotalOf(k, d, In, ts) = SumOf(g, T)
<1>. DEFINE f == [c \in Calls |-> WeightOn(k, d, In, c, ts[c])]
<1>1. \A c \in Calls : f[c] \in Int
  <2>1. \A c \in Calls : WeightOn(k, d, In, c, ts[c]) \in Nat
    BY Weights
  <2>. QED  BY <2>1
<1>2. \A c \in T : g[c] = f[c]
  BY DEF WeightOn
<1>3. \A c \in Calls \ T : f[c] = 0
  BY DEF WeightOn
<1>4. TotalOf(k, d, In, ts) = SumOf(f, Calls)
  BY DEF TotalOf
<1>. HIDE DEF f
<1>5. PICK F : F = f
  OBVIOUS
<1>6. /\ IsFiniteSet(Calls) /\ T \subseteq Calls
      /\ \A x \in Calls : F[x] \in Int
      /\ \A x \in T : g[x] = F[x]
      /\ \A x \in Calls \ T : F[x] = 0
  BY <1>1, <1>2, <1>3, <1>5, CallsAssumption
<1>7. SumOf(g, T) = SumOf(F, Calls)
  BY <1>6, SumPart
<1>. QED  BY <1>4, <1>5, <1>7

\* A total is at least the sum of anything its tickets weigh more than.
LEMMA TotalCovers ==
  ASSUME NEW k \in Kinds, NEW d, NEW In, NEW ts \in [Calls -> Ticket],
         NEW T, T \subseteq Calls, NEW g,
         \A c \in T : /\ c \in In /\ ts[c].day = d
                     /\ g[c] \in Int /\ g[c] <= Weight(k, c, ts[c])
  PROVE  SumOf(g, T) <= TotalOf(k, d, In, ts)
<1>. DEFINE f == [c \in Calls |-> WeightOn(k, d, In, c, ts[c])]
<1>1. \A c \in Calls : f[c] \in Nat
  <2>1. \A c \in Calls : WeightOn(k, d, In, c, ts[c]) \in Nat
    BY Weights
  <2>. QED  BY <2>1
<1>2. \A c \in T : g[c] \in Int /\ f[c] \in Int /\ g[c] <= f[c]
  <2>1. \A c \in T : f[c] = Weight(k, c, ts[c])
    BY DEF WeightOn
  <2>. HIDE DEF f
  <2>. QED  BY <1>1, <2>1
<1>3. TotalOf(k, d, In, ts) = SumOf(f, Calls)
  BY DEF TotalOf
<1>. HIDE DEF f
<1>4. IsFiniteSet(T)
  BY CallsAssumption, FS_Subset
<1>5. SumOf(g, T) <= SumOf(f, T)
  BY <1>2, <1>4, SumCompare
<1>6. SumOf(f, T) <= SumOf(f, Calls)
  BY <1>1, CallsAssumption, SumSubset
<1>7. SumOf(g, T) \in Int /\ SumOf(f, T) \in Int /\ SumOf(f, Calls) \in Int
  BY <1>1, <1>2, <1>4, CallsAssumption, SumInt
<1>. QED  BY <1>3, <1>5, <1>6, <1>7

\* The counters are the sums over the tickets.
LEMMA CountersKept ==
  ASSUME SpendInv
  PROVE  CountersFollowTickets
<1>. SUFFICES ASSUME NEW l \in Ledgers, NEW d \in BudgetDays, NEW r \in AllRows
              PROVE  LET mine == {c \in TicketsOn(l, d) : r \in Rows(c)}
                         live == {c \in mine : ticket[l][c].status # "cancelled"}
                         open == {c \in mine : ticket[l][c].status \in {"admitted", "dispatched"}}
                     IN ledger[l][d][r] = [calls |-> Cardinality(live),
                                           used |-> SumOf([c \in Calls |-> ticket[l][c].used], live),
                                           reserved |-> SumOf(Allowance, open)]
  BY DEF CountersFollowTickets
<1>. DEFINE mine == {c \in TicketsOn(l, d) : r \in Rows(c)}
            live == {c \in mine : ticket[l][c].status # "cancelled"}
            open == {c \in mine : ticket[l][c].status \in {"admitted", "dispatched"}}
            spent == [c \in Calls |-> ticket[l][c].used]
            ones == [c \in Calls |-> 1]
<1>1. PICK ts, In : ts = ticket[l] /\ In = RowCalls(l, r)
  OBVIOUS
<1>2. ts \in [Calls -> Ticket] /\ d \in Nat \ {0}
  BY <1>1 DEF SpendInv, Typed, BudgetDays
<1>3. ledger[l][d][r] = RowOf(d, In, ts)
  BY <1>1 DEF SpendInv, Books, LedgerFollows
<1>4. ASSUME NEW c \in Calls
      PROVE  /\ c \in mine <=> c \in In /\ ts[c].day = d
             /\ c \in mine => ts[c].status # "none"
             /\ ts[c].status # "reserved"
  <2>1. TicketFits(ts[c], call[c].spent) /\ ts[c].status # "reserved"
    BY <1>1 DEF SpendInv, CallFits
  <2>2. c \in mine <=> c \in In /\ ts[c].day = d
    BY <1>1 DEF TicketsOn, RowCalls
  <2>. QED  BY <1>2, <2>1, <2>2 DEF TicketFits
<1>5. /\ live \subseteq Calls /\ open \subseteq Calls /\ mine \subseteq Calls
      /\ \A c \in mine : c \in live <=> ts[c].status # "cancelled"
      /\ \A c \in mine : c \in open <=> ts[c].status \in {"admitted", "dispatched"}
      /\ live \subseteq mine /\ open \subseteq mine
  BY <1>1 DEF TicketsOn
<1>6. \A c \in Calls : spent[c] = ts[c].used /\ ones[c] = 1
  BY <1>1
<1>7. "calls" \in Kinds /\ "used" \in Kinds /\ "reserved" \in Kinds
  BY DEF Kinds
<1>. HIDE DEF mine, live, open, spent, ones
<1>8. /\ \A c \in live : c \in In /\ ts[c].day = d /\ ones[c] = Weight("calls", c, ts[c])
      /\ \A c \in Calls \ live : c \in In /\ ts[c].day = d => Weight("calls", c, ts[c]) = 0
  BY <1>4, <1>5, <1>6 DEF Weight
<1>9. /\ \A c \in live : c \in In /\ ts[c].day = d /\ spent[c] = Weight("used", c, ts[c])
      /\ \A c \in Calls \ live : c \in In /\ ts[c].day = d => Weight("used", c, ts[c]) = 0
  BY <1>4, <1>5, <1>6 DEF Weight
<1>10. /\ \A c \in open : c \in In /\ ts[c].day = d /\ Allowance[c] = Weight("reserved", c, ts[c])
       /\ \A c \in Calls \ open : c \in In /\ ts[c].day = d => Weight("reserved", c, ts[c]) = 0
  BY <1>4, <1>5 DEF Weight, OpenStatuses
<1>11. TotalOf("calls", d, In, ts) = SumOf(ones, live)
  BY <1>2, <1>5, <1>7, <1>8, TotalOver
<1>12. TotalOf("used", d, In, ts) = SumOf(spent, live)
  BY <1>2, <1>5, <1>7, <1>9, TotalOver
<1>13. TotalOf("reserved", d, In, ts) = SumOf(Allowance, open)
  BY <1>2, <1>5, <1>7, <1>10, TotalOver
<1>14. SumOf(ones, live) = Cardinality(live)
  <2>1. IsFiniteSet(live)
    BY <1>5, CallsAssumption, FS_Subset
  <2>2. \A c \in live : ones[c] = 1
    BY <1>5, <1>6
  <2>. QED  BY <2>1, <2>2, SumOnes
<1>15. ledger[l][d][r] = [calls |-> Cardinality(live), used |-> SumOf(spent, live),
                          reserved |-> SumOf(Allowance, open)]
  BY <1>3, <1>11, <1>12, <1>13, <1>14 DEF RowOf
<1>. QED  BY <1>15 DEF mine, live, open, spent

\* A ticket of a call that was sent holds what the provider spent, up to the allowance.
LEMMA SentIsHeld ==
  ASSUME NEW c \in Calls, NEW t \in Ticket, NEW spent \in Nat, TicketFits(t, spent),
         t.status \in {"dispatched", "reserved", "settled"}
  PROVE  Least(spent, Allowance[c]) \in Int /\ Least(spent, Allowance[c]) <= Weight("held", c, t)
<1>1. Allowance[c] \in Nat
  BY BudgetAssumption
<1>2. t.status = "settled" => t.used = spent
  BY DEF TicketFits
<1>. QED  BY <1>1, <1>2 DEF Weight, OpenStatuses, Least

\* The limits bound what the providers really spent.
LEMMA LimitsHold ==
  ASSUME SpendInv
  PROVE  SpendWithinLimits
<1>1. \A c \in Calls : call[c].spent \in Nat /\ Counted[c] = Least(call[c].spent, Allowance[c])
  BY DEF SpendInv, Typed, Counted
<1>2. PICK counted : counted = Counted
  OBVIOUS
<1>3. "calls" \in Kinds /\ "held" \in Kinds
  BY DEF Kinds
<1>4. ASSUME NEW d \in BudgetDays, NEW l \in Ledgers
      PROVE  LET sent == {c \in TicketsOn(l, d) : Sent(c)}
             IN Cardinality(sent) <= CallLimit[l] /\ SumOf(Counted, sent) <= TokenLimit[l]
  <2>. DEFINE sent == {c \in TicketsOn(l, d) : Sent(c)}
              ones == [c \in Calls |-> 1]
  <2>1. PICK ts, In : ts = ticket[l] /\ In = RowCalls(l, Account)
    OBVIOUS
  <2>2. ts \in [Calls -> Ticket]
    BY <2>1 DEF SpendInv, Typed
  <2>3. sent \subseteq Calls /\ IsFiniteSet(sent)
    <3>1. sent \subseteq Calls
      BY DEF TicketsOn
    <3>. HIDE DEF sent
    <3>. QED  BY <3>1, CallsAssumption, FS_Subset
  <2>4. ASSUME NEW c \in sent
        PROVE  /\ c \in Calls /\ c \in In /\ ts[c].day = d
               /\ ts[c].status \in {"dispatched", "settled"}
               /\ ones[c] = 1
    <3>1. c \in Calls /\ l \in Range(LedgersOf[c]) /\ ts[c].day = d
      BY <2>1 DEF TicketsOn
    <3>2. ts[c].status \in {"dispatched", "settled"}
      BY <2>1, <3>1 DEF Sent
    <3>. QED  BY <2>1, <3>1, <3>2 DEF RowCalls, Rows
  <2>. HIDE DEF sent, ones
  <2>5. ASSUME NEW c \in sent
        PROVE  /\ c \in In /\ ts[c].day = d
               /\ ones[c] \in Int /\ ones[c] <= Weight("calls", c, ts[c])
    BY <2>4 DEF Weight
  <2>6. ASSUME NEW c \in sent
        PROVE  /\ c \in In /\ ts[c].day = d
               /\ counted[c] \in Int /\ counted[c] <= Weight("held", c, ts[c])
    <3>1. c \in Calls /\ ts[c].status \in {"dispatched", "reserved", "settled"} /\ ts[c] \in Ticket
      BY <2>2, <2>4
    <3>2. TicketFits(ts[c], call[c].spent)
      BY <2>1, <3>1 DEF SpendInv, CallFits
    <3>3. /\ Least(call[c].spent, Allowance[c]) \in Int
          /\ Least(call[c].spent, Allowance[c]) <= Weight("held", c, ts[c])
      BY <1>1, <3>1, <3>2, SentIsHeld
    <3>. QED  BY <1>1, <1>2, <2>4, <3>1, <3>3
  <2>7. SumOf(ones, sent) <= TotalOf("calls", d, In, ts)
    BY <1>3, <2>2, <2>3, <2>5, TotalCovers
  <2>8. SumOf(counted, sent) <= TotalOf("held", d, In, ts)
    BY <1>3, <2>2, <2>3, <2>6, TotalCovers
  <2>9. SumOf(ones, sent) = Cardinality(sent)
    BY <2>3, <2>4, SumOnes
  <2>10. /\ TotalOf("calls", d, In, ts) <= CallLimit[l]
         /\ TotalOf("held", d, In, ts) <= TokenLimit[l]
    BY <2>1 DEF SpendInv, Books, LedgerWithin
  <2>11. /\ TotalOf("calls", d, In, ts) \in Nat /\ TotalOf("held", d, In, ts) \in Nat
         /\ CallLimit[l] \in Nat /\ TokenLimit[l] \in Nat
    BY <1>3, <2>2, Totals, BudgetAssumption
  <2>12. SumOf(ones, sent) \in Int /\ SumOf(counted, sent) \in Int
    BY <2>3, <2>5, <2>6, SumInt
  <2>13. Cardinality(sent) <= CallLimit[l] /\ SumOf(counted, sent) <= TokenLimit[l]
    BY <2>7, <2>8, <2>9, <2>10, <2>11, <2>12
  <2>. QED  BY <1>2, <2>13 DEF sent
<1>5. ASSUME NEW d \in BudgetDays
      PROVE  SumOf(Counted, {c \in Calls : Sent(c) /\ dollarTicket[c].day = d}) <= DollarLimit
  <2>. DEFINE sent == {c \in Calls : Sent(c) /\ dollarTicket[c].day = d}
  <2>1. PICK ts : ts = dollarTicket
    OBVIOUS
  <2>2. ts \in [Calls -> Ticket] /\ d # 0
    BY <2>1 DEF SpendInv, Typed, BudgetDays
  <2>3. sent \subseteq Calls /\ \A c \in sent : ts[c].day = d
    BY <2>1
  <2>. HIDE DEF sent
  <2>4. ASSUME NEW c \in sent
        PROVE  /\ c \in Calls /\ ts[c].day = d
               /\ counted[c] \in Int /\ counted[c] <= Weight("held", c, ts[c])
    <3>1. c \in Calls /\ ts[c].day = d /\ ts[c] \in Ticket
      BY <2>2, <2>3
    <3>2. TicketFits(ts[c], call[c].spent) /\ ts[c].status \in {"none", "reserved", "settled"}
      BY <2>1, <3>1 DEF SpendInv, CallFits
    <3>3. ts[c].status \in {"dispatched", "reserved", "settled"}
      BY <2>2, <3>1, <3>2 DEF TicketFits
    <3>4. /\ Least(call[c].spent, Allowance[c]) \in Int
          /\ Least(call[c].spent, Allowance[c]) <= Weight("held", c, ts[c])
      BY <1>1, <3>1, <3>2, <3>3, SentIsHeld
    <3>. QED  BY <1>1, <1>2, <3>1, <3>4
  <2>5. SumOf(counted, sent) <= TotalOf("held", d, Calls, ts)
    BY <1>3, <2>2, <2>3, <2>4, TotalCovers
  <2>6. TotalOf("held", d, Calls, ts) <= DollarLimit
    BY <2>1 DEF SpendInv, DollarsFollow
  <2>7. TotalOf("held", d, Calls, ts) \in Nat /\ DollarLimit \in Nat
    BY <1>3, <2>2, Totals, BudgetAssumption
  <2>8. SumOf(counted, sent) \in Int
    <3>1. IsFiniteSet(sent)
      BY <2>3, CallsAssumption, FS_Subset
    <3>. QED  BY <2>4, <3>1, SumInt
  <2>9. SumOf(counted, sent) <= DollarLimit
    BY <2>5, <2>6, <2>7, <2>8
  <2>. QED  BY <1>2, <2>9 DEF sent
<1>. QED  BY <1>4, <1>5 DEF SpendWithinLimits

\* BudgetCoversSpend, for any finitely many calls: the daily ceilings bound what the providers
\* really spent, because a call that is not known to be finished keeps its reservation on
\* the day it was admitted (budget.py _finish_ticket, spend.py settle).
THEOREM SpendCovered == BudgetSpec => []BudgetCoversSpend
<1>1. SpendInv => BudgetCoversSpend
  BY CountersKept, LimitsHold DEF BudgetCoversSpend
<1>. QED  BY <1>1, BooksKept, PTL

-----------------------------------------------------------------------------
(* Windows and the minimum of a set.                                       *)

\* A moment lies in its window, and windows start at multiples of their length.
LEMMA WindowHolds ==
  ASSUME NEW t \in Nat
  PROVE  \E k \in Int : /\ WindowStart(t) = BarLength * k
                        /\ BarLength * k <= t /\ t < BarLength * k + BarLength
<1>1. BarLength \in Nat /\ BarLength > 0
  BY FeedAssumption
<1>2. /\ t = BarLength * (t \div BarLength) + (t % BarLength)
      /\ t % BarLength \in 0 .. BarLength - 1 /\ t \div BarLength \in Int
  BY <1>1
<1>3. PICK k \in Int : k = t \div BarLength
  BY <1>2
<1>4. PICK m \in Int : m = BarLength * k /\ m = BarLength * (t \div BarLength)
  BY <1>1, <1>3
<1>5. PICK d \in 0 .. BarLength - 1 : d = t % BarLength
  BY <1>2
<1>6. t = m + d
  BY <1>2, <1>4, <1>5
<1>. QED  BY <1>1, <1>4, <1>5, <1>6 DEF WindowStart

\* Of two moments the earlier one's window is over when the later one's begins, or it is the same.
LEMMA WindowsInOrder ==
  ASSUME NEW t \in Nat, NEW u \in Nat, t <= u
  PROVE  /\ WindowStart(t) \in Int /\ WindowEnd(t) \in Int
         /\ WindowStart(t) <= t /\ t < WindowEnd(t)
         /\ WindowEnd(t) = WindowEnd(u) \/ WindowEnd(t) <= WindowStart(u)
<1>1. BarLength \in Nat /\ BarLength > 0
  BY FeedAssumption
<1>2. PICK i \in Int : /\ WindowStart(t) = BarLength * i
                       /\ BarLength * i <= t /\ t < BarLength * i + BarLength
  BY WindowHolds
<1>3. PICK j \in Int : /\ WindowStart(u) = BarLength * j
                       /\ BarLength * j <= u /\ u < BarLength * j + BarLength
  BY WindowHolds
<1>4. PICK a \in Int, c \in Int : a = BarLength * i /\ c = BarLength * j
  BY <1>1
<1>5. ~ (j + 1 <= i)
  <2>. SUFFICES ASSUME j + 1 <= i PROVE FALSE
    OBVIOUS
  <2>1. BarLength * (j + 1) <= BarLength * i
    BY <1>1
  <2>2. BarLength * (j + 1) = BarLength * j + BarLength
    BY <1>1
  <2>. QED  BY <1>1, <1>2, <1>3, <1>4, <2>1, <2>2
<1>6. i + 1 <= j => a + BarLength <= c
  <2>. SUFFICES ASSUME i + 1 <= j PROVE a + BarLength <= c
    OBVIOUS
  <2>1. BarLength * (i + 1) <= BarLength * j
    BY <1>1
  <2>2. BarLength * (i + 1) = BarLength * i + BarLength
    BY <1>1
  <2>. QED  BY <1>1, <1>4, <2>1, <2>2
<1>7. i = j \/ i + 1 <= j
  BY <1>5
<1>. QED  BY <1>1, <1>2, <1>3, <1>4, <1>6, <1>7 DEF WindowEnd

\* A window that is over at a moment is over at the start of that moment's window.
LEMMA WindowOver ==
  ASSUME NEW t \in Nat, NEW u \in Nat, WindowEnd(t) <= u
  PROVE  WindowEnd(t) <= WindowStart(u)
<1>1. t < WindowEnd(t) /\ WindowEnd(t) \in Int
  BY WindowsInOrder
<1>2. t <= u
  BY <1>1
<1>3. u < WindowEnd(u) /\ WindowEnd(u) \in Int
  BY WindowsInOrder
<1>. QED  BY <1>1, <1>2, <1>3, WindowsInOrder

\* A nonempty finite set of integers has a minimum, which Min chooses.
LEMMA MinOfFinite ==
  ASSUME NEW S, Positions(S), S # {}
  PROVE  Min(S) \in S /\ \A y \in S : Min(S) <= y
<1>. DEFINE Low(x, T) == x \in T /\ \A y \in T : x <= y
            Bad == {T \in SUBSET S : T # {} /\ ~ \E x : Low(x, T)}
<1>1. Bad = {}
  <2>. SUFFICES ASSUME Bad # {} PROVE FALSE
    OBVIOUS
  <2>1. PICK T \in Bad : \A V \in Bad : V \subseteq T => V = T
    <3>1. Bad \subseteq SUBSET S /\ IsFiniteSet(S)
      BY SubPositions
    <3>. HIDE DEF Bad
    <3>. QED  BY <3>1, MinimalSubset
  <2>2. PICK z \in T : TRUE
    BY <2>1
  <2>3. T \ {z} \notin Bad
    BY <2>1, <2>2
  <2>4. T \subseteq Int
    BY DEF Positions
  <2>5. CASE T \ {z} = {}
    <3>1. Low(z, T)
      BY <2>2, <2>4, <2>5
    <3>. QED  BY <2>1, <3>1
  <2>6. CASE T \ {z} # {}
    <3>1. PICK x : Low(x, T \ {z})
      BY <2>1, <2>3, <2>6
    <3>2. x \in Int /\ z \in Int /\ \A y \in T : y \in Int
      BY <2>2, <2>4, <3>1
    <3>3. IF x <= z THEN Low(x, T) ELSE Low(z, T)
      <4>. HIDE DEF Bad
      <4>. QED  BY <2>2, <3>1, <3>2
    <3>. QED  BY <2>1, <3>3
  <2>. QED  BY <2>5, <2>6
<1>2. \E x \in S : \A y \in S : x <= y
  BY <1>1
<1>. QED  BY <1>2 DEF Min

\* Max and Min of a set that one number joins.
LEMMA JoinedExtremes ==
  ASSUME NEW S, Positions(S), NEW x \in Int
  PROVE  /\ Positions(S \cup {x})
         /\ S = {} => Max(S \cup {x}) = x /\ Min(S \cup {x}) = x
         /\ S # {} => /\ Max(S \cup {x}) = Max({Max(S), x}) /\ Max(S) \in Int
                      /\ Min(S \cup {x}) = Min({Min(S), x}) /\ Min(S) \in Int
<1>1. Positions(S \cup {x})
  BY FS_AddElement DEF Positions
<1>2. PICK U : U = S \cup {x}
  OBVIOUS
<1>3. Max(U) \in U /\ Min(U) \in U /\ \A y \in U : Max(U) >= y /\ Min(U) <= y
  BY <1>1, <1>2, MaxOfFinite, MinOfFinite
<1>4. CASE S = {}
  BY <1>1, <1>2, <1>3, <1>4
<1>5. CASE S # {}
  <2>1. Max(S) \in S /\ Min(S) \in S /\ \A y \in S : Max(S) >= y /\ Min(S) <= y
    BY <1>5, MaxOfFinite, MinOfFinite
  <2>2. PICK a \in Int, c \in Int : a = Max(S) /\ c = Min(S)
    BY <2>1 DEF Positions
  <2>3. Max({a, x}) \in {a, x} /\ Max({a, x}) >= a /\ Max({a, x}) >= x
    BY DEF Max
  <2>4. Min({c, x}) \in {c, x} /\ Min({c, x}) <= c /\ Min({c, x}) <= x
    BY DEF Min
  <2>5. \A y \in U : y \in Int
    BY <1>1, <1>2 DEF Positions
  <2>6. PICK f \in Int, g \in Int, v \in Int, w \in Int :
          f = Max(U) /\ g = Min(U) /\ v = Max({a, x}) /\ w = Min({c, x})
    BY <1>3, <2>3, <2>4, <2>5
  <2>7. v = a \/ v = x
    BY <2>3, <2>6
  <2>8. w = c \/ w = x
    BY <2>4, <2>6
  <2>9. v \in U /\ w \in U /\ a \in U /\ x \in U /\ c \in U
    BY <1>2, <2>1, <2>2, <2>7, <2>8
  <2>10. f >= v /\ g <= w
    BY <1>3, <2>6, <2>9
  <2>11. f = x \/ f \in S
    BY <1>2, <1>3, <2>6
  <2>12. g = x \/ g \in S
    BY <1>2, <1>3, <2>6
  <2>13. f <= v
    BY <2>1, <2>2, <2>3, <2>6, <2>11
  <2>14. g >= w
    BY <2>1, <2>2, <2>4, <2>6, <2>12
  <2>15. f = v /\ g = w
    BY <2>10, <2>13, <2>14
  <2>. QED  BY <1>1, <1>2, <1>5, <2>2, <2>6, <2>15
<1>. QED  BY <1>4, <1>5

\* The position after the last one is the greatest of those up to it.
LEMMA LastOfGrown ==
  ASSUME NEW n \in Nat, NEW T, T \subseteq 1 .. n
  PROVE  /\ Positions(T) /\ Positions(T \cup {n + 1}) /\ Max(T \cup {n + 1}) = n + 1
         /\ n + 1 \notin T
         /\ T # {} => Min(T \cup {n + 1}) = Min(T) /\ Max(T) \in T /\ Min(T) \in T
                      /\ \A i \in T : Min(T) <= i /\ i <= Max(T)
<1>1. Positions(T)
  <2>1. 1 \in Int /\ n \in Int
    OBVIOUS
  <2>2. IsFiniteSet(1 .. n) /\ T \in SUBSET (1 .. n)
    BY <2>1, FS_Interval
  <2>3. IsFiniteSet(T)
    BY <2>2, FS_Subset
  <2>. QED  BY <2>3 DEF Positions
<1>2. n + 1 \in Int /\ n + 1 \notin T
  OBVIOUS
<1>3. Positions(T \cup {n + 1})
  BY <1>1, <1>2, JoinedExtremes
<1>4. PICK U : U = T \cup {n + 1}
  OBVIOUS
<1>5. Max(U) \in U /\ Min(U) \in U /\ \A y \in U : Max(U) >= y /\ Min(U) <= y
  BY <1>3, <1>4, MaxOfFinite, MinOfFinite
<1>6. Max(U) = n + 1
  <2>1. PICK a : a = Max(U)
    OBVIOUS
  <2>2. a \in U /\ \A y \in U : a >= y
    BY <1>5, <2>1
  <2>3. a \in 1 .. (n + 1) /\ a >= n + 1
    BY <1>4, <2>2
  <2>. QED  BY <2>1, <2>3
<1>7. T # {} => /\ Max(T) \in T /\ Min(T) \in T
                /\ \A y \in T : Max(T) >= y /\ Min(T) <= y
  BY <1>1, MaxOfFinite, MinOfFinite
<1>8. T # {} => Min(U) = Min(T)
  <2>. SUFFICES ASSUME T # {} PROVE Min(U) = Min(T)
    OBVIOUS
  <2>1. PICK a \in 1 .. n : a = Min(T) /\ a \in T /\ \A y \in T : a <= y
    BY <1>7
  <2>2. PICK c : c = Min(U)
    OBVIOUS
  <2>3. c \in U /\ c <= a
    BY <1>4, <1>5, <2>1, <2>2
  <2>4. c \in T /\ c \in 1 .. n
    BY <1>4, <2>1, <2>3
  <2>. QED  BY <2>1, <2>2, <2>3, <2>4
<1>. QED  BY <1>1, <1>2, <1>3, <1>4, <1>6, <1>7, <1>8

-----------------------------------------------------------------------------
(* The bar of a window as arrivals join.                                   *)

FeedTick == [symbol : FeedSymbols, price : Int, volume : Nat, at : Nat]
Arrival == [tick : FeedTick, sealed : Int]

\* more is the n arrivals with e behind them.
Joins(all, e, n, more) ==
  /\ n \in Nat /\ e \in Arrival
  /\ DOMAIN all = 1 .. n /\ DOMAIN more = 1 .. (n + 1)
  /\ \A i \in 1 .. n : all[i] \in Arrival /\ more[i] = all[i]
  /\ more[n + 1] = e

\* An arrival of s that came before its window was sealed.
Counts(e, s) == e.tick.symbol = s /\ e.tick.at >= e.sealed

\* Appending an arrival is such a step.
LEMMA AppendJoins ==
  ASSUME NEW all \in Seq(Arrival), NEW e \in Arrival
  PROVE  Joins(all, e, Len(all), Append(all, e)) /\ Append(all, e) \in Seq(Arrival)
<1>1. Len(all) \in Nat /\ DOMAIN all = 1 .. Len(all)
  BY LenProperties
<1>2. \A i \in 1 .. Len(all) : all[i] \in Arrival
  BY ElementOfSeq
<1>3. /\ Append(all, e) \in Seq(Arrival) /\ Len(Append(all, e)) = Len(all) + 1
      /\ \A i \in 1 .. Len(all) : Append(all, e)[i] = all[i]
      /\ Append(all, e)[Len(all) + 1] = e
  <2>. HIDE DEF Arrival
  <2>. QED  BY AppendProperties
<1>4. DOMAIN Append(all, e) = 1 .. (Len(all) + 1)
  BY <1>3, LenProperties
<1>. QED  BY <1>1, <1>2, <1>3, <1>4 DEF Joins

\* The positions concerned grow by the new one or not at all.
LEMMA PositionsGrow ==
  ASSUME NEW all, NEW e, NEW n, NEW more, Joins(all, e, n, more), NEW s
  PROVE  /\ TicksOf(all, s) \subseteq 1 .. n /\ Taken(all, s) \subseteq TicksOf(all, s)
         /\ TicksOf(more, s) = TicksOf(all, s) \cup {i \in {n + 1} : e.tick.symbol = s}
         /\ Taken(more, s) = Taken(all, s) \cup {i \in {n + 1} : Counts(e, s)}
<1>1. \A i : i \in 1 .. (n + 1) <=> i \in 1 .. n \/ i = n + 1
  BY DEF Joins
<1>2. TicksOf(more, s) = TicksOf(all, s) \cup {i \in {n + 1} : e.tick.symbol = s}
  BY <1>1 DEF Joins, TicksOf
<1>3. Taken(more, s) = Taken(all, s) \cup {i \in {n + 1} : Counts(e, s)}
  BY <1>1 DEF Joins, TicksOf, Taken, Counts
<1>. QED  BY <1>2, <1>3 DEF Joins, TicksOf, Taken

\* The ticks of a window grow likewise.
LEMMA WindowGrows ==
  ASSUME NEW all, NEW e, NEW n, NEW more, Joins(all, e, n, more), NEW s, NEW end
  PROVE  /\ InWindow(all, s, end) \subseteq 1 .. n
         /\ InWindow(more, s, end)
              = InWindow(all, s, end)
                  \cup {i \in {n + 1} : Counts(e, s) /\ WindowEnd(e.tick.at) = end}
<1>1. /\ Taken(all, s) \subseteq 1 .. n
      /\ Taken(more, s) = Taken(all, s) \cup {i \in {n + 1} : Counts(e, s)}
  BY PositionsGrow
<1>2. \A i \in Taken(all, s) : more[i] = all[i]
  BY <1>1 DEF Joins
<1>3. more[n + 1] = e
  BY DEF Joins
<1>. QED  BY <1>1, <1>2, <1>3 DEF InWindow

\* What was taken before a position.
Earlier(all, s, i) == {j \in Taken(all, s) : j < i}

\* The last of the ticks taken before a position is one of them.
LEMMA LastEarlier ==
  ASSUME NEW n \in Nat, NEW S, S \subseteq 1 .. n, S # {}
  PROVE  Max(S) \in S /\ Max(S) \in 1 .. n
BY LastOfGrown

\* A gain is a number and stays what it was.
LEMMA GainStays ==
  ASSUME NEW all, NEW e, NEW n, NEW more, Joins(all, e, n, more), NEW s, NEW i \in 1 .. n
  PROVE  Gained(more, s, i) = Gained(all, s, i) /\ Gained(all, s, i) \in Int
<1>1. n \in Nat
  BY DEF Joins
<1>2. /\ Taken(all, s) \subseteq 1 .. n
      /\ Taken(more, s) = Taken(all, s) \cup {k \in {n + 1} : Counts(e, s)}
  BY PositionsGrow
<1>3. Earlier(more, s, i) = Earlier(all, s, i) /\ Earlier(all, s, i) \subseteq 1 .. n
  BY <1>1, <1>2 DEF Earlier
<1>4. PICK S : S = Earlier(all, s, i)
  OBVIOUS
<1>5. more[i] = all[i] /\ all[i] \in Arrival
  BY DEF Joins
<1>6. all[i].tick.volume \in Int
  BY <1>5 DEF Arrival, FeedTick
<1>7. CASE S = {}
  BY <1>3, <1>4, <1>5, <1>7 DEF Gained, Earlier
<1>8. CASE S # {}
  <2>1. Max(S) \in 1 .. n
    BY <1>1, <1>3, <1>4, <1>8, LastEarlier
  <2>2. more[Max(S)] = all[Max(S)] /\ all[Max(S)] \in Arrival
    BY <2>1 DEF Joins
  <2>3. PICK t : t = all[Max(S)].tick
    OBVIOUS
  <2>4. t.volume \in Int
    BY <2>2, <2>3 DEF Arrival, FeedTick
  <2>5. all[i].tick.volume - t.volume \in Int
    BY <1>6, <2>4
  <2>6. Max({0, all[i].tick.volume - t.volume}) \in Int
    <3>1. PICK v \in Int : v = all[i].tick.volume - t.volume
      BY <2>5
    <3>2. 0 \in Int
      OBVIOUS
    <3>3. Max({0, v}) \in Int
      BY <3>2, OfPair
    <3>. QED  BY <3>1, <3>3
  <2>7. Gained(all, s, i) = IF DateOf(all[i].tick.at) # DateOf(t.at) THEN 0
                            ELSE Max({0, all[i].tick.volume - t.volume})
    BY <1>4, <1>8, <2>3 DEF Gained, Earlier
  <2>8. Gained(more, s, i) = IF DateOf(all[i].tick.at) # DateOf(t.at) THEN 0
                             ELSE Max({0, all[i].tick.volume - t.volume})
    BY <1>3, <1>4, <1>5, <1>8, <2>2, <2>3 DEF Gained, Earlier
  <2>. QED  BY <2>6, <2>7, <2>8
<1>. QED  BY <1>7, <1>8

\* The prices of some arrivals.
PricesOf(all, S) == {all[i].tick.price : i \in S}

\* They are finitely many numbers.
LEMMA PricesFinite ==
  ASSUME NEW n \in Nat, NEW S, S \subseteq 1 .. n, NEW all, \A i \in 1 .. n : all[i] \in Arrival
  PROVE  Positions(PricesOf(all, S))
<1>. DEFINE f == [i \in S |-> all[i].tick.price]
<1>1. f \in Surjection(S, PricesOf(all, S))
  BY DEF Surjection, PricesOf
<1>2. IsFiniteSet(S)
  BY LastOfGrown DEF Positions
<1>3. IsFiniteSet(PricesOf(all, S))
  BY <1>1, <1>2, FS_Surjection
<1>4. \A i \in S : all[i].tick.price \in Int
  BY DEF Arrival, FeedTick
<1>. QED  BY <1>3, <1>4 DEF Positions, PricesOf

\* The volume of some arrivals.
Volume(all, s, S) == SumOf([i \in S |-> Gained(all, s, i)], S)

\* What BarOf stands for.
LEMMA BarIs ==
  ASSUME NEW all, NEW s, NEW end, NEW S, S = InWindow(all, s, end)
  PROVE  BarOf(all, s, end) =
           IF S = {} THEN NoBar
           ELSE [end |-> end, open |-> all[Min(S)].tick.price, high |-> Max(PricesOf(all, S)),
                 low |-> Min(PricesOf(all, S)), close |-> all[Max(S)].tick.price,
                 volume |-> Volume(all, s, S), warm |-> FALSE]
BY DEF BarOf, PricesOf, Volume

\* A bar stays as it is while no tick of its window joins.
LEMMA BarStays ==
  ASSUME NEW all, NEW e, NEW n, NEW more, Joins(all, e, n, more), NEW s, NEW end,
         ~ (Counts(e, s) /\ WindowEnd(e.tick.at) = end)
  PROVE  BarOf(more, s, end) = BarOf(all, s, end)
<1>1. n \in Nat /\ \A i \in 1 .. n : more[i] = all[i]
  BY DEF Joins
<1>2. PICK S : S = InWindow(all, s, end)
  OBVIOUS
<1>3. S \subseteq 1 .. n /\ InWindow(more, s, end) = S
  BY <1>2, WindowGrows
<1>4. PricesOf(more, S) = PricesOf(all, S)
  BY <1>1, <1>3 DEF PricesOf
<1>5. Volume(more, s, S) = Volume(all, s, S)
  <2>1. \A i \in S : Gained(more, s, i) = Gained(all, s, i)
    BY <1>3, GainStays
  <2>2. [i \in S |-> Gained(more, s, i)] = [i \in S |-> Gained(all, s, i)]
    BY <2>1
  <2>. QED  BY <2>2 DEF Volume
<1>6. S # {} => Max(S) \in 1 .. n /\ Min(S) \in 1 .. n
  BY <1>1, <1>3, LastOfGrown
<1>7. S # {} => more[Max(S)] = all[Max(S)] /\ more[Min(S)] = all[Min(S)]
  BY <1>1, <1>6
<1>8. PICK p, v : p = PricesOf(all, S) /\ v = Volume(all, s, S)
  OBVIOUS
<1>. DEFINE B(first, last) ==
       IF S = {} THEN NoBar
       ELSE [end |-> end, open |-> first.tick.price, high |-> Max(p), low |-> Min(p),
             close |-> last.tick.price, volume |-> v, warm |-> FALSE]
<1>9. BarOf(all, s, end) = B(all[Min(S)], all[Max(S)])
  BY <1>2, <1>8, BarIs
<1>10. BarOf(more, s, end) = B(more[Min(S)], more[Max(S)])
  BY <1>3, <1>4, <1>5, <1>8, BarIs
<1>11. B(more[Min(S)], more[Max(S)]) = B(all[Min(S)], all[Max(S)])
  BY <1>7
<1>. QED  BY <1>9, <1>10, <1>11

\* The first tick of a window opens its bar.
LEMMA BarStarts ==
  ASSUME NEW all, NEW e, NEW n, NEW more, Joins(all, e, n, more), NEW s, NEW end,
         Counts(e, s), WindowEnd(e.tick.at) = end, InWindow(all, s, end) = {},
         NEW g \in Int, g = Gained(more, s, n + 1)
  PROVE  BarOf(more, s, end) = OpenBar(e.tick, g)
<1>1. n + 1 \in Int /\ more[n + 1] = e
  BY DEF Joins
<1>2. PICK k : k = n + 1
  OBVIOUS
<1>3. InWindow(more, s, end) = {k}
  BY <1>2, WindowGrows
<1>4. PICK p \in Int : p = e.tick.price
  BY DEF Joins, Arrival, FeedTick
<1>5. PricesOf(more, {k}) = {} \cup {p}
  BY <1>1, <1>2, <1>4 DEF PricesOf
<1>6. /\ Max({} \cup {p}) = p /\ Min({} \cup {p}) = p
      /\ Max({} \cup {k}) = k /\ Min({} \cup {k}) = k
  <2>1. Positions({})
    BY FS_EmptySet DEF Positions
  <2>2. k \in Int
    BY <1>1, <1>2
  <2>. QED  BY <2>1, <2>2, JoinedExtremes
<1>7. {} \cup {k} = {k} /\ {k} # {}
  OBVIOUS
<1>8. Volume(more, s, {k}) = g
  <2>. DEFINE f == [i \in {k} |-> Gained(more, s, i)]
  <2>1. f[k] = g
    BY <1>2
  <2>2. SumOf(f, {k}) = f[k]
    <3>. HIDE DEF f
    <3>. QED  BY <2>1, SumSingle
  <2>. QED  BY <2>1, <2>2 DEF Volume
<1>9. BarOf(more, s, end) =
        [end |-> end, open |-> more[k].tick.price, high |-> p, low |-> p,
         close |-> more[k].tick.price, volume |-> g, warm |-> FALSE]
  <2>1. PICK S, P, v : S = {k} /\ P = PricesOf(more, S) /\ v = Volume(more, s, S)
    OBVIOUS
  <2>2. BarOf(more, s, end) =
          [end |-> end, open |-> more[Min(S)].tick.price, high |-> Max(P), low |-> Min(P),
           close |-> more[Max(S)].tick.price, volume |-> v, warm |-> FALSE]
    <3>1. S # {} /\ S = InWindow(more, s, end)
      BY <1>3, <2>1
    <3>. QED  BY <2>1, <3>1, BarIs
  <2>3. Max(S) = k /\ Min(S) = k /\ Max(P) = p /\ Min(P) = p /\ v = g
    BY <1>5, <1>6, <1>7, <1>8, <2>1
  <2>. QED  BY <2>2, <2>3
<1>10. e.tick.price = p /\ more[k].tick.price = p
  BY <1>1, <1>2, <1>4
<1>. QED  BY <1>9, <1>10 DEF OpenBar

\* A later one extends it.
LEMMA BarGrows ==
  ASSUME NEW all, NEW e, NEW n, NEW more, Joins(all, e, n, more), NEW s, NEW end,
         Counts(e, s), WindowEnd(e.tick.at) = end, InWindow(all, s, end) # {},
         NEW g \in Int, g = Gained(more, s, n + 1)
  PROVE  BarOf(more, s, end) = Extended(BarOf(all, s, end), e.tick, g)
<1>1. n \in Nat /\ more[n + 1] = e /\ \A i \in 1 .. n : more[i] = all[i] /\ all[i] \in Arrival
  BY DEF Joins
<1>2. PICK k : k = n + 1
  OBVIOUS
<1>3. PICK S : S = InWindow(all, s, end)
  OBVIOUS
<1>4. PICK U : U = S \cup {k}
  OBVIOUS
<1>5. S \subseteq 1 .. n /\ S # {} /\ U # {} /\ InWindow(more, s, end) = U
  BY <1>2, <1>3, <1>4, WindowGrows
<1>6. PICK p \in Int : p = e.tick.price
  BY DEF Joins, Arrival, FeedTick
<1>7. PricesOf(more, U) = PricesOf(all, S) \cup {p}
  BY <1>1, <1>2, <1>4, <1>5, <1>6 DEF PricesOf
<1>8. /\ Max(PricesOf(more, U)) = Max({Max(PricesOf(all, S)), p})
      /\ Min(PricesOf(more, U)) = Min({Min(PricesOf(all, S)), p})
  <2>1. Positions(PricesOf(all, S))
    BY <1>1, <1>5, PricesFinite
  <2>2. PricesOf(all, S) # {}
    BY <1>5 DEF PricesOf
  <2>3. PICK P : P = PricesOf(all, S)
    OBVIOUS
  <2>4. Max(P \cup {p}) = Max({Max(P), p}) /\ Min(P \cup {p}) = Min({Min(P), p})
    BY <2>1, <2>2, <2>3, JoinedExtremes
  <2>. QED  BY <1>7, <2>3, <2>4
<1>9. Max(U) = k /\ Min(U) = Min(S) /\ Min(S) \in 1 .. n
  BY <1>1, <1>2, <1>4, <1>5, LastOfGrown
<1>10. Volume(more, s, U) = Volume(all, s, S) + g
  <2>. DEFINE f == [i \in U |-> Gained(more, s, i)]
              h == [i \in S |-> Gained(all, s, i)]
  <2>1. \A i \in S : h[i] \in Int /\ f[i] = h[i]
    BY <1>4, <1>5, GainStays
  <2>2. f[k] = g /\ k \notin S /\ IsFiniteSet(S)
    BY <1>1, <1>2, <1>4, <1>5, LastOfGrown DEF Positions
  <2>3. Volume(more, s, U) = SumOf(f, U) /\ Volume(all, s, S) = SumOf(h, S)
    BY DEF Volume
  <2>. HIDE DEF f, h
  <2>4. SumOf(f, S) = SumOf(h, S)
    BY <2>1, <2>2, SumSame
  <2>5. \A i \in S : f[i] \in Int
    BY <2>1
  <2>6. SumOf(f, S \cup {k}) = SumOf(f, S) + f[k]
    BY <2>2, <2>5, SumAdd
  <2>. QED  BY <1>4, <2>2, <2>3, <2>4, <2>6
<1>11. PICK high, low, volume : /\ high = Max(PricesOf(all, S)) /\ low = Min(PricesOf(all, S))
                                /\ volume = Volume(all, s, S)
  OBVIOUS
<1>12. BarOf(more, s, end) =
        [end |-> end, open |-> more[Min(S)].tick.price, high |-> Max({high, p}),
         low |-> Min({low, p}), close |-> more[k].tick.price, volume |-> volume + g,
         warm |-> FALSE]
  BY <1>5, <1>8, <1>9, <1>10, <1>11, BarIs
<1>13. BarOf(all, s, end) =
        [end |-> end, open |-> all[Min(S)].tick.price, high |-> high, low |-> low,
         close |-> all[Max(S)].tick.price, volume |-> volume, warm |-> FALSE]
  BY <1>3, <1>5, <1>11, BarIs
<1>14. more[Min(S)] = all[Min(S)] /\ more[k] = e
  BY <1>1, <1>2, <1>9
<1>15. PICK bar : bar = BarOf(all, s, end)
  OBVIOUS
<1>16. Extended(bar, e.tick, g) =
        [end |-> end, open |-> all[Min(S)].tick.price, high |-> Max({high, p}),
         low |-> Min({low, p}), close |-> p, volume |-> volume + g, warm |-> FALSE]
  <2>1. PICK first, last : first = all[Min(S)].tick.price /\ last = all[Max(S)].tick.price
    OBVIOUS
  <2>2. bar = [end |-> end, open |-> first, high |-> high, low |-> low, close |-> last,
               volume |-> volume, warm |-> FALSE]
    BY <1>13, <1>15, <2>1
  <2>3. Extended(bar, e.tick, g) =
          [bar EXCEPT !.high = Max({bar.high, p}), !.low = Min({bar.low, p}), !.close = p,
                      !.volume = bar.volume + g]
    BY <1>6 DEF Extended
  <2>. QED  BY <2>1, <2>2, <2>3
<1>17. more[Min(S)].tick.price = all[Min(S)].tick.price /\ more[k].tick.price = p
  BY <1>6, <1>14
<1>. QED  BY <1>12, <1>15, <1>16, <1>17

\* The aggregator remembers the last tick it took.
Remembers(all, s, b) ==
  LET taken == Taken(all, s)
  IN IF taken = {} THEN b.volume = -1 /\ b.observed = -1
     ELSE b.volume = all[Max(taken)].tick.volume /\ b.observed = all[Max(taken)].tick.at

\* What it adds to the volume is what the property says the tick adds.
LEMMA GainIs ==
  ASSUME NEW all, NEW e, NEW n, NEW more, Joins(all, e, n, more), NEW s,
         Counts(e, s), NEW b, Remembers(all, s, b)
  PROVE  VolumeDelta(b, e.tick) \in Int /\ Gained(more, s, n + 1) = VolumeDelta(b, e.tick)
<1>1. n \in Nat /\ more[n + 1] = e /\ \A i \in 1 .. n : more[i] = all[i] /\ all[i] \in Arrival
  BY DEF Joins
<1>2. PICK k : k = n + 1
  OBVIOUS
<1>3. PICK S : S = Taken(all, s)
  OBVIOUS
<1>4. S \subseteq 1 .. n /\ Taken(more, s) = S \cup {k}
  BY <1>2, <1>3, PositionsGrow
<1>5. Earlier(more, s, k) = S
  <2>1. \A j \in S : j < k
    BY <1>1, <1>2, <1>4
  <2>2. ~ (k < k)
    BY <1>1, <1>2
  <2>. QED  BY <1>4, <2>1, <2>2 DEF Earlier
<1>6. PICK t : t = e.tick
  OBVIOUS
<1>7. t.volume \in Nat /\ t.at \in Nat /\ more[k].tick = t
  BY <1>1, <1>2, <1>6 DEF Joins, Arrival, FeedTick
<1>8. CASE S = {}
  <2>1. b.volume = -1
    BY <1>3, <1>8 DEF Remembers
  <2>2. Gained(more, s, k) = 0
    BY <1>5, <1>8 DEF Gained, Earlier
  <2>. QED  BY <1>2, <1>6, <2>1, <2>2 DEF VolumeDelta
<1>9. CASE S # {}
  <2>1. Max(S) \in 1 .. n
    BY <1>1, <1>4, <1>9, LastEarlier
  <2>2. PICK l : l = all[Max(S)].tick
    OBVIOUS
  <2>3. l.volume \in Nat /\ l.at \in Nat /\ more[Max(S)].tick = l
    BY <1>1, <2>1, <2>2 DEF Arrival, FeedTick
  <2>4. b.volume = l.volume /\ b.observed = l.at
    BY <1>3, <1>9, <2>2 DEF Remembers
  <2>5. Gained(more, s, k) = IF DateOf(t.at) # DateOf(l.at) THEN 0
                             ELSE Max({0, t.volume - l.volume})
    BY <1>5, <1>7, <1>9, <2>3 DEF Gained, Earlier
  <2>6. VolumeDelta(b, t) = IF t.volume < l.volume \/ DateOf(t.at) # DateOf(l.at) THEN 0
                            ELSE t.volume - l.volume
    <3>1. l.volume # -1 /\ l.at # -1
      BY <2>3
    <3>. QED  BY <2>4, <3>1 DEF VolumeDelta
  <2>7. PICK v \in Int : v = t.volume - l.volume
    BY <1>7, <2>3
  <2>8. t.volume < l.volume <=> v < 0
    BY <1>7, <2>3, <2>7
  <2>9. Max({0, v}) = IF v < 0 THEN 0 ELSE v
    <3>1. 0 \in Int
      OBVIOUS
    <3>2. PICK w : w = Max({0, v})
      OBVIOUS
    <3>3. w \in {0, v} /\ w >= 0 /\ w >= v
      BY <3>1, <3>2, OfPair
    <3>. QED  BY <3>2, <3>3
  <2>. QED  BY <1>2, <1>6, <2>5, <2>6, <2>7, <2>8, <2>9
<1>. QED  BY <1>8, <1>9

-----------------------------------------------------------------------------
(* The aggregator of one symbol.                                           *)

FeedBar ==
  [end : Int, open : Int, high : Int, low : Int, close : Int, volume : Int, warm : BOOLEAN]

\* No tick taken later can fall into a window that ends here.
Past(b, end) == end <= b.sealed \/ end <= b.observed

\* A closed bar is the provider's, or it is what the ticks of its window say for good.
Told(all, s, b, bar) ==
  bar \in FeedBar /\ (~bar.warm => bar = BarOf(all, s, bar.end) /\ Past(b, bar.end))

BarsShaped(b) ==
  /\ b = [closed |-> b.closed, forming |-> b.forming, volume |-> b.volume,
          observed |-> b.observed, sealed |-> b.sealed]
  /\ b.closed \in Seq(FeedBar) /\ b.observed \in Int /\ b.sealed \in Int

ClosedTell(all, s, b) == \A k \in DOMAIN b.closed : Told(all, s, b, b.closed[k])

\* The forming bar is that of the last tick taken; without one that tick's window is sealed.
FormingTells(all, s, b) ==
  IF b.forming = NoBar
  THEN Taken(all, s) # {} => WindowEnd(b.observed) <= b.sealed
  ELSE /\ Taken(all, s) # {}
       /\ b.forming \in FeedBar /\ b.forming.end = WindowEnd(b.observed)
       /\ b.forming = BarOf(all, s, b.forming.end)

Tells(all, s, b) ==
  BarsShaped(b) /\ Remembers(all, s, b) /\ ClosedTell(all, s, b) /\ FormingTells(all, s, b)

\* The ticks taken are positions, and the last one is the one remembered.
LEMMA Remembered ==
  ASSUME NEW all \in Seq(Arrival), NEW s, NEW b, Remembers(all, s, b), Taken(all, s) # {}
  PROVE  /\ Max(Taken(all, s)) \in Taken(all, s) /\ Max(Taken(all, s)) \in 1 .. Len(all)
         /\ all[Max(Taken(all, s))] \in Arrival
         /\ b.observed = all[Max(Taken(all, s))].tick.at /\ b.observed \in Nat
         /\ \A i \in Taken(all, s) : i \in 1 .. Len(all) /\ i <= Max(Taken(all, s))
<1>1. PICK S : S = Taken(all, s)
  OBVIOUS
<1>2. Len(all) \in Nat /\ DOMAIN all = 1 .. Len(all)
  BY LenProperties
<1>3. S \subseteq 1 .. Len(all) /\ S # {}
  BY <1>1, <1>2 DEF Taken, TicksOf
<1>4. Max(S) \in S /\ \A i \in S : i <= Max(S)
  BY <1>2, <1>3, LastOfGrown
<1>5. Max(S) \in 1 .. Len(all)
  BY <1>3, <1>4
<1>6. all[Max(S)] \in Arrival
  BY <1>5, ElementOfSeq
<1>7. b.observed = all[Max(S)].tick.at
  BY <1>1, <1>3 DEF Remembers
<1>8. b.observed \in Nat
  BY <1>6, <1>7 DEF Arrival, FeedTick
<1>. QED  BY <1>1, <1>3, <1>4, <1>5, <1>6, <1>7, <1>8

\* An arrival that is not taken changes nothing that the bars say.
LEMMA UntakenKeeps ==
  ASSUME NEW all \in Seq(Arrival), NEW e, NEW n, NEW more, Joins(all, e, n, more), NEW s,
         ~Counts(e, s), NEW b, Tells(all, s, b)
  PROVE  Tells(more, s, b)
<1>1. Taken(more, s) = Taken(all, s)
  <2>1. {i \in {n + 1} : Counts(e, s)} = {}
    OBVIOUS
  <2>2. Taken(more, s) = Taken(all, s) \cup {i \in {n + 1} : Counts(e, s)}
    BY PositionsGrow
  <2>. QED  BY <2>1, <2>2
<1>2. \A end : BarOf(more, s, end) = BarOf(all, s, end)
  BY BarStays
<1>3. BarsShaped(b) /\ Remembers(all, s, b) /\ ClosedTell(all, s, b) /\ FormingTells(all, s, b)
  BY DEF Tells
<1>4. Remembers(more, s, b)
  <2>1. CASE Taken(all, s) = {}
    BY <1>1, <1>3, <2>1 DEF Remembers
  <2>2. CASE Taken(all, s) # {}
    <3>1. PICK m : m = Max(Taken(all, s))
      OBVIOUS
    <3>2. m \in 1 .. Len(all) /\ DOMAIN all = 1 .. Len(all)
      BY <1>3, <2>2, <3>1, Remembered, LenProperties
    <3>3. more[m] = all[m]
      BY <3>2 DEF Joins
    <3>. QED  BY <1>1, <1>3, <3>1, <3>3 DEF Remembers
  <2>. QED  BY <2>1, <2>2
<1>5. ClosedTell(more, s, b)
  BY <1>2, <1>3 DEF ClosedTell, Told
<1>6. FormingTells(more, s, b)
  BY <1>1, <1>2, <1>3 DEF FormingTells
<1>. QED  BY <1>3, <1>4, <1>5, <1>6 DEF Tells

\* The last bars of a series are some of its bars.
LEMMA LastBarsOf ==
  ASSUME NEW series \in Seq(FeedBar)
  PROVE  /\ LastBars(series) \in Seq(FeedBar)
         /\ \A k \in DOMAIN LastBars(series) :
              \E j \in DOMAIN series : LastBars(series)[k] = series[j]
<1>1. PICK n \in Nat : n = Len(series) /\ DOMAIN series = 1 .. n
  BY LenProperties
<1>2. PICK x \in Int : x = n - MaxBars + 1
  BY FeedAssumption
<1>3. PICK m \in Int : m = Max({1, x}) /\ m >= 1
  <2>1. 1 \in Int
    OBVIOUS
  <2>. QED  BY <2>1, OfPair
<1>4. LastBars(series) = SubSeq(series, m, n)
  BY <1>1, <1>2, <1>3 DEF LastBars
<1>5. \A i \in m .. n : i \in 1 .. n /\ series[i] \in FeedBar
  <2>1. \A i \in m .. n : i \in 1 .. n
    BY <1>3
  <2>. QED  BY <1>1, <2>1, ElementOfSeq
<1>. HIDE DEF FeedBar
<1>6. PICK q : q = SubSeq(series, m, n)
  OBVIOUS
<1>7. /\ q \in Seq(FeedBar)
      /\ Len(q) = IF m <= n THEN n - m + 1 ELSE 0
      /\ \A i \in 1 .. n - m + 1 : q[i] = series[m + i - 1]
  <2>1. \A i \in m .. n : series[i] \in FeedBar
    BY <1>5
  <2>2. n \in Int
    OBVIOUS
  <2>3. /\ SubSeq(series, m, n) \in Seq(FeedBar)
        /\ Len(SubSeq(series, m, n)) = IF m <= n THEN n - m + 1 ELSE 0
        /\ \A i \in 1 .. n - m + 1 : SubSeq(series, m, n)[i] = series[m + i - 1]
    BY <2>1, <2>2, SubSeqProperties
  <2>. QED  BY <1>6, <2>3
<1>8. DOMAIN q = 1 .. Len(q)
  BY <1>7, LenProperties
<1>9. ASSUME NEW k \in DOMAIN q PROVE \E j \in DOMAIN series : q[k] = series[j]
  <2>1. k \in 1 .. n - m + 1
    BY <1>7, <1>8
  <2>2. m + k - 1 \in m .. n
    BY <2>1
  <2>. QED  BY <1>1, <1>5, <1>7, <2>1, <2>2
<1>. QED  BY <1>4, <1>6, <1>7, <1>9

\* Closing the forming bar puts it behind the closed ones.
LEMMA ClosedBars ==
  ASSUME NEW b, BarsShaped(b), b.forming \in FeedBar
  PROVE  /\ Closed(b) = [closed |-> Closed(b).closed, forming |-> NoBar, volume |-> b.volume,
                         observed |-> b.observed, sealed |-> b.sealed]
         /\ Closed(b).closed \in Seq(FeedBar)
         /\ \A k \in DOMAIN Closed(b).closed :
              \/ Closed(b).closed[k] = b.forming
              \/ \E j \in DOMAIN b.closed : Closed(b).closed[k] = b.closed[j]
<1>1. PICK c, f, v, o, z : b = [closed |-> c, forming |-> f, volume |-> v, observed |-> o,
                                sealed |-> z]
  BY DEF BarsShaped
<1>2. c \in Seq(FeedBar) /\ f \in FeedBar
  BY <1>1 DEF BarsShaped
<1>. HIDE DEF FeedBar
<1>3. PICK q : q = Append(c, f)
  OBVIOUS
<1>4. /\ q \in Seq(FeedBar) /\ Len(q) = Len(c) + 1 /\ q[Len(c) + 1] = f
      /\ \A i \in 1 .. Len(c) : q[i] = c[i]
  BY <1>2, <1>3, AppendProperties
<1>5. DOMAIN q = 1 .. Len(q) /\ DOMAIN c = 1 .. Len(c) /\ Len(c) \in Nat
  BY <1>2, <1>4, LenProperties
<1>6. \A j \in DOMAIN q : j \in DOMAIN c \/ j = Len(c) + 1
  BY <1>4, <1>5
<1>7. PICK l : l = LastBars(q)
  OBVIOUS
<1>8. l \in Seq(FeedBar) /\ \A k \in DOMAIN l : \E j \in DOMAIN q : l[k] = q[j]
  BY <1>4, <1>7, LastBarsOf
<1>9. \A k \in DOMAIN l : l[k] = f \/ \E j \in DOMAIN c : l[k] = c[j]
  BY <1>4, <1>5, <1>6, <1>8
<1>10. Closed(b) = [closed |-> l, forming |-> NoBar, volume |-> v, observed |-> o, sealed |-> z]
  <2>1. Closed(b) = [b EXCEPT !.closed = LastBars(Append(b.closed, b.forming)),
                              !.forming = NoBar]
    BY DEF Closed
  <2>2. LastBars(Append(b.closed, b.forming)) = l
    BY <1>1, <1>3, <1>7
  <2>. QED  BY <1>1, <2>1, <2>2
<1>. QED  BY <1>1, <1>8, <1>9, <1>10

\* Sealing more keeps what the bars say.
LEMMA SealKeeps ==
  ASSUME NEW all, NEW s, NEW b, Tells(all, s, b), NEW m \in Int, m >= b.sealed
  PROVE  Tells(all, s, [b EXCEPT !.sealed = m])
<1>1. BarsShaped(b) /\ Remembers(all, s, b) /\ ClosedTell(all, s, b) /\ FormingTells(all, s, b)
  BY DEF Tells
<1>2. PICK d : d = [b EXCEPT !.sealed = m]
  OBVIOUS
<1>3. /\ d = [closed |-> b.closed, forming |-> b.forming, volume |-> b.volume,
              observed |-> b.observed, sealed |-> m]
  BY <1>1, <1>2 DEF BarsShaped
<1>4. /\ d.closed = b.closed /\ d.forming = b.forming /\ d.volume = b.volume
      /\ d.observed = b.observed /\ d.sealed = m
  BY <1>3
<1>5. BarsShaped(d)
  BY <1>1, <1>3, <1>4 DEF BarsShaped
<1>6. Remembers(all, s, d)
  BY <1>1, <1>4 DEF Remembers
<1>7. \A end \in Int : Past(b, end) => Past(d, end)
  BY <1>1, <1>4 DEF Past, BarsShaped
<1>8. ClosedTell(all, s, d)
  <2>1. \A bar : Told(all, s, b, bar) => Told(all, s, d, bar)
    <3>1. \A bar \in FeedBar : bar.end \in Int
      BY DEF FeedBar
    <3>. QED  BY <1>7, <3>1 DEF Told
  <2>. QED  BY <1>1, <1>4, <2>1 DEF ClosedTell
<1>9. FormingTells(all, s, d)
  <2>1. CASE b.forming # NoBar
    BY <1>1, <1>4, <2>1 DEF FormingTells
  <2>2. CASE b.forming = NoBar /\ Taken(all, s) = {}
    BY <1>4, <2>2 DEF FormingTells
  <2>3. CASE b.forming = NoBar /\ WindowEnd(b.observed) <= b.sealed
    <3>1. BarLength \in Int /\ b.observed \in Int /\ b.sealed \in Int
      BY <1>1, FeedAssumption DEF BarsShaped
    <3>2. WindowEnd(b.observed) \in Int
      BY <3>1, FeedAssumption DEF WindowEnd, WindowStart
    <3>3. WindowEnd(b.observed) <= m
      BY <2>3, <3>1, <3>2
    <3>. QED  BY <1>4, <2>3, <3>3 DEF FormingTells
  <2>. QED  BY <1>1, <2>1, <2>2, <2>3 DEF FormingTells
<1>. QED  BY <1>2, <1>5, <1>6, <1>8, <1>9 DEF Tells

\* A bar whose window is sealed closes for good.
LEMMA CloseKeeps ==
  ASSUME NEW all, NEW s, NEW b, Tells(all, s, b), b.forming # NoBar,
         b.forming.end <= b.sealed
  PROVE  Tells(all, s, Closed(b))
<1>1. BarsShaped(b) /\ Remembers(all, s, b) /\ ClosedTell(all, s, b) /\ FormingTells(all, s, b)
  BY DEF Tells
<1>2. /\ Taken(all, s) # {} /\ b.forming \in FeedBar
      /\ b.forming.end = WindowEnd(b.observed) /\ b.forming = BarOf(all, s, b.forming.end)
  BY <1>1 DEF FormingTells
<1>3. PICK d : d = Closed(b)
  OBVIOUS
<1>4. /\ d = [closed |-> d.closed, forming |-> NoBar, volume |-> b.volume,
              observed |-> b.observed, sealed |-> b.sealed]
      /\ d.closed \in Seq(FeedBar)
      /\ \A k \in DOMAIN d.closed : \/ d.closed[k] = b.forming
                                    \/ \E j \in DOMAIN b.closed : d.closed[k] = b.closed[j]
  BY <1>1, <1>2, <1>3, ClosedBars
<1>5. /\ d.forming = NoBar /\ d.volume = b.volume /\ d.observed = b.observed
      /\ d.sealed = b.sealed
  BY <1>4
<1>6. BarsShaped(d) /\ Remembers(all, s, d)
  BY <1>1, <1>4, <1>5 DEF BarsShaped, Remembers
<1>7. \A bar : Told(all, s, b, bar) => Told(all, s, d, bar)
  BY <1>5 DEF Told, Past
<1>8. Told(all, s, d, b.forming)
  BY <1>2, <1>5 DEF Told, Past
<1>9. ClosedTell(all, s, d)
  BY <1>1, <1>4, <1>7, <1>8 DEF ClosedTell
<1>10. FormingTells(all, s, d)
  BY <1>2, <1>5 DEF FormingTells
<1>. QED  BY <1>3, <1>6, <1>9, <1>10 DEF Tells

\* _roll keeps what the bars say.
LEMMA RollKeeps ==
  ASSUME NEW all \in Seq(Arrival), NEW s, NEW b, Tells(all, s, b), NEW now \in Nat
  PROVE  Tells(all, s, Rolled(b, now))
<1>1. BarsShaped(b) /\ Remembers(all, s, b) /\ FormingTells(all, s, b)
  BY DEF Tells
<1>2. PICK x \in Int : x = WindowStart(now)
  BY WindowsInOrder
<1>3. PICK m \in Int : m = Max({b.sealed, x}) /\ m >= b.sealed /\ m >= x
  BY <1>1, OfPair DEF BarsShaped
<1>4. PICK d : d = [b EXCEPT !.sealed = m]
  OBVIOUS
<1>5. Tells(all, s, d)
  BY <1>3, <1>4, SealKeeps
<1>6. d.forming = b.forming /\ d.sealed = m
  <2>1. d = [closed |-> b.closed, forming |-> b.forming, volume |-> b.volume,
             observed |-> b.observed, sealed |-> m]
    BY <1>1, <1>4 DEF BarsShaped
  <2>. QED  BY <2>1
<1>7. Rolled(b, now) = IF b.forming # NoBar /\ b.forming.end <= now THEN Closed(d) ELSE d
  <2>1. [b EXCEPT !.sealed = Max({@, WindowStart(now)})] = d
    BY <1>2, <1>3, <1>4
  <2>. QED  BY <2>1 DEF Rolled
<1>8. CASE b.forming # NoBar /\ b.forming.end <= now
  <2>1. b.forming.end = WindowEnd(b.observed) /\ Taken(all, s) # {}
    BY <1>1, <1>8 DEF FormingTells
  <2>2. b.observed \in Nat
    BY <1>1, <2>1, Remembered
  <2>3. WindowEnd(b.observed) <= WindowStart(now)
    BY <1>8, <2>1, <2>2, WindowOver
  <2>4. WindowEnd(b.observed) \in Int
    BY <2>2, WindowsInOrder
  <2>5. b.forming.end <= m
    BY <1>2, <1>3, <2>1, <2>3, <2>4
  <2>6. d.forming # NoBar /\ d.forming.end <= d.sealed
    BY <1>6, <1>8, <2>5
  <2>. QED  BY <1>5, <1>7, <1>8, <2>6, CloseKeeps
<1>9. CASE ~ (b.forming # NoBar /\ b.forming.end <= now)
  BY <1>5, <1>7, <1>9
<1>. QED  BY <1>8, <1>9

\* The ticks of a symbol come in the order of their moments.
InOrder(all) ==
  \A i, j \in DOMAIN all :
    i < j /\ all[i].tick.symbol = all[j].tick.symbol => all[i].tick.at <= all[j].tick.at

\* The windows of the ticks taken end with the one remembered or earlier.
LEMMA WindowsTaken ==
  ASSUME NEW all \in Seq(Arrival), InOrder(all), NEW s, NEW b, Remembers(all, s, b),
         NEW i \in Taken(all, s)
  PROVE  /\ b.observed \in Nat /\ WindowEnd(b.observed) \in Int
         /\ WindowEnd(all[i].tick.at) \in Int
         /\ WindowEnd(all[i].tick.at) <= WindowEnd(b.observed)
<1>1. PICK m : m = Max(Taken(all, s))
  OBVIOUS
<1>2. /\ m \in Taken(all, s) /\ b.observed = all[m].tick.at /\ b.observed \in Nat
      /\ i \in 1 .. Len(all) /\ m \in 1 .. Len(all) /\ i <= m
  BY <1>1, Remembered
<1>3. DOMAIN all = 1 .. Len(all) /\ Len(all) \in Nat /\ all[i] \in Arrival
  BY <1>2, LenProperties, ElementOfSeq
<1>4. PICK u \in Nat : u = all[i].tick.at
  BY <1>3 DEF Arrival, FeedTick
<1>5. all[i].tick.symbol = all[m].tick.symbol
  BY <1>2 DEF Taken, TicksOf
<1>6. u <= b.observed
  <2>1. CASE i = m
    BY <1>2, <1>4, <2>1
  <2>2. CASE i < m
    BY <1>2, <1>3, <1>4, <1>5, <2>2 DEF InOrder
  <2>. QED  BY <1>2, <1>3, <2>1, <2>2
<1>7. PICK o \in Nat : o = b.observed
  BY <1>2
<1>8. WindowEnd(u) = WindowEnd(o) \/ WindowEnd(u) <= WindowStart(o)
  BY <1>6, <1>7, WindowsInOrder
<1>9. /\ WindowStart(o) \in Int /\ WindowEnd(o) \in Int /\ WindowStart(o) <= o
      /\ o < WindowEnd(o)
  BY WindowsInOrder
<1>10. WindowEnd(u) \in Int
  BY WindowsInOrder
<1>11. WindowEnd(u) <= WindowEnd(o)
  BY <1>8, <1>9, <1>10
<1>. QED  BY <1>4, <1>7, <1>9, <1>10, <1>11

\* A tick that is taken: the bars say afterwards what the ticks with it say.
LEMMA TakenKeeps ==
  ASSUME NEW all \in Seq(Arrival), NEW e, NEW n, NEW more, Joins(all, e, n, more),
         InOrder(all), NEW s, Counts(e, s), NEW b, Tells(all, s, b), e.sealed = b.sealed,
         b.observed <= e.tick.at
  PROVE  Tells(more, s, Ingested(b, e.tick))
<1>1. BarsShaped(b) /\ Remembers(all, s, b) /\ ClosedTell(all, s, b) /\ FormingTells(all, s, b)
  BY DEF Tells
<1>2. PICK t : t = e.tick
  OBVIOUS
<1>3. t.at \in Nat /\ t.price \in Int /\ t.volume \in Nat
  BY <1>2 DEF Joins, Arrival, FeedTick
<1>4. b.sealed <= t.at /\ b.observed <= t.at /\ b.sealed \in Int /\ b.observed \in Int
  BY <1>1, <1>2 DEF Counts, BarsShaped
<1>5. PICK u \in Int, w \in Int :
        u = WindowStart(t.at) /\ w = WindowEnd(t.at) /\ u <= t.at /\ t.at < w
  BY <1>3, WindowsInOrder
<1>6. PICK g \in Int : g = VolumeDelta(b, t) /\ g = Gained(more, s, n + 1)
  BY <1>1, <1>2, GainIs
<1>7. \A end : end # w => BarOf(more, s, end) = BarOf(all, s, end)
  BY <1>2, <1>5, BarStays
<1>8. \A end \in Int : Past(b, end) => end <= t.at /\ end # w
  BY <1>3, <1>4, <1>5 DEF Past
<1>9. PICK later \in BOOLEAN : later = (b.forming # NoBar /\ b.forming.end <= u)
  OBVIOUS
<1>10. PICK opens \in BOOLEAN : opens = (b.forming = NoBar \/ later)
  OBVIOUS
<1>11. b.forming # NoBar =>
          /\ Taken(all, s) # {} /\ b.forming \in FeedBar /\ b.observed \in Nat
          /\ b.forming.end = WindowEnd(b.observed) /\ b.forming.end \in Int
          /\ b.forming = BarOf(all, s, b.forming.end)
  <2>1. b.forming # NoBar =>
          /\ Taken(all, s) # {} /\ b.forming \in FeedBar
          /\ b.forming.end = WindowEnd(b.observed)
          /\ b.forming = BarOf(all, s, b.forming.end)
    BY <1>1 DEF FormingTells
  <2>2. \A bar \in FeedBar : bar.end \in Int
    BY DEF FeedBar
  <2>3. Taken(all, s) # {} => b.observed \in Nat
    BY <1>1, Remembered
  <2>. QED  BY <2>1, <2>2, <2>3
<1>12. PICK f : f = IF opens THEN OpenBar(t, g) ELSE Extended(b.forming, t, g)
  OBVIOUS
<1>13. opens => InWindow(all, s, w) = {}
  <2>. SUFFICES ASSUME opens, NEW i \in InWindow(all, s, w) PROVE FALSE
    OBVIOUS
  <2>1. i \in Taken(all, s) /\ WindowEnd(all[i].tick.at) = w
    BY DEF InWindow
  <2>2. /\ WindowEnd(all[i].tick.at) <= WindowEnd(b.observed) /\ WindowEnd(b.observed) \in Int
        /\ Taken(all, s) # {}
    BY <1>1, <2>1, WindowsTaken
  <2>3. WindowEnd(b.observed) <= t.at
    <3>1. CASE b.forming = NoBar
      <4>1. WindowEnd(b.observed) <= b.sealed
        BY <1>1, <2>2, <3>1 DEF FormingTells
      <4>. QED  BY <1>3, <1>4, <2>2, <4>1
    <3>2. CASE later
      <4>1. WindowEnd(b.observed) <= u
        BY <1>9, <1>11, <3>2
      <4>. QED  BY <1>3, <1>5, <2>2, <4>1
    <3>. QED  BY <1>10, <3>1, <3>2
  <2>. QED  BY <1>3, <1>5, <2>1, <2>2, <2>3
<1>14. ~opens => b.forming.end = w /\ InWindow(all, s, w) # {}
  <2>. SUFFICES ASSUME ~opens PROVE b.forming.end = w /\ InWindow(all, s, w) # {}
    OBVIOUS
  <2>1. b.forming # NoBar /\ ~ (b.forming.end <= u)
    BY <1>9, <1>10
  <2>2. PICK o \in Nat : o = b.observed
    BY <1>11, <2>1
  <2>3. WindowEnd(o) = WindowEnd(t.at) \/ WindowEnd(o) <= WindowStart(t.at)
    BY <1>3, <1>4, <2>2, WindowsInOrder
  <2>4. b.forming.end = w
    BY <1>5, <1>11, <2>1, <2>2, <2>3
  <2>5. PICK m : m = Max(Taken(all, s))
    OBVIOUS
  <2>6. m \in Taken(all, s) /\ b.observed = all[m].tick.at
    BY <1>1, <1>11, <2>1, <2>5, Remembered
  <2>7. m \in InWindow(all, s, w)
    BY <1>11, <2>1, <2>4, <2>6 DEF InWindow
  <2>. QED  BY <2>4, <2>7
<1>15. f = BarOf(more, s, w)
  <2>1. CASE opens
    <3>1. BarOf(more, s, w) = OpenBar(e.tick, g)
      BY <1>2, <1>5, <1>6, <1>13, <2>1, BarStarts
    <3>. QED  BY <1>2, <1>12, <2>1, <3>1
  <2>2. CASE ~opens
    <3>1. BarOf(more, s, w) = Extended(BarOf(all, s, w), e.tick, g)
      <4>1. WindowEnd(e.tick.at) = w /\ g = Gained(more, s, n + 1)
        BY <1>2, <1>5, <1>6
      <4>2. InWindow(all, s, w) # {}
        BY <1>14, <2>2
      <4>3. Joins(all, e, n, more) /\ Counts(e, s) /\ g \in Int
        OBVIOUS
      <4>. QED  BY ONLY <4>1, <4>2, <4>3, BarGrows
    <3>2. BarOf(all, s, w) = b.forming
      BY <1>9, <1>10, <1>11, <1>14, <2>2
    <3>. QED  BY <1>2, <1>12, <2>2, <3>1, <3>2
  <2>. QED  BY <2>1, <2>2
<1>16. f \in FeedBar /\ f.end = w
  <2>1. CASE opens
    <3>1. f = [end |-> w, open |-> t.price, high |-> t.price, low |-> t.price,
               close |-> t.price, volume |-> g, warm |-> FALSE]
      BY <1>5, <1>12, <2>1 DEF OpenBar
    <3>. QED  BY <1>3, <3>1 DEF FeedBar
  <2>2. CASE ~opens
    <3>1. b.forming \in FeedBar
      BY <1>9, <1>10, <1>11, <2>2
    <3>2. PICK h \in Int, l \in Int, v \in Int :
            /\ h = Max({b.forming.high, t.price}) /\ l = Min({b.forming.low, t.price})
            /\ v = b.forming.volume + g
      <4>1. b.forming.high \in Int /\ b.forming.low \in Int /\ b.forming.volume \in Int
        BY <3>1 DEF FeedBar
      <4>2. PICK x \in Int, y \in Int, z \in Int :
              x = b.forming.high /\ y = b.forming.low /\ z = t.price
        BY <1>3, <4>1
      <4>3. Max({x, z}) \in Int
        BY OfPair
      <4>4. Min({y, z}) \in Int
        BY OfPair
      <4>5. b.forming.volume + g \in Int
        BY <4>1
      <4>. QED  BY <4>2, <4>3, <4>4, <4>5
    <3>3. f = [b.forming EXCEPT !.high = h, !.low = l, !.close = t.price, !.volume = v]
      BY <1>12, <2>2, <3>2 DEF Extended
    <3>. QED  BY <1>3, <1>14, <2>2, <3>1, <3>3 DEF FeedBar
  <2>. QED  BY <2>1, <2>2
<1>17. f # NoBar
  BY <1>3, <1>5, <1>16 DEF NoBar
<1>18. PICK c : c = IF later THEN Closed(b).closed ELSE b.closed
  OBVIOUS
<1>19. PICK d : d = [closed |-> c, forming |-> f, volume |-> t.volume, observed |-> t.at,
                     sealed |-> b.sealed]
  OBVIOUS
<1>20. /\ d.closed = c /\ d.forming = f /\ d.volume = t.volume /\ d.observed = t.at
       /\ d.sealed = b.sealed
  BY <1>19
<1>21. /\ c \in Seq(FeedBar)
       /\ \A k \in DOMAIN c : \/ later /\ c[k] = b.forming
                              \/ \E j \in DOMAIN b.closed : c[k] = b.closed[j]
  <2>1. CASE later
    BY <1>1, <1>9, <1>11, <1>18, <2>1, ClosedBars
  <2>2. CASE ~later
    BY <1>1, <1>18, <2>2 DEF BarsShaped
  <2>. QED  BY <2>1, <2>2
<1>22. \A end \in Int : Past(b, end) => Past(d, end)
  BY <1>8, <1>20 DEF Past
<1>23. \A bar : Told(all, s, b, bar) => Told(more, s, d, bar)
  <2>1. \A bar \in FeedBar : bar.end \in Int
    BY DEF FeedBar
  <2>. QED  BY <1>7, <1>8, <1>22, <2>1 DEF Told
<1>24. later => Told(more, s, d, b.forming)
  <2>. SUFFICES ASSUME later PROVE Told(more, s, d, b.forming)
    OBVIOUS
  <2>1. /\ b.forming.end <= u /\ b.forming.end \in Int /\ b.forming \in FeedBar
        /\ b.forming = BarOf(all, s, b.forming.end)
    BY <1>9, <1>11
  <2>2. b.forming.end # w /\ b.forming.end <= t.at
    BY <1>3, <1>5, <2>1
  <2>. QED  BY <1>7, <1>20, <2>1, <2>2 DEF Told, Past
<1>25. ClosedTell(more, s, d)
  BY <1>1, <1>20, <1>21, <1>23, <1>24 DEF ClosedTell
<1>26. BarsShaped(d)
  BY <1>3, <1>4, <1>19, <1>20, <1>21 DEF BarsShaped
<1>27. Max(Taken(more, s)) = n + 1 /\ Taken(more, s) # {} /\ more[n + 1] = e
  <2>1. n \in Nat /\ more[n + 1] = e
    BY DEF Joins
  <2>2. Taken(all, s) \subseteq 1 .. n /\ Taken(more, s) = Taken(all, s) \cup {n + 1}
    BY PositionsGrow
  <2>. QED  BY <2>1, <2>2, LastOfGrown
<1>28. Remembers(more, s, d)
  BY <1>2, <1>20, <1>27 DEF Remembers
<1>29. FormingTells(more, s, d)
  BY <1>5, <1>15, <1>16, <1>17, <1>20, <1>27 DEF FormingTells
<1>30. Ingested(b, t) = d
  <2>1. Ingestible(b, t)
    BY <1>4 DEF Ingestible
  <2>2. PICK x : x = IF later THEN Closed(b) ELSE b
    OBVIOUS
  <2>3. x = [closed |-> c, forming |-> IF later THEN NoBar ELSE b.forming,
             volume |-> b.volume, observed |-> b.observed, sealed |-> b.sealed]
    <3>1. CASE later
      BY <1>1, <1>9, <1>11, <1>18, <2>2, <3>1, ClosedBars
    <3>2. CASE ~later
      BY <1>1, <1>18, <2>2, <3>2 DEF BarsShaped
    <3>. QED  BY <3>1, <3>2
  <2>4. Ingested(b, t) = [x EXCEPT !.volume = t.volume, !.observed = t.at,
                                   !.forming = IF x.forming = NoBar THEN OpenBar(t, g)
                                               ELSE Extended(x.forming, t, g)]
    BY <1>5, <1>6, <1>9, <2>1, <2>2 DEF Ingested
  <2>5. (IF x.forming = NoBar THEN OpenBar(t, g) ELSE Extended(x.forming, t, g)) = f
    BY <1>10, <1>12, <2>3
  <2>. QED  BY <1>19, <2>3, <2>4, <2>5
<1>. QED  BY <1>2, <1>25, <1>26, <1>28, <1>29, <1>30 DEF Tells

\* A finite set of numbers has an i-th one for every i up to its size.
LEMMA NthOf ==
  ASSUME NEW S, Positions(S), NEW i \in 1 .. Cardinality(S)
  PROVE  Nth(S, i) \in S
<1>. DEFINE Ranked(T, j) == \E n \in T : Cardinality({m \in T : m < n}) = j - 1
            Bad == {T \in SUBSET S : \E j \in 1 .. Cardinality(T) : ~Ranked(T, j)}
<1>1. Bad = {}
  <2>. SUFFICES ASSUME Bad # {} PROVE FALSE
    OBVIOUS
  <2>1. PICK T \in Bad : \A V \in Bad : V \subseteq T => V = T
    <3>1. Bad \subseteq SUBSET S /\ IsFiniteSet(S)
      BY SubPositions
    <3>. HIDE DEF Bad
    <3>. QED  BY <3>1, MinimalSubset
  <2>2. PICK j \in 1 .. Cardinality(T) : ~Ranked(T, j)
    BY <2>1
  <2>3. Positions(T) /\ IsFiniteSet(T)
    <3>1. T \in SUBSET S
      BY <2>1
    <3>. QED  BY <3>1, SubPositions, FS_Subset DEF Positions
  <2>4. Cardinality(T) \in Nat /\ T # {}
    <3>1. Cardinality(T) \in Nat
      BY <2>3, FS_CardinalityType
    <3>2. Cardinality(T) # 0
      BY <2>2, <3>1
    <3>. QED  BY <3>1, <3>2, FS_EmptySet
  <2>5. PICK x : x = Max(T)
    OBVIOUS
  <2>6. x \in T /\ \A y \in T : x >= y
    BY <2>3, <2>4, <2>5, MaxOfFinite
  <2>7. PICK U : U = T \ {x}
    OBVIOUS
  <2>8. U \subseteq T /\ U # T /\ U \in SUBSET S /\ U \notin Bad
    BY <2>1, <2>6, <2>7
  <2>9. Cardinality(U) = Cardinality(T) - 1
    BY <2>3, <2>6, <2>7, FS_RemoveElement
  <2>10. \A y \in T : y \in Int
    BY <2>3 DEF Positions
  <2>11. CASE j \in 1 .. Cardinality(U)
    <3>1. Ranked(U, j)
      BY <2>8, <2>11
    <3>2. PICK n \in U : Cardinality({m \in U : m < n}) = j - 1
      BY <3>1
    <3>3. {m \in T : m < n} = {m \in U : m < n}
      <4>1. n \in T /\ ~ (x < n)
        BY <2>6, <2>7, <2>10
      <4>. QED  BY <2>7, <4>1
    <3>4. n \in T
      BY <2>7
    <3>. QED  BY <2>2, <3>2, <3>3, <3>4
  <2>12. CASE j = Cardinality(T)
    <3>1. {m \in T : m < x} = U
      BY <2>6, <2>7, <2>10
    <3>2. Cardinality({m \in T : m < x}) = j - 1
      BY <2>9, <2>12, <3>1
    <3>. QED  BY <2>2, <2>6, <3>2
  <2>13. j \in 1 .. Cardinality(U) \/ j = Cardinality(T)
    BY <2>2, <2>4, <2>9
  <2>. QED  BY <2>11, <2>12, <2>13
<1>2. S \in SUBSET S /\ S \notin Bad
  BY <1>1
<1>3. Ranked(S, i)
  BY <1>2
<1>. QED  BY <1>3 DEF Nth

\* Other bars that are told take the place of the closed ones.
LEMMA ReplaceKeeps ==
  ASSUME NEW all, NEW s, NEW b, Tells(all, s, b), NEW c \in Seq(FeedBar),
         \A k \in DOMAIN c : Told(all, s, b, c[k])
  PROVE  Tells(all, s, [b EXCEPT !.closed = c])
<1>1. BarsShaped(b) /\ Remembers(all, s, b) /\ FormingTells(all, s, b)
  BY DEF Tells
<1>2. PICK d : d = [b EXCEPT !.closed = c]
  OBVIOUS
<1>3. d = [closed |-> c, forming |-> b.forming, volume |-> b.volume,
           observed |-> b.observed, sealed |-> b.sealed]
  BY <1>1, <1>2 DEF BarsShaped
<1>4. /\ d.closed = c /\ d.forming = b.forming /\ d.volume = b.volume
      /\ d.observed = b.observed /\ d.sealed = b.sealed
  BY <1>3
<1>5. BarsShaped(d) /\ Remembers(all, s, d) /\ FormingTells(all, s, d)
  BY <1>1, <1>3, <1>4 DEF BarsShaped, Remembers, FormingTells
<1>6. \A bar : Told(all, s, b, bar) => Told(all, s, d, bar)
  BY <1>4 DEF Told, Past
<1>7. ClosedTell(all, s, d)
  BY <1>4, <1>6 DEF ClosedTell
<1>. QED  BY <1>2, <1>5, <1>7 DEF Tells

\* Where existing keeps the bar of a window.
LEMMA KeptBars ==
  ASSUME NEW c \in Seq(FeedBar)
  PROVE  /\ Positions(DOMAIN ByEnd(c))
         /\ \A m \in DOMAIN ByEnd(c) : ByEnd(c)[m] \in DOMAIN c
<1>1. PICK n \in Nat : n = Len(c) /\ DOMAIN c = 1 .. n
  BY LenProperties
<1>2. \A k \in 1 .. n : c[k] \in FeedBar /\ c[k].end \in Int
  <2>1. \A k \in 1 .. n : c[k] \in FeedBar
    BY <1>1, ElementOfSeq
  <2>. QED  BY <2>1 DEF FeedBar
<1>. HIDE DEF FeedBar
<1>3. PICK K : K = {c[k].end : k \in 1 .. n}
  OBVIOUS
<1>4. K = {bar.end : bar \in Range(c)}
  BY <1>1, <1>3 DEF Range
<1>5. Positions(K)
  <2>. DEFINE f == [k \in 1 .. n |-> c[k].end]
  <2>1. f \in Surjection(1 .. n, K)
    BY <1>3 DEF Surjection
  <2>2. IsFiniteSet(1 .. n)
    <3>1. 1 \in Int /\ n \in Int
      OBVIOUS
    <3>. QED  BY <3>1, FS_Interval
  <2>3. IsFiniteSet(K)
    BY <2>1, <2>2, FS_Surjection
  <2>. QED  BY <1>2, <1>3, <2>3 DEF Positions
<1>6. PICK kept : kept = ByEnd(c)
  OBVIOUS
<1>7. kept = [m \in K |-> Max({i \in DOMAIN c : c[i].end = m})]
  BY <1>4, <1>6 DEF ByEnd
<1>8. ASSUME NEW m \in K PROVE kept[m] \in DOMAIN c
  <2>1. PICK T : T = {i \in DOMAIN c : c[i].end = m}
    OBVIOUS
  <2>2. T # {} /\ T \subseteq 1 .. n
    BY <1>1, <1>3, <2>1
  <2>3. Max(T) \in T
    BY <2>2, LastOfGrown
  <2>. QED  BY <1>7, <2>1, <2>3
<1>. QED  BY <1>5, <1>6, <1>7, <1>8

\* seed_candles keeps what the bars say: the provider's bars are marked as its own.
LEMMA SeedKeeps ==
  ASSUME NEW all, NEW s, NEW b, Tells(all, s, b), NEW N, N \subseteq Int, IsFiniteSet(N),
         N # {}
  PROVE  Tells(all, s, Seeded(b, {HistoryBar(n) : n \in N}))
<1>1. BarsShaped(b) /\ ClosedTell(all, s, b)
  BY DEF Tells
<1>2. PICK history : history = {HistoryBar(n) : n \in N}
  OBVIOUS
<1>3. \A n \in N : HistoryBar(n) \in FeedBar /\ HistoryBar(n).end = n /\ HistoryBar(n).warm
  BY FeedAssumption DEF HistoryBar, FeedBar
<1>4. history # {} /\ {bar.end : bar \in history} = N
  <2>1. {bar.end : bar \in history} = {HistoryBar(n).end : n \in N}
    BY <1>2
  <2>2. {HistoryBar(n).end : n \in N} = N
    BY <1>3
  <2>. QED  BY <1>2, <2>1, <2>2
<1>5. PICK kept : kept = ByEnd(b.closed)
  OBVIOUS
<1>6. Positions(DOMAIN kept) /\ \A m \in DOMAIN kept : kept[m] \in DOMAIN b.closed
  BY <1>1, <1>5, KeptBars DEF BarsShaped
<1>7. PICK ends : ends = DOMAIN kept \cup N
  OBVIOUS
<1>8. Positions(ends) /\ ends # {}
  BY <1>6, <1>7, FS_Union DEF Positions
<1>. DEFINE BarAt(n) == IF n \in N THEN HistoryBar(n) ELSE b.closed[kept[n]]
<1>9. \A n \in ends : Told(all, s, b, BarAt(n))
  <2>1. \A n \in N : Told(all, s, b, HistoryBar(n))
    BY <1>3 DEF Told
  <2>2. \A n \in DOMAIN kept : Told(all, s, b, b.closed[kept[n]])
    BY <1>1, <1>6 DEF ClosedTell
  <2>. QED  BY <1>7, <2>1, <2>2
<1>10. PICK size \in Nat : size = Cardinality(ends)
  BY <1>8, FS_CardinalityType DEF Positions
<1>11. PICK series : series = [i \in 1 .. size |-> BarAt(Nth(ends, i))]
  OBVIOUS
<1>12. Seeded(b, history) = [b EXCEPT !.closed = LastBars(series),
                                      !.sealed = Max({b.sealed, Max(ends)})]
  BY <1>4, <1>5, <1>7, <1>10, <1>11 DEF Seeded
<1>. HIDE DEF BarAt
<1>13. \A i \in 1 .. size : Told(all, s, b, series[i])
  <2>1. \A i \in 1 .. size : Nth(ends, i) \in ends
    BY <1>8, <1>10, NthOf
  <2>. QED  BY <1>9, <1>11, <2>1
<1>14. series \in Seq(FeedBar) /\ DOMAIN series = 1 .. size
  <2>1. \A i \in 1 .. size : series[i] \in FeedBar
    BY <1>13 DEF Told
  <2>. HIDE DEF FeedBar
  <2>2. series \in [1 .. size -> FeedBar]
    BY <1>11, <2>1
  <2>. QED  BY <2>2
<1>15. PICK c : c = LastBars(series)
  OBVIOUS
<1>16. c \in Seq(FeedBar) /\ \A k \in DOMAIN c : \E j \in DOMAIN series : c[k] = series[j]
  BY <1>14, <1>15, LastBarsOf
<1>17. \A k \in DOMAIN c : Told(all, s, b, c[k])
  BY <1>13, <1>14, <1>16
<1>18. PICK d : d = [b EXCEPT !.closed = c]
  OBVIOUS
<1>19. Tells(all, s, d)
  BY <1>16, <1>17, <1>18, ReplaceKeeps
<1>20. PICK m \in Int : m = Max({b.sealed, Max(ends)}) /\ m >= b.sealed
  <2>1. PICK x \in Int : x = Max(ends)
    BY <1>8, MaxOfFinite DEF Positions
  <2>2. b.sealed \in Int
    BY <1>1 DEF BarsShaped
  <2>3. PICK y \in Int : y = b.sealed
    BY <2>2
  <2>4. Max({y, x}) \in Int /\ Max({y, x}) >= y
    BY OfPair
  <2>. QED  BY <2>1, <2>3, <2>4
<1>21. d.sealed = b.sealed /\ Seeded(b, history) = [d EXCEPT !.sealed = m]
  <2>1. b = [closed |-> b.closed, forming |-> b.forming, volume |-> b.volume,
             observed |-> b.observed, sealed |-> b.sealed]
    BY <1>1 DEF BarsShaped
  <2>. QED  BY <1>12, <1>15, <1>18, <1>20, <2>1
<1>22. Tells(all, s, [d EXCEPT !.sealed = m])
  BY <1>19, <1>20, <1>21, SealKeeps
<1>. QED  BY <1>2, <1>21, <1>22

-----------------------------------------------------------------------------
(* The tick buffer, and all of the feed.                                   *)

\* The tick of the last arrival of a symbol.
NewestOf(all, s) ==
  IF TicksOf(all, s) = {} THEN NoTick ELSE all[Max(TicksOf(all, s))].tick

\* kept holds the ticks of all but the first d arrivals.
Keeps(all, kept, d) ==
  /\ kept \in Seq(FeedTick) /\ d \in Nat /\ d + Len(kept) = Len(all)
  /\ \A i \in 1 .. Len(kept) : kept[i] = all[d + i].tick

\* The inductive invariant: arrivals are in order, the buffer holds the last of them and the
\* newest of each symbol, and the bars say what they say.
FeedInv ==
  /\ instant \in Nat /\ warmUp \in Int
  /\ accepted \in Seq(Arrival) /\ InOrder(accepted)
  /\ latest = [s \in FeedSymbols |-> NewestOf(accepted, s)]
  /\ \E d : Keeps(accepted, retained, d)
  /\ bars = [s \in FeedSymbols |-> bars[s]]
  /\ \A s \in FeedSymbols : Tells(accepted, s, bars[s])

\* The last arrival of a symbol is its newest.
LEMMA NewestTick ==
  ASSUME NEW all \in Seq(Arrival), InOrder(all), NEW s, TicksOf(all, s) # {}
  PROVE  /\ Max(TicksOf(all, s)) \in TicksOf(all, s)
         /\ Max(TicksOf(all, s)) \in 1 .. Len(all)
         /\ all[Max(TicksOf(all, s))] \in Arrival
         /\ \A i \in TicksOf(all, s) :
              /\ i \in 1 .. Len(all) /\ i <= Max(TicksOf(all, s)) /\ all[i] \in Arrival
              /\ all[i].tick.at <= all[Max(TicksOf(all, s))].tick.at
<1>1. PICK n \in Nat : n = Len(all) /\ DOMAIN all = 1 .. n
  BY LenProperties
<1>2. PICK T : T = TicksOf(all, s)
  OBVIOUS
<1>3. T \subseteq 1 .. n /\ T # {} /\ \A i \in T : all[i].tick.symbol = s
  BY <1>1, <1>2 DEF TicksOf
<1>4. PICK m : m = Max(T)
  OBVIOUS
<1>5. m \in T /\ m \in 1 .. n /\ \A i \in T : i <= m
  BY <1>3, <1>4, LastOfGrown
<1>6. \A i \in 1 .. n : all[i] \in Arrival
  BY <1>1, ElementOfSeq
<1>7. \A i \in T : all[i].tick.at <= all[m].tick.at
  <2>. SUFFICES ASSUME NEW i \in T PROVE all[i].tick.at <= all[m].tick.at
    OBVIOUS
  <2>1. i \in 1 .. n /\ all[i].tick.at \in Nat
    BY <1>3, <1>6 DEF Arrival, FeedTick
  <2>2. CASE i = m
    BY <2>1, <2>2
  <2>3. CASE i < m
    BY <1>1, <1>3, <1>5, <2>1, <2>3 DEF InOrder
  <2>. QED  BY <1>5, <2>1, <2>2, <2>3
<1>. QED  BY <1>1, <1>2, <1>3, <1>4, <1>5, <1>6, <1>7

\* A newer tick joins in order.
LEMMA OrderJoins ==
  ASSUME NEW all \in Seq(Arrival), InOrder(all), NEW e, NEW more,
         Joins(all, e, Len(all), more),
         NewestOf(all, e.tick.symbol).at <= e.tick.at
  PROVE  /\ InOrder(more)
         /\ \A i \in TicksOf(all, e.tick.symbol) : all[i].tick.at <= e.tick.at
<1>0. PICK s : s = e.tick.symbol
  OBVIOUS
<1>1. PICK n \in Nat : /\ n = Len(all) /\ DOMAIN all = 1 .. n
                      /\ DOMAIN more = 1 .. (n + 1) /\ more[n + 1] = e
                      /\ \A i \in 1 .. n : more[i] = all[i] /\ all[i] \in Arrival
  BY LenProperties DEF Joins
<1>2. e.tick.at \in Nat
  BY DEF Joins, Arrival, FeedTick
<1>3. \A i \in TicksOf(all, s) : all[i].tick.at <= e.tick.at
  <2>. SUFFICES ASSUME NEW i \in TicksOf(all, s) PROVE all[i].tick.at <= e.tick.at
    OBVIOUS
  <2>1. PICK m : m = Max(TicksOf(all, s))
    OBVIOUS
  <2>2. /\ all[m] \in Arrival /\ all[i] \in Arrival /\ all[i].tick.at <= all[m].tick.at
    BY <2>1, NewestTick
  <2>3. all[m].tick.at <= e.tick.at
    BY <1>0, <2>1 DEF NewestOf
  <2>4. all[m].tick.at \in Nat /\ all[i].tick.at \in Nat
    BY <2>2 DEF Arrival, FeedTick
  <2>. QED  BY <1>2, <2>2, <2>3, <2>4
<1>4. InOrder(more)
  <2>. SUFFICES ASSUME NEW i \in 1 .. (n + 1), NEW j \in 1 .. (n + 1), i < j,
                       more[i].tick.symbol = more[j].tick.symbol
                PROVE  more[i].tick.at <= more[j].tick.at
    BY <1>1 DEF InOrder
  <2>1. i \in 1 .. n /\ more[i] = all[i]
    BY <1>1
  <2>2. CASE j \in 1 .. n
    BY <1>1, <2>1, <2>2 DEF InOrder
  <2>3. CASE j = n + 1
    <3>1. i \in TicksOf(all, s)
      BY <1>0, <1>1, <2>1, <2>3 DEF TicksOf
    <3>. QED  BY <1>1, <1>3, <2>1, <2>3, <3>1
  <2>. QED  BY <2>2, <2>3
<1>. QED  BY <1>0, <1>3, <1>4

\* put keeps the newest tick of each symbol.
LEMMA LatestJoins ==
  ASSUME NEW all \in Seq(Arrival), InOrder(all), NEW e, NEW more,
         Joins(all, e, Len(all), more), NEW s
  PROVE  NewestOf(more, s) = IF s = e.tick.symbol THEN e.tick ELSE NewestOf(all, s)
<1>1. PICK n : n = Len(all)
  OBVIOUS
<1>2. PICK T : T = TicksOf(all, s)
  OBVIOUS
<1>3. /\ n \in Nat /\ T \subseteq 1 .. n
      /\ TicksOf(more, s) = T \cup {i \in {n + 1} : e.tick.symbol = s}
  <2>1. Joins(all, e, n, more)
    BY <1>1
  <2>2. n \in Nat
    BY <2>1 DEF Joins
  <2>3. /\ TicksOf(all, s) \subseteq 1 .. n
        /\ TicksOf(more, s) = TicksOf(all, s) \cup {i \in {n + 1} : e.tick.symbol = s}
    BY <2>1, PositionsGrow
  <2>. QED  BY <1>2, <2>2, <2>3
<1>4. CASE s = e.tick.symbol
  <2>1. TicksOf(more, s) = T \cup {n + 1}
    BY <1>3, <1>4
  <2>2. Max(T \cup {n + 1}) = n + 1
    BY <1>3, LastOfGrown
  <2>3. more[n + 1] = e
    BY <1>1 DEF Joins
  <2>. QED  BY <1>4, <2>1, <2>2, <2>3 DEF NewestOf
<1>5. CASE s # e.tick.symbol
  <2>1. TicksOf(more, s) = T
    BY <1>3, <1>5
  <2>2. T # {} => Max(T) \in 1 .. n
    BY <1>3, LastOfGrown
  <2>3. T # {} => more[Max(T)] = all[Max(T)]
    BY <1>1, <2>2 DEF Joins
  <2>. QED  BY <1>2, <1>5, <2>1, <2>3 DEF NewestOf
<1>. QED  BY <1>4, <1>5

\* The buffer keeps the last arrivals when one joins and when one is evicted.
LEMMA BufferJoins ==
  ASSUME NEW all \in Seq(Arrival), NEW kept, NEW d, Keeps(all, kept, d), NEW e,
         e \in Arrival
  PROVE  /\ \E c : Keeps(Append(all, e), Append(kept, e.tick), c)
         /\ \E c : Keeps(Append(all, e), Tail(Append(kept, e.tick)), c)
<1>1. PICK more, t, q : more = Append(all, e) /\ t = e.tick /\ q = Append(kept, t)
  OBVIOUS
<1>2. PICK n \in Nat : n = Len(all)
  BY LenProperties
<1>3. PICK k \in Nat : k = Len(kept) /\ d \in Nat /\ d + k = n /\ kept \in Seq(FeedTick)
  BY <1>2, LenProperties DEF Keeps
<1>4. Joins(all, e, n, more) /\ more \in Seq(Arrival)
  BY <1>1, <1>2, AppendJoins
<1>5. Len(more) = n + 1
  BY <1>2, <1>4, LenProperties DEF Joins
<1>6. t \in FeedTick
  BY <1>1 DEF Arrival
<1>. HIDE DEF FeedTick
<1>7. /\ q \in Seq(FeedTick) /\ Len(q) = k + 1 /\ q[k + 1] = t
      /\ \A i \in 1 .. k : q[i] = kept[i]
  BY <1>1, <1>3, <1>6, AppendProperties
<1>8. \A i \in 1 .. (k + 1) : q[i] = more[d + i].tick
  <2>. SUFFICES ASSUME NEW i \in 1 .. (k + 1) PROVE q[i] = more[d + i].tick
    OBVIOUS
  <2>1. CASE i = k + 1
    <3>1. d + i = n + 1
      BY <1>3, <2>1
    <3>. QED  BY <1>1, <1>4, <1>7, <2>1, <3>1 DEF Joins
  <2>2. CASE i \in 1 .. k
    <3>1. d + i \in 1 .. n
      BY <1>3, <2>2
    <3>2. more[d + i] = all[d + i] /\ kept[i] = all[d + i].tick
      BY <1>3, <1>4, <2>2, <3>1 DEF Joins, Keeps
    <3>. QED  BY <1>7, <2>2, <3>2
  <2>. QED  BY <2>1, <2>2
<1>9. Keeps(more, q, d)
  BY <1>3, <1>5, <1>7, <1>8 DEF Keeps
<1>10. Keeps(more, Tail(q), d + 1)
  <2>1. q # << >>
    BY <1>7, EmptySeq
  <2>2. PICK r : r = Tail(q)
    OBVIOUS
  <2>3. /\ r \in Seq(FeedTick) /\ Len(r) = Len(q) - 1
        /\ \A i \in 1 .. Len(r) : r[i] = q[i + 1]
    BY <1>7, <2>1, <2>2, HeadTailProperties
  <2>4. Len(r) = k
    BY <1>3, <1>7, <2>3
  <2>5. \A i \in 1 .. k : r[i] = more[(d + 1) + i].tick
    <3>. SUFFICES ASSUME NEW i \in 1 .. k PROVE r[i] = more[(d + 1) + i].tick
      OBVIOUS
    <3>1. i + 1 \in 1 .. (k + 1) /\ d + (i + 1) = (d + 1) + i
      BY <1>3
    <3>2. q[i + 1] = more[d + (i + 1)].tick
      BY <1>8, <3>1
    <3>. QED  BY <2>3, <2>4, <3>1, <3>2
  <2>6. d + 1 \in Nat /\ (d + 1) + k = n + 1
    BY <1>3
  <2>. QED  BY <1>5, <2>2, <2>3, <2>4, <2>5, <2>6 DEF Keeps
<1>. QED  BY <1>1, <1>9, <1>10


\* ingest keeps what the bars say, whether it takes the tick or drops it as late.
LEMMA IngestKeeps ==
  ASSUME NEW all \in Seq(Arrival), InOrder(all), NEW e, NEW n, NEW more, Joins(all, e, n, more),
         NEW s, s = e.tick.symbol, \A i \in TicksOf(all, s) : all[i].tick.at <= e.tick.at,
         NEW b, Tells(all, s, b), e.sealed = b.sealed
  PROVE  Tells(more, s, Ingested(b, e.tick))
<1>1. BarsShaped(b) /\ Remembers(all, s, b)
  BY DEF Tells
<1>2. e.tick.at \in Nat /\ b.sealed \in Int /\ b.observed \in Int
  BY <1>1 DEF Joins, Arrival, FeedTick, BarsShaped
<1>3. b.observed <= e.tick.at
  <2>1. CASE Taken(all, s) = {}
    BY <1>1, <1>2, <2>1 DEF Remembers
  <2>2. CASE Taken(all, s) # {}
    <3>1. PICK m : m = Max(Taken(all, s))
      OBVIOUS
    <3>2. m \in Taken(all, s) /\ b.observed = all[m].tick.at
      BY <1>1, <2>2, <3>1, Remembered
    <3>3. m \in TicksOf(all, s)
      BY <3>2 DEF Taken
    <3>. QED  BY <3>2, <3>3
  <2>. QED  BY <2>1, <2>2
<1>4. CASE Counts(e, s)
  BY <1>3, <1>4, TakenKeeps
<1>5. CASE ~Counts(e, s)
  <2>1. Tells(more, s, b)
    BY <1>5, UntakenKeeps
  <2>2. ~Ingestible(b, e.tick)
    BY <1>2, <1>5 DEF Counts, Ingestible
  <2>. QED  BY <2>1, <2>2 DEF Ingested
<1>. QED  BY <1>4, <1>5

\* Nothing has arrived and no bar stands.
LEMMA FeedStart ==
  ASSUME FeedInit
  PROVE  FeedInv
<1>1. accepted = << >> /\ retained = << >> /\ warmUp = -1 /\ instant = 0
  BY DEF FeedInit, NotBegun
<1>2. Len(accepted) = 0 /\ DOMAIN accepted = {} /\ Len(retained) = 0
  BY <1>1
<1>3. accepted \in Seq(Arrival) /\ retained \in Seq(FeedTick) /\ << >> \in Seq(FeedBar)
  BY <1>1
<1>4. \A s : TicksOf(accepted, s) = {} /\ Taken(accepted, s) = {}
  BY <1>2 DEF TicksOf, Taken
<1>5. latest = [s \in FeedSymbols |-> NewestOf(accepted, s)]
  BY <1>4 DEF FeedInit, NewestOf
<1>6. Keeps(accepted, retained, 0)
  BY <1>2, <1>3 DEF Keeps
<1>7. InOrder(accepted)
  BY <1>2 DEF InOrder
<1>8. bars = [s \in FeedSymbols |-> bars[s]]
  BY DEF FeedInit
<1>9. ASSUME NEW s \in FeedSymbols PROVE Tells(accepted, s, bars[s])
  <2>1. PICK b : b = bars[s]
    OBVIOUS
  <2>2. b = [closed |-> << >>, forming |-> NoBar, volume |-> -1, observed |-> -1, sealed |-> -1]
    BY <2>1 DEF FeedInit
  <2>3. /\ b.closed = << >> /\ b.forming = NoBar /\ b.volume = -1 /\ b.observed = -1
        /\ b.sealed = -1
    BY <2>2
  <2>4. BarsShaped(b)
    BY <1>3, <2>2, <2>3 DEF BarsShaped
  <2>5. Remembers(accepted, s, b)
    BY <1>4, <2>3 DEF Remembers
  <2>6. ClosedTell(accepted, s, b)
    BY <2>3 DEF ClosedTell
  <2>7. FormingTells(accepted, s, b)
    BY <1>4, <2>3 DEF FormingTells
  <2>. QED  BY <2>1, <2>4, <2>5, <2>6, <2>7 DEF Tells
<1>. QED  BY <1>1, <1>3, <1>5, <1>6, <1>7, <1>8, <1>9 DEF FeedInv

\* put: the tick joins the arrivals of its symbol at their end.
LEMMA PutKeeps ==
  ASSUME FeedInv, NEW s \in FeedSymbols, NEW quote \in QuotesOf[s], NEW at \in 0 .. MaxClock,
         Put(s, quote, at)
  PROVE  FeedInv'
<1>1. PICK t : t = [symbol |-> s, price |-> quote.price, volume |-> quote.volume, at |-> at]
  OBVIOUS
<1>2. PICK e : e = [tick |-> t, sealed |-> bars[s].sealed]
  OBVIOUS
<1>3. PICK longer : longer = Append(retained, t)
  OBVIOUS
<1>4. /\ quote \in SaneQuotes /\ Acceptable(t, instant)
      /\ retained' = IF Len(longer) > BufferSize THEN Tail(longer) ELSE longer
      /\ latest' = [latest EXCEPT ![s] = t]
      /\ bars' = [bars EXCEPT ![s] = Ingested(bars[s], t)]
      /\ accepted' = Append(accepted, e)
      /\ instant' = instant /\ warmUp' = warmUp
  BY <1>1, <1>2, <1>3 DEF Put
<1>5. t \in FeedTick /\ t.symbol = s
  BY <1>1, <1>4, FeedAssumption DEF FeedTick
<1>6. /\ instant \in Nat /\ warmUp \in Int
      /\ accepted \in Seq(Arrival) /\ InOrder(accepted)
      /\ latest = [x \in FeedSymbols |-> NewestOf(accepted, x)]
      /\ bars = [x \in FeedSymbols |-> bars[x]]
      /\ \A x \in FeedSymbols : Tells(accepted, x, bars[x])
  BY DEF FeedInv
<1>7. Tells(accepted, s, bars[s]) /\ bars[s].sealed \in Int
  BY <1>6 DEF Tells, BarsShaped
<1>8. e \in Arrival /\ e.tick = t /\ e.sealed = bars[s].sealed
  BY <1>2, <1>5, <1>7 DEF Arrival
<1>9. Joins(accepted, e, Len(accepted), accepted') /\ accepted' \in Seq(Arrival)
  BY <1>4, <1>6, <1>8, AppendJoins
<1>10. PICK n : n = Len(accepted)
  OBVIOUS
<1>11. PICK more : more = accepted'
  OBVIOUS
<1>12. Joins(accepted, e, n, more)
  BY <1>9, <1>10, <1>11
<1>13. NewestOf(accepted, e.tick.symbol).at <= e.tick.at
  BY <1>4, <1>5, <1>6, <1>8 DEF Acceptable
<1>14. InOrder(more) /\ \A i \in TicksOf(accepted, s) : accepted[i].tick.at <= e.tick.at
  BY <1>5, <1>6, <1>8, <1>10, <1>12, <1>13, OrderJoins
<1>15. latest' = [x \in FeedSymbols |-> NewestOf(more, x)]
  <2>1. \A x : NewestOf(more, x) = IF x = s THEN t ELSE NewestOf(accepted, x)
    BY <1>5, <1>6, <1>8, <1>10, <1>12, LatestJoins
  <2>. QED  BY <1>4, <1>6, <2>1
<1>16. \E c : Keeps(more, retained', c)
  <2>1. PICK d : Keeps(accepted, retained, d)
    BY DEF FeedInv
  <2>2. (\E c : Keeps(more, longer, c)) /\ (\E c : Keeps(more, Tail(longer), c))
    BY <1>3, <1>4, <1>6, <1>8, <1>11, <2>1, BufferJoins
  <2>. QED  BY <1>4, <2>2
<1>17. \A x \in FeedSymbols : bars'[x] = IF x = s THEN Ingested(bars[s], t) ELSE bars[x]
  BY <1>4, <1>6
<1>18. bars' = [x \in FeedSymbols |-> bars'[x]]
  BY <1>4, <1>6
<1>19. ASSUME NEW x \in FeedSymbols PROVE Tells(more, x, bars'[x])
  <2>1. CASE x = s
    <3>1. Tells(more, s, Ingested(bars[s], e.tick))
      BY <1>5, <1>6, <1>7, <1>8, <1>12, <1>14, IngestKeeps
    <3>. QED  BY <1>8, <1>17, <2>1, <3>1
  <2>2. CASE x # s
    <3>1. ~Counts(e, x)
      BY <1>5, <1>8, <2>2 DEF Counts
    <3>2. Tells(accepted, x, bars[x])
      BY <1>6
    <3>3. Tells(more, x, bars[x])
      BY <1>6, <1>12, <3>1, <3>2, UntakenKeeps
    <3>. QED  BY <1>17, <2>2, <3>3
  <2>. QED  BY <2>1, <2>2
<1>20. \A x \in FeedSymbols : Tells(more, x, bars'[x])
  BY <1>19
<1>. QED  BY <1>4, <1>6, <1>9, <1>11, <1>14, <1>15, <1>16, <1>18, <1>20 DEF FeedInv

\* A read rolls one aggregator on.
LEMMA ReadKeeps ==
  ASSUME FeedInv, NEW s \in FeedSymbols, NEW now \in 0 .. MaxClock, Read(s, now)
  PROVE  FeedInv'
<1>1. /\ bars' = [bars EXCEPT ![s] = Rolled(bars[s], now)]
      /\ instant' = instant /\ retained' = retained /\ latest' = latest /\ warmUp' = warmUp
      /\ accepted' = accepted
  BY DEF Read
<1>2. /\ accepted \in Seq(Arrival) /\ bars = [x \in FeedSymbols |-> bars[x]]
      /\ \A x \in FeedSymbols : Tells(accepted, x, bars[x])
  BY DEF FeedInv
<1>3. now \in Nat
  BY FeedAssumption
<1>4. Tells(accepted, s, Rolled(bars[s], now))
  BY <1>2, <1>3, RollKeeps
<1>5. /\ bars' = [x \in FeedSymbols |-> bars'[x]]
      /\ \A x \in FeedSymbols : bars'[x] = IF x = s THEN Rolled(bars[s], now) ELSE bars[x]
  BY <1>1, <1>2
<1>6. \A x \in FeedSymbols : Tells(accepted, x, bars'[x])
  BY <1>2, <1>4, <1>5
<1>. QED  BY <1>1, <1>5, <1>6 DEF FeedInv

\* The warm-up seeds bars of the provider's and counts them with a read, or seeds nothing.
LEMMA WarmUpKeeps ==
  ASSUME FeedInv, WarmUp
  PROVE  FeedInv'
<1>. DEFINE Ends(last) == {n \in BarLength .. last : n % BarLength = 0}
            History(last) == {HistoryBar(n) : n \in Ends(last)}
            Warmed(b, last) ==
              IF History(last) = {} THEN b ELSE Rolled(Seeded(b, History(last)), warmUp)
<1>1. /\ warmUp \in Nat /\ warmUp' \in Int
      /\ instant' = instant /\ retained' = retained /\ latest' = latest
      /\ accepted' = accepted
  BY DEF WarmUp, Over, FeedInv
<1>2. PICK shown \in [FeedSymbols -> {n \in BarLength .. MaxClock : n % BarLength = 0} \cup {0}] :
        bars' = [s \in FeedSymbols |-> Warmed(bars[s], shown[s])]
  BY DEF WarmUp
<1>3. /\ accepted \in Seq(Arrival) /\ \A s \in FeedSymbols : Tells(accepted, s, bars[s])
  BY DEF FeedInv
<1>4. BarLength \in Int /\ MaxClock \in Int
  BY FeedAssumption
<1>5. ASSUME NEW s \in FeedSymbols PROVE Tells(accepted, s, Warmed(bars[s], shown[s]))
  <2>1. PICK last \in Int : last = shown[s]
    BY <1>4
  <2>2. PICK N : N = Ends(last)
    OBVIOUS
  <2>3. N \subseteq Int /\ IsFiniteSet(N)
    <3>1. IsFiniteSet(BarLength .. last)
      BY <1>4, FS_Interval
    <3>2. N \subseteq BarLength .. last
      BY <2>2
    <3>3. IsFiniteSet(N)
      BY <3>1, <3>2, FS_Subset
    <3>4. N \subseteq Int
      BY <1>4, <3>2
    <3>. QED  BY <3>3, <3>4
  <2>4. CASE N = {}
    <3>1. History(last) = {}
      BY <2>2, <2>4
    <3>. QED  BY <1>3, <2>1, <3>1
  <2>5. CASE N # {}
    <3>1. History(last) = {HistoryBar(n) : n \in N}
      BY <2>2
    <3>2. {HistoryBar(n) : n \in N} # {}
      BY <2>5
    <3>3. PICK c : c = Seeded(bars[s], {HistoryBar(n) : n \in N})
      OBVIOUS
    <3>4. Tells(accepted, s, bars[s])
      BY <1>3
    <3>5. Tells(accepted, s, c)
      BY <2>3, <2>5, <3>3, <3>4, SeedKeeps
    <3>6. Tells(accepted, s, Rolled(c, warmUp))
      BY <1>1, <1>3, <3>5, RollKeeps
    <3>7. Warmed(bars[s], last) = Rolled(c, warmUp)
      BY <3>1, <3>2, <3>3
    <3>. QED  BY <2>1, <3>6, <3>7
  <2>. QED  BY <2>4, <2>5
<1>. HIDE DEF Warmed
<1>6. /\ bars' = [s \in FeedSymbols |-> bars'[s]]
      /\ \A s \in FeedSymbols : Tells(accepted, s, bars'[s])
  BY <1>2, <1>5
<1>. QED  BY <1>1, <1>6 DEF FeedInv

\* Every step of the feed keeps the invariant.
LEMMA FeedStep ==
  ASSUME FeedInv, [FeedNext]_feedVars
  PROVE  FeedInv'
<1>1. CASE \E s \in FeedSymbols : \E quote \in QuotesOf[s], at \in 0 .. MaxClock : Put(s, quote, at)
  BY <1>1, PutKeeps
<1>2. CASE \E s \in FeedSymbols, now \in 0 .. MaxClock : Read(s, now)
  BY <1>2, ReadKeeps
<1>3. CASE BeginWarmUp
  BY <1>3 DEF BeginWarmUp, FeedInv
<1>4. CASE WarmUp
  BY <1>4, WarmUpKeeps
<1>5. CASE ClockTick
  BY <1>5 DEF ClockTick, FeedInv
<1>6. CASE UNCHANGED feedVars
  BY <1>6 DEF feedVars, FeedInv
<1>. QED  BY <1>1, <1>2, <1>3, <1>4, <1>5, <1>6 DEF FeedNext

\* A decision for an earlier moment is given the newest quote of that moment, though newer
\* ones arrived since and the buffer evicted old ones (ticker_stream.py latest_at_or_before).
LEMMA ReadsExact ==
  ASSUME FeedInv
  PROVE  AsOfReadsExact
<1>1. PICK all : all = accepted
  OBVIOUS
<1>2. /\ all \in Seq(Arrival) /\ InOrder(all)
      /\ latest = [s \in FeedSymbols |-> NewestOf(all, s)]
  BY <1>1 DEF FeedInv
<1>3. PICK d : Keeps(all, retained, d)
  BY <1>1 DEF FeedInv
<1>4. PICK n \in Nat : n = Len(all) /\ DOMAIN all = 1 .. n
  BY <1>2, LenProperties
<1>5. PICK k \in Nat : /\ k = Len(retained) /\ DOMAIN retained = 1 .. k /\ d \in Nat /\ d + k = n
                       /\ \A i \in 1 .. k : retained[i] = all[d + i].tick
  BY <1>3, <1>4, LenProperties DEF Keeps
<1>6. \A i \in 1 .. n : all[i] \in Arrival /\ all[i].tick.at \in Nat
  <2>1. \A i \in 1 .. n : all[i] \in Arrival
    BY <1>2, <1>4, ElementOfSeq
  <2>. QED  BY <2>1 DEF Arrival, FeedTick
<1>. SUFFICES ASSUME NEW s \in FeedSymbols, NEW cutoff \in 0 .. MaxClock,
                     NEW tick, tick = DecisionTick(s, cutoff), tick # NoTick,
                     NEW known, known = {i \in TicksOf(all, s) : all[i].tick.at <= cutoff}
              PROVE  /\ known # {} /\ tick = all[Max(known)].tick
                     /\ \A i \in known : all[i].tick.at <= tick.at
  BY <1>1 DEF AsOfReadsExact
<1>7. cutoff \in Int
  OBVIOUS
<1>8. tick = AtOrBefore(s, cutoff)
  BY DEF DecisionTick
<1>9. known \subseteq 1 .. n
  BY <1>4 DEF TicksOf
<1>10. CASE latest[s].at <= cutoff
  <2>1. tick = NewestOf(all, s) /\ tick.at <= cutoff
    BY <1>2, <1>8, <1>10 DEF AtOrBefore
  <2>2. TicksOf(all, s) # {}
    BY <2>1 DEF NewestOf
  <2>3. PICK m : m = Max(TicksOf(all, s))
    OBVIOUS
  <2>4. /\ m \in TicksOf(all, s) /\ m \in 1 .. n
        /\ \A i \in TicksOf(all, s) : i \in 1 .. n /\ all[i].tick.at <= all[m].tick.at
    BY <1>2, <1>4, <2>2, <2>3, NewestTick
  <2>5. tick = all[m].tick
    BY <2>1, <2>2, <2>3 DEF NewestOf
  <2>6. \A i \in TicksOf(all, s) : all[i].tick.at <= cutoff
    BY <1>6, <1>7, <2>1, <2>4, <2>5
  <2>7. known = TicksOf(all, s)
    BY <2>6
  <2>. QED  BY <2>2, <2>3, <2>4, <2>5, <2>7
<1>11. CASE ~ (latest[s].at <= cutoff)
  <2>1. PICK old : old = {i \in 1 .. k : retained[i].symbol = s /\ retained[i].at <= cutoff}
    OBVIOUS
  <2>2. old # {} /\ tick = retained[Max(old)]
    BY <1>5, <1>8, <1>11, <2>1 DEF AtOrBefore
  <2>3. PICK j : j = Max(old)
    OBVIOUS
  <2>4. j \in old /\ \A i \in old : i <= j
    BY <2>1, <2>2, <2>3, LastOfGrown
  <2>5. j \in 1 .. k /\ d + j \in 1 .. n /\ tick = all[d + j].tick
    BY <1>5, <2>1, <2>2, <2>3, <2>4
  <2>6. d + j \in known /\ all[d + j].tick.symbol = s
    <3>1. retained[j].symbol = s /\ retained[j].at <= cutoff /\ retained[j] = all[d + j].tick
      BY <1>5, <2>1, <2>4, <2>5
    <3>. QED  BY <1>4, <2>5, <3>1 DEF TicksOf
  <2>7. ASSUME NEW i \in known PROVE i <= d + j
    <3>1. i \in 1 .. n /\ all[i].tick.symbol = s /\ all[i].tick.at <= cutoff
      BY <1>9 DEF TicksOf
    <3>2. CASE i <= d
      BY <1>5, <2>5, <3>1, <3>2
    <3>3. CASE d < i
      <4>1. PICK x \in Int : x = i - d
        BY <1>5, <3>1
      <4>2. x \in 1 .. k /\ d + x = i
        BY <1>5, <3>1, <3>3, <4>1
      <4>3. retained[x] = all[i].tick
        BY <1>5, <4>2
      <4>4. x \in old
        BY <2>1, <3>1, <4>2, <4>3
      <4>. QED  BY <1>5, <2>4, <2>5, <4>2, <4>4
    <3>. QED  BY <1>5, <3>1, <3>2, <3>3
  <2>8. Max(known) = d + j
    <3>1. Max(known) \in known /\ \A i \in known : i <= Max(known)
      BY <1>9, <2>6, LastOfGrown
    <3>2. Max(known) \in 1 .. n
      BY <1>9, <3>1
    <3>3. PICK x, z : x = Max(known) /\ z = d + j
      OBVIOUS
    <3>4. x \in 1 .. n /\ z \in 1 .. n /\ z <= x /\ x <= z
      BY <2>5, <2>6, <2>7, <3>1, <3>2, <3>3
    <3>5. x = z
      BY <1>4, <3>4
    <3>. QED  BY <3>3, <3>5
  <2>9. \A i \in known : all[i].tick.at <= tick.at
    <3>. SUFFICES ASSUME NEW i \in known PROVE all[i].tick.at <= tick.at
      OBVIOUS
    <3>1. i \in 1 .. n /\ all[i].tick.symbol = s
      BY <1>9 DEF TicksOf
    <3>2. CASE i = d + j
      BY <1>6, <2>5, <3>2
    <3>3. CASE i # d + j
      <4>1. i < d + j
        BY <2>5, <2>7, <3>1, <3>3
      <4>. QED  BY <1>2, <1>4, <2>5, <2>6, <3>1, <4>1 DEF InOrder
    <3>. QED  BY <3>2, <3>3
  <2>. QED  BY <2>5, <2>6, <2>8, <2>9
<1>. QED  BY <1>10, <1>11

\* FeedHonest, for every number of symbols and of ticks, however the buffer is bounded: the bars
\* that ticks made are the summaries of the ticks of their windows that came before these were
\* sealed, and a quote read for a past moment is the newest of that moment (live_feed.py ingest,
\* _roll and seed_candles, ticker_stream.py put and latest_at_or_before).
THEOREM QuotesAndBarsHonest == FeedSpec => []FeedHonest
<1>1. FeedInit => FeedInv
  BY FeedStart
<1>2. FeedInv /\ [FeedNext]_feedVars => FeedInv'
  BY FeedStep
<1>3. FeedInv => FeedHonest
  <2>. SUFFICES ASSUME FeedInv PROVE FeedHonest
    OBVIOUS
  <2>1. BarsTellTheTicks
    <3>1. \A s \in FeedSymbols : ClosedTell(accepted, s, bars[s])
      BY DEF FeedInv, Tells
    <3>2. \A s \in FeedSymbols : \A k \in DOMAIN bars[s].closed :
            ~bars[s].closed[k].warm => bars[s].closed[k] = BarOf(accepted, s, bars[s].closed[k].end)
      BY <3>1 DEF ClosedTell, Told
    <3>. QED  BY <3>2 DEF BarsTellTheTicks, Range
  <2>. QED  BY <2>1, ReadsExact DEF FeedHonest
<1>. QED  BY <1>1, <1>2, <1>3, PTL DEF FeedSpec
=============================================================================
