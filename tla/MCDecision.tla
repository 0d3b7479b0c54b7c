----------------------------- MODULE MCDecision -----------------------------
(***************************************************************************)
(* The quotes, the calls to the AI providers and the decisions made of     *)
(* their answers, checked side by side: part says which of them moves,     *)
(* Parts are the ones a run looks at.  Two calls share one ledger, the     *)
(* challenger's also has its own.  Symbol C is held and outside the        *)
(* watchlist, A and B are one sector, A is the one whose mark moves.       *)
(* Symbol q is quoted at two prices with volumes that also fall, and       *)
(* malformed; the ticks of r come in time and only take places in the      *)
(* buffer.  The kill switch is read under the broker's lock, so it turns   *)
(* only while an order waits for that lock.                                *)
(***************************************************************************)
EXTENDS AiBudget, DecisionCycle, TickFeed

CONSTANT Parts

MCCalls == {"consensus", "shadow"}
MCScopeOf == [c \in MCCalls |-> c]
MCLedgersOf == [c \in MCCalls |-> IF c = "shadow" THEN <<"sample", "shared">> ELSE <<"shared">>]
MCAllowance == [c \in MCCalls |-> 2]
MCCallLimit == [l \in {"sample", "shared"} |-> IF l = "sample" THEN 1 ELSE 2]
MCTokenLimit == [l \in {"sample", "shared"} |-> IF l = "sample" THEN 2 ELSE 3]
MCUsages == {0, 1, 3}

CONSTANTS A, B, C
MCSymbols == {A, B, C}
MCSectors == {{A, B}}
MCBooks == {[s \in MCSymbols |-> IF s = C THEN 5 ELSE 0]}
MCPrices == [s \in MCSymbols |-> IF s = A THEN {20, 24} ELSE {20}]
MCWatchlist == {A, B}
MCPhases == <<"open", "closing", "closed">>

FreshAges == [price |-> 10, news |-> 600, macro |-> 2 * Day, fundamentals |-> 1800]
FadedAges == [FreshAges EXCEPT !["news"] = 1900, !["macro"] = 10 * Day]
StaleVote == [FreshAges EXCEPT !["fundamentals"] = 2 * Hour]
Scores(g, m, i, t) ==
    [geopolitical |-> g, commodity |-> m, india |-> i, us |-> 0, technical |-> t]
TapeOf(score, age, quote, regime, trust) ==
    [score |-> score, age |-> age, quote |-> quote, regime |-> regime,
     trust |-> [a \in Agents |-> trust]]
Tight(score, regime, trust) == TapeOf(score, FreshAges, "tight", regime, trust)

\* Agreement, conflict, two leans under strict playbooks, a thin record, faded
\* sources, a stale vote beside a torn quote.
MCTapes ==
    {Tight(Scores(70, 20, 70, 70), "trending_up", 100),
     Tight(Scores(-20, -20, 70, 70), "ranging", 100),
     Tight(Scores(20, 20, 20, 20), "high_volatility", 100),
     Tight(Scores(-30, -30, -30, -30), "trending_down", 100),
     TapeOf(Scores(20, 20, 20, 20), FreshAges, "none", "unread", 75),
     TapeOf(Scores(20, 20, 20, 20), FadedAges, "none", "trending_up", 100),
     TapeOf(Scores(70, 70, 70, 70), StaleVote, "torn", "trending_up", 100)}

ViewOf(stance, confidence, win, risk) ==
    [stance |-> stance, confidence |-> confidence, win |-> win, risk |-> risk]
MCViews ==
    {ViewOf("STRONG_BUY", 90, 300, 100), ViewOf("BUY", 60, 100, 60),
     ViewOf("SELL", 70, 0, 100), ViewOf("invalid", 0, 0, 0)}

CONSTANTS q, r
Quote(price, volume) == [price |-> price, volume |-> volume]
MCQuotes ==
    [s \in FeedSymbols |-> IF s = q THEN {Quote(1, 5), Quote(3, 4), Quote(0, 9)}
                           ELSE {Quote(1, 1)}]
MCSane == {Quote(1, 5), Quote(3, 4), Quote(1, 1)}

VARIABLE part

MCInit ==
    /\ BudgetInit /\ CycleInit /\ FeedInit
    /\ part \in Parts
    /\ part # "calls" => activation = 0

MCNext ==
    \/ part = "calls" /\ BudgetNext /\ UNCHANGED <<cycleVars, feedVars, part>>
    \/ /\ part = "decisions" /\ CycleNext
       /\ halted' # halted => pending # None /\ pending.stage = "proposed"
       /\ UNCHANGED <<budgetVars, feedVars, part>>
    \/ /\ part = "ticks" /\ FeedNext
       /\ bars'[r].sealed = -1 /\ (latest'[r] = latest[r] \/ latest'[r].at = instant)
       /\ UNCHANGED <<budgetVars, cycleVars, part>>

MCSpec == MCInit /\ [][MCNext]_<<budgetVars, cycleVars, feedVars, part>>
=============================================================================
