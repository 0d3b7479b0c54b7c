----------------------------- MODULE ExitEngine -----------------------------
(***************************************************************************)
(* The protective-exit engine and the overnight gap monitor it may carry.  *)
(* Both live in memory: e.last is the last mark of a symbol comparable     *)
(* with its cost basis, e.seen the monitor's previous mark and its time,   *)
(* e.open the time an unexplained step was first seen, e.blind the symbols *)
(* the last sweep could not price.  A mark of 0 is an unknown price, a     *)
(* time of 0 an absent entry.                                              *)
(***************************************************************************)
EXTENDS PaperLedger

CONSTANTS
  BandPercent,   \* a larger step is a re-based quote, not trading
  Monitored,     \* PRAMANA_OVERNIGHT_GAP_MONITOR=session
  Cooldown,      \* re_entry_cooldown
  ResolveWithin, \* one regular session of the venue
  Phase,         \* the market calendar: "regular", "auction" or "closed" at each time
  CloseOf,       \* when the regular session of each time's local date closes
  ExDates        \* pairs of a symbol and a time the operator declared an action for

ASSUME EngineAssumption ==
  /\ BandPercent \in Nat \ {0}
  /\ Monitored \in BOOLEAN
  /\ {Cooldown, ResolveWithin} \subseteq Nat

FreshEngine ==
  [last |-> [s \in Symbols |-> 0],
   seen |-> [s \in Symbols |-> [mark |-> 0, at |-> 0]],
   open |-> [s \in Symbols |-> 0],
   blind |-> {}]

Step(a, b) == IF a > b THEN a - b ELSE b - a
\* price_discontinuity: false on a first observation.
Discontinuity(previous, mark) == previous > 0 /\ Step(previous, mark) * 100 > previous * BandPercent
\* crossed_session_boundary: the session of the earlier observation's date has closed.
CrossedBoundary(from, to) == CloseOf[from] <= to
Declared(s, now) == <<s, now>> \in ExDates

\* classify_gap over the monitor's own previous mark.
Verdict(e, s, mark, now) ==
  LET prior == e.seen[s]
  IN IF prior.mark = 0 THEN "ordinary"
     ELSE IF Declared(s, now) THEN "declared"
     ELSE IF ~Discontinuity(prior.mark, mark) THEN "ordinary"
     ELSE IF CrossedBoundary(prior.at, now) THEN "undetermined"
     ELSE "intrasession"

\* Defect: an ordinary quote closes the step before it.
Reopened(old, verdict, now) ==
  IF verdict = "ordinary" THEN 0 ELSE IF verdict = "declared" THEN 0
  ELSE IF old # 0 THEN old ELSE now
\* _record: a step opens once, and only a declaration closes it.
OpenSince(old, verdict, now) ==
  IF verdict = "declared" THEN 0
  ELSE IF old # 0 \/ verdict = "ordinary" THEN old
  ELSE now

\* observe: the verdict on this mark, which is the next one's comparison.
Observe(e, s, mark, now) ==
  IF ~Monitored THEN e
  ELSE [e EXCEPT !.seen[s] = [mark |-> mark, at |-> now],
                 !.open[s] = OpenSince(@, Verdict(e, s, mark, now), now)]

\* Defect: the re-based mark becomes the next sweep's comparison.
ForgetBasis(e, s, mark, verdict, now) ==
  [suspended |-> Declared(s, now) \/ Discontinuity(e.last[s], mark),
   last |-> mark]
\* _rebased: suspend on a declared date or an unexplained step, and keep the last comparable
\* mark while suspended; a step inside one session re-arms the stop at the new mark.
Rebased(e, s, mark, verdict, now) ==
  LET jump == Discontinuity(e.last[s], mark)
      suspended == Declared(s, now) \/ (jump /\ ~(Monitored /\ verdict = "intrasession"))
  IN [suspended |-> suspended, last |-> IF suspended THEN e.last[s] ELSE mark]

\* _breach: the stop is tested before the target.
Breach(p, mark) ==
  IF p.stop > 0 /\ mark <= p.stop THEN "stop"
  ELSE IF p.target > 0 /\ mark >= p.target THEN "target" ELSE "none"

\* Defect: only the first unit is sold.
ExitOrderOfOne(d, s, mark, now) ==
  [sym |-> s, side |-> "SELL", qty |-> 1, price |-> mark, stop |-> d.pos[s].stop,
   target |-> d.pos[s].target, key |-> NoKey, until |-> now + Cooldown, protective |-> TRUE]
\* _liquidate: the whole position at the mark, with the cooldown in the same transaction.
ExitOrder(d, s, mark, now) ==
  [sym |-> s, side |-> "SELL", qty |-> d.pos[s].qty, price |-> mark, stop |-> d.pos[s].stop,
   target |-> d.pos[s].target, key |-> NoKey, until |-> now + Cooldown, protective |-> TRUE]

\* The sweep's work on one open position.  A liquidation in "jammed" meets a locked database.
SweepOne(c, s, marks, now, jammed) ==
  LET d == c.d
      mark == marks[s]
      verdict == Verdict(c.e, s, mark, now)
      r == Rebased(c.e, s, mark, verdict, now)
      judged == [Observe(c.e, s, mark, now) EXCEPT !.last[s] = r.last]
      breached == ~r.suspended /\ Breach(d.pos[s], mark) # "none"
      sold == Execute(d, ExitOrder(d, s, mark, now))
  IN IF d.pos[s].qty = 0 \/ (d.pos[s].stop = 0 /\ d.pos[s].target = 0) THEN c
     ELSE IF mark = 0 THEN [c EXCEPT !.e.blind = @ \union {s}]
     ELSE IF ~breached THEN [c EXCEPT !.e = judged]
     ELSE IF s \in jammed \/ sold = d THEN [c EXCEPT !.e = judged, !.failed = TRUE]
     ELSE [c EXCEPT !.e = judged, !.d = sold, !.filled = TRUE]

\* The monitor drops what is no longer held; the engine keeps its last marks.
Forget(e, held) ==
  [e EXCEPT !.seen = [s \in Symbols |-> IF s \in held THEN @[s] ELSE [mark |-> 0, at |-> 0]],
            !.open = [s \in Symbols |-> IF s \in held THEN @[s] ELSE 0]]

\* evaluate: every open position in symbol order.
Sweep(d, e, marks, now, jammed) ==
  LET start == [d |-> d, e |-> [e EXCEPT !.blind = {}], failed |-> FALSE, filled |-> FALSE]
      done == FoldSet(LAMBDA s, c : SweepOne(c, s, marks, now, jammed), start, Symbols)
  IN [done EXCEPT !.e = Forget(@, Open(done.d))]

\* flatten_session: sell everything due before the close; an unpriced holding is a failed exit.
FlattenOne(c, s, marks, now, jammed) ==
  LET sold == Execute(c.d, ExitOrder(c.d, s, marks[s], now))
  IN IF c.d.pos[s].qty = 0 THEN c
     ELSE IF marks[s] = 0 \/ s \in jammed \/ sold = c.d THEN [c EXCEPT !.failed = TRUE]
     ELSE [c EXCEPT !.d = sold, !.filled = TRUE]

Flatten(c, marks, now, jammed) ==
  FoldSet(LAMBDA s, x : FlattenOne(x, s, marks, now, jammed), c, Symbols)

\* Defect: the deadline is judged one observation late.
GapLate(e, now) == \E s \in Symbols : e.open[s] # 0 /\ now - e.open[s] > ResolveWithin
\* halt_reason: a step nobody explained within its deadline.
GapOverdue(e, now) == \E s \in Symbols : e.open[s] # 0 /\ now - e.open[s] >= ResolveWithin
=============================================================================
