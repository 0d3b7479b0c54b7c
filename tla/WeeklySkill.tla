----------------------------- MODULE WeeklySkill -----------------------------
(***************************************************************************)
(* The weekly skill weights of the specialists                             *)
(* (analytics/specialist_skill.py) as the daemons that trade one ledger    *)
(* take them up (execution/daemon.py, _refresh_specialist_skill): the      *)
(* report accepted for a week is published once, by link(), and read back  *)
(* by whoever lost; a display file follows it.  Late forward returns       *)
(* change what a report built now would say.                               *)
(*                                                                         *)
(* A report is its week and its basis, the state of the decision journal   *)
(* it was scored from.  The scores, a report that weights nobody, the      *)
(* notification and the switch that turns reweighting off are left out.    *)
(***************************************************************************)
EXTENDS Integers, FiniteSets

CONSTANTS
  Runners,
  LastWeek,
  LastBasis    \* bound: changes of the journal's scored returns

ASSUME WeeklyAssumption == LastWeek \in Nat \ {0} /\ LastBasis \in Nat

VARIABLES
  week,        \* of the clock
  scored,      \* the journal's forward returns
  accepted,    \* specialist-skill-history, by week
  display,     \* specialist-skill.json
  runner,      \* of each daemon: its cadence, its cache and its engine
  weighed      \* by week, the policies that weighted decisions

weeklyVars == <<week, scored, accepted, display, runner, weighed>>

NoReport == [week |-> 0, basis |-> 0]
Damaged == [week |-> -1, basis |-> 0]

Booted == [step |-> "idle", at |-> 0, draft |-> NoReport, cached |-> NoReport,
           inForce |-> NoReport, decided |-> FALSE]

\* A ledger of an older version may have a display report of the first week,
\* whose weights decisions have used, and no accepted one.
WeeklyInit ==
  /\ week = 1
  /\ scored = 1
  /\ accepted = [w \in 1..LastWeek |-> NoReport]
  /\ display \in {NoReport, [week |-> 1, basis |-> 1]}
  /\ runner = [p \in Runners |-> Booted]
  /\ weighed = [w \in 1..LastWeek |->
                  IF w = display.week THEN {display} ELSE {}]

\* Where a cadence goes on once the weights are settled, with or without them.
NextStep(r) == IF r.decided THEN "idle" ELSE "deciding"

-----------------------------------------------------------------------------
(* accepted_weekly_report and _refresh_specialist_skill.                   *)

\* The policy of the cadence's week is the one in the cache.
Cached(r, w) == r.cached # NoReport /\ r.cached.week = w

\* run_once asks before its first decision, _write_decision_quality afterwards.
Refresh(p) ==
  LET r == runner[p]
      at == IF r.decided THEN r.at ELSE week
  IN /\ r.step = IF r.decided THEN "report" ELSE "idle"
     /\ runner' = [runner EXCEPT ![p] =
          [r EXCEPT !.at = at,
                    !.step = IF Cached(r, at) THEN NextStep(r) ELSE "look",
                    !.decided = @ /\ ~Cached(r, at)]]
     /\ UNCHANGED <<week, scored, accepted, display, weighed>>

Look(p) ==
  LET r == runner[p]
  IN /\ r.step = "look"
     /\ runner' = [runner EXCEPT ![p].step =
                     IF accepted[r.at] = NoReport THEN "draft" ELSE "read"]
     /\ UNCHANGED <<week, scored, accepted, display, weighed>>

\* Defect: the report is always built from the journal.
AlwaysBuilt(w) == [week |-> w, basis |-> scored]

\* The display report of this week, or one built from the journal now.
Drafted(w) == IF display.week = w THEN display ELSE [week |-> w, basis |-> scored]

Draft(p) ==
  LET r == runner[p]
  IN /\ r.step = "draft"
     /\ runner' = [runner EXCEPT ![p].step = "link", ![p].draft = Drafted(r.at)]
     /\ UNCHANGED <<week, scored, accepted, display, weighed>>

\* Defect: replace() in place of link().
Replaced(w, draft) == draft

\* link() cannot overwrite a week that is accepted.
Linked(w, draft) == IF accepted[w] = NoReport THEN draft ELSE accepted[w]

Publish(p) ==
  LET r == runner[p]
  IN /\ r.step = "link"
     /\ accepted' = [accepted EXCEPT ![r.at] = Linked(r.at, r.draft)]
     /\ runner' = [runner EXCEPT ![p].step = "read"]
     /\ UNCHANGED <<week, scored, display, weighed>>

ReadBack(p) ==
  LET r == runner[p]
  IN /\ r.step = "read"
     /\ accepted[r.at] # Damaged
     /\ runner' = [runner EXCEPT ![p].step = "display", ![p].draft = accepted[r.at]]
     /\ UNCHANGED <<week, scored, accepted, display, weighed>>

Display(p) ==
  LET r == runner[p]
  IN /\ r.step = "display"
     /\ display' = r.draft
     /\ runner' = [runner EXCEPT ![p] =
          [r EXCEPT !.step = NextStep(r), !.draft = NoReport, !.cached = r.draft,
                    !.decided = FALSE, !.inForce = r.draft]]
     /\ UNCHANGED <<week, scored, accepted, weighed>>

\* Defect: a failed rollover leaves the weights that were in force.
LeftInForce(r) == r.inForce

AfterFailure(r) == NoReport

\* A damaged report, or any file that could not be read or written.
RefreshFails(p) ==
  LET r == runner[p]
  IN /\ r.step \in {"look", "draft", "link", "read", "display"}
     /\ runner' = [runner EXCEPT ![p] =
          [r EXCEPT !.step = NextStep(r), !.draft = NoReport, !.cached = NoReport,
                    !.decided = FALSE, !.inForce = AfterFailure(r)]]
     /\ UNCHANGED <<week, scored, accepted, display, weighed>>

-----------------------------------------------------------------------------

\* The decisions of the cadence; the report is written after them.  The venue
\* is closed when a week turns: a cadence under way then decides nothing.
DecideWeighed(p) ==
  LET r == runner[p]
      used == IF r.at = week THEN {r.inForce} \ {NoReport} ELSE {}
  IN /\ r.step = "deciding"
     /\ weighed' = [weighed EXCEPT ![r.at] = @ \cup used]
     /\ runner' = [runner EXCEPT ![p].step = "report", ![p].decided = TRUE]
     /\ UNCHANGED <<week, scored, accepted, display>>

RestartRunner(p) ==
  /\ runner[p] # Booted
  /\ runner' = [runner EXCEPT ![p] = Booted]
  /\ UNCHANGED <<week, scored, accepted, display, weighed>>

NextWeek ==
  /\ week < LastWeek
  /\ week' = week + 1
  /\ UNCHANGED <<scored, accepted, display, runner, weighed>>

\* A forward return of an earlier week is resolved or corrected.
ReturnsChange ==
  /\ scored < LastBasis
  /\ scored' = scored + 1
  /\ UNCHANGED <<week, accepted, display, runner, weighed>>

Damage(w) ==
  /\ accepted[w] \notin {NoReport, Damaged}
  /\ accepted' = [accepted EXCEPT ![w] = Damaged]
  /\ UNCHANGED <<week, scored, display, runner, weighed>>

WeeklyNext ==
  \/ \E p \in Runners :
       \/ Refresh(p) \/ Look(p) \/ Draft(p) \/ Publish(p) \/ ReadBack(p)
       \/ Display(p) \/ RefreshFails(p) \/ DecideWeighed(p) \/ RestartRunner(p)
  \/ NextWeek \/ ReturnsChange
  \/ \E w \in 1..LastWeek : Damage(w)

WeeklySpec == WeeklyInit /\ [][WeeklyNext]_weeklyVars

-----------------------------------------------------------------------------
(* Properties.                                                             *)

\* OnePolicyPerWeek: all decisions of a week, of every daemon and across restarts, failed
\* rollovers and late returns, are weighted by one policy of that week or by none
\* (specialist_skill.py accepted_weekly_report, daemon.py _refresh_specialist_skill).
OnePolicyPerWeek ==
  \A w \in 1..LastWeek :
    /\ Cardinality(weighed[w]) <= 1
    /\ \A r \in weighed[w] : r.week = w
=============================================================================
