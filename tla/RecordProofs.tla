---------------------------- MODULE RecordProofs ----------------------------
(***************************************************************************)
(* Theorems about records that several processes write or that an          *)
(* interruption leaves behind: the weekly policy (WeeklySkill.tla), the    *)
(* published broker session (SessionRenewal.tla), the accounts of the      *)
(* quote stream (StreamSupervisor.tla), the recovery of the paper path and *)
(* the operator's request log (Interruptions.tla), for any daemons,        *)
(* publishers, accounts, weeks, sessions, sockets, callbacks, decisions,   *)
(* requests and actors.                                                    *)
(***************************************************************************)
EXTENDS WeeklySkill, SessionRenewal, StreamSupervisor, Interruptions,
        FiniteSumTheorems, SequenceTheorems

-----------------------------------------------------------------------------
(* The weekly policy.                                                      *)

Policy == [week : 1..LastWeek, basis : Nat]
Daemon ==
  [step : {"idle", "look", "draft", "link", "read", "display", "deciding", "report"},
   at : 0..LastWeek, draft : Policy \cup {NoReport}, cached : Policy \cup {NoReport},
   inForce : Policy \cup {NoReport}, decided : BOOLEAN]

WeeklyTyped ==
  /\ week \in 1..LastWeek
  /\ scored \in Nat
  /\ accepted \in [1..LastWeek -> Policy \cup {NoReport, Damaged}]
  /\ display \in Policy \cup {NoReport}
  /\ runner \in [Runners -> Daemon]
  /\ weighed \in [1..LastWeek -> SUBSET Policy]

\* Nothing is of a week that has not come.
NothingAhead ==
  /\ display.week <= week
  /\ \A p \in Runners : /\ runner[p].at <= week
                        /\ runner[p].draft.week <= week
                        /\ runner[p].cached.week <= week
  /\ \A w \in 1..LastWeek : w > week => accepted[w] = NoReport /\ weighed[w] = {}

\* What a daemon knows at each step of its cadence: it works on a week that has come, on a
\* report of that week, and weights only what is in its cache.
CadenceKnows(r) ==
  /\ r.inForce = r.cached
  /\ r.step # "idle" => r.at \in 1..LastWeek
  /\ r.step \in {"link", "display"} => r.draft \in Policy /\ r.draft.week = r.at
  /\ r.step \in {"read", "display"} => accepted[r.at] # NoReport
  /\ r.step = "deciding" /\ r.cached # NoReport => r.cached.week = r.at
  /\ r.cached # NoReport => accepted[r.cached.week] # NoReport

\* A report is filed and used under its own week.
OwnWeek ==
  \A w \in 1..LastWeek :
    /\ accepted[w] \in Policy => accepted[w].week = w
    /\ \A r \in weighed[w] : r.week = w

\* r is what the current week's policy is known to be: accepted, read back, cached or used.
Settled(r) ==
  /\ r \in Policy
  /\ r.week = week
  /\ \/ r = accepted[week]
     \/ \E p \in Runners : runner[p].step = "display" /\ r = runner[p].draft
     \/ \E p \in Runners : r = runner[p].cached
     \/ r \in weighed[week]

OneSettled == \A r1, r2 : Settled(r1) /\ Settled(r2) => r1 = r2

\* Before a report of the current week is accepted, only the first week of an older ledger
\* has used one, the display report, and whoever drafts that week's report copies it.
OlderReport ==
  accepted[week] = NoReport /\ weighed[week] # {} =>
    /\ week = 1
    /\ display \in weighed[week]
    /\ \A p \in Runners : runner[p].step = "link" => runner[p].draft = display

UsedOnce == \A w \in 1..LastWeek : \A r1, r2 \in weighed[w] : r1 = r2

WeeklyInv ==
  /\ WeeklyTyped
  /\ NothingAhead
  /\ \A p \in Runners : CadenceKnows(runner[p])
  /\ OwnWeek
  /\ OneSettled
  /\ OlderReport
  /\ UsedOnce

\* The sentinels are no policies.
LEMMA Sentinels ==
  /\ NoReport \notin Policy /\ Damaged \notin Policy /\ NoReport # Damaged
  /\ NoReport.week = 0
BY WeeklyAssumption DEF NoReport, Damaged, Policy

\* The first week, whose displayed report may come from an older ledger.
LEMMA WeeklyStart == WeeklyInit => WeeklyInv
<1>. SUFFICES ASSUME WeeklyInit PROVE WeeklyInv
  OBVIOUS
<1>. USE DEF WeeklyInit
<1>1. display \in Policy \cup {NoReport} /\ display.week <= 1
  BY WeeklyAssumption DEF Policy, NoReport
<1>2. Booted \in Daemon /\ Booted.cached = NoReport /\ Booted.inForce = NoReport
      /\ Booted.draft = NoReport /\ Booted.at = 0 /\ Booted.step = "idle"
  BY WeeklyAssumption DEF Booted, Daemon
<1>3. \A w \in 1..LastWeek : /\ accepted[w] = NoReport
                             /\ weighed[w] = IF w = display.week THEN {display} ELSE {}
  OBVIOUS
<1>4. \A p \in Runners : runner[p] = Booted
  OBVIOUS
<1>5. WeeklyTyped
  <2>1. \A w \in 1..LastWeek : (IF w = display.week THEN {display} ELSE {}) \in SUBSET Policy
    BY <1>1, Sentinels
  <2>. QED  BY <1>1, <1>2, <2>1, WeeklyAssumption DEF WeeklyTyped
<1>6. NothingAhead
  BY <1>1, <1>2, <1>3, <1>4, Sentinels, WeeklyAssumption DEF NothingAhead
<1>7. \A p \in Runners : CadenceKnows(runner[p])
  BY <1>2, <1>4 DEF CadenceKnows
<1>8. OwnWeek
  BY <1>3, Sentinels DEF OwnWeek
<1>9. OneSettled
  <2>1. week \in 1..LastWeek /\ week = 1
    BY WeeklyAssumption
  <2>2. \A r : Settled(r) => r = display
    BY <1>2, <1>3, <1>4, <2>1, Sentinels DEF Settled
  <2>. QED  BY <2>2 DEF OneSettled
<1>10. OlderReport
  BY <1>2, <1>3, <1>4, WeeklyAssumption DEF OlderReport
<1>11. UsedOnce
  BY <1>3 DEF UsedOnce
<1>. QED  BY <1>5, <1>6, <1>7, <1>8, <1>9, <1>10, <1>11 DEF WeeklyInv

\* What a daemon may become: it takes up nothing but what is settled, and copies the display
\* report where it must.
Consistent(r) ==
  /\ r \in Daemon
  /\ r.at <= week /\ r.draft.week <= week /\ r.cached.week <= week
  /\ CadenceKnows(r)
  /\ r.step = "display" /\ r.draft.week = week => Settled(r.draft)
  /\ r.cached.week = week => Settled(r.cached)
  /\ accepted[week] = NoReport /\ weighed[week] # {} /\ r.step = "link" => r.draft = display

\* A daemon that goes on consistently, and may write the display report once a report of the
\* week is accepted, keeps the invariant.
LEMMA DaemonMoves ==
  ASSUME WeeklyInv, NEW p \in Runners, NEW new, Consistent(new),
         runner' = [runner EXCEPT ![p] = new],
         \/ display' = display
         \/ /\ display' \in Policy /\ display'.week <= week
            /\ accepted[week] = NoReport => weighed[week] = {},
         UNCHANGED <<week, scored, accepted, weighed>>
  PROVE  WeeklyInv'
<1>. USE DEF WeeklyInv
<1>1. /\ runner'[p] = new
      /\ \A o \in Runners \ {p} : runner'[o] = runner[o]
      /\ runner' \in [Runners -> Daemon]
  BY DEF WeeklyTyped, Consistent
<1>2. WeeklyTyped'
  BY <1>1 DEF WeeklyTyped
<1>3. NothingAhead'
  BY <1>1 DEF NothingAhead, Consistent
<1>4. \A o \in Runners : CadenceKnows(runner[o])'
  <2>1. CadenceKnows(new)'
    BY DEF Consistent, CadenceKnows
  <2>. SUFFICES ASSUME NEW o \in Runners PROVE CadenceKnows(runner[o])'
    OBVIOUS
  <2>2. CadenceKnows(runner[o])
    OBVIOUS
  <2>. QED  BY <1>1, <2>1, <2>2 DEF CadenceKnows
<1>5. OwnWeek'
  BY DEF OwnWeek
<1>6. OneSettled'
  <2>1. \A r : Settled(r)' => Settled(r)
    <3>. SUFFICES ASSUME NEW r, Settled(r)' PROVE Settled(r)
      OBVIOUS
    <3>1. r \in Policy /\ r.week = week
      BY DEF Settled
    <3>2. CASE r = accepted[week] \/ r \in weighed[week]
      BY <3>1, <3>2 DEF Settled
    <3>3. ASSUME NEW o \in Runners, runner'[o].step = "display", r = runner'[o].draft
          PROVE  Settled(r)
      BY <1>1, <3>1, <3>3 DEF Settled, Consistent
    <3>4. ASSUME NEW o \in Runners, r = runner'[o].cached
          PROVE  Settled(r)
      BY <1>1, <3>1, <3>4 DEF Settled, Consistent
    <3>. QED  BY <3>2, <3>3, <3>4 DEF Settled
  <2>. QED  BY <2>1 DEF OneSettled
<1>7. OlderReport'
  BY <1>1 DEF OlderReport, Consistent
<1>8. UsedOnce'
  BY DEF UsedOnce
<1>. QED  BY <1>2, <1>3, <1>4, <1>5, <1>6, <1>7, <1>8

\* A daemon of the invariant is consistent as it is.
LEMMA DaemonConsistent ==
  ASSUME WeeklyInv, NEW p \in Runners
  PROVE  Consistent(runner[p])
<1>. DEFINE r == runner[p]
<1>. USE DEF WeeklyInv
<1>1. r \in Daemon /\ CadenceKnows(r)
  BY DEF WeeklyTyped
<1>2. r.at <= week /\ r.draft.week <= week /\ r.cached.week <= week
  BY DEF NothingAhead
<1>3. week \in 1..LastWeek
  BY DEF WeeklyTyped
<1>4. r.step = "display" /\ r.draft.week = week => Settled(r.draft)
  BY <1>1, <1>3, Sentinels DEF Settled, Daemon
<1>5. r.cached.week = week => Settled(r.cached)
  BY <1>1, <1>3, Sentinels DEF Settled, Daemon
<1>. QED  BY <1>1, <1>2, <1>4, <1>5 DEF Consistent, OlderReport

\* _refresh_specialist_skill up to the accepted report, its failures and a restart.
LEMMA RefreshKeeps ==
  ASSUME WeeklyInv, NEW p \in Runners,
         Refresh(p) \/ Look(p) \/ Draft(p) \/ RefreshFails(p) \/ RestartRunner(p)
  PROVE  WeeklyInv'
<1>. DEFINE r == runner[p]
<1>1. r \in Daemon /\ Consistent(r) /\ CadenceKnows(r) /\ week \in 1..LastWeek
  BY DaemonConsistent DEF WeeklyInv, WeeklyTyped
<1>2. CASE Refresh(p)
  <2>1. PICK at : at = IF r.decided THEN r.at ELSE week
    OBVIOUS
  <2>2. PICK next : next = IF Cached(r, at) THEN NextStep(r) ELSE "look"
    OBVIOUS
  <2>3. PICK over \in BOOLEAN : over = (r.decided /\ ~Cached(r, at))
    BY <1>1 DEF Daemon, Cached
  <2>4. PICK new : new = [r EXCEPT !.at = at, !.step = next, !.decided = over]
    OBVIOUS
  <2>5. runner' = [runner EXCEPT ![p] = new]
        /\ UNCHANGED <<week, scored, accepted, display, weighed>>
    <3>1. runner' = [runner EXCEPT ![p] = [r EXCEPT !.at = at, !.step = next,
                       !.decided = r.decided /\ ~Cached(r, at)]]
      BY <1>1, <1>2, <2>1, <2>2, <2>3 DEF Refresh
    <3>. QED  BY <1>2, <2>2, <2>4, <2>3, <3>1 DEF Refresh
  <2>6. /\ new \in Daemon /\ new.at = at /\ at \in {r.at, week} /\ new.draft = r.draft
        /\ new.cached = r.cached /\ new.inForce = r.inForce
        /\ new.step = next /\ next \in {"idle", "look", "deciding"}
    <3>1. next \in {"idle", "look", "deciding"}
      BY <2>2 DEF NextStep
    <3>2. at \in 0..LastWeek /\ at \in {r.at, week}
      BY <1>1, <2>1 DEF Daemon
    <3>. QED  BY <1>1, <2>4, <2>3, <3>1, <3>2 DEF Daemon
  <2>7. new.step # "idle" => new.at \in 1..LastWeek
    <3>1. r.decided => r.step = "report"
      BY <1>2 DEF Refresh
    <3>2. r.decided => r.at \in 1..LastWeek
      BY <1>1, <3>1 DEF CadenceKnows
    <3>. QED  BY <1>1, <2>1, <2>6, <3>2
  <2>8. new.step = "deciding" => new.cached.week = new.at
    BY <2>2, <2>6 DEF Cached
  <2>9. CadenceKnows(new)
    BY <1>1, <2>6, <2>7, <2>8 DEF CadenceKnows
  <2>10. Consistent(new)
    BY <1>1, <2>6, <2>9 DEF Consistent
  <2>. QED  BY <2>5, <2>10, DaemonMoves
<1>3. CASE Look(p)
  <2>1. PICK new : new = [r EXCEPT !.step = IF accepted[r.at] = NoReport THEN "draft" ELSE "read"]
    OBVIOUS
  <2>2. runner' = [runner EXCEPT ![p] = new]
        /\ UNCHANGED <<week, scored, accepted, display, weighed>>
    BY <1>3, <2>1 DEF Look
  <2>3. /\ new \in Daemon /\ new.at = r.at /\ new.draft = r.draft
        /\ new.cached = r.cached /\ new.inForce = r.inForce
        /\ new.step \in {"draft", "read"}
        /\ new.step = "read" => accepted[r.at] # NoReport
    BY <1>1, <2>1 DEF Daemon
  <2>4. r.step = "look"
    BY <1>3 DEF Look
  <2>5. CadenceKnows(new)
    BY <1>1, <2>3, <2>4 DEF CadenceKnows
  <2>6. Consistent(new)
    BY <1>1, <2>3, <2>5 DEF Consistent
  <2>. QED  BY <2>2, <2>6, DaemonMoves
<1>4. CASE Draft(p)
  <2>1. PICK new : new = [r EXCEPT !.step = "link", !.draft = Drafted(r.at)]
    OBVIOUS
  <2>2. runner' = [runner EXCEPT ![p] = new]
        /\ UNCHANGED <<week, scored, accepted, display, weighed>>
    BY <1>1, <1>4, <2>1 DEF Draft, Daemon
  <2>3. r.step = "draft" /\ r.at \in 1..LastWeek
    BY <1>1, <1>4 DEF Draft, CadenceKnows
  <2>4. Drafted(r.at) \in Policy /\ Drafted(r.at).week = r.at
    <3>1. display \in Policy \cup {NoReport} /\ scored \in Nat
      BY DEF WeeklyInv, WeeklyTyped
    <3>2. [week |-> r.at, basis |-> scored] \in Policy
      BY <2>3, <3>1 DEF Policy
    <3>. QED  BY <2>3, <3>1, <3>2, Sentinels, WeeklyAssumption DEF Drafted
  <2>5. /\ new \in Daemon /\ new.at = r.at /\ new.draft = Drafted(r.at)
        /\ new.cached = r.cached /\ new.inForce = r.inForce
        /\ new.step = "link"
    BY <1>1, <2>1, <2>4 DEF Daemon
  <2>6. CadenceKnows(new)
    BY <1>1, <2>3, <2>4, <2>5 DEF CadenceKnows
  <2>7. accepted[week] = NoReport /\ weighed[week] # {} => Drafted(r.at) = display
    <3>1. ASSUME accepted[week] = NoReport, weighed[week] # {} PROVE Drafted(r.at) = display
      <4>1. week = 1 /\ display \in weighed[week] /\ OwnWeek
        BY <3>1 DEF WeeklyInv, OlderReport
      <4>2. r.at = 1 /\ display.week = 1
        BY <1>1, <2>3, <4>1 DEF Consistent, OwnWeek
      <4>. QED  BY <4>2 DEF Drafted
    <3>. QED  BY <3>1
  <2>8. Consistent(new)
    BY <1>1, <2>3, <2>4, <2>5, <2>6, <2>7 DEF Consistent
  <2>. QED  BY <2>2, <2>8, DaemonMoves
<1>5. CASE RefreshFails(p)
  <2>1. PICK new : new = [r EXCEPT !.step = NextStep(r), !.draft = NoReport, !.cached = NoReport,
                                   !.decided = FALSE, !.inForce = AfterFailure(r)]
    OBVIOUS
  <2>2. runner' = [runner EXCEPT ![p] = new]
        /\ UNCHANGED <<week, scored, accepted, display, weighed>>
    BY <1>5, <2>1 DEF RefreshFails
  <2>3. r.step # "idle"
    BY <1>5 DEF RefreshFails
  <2>4. /\ new \in Daemon /\ new.at = r.at /\ new.draft = NoReport
        /\ new.cached = NoReport /\ new.inForce = NoReport
        /\ new.step \in {"idle", "deciding"}
    BY <1>1, <2>1 DEF Daemon, NextStep, AfterFailure
  <2>5. CadenceKnows(new)
    BY <1>1, <2>3, <2>4 DEF CadenceKnows
  <2>6. Consistent(new)
    BY <1>1, <2>4, <2>5, Sentinels DEF Consistent
  <2>. QED  BY <2>2, <2>6, DaemonMoves
<1>6. CASE RestartRunner(p)
  <2>1. runner' = [runner EXCEPT ![p] = Booted]
        /\ UNCHANGED <<week, scored, accepted, display, weighed>>
    BY <1>6 DEF RestartRunner
  <2>2. Booted \in Daemon /\ Booted.cached = NoReport /\ Booted.inForce = NoReport
        /\ Booted.draft = NoReport /\ Booted.at = 0 /\ Booted.step = "idle"
    BY WeeklyAssumption DEF Booted, Daemon
  <2>3. Consistent(Booted)
    BY <1>1, <2>2, Sentinels DEF Consistent, CadenceKnows
  <2>. QED  BY <2>1, <2>3, DaemonMoves
<1>. QED  BY <1>2, <1>3, <1>4, <1>5, <1>6

\* Reading the accepted report back, and the display file that follows it.
LEMMA ReadKeeps ==
  ASSUME WeeklyInv, NEW p \in Runners, ReadBack(p) \/ Display(p)
  PROVE  WeeklyInv'
<1>. DEFINE r == runner[p]
<1>1. /\ r \in Daemon /\ Consistent(r) /\ CadenceKnows(r) /\ week \in 1..LastWeek
      /\ accepted \in [1..LastWeek -> Policy \cup {NoReport, Damaged}]
  BY DaemonConsistent DEF WeeklyInv, WeeklyTyped
<1>2. CASE ReadBack(p)
  <2>1. PICK new : new = [r EXCEPT !.step = "display", !.draft = accepted[r.at]]
    OBVIOUS
  <2>2. runner' = [runner EXCEPT ![p] = new]
        /\ UNCHANGED <<week, scored, accepted, display, weighed>>
    BY <1>1, <1>2, <2>1 DEF ReadBack, Daemon
  <2>3. r.step = "read" /\ r.at \in 1..LastWeek /\ accepted[r.at] # Damaged
    BY <1>1, <1>2 DEF ReadBack, CadenceKnows
  <2>4. accepted[r.at] \in Policy /\ accepted[r.at].week = r.at
    BY <1>1, <2>3 DEF CadenceKnows, WeeklyInv, OwnWeek
  <2>5. /\ new \in Daemon /\ new.at = r.at /\ new.draft = accepted[r.at]
        /\ new.cached = r.cached /\ new.inForce = r.inForce
        /\ new.step = "display"
    BY <1>1, <2>1, <2>4 DEF Daemon
  <2>6. CadenceKnows(new)
    BY <1>1, <2>3, <2>4, <2>5 DEF CadenceKnows
  <2>7. new.draft.week = week => Settled(new.draft)
    BY <2>4, <2>5 DEF Settled
  <2>8. Consistent(new)
    BY <1>1, <2>3, <2>4, <2>5, <2>6, <2>7 DEF Consistent
  <2>. QED  BY <2>2, <2>8, DaemonMoves
<1>3. CASE Display(p)
  <2>1. PICK new : new = [r EXCEPT !.step = NextStep(r), !.draft = NoReport, !.cached = r.draft,
                                   !.decided = FALSE, !.inForce = r.draft]
    OBVIOUS
  <2>2. runner' = [runner EXCEPT ![p] = new] /\ UNCHANGED <<week, scored, accepted, weighed>>
    BY <1>3, <2>1 DEF Display
  <2>3. /\ r.step = "display" /\ display' = r.draft /\ r.at \in 1..LastWeek
        /\ r.draft \in Policy /\ r.draft.week = r.at /\ accepted[r.at] # NoReport
        /\ r.draft.week <= week
    BY <1>1, <1>3 DEF Display, CadenceKnows, Consistent
  <2>4. /\ new \in Daemon /\ new.at = r.at /\ new.draft = NoReport
        /\ new.cached = r.draft /\ new.inForce = r.draft
        /\ new.step \in {"idle", "deciding"}
    BY <1>1, <2>1 DEF Daemon, NextStep
  <2>5. CadenceKnows(new)
    BY <2>3, <2>4 DEF CadenceKnows
  <2>6. Consistent(new)
    BY <1>1, <2>3, <2>4, <2>5, Sentinels DEF Consistent
  <2>7. accepted[week] = NoReport => weighed[week] = {}
    <3>. SUFFICES ASSUME accepted[week] = NoReport, weighed[week] # {} PROVE FALSE
      OBVIOUS
    <3>1. week = 1
      BY DEF WeeklyInv, OlderReport
    <3>2. r.at = week
      BY <2>3, <3>1
    <3>. QED  BY <2>3, <3>2
  <2>. QED  BY <2>2, <2>3, <2>6, <2>7, DaemonMoves
<1>. QED  BY <1>2, <1>3

\* link(): the first report of a week stays.
LEMMA PublishKeeps ==
  ASSUME WeeklyInv, NEW p \in Runners, Publish(p)
  PROVE  WeeklyInv'
<1>. DEFINE r == runner[p]
            w == r.at
<1>. USE DEF WeeklyInv
<1>1. /\ r \in Daemon /\ CadenceKnows(r) /\ week \in 1..LastWeek
      /\ accepted \in [1..LastWeek -> Policy \cup {NoReport, Damaged}]
  BY DEF WeeklyTyped
<1>2. /\ r.step = "link" /\ w \in 1..LastWeek /\ r.draft \in Policy /\ r.draft.week = w
      /\ w <= week
  BY <1>1 DEF Publish, CadenceKnows, NothingAhead
<1>3. PICK new : new = [r EXCEPT !.step = "read"]
  OBVIOUS
<1>4. runner' = [runner EXCEPT ![p] = new] /\ UNCHANGED <<week, scored, display, weighed>>
  BY <1>3 DEF Publish
<1>5. /\ new \in Daemon /\ new.at = w /\ new.draft = r.draft
      /\ new.cached = r.cached /\ new.inForce = r.inForce /\ new.step = "read"
  BY <1>1, <1>3 DEF Daemon
<1>6. /\ accepted' \in [1..LastWeek -> Policy \cup {NoReport, Damaged}]
      /\ accepted'[w] # NoReport
      /\ accepted[w] # NoReport => accepted'[w] = accepted[w]
      /\ accepted[w] = NoReport => accepted'[w] = r.draft
      /\ \A v \in 1..LastWeek \ {w} : accepted'[v] = accepted[v]
  BY <1>1, <1>2, Sentinels DEF Publish, Linked
<1>7. /\ runner'[p] = new
      /\ \A o \in Runners \ {p} : runner'[o] = runner[o]
      /\ runner' \in [Runners -> Daemon]
  BY <1>4, <1>5 DEF WeeklyTyped
<1>8. \A v \in 1..LastWeek : accepted[v] # NoReport => accepted'[v] # NoReport
  BY <1>6
<1>9. WeeklyTyped'
  BY <1>4, <1>6, <1>7 DEF WeeklyTyped
<1>10. NothingAhead'
  BY <1>1, <1>2, <1>4, <1>5, <1>6, <1>7 DEF NothingAhead
<1>11. \A o \in Runners : CadenceKnows(runner[o])'
  <2>1. CadenceKnows(new)'
    BY <1>1, <1>2, <1>5, <1>6, <1>8 DEF CadenceKnows, Policy, Daemon
  <2>. SUFFICES ASSUME NEW o \in Runners PROVE CadenceKnows(runner[o])'
    OBVIOUS
  <2>2. CadenceKnows(runner[o]) /\ runner[o] \in Daemon
    BY DEF WeeklyTyped
  <2>. QED  BY <1>7, <1>8, <2>1, <2>2 DEF CadenceKnows, Policy, Daemon
<1>12. OwnWeek'
  BY <1>2, <1>4, <1>6 DEF OwnWeek
<1>13. OneSettled'
  <2>1. CASE w # week \/ accepted[week] # NoReport
    <3>1. accepted'[week] = accepted[week]
      BY <1>1, <1>6, <2>1
    <3>2. \A q : Settled(q)' => Settled(q)
      BY <1>4, <1>5, <1>7, <3>1 DEF Settled
    <3>. QED  BY <3>2 DEF OneSettled
  <2>2. CASE w = week /\ accepted[week] = NoReport
    <3>. SUFFICES ASSUME NEW q, Settled(q)' PROVE q = r.draft
      BY DEF OneSettled
    <3>1. q \in Policy /\ q.week = week
      BY <1>4 DEF Settled
    <3>2. CASE q = accepted'[week]
      BY <1>6, <2>2, <3>2
    <3>3. ASSUME NEW o \in Runners, runner'[o].step = "display", q = runner'[o].draft PROVE FALSE
      <4>1. o # p /\ CadenceKnows(runner[o]) /\ runner[o].step = "display" /\ q = runner[o].draft
        BY <1>5, <1>7, <3>3
      <4>. QED  BY <2>2, <3>1, <4>1 DEF CadenceKnows
    <3>4. ASSUME NEW o \in Runners, q = runner'[o].cached PROVE FALSE
      <4>1. CadenceKnows(runner[o]) /\ q = runner[o].cached
        BY <1>5, <1>7, <3>4
      <4>. QED  BY <2>2, <3>1, <4>1, Sentinels DEF CadenceKnows
    <3>5. CASE q \in weighed[week]
      <4>1. display \in weighed[week] /\ r.draft = display
        BY <1>2, <2>2, <3>5 DEF OlderReport
      <4>. QED  BY <1>1, <3>5, <4>1 DEF UsedOnce
    <3>. QED  BY <1>4, <3>2, <3>3, <3>4, <3>5 DEF Settled
  <2>. QED  BY <2>1, <2>2
<1>14. OlderReport'
  BY <1>1, <1>4, <1>5, <1>6, <1>7 DEF OlderReport
<1>15. UsedOnce'
  BY <1>4 DEF UsedOnce
<1>. QED  BY <1>9, <1>10, <1>11, <1>12, <1>13, <1>14, <1>15

\* The decisions of a cadence use the policy in force.
LEMMA DecideKeeps ==
  ASSUME WeeklyInv, NEW p \in Runners, DecideWeighed(p)
  PROVE  WeeklyInv'
<1>. DEFINE r == runner[p]
            w == r.at
<1>. USE DEF WeeklyInv
<1>1. r \in Daemon /\ CadenceKnows(r) /\ week \in 1..LastWeek
      /\ weighed \in [1..LastWeek -> SUBSET Policy]
  BY DEF WeeklyTyped
<1>2. r.step = "deciding" /\ w \in 1..LastWeek /\ w <= week
  BY <1>1 DEF DecideWeighed, CadenceKnows, NothingAhead
<1>3. PICK new : new = [r EXCEPT !.step = "report", !.decided = TRUE]
  OBVIOUS
<1>4. runner' = [runner EXCEPT ![p] = new] /\ UNCHANGED <<week, scored, accepted, display>>
  BY <1>1, <1>3 DEF DecideWeighed, Daemon, WeeklyTyped
<1>5. /\ new \in Daemon /\ new.at = w /\ new.draft = r.draft
      /\ new.cached = r.cached /\ new.inForce = r.inForce /\ new.step = "report"
  BY <1>1, <1>3 DEF Daemon
<1>6. PICK used : used = IF w = week THEN {r.inForce} \ {NoReport} ELSE {}
  OBVIOUS
<1>7. \A q \in used : w = week /\ Settled(q) /\ accepted[week] # NoReport
  <2>. SUFFICES ASSUME NEW q \in used PROVE w = week /\ Settled(q) /\ accepted[week] # NoReport
    OBVIOUS
  <2>1. w = week /\ q = r.cached /\ q # NoReport
    BY <1>1, <1>6 DEF CadenceKnows
  <2>2. q \in Policy /\ q.week = week /\ accepted[week] # NoReport
    BY <1>1, <1>2, <2>1 DEF CadenceKnows, Daemon
  <2>. QED  BY <2>1, <2>2 DEF Settled
<1>8. weighed' = [weighed EXCEPT ![w] = weighed[w] \cup used]
  BY <1>1, <1>6 DEF DecideWeighed
<1>9. /\ weighed' \in [1..LastWeek -> SUBSET Policy]
      /\ weighed'[w] = weighed[w] \cup used
      /\ \A v \in 1..LastWeek \ {w} : weighed'[v] = weighed[v]
      /\ w # week => weighed'[w] = weighed[w]
  BY <1>1, <1>2, <1>7, <1>8 DEF Settled
<1>10. /\ runner'[p] = new
       /\ \A o \in Runners \ {p} : runner'[o] = runner[o]
       /\ runner' \in [Runners -> Daemon]
  BY <1>4, <1>5 DEF WeeklyTyped
<1>11. WeeklyTyped'
  BY <1>4, <1>9, <1>10 DEF WeeklyTyped
<1>12. NothingAhead'
  BY <1>1, <1>2, <1>4, <1>5, <1>9, <1>10 DEF NothingAhead
<1>13. \A o \in Runners : CadenceKnows(runner[o])'
  <2>1. CadenceKnows(new)'
    BY <1>1, <1>2, <1>4, <1>5 DEF CadenceKnows
  <2>. SUFFICES ASSUME NEW o \in Runners PROVE CadenceKnows(runner[o])'
    OBVIOUS
  <2>2. CadenceKnows(runner[o])
    OBVIOUS
  <2>. QED  BY <1>4, <1>10, <2>1, <2>2 DEF CadenceKnows
<1>14. OwnWeek'
  <2>. SUFFICES ASSUME NEW v \in 1..LastWeek, NEW q \in weighed'[v] PROVE q.week = v
    BY <1>4 DEF OwnWeek
  <2>1. CASE q \in weighed[v]
    BY <2>1 DEF OwnWeek
  <2>2. CASE q \notin weighed[v]
    <3>1. v = w /\ q \in used
      BY <1>9, <2>2
    <3>. QED  BY <1>7, <3>1 DEF Settled
  <2>. QED  BY <2>1, <2>2
<1>15. \A q : Settled(q)' => Settled(q)
  <2>. SUFFICES ASSUME NEW q, Settled(q)' PROVE Settled(q)
    OBVIOUS
  <2>1. q \in Policy /\ q.week = week
    BY <1>4 DEF Settled
  <2>2. CASE q \in weighed'[week]
    <3>1. q \in weighed[week] \/ q \in used
      BY <1>1, <1>9, <2>2
    <3>. QED  BY <1>7, <2>1, <3>1 DEF Settled
  <2>3. CASE q \notin weighed'[week]
    BY <1>4, <1>5, <1>10, <2>3 DEF Settled
  <2>. QED  BY <2>2, <2>3
<1>16. OneSettled'
  BY <1>15 DEF OneSettled
<1>17. OlderReport'
  <2>. SUFFICES ASSUME accepted[week] = NoReport, weighed'[week] # {}
                PROVE  week = 1 /\ display \in weighed'[week]
                       /\ \A o \in Runners : runner'[o].step = "link" => runner'[o].draft = display
    BY <1>4 DEF OlderReport
  <2>1. used = {} /\ weighed'[week] = weighed[week]
    BY <1>1, <1>7, <1>9
  <2>. QED  BY <1>5, <1>10, <2>1 DEF OlderReport
<1>18. UsedOnce'
  <2>. SUFFICES ASSUME NEW v \in 1..LastWeek, NEW q1 \in weighed'[v], NEW q2 \in weighed'[v]
                PROVE  q1 = q2
    BY DEF UsedOnce
  <2>1. CASE v = week
    <3>1. q1 \in Policy /\ q2 \in Policy /\ q1.week = week /\ q2.week = week
      BY <1>9, <1>14, <2>1 DEF OwnWeek
    <3>2. Settled(q1)' /\ Settled(q2)'
      BY <1>4, <2>1, <3>1 DEF Settled
    <3>. QED  BY <1>15, <3>2 DEF OneSettled
  <2>2. CASE v # week
    <3>1. weighed'[v] = weighed[v]
      BY <1>9, <2>2
    <3>. QED  BY <3>1 DEF UsedOnce
  <2>. QED  BY <2>1, <2>2
<1>. QED  BY <1>11, <1>12, <1>13, <1>14, <1>16, <1>17, <1>18

\* A new week, a late return and a damaged file.
LEMMA WeekKeeps ==
  ASSUME WeeklyInv,
         NextWeek \/ ReturnsChange \/ \E w \in 1..LastWeek : Damage(w)
  PROVE  WeeklyInv'
<1>. USE DEF WeeklyInv
<1>1. week \in 1..LastWeek /\ \A p \in Runners : runner[p] \in Daemon
  BY DEF WeeklyTyped
<1>2. CASE NextWeek
  <2>1. week' = week + 1 /\ week' \in 1..LastWeek
        /\ UNCHANGED <<scored, accepted, display, runner, weighed>>
    BY <1>1, <1>2, WeeklyAssumption DEF NextWeek
  <2>2. WeeklyTyped'
    BY <2>1 DEF WeeklyTyped
  <2>3. NothingAhead'
    <3>1. display.week \in Int
      BY Sentinels DEF WeeklyTyped, Policy
    <3>2. \A p \in Runners : runner[p].at \in Int /\ runner[p].draft.week \in Int
                             /\ runner[p].cached.week \in Int
      BY <1>1, Sentinels DEF Policy, Daemon
    <3>. QED  BY <1>1, <2>1, <3>1, <3>2 DEF NothingAhead
  <2>4. (\A p \in Runners : CadenceKnows(runner[p]))'
    BY <2>1 DEF CadenceKnows
  <2>5. OwnWeek'
    BY <2>1 DEF OwnWeek
  <2>6. accepted[week'] = NoReport /\ weighed[week'] = {}
    BY <1>1, <2>1 DEF NothingAhead
  <2>7. OneSettled'
    <3>. SUFFICES ASSUME NEW q, Settled(q)' PROVE FALSE
      BY DEF OneSettled
    <3>1. q \in Policy /\ q.week = week + 1
      BY <2>1 DEF Settled
    <3>2. \A p \in Runners : runner[p].draft.week <= week /\ runner[p].cached.week <= week
      BY DEF NothingAhead
    <3>. QED  BY <1>1, <2>1, <2>6, <3>1, <3>2, Sentinels DEF Settled
  <2>8. OlderReport' /\ UsedOnce'
    BY <2>1, <2>6 DEF OlderReport, UsedOnce
  <2>. QED  BY <2>2, <2>3, <2>4, <2>5, <2>7, <2>8
<1>3. CASE ReturnsChange
  <2>1. scored' = scored + 1 /\ UNCHANGED <<week, accepted, display, runner, weighed>>
    BY <1>3 DEF ReturnsChange
  <2>2. WeeklyTyped'
    BY <2>1 DEF WeeklyTyped
  <2>3. (NothingAhead /\ OwnWeek /\ OneSettled /\ OlderReport /\ UsedOnce)'
    BY <2>1 DEF NothingAhead, OwnWeek, OneSettled, Settled, OlderReport, UsedOnce
  <2>4. (\A p \in Runners : CadenceKnows(runner[p]))'
    BY <2>1 DEF CadenceKnows
  <2>. QED  BY <2>2, <2>3, <2>4
<1>4. ASSUME NEW w \in 1..LastWeek, Damage(w) PROVE WeeklyInv'
  <2>1. /\ accepted[w] # NoReport /\ accepted' = [accepted EXCEPT ![w] = Damaged]
        /\ UNCHANGED <<week, scored, display, runner, weighed>>
    BY <1>4 DEF Damage
  <2>2. /\ accepted' \in [1..LastWeek -> Policy \cup {NoReport, Damaged}]
        /\ accepted'[w] = Damaged
        /\ \A v \in 1..LastWeek \ {w} : accepted'[v] = accepted[v]
    BY <2>1 DEF WeeklyTyped
  <2>3. \A v \in 1..LastWeek : accepted'[v] = NoReport <=> accepted[v] = NoReport
    BY <2>1, <2>2, Sentinels
  <2>4. WeeklyTyped'
    BY <2>1, <2>2 DEF WeeklyTyped
  <2>5. NothingAhead'
    BY <2>1, <2>3 DEF NothingAhead
  <2>6. (\A p \in Runners : CadenceKnows(runner[p]))'
    BY <1>1, <2>1, <2>3 DEF CadenceKnows, Daemon, Policy
  <2>7. OwnWeek'
    BY <2>1, <2>2, Sentinels DEF OwnWeek
  <2>8. OneSettled'
    <3>1. \A q : Settled(q)' => Settled(q)
      BY <1>1, <2>1, <2>2, Sentinels DEF Settled
    <3>. QED  BY <3>1 DEF OneSettled
  <2>9. OlderReport' /\ UsedOnce'
    BY <1>1, <2>1, <2>3 DEF OlderReport, UsedOnce
  <2>. QED  BY <2>4, <2>5, <2>6, <2>7, <2>8, <2>9
<1>. QED  BY <1>2, <1>3, <1>4

\* The records of the weekly policy are consistent.
THEOREM WeeklyRecords == WeeklySpec => []WeeklyInv
<1>1. WeeklyInit => WeeklyInv
  BY WeeklyStart
<1>2. WeeklyInv /\ [WeeklyNext]_weeklyVars => WeeklyInv'
  <2>. SUFFICES ASSUME WeeklyInv, [WeeklyNext]_weeklyVars PROVE WeeklyInv'
    OBVIOUS
  <2>1. CASE UNCHANGED weeklyVars
    BY <2>1 DEF weeklyVars, WeeklyInv, WeeklyTyped, NothingAhead, CadenceKnows, OwnWeek,
                OneSettled, Settled, OlderReport, UsedOnce
  <2>2. CASE WeeklyNext
    BY <2>2, RefreshKeeps, ReadKeeps, PublishKeeps, DecideKeeps, WeekKeeps DEF WeeklyNext
  <2>. QED  BY <2>1, <2>2
<1>. QED  BY <1>1, <1>2, PTL DEF WeeklySpec

\* OnePolicyPerWeek: all decisions of a week, of every daemon and across restarts, failed
\* rollovers and late returns, are weighted by one policy of that week or by none
\* (specialist_skill.py accepted_weekly_report, daemon.py _refresh_specialist_skill).
THEOREM PolicyHolds == WeeklySpec => []OnePolicyPerWeek
<1>1. WeeklyInv => OnePolicyPerWeek
  <2>. SUFFICES ASSUME WeeklyInv, NEW w \in 1..LastWeek
                PROVE  Cardinality(weighed[w]) <= 1 /\ \A r \in weighed[w] : r.week = w
    BY DEF OnePolicyPerWeek
  <2>1. \A r1, r2 \in weighed[w] : r1 = r2
    BY DEF WeeklyInv, UsedOnce
  <2>2. CASE weighed[w] = {}
    BY <2>2, FS_EmptySet DEF WeeklyInv, OwnWeek
  <2>3. ASSUME NEW r \in weighed[w]
        PROVE  Cardinality(weighed[w]) <= 1
    <3>1. weighed[w] = {r}
      BY <2>1
    <3>2. Cardinality({r}) = 1
      BY FS_Singleton
    <3>. QED  BY <3>1, <3>2
  <2>. QED  BY <2>2, <2>3 DEF WeeklyInv, OwnWeek
<1>. QED  BY <1>1, WeeklyRecords, PTL

-----------------------------------------------------------------------------
(* The renewed broker session.                                             *)

Issued == [account : Accounts, day : Int]
EnvFile == [session : Nat, account : Accounts \cup {NoAccount}, edits : Nat, identity : Nat]
PublisherStep ==
  {Waiting}
  \cup [step : {"lock"}, session : Nat]
  \cup [step : {"validate", "compare"}, session : Nat, before : EnvFile]
  \cup [step : {"rename"}, session : Nat, before : EnvFile, overtaken : BOOLEAN]

RenewalTyped ==
  /\ cutoff \in Int
  /\ logins \in Seq(Issued)
  /\ env \in EnvFile
  /\ env.session <= Len(logins)
  /\ publisher \in [Publishers -> PublisherStep]

Holding == {"validate", "compare", "rename"}

\* s is a session that was issued, and the file holds none that its account got later.
NothingLater(s) ==
  env.session > s => logins[env.session].account # logins[s].account

\* What a publisher knows at each step.  It holds the lock from its reading on, so no other
\* publisher writes; the broker then told it that its session is its account's last; and the
\* copy it renames was compared with the file, which only an editor can have changed since.
PublisherKnows(p, r) ==
  /\ r.step # "idle" => r.session \in 1..Len(logins)
  /\ r.step \in Holding =>
       /\ locked = p
       /\ r.before.session = env.session
       /\ r.before.account \in {NoAccount, logins[r.session].account}
  /\ r.step \in {"compare", "rename"} => NothingLater(r.session)
  /\ r.step = "rename" => r.overtaken \/ r.before = env

RenewalInv == RenewalTyped /\ \A p \in Publishers : PublisherKnows(p, publisher[p])

\* Each kind of progress has its fields.
LEMMA ProgressShape ==
  ASSUME NEW r \in PublisherStep
  PROVE  /\ r.step \in {"idle", "lock", "validate", "compare", "rename"}
         /\ r.step = "idle" => r = Waiting
         /\ r.step # "idle" => r.session \in Nat
         /\ r.step \in Holding => r.before \in EnvFile
         /\ r.step = "rename" => r.overtaken \in BOOLEAN
BY DEF PublisherStep, Waiting, Holding

\* A publisher that goes on or lets go, while the file stays.
LEMMA PublisherMoves ==
  ASSUME RenewalInv, NEW p \in Publishers, NEW new \in PublisherStep,
         publisher' = [publisher EXCEPT ![p] = new],
         new.step # "idle" => new.session \in 1..Len(logins),
         new.step \in Holding =>
           /\ locked' = p
           /\ new.before.session = env.session
           /\ new.before.account \in {NoAccount, logins[new.session].account},
         new.step \in {"compare", "rename"} => NothingLater(new.session),
         new.step = "rename" => new.overtaken \/ new.before = env,
         \A o \in Publishers \ {p} : locked = o => locked' = o,
         UNCHANGED <<cutoff, logins, env>>
  PROVE  RenewalInv'
<1>. USE DEF RenewalInv
<1>1. /\ publisher'[p] = new
      /\ \A o \in Publishers \ {p} : publisher'[o] = publisher[o]
      /\ publisher' \in [Publishers -> PublisherStep]
  BY DEF RenewalTyped
<1>2. RenewalTyped'
  BY <1>1 DEF RenewalTyped
<1>3. PublisherKnows(p, new)'
  BY DEF PublisherKnows, NothingLater
<1>4. ASSUME NEW o \in Publishers \ {p} PROVE PublisherKnows(o, publisher[o])'
  <2>1. PublisherKnows(o, publisher[o])
    OBVIOUS
  <2>. QED  BY <1>1, <2>1 DEF PublisherKnows, NothingLater
<1>. QED  BY <1>1, <1>2, <1>3, <1>4

\* Letting go leaves the lock to whoever has it.
LEMMA LetGoKeeps ==
  ASSUME RenewalInv, NEW p \in Publishers, LetGo(p), UNCHANGED <<cutoff, logins, env>>
  PROVE  RenewalInv'
<1>1. Waiting \in PublisherStep /\ Waiting.step = "idle"
  BY DEF PublisherStep, Waiting
<1>2. publisher' = [publisher EXCEPT ![p] = Waiting]
  BY DEF LetGo
<1>3. \A o \in Publishers \ {p} : locked = o => locked' = o
  BY DEF LetGo
<1>. QED  BY <1>1, <1>2, <1>3, PublisherMoves DEF Holding

\* publish_to_env up to the rename.
LEMMA StoreKeeps ==
  ASSUME RenewalInv, NEW p \in Publishers,
         \/ \E session \in DOMAIN logins : BeginPublish(p, session)
         \/ ReadEnv(p) \/ ValidateSession(p) \/ CompareEnv(p) \/ PublisherDies(p)
  PROVE  RenewalInv'
<1>. DEFINE r == publisher[p]
<1>. USE DEF RenewalInv
<1>1. /\ r \in PublisherStep /\ PublisherKnows(p, r) /\ env \in EnvFile
      /\ logins \in Seq(Issued) /\ env.session <= Len(logins)
         /\ publisher \in [Publishers -> PublisherStep]
  BY DEF RenewalTyped
<1>2. ASSUME NEW session \in DOMAIN logins, BeginPublish(p, session) PROVE RenewalInv'
  <2>1. PICK new : new = [step |-> "lock", session |-> session]
    OBVIOUS
  <2>2. publisher' = [publisher EXCEPT ![p] = new] /\ UNCHANGED <<cutoff, logins, env, locked>>
    BY <1>2, <2>1 DEF BeginPublish
  <2>3. session \in 1..Len(logins) /\ session \in Nat
    BY <1>1, <1>2
  <2>4. new \in PublisherStep /\ new.step = "lock" /\ new.session = session
    BY <2>1, <2>3 DEF PublisherStep
  <2>. QED  BY <2>2, <2>3, <2>4, PublisherMoves DEF Holding
<1>3. CASE ReadEnv(p)
  <2>1. r.step = "lock" /\ locked = Nobody /\ UNCHANGED <<cutoff, logins, env>>
    BY <1>3 DEF ReadEnv, LockIsFree
  <2>2. CASE SameAccount(r.session)
    <3>1. PICK new : new = [step |-> "validate", session |-> r.session, before |-> env]
      OBVIOUS
    <3>2. publisher' = [publisher EXCEPT ![p] = new] /\ locked' = p
      BY <1>3, <2>2, <3>1 DEF ReadEnv
    <3>3. new \in PublisherStep /\ new.step = "validate" /\ new.session = r.session
          /\ new.before = env
      BY <1>1, <2>1, <3>1, ProgressShape DEF PublisherStep
    <3>4. r.session \in 1..Len(logins)
      BY <1>1, <2>1 DEF PublisherKnows
    <3>5. env.account \in {NoAccount, logins[r.session].account}
      BY <2>2 DEF SameAccount
    <3>6. \A o \in Publishers : locked # o
      BY <2>1, PublishersAssumption
    <3>. QED  BY <2>1, <3>2, <3>3, <3>4, <3>5, <3>6, PublisherMoves DEF Holding
  <2>3. CASE ~SameAccount(r.session)
    <3>1. LetGo(p)
      BY <1>3, <2>3 DEF ReadEnv
    <3>. QED  BY <2>1, <3>1, LetGoKeeps
  <2>. QED  BY <2>2, <2>3
<1>4. CASE ValidateSession(p)
  <2>1. r.step = "validate" /\ UNCHANGED <<cutoff, logins, env>>
    BY <1>4 DEF ValidateSession
  <2>2. CASE Alive(r.session) /\ locked' = locked
             /\ publisher' = [publisher EXCEPT ![p].step = "compare"]
    <3>1. PICK new : new = [r EXCEPT !.step = "compare"]
      OBVIOUS
    <3>2. publisher' = [publisher EXCEPT ![p] = new]
      BY <2>2, <3>1
    <3>3. r \in [step : {"validate", "compare"}, session : Nat, before : EnvFile]
      BY <1>1, <2>1 DEF PublisherStep, Waiting
    <3>4. new \in PublisherStep /\ new.step = "compare" /\ new.session = r.session
          /\ new.before = r.before
      BY <3>1, <3>3 DEF PublisherStep
    <3>5. /\ r.session \in 1..Len(logins) /\ locked = p /\ r.before.session = env.session
          /\ r.before.account \in {NoAccount, logins[r.session].account}
      BY <1>1, <2>1 DEF PublisherKnows, Holding
    <3>6. NothingLater(r.session)
      <4>1. env.session > r.session => env.session \in r.session + 1..Len(logins)
        BY <1>1, <3>5 DEF EnvFile
      <4>. QED  BY <2>2, <4>1 DEF Alive, NothingLater
    <3>. QED  BY <2>1, <2>2, <3>2, <3>4, <3>5, <3>6, PublisherMoves DEF Holding
  <2>3. CASE LetGo(p)
    BY <2>1, <2>3, LetGoKeeps
  <2>. QED  BY <1>4, <2>2, <2>3 DEF ValidateSession
<1>5. CASE CompareEnv(p)
  <2>1. r.step = "compare" /\ UNCHANGED <<cutoff, logins, env>>
    BY <1>5 DEF CompareEnv
  <2>2. CASE Unchanged(r.before) /\ locked' = locked
             /\ publisher' = [publisher EXCEPT ![p] =
                  [step |-> "rename", session |-> @.session, before |-> @.before,
                   overtaken |-> FALSE]]
    <3>1. PICK new : new = [step |-> "rename", session |-> r.session, before |-> r.before,
                            overtaken |-> FALSE]
      OBVIOUS
    <3>2. publisher' = [publisher EXCEPT ![p] = new]
      BY <2>2, <3>1
    <3>3. r.session \in Nat /\ r.before \in EnvFile
      BY <1>1, <2>1, ProgressShape DEF Holding
    <3>4. /\ new \in PublisherStep /\ new.step = "rename" /\ new.session = r.session
          /\ new.before = r.before
      BY <3>1, <3>3 DEF PublisherStep
    <3>5. /\ r.session \in 1..Len(logins) /\ locked = p /\ r.before.session = env.session
          /\ r.before.account \in {NoAccount, logins[r.session].account}
          /\ NothingLater(r.session)
      BY <1>1, <2>1 DEF PublisherKnows, Holding
    <3>6. new.before = env
      BY <2>2, <3>4 DEF Unchanged
    <3>. QED  BY <2>1, <2>2, <3>2, <3>4, <3>5, <3>6, PublisherMoves DEF Holding
  <2>3. CASE LetGo(p)
    BY <2>1, <2>3, LetGoKeeps
  <2>. QED  BY <1>5, <2>2, <2>3 DEF CompareEnv
<1>6. CASE PublisherDies(p)
  BY <1>6, LetGoKeeps DEF PublisherDies
<1>. QED  BY <1>2, <1>3, <1>4, <1>5, <1>6

\* The rename: the holder of the lock writes, everybody else is before its own reading.
LEMMA RenameKeeps ==
  ASSUME RenewalInv, NEW p \in Publishers, RenameCopy(p)
  PROVE  RenewalInv'
<1>. DEFINE r == publisher[p]
<1>. USE DEF RenewalInv
<1>1. /\ r \in PublisherStep /\ PublisherKnows(p, r) /\ env \in EnvFile
      /\ logins \in Seq(Issued) /\ publisher \in [Publishers -> PublisherStep]
  BY DEF RenewalTyped
<1>2. /\ r.step = "rename" /\ UNCHANGED <<cutoff, logins>>
      /\ publisher' = [publisher EXCEPT ![p] = Waiting]
      /\ env' = [session |-> r.session, account |-> logins[r.session].account,
                 edits |-> r.before.edits, identity |-> env.identity + 1]
  BY DEF RenameCopy, LetGo
<1>3. r.session \in 1..Len(logins) /\ locked = p /\ r.before \in EnvFile
  BY <1>1, <1>2, ProgressShape DEF PublisherKnows, Holding
<1>4. logins[r.session] \in Issued
  BY <1>1, <1>3, ElementOfSeq
<1>5. env' \in EnvFile /\ env'.session = r.session
  BY <1>1, <1>2, <1>3, <1>4 DEF EnvFile, Issued
<1>6. Waiting \in PublisherStep /\ Waiting.step = "idle"
  BY DEF PublisherStep, Waiting
<1>7. RenewalTyped'
  BY <1>1, <1>2, <1>3, <1>5, <1>6 DEF RenewalTyped
<1>8. ASSUME NEW o \in Publishers PROVE PublisherKnows(o, publisher[o])'
  <2>1. CASE o = p
    BY <1>1, <1>2, <1>6, <2>1 DEF PublisherKnows, Holding
  <2>2. CASE o # p
    <3>1. publisher'[o] = publisher[o] /\ PublisherKnows(o, publisher[o])
      BY <1>1, <1>2, <2>2
    <3>2. publisher[o].step \notin Holding
      BY <1>3, <2>2, <3>1 DEF PublisherKnows
    <3>. QED  BY <1>2, <3>1, <3>2 DEF PublisherKnows, Holding
  <2>. QED  BY <2>1, <2>2
<1>. QED  BY <1>7, <1>8

\* Logins only add; an editor leaves the session alone and marks whoever compared already.
LEMMA OthersKeep ==
  ASSUME RenewalInv,
         (\E account \in Accounts : Login(account)) \/ EditEnv \/ PassCutoff
  PROVE  RenewalInv'
<1>. USE DEF RenewalInv
<1>1. /\ env \in EnvFile /\ logins \in Seq(Issued) /\ env.session <= Len(logins)
      /\ publisher \in [Publishers -> PublisherStep] /\ cutoff \in Int
      /\ \A p \in Publishers : publisher[p] \in PublisherStep /\ PublisherKnows(p, publisher[p])
  BY DEF RenewalTyped
<1>2. ASSUME NEW account \in Accounts, Login(account) PROVE RenewalInv'
  <2>1. PICK new : new = [account |-> account, day |-> cutoff]
    OBVIOUS
  <2>2. logins' = Append(logins, new) /\ UNCHANGED <<cutoff, env, locked, publisher>>
    BY <1>2, <2>1 DEF Login
  <2>3. new \in Issued
    BY <1>1, <2>1 DEF Issued
  <2>4. /\ logins' \in Seq(Issued) /\ Len(logins') = Len(logins) + 1 /\ Len(logins) \in Nat
        /\ \A i \in 1..Len(logins) : logins'[i] = logins[i]
    BY <1>1, <2>2, <2>3, AppendProperties, LenProperties
  <2>5. RenewalTyped'
    BY <1>1, <2>2, <2>4 DEF RenewalTyped, EnvFile
  <2>6. ASSUME NEW p \in Publishers PROVE PublisherKnows(p, publisher[p])'
    <3>. DEFINE r == publisher[p]
    <3>1. PublisherKnows(p, r) /\ r \in PublisherStep
      BY <1>1
    <3>2. r.step # "idle" => /\ r.session \in 1..Len(logins')
                             /\ logins'[r.session] = logins[r.session]
      BY <2>4, <3>1 DEF PublisherKnows
    <3>3. r.step \in {"compare", "rename"} => NothingLater(r.session)'
      <4>. SUFFICES ASSUME r.step \in {"compare", "rename"}, env.session > r.session
                    PROVE  logins'[env.session].account # logins'[r.session].account
        BY <2>2 DEF NothingLater
      <4>1. NothingLater(r.session) /\ r.session \in 1..Len(logins)
        BY <3>1 DEF PublisherKnows
      <4>2. env.session \in 1..Len(logins)
        BY <1>1, <4>1 DEF EnvFile
      <4>. QED  BY <2>4, <4>1, <4>2 DEF NothingLater
    <3>. QED  BY <2>2, <3>1, <3>2, <3>3 DEF PublisherKnows, Holding
  <2>. QED  BY <2>5, <2>6
<1>3. CASE EditEnv
  <2>1. PICK account \in {env.account, NoAccount} :
          env' = [env EXCEPT !.account = account, !.edits = @ + 1, !.identity = @ + 1]
    BY <1>3 DEF EditEnv
  <2>2. env' \in EnvFile /\ env'.session = env.session
    <3>1. account \in Accounts \cup {NoAccount}
      BY <1>1, <2>1 DEF EnvFile
    <3>2. env' = [env EXCEPT !.account = account, !.edits = env.edits + 1,
                             !.identity = env.identity + 1]
      BY <2>1
    <3>3. env.edits + 1 \in Nat /\ env.identity + 1 \in Nat
      BY <1>1 DEF EnvFile
    <3>. QED  BY <1>1, <3>1, <3>2, <3>3 DEF EnvFile
  <2>3. /\ publisher' = [p \in Publishers |->
             IF publisher[p].step = "rename" THEN [publisher[p] EXCEPT !.overtaken = TRUE]
             ELSE publisher[p]]
        /\ UNCHANGED <<cutoff, logins, locked>>
    BY <1>3 DEF EditEnv
  <2>4. ASSUME NEW p \in Publishers
        PROVE  publisher'[p] \in PublisherStep /\ PublisherKnows(p, publisher[p])'
    <3>1. CASE publisher[p].step # "rename"
      <4>1. publisher'[p] = publisher[p]
        BY <2>3, <3>1
      <4>. QED  BY <1>1, <2>2, <2>3, <3>1, <4>1 DEF PublisherKnows, NothingLater
    <3>2. CASE publisher[p].step = "rename"
      <4>1. PICK new : new = [publisher[p] EXCEPT !.overtaken = TRUE]
        OBVIOUS
      <4>2. publisher'[p] = new
        BY <2>3, <3>2, <4>1
      <4>3. publisher[p]
              \in [step : {"rename"}, session : Nat, before : EnvFile, overtaken : BOOLEAN]
        BY <1>1, <3>2 DEF PublisherStep, Waiting
      <4>4. /\ new \in [step : {"rename"}, session : Nat, before : EnvFile, overtaken : BOOLEAN]
            /\ new.step = "rename" /\ new.session = publisher[p].session
            /\ new.before = publisher[p].before /\ new.overtaken
        BY <4>1, <4>3
      <4>5. PublisherKnows(p, publisher[p])
        BY <1>1
      <4>6. PublisherKnows(p, new)'
        BY <2>2, <2>3, <3>2, <4>4, <4>5 DEF PublisherKnows, NothingLater, Holding
      <4>. QED  BY <4>2, <4>4, <4>6 DEF PublisherStep
    <3>. QED  BY <3>1, <3>2
  <2>5. RenewalTyped'
    BY <1>1, <2>2, <2>3, <2>4 DEF RenewalTyped
  <2>. QED  BY <2>4, <2>5
<1>4. CASE PassCutoff
  <2>1. cutoff' = cutoff + 1 /\ UNCHANGED <<logins, env, locked, publisher>>
    BY <1>4 DEF PassCutoff
  <2>. QED  BY <1>1, <2>1 DEF RenewalTyped, PublisherKnows, NothingLater
<1>. QED  BY <1>2, <1>3, <1>4

\* One holder of the lock, who knows the file.
THEOREM RenewalRecords == RenewalSpec => []RenewalInv
<1>1. RenewalInit => RenewalInv
  <2>. SUFFICES ASSUME RenewalInit PROVE RenewalInv
    OBVIOUS
  <2>1. Waiting \in PublisherStep /\ Waiting.step = "idle"
    BY DEF PublisherStep, Waiting
  <2>2. env \in EnvFile /\ env.session = 0
    BY DEF RenewalInit, EnvFile
  <2>3. logins \in Seq(Issued) /\ Len(logins) = 0
    BY EmptySeq DEF RenewalInit
  <2>. QED  BY <2>1, <2>2, <2>3 DEF RenewalInit, RenewalInv, RenewalTyped, PublisherKnows, Holding
<1>2. RenewalInv /\ [RenewalNext]_renewalVars => RenewalInv'
  <2>. SUFFICES ASSUME RenewalInv, [RenewalNext]_renewalVars PROVE RenewalInv'
    OBVIOUS
  <2>1. CASE UNCHANGED renewalVars
    BY <2>1 DEF renewalVars, RenewalInv, RenewalTyped, PublisherKnows, NothingLater
  <2>2. CASE RenewalNext
    BY <2>2, StoreKeeps, RenameKeeps, OthersKeep DEF RenewalNext
  <2>. QED  BY <2>1, <2>2
<1>. QED  BY <1>1, <1>2, PTL DEF RenewalSpec

\* PublishKeepsFile: however publishers, logins and hand edits interleave, a writing of the
\* file never brings back an older session of an account and never takes the file to another
\* account unless an editor removed the first; it loses no hand edit but one made between
\* the comparison and the rename (zerodha_renewal.py publish_to_env).
THEOREM FileKept == RenewalSpec => PublishKeepsFile
<1>1. RenewalInv /\ [RenewalNext]_renewalVars => [WritingKeeps]_env
  <2>. SUFFICES ASSUME RenewalInv, RenewalNext PROVE env' = env \/ WritingKeeps
    BY DEF renewalVars
  <2>1. env \in EnvFile
    BY DEF RenewalInv, RenewalTyped
  <2>2. ASSUME NEW p \in Publishers, RenameCopy(p) PROVE WritingKeeps
    <3>. DEFINE r == publisher[p]
    <3>1. /\ r.step = "rename"
          /\ env' = [session |-> r.session, account |-> logins[r.session].account,
                     edits |-> r.before.edits, identity |-> env.identity + 1]
      BY <2>2 DEF RenameCopy
    <3>2. PublisherKnows(p, r) /\ r \in PublisherStep
      BY DEF RenewalInv, RenewalTyped
    <3>3. /\ r.session \in Nat /\ r.before \in EnvFile /\ NothingLater(r.session)
          /\ r.before.account \in {NoAccount, logins[r.session].account}
          /\ r.overtaken \/ r.before = env
      BY <3>1, <3>2, ProgressShape DEF PublisherKnows, Holding
    <3>4. /\ env'.session = r.session /\ env'.account = logins[r.session].account
          /\ env'.edits = r.before.edits
      BY <3>1
    <3>5. r.overtaken => Overtaken
      BY <3>1 DEF Overtaken
    <3>6. env'.session < env.session =>
            logins[env'.session].account # logins[env.session].account
      BY <2>1, <3>3, <3>4 DEF NothingLater, EnvFile
    <3>7. env'.account \notin {env.account, NoAccount} => env.account = NoAccount \/ Overtaken
      BY <3>3, <3>4, <3>5
    <3>8. env'.edits < env.edits => Overtaken
      BY <2>1, <3>3, <3>4, <3>5 DEF EnvFile
    <3>. QED  BY <3>6, <3>7, <3>8 DEF WritingKeeps
  <2>3. CASE EditEnv
    <3>1. PICK account \in {env.account, NoAccount} :
            env' = [env EXCEPT !.account = account, !.edits = @ + 1, !.identity = @ + 1]
      BY <2>3 DEF EditEnv
    <3>2. env'.session = env.session /\ env'.account = account /\ env'.edits = env.edits + 1
      BY <2>1, <3>1 DEF EnvFile
    <3>. QED  BY <2>1, <3>1, <3>2 DEF EnvFile, WritingKeeps
  <2>. QED
    BY <2>2, <2>3 DEF RenewalNext, BeginPublish, ReadEnv, ValidateSession, CompareEnv,
       PublisherDies, Login, PassCutoff
<1>. QED  BY <1>1, RenewalRecords, PTL DEF RenewalSpec, PublishKeepsFile

-----------------------------------------------------------------------------
(* Counting the calls of a queue.                                          *)

\* The places of s that hold one of X.
Places(s, X) == {i \in 1..Len(s) : s[i] \in X}

\* A place is added at the end, or not.
LEMMA CountAppend ==
  ASSUME NEW V, NEW s \in Seq(V), NEW e \in V, NEW X
  PROVE  /\ IsFiniteSet(Places(s, X)) /\ Cardinality(Places(s, X)) \in Nat
         /\ e \in X => Cardinality(Places(Append(s, e), X)) = Cardinality(Places(s, X)) + 1
         /\ e \notin X => Places(Append(s, e), X) = Places(s, X)
<1>1. /\ Len(s) \in Nat /\ Len(Append(s, e)) = Len(s) + 1
      /\ \A i \in 1..Len(s) : Append(s, e)[i] = s[i]
      /\ Append(s, e)[Len(s) + 1] = e
  BY AppendProperties, LenProperties
<1>2. IsFiniteSet(Places(s, X)) /\ Cardinality(Places(s, X)) \in Nat
  <2>1. IsFiniteSet(1..Len(s))
    BY <1>1, FS_Interval
  <2>2. Places(s, X) \subseteq 1..Len(s)
    BY DEF Places
  <2>. QED  BY <2>1, <2>2, FS_Subset, FS_CardinalityType
<1>3. e \in X => Places(Append(s, e), X) = Places(s, X) \cup {Len(s) + 1}
  BY <1>1 DEF Places
<1>4. Len(s) + 1 \notin Places(s, X)
  BY <1>1 DEF Places
<1>5. Cardinality(Places(s, X) \cup {Len(s) + 1}) = Cardinality(Places(s, X)) + 1
  BY <1>2, <1>4, FS_AddElement
<1>6. e \notin X => Places(Append(s, e), X) = Places(s, X)
  BY <1>1 DEF Places
<1>. QED  BY <1>2, <1>3, <1>5, <1>6

\* The first place is taken away, or there was none.
LEMMA CountTail ==
  ASSUME NEW V, NEW s \in Seq(V), s # << >>, NEW X
  PROVE  /\ IsFiniteSet(Places(s, X)) /\ Cardinality(Places(s, X)) \in Nat
         /\ Head(s) \in X => Cardinality(Places(Tail(s), X)) = Cardinality(Places(s, X)) - 1
         /\ Head(s) \notin X => Cardinality(Places(Tail(s), X)) = Cardinality(Places(s, X))
<1>. DEFINE P == Places(s, X)
            Q == Places(Tail(s), X)
            f == [i \in Q |-> i + 1]
<1>1. /\ Len(s) \in Nat /\ Len(s) >= 1 /\ Len(Tail(s)) = Len(s) - 1 /\ Head(s) = s[1]
      /\ \A i \in 1..Len(Tail(s)) : Tail(s)[i] = s[i + 1]
  <2>1. Len(s) \in Nat /\ (Len(s) = 0 => s = << >>)
    BY LenProperties, EmptySeq
  <2>2. Head(s) = s[1]
    OBVIOUS
  <2>. QED  BY <2>1, <2>2, HeadTailProperties
<1>2. IsFiniteSet(P) /\ Cardinality(P) \in Nat /\ IsFiniteSet(Q)
  <2>1. IsFiniteSet(1..Len(s)) /\ P \subseteq 1..Len(s) /\ Q \subseteq 1..Len(s)
    BY <1>1, FS_Interval DEF Places
  <2>. HIDE DEF P, Q
  <2>. QED  BY <2>1, FS_Subset, FS_CardinalityType
<1>3. Cardinality(P \ {1}) = Cardinality(Q)
  <2>1. f \in Bijection(Q, P \ {1})
    <3>1. \A i \in Q : i \in Int /\ i + 1 \in P \ {1}
      BY <1>1 DEF Places
    <3>2. \A j \in P \ {1} : j - 1 \in Q /\ (j - 1) + 1 = j
      BY <1>1 DEF Places
    <3>3. f \in [Q -> P \ {1}]
      BY <3>1
    <3>4. \A i, j \in Q : f[i] = f[j] => i = j
      BY <3>1
    <3>5. \A j \in P \ {1} : \E i \in Q : f[i] = j
      BY <3>2
    <3>. HIDE DEF f, P, Q
    <3>. QED  BY <3>3, <3>4, <3>5 DEF Bijection, Injection, Surjection, IsInjective
  <2>2. ExistsBijection(Q, P \ {1})
    BY <2>1 DEF ExistsBijection
  <2>. HIDE DEF f, P, Q
  <2>. QED  BY <1>2, <2>2, FS_Bijection
<1>4. 1 \in P <=> Head(s) \in X
  BY <1>1 DEF Places
<1>5. 1 \in P => Cardinality(P \ {1}) = Cardinality(P) - 1
  <2>. HIDE DEF P
  <2>. QED  BY <1>2, FS_RemoveElement
<1>6. 1 \notin P => P \ {1} = P
  OBVIOUS
<1>. QED
  <2>. HIDE DEF P, Q
  <2>1. P = Places(s, X) /\ Q = Places(Tail(s), X)
    BY DEF P, Q
  <2>. QED  BY <1>2, <1>3, <1>4, <1>5, <1>6, <2>1

-----------------------------------------------------------------------------
(* The connection behind the quotes.                                       *)

SocketStates == {"connecting", "open", "retrying", "gaveUp", "closed"}
SupervisorStates == {"waiting", "drop"} \cup Leaving
Events == {"connect", "ticks", "error", "close", "reconnect", "noreconnect"}
IngestCall == [kind : {"ingest"}, generation : Nat]
ScheduledCall == IngestCall \cup [kind : {"drop", "giveup"}]
ProgressRecord ==
  [generation : Nat, pending : Int, current : Int, failures : Int, since : BOOLEAN,
   retrying : BOOLEAN, subscription : {"not_requested", "sent_unconfirmed", "send_failed"}]

StreamTyped ==
  /\ sockets \in Seq(SocketStates)
  /\ callback \in {Quiet} \cup [event : Events, socket : 1..Len(sockets)]
  /\ scheduled \in Seq(ScheduledCall)
  /\ errors \in {<<>>, <<"drop">>, <<"giveup">>}
  /\ supervisor \in SupervisorStates
  /\ progress \in ProgressRecord

\* The sockets stand still while a callback acts, but for a new one: the callback is the
\* current socket's or that one has only begun to connect.
CallbackCurrent ==
  callback # Quiet =>
    /\ callback.socket # CurrentSocket => sockets[CurrentSocket] = "connecting"
    /\ callback.event \in {"close", "reconnect"} => sockets[callback.socket] # "open"

\* Once the connect callback of an open socket has acted, no retry is noted.
NoRetryNoted ==
  CurrentSocket > 0 /\ sockets[CurrentSocket] = "open" /\ callback.event # "connect" =>
    ~progress.retrying

OfGeneration(g) == {call \in IngestCall : call.generation = g}

\* The ingestions that wait, of all connections and of the current one.
FuturesCounted ==
  /\ progress.pending = Cardinality(Places(scheduled, IngestCall))
  /\ progress.current = Cardinality(Places(scheduled, OfGeneration(progress.generation)))
  /\ progress.since <=> progress.current > 0
  /\ \A i \in 1..Len(scheduled) :
       scheduled[i] \in IngestCall => scheduled[i].generation <= progress.generation

StreamInv ==
  /\ StreamTyped
  /\ CallbackCurrent
  /\ NoRetryNoted
  /\ FuturesCounted
  /\ GiveUpNotLost

\* The invariant is what the supervisor and the watchdog rely on.
LEMMA StreamAccounted == StreamInv => SocketAccountedFor
<1>. SUFFICES ASSUME StreamInv PROVE SocketAccountedFor
  OBVIOUS
<1>. USE DEF StreamInv
<1>1. scheduled \in Seq(ScheduledCall) /\ DOMAIN scheduled = 1..Len(scheduled)
      /\ \A i \in 1..Len(scheduled) : scheduled[i] \in ScheduledCall
  BY ElementOfSeq DEF StreamTyped
<1>2. Ingestions = Places(scheduled, IngestCall)
  <2>1. \A c \in ScheduledCall : c.kind = "ingest" <=> c \in IngestCall
    BY DEF ScheduledCall, IngestCall
  <2>. QED  BY <1>1, <2>1 DEF Ingestions, Places
<1>3. {i \in Ingestions : scheduled[i].generation = progress.generation}
        = Places(scheduled, OfGeneration(progress.generation))
  BY <1>2 DEF Places, OfGeneration
<1>4. PendingCountsFutures
  BY <1>2, <1>3 DEF PendingCountsFutures, FuturesCounted
<1>5. RetryFlagDown
  BY DEF RetryFlagDown, NoRetryNoted, Quiet
<1>. QED  BY <1>4, <1>5 DEF SocketAccountedFor

\* Before the first connection.
LEMMA StreamStart == StreamInit => StreamInv
<1>. SUFFICES ASSUME StreamInit PROVE StreamInv
  OBVIOUS
<1>1. /\ sockets \in Seq(SocketStates) /\ Len(sockets) = 0
      /\ scheduled \in Seq(ScheduledCall) /\ Len(scheduled) = 0
      /\ \A X : Places(scheduled, X) = {}
  BY EmptySeq DEF StreamInit, Places
<1>2. progress \in ProgressRecord /\ progress.pending = 0 /\ progress.current = 0
      /\ progress.since = FALSE /\ progress.retrying = FALSE
  BY DEF StreamInit, NoProgress, ProgressRecord
<1>3. StreamTyped
  BY <1>1, <1>2 DEF StreamInit, StreamTyped, SupervisorStates, Leaving
<1>4. FuturesCounted
  <2>1. Cardinality({}) = 0
    BY FS_EmptySet
  <2>2. /\ Cardinality(Places(scheduled, IngestCall)) = 0
        /\ Cardinality(Places(scheduled, OfGeneration(progress.generation))) = 0
    BY <1>1, <2>1
  <2>. QED  BY <1>1, <1>2, <2>2 DEF FuturesCounted
<1>. QED
  BY <1>1, <1>3, <1>4 DEF StreamInv, StreamInit, CallbackCurrent, NoRetryNoted, GiveUpNotLost,
     CurrentSocket

\* A new connection: its sockets and counters begin again, the futures of older ones stay.
LEMMA StartKeeps == ASSUME StreamInv, Start PROVE StreamInv'
<1>. USE DEF StreamInv
<1>1. /\ sockets' = Append(sockets, "connecting")
      /\ progress' = [NoProgress EXCEPT !.generation = progress.generation + 1,
                                        !.pending = progress.pending]
      /\ supervisor' \in {"waiting", "report", "abandon"}
      /\ UNCHANGED <<callback, scheduled, errors>>
  BY DEF Start
<1>2. /\ sockets \in Seq(SocketStates) /\ scheduled \in Seq(ScheduledCall)
      /\ progress \in ProgressRecord
      /\ callback \in {Quiet} \cup [event : Events, socket : 1..Len(sockets)]
  BY DEF StreamTyped
<1>3. /\ sockets' \in Seq(SocketStates) /\ Len(sockets') = Len(sockets) + 1
      /\ Len(sockets) \in Nat
      /\ sockets'[Len(sockets')] = "connecting"
      /\ \A i \in 1..Len(sockets) : sockets'[i] = sockets[i]
  BY <1>1, <1>2, AppendProperties, LenProperties DEF SocketStates
<1>4. /\ progress' \in ProgressRecord /\ progress'.generation = progress.generation + 1
      /\ progress'.pending = progress.pending /\ progress'.current = 0
      /\ progress'.since = FALSE /\ progress'.retrying = FALSE
  <2>1. progress.generation + 1 \in Nat /\ progress.pending \in Int
    BY <1>2 DEF ProgressRecord
  <2>2. progress' = [generation |-> progress.generation + 1, pending |-> progress.pending,
                     current |-> 0, failures |-> 0, since |-> FALSE, retrying |-> FALSE,
                     subscription |-> "not_requested"]
    BY <1>1 DEF NoProgress
  <2>. QED  BY <2>1, <2>2 DEF ProgressRecord
<1>5. callback # Quiet => callback.socket \in 1..Len(sockets)
  BY <1>2
<1>6. StreamTyped'
  <2>1. callback' \in {Quiet} \cup [event : Events, socket : 1..Len(sockets')]
    BY <1>1, <1>2, <1>3
  <2>. QED  BY <1>1, <1>2, <1>3, <1>4, <2>1 DEF StreamTyped, SupervisorStates, Leaving
<1>7. CallbackCurrent'
  BY <1>1, <1>3, <1>5 DEF CallbackCurrent, CurrentSocket
<1>8. NoRetryNoted' /\ GiveUpNotLost'
  BY <1>3, <1>4 DEF NoRetryNoted, GiveUpNotLost, CurrentSocket
<1>9. FuturesCounted'
  <2>1. \A i \in 1..Len(scheduled) :
          scheduled[i] \in IngestCall => scheduled[i].generation <= progress.generation
    BY DEF FuturesCounted
  <2>2. \A i \in 1..Len(scheduled) :
          scheduled[i] \in IngestCall => scheduled[i].generation \in Nat
    BY DEF IngestCall
  <2>3. Places(scheduled, OfGeneration(progress'.generation)) = {}
    BY <1>2, <1>4, <2>1, <2>2 DEF Places, OfGeneration, ProgressRecord
  <2>4. Cardinality(Places(scheduled, OfGeneration(progress'.generation))) = 0
    BY <2>3, FS_EmptySet
  <2>. QED  BY <1>1, <1>2, <1>4, <2>1, <2>2, <2>4 DEF FuturesCounted, ProgressRecord
<1>. QED  BY <1>6, <1>7, <1>8, <1>9

\* The supervisor's own steps and the watchdog.
LEMMA SupervisorKeeps ==
  ASSUME StreamInv,
         \/ TakeError \/ WriteEvent \/ Stop
         \/ \E seen \in Silent \cup {"receiving_tick_callbacks"}, stopped \in BOOLEAN :
              Watch(seen, stopped)
  PROVE  StreamInv'
<1>. USE DEF StreamInv
<1>1. UNCHANGED <<sockets, callback, scheduled, progress>>
  BY DEF TakeError, WriteEvent, Stop, Watch
<1>2. errors \in {<<>>, <<"drop">>, <<"giveup">>}
      /\ supervisor \in SupervisorStates
  BY DEF StreamTyped
<1>3. /\ errors' \in {<<>>, <<"drop">>, <<"giveup">>}
      /\ supervisor' \in SupervisorStates
      /\ errors = <<"giveup">> => errors' = errors \/ supervisor' = "giveup"
      /\ supervisor \in Leaving => supervisor' \in Leaving
  <2>1. Head(<<"drop">>) = "drop" /\ Head(<<"giveup">>) = "giveup"
    OBVIOUS
  <2>2. CASE TakeError
    BY <1>2, <2>1, <2>2 DEF TakeError, SupervisorStates, Leaving
  <2>3. CASE WriteEvent
    BY <1>2, <2>3 DEF WriteEvent, RecoversInPlace, SupervisorStates, Leaving
  <2>4. CASE Stop
    BY <1>2, <2>4 DEF Stop, SupervisorStates, Leaving
  <2>5. CASE UNCHANGED <<errors, supervisor>>
    BY <1>2, <2>5
  <2>. QED  BY <2>2, <2>3, <2>4, <2>5 DEF Watch
<1>4. StreamTyped'
  BY <1>1, <1>3 DEF StreamTyped
<1>5. CallbackCurrent' /\ NoRetryNoted' /\ FuturesCounted'
  BY <1>1 DEF CallbackCurrent, NoRetryNoted, FuturesCounted, CurrentSocket
<1>6. GiveUpNotLost'
  BY <1>1, <1>3 DEF GiveUpNotLost, CurrentSocket, Leaving
<1>. QED  BY <1>4, <1>5, <1>6

\* A socket moves while no callback acts: its callback tells what it became.
LEMMA SocketMoves ==
  ASSUME StreamInv, NEW g \in 1..Len(sockets), NEW state \in SocketStates, NEW event \in Events,
         callback = Quiet, sockets' = [sockets EXCEPT ![g] = state],
         \/ g = CurrentSocket /\ callback' = [event |-> event, socket |-> g]
         \/ (g # CurrentSocket \/ state = "closed") /\ callback' = callback,
         state = "open" => event = "connect" \/ sockets[g] = "open",
         state = "gaveUp" => event = "noreconnect" \/ sockets[g] = "gaveUp",
         event \in {"close", "reconnect"} => state # "open",
         UNCHANGED <<scheduled, errors, supervisor, progress>>
  PROVE  StreamInv'
<1>. USE DEF StreamInv
<1>1. sockets \in Seq(SocketStates)
  BY DEF StreamTyped
<1>2. /\ sockets' \in Seq(SocketStates) /\ Len(sockets') = Len(sockets) /\ Len(sockets) \in Nat
      /\ sockets'[g] = state
      /\ \A i \in 1..Len(sockets) : i # g => sockets'[i] = sockets[i]
  BY <1>1, ExceptSeq, LenProperties
<1>3. StreamTyped'
  BY <1>2 DEF StreamTyped
<1>4. callback.event = "none" /\ Quiet.event = "none"
  BY DEF Quiet
<1>5. callback' # Quiet => callback'.socket = CurrentSocket /\ g = CurrentSocket
                           /\ callback'.event = event
  BY <1>4
<1>6. CallbackCurrent'
  BY <1>2, <1>5 DEF CallbackCurrent, CurrentSocket
<1>. DEFINE cs == Len(sockets)
<1>7. \/ g = cs /\ callback'.event = event
      \/ g # cs /\ callback'.event = "none"
      \/ g = cs /\ callback'.event = "none" /\ state = "closed"
  BY <1>4 DEF CurrentSocket
<1>8. cs > 0 => cs \in 1..Len(sockets)
  <2>1. cs \in Nat
    BY <1>2
  <2>. QED  BY <2>1
<1>9. NoRetryNoted'
  <2>. SUFFICES ASSUME cs > 0, sockets'[cs] = "open", callback'.event # "connect"
                PROVE  ~progress.retrying
    BY <1>2 DEF NoRetryNoted, CurrentSocket
  <2>1. sockets[cs] = "open"
    <3>1. cs \in 1..Len(sockets) /\ sockets'[cs] = "open"
      BY <1>8 DEF CurrentSocket
    <3>2. CASE g # cs
      BY <1>2, <3>1, <3>2
    <3>3. CASE g = cs
      <4>1. state = "open"
        BY <1>2, <3>1, <3>3
      <4>2. callback'.event = event
        BY <1>7, <3>3, <4>1
      <4>. QED  BY <3>3, <4>1, <4>2
    <3>. QED  BY <3>2, <3>3
  <2>. QED  BY <1>4, <2>1 DEF NoRetryNoted, CurrentSocket
<1>10. FuturesCounted'
  BY DEF FuturesCounted
<1>11. GiveUpNotLost'
  <2>. SUFFICES ASSUME CurrentSocket > 0, sockets'[CurrentSocket] = "gaveUp",
                       callback'.event # "noreconnect"
                PROVE  \/ \E i \in DOMAIN scheduled : scheduled[i].kind = "giveup"
                       \/ errors = <<"giveup">>
                       \/ supervisor \in Leaving
    BY <1>2 DEF GiveUpNotLost, CurrentSocket
  <2>1. sockets[cs] = "gaveUp"
    <3>1. cs \in 1..Len(sockets) /\ sockets'[cs] = "gaveUp"
      BY <1>8 DEF CurrentSocket
    <3>2. CASE g # cs
      BY <1>2, <3>1, <3>2
    <3>3. CASE g = cs
      <4>1. state = "gaveUp"
        BY <1>2, <3>1, <3>3
      <4>2. callback'.event = event
        BY <1>7, <3>3, <4>1
      <4>. QED  BY <3>3, <4>1, <4>2
    <3>. QED  BY <3>2, <3>3
  <2>. QED  BY <1>4, <2>1 DEF GiveUpNotLost, CurrentSocket
<1>. QED  BY <1>3, <1>6, <1>9, <1>10, <1>11

\* The library.
LEMMA LibraryKeeps ==
  ASSUME StreamInv, NEW g \in DOMAIN sockets, LibraryMoves(g) \/ LibraryCloses(g)
  PROVE  StreamInv'
<1>1. sockets \in Seq(SocketStates) /\ g \in 1..Len(sockets) /\ sockets[g] \in SocketStates
  BY ElementOfSeq DEF StreamInv, StreamTyped
<1>2. ASSUME NEW state \in SocketStates, NEW event \in Events, Fires(g, state, event),
             state = "open" => event = "connect" \/ sockets[g] = "open",
             state = "gaveUp" => event = "noreconnect" \/ sockets[g] = "gaveUp",
             event \in {"close", "reconnect"} => state # "open"
      PROVE  StreamInv'
  <2>1. /\ callback = Quiet /\ sockets' = [sockets EXCEPT ![g] = state]
        /\ UNCHANGED <<scheduled, errors, supervisor, progress>>
    BY <1>2 DEF Fires
  <2>2. \/ g = CurrentSocket /\ callback' = [event |-> event, socket |-> g]
        \/ (g # CurrentSocket \/ state = "closed") /\ callback' = callback
    BY <1>2 DEF Fires, CurrentCallback
  <2>. QED  BY <1>1, <1>2, <2>1, <2>2, SocketMoves
<1>3. CASE LibraryMoves(g)
  <2>1. \/ Fires(g, "open", "connect")
        \/ sockets[g] = "open" /\ Fires(g, "open", "ticks")
        \/ sockets[g] \in {"open", "gaveUp"} /\ Fires(g, sockets[g], "error")
        \/ Fires(g, "retrying", "close")
        \/ Fires(g, "retrying", "reconnect")
        \/ Fires(g, "gaveUp", "noreconnect")
    BY <1>3 DEF LibraryMoves
  <2>. QED  BY <1>1, <1>2, <2>1 DEF SocketStates, Events
<1>4. CASE LibraryCloses(g)
  <2>1. CASE Fires(g, "closed", "close")
    BY <1>2, <2>1 DEF SocketStates, Events
  <2>2. CASE /\ callback = Quiet /\ sockets' = [sockets EXCEPT ![g] = "closed"]
             /\ UNCHANGED <<callback, scheduled, errors, supervisor, progress>>
    <3>1. "closed" \in SocketStates /\ "close" \in Events
      BY DEF SocketStates, Events
    <3>. QED  BY <1>1, <2>2, <3>1, SocketMoves
  <2>. QED  BY <1>4, <2>1, <2>2 DEF LibraryCloses
<1>. QED  BY <1>3, <1>4

\* The rest of a callback: what it notes and what it schedules.
LEMMA ActKeeps == ASSUME StreamInv, Act PROVE StreamInv'
<1>. USE DEF StreamInv
<1>1. /\ sockets \in Seq(SocketStates) /\ scheduled \in Seq(ScheduledCall)
      /\ progress \in ProgressRecord
      /\ callback \in [event : Events, socket : 1..Len(sockets)]
  BY DEF StreamTyped, Act
<1>2. /\ callback' = Quiet /\ Quiet.event = "none"
      /\ UNCHANGED <<sockets, errors, supervisor>>
  BY DEF Act, Quiet
\* What is scheduled, if anything.
<1>3. ASSUME NEW call \in ScheduledCall, scheduled' = Append(scheduled, call)
      PROVE  /\ scheduled' \in Seq(ScheduledCall) /\ Len(scheduled') = Len(scheduled) + 1
             /\ Len(scheduled) \in Nat
             /\ \A i \in 1..Len(scheduled) : scheduled'[i] = scheduled[i]
             /\ scheduled'[Len(scheduled')] = call
  BY <1>1, <1>3, AppendProperties, LenProperties
<1>4. ASSUME scheduled' = scheduled \/ \E call \in ScheduledCall :
               /\ scheduled' = Append(scheduled, call)
               /\ callback.event = "noreconnect" => call.kind = "giveup",
             callback.event = "noreconnect" => scheduled' # scheduled
      PROVE  GiveUpNotLost'
  <2>. SUFFICES ASSUME CurrentSocket > 0, sockets[CurrentSocket] = "gaveUp"
                PROVE  \/ \E i \in DOMAIN scheduled' : scheduled'[i].kind = "giveup"
                       \/ errors = <<"giveup">>
                       \/ supervisor \in Leaving
    BY <1>2 DEF GiveUpNotLost, CurrentSocket
  <2>1. \/ callback.event = "noreconnect"
        \/ \E i \in DOMAIN scheduled : scheduled[i].kind = "giveup"
        \/ errors = <<"giveup">>
        \/ supervisor \in Leaving
    BY DEF GiveUpNotLost
  <2>2. CASE scheduled' = scheduled
    BY <1>4, <2>1, <2>2
  <2>3. ASSUME NEW call \in ScheduledCall, scheduled' = Append(scheduled, call),
               callback.event = "noreconnect" => call.kind = "giveup"
        PROVE  \/ \E i \in DOMAIN scheduled' : scheduled'[i].kind = "giveup"
               \/ errors = <<"giveup">>
               \/ supervisor \in Leaving
    <3>1. /\ DOMAIN scheduled = 1..Len(scheduled) /\ Len(scheduled) \in Nat
          /\ DOMAIN scheduled' = 1..Len(scheduled) + 1
          /\ \A i \in 1..Len(scheduled) : scheduled'[i] = scheduled[i]
          /\ scheduled'[Len(scheduled) + 1] = call
      BY <1>1, <1>3, <2>3
    <3>2. CASE callback.event = "noreconnect"
      BY <2>3, <3>1, <3>2
    <3>3. ASSUME NEW i \in DOMAIN scheduled, scheduled[i].kind = "giveup"
          PROVE  i \in DOMAIN scheduled' /\ scheduled'[i].kind = "giveup"
      BY <3>1, <3>3
    <3>. QED  BY <2>1, <3>2, <3>3
  <2>. QED  BY <1>4, <2>2, <2>3
\* Nothing but a connect callback takes the note of a retry back, nothing but a drop makes it.
<1>5. ASSUME progress'.retrying \in {progress.retrying, FALSE}
             \/ callback.event \in {"close", "reconnect"},
             callback.event = "connect" => progress'.retrying = FALSE
      PROVE  NoRetryNoted'
  <2>. SUFFICES ASSUME CurrentSocket > 0, sockets[CurrentSocket] = "open"
                PROVE  ~progress'.retrying
    BY <1>2 DEF NoRetryNoted, CurrentSocket
  <2>1. callback.event \notin {"close", "reconnect"}
    <3>1. callback # Quiet
      BY DEF Act
    <3>. QED  BY <3>1 DEF CallbackCurrent
  <2>2. callback.event # "connect" => ~progress.retrying
    BY DEF NoRetryNoted
  <2>. QED  BY <1>5, <2>1, <2>2
\* A scheduled call that is no ingestion is not counted.
<1>6. ASSUME scheduled' = scheduled \/ \E call \in ScheduledCall :
               scheduled' = Append(scheduled, call) /\ call \notin IngestCall,
             /\ progress'.generation = progress.generation /\ progress'.pending = progress.pending
             /\ progress'.current = progress.current /\ progress'.since = progress.since
      PROVE  FuturesCounted'
  <2>1. CASE scheduled' = scheduled
    BY <1>6, <2>1 DEF FuturesCounted
  <2>2. ASSUME NEW call \in ScheduledCall, scheduled' = Append(scheduled, call),
               call \notin IngestCall
        PROVE  FuturesCounted'
    <3>1. Places(scheduled', IngestCall) = Places(scheduled, IngestCall)
      BY <1>1, <2>2, CountAppend
    <3>2. call \notin OfGeneration(progress.generation)
      BY <2>2 DEF OfGeneration
    <3>3. Places(scheduled', OfGeneration(progress.generation))
            = Places(scheduled, OfGeneration(progress.generation))
      BY <1>1, <2>2, <3>2, CountAppend
    <3>4. \A i \in 1..Len(scheduled') : scheduled'[i] \in IngestCall =>
            scheduled'[i].generation <= progress.generation
      BY <1>3, <2>2 DEF FuturesCounted
    <3>. QED  BY <1>6, <3>1, <3>3, <3>4 DEF FuturesCounted
  <2>. QED  BY <1>6, <2>1, <2>2
<1>7. CallbackCurrent'
  BY <1>2 DEF CallbackCurrent
<1>8. ASSUME progress' \in ProgressRecord, scheduled' \in Seq(ScheduledCall) PROVE StreamTyped'
  BY <1>2, <1>8 DEF StreamTyped
<1>9. [kind |-> "drop"] \in ScheduledCall \ IngestCall
      /\ [kind |-> "giveup"] \in ScheduledCall \ IngestCall
  BY DEF ScheduledCall, IngestCall
<1>10. CASE /\ callback.event = "connect" /\ scheduled' = scheduled
            /\ \E sent \in {"sent_unconfirmed", "send_failed"} :
                 progress' = [progress EXCEPT !.retrying = FALSE, !.subscription = sent]
  <2>1. PICK sent \in {"sent_unconfirmed", "send_failed"} :
          progress' = [progress EXCEPT !.retrying = FALSE, !.subscription = sent]
    BY <1>10
  <2>2. /\ progress' \in ProgressRecord /\ progress'.retrying = FALSE
        /\ progress'.generation = progress.generation /\ progress'.pending = progress.pending
        /\ progress'.current = progress.current /\ progress'.since = progress.since
    BY <1>1, <2>1 DEF ProgressRecord
  <2>. QED  BY <1>1, <1>4, <1>5, <1>6, <1>7, <1>8, <1>10, <2>2
<1>11. CASE /\ callback.event = "ticks"
            /\ Schedule([kind |-> "ingest", generation |-> progress.generation])
            /\ progress' = Queued
  <2>1. PICK call : call = [kind |-> "ingest", generation |-> progress.generation]
    OBVIOUS
  <2>2. scheduled' = Append(scheduled, call)
    BY <1>11, <2>1 DEF Schedule
  <2>3. call \in IngestCall /\ call \in ScheduledCall /\ call.generation = progress.generation
    BY <1>1, <2>1 DEF IngestCall, ScheduledCall, ProgressRecord
  <2>4. /\ progress' \in ProgressRecord /\ progress'.retrying = progress.retrying
        /\ progress'.generation = progress.generation /\ progress'.pending = progress.pending + 1
        /\ progress'.current = progress.current + 1 /\ progress'.since = TRUE
    <3>1. progress.pending + 1 \in Int /\ progress.current + 1 \in Int
      BY <1>1 DEF ProgressRecord
    <3>2. progress' = [progress EXCEPT !.pending = progress.pending + 1,
                                       !.current = progress.current + 1, !.since = TRUE]
      BY <1>11 DEF Queued
    <3>. QED  BY <1>1, <3>1, <3>2 DEF ProgressRecord
  <2>5. call \in OfGeneration(progress.generation)
    BY <2>3 DEF OfGeneration
  <2>6. /\ Cardinality(Places(scheduled', IngestCall))
             = Cardinality(Places(scheduled, IngestCall)) + 1
        /\ Cardinality(Places(scheduled', OfGeneration(progress.generation)))
             = Cardinality(Places(scheduled, OfGeneration(progress.generation))) + 1
        /\ Cardinality(Places(scheduled, OfGeneration(progress.generation))) \in Nat
    BY <1>1, <2>2, <2>3, <2>5, CountAppend
  <2>7. \A i \in 1..Len(scheduled') : scheduled'[i] \in IngestCall =>
          scheduled'[i].generation <= progress.generation
    <3>1. progress.generation <= progress.generation
      BY <1>1 DEF ProgressRecord
    <3>2. /\ Len(scheduled') = Len(scheduled) + 1 /\ Len(scheduled) \in Nat
          /\ \A i \in 1..Len(scheduled) : scheduled'[i] = scheduled[i]
          /\ scheduled'[Len(scheduled')] = call
      BY <1>3, <2>2, <2>3
    <3>. SUFFICES ASSUME NEW i \in 1..Len(scheduled'), scheduled'[i] \in IngestCall
                  PROVE  scheduled'[i].generation <= progress.generation
      OBVIOUS
    <3>3. CASE i \in 1..Len(scheduled)
      BY <3>2, <3>3 DEF FuturesCounted
    <3>4. CASE i = Len(scheduled')
      BY <2>3, <3>1, <3>2, <3>4
    <3>. QED  BY <3>2, <3>3, <3>4
  <2>8. FuturesCounted'
    BY <2>4, <2>6, <2>7 DEF FuturesCounted
  <2>9. scheduled' \in Seq(ScheduledCall)
    BY <1>3, <2>2, <2>3
  <2>. QED  BY <1>4, <1>5, <1>7, <1>8, <1>11, <2>2, <2>3, <2>4, <2>8, <2>9
<1>12. CASE callback.event = "error" /\ Schedule([kind |-> "drop"]) /\ progress' = progress
  <2>1. scheduled' = Append(scheduled, [kind |-> "drop"])
    BY <1>12 DEF Schedule
  <2>. QED  BY <1>1, <1>3, <1>4, <1>5, <1>6, <1>7, <1>8, <1>9, <1>12, <2>1
<1>13. CASE /\ callback.event = "close" /\ Schedule([kind |-> "drop"])
            /\ progress' = [progress EXCEPT !.retrying = TRUE]
  <2>1. scheduled' = Append(scheduled, [kind |-> "drop"])
    BY <1>13 DEF Schedule
  <2>2. /\ progress' \in ProgressRecord
        /\ progress'.generation = progress.generation /\ progress'.pending = progress.pending
        /\ progress'.current = progress.current /\ progress'.since = progress.since
    BY <1>1, <1>13 DEF ProgressRecord
  <2>. QED  BY <1>1, <1>3, <1>4, <1>5, <1>6, <1>7, <1>8, <1>9, <1>13, <2>1, <2>2
<1>14. CASE /\ callback.event = "noreconnect" /\ Schedule([kind |-> "giveup"])
            /\ progress' = [progress EXCEPT !.retrying = FALSE]
  <2>1. scheduled' = Append(scheduled, [kind |-> "giveup"])
    BY <1>14 DEF Schedule
  <2>2. /\ progress' \in ProgressRecord /\ progress'.retrying = FALSE
        /\ progress'.generation = progress.generation /\ progress'.pending = progress.pending
        /\ progress'.current = progress.current /\ progress'.since = progress.since
    BY <1>1, <1>14 DEF ProgressRecord
  <2>3. scheduled' \in Seq(ScheduledCall) /\ scheduled' # scheduled
    <3>1. Len(scheduled') = Len(scheduled) + 1 /\ Len(scheduled) \in Nat
          /\ scheduled' \in Seq(ScheduledCall)
      BY <1>3, <1>9, <2>1
    <3>. QED  BY <3>1
  <2>. QED  BY <1>4, <1>5, <1>6, <1>7, <1>8, <1>9, <1>14, <2>1, <2>2, <2>3
<1>15. CASE /\ callback.event = "reconnect" /\ scheduled' = scheduled
            /\ progress' = [progress EXCEPT !.retrying = TRUE]
  <2>1. /\ progress' \in ProgressRecord
        /\ progress'.generation = progress.generation /\ progress'.pending = progress.pending
        /\ progress'.current = progress.current /\ progress'.since = progress.since
    BY <1>1, <1>15 DEF ProgressRecord
  <2>. QED  BY <1>1, <1>4, <1>5, <1>6, <1>7, <1>8, <1>15, <2>1
<1>. QED  BY <1>10, <1>11, <1>12, <1>13, <1>14, <1>15 DEF Act

\* The event loop takes the first call.
LEMMA RunCallKeeps == ASSUME StreamInv, RunCall PROVE StreamInv'
<1>. USE DEF StreamInv
<1>1. /\ scheduled \in Seq(ScheduledCall) /\ progress \in ProgressRecord
      /\ errors \in {<<>>, <<"drop">>, <<"giveup">>}
  BY DEF StreamTyped
<1>2. /\ scheduled # << >> /\ scheduled' = Tail(scheduled)
      /\ UNCHANGED <<sockets, callback, supervisor>>
  BY DEF RunCall
<1>3. PICK call : call = Head(scheduled)
  OBVIOUS
<1>4. /\ call \in ScheduledCall /\ scheduled' \in Seq(ScheduledCall)
      /\ Len(scheduled') = Len(scheduled) - 1 /\ Len(scheduled) \in Nat
      /\ \A i \in 1..Len(scheduled') : scheduled'[i] = scheduled[i + 1]
      /\ DOMAIN scheduled = 1..Len(scheduled) /\ DOMAIN scheduled' = 1..Len(scheduled')
      /\ call = scheduled[1]
  <2>1. Len(scheduled) \in Nat /\ Head(scheduled) = scheduled[1]
        /\ DOMAIN scheduled = 1..Len(scheduled)
    BY <1>1, LenProperties
  <2>2. scheduled' \in Seq(ScheduledCall)
    BY <1>1, <1>2, HeadTailProperties
  <2>3. DOMAIN scheduled' = 1..Len(scheduled')
    BY <2>2, LenProperties
  <2>. QED  BY <1>1, <1>2, <1>3, <2>1, <2>2, <2>3, HeadTailProperties
<1>5. call \in IngestCall <=> call.kind = "ingest"
  BY <1>4 DEF ScheduledCall, IngestCall
<1>6. \A i \in 1..Len(scheduled') : scheduled'[i] \in IngestCall =>
        scheduled'[i].generation <= progress.generation
  <2>1. \A i \in 1..Len(scheduled') : i + 1 \in 1..Len(scheduled)
    BY <1>4
  <2>. QED  BY <1>4, <2>1 DEF FuturesCounted
<1>7. CallbackCurrent'
  BY <1>2 DEF CallbackCurrent, CurrentSocket
<1>8. CASE call.kind = "ingest"
  <2>1. PICK failed \in BOOLEAN :
          progress' = Finished(call.generation, failed /\ progress.failures = 0)
    BY <1>3, <1>8 DEF RunCall
  <2>2. errors' = errors
    BY <1>3, <1>8 DEF RunCall
  <2>3. call.generation \in Nat
    BY <1>5, <1>8 DEF IngestCall
  <2>4. PICK since \in BOOLEAN : since = IF progress.current - 1 = 0 THEN FALSE ELSE progress.since
    BY <1>1 DEF ProgressRecord
  <2>5. PICK failures \in Int : failures = IF failed /\ progress.failures = 0
                                           THEN progress.failures + 1 ELSE progress.failures
    BY <1>1 DEF ProgressRecord
  <2>6. /\ progress' \in ProgressRecord
        /\ progress'.generation = progress.generation /\ progress'.retrying = progress.retrying
        /\ progress'.pending = progress.pending - 1
        /\ call.generation # progress.generation =>
             progress'.current = progress.current /\ progress'.since = progress.since
        /\ call.generation = progress.generation =>
             progress'.current = progress.current - 1 /\ progress'.since = since
    <3>1. progress.pending - 1 \in Int /\ progress.current - 1 \in Int
      BY <1>1 DEF ProgressRecord
    <3>2. CASE call.generation # progress.generation
      <4>1. progress' = [progress EXCEPT !.pending = progress.pending - 1]
        BY <2>1, <3>2 DEF Finished, OfThisConnection
      <4>. QED  BY <1>1, <3>1, <3>2, <4>1 DEF ProgressRecord
    <3>3. CASE call.generation = progress.generation
      <4>1. progress' = [[progress EXCEPT !.pending = progress.pending - 1]
                           EXCEPT !.current = progress.current - 1, !.since = since,
                                  !.failures = failures]
        BY <1>1, <2>1, <2>4, <2>5, <3>3 DEF Finished, OfThisConnection, ProgressRecord
      <4>. QED  BY <1>1, <3>1, <3>3, <4>1 DEF ProgressRecord
    <3>. QED  BY <3>2, <3>3
  <2>7. StreamTyped'
    BY <1>2, <1>4, <2>2, <2>6 DEF StreamTyped
  <2>8. NoRetryNoted'
    BY <1>2, <2>6 DEF NoRetryNoted, CurrentSocket
  <2>9. FuturesCounted'
    <3>1. /\ Cardinality(Places(scheduled', IngestCall))
               = Cardinality(Places(scheduled, IngestCall)) - 1
          /\ Cardinality(Places(scheduled, OfGeneration(progress.generation))) \in Nat
      BY <1>1, <1>2, <1>3, <1>5, <1>8, CountTail
    <3>2. CASE call.generation # progress.generation
      <4>1. call \notin OfGeneration(progress.generation)
        BY <3>2 DEF OfGeneration
      <4>2. Cardinality(Places(scheduled', OfGeneration(progress.generation)))
              = Cardinality(Places(scheduled, OfGeneration(progress.generation)))
        BY <1>1, <1>2, <1>3, <4>1, CountTail
      <4>. QED  BY <1>6, <2>6, <3>1, <3>2, <4>2 DEF FuturesCounted
    <3>3. CASE call.generation = progress.generation
      <4>1. call \in OfGeneration(progress.generation)
        BY <1>5, <1>8, <3>3 DEF OfGeneration
      <4>2. /\ Cardinality(Places(scheduled', OfGeneration(progress.generation)))
                 = Cardinality(Places(scheduled, OfGeneration(progress.generation))) - 1
            /\ Cardinality(Places(scheduled', OfGeneration(progress.generation))) \in Nat
        <5>1. IsFiniteSet(Places(scheduled', OfGeneration(progress.generation)))
          BY <1>4, CountAppend
        <5>. QED  BY <1>1, <1>2, <1>3, <4>1, <5>1, CountTail, FS_CardinalityType
      <4>3. progress'.since <=> progress'.current > 0
        <5>1. progress.since <=> progress.current > 0
          BY DEF FuturesCounted
        <5>2. progress.current \in Nat /\ progress.current - 1 \in Nat
          BY <3>1, <4>2 DEF FuturesCounted
        <5>3. progress'.current = progress.current - 1 /\ progress'.since = since
          BY <2>6, <3>3
        <5>4. CASE progress.current - 1 = 0
          <6>1. since = FALSE
            BY <2>4, <5>4
          <6>. QED  BY <5>3, <5>4, <6>1
        <5>5. CASE progress.current - 1 # 0
          <6>1. since = progress.since /\ progress.current > 0
            BY <2>4, <5>2, <5>5
          <6>2. progress'.current > 0
            BY <5>2, <5>3, <5>5
          <6>. QED  BY <5>1, <5>3, <6>1, <6>2
        <5>. QED  BY <5>4, <5>5
      <4>. QED  BY <1>6, <2>6, <3>1, <3>3, <4>2, <4>3 DEF FuturesCounted
    <3>. QED  BY <3>2, <3>3
  <2>10. GiveUpNotLost'
    <3>1. ASSUME NEW i \in DOMAIN scheduled, scheduled[i].kind = "giveup"
          PROVE  i - 1 \in DOMAIN scheduled' /\ scheduled'[i - 1].kind = "giveup"
      <4>1. i # 1
        BY <1>4, <1>8, <3>1
      <4>. QED  BY <1>4, <3>1, <4>1
    <3>. QED  BY <1>2, <2>2, <3>1 DEF GiveUpNotLost, CurrentSocket
  <2>. QED  BY <1>7, <2>7, <2>8, <2>9, <2>10
<1>9. CASE call.kind # "ingest"
  <2>1. errors' = <<Kept(errors, call.kind)>> /\ progress' = progress
    BY <1>3, <1>9 DEF RunCall
  <2>2. call.kind \in {"drop", "giveup"}
    BY <1>4, <1>9 DEF ScheduledCall, IngestCall
  <2>3. /\ errors' \in {<<"drop">>, <<"giveup">>}
        /\ call.kind = "giveup" => errors' = <<"giveup">>
        /\ errors = <<"giveup">> => errors' = <<"giveup">>
    <3>1. Head(<<"drop">>) = "drop" /\ Head(<<"giveup">>) = "giveup"
      OBVIOUS
    <3>. QED  BY <1>1, <2>1, <2>2, <3>1 DEF Kept, RecoversInPlace
  <2>4. StreamTyped'
    BY <1>2, <1>4, <2>1, <2>3 DEF StreamTyped
  <2>5. NoRetryNoted'
    BY <1>2, <2>1 DEF NoRetryNoted, CurrentSocket
  <2>6. FuturesCounted'
    <3>1. call \notin OfGeneration(progress.generation)
      BY <1>5, <1>9 DEF OfGeneration
    <3>2. /\ Cardinality(Places(scheduled', IngestCall))
               = Cardinality(Places(scheduled, IngestCall))
          /\ Cardinality(Places(scheduled', OfGeneration(progress.generation)))
               = Cardinality(Places(scheduled, OfGeneration(progress.generation)))
      BY <1>1, <1>2, <1>3, <1>5, <1>9, <3>1, CountTail
    <3>. QED  BY <1>6, <2>1, <3>2 DEF FuturesCounted
  <2>7. GiveUpNotLost'
    <3>1. ASSUME NEW i \in DOMAIN scheduled, scheduled[i].kind = "giveup"
          PROVE  \/ errors' = <<"giveup">>
                 \/ i - 1 \in DOMAIN scheduled' /\ scheduled'[i - 1].kind = "giveup"
      <4>1. CASE i = 1
        BY <1>4, <2>3, <3>1, <4>1
      <4>2. CASE i # 1
        BY <1>4, <3>1, <4>2
      <4>. QED  BY <4>1, <4>2
    <3>. QED  BY <1>2, <2>3, <3>1 DEF GiveUpNotLost, CurrentSocket
  <2>. QED  BY <1>7, <2>4, <2>5, <2>6, <2>7
<1>. QED  BY <1>8, <1>9

\* SocketAccountedFor: a socket whose client gave up is always about to be replaced,
\* whatever routine drops arrive with the news and however late the callbacks of older
\* sockets come; and the watchdog sees of this connection what is true of it: no retry
\* while the socket is open, and as many unfinished ingestions as there are
\* (ticker_stream.py on_connection_error, stream_progress.py finished, daemon.py
\* _supervise_stream).
THEOREM ConnectionAccounted == StreamSpec => []SocketAccountedFor
<1>1. StreamInit => StreamInv
  BY StreamStart
<1>2. StreamInv /\ [StreamNext]_streamVars => StreamInv'
  <2>. SUFFICES ASSUME StreamInv, [StreamNext]_streamVars PROVE StreamInv'
    OBVIOUS
  <2>1. CASE UNCHANGED streamVars
    BY <2>1 DEF streamVars, StreamInv, StreamTyped, CallbackCurrent, NoRetryNoted,
                FuturesCounted, GiveUpNotLost, CurrentSocket
  <2>2. CASE StreamNext
    BY <2>2, StartKeeps, SupervisorKeeps, LibraryKeeps, ActKeeps, RunCallKeeps DEF StreamNext
  <2>. QED  BY <2>1, <2>2
<1>3. StreamInv => SocketAccountedFor
  BY StreamAccounted
<1>. QED  BY <1>1, <1>2, <1>3, PTL DEF StreamSpec

-----------------------------------------------------------------------------
(* The direct paper path and its recovery.                                 *)

PathSteps == {"idle", "approve", "mark", "broker", "mirror", "uncertain"}
PathRow ==
  [state : OrderStates \cup {"ABSENT"}, head : Nat, filled : BOOLEAN, marked : BOOLEAN]

\* The copies of a bundle, a verdict among them.
Bundle ==
  [stage : 0..6, ledger : SUBSET Decisions, ledgerCopy : SUBSET Decisions,
   oms : {<< >>} \cup [Decisions -> PathRow], omsCopy : {<< >>} \cup [Decisions -> PathRow],
   result : {"none", "captured_state_verified", "discrepancy"}]

RecoveryTyped ==
  /\ bundle \in Bundle
  /\ calls \in [Decisions -> PathSteps]
  /\ receipts \subseteq Decisions
  /\ rows \in [Decisions -> PathRow]
  /\ \A a \in audits : a.order \in Decisions

\* States of an order whose submission the OMS knows of.
Sent == {"SUBMITTED", "SUBMISSION_UNCERTAIN", "FILLED"}

\* What the OMS knows of a decision: of its submission before the broker fills it, of its
\* fill only once the ledger has committed it, and of its recovery exactly what the audit says.
RowFollows(d, row) ==
  /\ d \in receipts => row.state \in Sent
  /\ row.filled => row.state = "FILLED" /\ d \in receipts
  /\ row.state = "FILLED" => row.filled
  /\ IF AuditOf(d) = {} THEN ~row.marked
     ELSE row.filled /\ row.marked /\ \A a \in AuditOf(d) : a.after = row.head

\* Where the dispatch of a decision is.
CallFollows(d) ==
  /\ calls[d] = "broker" => rows[d].state \in Sent
  /\ calls[d] = "mirror" => d \in receipts

\* What the copies of a bundle show, as the ledger only grows.
BundleFollows ==
  /\ bundle.stage >= 1 => bundle.ledger \subseteq receipts
  /\ bundle.stage >= 3 => bundle.ledger \subseteq bundle.ledgerCopy
                          /\ bundle.ledgerCopy \subseteq receipts
  /\ bundle.stage >= 4 =>
       \A d \in Decisions :
         /\ bundle.omsCopy[d].filled => d \in receipts
         /\ d \in bundle.ledgerCopy => bundle.omsCopy[d].state \in Sent
  /\ bundle.stage >= 5 =>
       \A d \in Decisions : bundle.omsCopy[d].filled => d \in bundle.ledgerCopy

RecoveryInv ==
  /\ RecoveryTyped
  /\ \A d \in Decisions : RowFollows(d, rows[d]) /\ CallFollows(d)
  /\ BundleFollows

\* The invariant is what the review and the bundle promise.
LEMMA RecoveryPromises ==
  ASSUME RecoveryInv
  PROVE  FillRecoverable /\ BundleNotTorn
<1>1. ASSUME NEW d \in receipts PROVE Inspect(d) \in {"READY", "MATCHED"}
  <2>1. d \in Decisions /\ RowFollows(d, rows[d])
    BY DEF RecoveryInv, RecoveryTyped
  <2>2. AuditHolds(d)
    BY <2>1 DEF RowFollows, AuditHolds
  <2>3. rows[d].state # "FILLED" => AuditOf(d) = {}
    BY <2>1 DEF RowFollows
  <2>4. rows[d].state \in Sent
    BY <2>1 DEF RowFollows
  <2>. QED  BY <2>2, <2>3, <2>4 DEF Inspect, Sent
<1>2. BundleNotTorn
  BY DEF RecoveryInv, BundleFollows, BundleNotTorn, Sent
<1>. QED  BY <1>1, <1>2 DEF FillRecoverable

\* Fresh databases.
LEMMA RecoveryStart == RecoveryInit => RecoveryInv
<1>. SUFFICES ASSUME RecoveryInit PROVE RecoveryInv
  OBVIOUS
<1>1. RecoveryTyped
  <2>1. NoBundle \in Bundle
    BY DEF NoBundle, Bundle
  <2>. QED  BY <2>1 DEF RecoveryInit, RecoveryTyped, PathSteps, PathRow, NoRow, OrderStates
<1>2. ASSUME NEW d \in Decisions PROVE RowFollows(d, rows[d]) /\ CallFollows(d)
  <2>1. rows[d] = NoRow /\ AuditOf(d) = {} /\ calls[d] = "idle" /\ receipts = {}
    BY DEF RecoveryInit, AuditOf
  <2>. QED  BY <2>1 DEF RowFollows, CallFollows, NoRow
<1>3. BundleFollows
  BY DEF RecoveryInit, BundleFollows, NoBundle
<1>. QED  BY <1>1, <1>2, <1>3 DEF RecoveryInv

\* The row and the call of one decision move, its audit stands still.
LEMMA RowMoves ==
  ASSUME RecoveryInv, NEW d \in Decisions, NEW new \in PathRow, NEW next \in PathSteps,
         rows' = [rows EXCEPT ![d] = new], calls' = [calls EXCEPT ![d] = next],
         UNCHANGED <<receipts, audits, bundle>>, RowFollows(d, new),
         next = "broker" => new.state \in Sent, next = "mirror" => d \in receipts
  PROVE  RecoveryInv'
<1>1. RecoveryTyped'
  BY DEF RecoveryInv, RecoveryTyped
<1>2. /\ \A x \in Decisions : x # d => rows'[x] = rows[x] /\ calls'[x] = calls[x]
      /\ rows'[d] = new /\ calls'[d] = next
  BY DEF RecoveryInv, RecoveryTyped
<1>3. ASSUME NEW x \in Decisions PROVE RowFollows(x, rows[x])' /\ CallFollows(x)'
  <2>1. AuditOf(x)' = AuditOf(x)
    BY DEF AuditOf
  <2>2. CASE x = d
    BY <1>2, <2>1, <2>2 DEF RowFollows, CallFollows
  <2>3. CASE x # d
    BY <1>2, <2>1, <2>3 DEF RecoveryInv, RowFollows, CallFollows
  <2>. QED  BY <2>2, <2>3
<1>4. BundleFollows'
  BY DEF RecoveryInv, BundleFollows
<1>. QED  BY <1>1, <1>3, <1>4 DEF RecoveryInv

\* Only calls are given up.
LEMMA CallsEnd ==
  ASSUME RecoveryInv, UNCHANGED <<rows, receipts, audits, bundle>>,
         calls' \in [Decisions -> PathSteps],
         \A d \in Decisions : calls'[d] \in {calls[d], "idle", "uncertain"}
  PROVE  RecoveryInv'
<1>1. RecoveryTyped'
  BY DEF RecoveryInv, RecoveryTyped
<1>2. ASSUME NEW x \in Decisions PROVE RowFollows(x, rows[x])' /\ CallFollows(x)'
  <2>1. AuditOf(x)' = AuditOf(x)
    BY DEF AuditOf
  <2>. QED  BY <2>1 DEF RecoveryInv, RowFollows, CallFollows
<1>3. BundleFollows'
  BY DEF RecoveryInv, BundleFollows
<1>. QED  BY <1>1, <1>2, <1>3 DEF RecoveryInv

\* A move changes the state and lengthens the order's journal.
LEMMA MovedRow ==
  ASSUME NEW row \in PathRow, NEW target \in OrderStates \cup {"ABSENT"}
  PROVE  /\ Moved(row, target) \in PathRow
         /\ Moved(row, target).state = target
         /\ Moved(row, target).head = row.head + 1
         /\ Moved(row, target).filled = row.filled
         /\ Moved(row, target).marked = row.marked
<1>1. PICK state \in OrderStates \cup {"ABSENT"}, head \in Nat, filled \in BOOLEAN,
           marked \in BOOLEAN :
        row = [state |-> state, head |-> head, filled |-> filled, marked |-> marked]
  BY DEF PathRow
<1>2. PICK after \in Nat : after = head + 1
  OBVIOUS
<1>3. Moved(row, target) =
        [state |-> target, head |-> after, filled |-> filled, marked |-> marked]
  <2>1. PICK f : f = filled
    OBVIOUS
  <2>2. PICK m : m = marked
    OBVIOUS
  <2>3. row = [state |-> state, head |-> head, filled |-> f, marked |-> m]
    BY <1>1, <2>1, <2>2
  <2>4. row.head = head
    BY <2>3
  <2>5. Moved(row, target) = [row EXCEPT !.state = target, !.head = after]
    BY <1>2, <2>4 DEF Moved
  <2>6. [row EXCEPT !.state = target, !.head = after]
          = [state |-> target, head |-> after, filled |-> f, marked |-> m]
    <3>1. PICK first : first = [row EXCEPT !.state = target]
      OBVIOUS
    <3>2. first = [state |-> target, head |-> head, filled |-> f, marked |-> m]
      BY <2>3, <3>1
    <3>3. [first EXCEPT !.head = after]
            = [state |-> target, head |-> after, filled |-> f, marked |-> m]
      BY <3>2
    <3>4. [row EXCEPT !.state = target, !.head = after] = [first EXCEPT !.head = after]
      BY <3>1
    <3>. QED  BY <3>3, <3>4
  <2>. QED  BY <2>1, <2>2, <2>5, <2>6
<1>. QED  BY <1>1, <1>2, <1>3 DEF PathRow

\* A move of the lifecycle table is one of an order without a fill.
LEMMA OmsStepKeeps ==
  ASSUME RecoveryInv, NEW d \in Decisions, NEW at, NEW target, NEW next \in PathSteps,
         OmsStep(d, at, target, next), target \in OrderStates \ {"FILLED"},
         next # "mirror", next = "broker" => target \in Sent,
         target \in Sent \/ (at = "approve" /\ target = "RISK_APPROVED")
  PROVE  RecoveryInv'
<1>1. /\ calls' = [calls EXCEPT ![d] = next] /\ Allowed(rows[d].state, target)
      /\ rows' = [rows EXCEPT ![d] = Moved(rows[d], target)]
      /\ UNCHANGED <<receipts, audits, bundle>>
  BY DEF OmsStep, Step
<1>2. PICK row : row = rows[d]
  OBVIOUS
<1>3. row \in PathRow /\ RowFollows(d, row)
  BY <1>2 DEF RecoveryInv, RecoveryTyped
<1>4. PICK new : new = Moved(row, target)
  OBVIOUS
<1>5. /\ new \in PathRow /\ new.state = target
      /\ new.filled = row.filled /\ new.marked = row.marked
  BY <1>3, <1>4, MovedRow
<1>6. row.state # "FILLED" /\ (d \in receipts => target \in Sent)
  <2>1. Allowed(row.state, target)
    BY <1>1, <1>2
  <2>. QED  BY <1>3, <2>1 DEF Allowed, RowFollows, Sent
<1>7. ~row.filled /\ AuditOf(d) = {}
  BY <1>3, <1>6 DEF RowFollows
<1>8. RowFollows(d, new)
  BY <1>3, <1>5, <1>6, <1>7 DEF RowFollows
<1>9. rows' = [rows EXCEPT ![d] = new]
  BY <1>1, <1>2, <1>4
<1>. QED  BY <1>1, <1>5, <1>8, <1>9, RowMoves

\* oms.create, of a new decision or of one that got no further.
LEMMA CreateKeeps == ASSUME RecoveryInv, NEW d \in Decisions, Create(d) PROVE RecoveryInv'
<1>1. CASE rows[d].state \notin {"ABSENT", "CREATED"}
  <2>1. UNCHANGED <<rows, receipts, audits, bundle, calls>>
    BY <1>1 DEF Create
  <2>. QED  BY <2>1, CallsEnd DEF RecoveryInv, RecoveryTyped
<1>2. CASE rows[d].state \in {"ABSENT", "CREATED"}
  <2>1. PICK row : row = rows[d]
    OBVIOUS
  <2>2. row \in PathRow /\ RowFollows(d, row)
    BY <2>1 DEF RecoveryInv, RecoveryTyped
  <2>3. PICK new : new = IF row.state = "ABSENT" THEN Moved(row, "CREATED") ELSE row
    OBVIOUS
  <2>4. /\ calls' = [calls EXCEPT ![d] = "approve"]
        /\ rows' = [rows EXCEPT ![d] = new]
        /\ UNCHANGED <<receipts, audits, bundle>>
    BY <1>2, <2>1, <2>3 DEF Create, Step
  <2>5. /\ new \in PathRow /\ new.state = "CREATED"
        /\ new.filled = row.filled /\ new.marked = row.marked
    BY <1>2, <2>1, <2>2, <2>3, MovedRow DEF OrderStates
  <2>6. d \notin receipts /\ ~row.filled /\ AuditOf(d) = {}
    BY <1>2, <2>1, <2>2 DEF RowFollows, Sent
  <2>7. RowFollows(d, new)
    BY <2>2, <2>5, <2>6 DEF RowFollows
  <2>. QED  BY <2>4, <2>5, <2>7, RowMoves DEF PathSteps
<1>. QED  BY <1>1, <1>2

\* The broker commits the fill, or raises.
LEMMA BrokerKeeps == ASSUME RecoveryInv, NEW d \in Decisions, Broker(d) PROVE RecoveryInv'
<1>1. calls[d] = "broker" /\ UNCHANGED <<rows, audits, bundle>>
  BY DEF Broker, Step
<1>2. PICK next \in {"mirror", "uncertain"} :
        /\ calls' = [calls EXCEPT ![d] = next]
        /\ receipts' = receipts \cup {d} \/ (receipts' = receipts /\ next = "uncertain")
  BY DEF Broker, Step
<1>3. receipts \subseteq receipts' /\ receipts' \subseteq receipts \cup {d}
      /\ (next = "mirror" => d \in receipts')
  BY <1>2
<1>4. calls \in [Decisions -> PathSteps] /\ rows[d].state \in Sent
  BY <1>1 DEF RecoveryInv, RecoveryTyped, CallFollows
<1>5. RecoveryTyped'
  BY <1>1, <1>2, <1>3 DEF RecoveryInv, RecoveryTyped, PathSteps
<1>6. ASSUME NEW x \in Decisions PROVE RowFollows(x, rows[x])' /\ CallFollows(x)'
  <2>1. AuditOf(x)' = AuditOf(x)
    BY <1>1 DEF AuditOf
  <2>2. CASE x = d
    BY <1>1, <1>2, <1>3, <1>4, <2>1, <2>2 DEF RecoveryInv, RowFollows, CallFollows
  <2>3. CASE x # d
    BY <1>1, <1>2, <1>3, <1>4, <2>1, <2>3 DEF RecoveryInv, RowFollows, CallFollows
  <2>. QED  BY <2>2, <2>3
<1>7. BundleFollows'
  BY <1>1, <1>3 DEF RecoveryInv, BundleFollows
<1>. QED  BY <1>5, <1>6, <1>7 DEF RecoveryInv

\* The fill of the ledger as the OMS records it, with or without the recovery's marker.
LEMMA MirroredRow ==
  ASSUME NEW row \in PathRow, NEW marker \in BOOLEAN, ~row.filled
  PROVE  /\ Mirrored(row, marker) \in PathRow
         /\ Mirrored(row, marker).state = "FILLED" /\ Mirrored(row, marker).filled
         /\ Mirrored(row, marker).marked = marker
         /\ Mirrored(row, marker).head = row.head + 1
<1>1. PICK new : new = Moved(row, "FILLED")
  OBVIOUS
<1>2. new \in PathRow /\ new.state = "FILLED" /\ new.head = row.head + 1
  BY <1>1, MovedRow DEF OrderStates
<1>3. Mirrored(row, marker) = [new EXCEPT !.filled = TRUE, !.marked = marker]
  BY <1>1 DEF Mirrored
<1>. QED  BY <1>2, <1>3 DEF PathRow

\* The dispatch mirrors the fill it was told of.
LEMMA MirrorKeeps == ASSUME RecoveryInv, NEW d \in Decisions, Mirror(d) PROVE RecoveryInv'
<1>1. PICK row : row = rows[d]
  OBVIOUS
<1>2. row \in PathRow /\ RowFollows(d, row) /\ d \in receipts
  BY <1>1 DEF RecoveryInv, RecoveryTyped, CallFollows, Mirror, Step
<1>3. PICK new : new = Mirrored(row, FALSE)
  OBVIOUS
<1>4. /\ calls' = [calls EXCEPT ![d] = "idle"] /\ rows' = [rows EXCEPT ![d] = new]
      /\ UNCHANGED <<receipts, audits, bundle>>
  BY <1>1, <1>3 DEF Mirror, Step
<1>5. new \in PathRow /\ RowFollows(d, new)
  <2>1. CASE row.filled
    BY <1>2, <1>3, <2>1 DEF Mirrored
  <2>2. CASE ~row.filled
    <3>1. /\ new \in PathRow /\ new.state = "FILLED" /\ new.filled /\ ~new.marked
      BY <1>2, <1>3, <2>2, MirroredRow
    <3>2. AuditOf(d) = {}
      BY <1>2, <2>2 DEF RowFollows
    <3>. QED  BY <1>2, <3>1, <3>2 DEF RowFollows, Sent
  <2>. QED  BY <2>1, <2>2
<1>. QED  BY <1>2, <1>4, <1>5, RowMoves DEF PathSteps

\* The reviewed recovery records the fill, its marker and its audit together.
LEMMA RecoverKeeps == ASSUME RecoveryInv, NEW p, Recover(p) PROVE RecoveryInv'
<1>. PICK d : d = p.order
  OBVIOUS
<1>1. Inspect(d) # "BLOCKED" /\ UNCHANGED <<calls, receipts, bundle>>
  BY DEF Recover
<1>2. d \in receipts /\ d \in Decisions
  BY <1>1 DEF Inspect, RecoveryInv, RecoveryTyped
<1>3. CASE UNCHANGED <<rows, audits>>
  BY <1>1, <1>3, CallsEnd DEF RecoveryInv, RecoveryTyped
<1>4. CASE ~ UNCHANGED <<rows, audits>>
  <2>1. PICK row : row = rows[d]
    OBVIOUS
  <2>2. row \in PathRow /\ RowFollows(d, row)
    BY <1>2, <2>1 DEF RecoveryInv, RecoveryTyped
  <2>3. PICK new : new = Mirrored(row, TRUE)
    OBVIOUS
  <2>4. PICK audit : audit = [order |-> d, plan |-> p, after |-> new.head]
    OBVIOUS
  <2>5. /\ AuditOf(d) = {} /\ Inspect(d) # "MATCHED"
        /\ rows' = [rows EXCEPT ![d] = new] /\ audits' = audits \cup {audit}
    BY <1>4, <2>1, <2>3, <2>4 DEF Recover
  <2>6. ~row.filled
    BY <1>1, <1>2, <2>1, <2>2, <2>5 DEF Inspect, RowFollows, AuditHolds
  <2>7. new \in PathRow /\ new.state = "FILLED" /\ new.filled /\ new.marked
    BY <2>2, <2>3, <2>6, MirroredRow
  <2>8. /\ \A x \in Decisions : x # d => rows'[x] = rows[x]
        /\ rows'[d] = new
    BY <1>2, <2>5 DEF RecoveryInv, RecoveryTyped
  <2>9. audit.order = d /\ audit.after = new.head
    BY <2>4
  <2>10. AuditOf(d)' = {audit}
    BY <2>5, <2>9 DEF AuditOf
  <2>11. \A x \in Decisions : x # d => AuditOf(x)' = AuditOf(x)
    BY <2>5, <2>9 DEF AuditOf
  <2>12. RecoveryTyped'
    BY <1>1, <1>2, <2>5, <2>7, <2>9 DEF RecoveryInv, RecoveryTyped
  <2>13. ASSUME NEW x \in Decisions PROVE RowFollows(x, rows[x])' /\ CallFollows(x)'
    <3>1. CASE x = d
      BY <1>1, <1>2, <2>7, <2>8, <2>9, <2>10, <3>1
         DEF RecoveryInv, RowFollows, CallFollows, Sent
    <3>2. CASE x # d
      BY <1>1, <2>8, <2>11, <3>2 DEF RecoveryInv, RowFollows, CallFollows
    <3>. QED  BY <3>1, <3>2
  <2>14. BundleFollows'
    BY <1>1 DEF RecoveryInv, BundleFollows
  <2>. QED  BY <2>12, <2>13, <2>14 DEF RecoveryInv
<1>. QED  BY <1>3, <1>4

\* What a step of the copying leaves of bundle b.
LEMMA CopySteps ==
  ASSUME NEW S, NEW L, NEW T, NEW V, NEW s, NEW l, NEW t, NEW v,
         NEW b \in [stage : S, ledger : L, ledgerCopy : L, oms : T, omsCopy : T, result : V]
  PROVE  /\ [b EXCEPT !.stage = s, !.ledger = l]
              = [stage |-> s, ledger |-> l, ledgerCopy |-> b.ledgerCopy, oms |-> b.oms,
                 omsCopy |-> b.omsCopy, result |-> b.result]
         /\ [b EXCEPT !.stage = s, !.oms = t]
              = [stage |-> s, ledger |-> b.ledger, ledgerCopy |-> b.ledgerCopy, oms |-> t,
                 omsCopy |-> b.omsCopy, result |-> b.result]
         /\ [b EXCEPT !.stage = s, !.ledgerCopy = l]
              = [stage |-> s, ledger |-> b.ledger, ledgerCopy |-> l, oms |-> b.oms,
                 omsCopy |-> b.omsCopy, result |-> b.result]
         /\ [b EXCEPT !.stage = s, !.omsCopy = t]
              = [stage |-> s, ledger |-> b.ledger, ledgerCopy |-> b.ledgerCopy, oms |-> b.oms,
                 omsCopy |-> t, result |-> b.result]
         /\ [b EXCEPT !.stage = s, !.result = v]
              = [stage |-> s, ledger |-> b.ledger, ledgerCopy |-> b.ledgerCopy, oms |-> b.oms,
                 omsCopy |-> b.omsCopy, result |-> v]
<1>1. PICK first : first = [b EXCEPT !.stage = s]
  OBVIOUS
<1>2. PICK l0 \in L : l0 = b.ledger
  OBVIOUS
<1>3. PICK l1 \in L : l1 = b.ledgerCopy
  OBVIOUS
<1>4. PICK t0 \in T : t0 = b.oms
  OBVIOUS
<1>5. PICK t1 \in T : t1 = b.omsCopy
  OBVIOUS
<1>6. PICK v0 \in V : v0 = b.result
  OBVIOUS
<1>7. first = [stage |-> s, ledger |-> l0, ledgerCopy |-> l1, oms |-> t0, omsCopy |-> t1,
               result |-> v0]
  BY <1>1, <1>2, <1>3, <1>4, <1>5, <1>6
<1>8. [first EXCEPT !.ledger = l]
        = [stage |-> s, ledger |-> l, ledgerCopy |-> l1, oms |-> t0, omsCopy |-> t1,
           result |-> v0]
  BY <1>7
<1>9. [first EXCEPT !.oms = t]
        = [stage |-> s, ledger |-> l0, ledgerCopy |-> l1, oms |-> t, omsCopy |-> t1,
           result |-> v0]
  BY <1>7
<1>10. [first EXCEPT !.ledgerCopy = l]
        = [stage |-> s, ledger |-> l0, ledgerCopy |-> l, oms |-> t0, omsCopy |-> t1,
           result |-> v0]
  BY <1>7
<1>11. [first EXCEPT !.omsCopy = t]
        = [stage |-> s, ledger |-> l0, ledgerCopy |-> l1, oms |-> t0, omsCopy |-> t,
           result |-> v0]
  BY <1>7
<1>12. [first EXCEPT !.result = v]
        = [stage |-> s, ledger |-> l0, ledgerCopy |-> l1, oms |-> t0, omsCopy |-> t1,
           result |-> v]
  BY <1>7
<1>13. /\ [b EXCEPT !.stage = s, !.ledger = l] = [first EXCEPT !.ledger = l]
       /\ [b EXCEPT !.stage = s, !.oms = t] = [first EXCEPT !.oms = t]
       /\ [b EXCEPT !.stage = s, !.ledgerCopy = l] = [first EXCEPT !.ledgerCopy = l]
       /\ [b EXCEPT !.stage = s, !.omsCopy = t] = [first EXCEPT !.omsCopy = t]
       /\ [b EXCEPT !.stage = s, !.result = v] = [first EXCEPT !.result = v]
  BY <1>1
<1>. QED  BY <1>2, <1>3, <1>4, <1>5, <1>6, <1>8, <1>9, <1>10, <1>11, <1>12, <1>13

\* The bundle copies the files one after the other.
LEMMA BundleKeeps == ASSUME RecoveryInv, BundleStep PROVE RecoveryInv'
<1>1. UNCHANGED <<calls, receipts, rows, audits>>
  BY DEF BundleStep
<1>2. /\ bundle \in Bundle /\ receipts \in SUBSET Decisions
      /\ rows \in [Decisions -> PathRow]
      /\ \A d \in Decisions : RowFollows(d, rows[d])
  BY DEF RecoveryInv, RecoveryTyped
<1>3. PICK b : b = bundle
  OBVIOUS
<1>4. PICK new : new = bundle'
  OBVIOUS
<1>5. NoBundle \in Bundle /\ NoBundle.stage = 0
  BY DEF NoBundle, Bundle
<1>6. b.stage \in 0..5
  BY <1>2, <1>3 DEF Bundle, BundleStep
<1>7. /\ b.ledger \in SUBSET Decisions /\ b.ledgerCopy \in SUBSET Decisions
      /\ b.oms \in {<< >>} \cup [Decisions -> PathRow]
      /\ b.omsCopy \in {<< >>} \cup [Decisions -> PathRow]
      /\ b.result \in {"none", "captured_state_verified", "discrepancy"}
  BY <1>2, <1>3 DEF Bundle
<1>8. ASSUME new \in Bundle,
             new.stage >= 1 => new.ledger \subseteq receipts,
             new.stage >= 3 => new.ledger \subseteq new.ledgerCopy
                               /\ new.ledgerCopy \subseteq receipts,
             new.stage >= 4 =>
               \A d \in Decisions :
                 /\ new.omsCopy[d].filled => d \in receipts
                 /\ d \in new.ledgerCopy => new.omsCopy[d].state \in Sent,
             new.stage >= 5 =>
               \A d \in Decisions : new.omsCopy[d].filled => d \in new.ledgerCopy
      PROVE  RecoveryInv'
  <2>1. RecoveryTyped'
    BY <1>1, <1>4, <1>8 DEF RecoveryInv, RecoveryTyped
  <2>2. ASSUME NEW x \in Decisions PROVE RowFollows(x, rows[x])' /\ CallFollows(x)'
    <3>1. AuditOf(x)' = AuditOf(x)
      BY <1>1 DEF AuditOf
    <3>. QED  BY <1>1, <3>1 DEF RecoveryInv, RowFollows, CallFollows
  <2>3. BundleFollows'
    BY <1>1, <1>4, <1>8 DEF BundleFollows
  <2>. QED  BY <2>1, <2>2, <2>3 DEF RecoveryInv
<1>9. CASE b.stage = 0
  <2>1. new = [b EXCEPT !.stage = 1, !.ledger = receipts]
    BY <1>3, <1>4, <1>9 DEF BundleStep
  <2>2. new \in Bundle /\ new.stage = 1 /\ new.ledger = receipts
    <3>1. new = [stage |-> 1, ledger |-> receipts, ledgerCopy |-> b.ledgerCopy,
                   oms |-> b.oms, omsCopy |-> b.omsCopy, result |-> b.result]
      BY <1>2, <1>3, <2>1, CopySteps DEF Bundle
    <3>. QED  BY <1>2, <1>7, <3>1 DEF Bundle
  <2>. QED  BY <1>8, <2>2
<1>10. CASE b.stage = 1
  <2>1. new = [b EXCEPT !.stage = 2, !.oms = rows]
    BY <1>3, <1>4, <1>10 DEF BundleStep
  <2>2. new \in Bundle /\ new.stage = 2 /\ new.ledger = b.ledger
    <3>1. new = [stage |-> 2, ledger |-> b.ledger, ledgerCopy |-> b.ledgerCopy,
                   oms |-> rows, omsCopy |-> b.omsCopy, result |-> b.result]
      BY <1>2, <1>3, <2>1, CopySteps DEF Bundle
    <3>. QED  BY <1>2, <1>7, <3>1 DEF Bundle
  <2>3. b.ledger \subseteq receipts
    BY <1>3, <1>10 DEF RecoveryInv, BundleFollows
  <2>. QED  BY <1>8, <2>2, <2>3
<1>11. CASE b.stage = 2
  <2>1. new = [b EXCEPT !.stage = 3, !.ledgerCopy = receipts]
    BY <1>3, <1>4, <1>11 DEF BundleStep
  <2>2. new \in Bundle /\ new.stage = 3 /\ new.ledger = b.ledger /\ new.ledgerCopy = receipts
    <3>1. new = [stage |-> 3, ledger |-> b.ledger, ledgerCopy |-> receipts,
                   oms |-> b.oms, omsCopy |-> b.omsCopy, result |-> b.result]
      BY <1>2, <1>3, <2>1, CopySteps DEF Bundle
    <3>. QED  BY <1>2, <1>7, <3>1 DEF Bundle
  <2>3. b.ledger \subseteq receipts
    BY <1>3, <1>11 DEF RecoveryInv, BundleFollows
  <2>. QED  BY <1>8, <2>2, <2>3
<1>12. CASE b.stage = 3
  <2>1. new = [b EXCEPT !.stage = 4, !.omsCopy = rows]
    BY <1>3, <1>4, <1>12 DEF BundleStep
  <2>2. /\ new \in Bundle /\ new.stage = 4 /\ new.ledger = b.ledger
        /\ new.ledgerCopy = b.ledgerCopy /\ new.omsCopy = rows
    <3>1. new = [stage |-> 4, ledger |-> b.ledger, ledgerCopy |-> b.ledgerCopy,
                   oms |-> b.oms, omsCopy |-> rows, result |-> b.result]
      BY <1>2, <1>3, <2>1, CopySteps DEF Bundle
    <3>. QED  BY <1>2, <1>7, <3>1 DEF Bundle
  <2>3. b.ledger \subseteq b.ledgerCopy /\ b.ledgerCopy \subseteq receipts
    BY <1>3, <1>12 DEF RecoveryInv, BundleFollows
  <2>4. \A d \in Decisions : /\ rows[d].filled => d \in receipts
                             /\ d \in receipts => rows[d].state \in Sent
    BY <1>2 DEF RowFollows
  <2>. QED  BY <1>8, <2>2, <2>3, <2>4
<1>13. CASE b.stage = 4 /\ new # NoBundle
  <2>1. new = [b EXCEPT !.stage = 5] /\ b.ledger = receipts
    BY <1>3, <1>4, <1>13 DEF BundleStep, Same
  <2>2. /\ new \in Bundle /\ new.stage = 5 /\ new.ledger = b.ledger
        /\ new.ledgerCopy = b.ledgerCopy /\ new.omsCopy = b.omsCopy
    BY <1>2, <1>3, <2>1 DEF Bundle
  <2>3. b.ledgerCopy = receipts
    BY <1>3, <1>13, <2>1 DEF RecoveryInv, BundleFollows
  <2>4. \A d \in Decisions : /\ b.omsCopy[d].filled => d \in receipts
                             /\ d \in b.ledgerCopy => b.omsCopy[d].state \in Sent
    BY <1>3, <1>13 DEF RecoveryInv, BundleFollows
  <2>. QED  BY <1>8, <2>1, <2>2, <2>3, <2>4
<1>14. CASE b.stage = 5 /\ new # NoBundle
  <2>1. PICK verdict : verdict = Captured(b.ledgerCopy, b.omsCopy)
    OBVIOUS
  <2>2. new = [b EXCEPT !.stage = 6, !.result = verdict]
    BY <1>3, <1>4, <1>14, <2>1 DEF BundleStep
  <2>3. verdict \in {"none", "captured_state_verified", "discrepancy"}
    BY <2>1 DEF Captured
  <2>4. /\ new \in Bundle /\ new.stage = 6 /\ new.ledger = b.ledger
        /\ new.ledgerCopy = b.ledgerCopy /\ new.omsCopy = b.omsCopy
    <3>1. new = [stage |-> 6, ledger |-> b.ledger, ledgerCopy |-> b.ledgerCopy,
                   oms |-> b.oms, omsCopy |-> b.omsCopy, result |-> verdict]
      BY <1>2, <1>3, <2>2, CopySteps DEF Bundle
    <3>. QED  BY <1>2, <1>7, <2>3, <3>1 DEF Bundle
  <2>5. /\ b.ledger \subseteq b.ledgerCopy /\ b.ledgerCopy \subseteq receipts
        /\ \A d \in Decisions : /\ b.omsCopy[d].filled => d \in receipts
                                /\ d \in b.ledgerCopy => b.omsCopy[d].state \in Sent
                                /\ b.omsCopy[d].filled => d \in b.ledgerCopy
    BY <1>3, <1>14 DEF RecoveryInv, BundleFollows
  <2>. QED  BY <1>8, <2>4, <2>5
<1>15. CASE new = NoBundle
  BY <1>5, <1>8, <1>15
<1>16. CASE b.stage \in {4, 5} /\ new # NoBundle
  BY <1>13, <1>14, <1>16
<1>. QED  BY <1>6, <1>9, <1>10, <1>11, <1>12, <1>15, <1>16

\* Every step of the path, the review and the bundle.
LEMMA RecoveryStep ==
  ASSUME RecoveryInv, [RecoveryNext]_recoveryVars
  PROVE  RecoveryInv'
<1>1. ASSUME NEW d \in Decisions, Approve(d) \/ Marked(d) \/ Uncertain(d) PROVE RecoveryInv'
  <2>1. CASE Approve(d)
    BY <2>1, OmsStepKeeps DEF Approve, OrderStates, PathSteps, Sent
  <2>2. CASE Marked(d)
    BY <2>2, OmsStepKeeps DEF Marked, OrderStates, PathSteps, Sent
  <2>3. CASE Uncertain(d)
    BY <2>3, OmsStepKeeps DEF Uncertain, OrderStates, PathSteps, Sent
  <2>. QED  BY <1>1, <2>1, <2>2, <2>3
<1>2. ASSUME (\E d \in Decisions : Refused(d) \/ Review(d)) \/ Crash \/ Switch
             \/ UNCHANGED recoveryVars
      PROVE  RecoveryInv'
  <2>1. calls \in [Decisions -> PathSteps]
    BY DEF RecoveryInv, RecoveryTyped
  <2>2. /\ UNCHANGED <<rows, receipts, audits, bundle>>
        /\ calls' \in [Decisions -> PathSteps]
        /\ \A d \in Decisions : calls'[d] \in {calls[d], "idle", "uncertain"}
    BY <1>2, <2>1 DEF Refused, Review, Crash, Switch, recoveryVars, PathSteps
  <2>. QED  BY <2>2, CallsEnd
<1>3. ASSUME NEW d \in Decisions, Create(d) \/ Broker(d) \/ Mirror(d) PROVE RecoveryInv'
  BY <1>3, CreateKeeps, BrokerKeeps, MirrorKeeps
<1>4. ASSUME NEW p \in reviewed, Recover(p) PROVE RecoveryInv'
  BY <1>4, RecoverKeeps
<1>5. ASSUME BundleStep PROVE RecoveryInv'
  BY <1>5, BundleKeeps
<1>. QED  BY <1>1, <1>2, <1>3, <1>4, <1>5 DEF RecoveryNext

\* A committed fill stays recoverable and a certified bundle is never torn.
LEMMA PathRecoverable == RecoverySpec => [](FillRecoverable /\ BundleNotTorn)
<1>1. RecoveryInit => RecoveryInv
  BY RecoveryStart
<1>2. RecoveryInv /\ [RecoveryNext]_recoveryVars => RecoveryInv'
  BY RecoveryStep
<1>3. RecoveryInv => FillRecoverable /\ BundleNotTorn
  BY RecoveryPromises
<1>. QED  BY <1>1, <1>2, <1>3, PTL DEF RecoverySpec

-----------------------------------------------------------------------------
(* The operator's requests.                                                *)

Row ==
  [request : Requests, actor : Actors, program : Operated,
   status : {"REQUESTED", "RETURNED", "FAILED"}]
Run ==
  {Idle} \cup [request : Requests, program : Operated,
               at : {"reconcile", "RETURNED", "FAILED"}]

OperatorTyped ==
  /\ log \in Seq(Row)
  /\ running \in Run
  /\ ran \in [Requests -> Nat]

InLog(r) == \E i \in 1..Len(log) : log[i].request = r

\* A request is logged before it runs, its outcome after; while it is under way there is room
\* for the outcome, and the count says whether the reconciliation has begun.
OperatorInv ==
  /\ OperatorTyped
  /\ \A r \in Requests : ran[r] <= 1 /\ (ran[r] = 1 => InLog(r))
  /\ \A i \in 1..Len(log) : log[i].status # "REQUESTED" => ran[log[i].request] = 1
  /\ running # Idle =>
       /\ Len(log) < MaxEvents
       /\ InLog(running.request)
       /\ ran[running.request] = IF running.at = "reconcile" THEN 0 ELSE 1

\* Latest finds a row of the request, if the log has one.
LEMMA LatestRow ==
  ASSUME log \in Seq(Row), NEW r
  PROVE  /\ Latest(r) = << >> => ~InLog(r)
         /\ ~InLog(r) => Latest(r) = << >>
         /\ InLog(r) => \E i \in 1..Len(log) : log[i].request = r /\ Latest(r) = <<log[i]>>
<1>. PICK n : n = Len(log)
  OBVIOUS
<1>1. n \in Nat /\ DOMAIN log = 1..n
  BY LenProperties
<1>. DEFINE of == {i \in DOMAIN log : log[i].request = r}
<1>2. Latest(r) = IF of = {} THEN << >> ELSE <<log[Max(of)]>>
  BY DEF Latest
<1>3. InLog(r) <=> of # {}
  BY <1>1 DEF InLog
<1>4. of # {} => Max(of) \in of
  <2>1. IsFiniteSet(1..n)
    BY <1>1, FS_Interval
  <2>2. of \subseteq 1..n
    BY <1>1
  <2>3. Positions(of)
    <3>1. 1..n \subseteq Int
      BY <1>1
    <3>. HIDE DEF of
    <3>. QED  BY <2>1, <2>2, <3>1, FS_Subset DEF Positions
  <2>. HIDE DEF of
  <2>. QED  BY <2>3, MaxOfFinite
<1>5. of # {} => Max(of) \in 1..n /\ log[Max(of)].request = r
  BY <1>1, <1>4
<1>6. << >> # <<log[Max(of)]>>
  OBVIOUS
<1>. HIDE DEF of
<1>. QED  BY <1>2, <1>3, <1>5, <1>6

\* The invariant is what a repeated request relies on.
LEMMA OperatorPromises == OperatorInv => RequestRunsOnce
<1>. SUFFICES ASSUME OperatorInv PROVE RequestRunsOnce
  OBVIOUS
<1>1. ASSUME NEW r \in Requests, NEW actor \in Actors, NEW p \in Operated,
             Answer(r, actor, p) = "replayed"
      PROVE  ran[r] = 1
  <2>1. Latest(r) # << >>
    BY <1>1 DEF Answer
  <2>2. PICK i \in 1..Len(log) : log[i].request = r /\ Latest(r) = <<log[i]>>
    BY <2>1, LatestRow DEF OperatorInv, OperatorTyped
  <2>3. Latest(r)[1] = log[i]
    BY <2>2
  <2>4. log[i].status = "RETURNED"
    BY <1>1, <2>1, <2>3 DEF Answer
  <2>. QED  BY <2>2, <2>4 DEF OperatorInv
<1>. QED  BY <1>1 DEF OperatorInv, RequestRunsOnce

\* An empty log.
LEMMA OperatorStart == OperatorInit => OperatorInv
BY DEF OperatorInit, OperatorInv, OperatorTyped, Run, InLog

\* A row appended to the log.
LEMMA Logged ==
  ASSUME log \in Seq(Row), NEW new \in Row, log' = Append(log, new)
  PROVE  /\ log' \in Seq(Row) /\ Len(log') = Len(log) + 1 /\ Len(log) \in Nat
         /\ \A i \in 1..Len(log) : log'[i] = log[i]
         /\ log'[Len(log')] = new
         /\ \A r : InLog(r)' <=> InLog(r) \/ new.request = r
<1>1. /\ log' \in Seq(Row) /\ Len(log') = Len(log) + 1 /\ Len(log) \in Nat
      /\ \A i \in 1..Len(log) : log'[i] = log[i]
      /\ log'[Len(log')] = new
  BY AppendProperties, LenProperties
<1>2. ASSUME NEW r PROVE InLog(r)' <=> InLog(r) \/ new.request = r
  BY <1>1 DEF InLog
<1>. QED  BY <1>1, <1>2

\* apply records a request the log has not seen.
LEMMA ApplyKeeps ==
  ASSUME OperatorInv, NEW r \in Requests, NEW actor \in Actors, NEW p \in Operated,
         Apply(r, actor, p)
  PROVE  OperatorInv'
<1>1. OperatorTyped /\ MaxEvents \in Nat
  BY EventsAssumption DEF OperatorInv
<1>2. PICK new : new = [request |-> r, actor |-> actor, program |-> p, status |-> "REQUESTED"]
  OBVIOUS
<1>3. new \in Row /\ new.request = r /\ new.status = "REQUESTED"
  BY <1>2 DEF Row
<1>4. /\ log' = Append(log, new) /\ UNCHANGED ran /\ Len(log) <= MaxEvents - 2
      /\ running' = [request |-> r, program |-> p, at |-> "reconcile"] /\ Latest(r) = << >>
  BY <1>2 DEF Apply, Unused, RoomForOutcome
<1>5. ~InLog(r)
  BY <1>1, <1>4, LatestRow DEF OperatorTyped
<1>6. ran[r] = 0
  BY <1>1, <1>5 DEF OperatorInv, OperatorTyped
<1>7. /\ log' \in Seq(Row) /\ Len(log') = Len(log) + 1 /\ Len(log) \in Nat
      /\ \A i \in 1..Len(log) : log'[i] = log[i]
      /\ log'[Len(log')] = new
      /\ \A x : InLog(x)' <=> InLog(x) \/ new.request = x
  BY <1>1, <1>3, <1>4, Logged DEF OperatorTyped
<1>8. /\ running' \in Run /\ running'.request = r /\ running'.at = "reconcile"
  BY <1>4 DEF Run
<1>9. OperatorTyped'
  BY <1>1, <1>4, <1>7, <1>8 DEF OperatorTyped
<1>10. \A x \in Requests : ran'[x] <= 1 /\ (ran'[x] = 1 => InLog(x)')
  BY <1>4, <1>7 DEF OperatorInv
<1>11. ASSUME NEW i \in 1..Len(log'), log'[i].status # "REQUESTED"
       PROVE  ran'[log'[i].request] = 1
  <2>1. i \in 1..Len(log)
    BY <1>3, <1>7, <1>11
  <2>. QED  BY <1>4, <1>7, <1>11, <2>1 DEF OperatorInv
<1>12. /\ Len(log') < MaxEvents /\ InLog(running.request)'
       /\ ran'[running'.request] = IF running'.at = "reconcile" THEN 0 ELSE 1
  BY <1>1, <1>3, <1>4, <1>6, <1>7, <1>8
<1>. QED  BY <1>9, <1>10, <1>11, <1>12 DEF OperatorInv

\* The one reconciliation of a request.
LEMMA ReconcileKeeps == ASSUME OperatorInv, ReconcileProgram PROVE OperatorInv'
<1>1. OperatorTyped /\ running # Idle /\ running.at = "reconcile" /\ UNCHANGED log
  BY DEF OperatorInv, ReconcileProgram
<1>2. PICK end \in {"RETURNED", "FAILED"} : running' = [running EXCEPT !.at = end]
  BY DEF ReconcileProgram
<1>3. running \in [request : Requests, program : Operated,
                   at : {"reconcile", "RETURNED", "FAILED"}]
  BY <1>1 DEF OperatorTyped, Run
<1>4. /\ running' \in Run /\ running'.request = running.request /\ running'.at = end
      /\ running.request \in Requests
  BY <1>2, <1>3 DEF Run
<1>5. PICK r \in Requests : r = running.request
  BY <1>4
<1>6. ran' = [ran EXCEPT ![r] = @ + 1] /\ ran \in [Requests -> Nat] /\ ran[r] = 0
  BY <1>1, <1>5 DEF ReconcileProgram, OperatorInv, OperatorTyped
<1>7. ran' \in [Requests -> Nat] /\ ran'[r] = 1 /\ \A x \in Requests : x # r => ran'[x] = ran[x]
  BY <1>6
<1>8. InLog(r) /\ Len(log) < MaxEvents /\ \A x : InLog(x)' <=> InLog(x)
  BY <1>1, <1>5 DEF OperatorInv, InLog
<1>9. OperatorTyped'
  BY <1>1, <1>4, <1>7 DEF OperatorTyped
<1>10. \A x \in Requests : ran'[x] <= 1 /\ (ran'[x] = 1 => InLog(x)')
  BY <1>7, <1>8 DEF OperatorInv
<1>11. ASSUME NEW i \in 1..Len(log'), log'[i].status # "REQUESTED"
       PROVE  ran'[log'[i].request] = 1
  <2>1. i \in 1..Len(log) /\ log'[i] = log[i] /\ log[i].request \in Requests
    <3>1. log \in Seq(Row) /\ log' = log /\ i \in 1..Len(log)
      BY <1>1, <1>11 DEF OperatorTyped
    <3>2. log[i] \in Row
      BY <3>1, ElementOfSeq
    <3>. QED  BY <3>1, <3>2 DEF Row
  <2>. QED  BY <1>7, <1>11, <2>1 DEF OperatorInv
<1>12. /\ Len(log') < MaxEvents /\ InLog(running.request)'
       /\ ran'[running'.request] = IF running'.at = "reconcile" THEN 0 ELSE 1
  BY <1>1, <1>4, <1>5, <1>7, <1>8
<1>. QED  BY <1>9, <1>10, <1>11, <1>12 DEF OperatorInv

\* The outcome of the run follows its request.
LEMMA FinishKeeps == ASSUME OperatorInv, Finish PROVE OperatorInv'
<1>1. /\ OperatorTyped /\ running # Idle /\ running.at \in {"RETURNED", "FAILED"}
      /\ UNCHANGED ran /\ running' = Idle
  BY DEF OperatorInv, Finish
<1>2. PICK r : r = running.request
  OBVIOUS
<1>3. InLog(r) /\ ran[r] = 1
  BY <1>1, <1>2 DEF OperatorInv
<1>4. PICK i \in 1..Len(log) : log[i].request = r /\ Latest(r) = <<log[i]>>
  BY <1>1, <1>3, LatestRow DEF OperatorTyped
<1>5. PICK row : row = log[i]
  OBVIOUS
<1>6. row \in Row /\ row.request = r /\ Latest(r)[1] = row
  BY <1>1, <1>4, <1>5, ElementOfSeq DEF OperatorTyped
<1>7. PICK new : new = [row EXCEPT !.status = running.at]
  OBVIOUS
<1>8. log' = Append(log, new)
  BY <1>2, <1>6, <1>7 DEF Finish
<1>9. new \in Row /\ new.request = r
  BY <1>1, <1>6, <1>7 DEF Row
<1>10. /\ log' \in Seq(Row) /\ Len(log') = Len(log) + 1 /\ Len(log) \in Nat
       /\ \A j \in 1..Len(log) : log'[j] = log[j]
       /\ log'[Len(log')] = new
       /\ \A x : InLog(x)' <=> InLog(x) \/ new.request = x
  BY <1>1, <1>8, <1>9, Logged DEF OperatorTyped
<1>11. OperatorTyped'
  BY <1>1, <1>10 DEF OperatorTyped, Run
<1>12. \A x \in Requests : ran'[x] <= 1 /\ (ran'[x] = 1 => InLog(x)')
  BY <1>1, <1>10 DEF OperatorInv
<1>13. ASSUME NEW j \in 1..Len(log'), log'[j].status # "REQUESTED"
       PROVE  ran'[log'[j].request] = 1
  <2>1. CASE j \in 1..Len(log)
    BY <1>1, <1>10, <1>13, <2>1 DEF OperatorInv
  <2>2. CASE j = Len(log')
    BY <1>1, <1>3, <1>9, <1>10, <2>2
  <2>. QED  BY <1>10, <2>1, <2>2
<1>. QED  BY <1>1, <1>11, <1>12, <1>13 DEF OperatorInv

\* A request id reconciles at most once, across failures and restarts.
LEMMA RequestsOnce == OperatorSpec => []RequestRunsOnce
<1>1. OperatorInit => OperatorInv
  BY OperatorStart
<1>2. OperatorInv /\ [OperatorNext]_operatorVars => OperatorInv'
  <2>. SUFFICES ASSUME OperatorInv, [OperatorNext]_operatorVars PROVE OperatorInv'
    OBVIOUS
  <2>1. ASSUME Die \/ UNCHANGED operatorVars PROVE OperatorInv'
    <3>1. UNCHANGED <<log, ran>> /\ (running' = Idle \/ UNCHANGED running)
      BY <2>1 DEF Die, operatorVars
    <3>. QED  BY <3>1 DEF OperatorInv, OperatorTyped, InLog, Run
  <2>. QED  BY <2>1, ApplyKeeps, ReconcileKeeps, FinishKeeps DEF OperatorNext
<1>3. OperatorInv => RequestRunsOnce
  BY OperatorPromises
<1>. QED  BY <1>1, <1>2, <1>3, PTL DEF OperatorSpec

-----------------------------------------------------------------------------
(* Both.                                                                   *)

\* What an interrupted dispatch, copy or operator request leaves behind is complete or can
\* be repaired from its own evidence, and a request never reconciles a second time
\* (orders/paper_recovery.py inspect, operations/recovery_bundle.py,
\* operations/institutional_operator.py apply).
THEOREM Recoverable == RecoverySpec /\ OperatorSpec => []InterruptionsRecoverable
<1>1. FillRecoverable /\ BundleNotTorn /\ RequestRunsOnce => InterruptionsRecoverable
  BY DEF InterruptionsRecoverable
<1>. QED  BY <1>1, PathRecoverable, RequestsOnce, PTL
=============================================================================
