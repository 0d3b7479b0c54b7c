---------------------------- MODULE SliceOutcome ----------------------------
(***************************************************************************)
(* What paper execution promises about each child order, whatever crashes  *)
(* and whoever recovers: it stays open, or is closed untraded for good, or *)
(* trades once and is then booked once.  PaperExecution.tla implements     *)
(* this specification; the four stores, the coordinators and their faults  *)
(* are invisible here.                                                     *)
(***************************************************************************)
CONSTANTS Slices
VARIABLE outcome

Outcomes == {"open", "closed", "traded", "booked"}

Init == outcome = [s \in Slices |-> "open"]

\* A failed check closes one slice, a cancelled program all of its slices.
Close(S) ==
  /\ \A s \in S : outcome[s] = "open"
  /\ outcome' = [s \in Slices |-> IF s \in S THEN "closed" ELSE outcome[s]]

\* Only when nothing traded is waiting to be booked.
Trade(s) ==
  /\ outcome[s] = "open"
  /\ \A t \in Slices : outcome[t] # "traded"
  /\ outcome' = [outcome EXCEPT ![s] = "traded"]

Book(s) ==
  /\ outcome[s] = "traded"
  /\ outcome' = [outcome EXCEPT ![s] = "booked"]

Next ==
  \/ \E S \in SUBSET Slices : Close(S)
  \/ \E s \in Slices : Trade(s) \/ Book(s)

Spec == Init /\ [][Next]_outcome
=============================================================================
