---------------------------- MODULE MCDurableOms ----------------------------
(* Small instances of the OMS.  Order c asks for one lot, the others for    *)
(* MCBig, so that b can replace what an untouched a leaves and c what       *)
(* either leaves.  Execution id k is an external one, of broker order x.    *)
EXTENDS DurableOms

CONSTANTS a, b, c, x, y, f, g, k, l1, l2, MCBig

MCQty == [o \in ClientIds |-> IF o = c THEN 1 ELSE MCBig]
MCEcon == [o \in ClientIds |-> "BUY-1"]
\* Internal execution ids are interchangeable.
Symmetric == Permutations({f, g})
MCSource == [i \in FillIds |-> IF i = k THEN x ELSE NoBroker]

\* Once c exists as well, journals are shorter and levels and prices are alike.
Small ==
  /\ \A o \in ClientIds : Len(events[o]) <= 5
  /\ \A o \in ClientIds : Present(o) => events[o][1].levels = l1
  /\ \A row \in fills : row.price = 1
MCSpec == Init /\ [][Next /\ (Present(c)' => Small')]_vars
=============================================================================
