----------------------------- MODULE MCHaltLatch -----------------------------
(* The same three times, with the halt latch's history.                    *)
EXTENDS HaltLatch

MCPhase == <<"closed", "regular", "regular">>
MCCloses == <<4, 4, 4>>
MCSizes == [BUY |-> {2}, SELL |-> {1}]
MCDayOf == <<1, 2, 2>>
=============================================================================
