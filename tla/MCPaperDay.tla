----------------------------- MODULE MCPaperDay -----------------------------
(***************************************************************************)
(* The cash instance has three times inside the session, over a midnight:  *)
(* a fall from 10 to 8 is trading and passes the stop of 9 of an entry at  *)
(* 10, a rise from 8 to 10 is a re-based quote.  The margined instance     *)
(* holds a future over a closed night into the closing auction of the next *)
(* day, which is its pre-close window, and meets a declared corporate      *)
(* action on the third; between its prices of 5 and 10 every step is a     *)
(* re-based quote.                                                         *)
(***************************************************************************)
EXTENDS PaperDay

MCPhase == <<"regular", "regular", "regular">>
MCCloses == <<4, 4, 4>>
MCSizes == [BUY |-> {2}, SELL |-> {1}]
MCDayOf == <<1, 2, 2>>

MCMarginPhase == <<"regular", "closed", "auction", "regular">>
MCMarginCloses == <<2, 4, 4, 5>>
MCMarginDays == <<1, 2, 2, 3>>
MCExDates == Symbols \X {4}
=============================================================================
