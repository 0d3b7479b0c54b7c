------------------------------ MODULE AiBudget ------------------------------
(***************************************************************************)
(* The two daily ledgers every AI provider call passes before it leaves    *)
(* the process (llm/budget.py, llm/spend.py) and the clients that walk     *)
(* them (llm/anthropic_client.py, openai_client.py, challenger.py).        *)
(*                                                                         *)
(* A call reserves a token allowance in each of its token ledgers, then    *)
(* dollars, marks its token tickets dispatched and only then talks to the  *)
(* provider.  Each arrow is a SQLite transaction of its own, other calls   *)
(* and other processes run between any two of them, and the process can    *)
(* die between any two.  The challenger's call has two token ledgers, its  *)
(* private sample allowance and the shared one.                            *)
(*                                                                         *)
(* Tokens are counted in units of an allowance and one token costs one     *)
(* unit of money: prices are out of the model, the bookkeeping is not.     *)
(***************************************************************************)
EXTENDS Integers, Sequences, FiniteSets, FiniteSums, Functions

CONSTANTS Calls,        \* provider calls attempted over the modelled days
          ScopeOf,      \* [Calls -> scope]: the budget scope a client names
          LedgersOf,    \* [Calls -> sequence of token ledgers, in the order walked]
          Allowance,    \* [Calls -> Nat]: the conservative reservation
          CallLimit,    \* [ledger -> Nat]: daily_call_limit
          TokenLimit,   \* [ledger -> Nat]: daily_token_limit
          DollarLimit,  \* PRAMANA_AI_DAILY_USD_LIMIT
          LastDay,      \* bound on the UTC days modelled
          Usages        \* token counts a provider may really spend on a call

Ledgers == UNION {Range(LedgersOf[c]) : c \in Calls}
BudgetDays == 1 .. LastDay
Account == "account"
Rows(c) == {ScopeOf[c], Account}
AllRows == {ScopeOf[c] : c \in Calls} \cup {Account}
Unknown == -1

\* Each client walks at least one ledger, and no ledger twice.
ASSUME CallsAssumption ==
    /\ IsFiniteSet(Calls)
    /\ LedgersOf \in [Calls -> Seq(Ledgers)]
    /\ \A c \in Calls : LedgersOf[c] # << >> /\ IsInjective(LedgersOf[c])

ASSUME BudgetAssumption ==
    /\ LastDay \in Nat \ {0}
    /\ DollarLimit \in Nat
    /\ Usages \subseteq Nat
    /\ Allowance \in [Calls -> Nat]
    /\ CallLimit \in [Ledgers -> Nat]
    /\ TokenLimit \in [Ledgers -> Nat]
    /\ Account \notin {ScopeOf[c] : c \in Calls}

VARIABLES utcDay,       \* the UTC day a ledger reads from its clock
          activation,   \* the day the dollar policy was first initialised
          ledger,       \* [ledger][day][row]: calls, used and reserved tokens
          ticket,       \* [ledger][call]: the durable admission of a call
          dollars,      \* [day]: spent and reserved money
          dollarTicket, \* [call]: the durable dollar reservation
          call          \* [call]: where the client is, what was spent, what was said

budgetVars == <<utcDay, activation, ledger, ticket, dollars, dollarTicket, call>>

NoTicket == [status |-> "none", day |-> 0, used |-> 0]

BudgetInit ==
    /\ utcDay = 1
    /\ activation \in {0, 1}
    /\ ledger = [l \in Ledgers |-> [d \in BudgetDays |->
                   [r \in AllRows |-> [calls |-> 0, used |-> 0, reserved |-> 0]]]]
    /\ ticket = [l \in Ledgers |-> [c \in Calls |-> NoTicket]]
    /\ dollars = [d \in BudgetDays |-> [spent |-> 0, reserved |-> 0]]
    /\ dollarTicket = [c \in Calls |-> NoTicket]
    /\ call = [c \in Calls |->
                 [step |-> "reserve", at |-> 1, spent |-> 0, said |-> Unknown]]

Here(c) == LedgersOf[c][call[c].at]
AtLast(c) == call[c].at = Len(LedgersOf[c])
Go(c, step, at) == call' = [call EXCEPT ![c].step = step, ![c].at = at]
Onward(c, after) == IF AtLast(c) THEN Go(c, after, 1)
                                 ELSE Go(c, call[c].step, call[c].at + 1)

\* Defect: tokens reserved by calls in flight are not counted.
DefectAdmits(l, c) ==
    \A r \in Rows(c) :
        LET row == ledger[l][utcDay][r]
        IN row.calls < CallLimit[l] /\ row.used + Allowance[c] <= TokenLimit[l]

(***************************************************************************)
(* SqliteAIBudget.reserve: the aggregate row and the scope row of today,   *)
(* both or neither.  A ledger that cannot be written refuses the call.     *)
(***************************************************************************)
Admits(l, c) ==
    \A r \in Rows(c) :
        LET row == ledger[l][utcDay][r]
        IN /\ row.calls < CallLimit[l]
           /\ row.used + row.reserved + Allowance[c] <= TokenLimit[l]

Bump(l, d, c, calls, used, reserved) ==
    ledger' = [ledger EXCEPT ![l][d] = [r \in AllRows |->
        IF r \in Rows(c)
        THEN [calls |-> @[r].calls + calls, used |-> @[r].used + used,
              reserved |-> @[r].reserved + reserved]
        ELSE @[r]]]

ReserveTokens(c) ==
    /\ call[c].step = "reserve"
    /\ Admits(Here(c), c)
    /\ Bump(Here(c), utcDay, c, 1, 0, Allowance[c])
    /\ ticket' = [ticket EXCEPT ![Here(c)][c] =
                    [status |-> "admitted", day |-> utcDay, used |-> 0]]
    /\ Onward(c, "price")
    /\ UNCHANGED <<utcDay, activation, dollars, dollarTicket>>

\* No ticket: the client returns a neutral answer; the challenger gives its
\* sample ticket back first.
TokensRefused(c) ==
    /\ call[c].step = "reserve"
    /\ IF call[c].at = 1 THEN Go(c, "done", 1) ELSE Go(c, "cancel", 1)
    /\ UNCHANGED <<utcDay, activation, ledger, ticket, dollars, dollarTicket>>

(***************************************************************************)
(* spend.reserve: today's money, with the whole limit treated as already   *)
(* spent on the activation day.                                            *)
(***************************************************************************)
Carried(d) == IF d <= activation THEN DollarLimit ELSE 0

ReserveDollars(c) ==
    LET today == dollars[utcDay]
    IN /\ call[c].step = "price"
       /\ Carried(utcDay) + today.spent + today.reserved + Allowance[c] <= DollarLimit
       /\ dollars' = [dollars EXCEPT ![utcDay].reserved = @ + Allowance[c]]
       /\ dollarTicket' = [dollarTicket EXCEPT ![c] =
                             [status |-> "reserved", day |-> utcDay, used |-> 0]]
       /\ Go(c, "dispatch", 1)
       /\ UNCHANGED <<utcDay, activation, ledger, ticket>>

\* SpendRefused, raised by the dollar ledger or by a token ticket that would
\* not be marked dispatched: the client cancels what it may.
SpendRefused(c) ==
    /\ call[c].step \in {"price", "dispatch"}
    /\ Go(c, "cancel", 1)
    /\ UNCHANGED <<utcDay, activation, ledger, ticket, dollars, dollarTicket>>

(***************************************************************************)
(* dispatch_ticket, ledger by ledger.  Behind the last one the request is  *)
(* on the wire and the provider spends what it spends.                     *)
(***************************************************************************)
Dispatch(c) ==
    LET l == Here(c)
    IN /\ call[c].step = "dispatch"
       /\ ticket[l][c].status = "admitted"
       /\ ticket' = [ticket EXCEPT ![l][c].status = "dispatched"]
       /\ IF AtLast(c)
          THEN \E spent \in Usages :
                 call' = [call EXCEPT ![c].step = "sent", ![c].at = 1, ![c].spent = spent]
          ELSE Go(c, "dispatch", call[c].at + 1)
       /\ UNCHANGED <<utcDay, activation, ledger, dollars, dollarTicket>>

\* A reply whose usage counts are all valid, or one where some are missing.
Answer(c) ==
    /\ call[c].step = "sent"
    /\ \E said \in {Unknown, call[c].spent} :
          call' = [call EXCEPT ![c].step = "settleDollars", ![c].said = said]
    /\ UNCHANGED <<utcDay, activation, ledger, ticket, dollars, dollarTicket>>

\* A timeout, a provider fault or a reply that is not a 200 tells nothing.
NoAnswer(c) ==
    /\ call[c].step = "sent"
    /\ Go(c, "done", 1)
    /\ UNCHANGED <<utcDay, activation, ledger, ticket, dollars, dollarTicket>>

(***************************************************************************)
(* spend.settle and settle_ticket, before any check of the reply's shape.  *)
(* The dollar ledger believes a usage of zero, the token ledger does not.  *)
(***************************************************************************)
SettleDollars(c) ==
    LET d == dollarTicket[c].day
    IN /\ call[c].step = "settleDollars"
       /\ \/ /\ call[c].said # Unknown
             /\ dollarTicket[c].status = "reserved"
             /\ dollarTicket' = [dollarTicket EXCEPT ![c].status = "settled",
                                                     ![c].used = call[c].said]
             /\ dollars' = [dollars EXCEPT ![d].spent = @ + call[c].said,
                                           ![d].reserved = @ - Allowance[c]]
          \/ UNCHANGED <<dollars, dollarTicket>>      \* unknown, or SQLite failed
       /\ Go(c, "settle", 1)
       /\ UNCHANGED <<utcDay, activation, ledger, ticket>>

\* The row a ticket settles against: the day it was admitted on.
TicketDay(l, c) == ticket[l][c].day

\* What a ticket must be for _finish_ticket to touch it.
Finishable(l, c, cancel) ==
    /\ ticket[l][c].status = (IF cancel THEN "admitted" ELSE "dispatched")
    /\ \A r \in Rows(c) : LET row == ledger[l][TicketDay(l, c)][r]
                          IN row.calls >= 1 /\ row.reserved >= Allowance[c]

FinishTicket(l, c, cancel, used) ==
    /\ Finishable(l, c, cancel)
    /\ Bump(l, TicketDay(l, c), c, IF cancel THEN -1 ELSE 0, used, -Allowance[c])
    /\ ticket' = [ticket EXCEPT ![l][c].status = IF cancel THEN "cancelled" ELSE "settled",
                                ![l][c].used = used]

SettleTokens(c) ==
    /\ call[c].step = "settle"
    /\ \/ call[c].said > 0 /\ FinishTicket(Here(c), c, FALSE, call[c].said)
       \/ UNCHANGED <<ledger, ticket>>                \* unknown, zero, or SQLite failed
    /\ Onward(c, "done")
    /\ UNCHANGED <<utcDay, activation, dollars, dollarTicket>>

\* cancel_ticket on every ledger: only an admission never dispatched goes back.
CancelTokens(c) ==
    /\ call[c].step = "cancel"
    /\ \/ FinishTicket(Here(c), c, TRUE, 0)
       \/ UNCHANGED <<ledger, ticket>>                \* not admitted, or SQLite failed
    /\ Onward(c, "done")
    /\ UNCHANGED <<utcDay, activation, dollars, dollarTicket>>

\* The process dies: calls in flight are never resumed, the ledgers stay.
Crash ==
    /\ call' = [c \in Calls |-> IF call[c].step = "reserve" /\ call[c].at = 1
                                THEN call[c] ELSE [call[c] EXCEPT !.step = "done", !.at = 1]]
    /\ call' # call
    /\ UNCHANGED <<utcDay, activation, ledger, ticket, dollars, dollarTicket>>

\* Midnight UTC passes between any two steps.
NextUtcDay ==
    /\ utcDay < LastDay
    /\ utcDay' = utcDay + 1
    /\ UNCHANGED <<activation, ledger, ticket, dollars, dollarTicket, call>>

BudgetNext ==
    \/ \E c \in Calls :
         \/ ReserveTokens(c) \/ TokensRefused(c)
         \/ ReserveDollars(c) \/ SpendRefused(c)
         \/ Dispatch(c) \/ Answer(c) \/ NoAnswer(c)
         \/ SettleDollars(c) \/ SettleTokens(c) \/ CancelTokens(c)
    \/ Crash
    \/ NextUtcDay

BudgetSpec == BudgetInit /\ [][BudgetNext]_budgetVars

-----------------------------------------------------------------------------
\* The request of a call left the process: every ledger of it was marked first.
Sent(c) == \A l \in Range(LedgersOf[c]) : ticket[l][c].status \in {"dispatched", "settled"}
Least(a, b) == IF a < b THEN a ELSE b
TicketsOn(l, d) == {c \in Calls : l \in Range(LedgersOf[c]) /\ ticket[l][c].day = d}

\* Each counter is the sum over the tickets of its own day, whatever day it is now.
CountersFollowTickets ==
    \A l \in Ledgers, d \in BudgetDays, r \in AllRows :
        LET mine == {c \in TicketsOn(l, d) : r \in Rows(c)}
            live == {c \in mine : ticket[l][c].status # "cancelled"}
            open == {c \in mine : ticket[l][c].status \in {"admitted", "dispatched"}}
        IN ledger[l][d][r] = [calls |-> Cardinality(live),
                              used |-> SumOf([c \in Calls |-> ticket[l][c].used], live),
                              reserved |-> SumOf(Allowance, open)]

\* What a call really spent, up to its own allowance.
Counted == [c \in Calls |-> Least(call[c].spent, Allowance[c])]

\* What the provider really spent on a day's calls stays within that day's limits,
\* except where a reply reported more than its own allowance.
SpendWithinLimits ==
    \A d \in BudgetDays :
      /\ \A l \in Ledgers :
           LET sent == {c \in TicketsOn(l, d) : Sent(c)}
           IN Cardinality(sent) <= CallLimit[l] /\ SumOf(Counted, sent) <= TokenLimit[l]
      /\ SumOf(Counted, {c \in Calls : Sent(c) /\ dollarTicket[c].day = d}) <= DollarLimit

\* BudgetCoversSpend: the daily ceilings bound what the provider really spent,
\* whichever calls timed out, crashed, were answered late or straddled midnight,
\* because a call that is not known to be finished keeps its reservation on the
\* day it was admitted (budget.py _finish_ticket, spend.py settle).
BudgetCoversSpend == CountersFollowTickets /\ SpendWithinLimits
=============================================================================
