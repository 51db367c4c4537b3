-------------------------- MODULE ExecutionEngine --------------------------
(***************************************************************************)
(* The paper execution engine (internal/trader/engine.go): one position    *)
(* per symbol, opened from a published signal against free cash, closed    *)
(* when a price crosses one of its levels or when a caller forces it.      *)
(* Every method runs under the engine's mutex, so each is one action.      *)
(*                                                                         *)
(* Prices, sizes and cash are whole numbers.  A quote of 0 stands for "no  *)
(* price", which is how the code's callers say it.                         *)
(***************************************************************************)
EXTENDS Integers, Sequences, FiniteSetsExt

CONSTANTS
    Symbols,          \* the instruments
    Offers,           \* signals the engine may be asked to open
    Prices,           \* quotes the callers may pass, all positive
    InitialCash,      \* capital the engine is created with
    SpreadDivisor,    \* an exit fills price \div SpreadDivisor away from it
    FeeDivisor,       \* a fill pays value \div FeeDivisor
    MaxOrders,        \* bound: orders opened since the engine was created
    NoTrade           \* the empty slot of positions

Offer == [symbol: Symbols, long: BOOLEAN, entry: Nat \ {0}, stop: Nat,
          tp: Nat, leverage: 1..125, margin: Nat]

ASSUME PricesAssumption == Prices \subseteq Nat \ {0}
ASSUME MoneyAssumption  == /\ InitialCash \in Nat
                           /\ SpreadDivisor \in Nat \ {0, 1}
                           /\ FeeDivisor \in Nat \ {0, 1}
                           /\ MaxOrders \in Nat
ASSUME OffersAssumption == Offers \subseteq Offer
ASSUME SymbolsAssumption == IsFiniteSet(Symbols)

\* The code's sizes are fractions: size * entry / leverage is the margin again.
\* In whole numbers that is a condition on the signals.
ASSUME ExactSizes ==
    \A sig \in Offers :
        (((sig.margin * sig.leverage) \div sig.entry) * sig.entry) \div sig.leverage
          = sig.margin

VARIABLES
    positions,        \* the open trade of each symbol, or NoTrade
    cash,             \* capital not held as margin
    orderCounter,     \* id of the last order
    closedTrades      \* settled trades, in the order they were closed

vars == <<positions, cash, orderCounter, closedTrades>>

Trade == [id: Nat \ {0}, symbol: Symbols, long: BOOLEAN, entry: Nat \ {0},
          size: Nat, stop: Nat, tp: Nat, leverage: 1..125, liq: Int]

ASSUME NoTradeAssumption == NoTrade \notin Trade

Reasons == {"TAKE_PROFIT", "STOP_LOSS", "LIQUIDATION", "MANUAL_EXIT",
            "TIME_EXIT", "NEWS_EARLY_EXIT"}

\* A settled trade: the trade, the quote it was closed at, why, and the
\* amount credited back to cash.
ClosedTrade == [trade: Trade, quote: Nat, reason: Reasons, proceeds: Nat]

IsOpen(s) == positions[s] # NoTrade

---------------------------------------------------------------------------
(* Futures arithmetic *)

\* Entry * (1 -+ (1/L - MMR)) with a maintenance margin rate of 5/1000.
LiquidationPrice(sig) ==
    LET away == (sig.entry * (1000 - 5 * sig.leverage)) \div (1000 * sig.leverage)
    IN  IF sig.long THEN sig.entry - away ELSE sig.entry + away

\* The price a closing fill gets: a sale below the quote, a purchase above.
EffectivePrice(t, quote) ==
    IF t.long THEN quote - quote \div SpreadDivisor
              ELSE quote + quote \div SpreadDivisor

RealizedPnL(t, quote) ==
    LET exit == EffectivePrice(t, quote)
        diff == IF t.long THEN exit - t.entry ELSE t.entry - exit
    IN  diff * t.size - (t.size * exit) \div FeeDivisor

Margin(t) == (t.size * t.entry) \div t.leverage

\* Mutant of Proceeds: a loss larger than the margin is charged to cash.
ProceedsUnfloored(t, quote) == Margin(t) + RealizedPnL(t, quote)

\* A loss larger than the margin is written off: nothing comes back.
Proceeds(t, quote) ==
    LET back == Margin(t) + RealizedPnL(t, quote)
    IN  IF back < 0 THEN 0 ELSE back

TakesProfit(t, p) == t.tp > 0   /\ IF t.long THEN p >= t.tp   ELSE p <= t.tp
Stops(t, p)       == t.stop > 0 /\ IF t.long THEN p <= t.stop ELSE p >= t.stop
Liquidates(t, p)  == t.liq > 0  /\ IF t.long THEN p <= t.liq  ELSE p >= t.liq

\* Mutant of Crossed: the liquidation price is looked at before the stop.
CrossedLiquidationFirst(t, p) ==
    CASE TakesProfit(t, p) -> "TAKE_PROFIT"
      [] ~TakesProfit(t, p) /\ Liquidates(t, p) -> "LIQUIDATION"
      [] ~TakesProfit(t, p) /\ ~Liquidates(t, p) /\ Stops(t, p) -> "STOP_LOSS"
      [] OTHER -> "NONE"

\* The level a price crosses, in the order the engine looks at them.
Crossed(t, p) ==
    CASE TakesProfit(t, p) -> "TAKE_PROFIT"
      [] ~TakesProfit(t, p) /\ Stops(t, p) -> "STOP_LOSS"
      [] ~TakesProfit(t, p) /\ ~Stops(t, p) /\ Liquidates(t, p) -> "LIQUIDATION"
      [] OTHER -> "NONE"

---------------------------------------------------------------------------
(* Operations *)

\* Mutant of NewTrade: stop and target are swapped.
NewTradeSwapped(sig) ==
    [id |-> orderCounter + 1, symbol |-> sig.symbol, long |-> sig.long,
     entry |-> sig.entry, size |-> (sig.margin * sig.leverage) \div sig.entry,
     stop |-> sig.tp, tp |-> sig.stop, leverage |-> sig.leverage,
     liq |-> LiquidationPrice(sig)]

NewTrade(sig) ==
    [id |-> orderCounter + 1, symbol |-> sig.symbol, long |-> sig.long,
     entry |-> sig.entry, size |-> (sig.margin * sig.leverage) \div sig.entry,
     stop |-> sig.stop, tp |-> sig.tp, leverage |-> sig.leverage,
     liq |-> LiquidationPrice(sig)]

\* Mutants of OpenPositionFromSignal: an existing position is overwritten, and
\* the margin is not taken from the cash.
OpenReplacing(sig) ==
    /\ orderCounter' = orderCounter + 1
    /\ IF sig.margin > cash THEN UNCHANGED <<positions, cash>>
       ELSE /\ cash' = cash - sig.margin
            /\ positions' = [positions EXCEPT ![sig.symbol] = NewTrade(sig)]
    /\ UNCHANGED closedTrades

OpenUncharged(sig) ==
    IF IsOpen(sig.symbol) THEN UNCHANGED vars
    ELSE /\ orderCounter' = orderCounter + 1
         /\ positions' = [positions EXCEPT ![sig.symbol] = NewTrade(sig)]
         /\ UNCHANGED <<cash, closedTrades>>

\* A symbol that already has a position keeps it and the caller is handed
\* that one.  The counter moves before the cash check, so a refused order
\* still uses up an id.
OpenPositionFromSignal(sig) ==
    IF IsOpen(sig.symbol) THEN UNCHANGED vars
    ELSE /\ orderCounter' = orderCounter + 1
         /\ IF sig.margin > cash THEN UNCHANGED <<positions, cash>>
            ELSE /\ cash' = cash - sig.margin
                 /\ positions' = [positions EXCEPT ![sig.symbol] = NewTrade(sig)]
         /\ UNCHANGED closedTrades

\* Mutant of closePositionLocked: the settled position stays in the map.
CloseKeepsPosition(s, quote, reason) ==
    LET back == Proceeds(positions[s], quote)
    IN  /\ cash' = cash + back
        /\ closedTrades' = Append(closedTrades,
               [trade |-> positions[s], quote |-> quote, reason |-> reason,
                proceeds |-> back])
        /\ UNCHANGED <<positions, orderCounter>>

closePositionLocked(s, quote, reason) ==
    LET t == positions[s]
        back == Proceeds(t, quote)
    IN  /\ cash' = cash + back
        /\ positions' = [positions EXCEPT ![s] = NoTrade]
        /\ closedTrades' = Append(closedTrades,
               [trade |-> t, quote |-> quote, reason |-> reason, proceeds |-> back])
        /\ UNCHANGED orderCounter

CheckExit(s, p) ==
    IF IsOpen(s) /\ Crossed(positions[s], p) # "NONE"
    THEN closePositionLocked(s, p, Crossed(positions[s], p))
    ELSE UNCHANGED vars

\* A caller without a quote passes 0 and the trade closes at its entry.
ForceClosePosition(s, p, reason) ==
    IF IsOpen(s)
    THEN closePositionLocked(s, IF p = 0 THEN positions[s].entry ELSE p, reason)
    ELSE UNCHANGED vars

\* The engine lives in memory: a process that starts again starts from this.
NewExecutionEngine ==
    /\ positions' = [s \in Symbols |-> NoTrade]
    /\ cash' = InitialCash
    /\ orderCounter' = 0
    /\ closedTrades' = << >>

---------------------------------------------------------------------------
Init ==
    /\ positions = [s \in Symbols |-> NoTrade]
    /\ cash = InitialCash
    /\ orderCounter = 0
    /\ closedTrades = << >>

Open(sig) == orderCounter < MaxOrders /\ OpenPositionFromSignal(sig)

Next ==
    \/ \E sig \in Offers : Open(sig)
    \/ \E s \in Symbols, p \in Prices : CheckExit(s, p)
    \/ \E s \in Symbols, p \in Prices \cup {0},
          r \in {"MANUAL_EXIT", "TIME_EXIT", "NEWS_EARLY_EXIT"} :
          ForceClosePosition(s, p, r)
    \/ NewExecutionEngine

Spec == Init /\ [][Next]_vars

---------------------------------------------------------------------------
(* Properties *)

\* Every variable keeps its shape: trades are well formed, ids positive, and
\* neither the cash nor any amount credited on a close is negative.
TypeOK ==
    /\ positions \in [Symbols -> Trade \cup {NoTrade}]
    /\ cash \in Nat
    /\ orderCounter \in Nat
    /\ closedTrades \in Seq(ClosedTrade)

\* An order is settled at most once: no id is open under two symbols, none is
\* both open and closed, none is closed twice, and none was never issued.
\* Closing removes the position and appends the trade under one lock.
OrdersSettledOnce ==
    /\ \A s \in Symbols : IsOpen(s) =>
          /\ positions[s].symbol = s
          /\ positions[s].id <= orderCounter
          /\ \A t \in Symbols : IsOpen(t) /\ positions[t].id = positions[s].id => t = s
          /\ \A i \in 1..Len(closedTrades) : closedTrades[i].trade.id # positions[s].id
    /\ \A i \in 1..Len(closedTrades) :
          /\ closedTrades[i].trade.id <= orderCounter
          /\ \A j \in 1..Len(closedTrades) :
                closedTrades[i].trade.id = closedTrades[j].trade.id => i = j

MarginHeld ==
    SumFunction([s \in Symbols |-> IF IsOpen(s) THEN Margin(positions[s]) ELSE 0])

Realized ==
    SumFunction([i \in 1..Len(closedTrades) |->
                    closedTrades[i].proceeds - Margin(closedTrades[i].trade)])

\* Money is neither made nor lost outside a settlement: cash plus the margin
\* of the open positions is the initial capital plus the results realised so
\* far.  Opening takes the margin, closing returns it with the profit or loss.
CapitalConserved == cash + MarginHeld = InitialCash + Realized

\* The stop protects the margin: a trade whose stop lies on the entry side of
\* its liquidation price is never closed as a liquidation, because CheckExit
\* looks at the stop first.
StopPreemptsLiquidation ==
    \A i \in 1..Len(closedTrades) :
        LET t == closedTrades[i].trade
        IN  /\ closedTrades[i].reason = "LIQUIDATION"
            /\ t.stop > 0
            => IF t.long THEN t.stop < t.liq ELSE t.stop > t.liq

\* A position is never replaced or rewritten in place: while a symbol stays
\* open the same trade sits there, so a new signal for a symbol that already
\* has one cannot drop the margin of the old one.
PositionsNeverReplaced ==
    [][\A s \in Symbols : IsOpen(s) /\ IsOpen(s)' => positions'[s] = positions[s]]_vars
=============================================================================
