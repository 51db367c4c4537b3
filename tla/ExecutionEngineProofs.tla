----------------------- MODULE ExecutionEngineProofs -----------------------
(***************************************************************************)
(* What holds of the execution engine for every set of symbols, signals    *)
(* and prices, every capital, and any number of orders.                    *)
(***************************************************************************)
EXTENDS ExecutionEngine, Sums

---------------------------------------------------------------------------
(* The arithmetic stays in its types *)

\* Dividing a natural number by a positive one gives a natural number: the
\* shape of every size, fee and margin.
LEMMA DivNat ==
    ASSUME NEW a \in Nat, NEW b \in Nat \ {0}
    PROVE  a \div b \in Nat
  OBVIOUS

\* The product of two natural numbers is one.
LEMMA TimesNat ==
    ASSUME NEW a \in Nat, NEW b \in Nat
    PROVE  a * b \in Nat
  OBVIOUS

\* CalculateLiquidationPrice yields a number for every signal it is given.
LEMMA LiquidationPriceType ==
    ASSUME NEW sig \in Offer
    PROVE  LiquidationPrice(sig) \in Int
<1>1. sig.entry \in Int /\ sig.leverage \in 1..125
  BY DEF Offer
<1> DEFINE n == sig.entry * (1000 - 5 * sig.leverage)
           d == 1000 * sig.leverage
<1>2. n \in Int
  <2>1. 1000 - 5 * sig.leverage \in Int
    BY <1>1
  <2> QED BY <1>1, <2>1
<1>3. d \in Nat \ {0}
  BY <1>1
<1>4. n \div d \in Int
  <2> HIDE DEF n, d
  <2> QED BY <1>2, <1>3
<1> QED BY <1>1, <1>4 DEF LiquidationPrice

\* A trade opened from a signal is well formed.
LEMMA NewTradeType ==
    ASSUME NEW sig \in Offers, orderCounter \in Nat
    PROVE  NewTrade(sig) \in Trade /\ NewTrade(sig).symbol = sig.symbol
                                   /\ NewTrade(sig).id = orderCounter + 1
<1>1. sig \in Offer
  BY OffersAssumption
<1>2. /\ sig.symbol \in Symbols /\ sig.long \in BOOLEAN
      /\ sig.entry \in Nat \ {0} /\ sig.stop \in Nat /\ sig.tp \in Nat
      /\ sig.leverage \in 1..125 /\ sig.margin \in Nat
  BY <1>1 DEF Offer
<1>3. sig.margin * sig.leverage \in Nat
  <2>1. sig.leverage \in Nat
    BY <1>2
  <2> QED BY <1>2, <2>1, TimesNat
<1>4. (sig.margin * sig.leverage) \div sig.entry \in Nat
  BY <1>2, <1>3, DivNat
<1>5. LiquidationPrice(sig) \in Int
  BY <1>1, LiquidationPriceType
<1>6. orderCounter + 1 \in Nat \ {0}
  OBVIOUS
<1> QED BY <1>2, <1>4, <1>5, <1>6 DEF NewTrade, Trade

\* What a trade earns or loses at a quote is a number.
LEMMA PnLType ==
    ASSUME NEW t \in Trade, NEW quote \in Nat
    PROVE  RealizedPnL(t, quote) \in Int
<1>1. t.size \in Nat /\ t.entry \in Nat \ {0} /\ t.leverage \in Nat \ {0} /\ t.long \in BOOLEAN
  BY DEF Trade
<1>2. EffectivePrice(t, quote) \in Int
  <2>1. quote \div SpreadDivisor \in Int
    BY MoneyAssumption
  <2> QED BY <2>1 DEF EffectivePrice
<1>3. RealizedPnL(t, quote) \in Int
  <2> DEFINE exit == EffectivePrice(t, quote)
  <2>1. exit \in Int
    BY <1>2
  <2> HIDE DEF exit
  <2>2. (IF t.long THEN exit - t.entry ELSE t.entry - exit) * t.size \in Int
    <3> DEFINE diff == IF t.long THEN exit - t.entry ELSE t.entry - exit
    <3>1. diff \in Int
      BY <1>1, <2>1
    <3> HIDE DEF diff
    <3>2. diff * t.size \in Int
      BY <1>1, <3>1
    <3> QED BY <3>2 DEF diff
  <2>3. (t.size * exit) \div FeeDivisor \in Int
    <3> DEFINE value == t.size * exit
    <3>1. value \in Int
      BY <1>1, <2>1
    <3> HIDE DEF value
    <3>2. value \div FeeDivisor \in Int
      BY <3>1, MoneyAssumption
    <3> QED BY <3>2 DEF value
  <2> QED BY <2>2, <2>3 DEF RealizedPnL, exit
<1> QED BY <1>3

\* What a close credits is a natural number: a loss beyond the margin is
\* written off, never charged to the cash.
LEMMA ProceedsType ==
    ASSUME NEW t \in Trade, NEW quote \in Nat
    PROVE  Proceeds(t, quote) \in Nat
<1>1. t.size \in Nat /\ t.entry \in Nat \ {0} /\ t.leverage \in Nat \ {0}
  BY DEF Trade
<1>2. RealizedPnL(t, quote) \in Int
  BY PnLType
<1>3. Margin(t) \in Int
  <2>1. t.size * t.entry \in Nat
    BY <1>1, TimesNat
  <2>2. (t.size * t.entry) \div t.leverage \in Nat
    BY <1>1, <2>1, DivNat
  <2> QED BY <2>2 DEF Margin
<1> QED BY <1>2, <1>3 DEF Proceeds

\* The level CheckExit finds crossed is a reason for a close, or there is none.
LEMMA CrossedType ==
    ASSUME NEW t, NEW p
    PROVE  Crossed(t, p) \in Reasons \cup {"NONE"}
  BY DEF Crossed, Reasons

\* It is the liquidation price only when the stop is not crossed.
LEMMA CrossedLiquidation ==
    ASSUME NEW t, NEW p, Crossed(t, p) = "LIQUIDATION"
    PROVE  Liquidates(t, p) /\ ~Stops(t, p)
  BY DEF Crossed

\* An open position is a trade.
LEMMA OpenIsTrade ==
    ASSUME TypeOK, NEW s \in Symbols, IsOpen(s)
    PROVE  positions[s] \in Trade
  BY DEF TypeOK, IsOpen
---------------------------------------------------------------------------
(* Type correctness *)

\* Settling the open position of s keeps the types.
LEMMA CloseType ==
    ASSUME TypeOK, NEW s \in Symbols, IsOpen(s), NEW quote \in Nat,
           NEW reason \in Reasons, closePositionLocked(s, quote, reason)
    PROVE  TypeOK'
<1> DEFINE back == Proceeds(positions[s], quote)
<1>1. positions[s] \in Trade
  BY OpenIsTrade
<1>2. back \in Nat
  BY <1>1, ProceedsType
<1> HIDE DEF back
<1>3. cash' = cash + back /\ positions' = [positions EXCEPT ![s] = NoTrade]
      /\ orderCounter' = orderCounter
      /\ closedTrades' = Append(closedTrades, [trade |-> positions[s], quote |-> quote,
                                               reason |-> reason, proceeds |-> back])
  BY DEF closePositionLocked, back
<1>4. [trade |-> positions[s], quote |-> quote, reason |-> reason, proceeds |-> back]
        \in ClosedTrade
  BY <1>1, <1>2 DEF ClosedTrade
<1>5. closedTrades' \in Seq(ClosedTrade)
  <2> DEFINE c == [trade |-> positions[s], quote |-> quote, reason |-> reason,
                   proceeds |-> back]
  <2>1. c \in ClosedTrade /\ closedTrades' = Append(closedTrades, c)
    BY <1>3, <1>4
  <2> HIDE DEF c
  <2> QED BY <2>1 DEF TypeOK
<1>6. positions' \in [Symbols -> Trade \cup {NoTrade}]
  BY <1>3 DEF TypeOK
<1>7. cash' \in Nat /\ orderCounter' \in Nat
  BY <1>2, <1>3 DEF TypeOK
<1> QED BY <1>5, <1>6, <1>7 DEF TypeOK

\* The open position of s is settled; as a liquidation only where its stop has
\* not been crossed.
Settles(s, quote, reason) ==
    /\ IsOpen(s) /\ closePositionLocked(s, quote, reason)
    /\ reason = "LIQUIDATION" =>
          Liquidates(positions[s], quote) /\ ~Stops(positions[s], quote)

\* What CheckExit does, when it does something, is to settle a position for a
\* level that was crossed.
LEMMA CheckExitCloses ==
    ASSUME NEW s \in Symbols, NEW p \in Nat, CheckExit(s, p)
    PROVE  \/ UNCHANGED vars
           \/ \E r \in Reasons : Settles(s, p, r)
<1>1. CASE IsOpen(s) /\ Crossed(positions[s], p) # "NONE"
  <2>1. Crossed(positions[s], p) \in Reasons
    BY <1>1, CrossedType
  <2>2. Crossed(positions[s], p) = "LIQUIDATION" =>
          Liquidates(positions[s], p) /\ ~Stops(positions[s], p)
    BY CrossedLiquidation
  <2> QED BY <1>1, <2>1, <2>2 DEF CheckExit, Settles
<1>2. CASE ~(IsOpen(s) /\ Crossed(positions[s], p) # "NONE")
  BY <1>2 DEF CheckExit
<1> QED BY <1>1, <1>2

\* So does ForceClosePosition, at the quote it is given or at the entry.
LEMMA ForceCloses ==
    ASSUME TypeOK, NEW s \in Symbols, NEW p \in Nat, NEW r \in Reasons,
           r # "LIQUIDATION", ForceClosePosition(s, p, r)
    PROVE  \/ UNCHANGED vars
           \/ \E quote \in Nat : Settles(s, quote, r)
<1>1. CASE IsOpen(s)
  <2> DEFINE quote == IF p = 0 THEN positions[s].entry ELSE p
  <2>1. positions[s].entry \in Nat
    BY <1>1, OpenIsTrade DEF Trade
  <2>2. quote \in Nat
    BY <2>1
  <2>3. closePositionLocked(s, quote, r)
    BY <1>1 DEF ForceClosePosition
  <2> QED BY <1>1, <2>2, <2>3 DEF Settles
<1>2. CASE ~IsOpen(s)
  BY <1>2 DEF ForceClosePosition
<1> QED BY <1>1, <1>2

\* Every step opens a position, refuses to, settles one, or starts over.
LEMMA StepCases ==
    ASSUME TypeOK, Next
    PROVE  \/ UNCHANGED vars
           \/ \E sig \in Offers : ~IsOpen(sig.symbol) /\ OpenPositionFromSignal(sig)
           \/ \E s \in Symbols, quote \in Nat, r \in Reasons : Settles(s, quote, r)
           \/ NewExecutionEngine
<1>1. CASE \E sig \in Offers : Open(sig)
  <2>1. PICK sig \in Offers : Open(sig)
    BY <1>1
  <2>2. CASE IsOpen(sig.symbol)
    BY <2>1, <2>2 DEF Open, OpenPositionFromSignal
  <2>3. CASE ~IsOpen(sig.symbol)
    BY <2>1, <2>3 DEF Open
  <2> QED BY <2>2, <2>3
<1>2. CASE \E s \in Symbols, p \in Prices : CheckExit(s, p)
  <2>1. PICK s \in Symbols, p \in Prices : CheckExit(s, p)
    BY <1>2
  <2>2. p \in Nat
    BY PricesAssumption
  <2> QED BY <2>1, <2>2, CheckExitCloses
<1>3. CASE \E s \in Symbols, p \in Prices \cup {0},
             r \in {"MANUAL_EXIT", "TIME_EXIT", "NEWS_EARLY_EXIT"} :
               ForceClosePosition(s, p, r)
  <2>1. PICK s \in Symbols, p \in Prices \cup {0},
             r \in {"MANUAL_EXIT", "TIME_EXIT", "NEWS_EARLY_EXIT"} :
               ForceClosePosition(s, p, r)
    BY <1>3
  <2>2. r \in Reasons /\ r # "LIQUIDATION" /\ p \in Nat
    BY PricesAssumption DEF Reasons
  <2> QED BY <2>1, <2>2, ForceCloses
<1>4. CASE NewExecutionEngine
  BY <1>4
<1> QED BY <1>1, <1>2, <1>3, <1>4 DEF Next

\* Opening keeps the types: the margin is only taken from cash that covers it.
LEMMA OpenType ==
    ASSUME TypeOK, NEW sig \in Offers, ~IsOpen(sig.symbol), OpenPositionFromSignal(sig)
    PROVE  TypeOK'
<1>1. orderCounter' \in Nat /\ closedTrades' \in Seq(ClosedTrade)
  BY DEF TypeOK, OpenPositionFromSignal
<1>2. CASE sig.margin > cash
  BY <1>1, <1>2 DEF TypeOK, OpenPositionFromSignal
<1>3. CASE ~(sig.margin > cash)
  <2>1. sig.symbol \in Symbols /\ sig.margin \in Nat
    BY OffersAssumption DEF Offer
  <2>2. NewTrade(sig) \in Trade
    BY NewTradeType DEF TypeOK
  <2>3. cash' = cash - sig.margin
        /\ positions' = [positions EXCEPT ![sig.symbol] = NewTrade(sig)]
    BY <1>3 DEF OpenPositionFromSignal
  <2>4. cash' \in Nat
    BY <1>3, <2>1, <2>3 DEF TypeOK
  <2>5. positions' \in [Symbols -> Trade \cup {NoTrade}]
    BY <2>1, <2>2, <2>3 DEF TypeOK
  <2> QED BY <1>1, <2>4, <2>5 DEF TypeOK
<1> QED BY <1>2, <1>3

\* So does a look at the levels, and a close somebody asks for.
LEMMA ExitType ==
    ASSUME TypeOK, NEW s \in Symbols, NEW p \in Nat, CheckExit(s, p)
    PROVE  TypeOK'
<1>1. CASE UNCHANGED vars
  BY <1>1 DEF TypeOK, vars
<1>2. CASE \E r \in Reasons : Settles(s, p, r)
  BY <1>2, CloseType DEF Settles
<1> QED BY <1>1, <1>2, CheckExitCloses

LEMMA ForceType ==
    ASSUME TypeOK, NEW s \in Symbols, NEW p \in Nat, NEW r \in Reasons,
           r # "LIQUIDATION", ForceClosePosition(s, p, r)
    PROVE  TypeOK'
<1>1. CASE UNCHANGED vars
  BY <1>1 DEF TypeOK, vars
<1>2. CASE \E quote \in Nat : Settles(s, quote, r)
  BY <1>2, CloseType DEF Settles
<1> QED BY <1>1, <1>2, ForceCloses

LEMMA TypeInit == Init => TypeOK
  BY MoneyAssumption DEF Init, TypeOK

LEMMA TypeStep == TypeOK /\ [Next]_vars => TypeOK'
<1> SUFFICES ASSUME TypeOK, [Next]_vars PROVE TypeOK'
  OBVIOUS
<1>1. CASE UNCHANGED vars
  BY <1>1 DEF TypeOK, vars
<1>2. CASE Next
  <2>1. CASE \E sig \in Offers : ~IsOpen(sig.symbol) /\ OpenPositionFromSignal(sig)
    BY <2>1, OpenType
  <2>2. CASE \E s \in Symbols, quote \in Nat, r \in Reasons : Settles(s, quote, r)
    BY <2>2, CloseType DEF Settles
  <2>3. CASE NewExecutionEngine
    BY <2>3, MoneyAssumption DEF NewExecutionEngine, TypeOK
  <2> QED BY <1>1, <1>2, <2>1, <2>2, <2>3, StepCases
<1> QED BY <1>1, <1>2

\* Trades stay well formed; neither the cash nor a credited amount is ever
\* negative, whatever the leverage, the prices and the fees.
THEOREM TypeCorrect == Spec => []TypeOK
  BY TypeInit, TypeStep, PTL DEF Spec
---------------------------------------------------------------------------
(* Orders are settled once *)

\* A new order takes the next id, which no open or settled trade has.
LEMMA OpenSettles ==
    ASSUME TypeOK, OrdersSettledOnce, NEW sig \in Offers, ~IsOpen(sig.symbol),
           OpenPositionFromSignal(sig)
    PROVE  OrdersSettledOnce'
<1>1. orderCounter' = orderCounter + 1 /\ closedTrades' = closedTrades /\ orderCounter \in Nat
  BY DEF OpenPositionFromSignal, TypeOK
<1>2. \A i \in 1..Len(closedTrades) : closedTrades[i].trade.id \in Nat
  <2> TAKE i \in 1..Len(closedTrades)
  <2>1. closedTrades[i] \in ClosedTrade
    BY DEF TypeOK
  <2> QED BY <2>1 DEF ClosedTrade, Trade
<1>3. \A s \in Symbols : IsOpen(s) => positions[s].id \in Nat
  BY OpenIsTrade DEF Trade
<1>4. \A i \in 1..Len(closedTrades)' :
         /\ closedTrades'[i].trade.id <= orderCounter'
         /\ \A j \in 1..Len(closedTrades)' :
               closedTrades'[i].trade.id = closedTrades'[j].trade.id => i = j
  BY <1>1, <1>2 DEF OrdersSettledOnce
<1>5. CASE positions' = positions
  <2>1. \A s \in Symbols : IsOpen(s)' = IsOpen(s)
    BY <1>5 DEF IsOpen
  <2> QED BY <1>1, <1>3, <1>4, <1>5, <2>1 DEF OrdersSettledOnce
<1>6. CASE positions' = [positions EXCEPT ![sig.symbol] = NewTrade(sig)]
  <2>1. sig.symbol \in Symbols /\ NewTrade(sig).symbol = sig.symbol
        /\ NewTrade(sig).id = orderCounter + 1
    BY <1>1, NewTradeType, OffersAssumption DEF Offer
  <2>2. positions'[sig.symbol] = NewTrade(sig)
        /\ \A s \in Symbols \ {sig.symbol} : positions'[s] = positions[s]
    BY <1>6, <2>1 DEF TypeOK
  <2>3. ASSUME NEW s \in Symbols, IsOpen(s)'
        PROVE  /\ positions'[s].symbol = s
               /\ positions'[s].id <= orderCounter'
               /\ \A t \in Symbols : IsOpen(t)' /\ positions'[t].id = positions'[s].id => t = s
               /\ \A i \in 1..Len(closedTrades)' : closedTrades'[i].trade.id # positions'[s].id
    <3>1. \A t \in Symbols \ {sig.symbol} : IsOpen(t)' = IsOpen(t)
      BY <2>2 DEF IsOpen
    <3>2. \A t \in Symbols \ {sig.symbol} :
             IsOpen(t)' => positions'[t].id \in Nat /\ positions'[t].id <= orderCounter
      BY <1>3, <2>2, <3>1 DEF OrdersSettledOnce
    <3>3. CASE s = sig.symbol
      <4>1. \A i \in 1..Len(closedTrades) : closedTrades[i].trade.id <= orderCounter
        BY DEF OrdersSettledOnce
      <4> QED BY <1>1, <1>2, <2>1, <2>2, <3>2, <3>3, <4>1
    <3>4. CASE s # sig.symbol
      <4>1. positions'[s] = positions[s] /\ IsOpen(s)
        BY <2>2, <2>3, <3>1, <3>4
      <4>2. \A t \in Symbols \ {sig.symbol} :
               IsOpen(t)' /\ positions'[t].id = positions'[s].id => t = s
        BY <2>2, <3>1, <4>1 DEF OrdersSettledOnce
      <4>3. positions'[sig.symbol].id # positions'[s].id
        BY <1>1, <2>1, <2>2, <2>3, <3>2, <3>4
      <4>4. positions[s].symbol = s /\ positions[s].id <= orderCounter
            /\ \A i \in 1..Len(closedTrades) : closedTrades[i].trade.id # positions[s].id
        BY <4>1 DEF OrdersSettledOnce
      <4>5. positions'[s].id <= orderCounter'
        BY <1>1, <2>3, <3>2, <3>4
      <4> QED BY <1>1, <4>1, <4>2, <4>3, <4>4, <4>5
    <3> QED BY <3>3, <3>4
  <2> QED BY <1>4, <2>3 DEF OrdersSettledOnce
<1> QED BY <1>5, <1>6 DEF OpenPositionFromSignal

\* Settling takes the trade out of the book in the step that records it.
LEMMA CloseSettles ==
    ASSUME TypeOK, OrdersSettledOnce, NEW s \in Symbols, IsOpen(s), NEW quote \in Nat,
           NEW reason \in Reasons, closePositionLocked(s, quote, reason)
    PROVE  OrdersSettledOnce'
<1> DEFINE c == [trade |-> positions[s], quote |-> quote, reason |-> reason,
                 proceeds |-> Proceeds(positions[s], quote)]
           n == Len(closedTrades)
<1>1. c.trade = positions[s]
  OBVIOUS
<1>2. positions' = [positions EXCEPT ![s] = NoTrade] /\ orderCounter' = orderCounter
      /\ closedTrades' = Append(closedTrades, c)
  BY DEF closePositionLocked
<1> HIDE DEF c
<1>3. n \in Nat /\ Len(closedTrades') = n + 1 /\ closedTrades'[n + 1] = c
      /\ \A i \in 1..n : closedTrades'[i] = closedTrades[i]
  BY <1>2 DEF TypeOK
<1> HIDE DEF n
<1>4. ~IsOpen(s)' /\ \A t \in Symbols \ {s} : positions'[t] = positions[t]
                                           /\ IsOpen(t)' = IsOpen(t)
  BY <1>2 DEF TypeOK, IsOpen
<1>5. \A i \in 1..n : closedTrades[i].trade.id <= orderCounter
                    /\ closedTrades[i].trade.id # positions[s].id
                    /\ \A j \in 1..n : closedTrades[i].trade.id = closedTrades[j].trade.id
                                       => i = j
  BY DEF OrdersSettledOnce, n
<1>6. positions[s].id <= orderCounter
  BY DEF OrdersSettledOnce
<1>7. \A i \in 1..(n + 1) :
         /\ closedTrades'[i].trade.id <= orderCounter'
         /\ \A j \in 1..(n + 1) :
               closedTrades'[i].trade.id = closedTrades'[j].trade.id => i = j
  <2> TAKE i \in 1..(n + 1)
  <2>1. i \in 1..n \/ i = n + 1
    BY <1>3
  <2>2. \A j \in 1..(n + 1) : j \in 1..n \/ j = n + 1
    BY <1>3
  <2> QED BY <1>1, <1>2, <1>3, <1>5, <1>6, <2>1, <2>2
<1>8. ASSUME NEW t \in Symbols, IsOpen(t)'
      PROVE  /\ positions'[t].symbol = t
             /\ positions'[t].id <= orderCounter'
             /\ \A u \in Symbols : IsOpen(u)' /\ positions'[u].id = positions'[t].id => u = t
             /\ \A i \in 1..(n + 1) : closedTrades'[i].trade.id # positions'[t].id
  <2>1. t # s /\ positions'[t] = positions[t] /\ IsOpen(t)
    BY <1>4, <1>8
  <2>2. positions[t].symbol = t /\ positions[t].id <= orderCounter
    BY <2>1 DEF OrdersSettledOnce
  <2>3. \A u \in Symbols : IsOpen(u)' /\ positions'[u].id = positions'[t].id => u = t
    BY <1>4, <2>1 DEF OrdersSettledOnce
  <2>4. positions[s].id # positions[t].id
    BY <2>1 DEF OrdersSettledOnce
  <2>5. \A i \in 1..n : closedTrades[i].trade.id # positions[t].id
    BY <2>1 DEF OrdersSettledOnce, n
  <2>6. \A i \in 1..(n + 1) : i \in 1..n \/ i = n + 1
    BY <1>3
  <2> QED BY <1>1, <1>2, <1>3, <2>1, <2>2, <2>3, <2>4, <2>5, <2>6
<1> QED BY <1>3, <1>7, <1>8 DEF OrdersSettledOnce

LEMMA SettledStep == TypeOK /\ OrdersSettledOnce /\ [Next]_vars => OrdersSettledOnce'
<1> SUFFICES ASSUME TypeOK, OrdersSettledOnce, [Next]_vars PROVE OrdersSettledOnce'
  OBVIOUS
<1>1. CASE UNCHANGED vars
  BY <1>1 DEF OrdersSettledOnce, IsOpen, vars
<1>2. CASE Next
  <2>1. CASE \E sig \in Offers : ~IsOpen(sig.symbol) /\ OpenPositionFromSignal(sig)
    BY <2>1, OpenSettles
  <2>2. CASE \E s \in Symbols, quote \in Nat, r \in Reasons : Settles(s, quote, r)
    BY <2>2, CloseSettles DEF Settles
  <2>3. CASE NewExecutionEngine
    BY <2>3 DEF NewExecutionEngine, OrdersSettledOnce, IsOpen
  <2> QED BY <1>1, <1>2, <2>1, <2>2, <2>3, StepCases
<1> QED BY <1>1, <1>2

\* No order is settled twice, none is open and settled, none is under two
\* symbols.  The invariant is inductive together with the types: the counter
\* bounds every id, so a new order's id is new.
THEOREM SettledOnce == Spec => []OrdersSettledOnce
<1>1. Init => OrdersSettledOnce
  BY DEF Init, OrdersSettledOnce, IsOpen
<1> QED BY <1>1, SettledStep, TypeCorrect, PTL DEF Spec

---------------------------------------------------------------------------
(* The stop comes before the liquidation price *)

LEMMA PreemptsStep == TypeOK /\ StopPreemptsLiquidation /\ [Next]_vars
                        => StopPreemptsLiquidation'
<1> SUFFICES ASSUME TypeOK, StopPreemptsLiquidation, [Next]_vars
             PROVE  StopPreemptsLiquidation'
  OBVIOUS
<1>1. CASE closedTrades' = closedTrades
  BY <1>1 DEF StopPreemptsLiquidation
<1>2. CASE \E s \in Symbols, quote \in Nat, r \in Reasons : Settles(s, quote, r)
  <2>1. PICK s \in Symbols, quote \in Nat, r \in Reasons : Settles(s, quote, r)
    BY <1>2
  <2> DEFINE c == [trade |-> positions[s], quote |-> quote, reason |-> r,
                   proceeds |-> Proceeds(positions[s], quote)]
             n == Len(closedTrades)
  <2>2. c.trade = positions[s] /\ c.reason = r
    OBVIOUS
  <2>3. closedTrades' = Append(closedTrades, c)
    BY <2>1 DEF Settles, closePositionLocked
  <2> HIDE DEF c
  <2>4. n \in Nat /\ Len(closedTrades') = n + 1 /\ closedTrades'[n + 1] = c
        /\ \A i \in 1..n : closedTrades'[i] = closedTrades[i]
    BY <2>3 DEF TypeOK
  <2>5. positions[s] \in Trade
    BY <2>1, OpenIsTrade DEF Settles
  <2>6. c.reason = "LIQUIDATION" /\ c.trade.stop > 0 =>
          IF c.trade.long THEN c.trade.stop < c.trade.liq ELSE c.trade.stop > c.trade.liq
    <3>1. positions[s].stop \in Nat /\ positions[s].liq \in Int
      BY <2>5 DEF Trade
    <3> QED BY <2>1, <2>2, <3>1 DEF Settles, Liquidates, Stops
  <2>7. \A i \in 1..(n + 1) : i \in 1..n \/ i = n + 1
    BY <2>4
  <2>8. \A i \in 1..n : closedTrades[i].reason = "LIQUIDATION" /\ closedTrades[i].trade.stop > 0
          => IF closedTrades[i].trade.long
             THEN closedTrades[i].trade.stop < closedTrades[i].trade.liq
             ELSE closedTrades[i].trade.stop > closedTrades[i].trade.liq
    BY DEF StopPreemptsLiquidation
  <2> HIDE DEF n
  <2> QED BY <2>4, <2>6, <2>7, <2>8 DEF StopPreemptsLiquidation
<1>3. CASE NewExecutionEngine
  BY <1>3 DEF NewExecutionEngine, StopPreemptsLiquidation
<1> QED BY <1>1, <1>2, <1>3, StepCases DEF vars, OpenPositionFromSignal

\* A trade whose stop lies on the entry side of its liquidation price is never
\* settled as a liquidation.
THEOREM StopFirst == Spec => []StopPreemptsLiquidation
<1>1. Init => StopPreemptsLiquidation
  BY DEF Init, StopPreemptsLiquidation
<1> QED BY <1>1, PreemptsStep, TypeCorrect, PTL DEF Spec

---------------------------------------------------------------------------
(* Money is conserved *)

\* The margin held on a symbol, and what a settled trade has realised: the
\* terms of the two sums.
Held(s) == IF IsOpen(s) THEN Margin(positions[s]) ELSE 0

Gain(i) == closedTrades[i].proceeds - Margin(closedTrades[i].trade)

\* The margin of a trade is a number, and a new trade has the margin of its
\* signal.
LEMMA MarginType ==
    ASSUME NEW t \in Trade
    PROVE  Margin(t) \in Nat
<1>1. t.size \in Nat /\ t.entry \in Nat /\ t.leverage \in Nat \ {0}
  BY DEF Trade
<1>2. t.size * t.entry \in Nat
  BY <1>1, TimesNat
<1>3. (t.size * t.entry) \div t.leverage \in Nat
  BY <1>1, <1>2, DivNat
<1> QED BY <1>3 DEF Margin

LEMMA NewTradeMargin ==
    ASSUME NEW sig \in Offers
    PROVE  Margin(NewTrade(sig)) = sig.margin
  BY ExactSizes DEF Margin, NewTrade

LEMMA TermsType ==
    ASSUME TypeOK
    PROVE  /\ \A s \in Symbols : Held(s) \in Int
           /\ \A i \in 1..Len(closedTrades) : Gain(i) \in Int
<1>1. ASSUME NEW s \in Symbols PROVE Held(s) \in Int
  <2>1. CASE IsOpen(s)
    <3>1. Margin(positions[s]) \in Nat
      BY <2>1, OpenIsTrade, MarginType
    <3> QED BY <2>1, <3>1 DEF Held
  <2>2. CASE ~IsOpen(s)
    BY <2>2 DEF Held
  <2> QED BY <2>1, <2>2
<1>2. ASSUME NEW i \in 1..Len(closedTrades) PROVE Gain(i) \in Int
  <2>1. closedTrades[i] \in ClosedTrade
    BY DEF TypeOK
  <2>2. closedTrades[i].proceeds \in Int /\ closedTrades[i].trade \in Trade
    BY <2>1 DEF ClosedTrade
  <2>3. Margin(closedTrades[i].trade) \in Nat
    BY <2>2, MarginType
  <2> QED BY <2>2, <2>3 DEF Gain
<1> QED BY <1>1, <1>2

\* The two sums are numbers, and moving one symbol's margin or adding one
\* settled trade moves them by that much.
LEMMA SumsType ==
    ASSUME TypeOK
    PROVE  MarginHeld \in Int /\ Realized \in Int
<1> DEFINE f == [s \in Symbols |-> Held(s)]
           g == [i \in 1..Len(closedTrades) |-> Gain(i)]
<1>1. SumFunctionOnSet(f, Symbols) \in Int
  <2>1. \A s \in Symbols : f[s] \in Int
    BY TermsType
  <2> HIDE DEF f
  <2> QED BY <2>1, SumIsInt, SymbolsAssumption
<1>2. SumFunctionOnSet(g, 1..Len(closedTrades)) \in Int
  <2>1. IsFiniteSet(1..Len(closedTrades))
    <3>1. 1 \in Int /\ Len(closedTrades) \in Int
      BY DEF TypeOK
    <3> QED BY <3>1, FS_Interval
  <2>2. \A i \in 1..Len(closedTrades) : g[i] \in Int
    BY TermsType
  <2> HIDE DEF g
  <2> QED BY <2>1, <2>2, SumIsInt
<1> QED BY <1>1, <1>2 DEF MarginHeld, Realized, SumFunction, Held, Gain

LEMMA HeldMoves ==
    ASSUME TypeOK, TypeOK', NEW s \in Symbols,
           \A t \in Symbols \ {s} : positions'[t] = positions[t]
    PROVE  MarginHeld' = MarginHeld - Held(s) + Held(s)'
<1> DEFINE f == [t \in Symbols |-> Held(t)]
           g == [t \in Symbols |-> Held(t)']
<1>1. \A t \in Symbols : f[t] \in Int
  BY TermsType
<1>2. g[s] \in Int
  <2>1. CASE IsOpen(s)'
    <3>1. positions'[s] \in Trade
      BY <2>1 DEF TypeOK, IsOpen
    <3> QED BY <2>1, <3>1, MarginType DEF Held
  <2>2. CASE ~IsOpen(s)'
    BY <2>2 DEF Held
  <2> QED BY <2>1, <2>2
<1>3. \A t \in Symbols \ {s} : g[t] = f[t]
  BY DEF Held, IsOpen
<1>4. f[s] = Held(s) /\ g[s] = Held(s)' /\ DOMAIN f = Symbols /\ DOMAIN g = Symbols
  OBVIOUS
<1>5. MarginHeld = SumFunctionOnSet(f, Symbols) /\ MarginHeld' = SumFunctionOnSet(g, Symbols)
  BY DEF MarginHeld, SumFunction, Held
<1> HIDE DEF f, g
<1>6. SumFunctionOnSet(g, Symbols) = SumFunctionOnSet(f, Symbols) - f[s] + g[s]
  BY <1>1, <1>2, <1>3, SumChanges, SymbolsAssumption
<1> QED BY <1>4, <1>5, <1>6

LEMMA RealizedGrows ==
    ASSUME TypeOK, NEW c \in ClosedTrade, closedTrades' = Append(closedTrades, c)
    PROVE  Realized' = Realized + (c.proceeds - Margin(c.trade))
<1> DEFINE n == Len(closedTrades)
           f == [i \in 1..n |-> Gain(i)]
           g == [i \in 1..(n + 1) |-> closedTrades'[i].proceeds - Margin(closedTrades'[i].trade)]
<1>1. n \in Nat /\ Len(closedTrades') = n + 1 /\ closedTrades'[n + 1] = c
      /\ \A i \in 1..n : closedTrades'[i] = closedTrades[i]
  BY DEF TypeOK
<1>2. c.proceeds \in Int /\ Margin(c.trade) \in Int
  <2>1. c.proceeds \in Nat /\ c.trade \in Trade
    BY DEF ClosedTrade
  <2> QED BY <2>1, MarginType
<1>3. \A i \in 1..n : f[i] \in Int
  BY TermsType
<1>4. \A i \in 1..n : g[i] = f[i]
  BY <1>1 DEF Gain
<1>5. g[n + 1] = c.proceeds - Margin(c.trade) /\ n + 1 \in 1..(n + 1)
  BY <1>1
<1>6. Realized = SumFunctionOnSet(f, 1..n) /\ Realized' = SumFunctionOnSet(g, 1..(n + 1))
  <2>1. DOMAIN f = 1..n /\ DOMAIN g = 1..(n + 1)
    OBVIOUS
  <2>2. Realized = SumFunction(f)
    BY DEF Realized, Gain
  <2>3. Realized' = SumFunction(g)
    BY <1>1 DEF Realized
  <2> HIDE DEF f, g
  <2> QED BY <2>1, <2>2, <2>3 DEF SumFunction
<1>7. IsFiniteSet(1..n) /\ IsFiniteSet(1..(n + 1))
  <2>1. 1 \in Int /\ n \in Int /\ n + 1 \in Int
    BY <1>1
  <2> HIDE DEF n
  <2> QED BY <2>1, FS_Interval
<1>8. \A i \in 1..(n + 1) : g[i] \in Int
  <2> TAKE i \in 1..(n + 1)
  <2>1. i \in 1..n \/ i = n + 1
    BY <1>1
  <2> HIDE DEF f, g, n
  <2> QED BY <1>2, <1>3, <1>4, <1>5, <2>1
<1>9. (1..(n + 1)) \ {n + 1} = 1..n
  BY <1>1
<1> HIDE DEF f, g, n
<1>10. SumFunctionOnSet(g, 1..(n + 1))
         = g[n + 1] + SumFunctionOnSet(g, (1..(n + 1)) \ {n + 1})
  BY <1>5, <1>7, <1>8, SumTakesOut
<1>11. SumFunctionOnSet(g, 1..n) = SumFunctionOnSet(f, 1..n)
  BY <1>4, <1>7, SumOfSame
<1>12. SumFunctionOnSet(f, 1..n) \in Int
  BY <1>3, <1>7, SumIsInt
<1>13. Realized' = (c.proceeds - Margin(c.trade)) + Realized
  BY <1>5, <1>6, <1>9, <1>10, <1>11
<1>14. Realized \in Int
  BY <1>6, <1>12
<1> QED BY <1>2, <1>13, <1>14

\* Opening takes the margin out of the cash.
LEMMA OpenConserves ==
    ASSUME TypeOK, TypeOK', CapitalConserved, NEW sig \in Offers,
           ~IsOpen(sig.symbol), OpenPositionFromSignal(sig)
    PROVE  CapitalConserved'
<1> DEFINE s == sig.symbol
<1>1. s \in Symbols /\ sig.margin \in Nat /\ closedTrades' = closedTrades
  BY OffersAssumption DEF Offer, OpenPositionFromSignal
<1>2. Realized' = Realized
  BY <1>1 DEF Realized
<1>3. CASE positions' = positions /\ cash' = cash
  BY <1>2, <1>3 DEF CapitalConserved, MarginHeld, IsOpen
<1>4. CASE cash' = cash - sig.margin /\ positions' = [positions EXCEPT ![s] = NewTrade(sig)]
  <2>1. positions'[s] = NewTrade(sig) /\ \A t \in Symbols \ {s} : positions'[t] = positions[t]
    BY <1>1, <1>4 DEF TypeOK
  <2>2. NewTrade(sig) # NoTrade
    BY NewTradeType, NoTradeAssumption DEF TypeOK
  <2>3. Held(s) = 0 /\ Held(s)' = sig.margin
    BY <2>1, <2>2, NewTradeMargin DEF Held, IsOpen
  <2>4. MarginHeld' = MarginHeld + sig.margin
    <3>1. MarginHeld' = MarginHeld - Held(s) + Held(s)'
      BY <1>1, <2>1, HeldMoves
    <3>2. MarginHeld \in Int
      BY SumsType
    <3> QED BY <1>1, <2>3, <3>1, <3>2
  <2> QED BY <1>1, <1>2, <1>4, <2>4, SumsType DEF CapitalConserved, TypeOK
<1> QED BY <1>3, <1>4 DEF OpenPositionFromSignal

\* Settling returns the margin with the result.
LEMMA CloseConserves ==
    ASSUME TypeOK, TypeOK', CapitalConserved, NEW s \in Symbols, IsOpen(s),
           NEW quote \in Nat, NEW reason \in Reasons, closePositionLocked(s, quote, reason)
    PROVE  CapitalConserved'
<1> DEFINE back == Proceeds(positions[s], quote)
           c == [trade |-> positions[s], quote |-> quote, reason |-> reason, proceeds |-> back]
<1>1. positions[s] \in Trade
  BY OpenIsTrade
<1>2. back \in Nat /\ Margin(positions[s]) \in Nat
  BY <1>1, ProceedsType, MarginType
<1>3. c.proceeds = back /\ c.trade = positions[s]
  OBVIOUS
<1>4. cash' = cash + back /\ positions' = [positions EXCEPT ![s] = NoTrade]
      /\ closedTrades' = Append(closedTrades, c)
  BY DEF closePositionLocked
<1> HIDE DEF back
<1>5. c \in ClosedTrade
  BY <1>1, <1>2 DEF ClosedTrade
<1> HIDE DEF c
<1>6. Realized' = Realized + (back - Margin(positions[s]))
  BY <1>3, <1>4, <1>5, RealizedGrows
<1>7. positions'[s] = NoTrade /\ \A t \in Symbols \ {s} : positions'[t] = positions[t]
  BY <1>4 DEF TypeOK
<1>8. Held(s) = Margin(positions[s]) /\ Held(s)' = 0
  BY <1>7 DEF Held, IsOpen
<1>9. MarginHeld' = MarginHeld - Held(s) + Held(s)'
  BY <1>7, HeldMoves
<1>10. cash \in Int /\ InitialCash \in Int /\ MarginHeld \in Int /\ Realized \in Int
  BY SumsType, MoneyAssumption DEF TypeOK
<1>11. cash + MarginHeld = InitialCash + Realized
  BY DEF CapitalConserved
<1>12. cash' + MarginHeld' = InitialCash + Realized'
  <2>1. MarginHeld' = MarginHeld - Margin(positions[s])
    BY <1>2, <1>8, <1>9, <1>10
  <2>2. cash' = cash + back
    BY <1>4
  <2> QED BY <1>2, <1>6, <1>10, <1>11, <2>1, <2>2
<1> QED BY <1>12 DEF CapitalConserved

\* An engine without positions and settled trades has its capital in cash.
LEMMA EmptySums ==
    /\ SumFunction([s \in Symbols |-> 0]) = 0
    /\ \A f : DOMAIN f = {} => SumFunction(f) = 0
<1> DEFINE f == [s \in Symbols |-> 0]
<1>1. DOMAIN f = Symbols /\ \A s \in Symbols : f[s] = 0
  OBVIOUS
<1> HIDE DEF f
<1>2. SumFunction(f) = 0
  BY <1>1, SumOfZeros, SymbolsAssumption DEF SumFunction
<1>3. \A g : DOMAIN g = {} => SumFunction(g) = 0
  BY SumOfNone DEF SumFunction
<1> QED BY <1>2, <1>3 DEF f

LEMMA ConservedStep == TypeOK /\ CapitalConserved /\ [Next]_vars => CapitalConserved'
<1> SUFFICES ASSUME TypeOK, CapitalConserved, [Next]_vars PROVE CapitalConserved'
  OBVIOUS
<1>1. TypeOK'
  BY TypeStep
<1>2. CASE UNCHANGED vars
  BY <1>2 DEF CapitalConserved, MarginHeld, Realized, IsOpen, vars
<1>3. CASE Next
  <2>1. CASE \E sig \in Offers : ~IsOpen(sig.symbol) /\ OpenPositionFromSignal(sig)
    BY <1>1, <2>1, OpenConserves
  <2>2. CASE \E s \in Symbols, quote \in Nat, r \in Reasons : Settles(s, quote, r)
    BY <1>1, <2>2, CloseConserves DEF Settles
  <2>3. CASE NewExecutionEngine
    <3>1. MarginHeld' = 0
      BY <2>3, EmptySums DEF NewExecutionEngine, MarginHeld, IsOpen
    <3>2. Realized' = 0
      BY <2>3, EmptySums DEF NewExecutionEngine, Realized
    <3> QED BY <2>3, <3>1, <3>2, MoneyAssumption DEF CapitalConserved, NewExecutionEngine
  <2> QED BY <1>2, <1>3, <2>1, <2>2, <2>3, StepCases
<1> QED BY <1>2, <1>3

\* Money is neither made nor lost outside a settlement, whatever the symbols,
\* the signals and the prices.
THEOREM Conserved == Spec => []CapitalConserved
<1>1. Init => CapitalConserved
  <2> SUFFICES ASSUME Init PROVE CapitalConserved
    OBVIOUS
  <2>1. MarginHeld = 0
    BY EmptySums DEF Init, MarginHeld, IsOpen
  <2>2. Realized = 0
    BY EmptySums DEF Init, Realized
  <2> QED BY <2>1, <2>2, MoneyAssumption DEF CapitalConserved, Init
<1> QED BY <1>1, ConservedStep, TypeCorrect, PTL DEF Spec

---------------------------------------------------------------------------
(* Positions are never replaced *)

\* While a symbol stays open, the same trade sits there.
THEOREM NeverReplaced == Spec => PositionsNeverReplaced
<1>1. TypeOK /\ [Next]_vars =>
        [\A s \in Symbols : IsOpen(s) /\ IsOpen(s)' => positions'[s] = positions[s]]_vars
  <2> SUFFICES ASSUME TypeOK, Next, NEW s \in Symbols, IsOpen(s), IsOpen(s)'
               PROVE  positions'[s] = positions[s]
    OBVIOUS
  <2>1. CASE UNCHANGED vars
    BY <2>1 DEF vars
  <2>2. CASE \E sig \in Offers : ~IsOpen(sig.symbol) /\ OpenPositionFromSignal(sig)
    BY <2>2 DEF OpenPositionFromSignal, TypeOK
  <2>3. CASE \E t \in Symbols, quote \in Nat, r \in Reasons : Settles(t, quote, r)
    <3>1. PICK t \in Symbols : positions' = [positions EXCEPT ![t] = NoTrade]
      BY <2>3 DEF closePositionLocked, Settles
    <3> QED BY <3>1 DEF IsOpen, TypeOK
  <2>4. CASE NewExecutionEngine
    BY <2>4 DEF NewExecutionEngine, IsOpen
  <2> QED BY <2>1, <2>2, <2>3, <2>4, StepCases
<1> QED BY <1>1, TypeCorrect, PTL DEF Spec, PositionsNeverReplaced
=============================================================================
