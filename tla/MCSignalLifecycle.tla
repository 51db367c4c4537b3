------------------------- MODULE MCSignalLifecycle -------------------------
(***************************************************************************)
(* Small instances of the lifecycle: one symbol, and a long and a short    *)
(* signal entered at 10 with stop and target 6 away and break-even 1 past  *)
(* the entry.                                                              *)
(***************************************************************************)
EXTENDS SignalLifecycle

CONSTANTS btc, t1, m1, m2, e1

MCSymbols == {btc}

Long  == [symbol |-> btc, long |-> TRUE, entry |-> 10, stop |-> 4, tp |-> 16,
          leverage |-> 1, margin |-> 10]
Short == [symbol |-> btc, long |-> FALSE, entry |-> 10, stop |-> 16, tp |-> 4,
          leverage |-> 1, margin |-> 10]

LongOnly  == {Long}
ShortOnly == {Short}

\* For the long signal: 4 is its stop, 9 lies between the stop and the entry,
\* 12 is in profit by less than half the risk, 16 is its target.
LosingPrices == {4, 9}
TwoPrices    == {9, 16}
UnderEntry   == {9}
Laggard      == {12}

\* The 15m timeframe in units of 15 minutes: break-even at 15, flat at 30,
\* horizon at 45.
MCProf == [breakeven |-> 1, flat |-> 2, horizon |-> 3]
=============================================================================
