------------------------- MODULE MCExecutionEngine -------------------------
(***************************************************************************)
(* A small engine for TLC: two symbols, a long and a short offer of the    *)
(* first and a long offer of the second with its stop beyond liquidation.  *)
(* Cash covers two of the three margins.                                   *)
(***************************************************************************)
EXTENDS ExecutionEngine

CONSTANTS btc, xau

MCSymbols == {btc, xau}

MCOffers ==
    { [symbol |-> btc, long |-> TRUE, entry |-> 10, stop |-> 8, tp |-> 14,
       leverage |-> 2, margin |-> 20],
      [symbol |-> btc, long |-> FALSE, entry |-> 10, stop |-> 12, tp |-> 6,
       leverage |-> 1, margin |-> 30],
      [symbol |-> xau, long |-> TRUE, entry |-> 10, stop |-> 2, tp |-> 16,
       leverage |-> 4, margin |-> 15] }

MCPrices == {1, 6, 12, 16}
=============================================================================
