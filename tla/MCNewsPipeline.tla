--------------------------- MODULE MCNewsPipeline ---------------------------
(***************************************************************************)
(* Two symbols and three headlines: one about each, one about the market.  *)
(***************************************************************************)
EXTENDS NewsPipeline

CONSTANTS btc, eth, etf, upgrade, rates

MCRelevant ==
    [h \in Headlines |-> CASE h = etf     -> {btc} \cap Symbols
                           [] h = upgrade -> {eth} \cap Symbols
                           [] OTHER       -> Symbols]
=============================================================================
