-------------------------- MODULE MCSlotAdmission --------------------------
(***************************************************************************)
(* Instances of the admission protocol: gold and its token are correlated, *)
(* the two coins stand alone.                                              *)
(***************************************************************************)
EXTENDS SlotAdmission

CONSTANTS btc, eth, xau, paxg, b1, b2, d1, d2, w1, w2

MCGroup == [s \in Symbols |-> IF s \in {xau, paxg} THEN "GOLD" ELSE s]
=============================================================================
