-------------------------------- MODULE MCDemo --------------------------------
(***************************************************************************)
(* A small demo: batches short enough to interleave and long enough to     *)
(* pass a minute.                                                          *)
(***************************************************************************)
EXTENDS Demo, TLC

CONSTANTS g1, g2, h1, h2, p1

MCGateways == {g1, g2}
MCHandlers == {h1, h2}
MCPayments == {p1}

Symmetry == Permutations(MCGateways) \cup Permutations(MCHandlers)

===============================================================================
