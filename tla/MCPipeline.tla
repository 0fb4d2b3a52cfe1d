----------------------------- MODULE MCPipeline -----------------------------
(* Two concurrent cycles over a borrower, with or without the operator's   *)
(* own position and an arbitrage.                                          *)
EXTENDS Pipeline

MCStreakCap == Threshold + Cardinality(Cycles)
=============================================================================
