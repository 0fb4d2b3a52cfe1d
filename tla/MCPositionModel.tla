-------------------------- MODULE MCPositionModel --------------------------
(* Two accounts and a cap of one position, two requests at a time; or one  *)
(* of each, where no request fails.                                        *)
EXTENDS PositionModel, TLC

PositionSymmetry == Permutations(Tasks) \cup Permutations(Accounts)
FairPositionSpec == PositionSpec /\ PositionFairness
=============================================================================
