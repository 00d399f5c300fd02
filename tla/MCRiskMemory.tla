---------------------------- MODULE MCRiskMemory ----------------------------
(* RiskMemory over two two-tick days and two overlapping arms, with limits  *)
(* that some of the equities cross and some do not.                         *)
EXTENDS RiskMemory, TLC

Symmetry == Permutations(Arms)
=============================================================================
