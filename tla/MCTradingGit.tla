---------------------------- MODULE MCTradingGit ----------------------------
(* Instances of TradingGit for TLC.                                         *)
EXTENDS TradingGit, TLC

Symmetry == Permutations(Op) \cup Permutations(Call)
=============================================================================
