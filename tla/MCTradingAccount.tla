-------------------------- MODULE MCTradingAccount --------------------------
(* Instances of TradingAccount for TLC.                                     *)
EXTENDS TradingAccount, TLC

Symmetry == Permutations(Call) \cup Permutations(Op \ Reducing)
=============================================================================
