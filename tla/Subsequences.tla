---------------------------- MODULE Subsequences ----------------------------
(***************************************************************************)
(* Array.prototype.filter on sequences, by the set of what is kept.         *)
(***************************************************************************)
EXTENDS Integers, SequencesExt

Only(s, kept) ==
  LET sub[n \in 0..Len(s)] ==
        IF n = 0 THEN <<>>
        ELSE IF s[n] \in kept THEN Append(sub[n - 1], s[n]) ELSE sub[n - 1]
  IN sub[Len(s)]
=============================================================================
