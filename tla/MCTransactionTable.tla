------------------------- MODULE MCTransactionTable -------------------------
(* Instances of TransactionTable for TLC.                                  *)
EXTENDS TransactionTable, TLC

Symmetry == Permutations(Workers) \cup Permutations(Tsx) \cup Permutations(Copies)

=============================================================================
