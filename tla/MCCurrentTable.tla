--------------------------- MODULE MCCurrentTable ---------------------------
(* Instances of CurrentTable for TLC. *)
EXTENDS CurrentTable, TLC

\* Transactions and keys are interchangeable.
Symmetric == Permutations(Txs) \cup Permutations(Keys)
=============================================================================
