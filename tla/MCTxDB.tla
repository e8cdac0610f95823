------------------------------- MODULE MCTxDB -------------------------------
(* Model-checking instance of TxDB: two handles on the shared database.    *)
EXTENDS TxDB, TLC

\* Keys and values are opaque; the handles are interchangeable too.
Sym == Permutations(Handles) \cup Permutations(Keys) \cup Permutations(Vals)
=============================================================================
