------------------------------ MODULE MCKeyPool -----------------------------
(***************************************************************************)
(* Constants for KeyPool.                                                  *)
(***************************************************************************)
EXTENDS KeyPool, TLC

MinerSymmetry == Permutations(Miners)
=============================================================================
