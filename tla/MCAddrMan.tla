----------------------------- MODULE MCAddrMan ------------------------------
(***************************************************************************)
(* Four addresses heard of from three sources, one for each of three new   *)
(* buckets of one place, and a tried bucket of two.  There are more new    *)
(* buckets than PerAddress allows an address, all can be full, and the     *)
(* new bucket of an evicted entry can be taken, so that it has to go       *)
(* where the new tried entry came from.                                    *)
(***************************************************************************)
EXTENDS AddrMan, TLC

MCNewBucket == [a \in Addrs |-> [s \in Sources |-> s]]
MCTriedBucket == [a \in Addrs |-> 1]
AddrSymmetry == Permutations(Addrs)
=============================================================================
