------------------------------ MODULE MCIntake ------------------------------
(***************************************************************************)
(* A universe of blocks for BlockIntake:                                   *)
(*                                                                         *)
(*     g --- a1 --- x2                                                     *)
(*       \-- b1 --- y2 --- y3                                              *)
(*              \-- z2                                                     *)
(*                                                                         *)
(* x2, y2 and z2 are proof-of-stake blocks with the same stake.            *)
(***************************************************************************)
EXTENDS BlockIntake

MCBlocks == {"g", "a1", "b1", "x2", "y2", "z2", "y3"}
MCPrev == [b \in MCBlocks \ {"g"} |->
              CASE b \in {"a1", "b1"} -> "g" [] b = "x2" -> "a1"
                [] b \in {"y2", "z2"} -> "b1" [] b = "y3" -> "y2"]
MCHeight == [b \in MCBlocks |->
                CASE b = "g" -> 0 [] b \in {"a1", "b1"} -> 1
                  [] b \in {"x2", "y2", "z2"} -> 2 [] b = "y3" -> 3]
\* The lower branch outweighs the upper one from its first block on.
MCChainTrust == [b \in MCBlocks |-> IF b \in {"b1", "y2", "z2", "y3"} THEN MCHeight[b] + 2
                                                                    ELSE MCHeight[b]]
MCStake == [b \in MCBlocks |-> IF b \in {"x2", "y2", "z2"} THEN "s" ELSE None]
=============================================================================
