------------------------------- MODULE MCChain -------------------------------
(***************************************************************************)
(* A universe of blocks for ChainState:                                    *)
(*                                                                         *)
(*     g --- a1 --- a2 --- a3 --- a4 --- a5                                *)
(*              \-- b2 --- b3 --- b4 --- b5                                *)
(*                                                                         *)
(* t1 is in both branches, and t2 spends it in the same block; a4 and b5   *)
(* are proof of stake and claim the reward of the first year, the others   *)
(* proof of work.  Flawed chooses which blocks are invalid: b3 then spends *)
(* the coinbase of b2, which is not mature, b4 then spends again what t1   *)
(* in b3 spent, and b5's coinstake then pays itself more than the stake    *)
(* reward of any year.                                                     *)
(***************************************************************************)
EXTENDS ChainState

CONSTANT Flawed

MCBlocks == {"g", "a1", "a2", "a3", "a4", "a5", "b2", "b3", "b4", "b5"}
MCPrev == [b \in MCBlocks \ {"g"} |->
              CASE b = "a1" -> "g"  [] b = "a2" -> "a1" [] b = "a3" -> "a2"
                [] b = "a4" -> "a3" [] b = "a5" -> "a4" [] b = "b2" -> "a1" [] b = "b3" -> "b2"
                [] b = "b4" -> "b3" [] b = "b5" -> "b4"]
MCHeight == [b \in MCBlocks |->
                CASE b = "g" -> 0 [] b = "a1" -> 1 [] b \in {"a2", "b2"} -> 2
                  [] b \in {"a3", "b3"} -> 3 [] b \in {"a4", "b4"} -> 4 [] b \in {"a5", "b5"} -> 5]
\* b4 has the trust of two blocks and a5 of four, so that each can outweigh the
\* other branch at once.
MCChainTrust == [b \in MCBlocks |-> MCHeight[b] + (CASE b \in {"b4", "b5"} -> 2
                                                     [] b = "a5"           -> 4
                                                     [] OTHER              -> 1)]

MCVtx == [b \in MCBlocks |->
    CASE b = "g"  -> <<>>
      [] b = "a1" -> <<"ca1">>
      [] b = "a2" -> <<"ca2">>
      [] b = "a3" -> <<"ca3", "t1", "t2">>
      [] b = "a4" -> <<"ca4", "stakeA">>
      [] b = "a5" -> <<"ca5">>
      [] b = "b2" -> <<"cb2">>
      [] b = "b3" -> IF "b3" \in Flawed THEN <<"cb3", "early">> ELSE <<"cb3", "t1">>
      [] b = "b4" -> IF "b4" \in Flawed THEN <<"cb4", "again">> ELSE <<"cb4", "t2">>
      [] b = "b5" -> <<"cb5", "stakeB">>]
MCTxs == {"ca1", "ca2", "ca3", "ca4", "ca5", "cb2", "cb3", "cb4", "cb5",
          "t1", "t2", "early", "again", "stakeA", "stakeB"}
MCInputs == [t \in MCTxs |->
    CASE t = "t1"     -> {<<"ca1", 1>>}
      [] t = "again"  -> {<<"ca1", 1>>}
      [] t = "t2"     -> {<<"t1", 1>>}
      [] t = "early"  -> {<<"cb2", 1>>}
      [] t = "stakeA" -> {<<"ca1", 2>>}
      [] t = "stakeB" -> {<<"ca1", 2>>, <<"cb2", 1>>}
      [] OTHER        -> {}]
MCValue == [t \in MCTxs |->
    CASE t = "ca1"                 -> <<6, 4>>
      [] t \in {"ca4", "cb5"}      -> <<0>>
      [] t \in {"t1", "again"}     -> <<5>>
      [] t = "t2"                  -> <<4>>
      [] t = "early"               -> <<9>>
      [] t = "stakeA"              -> <<5, 4>>
      [] t = "stakeB"              -> IF "b5" \in Flawed THEN <<29>> ELSE <<19>>
      [] t = "ca3"                 -> <<12>>
      [] t = "cb3"                 -> <<11>>
      [] OTHER                     -> <<10>>]
MCKernel == [b \in MCBlocks |-> CASE b = "a4" -> <<"ca1", 2>>
                                  [] b = "b5" -> <<"cb2", 1>>
                                  [] OTHER    -> None]
MCCoinAge == [b \in MCBlocks |-> IF b \in {"a4", "b5"} THEN 1 ELSE 0]
=============================================================================
