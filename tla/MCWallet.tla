------------------------------ MODULE MCWallet ------------------------------
(***************************************************************************)
(* A universe of blocks and transactions for Wallet:                       *)
(*                                                                         *)
(*     g --- a1 --- a2 (ka2, t1)                                           *)
(*              \-- b2 --- b3 (d1)                                         *)
(*              \-- c2 --- c3 (t1) --- c4 (t2)                             *)
(*                    \--- u3, which fails in ConnectBlock                 *)
(*                                                                         *)
(* The wallet mined a1 and staked the second output of its coinbase in a2. *)
(* t1 and d1 spend the first; t2 and t4 spend the change of t1, t3 spends  *)
(* what t1 and t2 pay to others.  t3 is free, so the rate limiter may      *)
(* refuse it.                                                              *)
(***************************************************************************)
EXTENDS Wallet

MCBlocks == {"g", "a1", "a2", "b2", "b3", "c2", "c3", "c4", "u3"}
MCPrev == [b \in MCBlocks \ {"g"} |->
              CASE b = "a1" -> "g"
                [] b \in {"a2", "b2", "c2"} -> "a1"
                [] b = "b3" -> "b2" [] b \in {"c3", "u3"} -> "c2" [] b = "c4" -> "c3"]
MCHeight == [b \in MCBlocks |->
                CASE b = "g" -> 0 [] b = "a1" -> 1 [] b \in {"a2", "b2", "c2"} -> 2
                  [] b \in {"b3", "c3", "u3"} -> 3 [] b = "c4" -> 4]
MCVtx == [b \in MCBlocks |->
    CASE b = "g"  -> <<>>
      [] b = "a1" -> <<"ca1">>
      [] b = "a2" -> <<"ca2", "ka2", "t1">>
      [] b = "b2" -> <<"cb2">>
      [] b = "b3" -> <<"cb3", "d1">>
      [] b = "c2" -> <<"cb2">>
      [] b = "c3" -> <<"cb3", "t1">>
      [] b = "u3" -> <<"cb3">>
      [] b = "c4" -> <<"cc4", "t2">>]
MCTxs == {"ca1", "ca2", "ka2", "cb2", "cb3", "cc4", "t1", "t2", "t3", "t4", "d1"}
MCInputs == [t \in MCTxs |->
    CASE t \in {"t1", "d1"} -> {<<"ca1", 1>>}
      [] t = "ka2"          -> {<<"ca1", 2>>}
      [] t \in {"t2", "t4"} -> {<<"t1", 1>>}
      [] t = "t3"           -> {<<"t1", 2>>, <<"t2", 1>>}
      [] OTHER              -> {}]
MCValue == [t \in MCTxs |->
    CASE t = "ca1"                -> <<8, 2>>
      [] t = "ca2"                -> <<0>>
      [] t = "ka2"                -> <<3>>
      [] t = "t1"                 -> <<4, 4>>
      [] t \in {"t2", "t4"}      -> <<3>>
      [] t = "t3"                 -> <<6>>
      [] t = "d1"                 -> <<8>>
      [] OTHER                    -> <<10>>]
MCKernel == [b \in MCBlocks |-> IF b = "a2" THEN <<"ca1", 2>> ELSE None]
MCCoinAge == [b \in MCBlocks |-> 0]
MCMine == {<<"ca1", 1>>, <<"ca1", 2>>, <<"ka2", 1>>, <<"t1", 1>>}
=============================================================================
