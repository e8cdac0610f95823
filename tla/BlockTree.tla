----------------------------- MODULE BlockTree ------------------------------
(***************************************************************************)
(* The tree of blocks a node can meet (CBlockIndex: pprev, nHeight,        *)
(* nChainTrust).                                                           *)
(***************************************************************************)
EXTENDS Integers

CONSTANTS
    Blocks, Genesis,
    None,             \* a NULL pointer, a hash of zero, an absent entry
    Prev,             \* hashPrevBlock, for every block but Genesis
    Height,           \* CBlockIndex::nHeight
    ChainTrust        \* CBlockIndex::nChainTrust

ASSUME TreeAssumption ==
    /\ Genesis \in Blocks
    /\ None \notin Blocks
    /\ Prev \in [Blocks \ {Genesis} -> Blocks]
    /\ Height \in [Blocks -> Nat]
    /\ ChainTrust \in [Blocks -> Nat]
    /\ \A b \in Blocks \ {Genesis} : /\ Height[b] = Height[Prev[b]] + 1
                                     /\ ChainTrust[b] > ChainTrust[Prev[b]]

\* b and the blocks before it: the least set that holds b and is closed under pprev.
ClosedUnderPrev(S) == \A c \in S : c # Genesis => Prev[c] \in S
Anc == [b \in Blocks |->
           {a \in Blocks : \A S \in SUBSET Blocks : b \in S /\ ClosedUnderPrev(S) => a \in S}]
=============================================================================
