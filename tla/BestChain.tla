----------------------------- MODULE BestChain ------------------------------
(***************************************************************************)
(* What best-chain selection promises to whoever reads the database: the   *)
(* committed chain is always one in which no output is spent twice, before *)
(* it exists or before it is mature, and it is only ever given up for a    *)
(* chain of more trust.  ChainState implements it (ChainStateProofs).      *)
(***************************************************************************)
EXTENDS Integers

CONSTANTS
    Blocks, Genesis, ChainTrust,
    Chain,         \* Chain[b]: b and the blocks before it
    ValidTips      \* the blocks that end a valid chain

VARIABLES
    known,   \* the blocks in the index on disk
    tip      \* the end of the committed chain

Init ==
    /\ known = {Genesis}
    /\ tip = Genesis

Learn(b) ==
    /\ known' = known \cup {b}
    /\ UNCHANGED tip

\* The blocks of the new chain become known with it, if they were not before.
Switch(b) ==
    /\ b \in ValidTips
    /\ ChainTrust[b] > ChainTrust[tip]
    /\ tip' = b
    /\ known' = known \cup Chain[b]

Next == \E b \in Blocks : Learn(b) \/ Switch(b)

Spec == Init /\ [][Next]_<<known, tip>>
=============================================================================
