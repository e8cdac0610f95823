------------------------------- MODULE Wallet -------------------------------
(***************************************************************************)
(* The wallet's view of the chain (CWallet::mapWallet and the spent flags  *)
(* and block hashes of its transactions), beside the memory pool and the   *)
(* best chain that tell it what happens: SyncWithWallets is called for     *)
(* every transaction accepted and, inside ConnectBlock and DisconnectBlock,*)
(* for every transaction of a block, before the database commits.          *)
(*                                                                         *)
(* The wallet file is written in place at every change; a restart reads it *)
(* back as it is.  cs_main and cs_wallet are held from CreateTransaction   *)
(* to the end of CommitTransaction, so making a transaction is one step.   *)
(***************************************************************************)
EXTENDS MemPool

CONSTANTS
    Mine,           \* the outputs whose keys the wallet has (IsMine)
    ExtraMaturity,  \* blocks the wallet waits beyond nCoinbaseMaturity
    Repairs,        \* whether the user runs repairwallet
    RescanFrom      \* the blocks a rescan may start from

ASSUME WalletAssumption ==
    /\ Mine \subseteq OutPoints
    /\ ExtraMaturity \in Nat \ {0}
    /\ Repairs \in BOOLEAN
    /\ RescanFrom \subseteq Blocks

VARIABLES
    mapWallet,  \* the transactions the wallet knows
    vfSpent,    \* its own outputs flagged as spent
    hashBlock,  \* the block a transaction was last seen connected in
    madeAt,     \* the best block when CreateTransaction made it, which is what
                \* the copies of its parents in vtxPrev remember
    doubt,      \* what went wrong since the last full rescan: "none"; "ahead",
                \* a crash before the commit of a block the wallet was told of;
                \* "apart", the same of a reorganisation, or one that failed
    refused     \* transactions made here that the pool refused

walletVars == <<mapWallet, vfSpent, hashBlock>>
wvars == <<vars, walletVars, madeAt, doubt, refused>>

WalletTypeOK ==
    /\ TypeOK
    /\ mapWallet \subseteq Txs
    /\ vfSpent \subseteq {o \in Mine : o[1] \in mapWallet}
    /\ hashBlock \in [Txs -> Blocks \cup {None}]
    /\ madeAt \in [Txs -> Blocks \cup {None}]
    /\ \A t \in Txs \ mapWallet : hashBlock[t] = None /\ madeAt[t] = None
    /\ doubt \in {"none", "ahead", "apart"}
    /\ refused \subseteq mapWallet

WalletInit ==
    /\ Init
    /\ mapWallet = {}
    /\ vfSpent = {}
    /\ hashBlock = [t \in Txs |-> None]
    /\ madeAt = [t \in Txs |-> None]
    /\ doubt = "none"
    /\ refused = {}

-----------------------------------------------------------------------------
\* A wallet w: w.known the transactions of mapWallet, w.spent the own outputs
\* flagged, w.block the blocks.
TheWallet == [known |-> mapWallet, spent |-> vfSpent, block |-> hashBlock]
WalletBecomes(w) == mapWallet' = w.known /\ vfSpent' = w.spent /\ hashBlock' = w.block

PaysMe(t) == OutputsOf(t) \cap Mine # {}
FromMe(t, known) == \E o \in Inputs[t] \cap Mine : o[1] \in known

\* AddToWalletIfInvolvingMe for the transactions S, each after the ones it spends:
\* a transaction is recorded if it pays the wallet or spends an output of it.
\* Mutant: a transaction that only spends is passed over.
PaysMeOnly(w, S) == {t \in S : PaysMe(t) \/ t \in w.known}

InvolvesMe(w, S) == {t \in S : PaysMe(t) \/ FromMe(t, w.known \cup S) \/ t \in w.known}

\* WalletUpdateSpent for S: the own outputs the transactions spend are flagged;
\* for transactions of a block, the flags of their own outputs are first cleared.
\* Mutant: cleared last.
FlaggedThenCleared(w, S, known, fBlock) ==
    (w.spent \cup {o \in Mine : o[1] \in known /\ \E t \in S : o \in Inputs[t]})
        \ (IF fBlock THEN {o \in Mine : o[1] \in S} ELSE {})

WalletUpdateSpent(w, S, known, fBlock) ==
    (w.spent \ (IF fBlock THEN {o \in Mine : o[1] \in S} ELSE {}))
        \cup {o \in Mine : o[1] \in known /\ \E t \in S : o \in Inputs[t]}

\* SyncWithWallets for S, transactions without a block (pos None everywhere) or
\* of blocks, located by pos.
\* Mutant: the block is recorded for transactions that are none of the wallet's.
SyncedEveryBlock(w, S, pos) ==
    LET known == w.known \cup InvolvesMe(w, S)
    IN  [known |-> known,
         spent |-> WalletUpdateSpent(w, S, known, \E t \in S : pos[t] # None),
         block |-> [t \in Txs |-> IF t \in S /\ pos[t] # None THEN pos[t] ELSE w.block[t]]]

\* Mutant: a transaction that has a block keeps it.
SyncedFirstBlock(w, S, pos) ==
    LET known == w.known \cup InvolvesMe(w, S)
    IN  [known |-> known,
         spent |-> WalletUpdateSpent(w, S, known, \E t \in S : pos[t] # None),
         block |-> [t \in Txs |-> IF t \in known \cap S /\ w.block[t] = None THEN pos[t] ELSE w.block[t]]]

Synced(w, S, pos) ==
    LET known == w.known \cup InvolvesMe(w, S)
    IN  [known |-> known,
         spent |-> WalletUpdateSpent(w, S, known, \E t \in S : pos[t] # None),
         block |-> [t \in Txs |-> IF t \in known \cap S /\ pos[t] # None THEN pos[t] ELSE w.block[t]]]

NoBlock == [t \in Txs |-> None]

\* DisableTransaction for the coinstakes among the disconnected transactions S.
\* Mutant: nothing is given back.
NotRefunded(w, S) == w
Refunded(w, S) ==
    [w EXCEPT !.spent = @ \ {o \in Mine : o[1] \in w.known /\ \E t \in S \cap CoinStakes : o \in Inputs[t]}]

\* What the wallet is told on the way from the best block to b, all of it before
\* the commit: DisconnectBlock down to the fork, ConnectBlock up to b.
TxsIn(S) == UNION {TxsOf(c) : c \in S}
AfterMoving(w, b) ==
    Synced(Refunded(w, TxsIn(Anc[tip] \ Anc[b])), TxsIn(Anc[b] \ Anc[tip]), Located[b])

-----------------------------------------------------------------------------
\* What the pool does, and what the wallet is told of it.
Quiet == UNCHANGED <<walletVars, madeAt, doubt, refused>>
Told(w) == WalletBecomes(w) /\ UNCHANGED <<madeAt, doubt, refused>>

WalletSubmitTx(t) == SubmitTx(t) /\ Told(Synced(TheWallet, {t}, NoBlock))
WalletTxMessage(t) == TxMessage(t) /\ Told(Synced(TheWallet, {t}, NoBlock))
WalletTxMessageOrphan(t) == TxMessageOrphan(t) /\ Quiet

\* The wallets are told of the transaction of the message again, not of the orphan.
WalletAcceptOrphan(o) == AcceptOrphan(o) /\ Told(Synced(TheWallet, {msg}, NoBlock))
WalletPassOverOrphan(o) == PassOverOrphan(o) /\ Quiet
WalletNextInQueue == NextInQueue /\ Quiet
WalletEraseOrphans == EraseOrphans /\ Quiet

WalletConnectTip(b) == ConnectTip(b) /\ Told(AfterMoving(TheWallet, b))
WalletReorganize(b) == Reorganize(b) /\ Told(AfterMoving(TheWallet, b))

\* A block of the branch fails in ConnectBlock: the database goes back to where it
\* was, the wallet does not.
ReorganizeFails(b) ==
    /\ pc = "idle"
    /\ tip \notin Anc[b]
    /\ ChainTrust[b] > ChainTrust[tip]
    /\ ChainTrust[Prev[b]] <= ChainTrust[tip]
    /\ \E f \in Anc[b] \ Anc[tip] :
          /\ f \notin ValidChains
          /\ Prev[f] \in ValidChains
          /\ WalletBecomes(AfterMoving(TheWallet, Prev[f]))
    /\ doubt' = "apart"
    /\ UNCHANGED <<vars, madeAt, refused>>

-----------------------------------------------------------------------------
\* GetDepthInMainChain, at most 0 for what the wallet has not seen in the chain.
InMainChain(t) == hashBlock[t] \in Anc[tip]
Depth(t) == IF InMainChain(t) THEN Height[tip] - Height[hashBlock[t]] + 1 ELSE 0

\* IsTrusted: in the chain, or made here, in the pool, and resting on copies of
\* transactions that are in the chain or in the pool and its own in turn.
Trusted(t) ==
    \/ InMainChain(t)
    \/ /\ madeAt[t] # None
       /\ \E U \in SUBSET (mapTx \cap mapWallet) :
             /\ t \in U
             /\ \A u \in U : /\ FromMe(u, mapWallet)
                             /\ \A p \in Parents(u) : p \in U \/ Located[madeAt[t]][p] \in Anc[tip]

\* AvailableCoins.
Available(o) ==
    /\ o \in Mine \ vfSpent
    /\ o[1] \in mapWallet
    /\ Trusted(o[1])
    /\ IsCoinGenerated(o[1]) => Depth(o[1]) >= Maturity + ExtraMaturity

\* CreateTransaction and CommitTransaction: recorded and flagged whatever the pool
\* says.
CommitTransaction(t) ==
    /\ pc = "idle"
    /\ t \notin mapWallet \cup mapTx \cup orphans
    /\ ~ContainsTx(t) /\ ~IsCoinGenerated(t)
    /\ Inputs[t] # {}
    /\ \A o \in Inputs[t] : Available(o)
    /\ mapWallet' = mapWallet \cup {t}
    /\ vfSpent' = vfSpent \cup Inputs[t]
    /\ madeAt' = [madeAt EXCEPT ![t] = tip]
    /\ IF Acceptable(t)
       THEN AddToPool(t) /\ UNCHANGED refused
       ELSE refused' = refused \cup {t} /\ UNCHANGED pool
    /\ UNCHANGED <<tip, held, loop, hashBlock, doubt>>

\* repairwallet: FixSpentCoins sets the flags of what is in the transaction index
\* to what the index says.
FixSpentCoins ==
    /\ Repairs
    /\ pc = "idle"
    /\ vfSpent' = {o \in vfSpent : ~ContainsTx(o[1])}
                    \cup {o \in Mine \cap SpentIn[tip] : o[1] \in mapWallet /\ ContainsTx(o[1])}
    /\ UNCHANGED <<vars, mapWallet, hashBlock, madeAt, doubt, refused>>

\* ReacceptWalletTransactions flags what the chain spends, but does not look at a
\* coinbase or coinstake whose first output is flagged.  Every transaction of the
\* chain that involves the wallet is known, so that its scan for missing ones
\* finds nothing.
Reaccepted(w) ==
    [w EXCEPT !.spent = @ \cup {o \in Mine \cap SpentIn[tip] :
                                   /\ o[1] \in w.known
                                   /\ ~(IsCoinGenerated(o[1]) /\ <<o[1], 1>> \in w.spent)}]

\* The transactions a start offers to the pool, and the copies in vtxPrev that are
\* offered with one made here.
Ordinary == {t \in Txs : ~IsCoinGenerated(t)}
TxAncestors ==
    [t \in Txs |-> {a \in Ordinary \ {t} : \A U \in SUBSET Ordinary :
                       (\A u \in U \cup {t} : Parents(u) \cap Ordinary \subseteq U) => a \in U}]
Reoffered ==
    {t \in Ordinary : /\ ~ContainsTx(t)
                      /\ t \in mapWallet \/ \E u \in mapWallet : madeAt[u] # None /\ t \in TxAncestors[u]}

\* The wallet may have been told of the way as far as c when the node stops: some
\* of the blocks between the fork and the next best block, which is not committed.
Underway ==
    UNION {{c \in Anc[b] : Anc[b] \cap Anc[tip] \subseteq Anc[c]} :
              b \in {d \in Blocks \ {Genesis} : /\ MayBecomeBest(d)
                                                /\ ChainTrust[Prev[d]] <= ChainTrust[tip]}}

\* AppInit2: a rescan from a block on, which is the wallet's last recorded best
\* block, the genesis block with -rescan, or the best block for none at all; then
\* ReacceptWalletTransactions.  The node stopped with the wallet told of the way
\* to c, or told of nothing.
WalletRestart(c, from) ==
    LET w == Synced(AfterMoving(TheWallet, c),
                    IF from = tip THEN {} ELSE TxsIn(Anc[tip] \ (Anc[from] \ {from})),
                    Located[tip])
    IN  /\ c # tip => pc = "idle"
        /\ WalletBecomes(Reaccepted(w))
        /\ Restart(Reoffered, {t \in Txs : madeAt[t] # None})
        /\ doubt' = IF from = Genesis /\ tip # Genesis THEN "none"
                    ELSE IF c = tip THEN doubt
                    ELSE IF tip \in Anc[c] /\ doubt # "apart" THEN "ahead" ELSE "apart"
        /\ UNCHANGED <<madeAt, refused>>

WalletLoopStep ==
    \/ \E o \in todo : WalletAcceptOrphan(o) \/ WalletPassOverOrphan(o)
    \/ WalletNextInQueue
    \/ WalletEraseOrphans

WalletNext ==
    \/ \E t \in Txs : \/ WalletSubmitTx(t) \/ WalletTxMessage(t) \/ WalletTxMessageOrphan(t)
                      \/ CommitTransaction(t)
    \/ WalletLoopStep
    \/ \E b \in Blocks \ {Genesis} : WalletConnectTip(b) \/ WalletReorganize(b) \/ ReorganizeFails(b)
    \/ FixSpentCoins
    \/ \E c \in Underway \cup {tip}, from \in (RescanFrom \cap Anc[tip]) \cup {tip} : WalletRestart(c, from)

\* The message thread keeps cs_main until the message is handled.
WalletSpec == WalletInit /\ [][WalletNext]_wvars /\ WF_wvars(WalletLoopStep)

-----------------------------------------------------------------------------
\* A transaction of the best chain that pays the wallet or spends from it is in
\* the wallet, and in the block the chain has it in, however the chain got there
\* and whatever was replayed at a start (main.cpp:135); a full rescan brings the
\* wallet back to this from any state.
WalletAgreesWithChain ==
    doubt # "apart" =>
        \A t \in Txs : ContainsTx(t) /\ (PaysMe(t) \/ Inputs[t] \cap Mine # {}) =>
            t \in mapWallet /\ hashBlock[t] = LocatedIn(t)

\* An own output spent on the best chain is flagged, so the wallet never builds on
\* it: through reorganisations, crashes before a commit, rescans and repairs.
SpentCoinsFlagged == doubt # "apart" => Mine \cap SpentIn[tip] \subseteq vfSpent

\* An own output is flagged only if the wallet has a transaction that spends it: a
\* coin that looks spent can be explained.
FlaggedHasSpender == \A o \in vfSpent : \E t \in mapWallet : o \in Inputs[t]

\* "wallets need to refund inputs when disconnecting coinstake" (main.cpp:140):
\* no coin of the chain is flagged only for a coinstake that is not in the chain.
StakesRefunded ==
    doubt = "none" =>
        \A o \in vfSpent : ContainsTx(o[1]) =>
            \E t \in mapWallet : o \in Inputs[t] /\ (t \in CoinStakes => ContainsTx(t))

\* "make sure all wallets know about the given transaction" (main.cpp:135):
\* between messages, what the pool holds of the wallet's is in the wallet.
WalletsKnowPool ==
    pc = "idle" => \A t \in mapTx : PaysMe(t) \/ FromMe(t, mapWallet) => t \in mapWallet

\* "This must not fail. The transaction has already been signed and recorded."
\* (wallet.cpp:1788): the pool takes what the wallet makes.
CommitNeverRefused == refused = {}
=============================================================================
