------------------------------- MODULE Ledger -------------------------------
(***************************************************************************)
(* What blocks contain (CBlock::vtx), what transactions spend and pay      *)
(* (CTransaction), the checks of ConnectBlock that depend on nothing else, *)
(* and what the database should hold for a chain.                          *)
(***************************************************************************)
EXTENDS BlockTree, Sequences, FiniteSets, FiniteSetsExt

CONSTANTS
    Txs,
    Vtx,              \* Vtx[b]: the block's transactions, in order
    Inputs,           \* Inputs[t]: the outpoints t spends, empty for a coinbase
    Value,            \* Value[t][n]: the value of t's n-th output
    Kernel,           \* Kernel[b]: the outpoint staked by b, None for proof of work
    Unsound,          \* blocks some check fails on whatever the chain: signatures,
                      \* sigops, CheckBlock, transaction timestamps
    CoinAge,          \* CoinAge[b]: GetCoinAge of b's coinstake, in units that earn
                      \* one base unit of money per percent
    Maturity,         \* nCoinbaseMaturity
    Subsidy,          \* the proof-of-work subsidy
    MinFee,           \* GetMinFee of every transaction
    YearlyBlockCount  \* YEARLY_BLOCKCOUNT

OutputsOf(t) == {<<t, n>> : n \in DOMAIN Value[t]}
OutPoints == UNION {OutputsOf(t) : t \in Txs}

TxsOf(b) == {Vtx[b][i] : i \in DOMAIN Vtx[b]}
TxsBefore(b, i) == {Vtx[b][j] : j \in 1..(i - 1)}
TxsAfter(b, i) == {Vtx[b][j] : j \in (i + 1)..Len(Vtx[b])}
InputsOf(b) == UNION {Inputs[t] : t \in TxsOf(b)}

IsProofOfStake(b) == Kernel[b] # None

\* vtx[0] is the coinbase; vtx[1] of a proof-of-stake block is the coinstake.
CoinBases == {Vtx[b][1] : b \in Blocks \ {Genesis}}
CoinStakes == {Vtx[b][2] : b \in {c \in Blocks \ {Genesis} : IsProofOfStake(c)}}
IsCoinGenerated(t) == t \in CoinBases \cup CoinStakes

\* Every block starts with a coinbase that carries its height (AcceptBlock), so
\* no chain repeats one; other transactions have inputs (CheckTransaction) and
\* are not repeated within a block (CheckBlock).
ASSUME TxAssumption ==
    /\ None \notin Txs
    /\ Vtx \in [Blocks -> Seq(Txs)]
    /\ Vtx[Genesis] = <<>>
    /\ \A b \in Blocks \ {Genesis} : Vtx[b] # <<>>
    /\ \A b \in Blocks : \A i, j \in DOMAIN Vtx[b] : Vtx[b][i] = Vtx[b][j] => i = j
    /\ \A b, c \in Blocks \ {Genesis} : Vtx[b][1] = Vtx[c][1] => Height[b] = Height[c]
    /\ \A b \in Blocks : \A i \in DOMAIN Vtx[b] : Inputs[Vtx[b][i]] = {} <=> i = 1
    /\ Inputs \in [Txs -> SUBSET (Txs \X (Nat \ {0}))]
    /\ Value \in [Txs -> Seq(Nat)]
    /\ Maturity \in Nat \ {0}

\* A proof-of-stake block has a coinstake after its coinbase (IsProofOfStake), and
\* CheckBlock refuses it unless the coinbase pays nothing.
ASSUME RewardAssumption ==
    /\ \A b \in Blocks \ {Genesis} : IsProofOfStake(b) =>
          /\ 2 \in DOMAIN Vtx[b]
          /\ b \notin Unsound => Value[Vtx[b][1]] = <<0>>
    /\ CoinAge \in [Blocks -> Nat]
    /\ Subsidy \in Nat
    /\ YearlyBlockCount \in Nat \ {0}

-----------------------------------------------------------------------------
\* In what follows v is a database: v.pos the block each transaction is located
\* in (None if it is not indexed), v.spent the outputs with a spent pointer.

\* FetchInputs and the spent test of ConnectInputs, for the i-th transaction
\* of b: every input is an output of a transaction earlier in the block or in
\* the transaction index, and has no spent pointer yet.
InputsAvailable(v, b, i) ==
    \A o \in Inputs[Vtx[b][i]] :
        /\ o \in OutPoints
        /\ \/ o[1] \in TxsBefore(b, i)
           \/ v.pos[o[1]] # None /\ o \notin v.spent
        /\ \A j \in 1..(i - 1) : o \notin Inputs[Vtx[b][j]]

\* A coinbase or coinstake is not spent by a block fewer than nCoinbaseMaturity
\* above the one it is located in.
InputsMature(v, b, i) ==
    \A o \in Inputs[Vtx[b][i]] :
        IsCoinGenerated(o[1]) =>
            /\ o[1] \notin TxsBefore(b, i)
            /\ v.pos[o[1]] \in Anc[b] => Height[b] - Height[v.pos[o[1]]] >= Maturity

\* BIP30: a transaction already indexed may be repeated only when spent out.
NoOverwrite(v, b, i) ==
    LET t == Vtx[b][i]
    IN  v.pos[t] # None => OutputsOf(t) \subseteq v.spent

\* The checks of ConnectBlock that depend on the chain below the block.
SpendsValid(v, b) ==
    \A i \in DOMAIN Vtx[b] :
        NoOverwrite(v, b, i) /\ InputsAvailable(v, b, i) /\ InputsMature(v, b, i)

-----------------------------------------------------------------------------
ValueOut(t) == MapThenSumSet(LAMBDA n : Value[t][n], DOMAIN Value[t])
ValueIn(t) == MapThenSumSet(LAMBDA o : Value[o[1]][o[2]], Inputs[t])

\* The transactions of b that pay fees: neither coinbase nor coinstake.
Paying(b) == {Vtx[b][i] : i \in {j \in DOMAIN Vtx[b] : j > (IF IsProofOfStake(b) THEN 2 ELSE 1)}}
Fee(t) == ValueIn(t) - ValueOut(t)
Fees(b) == MapThenSumSet(Fee, Paying(b))
FeesPaid(b) == \A t \in Paying(b) : Fee(t) >= MinFee

StakeReward(b) == ValueOut(Vtx[b][2]) - ValueIn(Vtx[b][2])

GetProofOfWorkReward(b) == Subsidy + Fees(b)

GetProofOfStakeReward(b, bestHeight) ==
    LET year    == bestHeight \div YearlyBlockCount
        percent == 5 - (IF year >= 5 THEN 4 ELSE year)
    IN  CoinAge[b] * percent + Fees(b)
-----------------------------------------------------------------------------
\* What the database should hold for the chain that ends in b; the genesis block
\* is not connected, so it contributes nothing.
OnlyOf(S) == IF S = {} THEN None ELSE CHOOSE c \in S : TRUE
LocationOn(b) == [t \in Txs |-> OnlyOf({c \in Anc[b] : t \in TxsOf(c)})]
SpentOn(b) == UNION {InputsOf(c) : c \in Anc[b]}
NextOn(b) == [a \in Blocks |-> OnlyOf({c \in Anc[b] \ {Genesis} : Prev[c] = a})]
LedgerOf(b) == [pos |-> LocationOn(b), spent |-> SpentOn(b)]

\* Every block of the chain is valid on top of the ones before it.
ChainSpendsValid(b) ==
    \A c \in Anc[b] \ {Genesis} : SpendsValid(LedgerOf(Prev[c]), c)
=============================================================================
