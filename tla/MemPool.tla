------------------------------ MODULE MemPool ------------------------------
(***************************************************************************)
(* The memory pool (CTxMemPool), the orphan transactions and the "tx"      *)
(* message of src/src/main.cpp, beside a best chain that moves as          *)
(* BestChain says and updates the pool where SetBestChainInner and         *)
(* Reorganize do.                                                          *)
(*                                                                         *)
(* cs_main is held by the message thread, the RPC thread and the wallet    *)
(* alike, so one handler runs at a time; the handling of a transaction is  *)
(* several steps here because it walks a queue of orphans.  What each step *)
(* tells the wallet is in Wallet.                                          *)
(***************************************************************************)
EXTENDS Ledger

CONSTANTS
    NonStandard,  \* transactions CheckTransaction or IsStandard refuses
    Free,         \* transactions below MIN_RELAY_TX_FEE, rate-limited
    Large,        \* transactions over 5000 bytes, not kept as orphans
    MaxOrphans    \* MAX_ORPHAN_TRANSACTIONS

ASSUME PoolAssumption == IsFiniteSet(Txs) /\ MaxOrphans \in Nat

VARIABLES
    tip,        \* hashBestChain: the committed best chain
    mapTx,      \* transactions in the pool
    mapNextTx,  \* the pool transaction that spends an outpoint, or None
    orphans,    \* mapOrphanTransactions
    byPrev,     \* mapOrphanTransactionsByPrev, {} where there is no entry
    pc,         \* "idle", or "orphans" in the loop of the tx message
    msg,        \* tx of the message
    queue,      \* vWorkQueue: what the message has brought into the pool
    current,    \* the position in it, 0 between messages
    todo,       \* orphans of the current position not yet visited
    erase       \* vEraseQueue

pool == <<mapTx, mapNextTx>>
held == <<orphans, byPrev>>
loop == <<pc, msg, queue, current, todo, erase>>
vars == <<tip, pool, held, loop>>

Spendable == UNION {Inputs[t] : t \in Txs}
Parents(t) == {o[1] : o \in Inputs[t]}

TypeOK ==
    /\ tip \in Blocks
    /\ mapTx \subseteq Txs
    /\ mapNextTx \in [Spendable -> Txs \cup {None}]
    /\ orphans \subseteq Txs
    /\ byPrev \in [Txs -> SUBSET Txs]
    /\ pc \in {"idle", "orphans"}
    /\ msg \in Txs \cup {None}
    /\ queue \in Seq(mapTx)
    /\ current \in 0..Len(queue)
    /\ todo \subseteq orphans
    /\ erase \subseteq orphans \cup mapTx

Init ==
    /\ tip = Genesis
    /\ mapTx = {}
    /\ mapNextTx = [o \in Spendable |-> None]
    /\ orphans = {}
    /\ byPrev = [t \in Txs |-> {}]
    /\ pc = "idle"
    /\ msg = None
    /\ queue = <<>>
    /\ current = 0
    /\ todo = {}
    /\ erase = {}

-----------------------------------------------------------------------------
\* What the transaction index on disk says (see ChainState: DiskAgreesWithChain).
Located == [b \in Blocks |-> LocationOn(b)]
SpentIn == [b \in Blocks |-> SpentOn(b)]
ValidChains == {b \in Blocks : Anc[b] \cap Unsound = {} /\ ChainSpendsValid(b)}
LocatedIn(t) == Located[tip][t]
ContainsTx(t) == LocatedIn(t) # None

\* CTxMemPool::accept up to the conflict test; fCheckInputs is FALSE when a
\* reorganisation puts the transactions of a disconnected block back.
\* Mutant: no test for a conflict with the pool.
PassesFirstChecksConflicting(t, fCheckInputs) ==
    /\ t \notin NonStandard
    /\ ~IsCoinGenerated(t)
    /\ t \notin mapTx
    /\ fCheckInputs => ~ContainsTx(t)

PassesFirstChecks(t, fCheckInputs) ==
    /\ t \notin NonStandard
    /\ ~IsCoinGenerated(t)
    /\ t \notin mapTx
    /\ fCheckInputs => ~ContainsTx(t)
    /\ \A o \in Inputs[t] : mapNextTx[o] = None

\* FetchInputs: *pfMissingInputs.
MissingInputs(t) ==
    /\ PassesFirstChecks(t, TRUE)
    /\ \E p \in Parents(t) : ~ContainsTx(p) /\ p \notin mapTx

\* The rest of accept, for a pool of the transactions txs: every parent known,
\* output numbers in range, coinbase and coinstake inputs mature at the current
\* height, nothing spent on the chain, the fee paid.
Connectable(t, txs) ==
    /\ \A p \in Parents(t) : ContainsTx(p) \/ p \in txs
    /\ \A o \in Inputs[t] :
          /\ o \in OutPoints
          /\ ContainsTx(o[1]) => o \notin SpentIn[tip]
          /\ IsCoinGenerated(o[1]) => Height[tip] - Height[LocatedIn(o[1])] >= Maturity
    /\ Fee(t) >= MinFee

Acceptable(t) == PassesFirstChecks(t, TRUE) /\ Connectable(t, mapTx)

\* accept returns false and leaves *pfMissingInputs false; the rate limiter may
\* refuse a free transaction at any time.
Refusable(t) == ~MissingInputs(t) /\ (~Acceptable(t) \/ t \in Free)

\* addUnchecked, for the transactions S.
Added(next, S) ==
    [o \in Spendable |-> IF \E t \in S : o \in Inputs[t]
                         THEN CHOOSE t \in S : o \in Inputs[t]
                         ELSE next[o]]

\* CTxMemPool::remove, for the transactions S of the pool.
Removed(next, S) ==
    [o \in Spendable |-> IF \E t \in S : o \in Inputs[t] THEN None ELSE next[o]]

\* What remove with fRecursive takes out of a pool: S and everything in the pool
\* that spends an output of it, directly or not.
\* Mutant: fRecursive is left out.
NoDependents(txs, next, S) == S

SpendersInside(next, U) ==
    \A o \in Spendable : o[1] \in U /\ next[o] # None => next[o] \in U

WithDependents(txs, next, S) ==
    {t \in txs : \A U \in SUBSET txs : S \subseteq U /\ SpendersInside(next, U) => t \in U}

-----------------------------------------------------------------------------
AddToPool(t) ==
    /\ mapTx' = mapTx \cup {t}
    /\ mapNextTx' = Added(mapNextTx, {t})

\* sendrawtransaction, and the end of CWallet::CommitTransaction.
SubmitTx(t) ==
    /\ pc = "idle"
    /\ Acceptable(t)
    /\ AddToPool(t)
    /\ UNCHANGED <<tip, held, loop>>

\* The "tx" message, accepted.
TxMessage(t) ==
    /\ pc = "idle"
    /\ Acceptable(t)
    /\ AddToPool(t)
    /\ pc' = "orphans"
    /\ msg' = t
    /\ queue' = <<t>>
    /\ current' = 1
    /\ todo' = byPrev[t]
    /\ erase' = {t}
    /\ UNCHANGED <<tip, held>>

\* EraseOrphanTx, for the transactions S, after which kept are left.
OrphansBecome(kept, index) ==
    /\ orphans' = kept
    /\ byPrev' = [p \in Txs |-> index[p] \cap kept]

\* LimitOrphanTxSize: random orphans go until at most MaxOrphans are left.
\* Mutant: the last one over the limit stays.
LimitOneOver(S, index) ==
    \E kept \in SUBSET S :
        /\ Cardinality(kept) = Min({Cardinality(S), MaxOrphans + 1})
        /\ OrphansBecome(kept, index)

LimitOrphanTxSize(S, index) ==
    \E kept \in SUBSET S :
        /\ Cardinality(kept) = Min({Cardinality(S), MaxOrphans})
        /\ OrphansBecome(kept, index)

\* The "tx" message, inputs missing: AddOrphanTx and LimitOrphanTxSize.
TxMessageOrphan(t) ==
    /\ pc = "idle"
    /\ MissingInputs(t)
    /\ t \notin orphans \cup Large
    /\ LimitOrphanTxSize(orphans \cup {t},
                         [p \in Txs |-> byPrev[p] \cup (IF p \in Parents(t) THEN {t} ELSE {})])
    /\ UNCHANGED <<tip, pool, loop>>

\* An orphan of the transaction at the current position is accepted.
AcceptOrphan(o) ==
    /\ pc = "orphans"
    /\ o \in todo
    /\ Acceptable(o)
    /\ AddToPool(o)
    /\ queue' = Append(queue, o)
    /\ todo' = todo \ {o}
    /\ erase' = erase \cup {o}
    /\ UNCHANGED <<tip, held, pc, msg, current>>

\* Another input is missing: the orphan stays; or it is invalid: it goes.
PassOverOrphan(o) ==
    /\ pc = "orphans"
    /\ o \in todo
    /\ \/ MissingInputs(o) /\ UNCHANGED erase
       \/ Refusable(o) /\ erase' = erase \cup {o}
    /\ todo' = todo \ {o}
    /\ UNCHANGED <<tip, pool, held, pc, msg, queue, current>>

\* Mutant: the position in the queue is not advanced.
NextInQueueStays ==
    /\ pc = "orphans"
    /\ todo = {}
    /\ current < Len(queue)
    /\ todo' = byPrev[queue[current]]
    /\ UNCHANGED <<tip, pool, held, pc, msg, queue, current, erase>>

NextInQueue ==
    /\ pc = "orphans"
    /\ todo = {}
    /\ current < Len(queue)
    /\ current' = current + 1
    /\ todo' = byPrev[queue[current + 1]]
    /\ UNCHANGED <<tip, pool, held, pc, msg, queue, erase>>

\* Mutant: the orphans of the orphans accepted are not looked for.
EraseOrphansAtOnce ==
    /\ pc = "orphans"
    /\ todo = {}
    /\ OrphansBecome(orphans \ erase, byPrev)
    /\ pc' = "idle"
    /\ msg' = None
    /\ queue' = <<>>
    /\ current' = 0
    /\ erase' = {}
    /\ UNCHANGED <<tip, pool, todo>>

\* The end of the message: EraseOrphanTx for vEraseQueue.
EraseOrphans ==
    /\ pc = "orphans"
    /\ todo = {}
    /\ current = Len(queue)
    /\ OrphansBecome(orphans \ erase, byPrev)
    /\ pc' = "idle"
    /\ msg' = None
    /\ queue' = <<>>
    /\ current' = 0
    /\ erase' = {}
    /\ UNCHANGED <<tip, pool, todo>>

-----------------------------------------------------------------------------
\* A block that ends a valid chain of more trust than the best one.
MayBecomeBest(b) ==
    /\ ChainTrust[b] > ChainTrust[tip]
    /\ b \in ValidChains

\* Mutant: the pool keeps the block's transactions.
ConnectTipKeepsPool(b) ==
    /\ pc = "idle"
    /\ b # Genesis
    /\ Prev[b] = tip
    /\ MayBecomeBest(b)
    /\ tip' = b
    /\ UNCHANGED <<pool, held, loop>>

\* SetBestChainInner: the block's transactions leave the pool; what conflicts
\* with them stays.
ConnectTip(b) ==
    /\ pc = "idle"
    /\ b # Genesis
    /\ Prev[b] = tip
    /\ MayBecomeBest(b)
    /\ tip' = b
    /\ mapTx' = mapTx \ TxsOf(b)
    /\ mapNextTx' = Removed(mapNextTx, mapTx \cap TxsOf(b))
    /\ UNCHANGED <<held, loop>>

\* The end of Reorganize, which goes as far as pindexIntermediate, the first block
\* of the branch with more trust than the best chain; the blocks above it are
\* attached by SetBestChainInner (ConnectTip).  vResurrect: accept without input checks for the
\* transactions of the disconnected blocks.  vDelete: those of the connected
\* blocks leave, and what conflicts with them leaves with its dependents.  The
\* transactions of one chain do not conflict with each other, so the order
\* within each list makes no difference.
Reorganize(b) ==
    LET connected    == Anc[b] \ Anc[tip]
        disconnected == Anc[tip] \ Anc[b]
        vResurrect   == {t \in UNION {TxsOf(c) : c \in disconnected} : PassesFirstChecks(t, FALSE)}
        vDelete      == UNION {TxsOf(c) : c \in connected}
        txs          == (mapTx \cup vResurrect) \ vDelete
        next         == Removed(Added(mapNextTx, vResurrect), (mapTx \cup vResurrect) \cap vDelete)
        conflicting  == {next[o] : o \in UNION {Inputs[t] : t \in vDelete}} \ {None}
        gone         == WithDependents(txs, next, conflicting)
    IN  /\ pc = "idle"
        /\ tip \notin Anc[b]
        /\ MayBecomeBest(b)
        /\ ChainTrust[Prev[b]] <= ChainTrust[tip]
        /\ tip' = b
        /\ mapTx' = txs \ gone
        /\ mapNextTx' = Removed(next, gone)
        /\ UNCHANGED <<held, loop>>

\* The transactions S, accepted one after the other into an empty pool.
AcceptableTogether(S) ==
    \A t \in S :
        /\ t \notin NonStandard
        /\ ~IsCoinGenerated(t)
        /\ ~ContainsTx(t)
        /\ Connectable(t, S)
        /\ \A u \in S \ {t} : Inputs[t] \cap Inputs[u] = {}

\* The pool, the orphans and the queue are memory only.  The wallet offers its
\* transactions again in the order of their hashes; one in supported brings the
\* transactions it depends on along (vtxPrev), another may come before its parent
\* and be refused.
Offered(offered, supported) ==
    \E S \in SUBSET offered :
        /\ AcceptableTogether(S)
        /\ \A t \in offered \ S : \/ ~AcceptableTogether(S \cup {t})
                                  \/ t \notin supported /\ Parents(t) \cap S # {}
        /\ mapTx' = S
        /\ mapNextTx' = Added([o \in Spendable |-> None], S)

Restart(offered, supported) ==
    /\ Offered(offered, supported)
    /\ orphans' = {}
    /\ byPrev' = [t \in Txs |-> {}]
    /\ pc' = "idle"
    /\ msg' = None
    /\ queue' = <<>>
    /\ current' = 0
    /\ todo' = {}
    /\ erase' = {}
    /\ UNCHANGED tip

LoopStep ==
    \/ \E o \in todo : AcceptOrphan(o) \/ PassOverOrphan(o)
    \/ NextInQueue
    \/ EraseOrphans

Next ==
    \/ \E t \in Txs : SubmitTx(t) \/ TxMessage(t) \/ TxMessageOrphan(t)
    \/ LoopStep
    \/ \E b \in Blocks : ConnectTip(b) \/ Reorganize(b)
    \/ \E offered, supported \in SUBSET Txs : Restart(offered, supported)

\* The message thread keeps cs_main until the message is handled.
Spec == Init /\ [][Next]_vars /\ WF_vars(LoopStep)

-----------------------------------------------------------------------------
\* mapNextTx is exactly what the transactions of mapTx spend, so that the pool
\* holds no double spend and the conflict test of accept misses nothing,
\* whatever was accepted, mined, resurrected or thrown out.
PoolMapsAgree ==
    \A o \in Spendable : \A t \in Txs : mapNextTx[o] = t <=> t \in mapTx /\ o \in Inputs[t]

\* "AcceptToMemoryPool already refuses previously-known transaction ids
\* entirely" (main.cpp:1527-1528): what is in the pool is not on the chain, also
\* after a reorganisation whose two branches share transactions.
PoolAndChainDisjoint == \A t \in mapTx : ~ContainsTx(t)

\* Between messages the orphans are within their limit, and the index by
\* previous transaction leads to each of them from every parent and to nothing
\* else, so that no orphan is missed when a parent arrives.
OrphanIndexAgrees ==
    /\ Cardinality(orphans) <= MaxOrphans
    /\ \A p \in Txs : byPrev[p] = {o \in orphans : p \in Parents(o)}

\* A transaction thrown out of the pool takes its dependents with it, unless it
\* has become part of the chain.
DependentsFollow ==
    [][\A t \in mapTx' : Parents(t) \cap (mapTx \ mapTx') \subseteq
                            {p \in Txs : ContainsTx(p)'}]_vars

\* When a message has been handled, an orphan that waited for one of the
\* transactions it brought into the pool is still kept only if another of its
\* parents is missing, however long the chain of orphans.
OrphansRetried ==
    [][pc = "orphans" /\ pc' = "idle" /\ mapTx' = mapTx =>
          \A o \in orphans' : (\E i \in 1..Len(queue) : queue[i] \in Parents(o)) =>
              \E p \in Parents(o) : ~ContainsTx(p) /\ p \notin mapTx]_vars

\* The handling of a transaction comes to an end.
MessageHandled == pc = "orphans" ~> pc = "idle"
=============================================================================
