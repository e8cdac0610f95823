---------------------------- MODULE WalletProofs ----------------------------
(***************************************************************************)
(* Proofs about MemPool and Wallet, for any transactions, any tree of      *)
(* blocks and any limit: the pool's maps agree with each other and with    *)
(* the chain, the orphan transactions are found by their parents and       *)
(* retried, and the wallet agrees with the chain it was told of.           *)
(***************************************************************************)
EXTENDS Wallet, LedgerProofs, FiniteSetTheorems

\* The loop variables of the "tx" message are empty between messages.
MessageInv ==
    /\ pc = "idle" => queue = <<>> /\ current = 0 /\ todo = {} /\ erase = {}
    /\ pc = "orphans" => current # 0 /\ msg \in mapTx

\* The best chain is valid, and no coinbase or coinstake is in the pool.
ChainInv ==
    /\ ChainSpendsValid(tip)
    /\ \A t \in mapTx : ~IsCoinGenerated(t)

\* An orphan whose parent the message has brought is visited now or later, or
\* misses another parent.
ParentMissing(o) == \E p \in Parents(o) : ~ContainsTx(p) /\ p \notin mapTx
OnQueue(o, from) == \E i \in from..Len(queue) : queue[i] \in Parents(o)
RetryInv ==
    \A o \in orphans \ erase :
        OnQueue(o, 1) => o \in todo \/ OnQueue(o, current + 1) \/ ParentMissing(o)

PoolInv ==
    /\ TypeOK
    /\ MessageInv
    /\ ChainInv
    /\ PoolMapsAgree
    /\ PoolAndChainDisjoint
    /\ OrphanIndexAgrees

\* A transaction that pays the wallet or spends from it.
Involves(t) == PaysMe(t) \/ Inputs[t] \cap Mine # {}

-----------------------------------------------------------------------------
LEMMA InputFacts ==
    /\ None \notin Txs
    /\ \A t \in Txs : Inputs[t] \subseteq Spendable /\ Parents(t) \subseteq Txs
    /\ \A o \in Spendable : o[1] \in Txs
BY TxAssumption DEF Spendable, Parents

\* What the pool's two maps say of each other, for a pool of the transactions txs.
Agrees(next, txs) == \A o \in Spendable : \A t \in Txs : next[o] = t <=> t \in txs /\ o \in Inputs[t]

\* addUnchecked keeps the maps in agreement if what it adds conflicts neither with
\* the pool nor with each other.
LEMMA AddedAgrees ==
    ASSUME NEW txs \in SUBSET Txs, NEW S \in SUBSET Txs,
           NEW next \in [Spendable -> Txs \cup {None}], Agrees(next, txs),
           \A t \in S : \A o \in Inputs[t] : next[o] = None,
           \A t, u \in S : t # u => Inputs[t] \cap Inputs[u] = {}
    PROVE  Added(next, S) \in [Spendable -> Txs \cup {None}] /\ Agrees(Added(next, S), txs \cup S)
<1>1. ASSUME NEW o \in Spendable, NEW u \in S, o \in Inputs[u] PROVE Added(next, S)[o] = u
  <2>1. (CHOOSE t \in S : o \in Inputs[t]) = u
    BY <1>1
  <2> QED BY <1>1, <2>1 DEF Added
<1>2. ASSUME NEW o \in Spendable, \A u \in S : o \notin Inputs[u] PROVE Added(next, S)[o] = next[o]
  BY <1>2 DEF Added
<1>3. ASSUME NEW o \in Spendable PROVE Added(next, S)[o] \in Txs \cup {None}
  BY <1>1, <1>2
<1>4. Added(next, S) \in [Spendable -> Txs \cup {None}]
  BY <1>3 DEF Added
<1>5. ASSUME NEW o \in Spendable, NEW t \in Txs
      PROVE  Added(next, S)[o] = t <=> t \in txs \cup S /\ o \in Inputs[t]
  <2>1. CASE \E u \in S : o \in Inputs[u]
    <3>1. PICK u \in S : o \in Inputs[u]
      BY <2>1
    <3>2. t \in txs => o \notin Inputs[t]
      BY <1>5, <3>1, InputFacts DEF Agrees
    <3> QED BY <1>1, <3>1, <3>2
  <2>2. CASE \A u \in S : o \notin Inputs[u]
    BY <1>2, <2>2 DEF Agrees
  <2> QED BY <2>1, <2>2
<1> QED BY <1>4, <1>5 DEF Agrees

\* CTxMemPool::remove keeps them in agreement.
LEMMA RemovedAgrees ==
    ASSUME NEW txs \in SUBSET Txs, NEW S \in SUBSET txs,
           NEW next \in [Spendable -> Txs \cup {None}], Agrees(next, txs)
    PROVE  Removed(next, S) \in [Spendable -> Txs \cup {None}] /\ Agrees(Removed(next, S), txs \ S)
<1>1. Removed(next, S) \in [Spendable -> Txs \cup {None}]
  BY DEF Removed
<1>2. ASSUME NEW o \in Spendable, NEW t \in Txs
      PROVE  Removed(next, S)[o] = t <=> t \in txs \ S /\ o \in Inputs[t]
  BY <1>2, InputFacts DEF Removed, Agrees
<1> QED BY <1>1, <1>2 DEF Agrees

\* What leaves the pool with its dependents leaves no spender of it behind.
LEMMA DependentsGo ==
    ASSUME NEW txs, NEW next, NEW S \in SUBSET txs,
           NEW p \in WithDependents(txs, next, S),
           NEW o \in Spendable, o[1] = p, next[o] \in txs, next[o] # None
    PROVE  next[o] \in WithDependents(txs, next, S)
BY DEF WithDependents, SpendersInside

-----------------------------------------------------------------------------
\* ContainsTx, read off the blocks of the chain.
LEMMA ContainsIff ==
    ASSUME TypeOK, NEW t \in Txs
    PROVE  ContainsTx(t) <=> \E c \in Anc[tip] : t \in TxsOf(c)
BY LocatedIff DEF ContainsTx, LocatedIn, Located, TypeOK

\* The step that adds an acceptable transaction to the pool.
LEMMA AddToPoolKeeps ==
    ASSUME PoolInv, NEW t \in Txs, Acceptable(t), AddToPool(t), tip' = tip
    PROVE  /\ mapTx' \subseteq Txs
           /\ mapNextTx' \in [Spendable -> Txs \cup {None}]
           /\ ChainInv'
           /\ PoolMapsAgree'
           /\ PoolAndChainDisjoint'
<1>1. /\ t \notin mapTx /\ ~ContainsTx(t) /\ ~IsCoinGenerated(t)
      /\ \A o \in Inputs[t] : mapNextTx[o] = None
  BY DEF Acceptable, PassesFirstChecks
<1>2. Agrees(mapNextTx, mapTx) /\ mapTx \in SUBSET Txs /\ mapNextTx \in [Spendable -> Txs \cup {None}]
  BY DEF PoolInv, PoolMapsAgree, Agrees, TypeOK
<1>3. mapNextTx' \in [Spendable -> Txs \cup {None}] /\ Agrees(mapNextTx', mapTx')
  BY <1>1, <1>2, AddedAgrees DEF AddToPool
<1>4. \A u : ContainsTx(u)' <=> ContainsTx(u)
  BY DEF ContainsTx, LocatedIn
<1>5. ChainInv' /\ PoolAndChainDisjoint'
  BY <1>1, <1>4 DEF AddToPool, PoolInv, ChainInv, PoolAndChainDisjoint
<1> QED BY <1>2, <1>3, <1>5 DEF AddToPool, PoolMapsAgree, Agrees

\* The maps after Reorganize, and the chain they are disjoint from.
LEMMA ReorganizeKeeps ==
    ASSUME PoolInv, NEW b \in Blocks, Reorganize(b)
    PROVE  /\ tip' \in Blocks
           /\ mapTx' \subseteq Txs
           /\ mapNextTx' \in [Spendable -> Txs \cup {None}]
           /\ ChainInv'
           /\ PoolMapsAgree'
           /\ PoolAndChainDisjoint'
           /\ \A t \in mapTx' : Parents(t) \cap (mapTx \ mapTx') \subseteq {p \in Txs : ContainsTx(p)'}
<1> DEFINE connected    == Anc[b] \ Anc[tip]
           disconnected == Anc[tip] \ Anc[b]
           vResurrect   == {t \in UNION {TxsOf(c) : c \in disconnected} : PassesFirstChecks(t, FALSE)}
           vDelete      == UNION {TxsOf(c) : c \in connected}
           txs          == (mapTx \cup vResurrect) \ vDelete
           next         == Removed(Added(mapNextTx, vResurrect), (mapTx \cup vResurrect) \cap vDelete)
           conflicting  == {next[o] : o \in UNION {Inputs[t] : t \in vDelete}} \ {None}
           gone         == WithDependents(txs, next, conflicting)
<1>1. /\ tip' = b /\ mapTx' = txs \ gone /\ mapNextTx' = Removed(next, gone)
      /\ b \in ValidChains
  BY DEF Reorganize, MayBecomeBest
<1>2. ChainSpendsValid(b) /\ ChainSpendsValid(tip) /\ tip \in Blocks
  BY <1>1 DEF ValidChains, PoolInv, ChainInv, TypeOK
<1>3. mapTx \in SUBSET Txs /\ mapNextTx \in [Spendable -> Txs \cup {None}] /\ Agrees(mapNextTx, mapTx)
  BY DEF PoolInv, PoolMapsAgree, Agrees, TypeOK
<1>4. Anc[b] \subseteq Blocks /\ Anc[tip] \subseteq Blocks
  BY <1>2, AncBasic
<1>5. vResurrect \in SUBSET Txs /\ vDelete \in SUBSET Txs
  <2>1. ASSUME NEW S \in SUBSET Blocks PROVE UNION {TxsOf(c) : c \in S} \subseteq Txs
    BY TxFacts
  <2>2. connected \in SUBSET Blocks /\ disconnected \in SUBSET Blocks
    BY <1>4
  <2> QED BY <2>1, <2>2
<1>6. ASSUME NEW t \in vResurrect
      PROVE  /\ ~IsCoinGenerated(t)
             /\ \A o \in Inputs[t] : mapNextTx[o] = None
             /\ \E c \in disconnected : t \in TxsOf(c)
  BY DEF PassesFirstChecks
<1>7. \A t, u \in vResurrect : t # u => Inputs[t] \cap Inputs[u] = {}
  <2> SUFFICES ASSUME NEW t \in vResurrect, NEW u \in vResurrect, NEW o, o \in Inputs[t], o \in Inputs[u]
               PROVE  t = u
    OBVIOUS
  <2>1. PICK c \in Anc[tip], d \in Anc[tip] : t \in TxsOf(c) /\ u \in TxsOf(d)
    BY <1>6
  <2> QED BY <1>2, <2>1, OneSpender
<1>8. /\ Added(mapNextTx, vResurrect) \in [Spendable -> Txs \cup {None}]
      /\ Agrees(Added(mapNextTx, vResurrect), mapTx \cup vResurrect)
  <2> HIDE DEF vResurrect
  <2> QED BY <1>3, <1>5, <1>6, <1>7, AddedAgrees
<1>9. next \in [Spendable -> Txs \cup {None}] /\ Agrees(next, txs) /\ txs \in SUBSET Txs
  <2> DEFINE all == mapTx \cup vResurrect
  <2>1. all \in SUBSET Txs /\ all \cap vDelete \in SUBSET all /\ all \ (all \cap vDelete) = txs
    BY <1>3, <1>5
  <2> HIDE DEF vResurrect, vDelete
  <2> QED BY <1>8, <2>1, RemovedAgrees
<1>10. gone \in SUBSET txs
  BY DEF WithDependents
<1>11. mapNextTx' \in [Spendable -> Txs \cup {None}] /\ Agrees(mapNextTx', mapTx')
  <2> HIDE DEF gone, txs, next
  <2> QED BY <1>1, <1>9, <1>10, RemovedAgrees
<1>12. \A t \in Txs : ContainsTx(t)' <=> \E c \in Anc[b] : t \in TxsOf(c)
  BY <1>1, LocatedIff DEF ContainsTx, LocatedIn, Located
<1>13. \A t \in Txs : ContainsTx(t) <=> \E c \in Anc[tip] : t \in TxsOf(c)
  BY ContainsIff DEF PoolInv
<1>14. ASSUME NEW t \in txs, NEW c \in Anc[b], t \in TxsOf(c) PROVE FALSE
  <2>1. c \in Anc[tip]
    BY <1>14
  <2>2. t \notin mapTx
    BY <1>3, <1>13, <1>14, <2>1 DEF PoolInv, PoolAndChainDisjoint
  <2>3. PICK d \in disconnected : t \in TxsOf(d)
    BY <2>2, <1>6
  <2> QED BY <1>2, <1>14, <2>1, <2>3, OneLocation
<1>15. PoolAndChainDisjoint'
  BY <1>1, <1>9, <1>12, <1>14 DEF PoolAndChainDisjoint
<1>16. ChainInv'
  BY <1>1, <1>2, <1>6 DEF ChainInv, PoolInv
<1>17. ASSUME NEW t \in mapTx', NEW p \in Parents(t), p \in mapTx \ mapTx', ~ContainsTx(p)' PROVE FALSE
  <2>1. p \in txs
    BY <1>3, <1>12, <1>17
  <2>2. p \in gone
    BY <1>1, <1>17, <2>1
  <2>3. PICK o \in Inputs[t] : o[1] = p
    BY <1>17 DEF Parents
  <2>4. t \in txs /\ t \notin gone /\ t \in Txs
    BY <1>1, <1>9, <1>17
  <2>5. o \in Spendable /\ next[o] = t
    BY <1>9, <2>3, <2>4, InputFacts DEF Agrees
  <2>6. conflicting \in SUBSET txs
    <3> HIDE DEF txs, next
    <3> QED BY <1>5, <1>9, InputFacts DEF Agrees
  <2>7. t # None
    BY <2>4, InputFacts
  <2> HIDE DEF gone, txs, next, conflicting
  <2>8. next[o] \in gone
    BY <2>2, <2>3, <2>4, <2>5, <2>6, <2>7, DependentsGo DEF gone
  <2> QED BY <2>4, <2>5, <2>8
<1> QED BY <1>1, <1>3, <1>9, <1>11, <1>15, <1>16, <1>17 DEF PoolMapsAgree, Agrees

LEMMA ConnectTipKeeps ==
    ASSUME PoolInv, NEW b \in Blocks, ConnectTip(b)
    PROVE  /\ tip' \in Blocks
           /\ mapTx' \subseteq Txs
           /\ mapNextTx' \in [Spendable -> Txs \cup {None}]
           /\ ChainInv'
           /\ PoolMapsAgree'
           /\ PoolAndChainDisjoint'
           /\ \A p \in mapTx \ mapTx' : ContainsTx(p)'
<1>1. /\ b # Genesis /\ Prev[b] = tip /\ tip' = b /\ b \in ValidChains
      /\ mapTx' = mapTx \ TxsOf(b)
      /\ mapNextTx' = Removed(mapNextTx, mapTx \cap TxsOf(b))
  BY DEF ConnectTip, MayBecomeBest
<1>2. mapTx \in SUBSET Txs /\ mapNextTx \in [Spendable -> Txs \cup {None}] /\ Agrees(mapNextTx, mapTx)
  BY DEF PoolInv, PoolMapsAgree, Agrees, TypeOK
<1>3. mapNextTx' \in [Spendable -> Txs \cup {None}] /\ Agrees(mapNextTx', mapTx')
  <2>1. mapTx \cap TxsOf(b) \in SUBSET mapTx /\ mapTx' = mapTx \ (mapTx \cap TxsOf(b))
    BY <1>1
  <2> QED BY <1>1, <1>2, <2>1, RemovedAgrees
<1>4. \A t \in Txs : ContainsTx(t)' <=> \E c \in Anc[b] : t \in TxsOf(c)
  BY <1>1, LocatedIff DEF ContainsTx, LocatedIn, Located
<1>5. \A t \in Txs : ContainsTx(t) <=> \E c \in Anc[tip] : t \in TxsOf(c)
  BY ContainsIff DEF PoolInv
<1>6. Anc[b] = {b} \cup Anc[tip]
  BY <1>1, AncStep
<1>7. PoolAndChainDisjoint' /\ \A p \in mapTx \ mapTx' : ContainsTx(p)'
  BY <1>1, <1>2, <1>4, <1>5, <1>6 DEF PoolInv, PoolAndChainDisjoint
<1>8. ChainInv'
  BY <1>1 DEF ChainInv, PoolInv, ValidChains
<1> QED BY <1>1, <1>2, <1>3, <1>7, <1>8 DEF PoolMapsAgree, Agrees

LEMMA OfferedKeeps ==
    ASSUME PoolInv, NEW offered \in SUBSET Txs, NEW supported, Offered(offered, supported), tip' = tip
    PROVE  /\ mapTx' \subseteq Txs
           /\ mapNextTx' \in [Spendable -> Txs \cup {None}]
           /\ ChainInv'
           /\ PoolMapsAgree'
           /\ PoolAndChainDisjoint'
           /\ \A t \in mapTx' : \A p \in Parents(t) : ContainsTx(p)' \/ p \in mapTx'
<1> DEFINE empty == [o \in Spendable |-> None]
<1>1. PICK S \in SUBSET offered : AcceptableTogether(S) /\ mapTx' = S /\ mapNextTx' = Added(empty, S)
  BY DEF Offered
<1>2. S \in SUBSET Txs /\ \A t, u \in S : t # u => Inputs[t] \cap Inputs[u] = {}
  BY <1>1 DEF AcceptableTogether
<1>3. empty \in [Spendable -> Txs \cup {None}] /\ Agrees(empty, {})
  BY InputFacts DEF Agrees
<1>4. \A t \in S : \A o \in Inputs[t] : empty[o] = None
  BY <1>2, InputFacts
<1> HIDE DEF empty
<1>5. mapNextTx' \in [Spendable -> Txs \cup {None}] /\ Agrees(mapNextTx', {} \cup S)
  BY <1>1, <1>2, <1>3, <1>4, AddedAgrees
<1>6. \A u : ContainsTx(u)' <=> ContainsTx(u)
  BY DEF ContainsTx, LocatedIn
<1>7. ChainInv' /\ PoolAndChainDisjoint' /\ \A t \in mapTx' : \A p \in Parents(t) : ContainsTx(p)' \/ p \in mapTx'
  BY <1>1, <1>6 DEF AcceptableTogether, Connectable, PoolInv, ChainInv, PoolAndChainDisjoint
<1> QED BY <1>1, <1>2, <1>5, <1>7 DEF PoolMapsAgree, Agrees

-----------------------------------------------------------------------------
\* EraseOrphanTx keeps the index by previous transaction.
LEMMA OrphansBecomeKeeps ==
    ASSUME NEW S \in SUBSET Txs, NEW kept \in SUBSET S, NEW index,
           \A p \in Txs : index[p] = {o \in S : p \in Parents(o)}, OrphansBecome(kept, index)
    PROVE  /\ orphans' = kept
           /\ byPrev' \in [Txs -> SUBSET Txs]
           /\ \A p \in Txs : byPrev'[p] = {o \in orphans' : p \in Parents(o)}
BY DEF OrphansBecome

\* LimitOrphanTxSize leaves at most MaxOrphans.
LEMMA LimitKeeps ==
    ASSUME NEW S \in SUBSET Txs, NEW index,
           \A p \in Txs : index[p] = {o \in S : p \in Parents(o)}, LimitOrphanTxSize(S, index)
    PROVE  /\ orphans' \subseteq Txs
           /\ byPrev' \in [Txs -> SUBSET Txs]
           /\ OrphanIndexAgrees'
<1>1. PICK kept \in SUBSET S : /\ Cardinality(kept) = Min({Cardinality(S), MaxOrphans})
                               /\ OrphansBecome(kept, index)
  BY DEF LimitOrphanTxSize
<1>2. Cardinality(S) \in Nat /\ MaxOrphans \in Nat
  <2>1. IsFiniteSet(S)
    BY PoolAssumption, FS_Subset
  <2> QED BY <2>1, PoolAssumption, FS_CardinalityType
<1>3. Min({Cardinality(S), MaxOrphans}) <= MaxOrphans
  <2> DEFINE T == {Cardinality(S), MaxOrphans}
  <2>1. \E x \in T : \A y \in T : x <= y
    BY <1>2
  <2>2. Min(T) \in T /\ \A y \in T : Min(T) <= y
    BY <2>1 DEF Min
  <2> QED BY <2>2
<1>4. /\ orphans' = kept
      /\ byPrev' \in [Txs -> SUBSET Txs]
      /\ \A p \in Txs : byPrev'[p] = {o \in orphans' : p \in Parents(o)}
  BY <1>1, OrphansBecomeKeeps
<1> QED BY <1>1, <1>3, <1>4 DEF OrphanIndexAgrees

LEMMA SubmitTxKeeps ==
    ASSUME PoolInv, NEW t \in Txs, SubmitTx(t)
    PROVE  PoolInv'
<1>1. /\ pc = "idle" /\ Acceptable(t) /\ AddToPool(t)
      /\ UNCHANGED <<tip, orphans, byPrev, pc, msg, queue, current, todo, erase>>
  BY DEF SubmitTx, held, loop
<1>2. queue = <<>> /\ current = 0 /\ todo = {} /\ erase = {}
  BY <1>1 DEF PoolInv, MessageInv
<1>3. TypeOK'
  BY <1>1, <1>2, AddToPoolKeeps DEF PoolInv, TypeOK
<1> QED BY <1>1, <1>2, <1>3, AddToPoolKeeps DEF PoolInv, MessageInv, OrphanIndexAgrees

LEMMA TxMessageKeeps ==
    ASSUME PoolInv, NEW t \in Txs, TxMessage(t)
    PROVE  PoolInv'
<1>1. /\ pc = "idle" /\ Acceptable(t) /\ AddToPool(t)
      /\ pc' = "orphans" /\ msg' = t /\ queue' = <<t>> /\ current' = 1
      /\ todo' = byPrev[t] /\ erase' = {t}
      /\ UNCHANGED <<tip, orphans, byPrev>>
  BY DEF TxMessage, held
<1>2. t \in mapTx'
  BY <1>1 DEF AddToPool
<1>3. <<t>> \in Seq(mapTx') /\ 1 \in 0..Len(<<t>>)
  BY <1>2
<1>4. byPrev[t] \subseteq orphans
  BY DEF PoolInv, OrphanIndexAgrees
<1>5. TypeOK'
  BY <1>1, <1>2, <1>3, <1>4, AddToPoolKeeps DEF PoolInv, TypeOK
<1> QED BY <1>1, <1>2, <1>5, AddToPoolKeeps DEF PoolInv, MessageInv, OrphanIndexAgrees

LEMMA TxMessageOrphanKeeps ==
    ASSUME PoolInv, NEW t \in Txs, TxMessageOrphan(t)
    PROVE  PoolInv'
<1> DEFINE index == [p \in Txs |-> byPrev[p] \cup (IF p \in Parents(t) THEN {t} ELSE {})]
<1>1. /\ pc = "idle" /\ LimitOrphanTxSize(orphans \cup {t}, index)
      /\ UNCHANGED <<tip, mapTx, mapNextTx, pc, msg, queue, current, todo, erase>>
  BY DEF TxMessageOrphan, pool, loop
<1>2. queue = <<>> /\ current = 0 /\ todo = {} /\ erase = {}
  BY <1>1 DEF PoolInv, MessageInv
<1>3. orphans \cup {t} \in SUBSET Txs /\ \A p \in Txs : index[p] = {o \in orphans \cup {t} : p \in Parents(o)}
  BY DEF PoolInv, TypeOK, OrphanIndexAgrees
<1> HIDE DEF index
<1>4. orphans' \subseteq Txs /\ byPrev' \in [Txs -> SUBSET Txs] /\ OrphanIndexAgrees'
  BY <1>1, <1>3, LimitKeeps
<1>5. TypeOK'
  BY <1>1, <1>2, <1>4 DEF PoolInv, TypeOK
<1> QED BY <1>1, <1>2, <1>4, <1>5
        DEF PoolInv, MessageInv, ChainInv, PoolMapsAgree, PoolAndChainDisjoint, ContainsTx, LocatedIn

LEMMA AcceptOrphanKeeps ==
    ASSUME PoolInv, NEW o, AcceptOrphan(o)
    PROVE  PoolInv'
<1>1. /\ pc = "orphans" /\ o \in todo /\ Acceptable(o) /\ AddToPool(o)
      /\ queue' = Append(queue, o) /\ todo' = todo \ {o} /\ erase' = erase \cup {o}
      /\ UNCHANGED <<tip, orphans, byPrev, pc, msg, current>>
  BY DEF AcceptOrphan, held
<1>2. o \in Txs /\ queue \in Seq(mapTx) /\ current \in 0..Len(queue)
  BY <1>1 DEF PoolInv, TypeOK
<1>3. mapTx' = mapTx \cup {o}
  BY <1>1 DEF AddToPool
<1>4. queue' \in Seq(mapTx') /\ current' \in 0..Len(queue')
  BY <1>1, <1>2, <1>3
<1>5. TypeOK'
  BY <1>1, <1>2, <1>3, <1>4, AddToPoolKeeps DEF PoolInv, TypeOK
<1> QED BY <1>1, <1>2, <1>3, <1>5, AddToPoolKeeps DEF PoolInv, MessageInv, OrphanIndexAgrees

\* The other steps of the loop leave the pool and the chain alone.
LEMMA LoopStepKeeps ==
    ASSUME PoolInv,
           \/ \E o : PassOverOrphan(o)
           \/ NextInQueue
           \/ EraseOrphans
    PROVE  PoolInv'
<1> USE DEF pool, held
<1>1. pc = "orphans" /\ UNCHANGED <<tip, mapTx, mapNextTx>>
  BY DEF PassOverOrphan, NextInQueue, EraseOrphans
<1>2. ChainInv' /\ PoolMapsAgree' /\ PoolAndChainDisjoint'
  BY <1>1 DEF PoolInv, ChainInv, PoolMapsAgree, PoolAndChainDisjoint, ContainsTx, LocatedIn
<1>3. TypeOK /\ MessageInv /\ OrphanIndexAgrees
  BY DEF PoolInv
<1>4. CASE \E o : PassOverOrphan(o)
  <2>1. TypeOK'
    BY <1>1, <1>3, <1>4 DEF PassOverOrphan, TypeOK
  <2> QED BY <1>1, <1>2, <1>3, <1>4, <2>1 DEF PassOverOrphan, PoolInv, MessageInv, OrphanIndexAgrees
<1>5. CASE NextInQueue
  <2>1. queue \in Seq(mapTx) /\ current \in Nat /\ current < Len(queue) /\ mapTx \subseteq Txs
    BY <1>3, <1>5 DEF NextInQueue, TypeOK
  <2>2. queue[current + 1] \in Txs /\ current' \in 0..Len(queue') /\ current' # 0
    BY <1>5, <2>1 DEF NextInQueue
  <2>3. todo' \subseteq orphans
    BY <1>3, <1>5, <2>2 DEF NextInQueue, OrphanIndexAgrees
  <2>4. TypeOK'
    BY <1>1, <1>3, <1>5, <2>2, <2>3 DEF NextInQueue, TypeOK
  <2> QED BY <1>1, <1>2, <1>3, <1>5, <2>2, <2>4 DEF NextInQueue, PoolInv, MessageInv, OrphanIndexAgrees
<1>6. CASE EraseOrphans
  <2>1. /\ orphans' = orphans \ erase
        /\ byPrev' \in [Txs -> SUBSET Txs]
        /\ \A p \in Txs : byPrev'[p] = {o \in orphans' : p \in Parents(o)}
    BY <1>3, <1>6, OrphansBecomeKeeps DEF EraseOrphans, TypeOK, OrphanIndexAgrees
  <2>2. Cardinality(orphans') <= MaxOrphans
    <3>1. IsFiniteSet(orphans)
      BY <1>3, PoolAssumption, FS_Subset DEF TypeOK
    <3>2. orphans' \in SUBSET orphans
      BY <2>1
    <3>3. IsFiniteSet(orphans') /\ Cardinality(orphans') <= Cardinality(orphans)
      BY <3>1, <3>2, FS_Subset
    <3> HIDE DEF EraseOrphans
    <3>4. Cardinality(orphans) \in Nat /\ Cardinality(orphans') \in Nat
      BY <3>1, <3>3, FS_CardinalityType
    <3> QED BY <1>3, <3>3, <3>4, PoolAssumption DEF OrphanIndexAgrees
  <2>3. TypeOK'
    BY <1>1, <1>3, <1>6, <2>1 DEF EraseOrphans, TypeOK
  <2> QED BY <1>1, <1>2, <1>3, <1>6, <2>1, <2>2, <2>3 DEF EraseOrphans, PoolInv, MessageInv, OrphanIndexAgrees
<1> QED BY <1>4, <1>5, <1>6

\* What ConnectTip, Reorganize and Restart leave of a message: nothing is handled.
LEMMA MoveKeeps ==
    ASSUME PoolInv, NEW b \in Blocks, ConnectTip(b) \/ Reorganize(b)
    PROVE  PoolInv'
<1>1. pc = "idle" /\ UNCHANGED <<orphans, byPrev, pc, msg, queue, current, todo, erase>>
  BY DEF ConnectTip, Reorganize, held, loop
<1>2. queue = <<>> /\ current = 0 /\ todo = {} /\ erase = {}
  BY <1>1 DEF PoolInv, MessageInv
<1>3. /\ tip' \in Blocks /\ mapTx' \subseteq Txs /\ mapNextTx' \in [Spendable -> Txs \cup {None}]
      /\ ChainInv' /\ PoolMapsAgree' /\ PoolAndChainDisjoint'
  BY ConnectTipKeeps, ReorganizeKeeps
<1>4. TypeOK'
  BY <1>1, <1>2, <1>3 DEF PoolInv, TypeOK
<1> QED BY <1>1, <1>2, <1>3, <1>4 DEF PoolInv, MessageInv, OrphanIndexAgrees

LEMMA RestartKeeps ==
    ASSUME PoolInv, NEW offered \in SUBSET Txs, NEW supported, Restart(offered, supported)
    PROVE  PoolInv'
<1>1. /\ Offered(offered, supported) /\ tip' = tip
      /\ orphans' = {} /\ byPrev' = [t \in Txs |-> {}]
      /\ pc' = "idle" /\ msg' = None /\ queue' = <<>> /\ current' = 0 /\ todo' = {} /\ erase' = {}
  BY DEF Restart
<1>2. /\ mapTx' \subseteq Txs /\ mapNextTx' \in [Spendable -> Txs \cup {None}]
      /\ ChainInv' /\ PoolMapsAgree' /\ PoolAndChainDisjoint'
  BY <1>1, OfferedKeeps
<1>3. TypeOK'
  BY <1>1, <1>2 DEF PoolInv, TypeOK
<1>4. Cardinality(orphans') <= MaxOrphans
  BY <1>1, PoolAssumption, FS_EmptySet
<1> QED BY <1>1, <1>2, <1>3, <1>4 DEF PoolInv, MessageInv, OrphanIndexAgrees

LEMMA PoolInitOK == Init => PoolInv
<1> SUFFICES ASSUME Init PROVE PoolInv
  OBVIOUS
<1>1. TypeOK
  BY TreeFacts DEF Init, TypeOK
<1>2. Cardinality(orphans) <= MaxOrphans
  BY PoolAssumption, FS_EmptySet DEF Init
<1>3. ChainInv
  BY GenesisValid DEF Init, ChainInv
<1>4. PoolMapsAgree
  BY InputFacts DEF Init, PoolMapsAgree
<1> QED BY <1>1, <1>2, <1>3, <1>4 DEF Init, PoolInv, MessageInv, PoolAndChainDisjoint, OrphanIndexAgrees

LEMMA PoolStepKeeps == PoolInv /\ [Next]_vars => PoolInv'
<1> SUFFICES ASSUME PoolInv, [Next]_vars PROVE PoolInv'
  OBVIOUS
<1>1. CASE \E t \in Txs : SubmitTx(t) \/ TxMessage(t) \/ TxMessageOrphan(t)
  BY <1>1, SubmitTxKeeps, TxMessageKeeps, TxMessageOrphanKeeps
<1>2. CASE LoopStep
  BY <1>2, AcceptOrphanKeeps, LoopStepKeeps DEF LoopStep
<1>3. CASE \E b \in Blocks : ConnectTip(b) \/ Reorganize(b)
  BY <1>3, MoveKeeps
<1>4. CASE \E offered, supported \in SUBSET Txs : Restart(offered, supported)
  BY <1>4, RestartKeeps
<1>5. CASE UNCHANGED vars
  BY <1>5 DEF vars, pool, held, loop, PoolInv, TypeOK, MessageInv, ChainInv, PoolMapsAgree,
     PoolAndChainDisjoint, OrphanIndexAgrees, ContainsTx, LocatedIn
<1> QED BY <1>1, <1>2, <1>3, <1>4, <1>5 DEF Next

\* A step of the wallet and the pool is a step of the pool or leaves it alone.
LEMMA WalletStepIsPoolStep == PoolInv /\ [WalletNext]_wvars => [Next]_vars
<1> SUFFICES ASSUME PoolInv, [WalletNext]_wvars PROVE [Next]_vars
  OBVIOUS
<1>1. CASE \E t \in Txs : WalletSubmitTx(t) \/ WalletTxMessage(t) \/ WalletTxMessageOrphan(t)
  BY <1>1 DEF WalletSubmitTx, WalletTxMessage, WalletTxMessageOrphan, Next
<1>2. CASE \E t \in Txs : CommitTransaction(t)
  <2>1. PICK t \in Txs : CommitTransaction(t)
    BY <1>2
  <2>2. SubmitTx(t) \/ UNCHANGED vars
    BY <2>1 DEF CommitTransaction, SubmitTx, vars
  <2> QED BY <2>2 DEF Next
<1>3. CASE WalletLoopStep
  BY <1>3 DEF WalletLoopStep, WalletAcceptOrphan, WalletPassOverOrphan, WalletNextInQueue,
     WalletEraseOrphans, Next, LoopStep
<1>4. CASE \E b \in Blocks \ {Genesis} : WalletConnectTip(b) \/ WalletReorganize(b) \/ ReorganizeFails(b)
  BY <1>4 DEF WalletConnectTip, WalletReorganize, ReorganizeFails, Next
<1>5. CASE FixSpentCoins
  BY <1>5 DEF FixSpentCoins
<1>6. CASE \E c, from : WalletRestart(c, from)
  <2>1. Restart(Reoffered, {t \in Txs : madeAt[t] # None})
    BY <1>6 DEF WalletRestart
  <2>2. Reoffered \in SUBSET Txs /\ {t \in Txs : madeAt[t] # None} \in SUBSET Txs
    BY DEF Reoffered, Ordinary
  <2> QED BY <2>1, <2>2 DEF Next
<1>7. CASE UNCHANGED wvars
  BY <1>7 DEF wvars
<1> QED BY <1>1, <1>2, <1>3, <1>4, <1>5, <1>6, <1>7 DEF WalletNext

\* The loop of the "tx" message: where RetryInv comes from.
LEMMA RetryStepKeeps == PoolInv /\ RetryInv /\ [Next]_vars => RetryInv'
<1> SUFFICES ASSUME PoolInv, RetryInv, [Next]_vars PROVE RetryInv'
  OBVIOUS
<1> USE DEF pool, held, loop
<1>0. TypeOK /\ MessageInv /\ OrphanIndexAgrees /\ PoolInv'
  BY PoolStepKeeps DEF PoolInv
<1>1. ASSUME pc' = "idle" PROVE RetryInv'
  <2>1. queue' = <<>>
    BY <1>0, <1>1 DEF PoolInv, MessageInv
  <2>2. \A i \in 1..Len(queue') : FALSE
    BY <2>1
  <2> QED BY <2>2 DEF RetryInv, OnQueue
<1>2. ASSUME NEW t \in Txs, TxMessage(t) PROVE RetryInv'
  <2>1. queue' = <<t>> /\ current' = 1 /\ todo' = byPrev[t] /\ orphans' = orphans
    BY <1>2 DEF TxMessage
  <2>2. ASSUME NEW o \in orphans', OnQueue(o, 1)' PROVE o \in todo'
    <3>1. PICK i \in 1..Len(queue') : queue'[i] \in Parents(o)
      BY <2>2 DEF OnQueue, Parents
    <3>2. i = 1 /\ queue'[i] = t
      BY <2>1
    <3> QED BY <1>0, <2>1, <3>1, <3>2 DEF OrphanIndexAgrees
  <2> QED BY <2>2 DEF RetryInv
<1>3. ASSUME NEW x \in todo, AcceptOrphan(x) PROVE RetryInv'
  <2>1. /\ queue' = Append(queue, x) /\ current' = current /\ todo' = todo \ {x}
        /\ orphans' = orphans /\ erase' = erase \cup {x} /\ mapTx' = mapTx \cup {x} /\ tip' = tip
    BY <1>3 DEF AcceptOrphan, AddToPool
  <2>2. queue \in Seq(mapTx) /\ current \in 0..Len(queue) /\ x \in Txs
    BY <1>0 DEF TypeOK
  <2>3. /\ Len(queue') = Len(queue) + 1 /\ queue'[Len(queue) + 1] = x
        /\ \A i \in 1..Len(queue) : queue'[i] = queue[i]
    BY <2>1, <2>2
  <2> SUFFICES ASSUME NEW o \in orphans' \ erase', OnQueue(o, 1)'
               PROVE  o \in todo' \/ OnQueue(o, current + 1)' \/ ParentMissing(o)'
    BY <2>1 DEF RetryInv, OnQueue
  <2>4. PICK i \in 1..Len(queue') : queue'[i] \in Parents(o)
    BY DEF OnQueue, Parents
  <2>5. CASE i = Len(queue) + 1
    <3>1. i \in (current + 1)..Len(queue')
      BY <2>2, <2>3, <2>5
    <3> QED BY <2>1, <2>4, <3>1 DEF OnQueue, Parents
  <2>6. CASE i \in 1..Len(queue)
    <3>1. OnQueue(o, 1)
      BY <2>3, <2>4, <2>6 DEF OnQueue
    <3>2. o \in todo \/ OnQueue(o, current + 1) \/ ParentMissing(o)
      BY <2>1, <3>1 DEF RetryInv
    <3>3. CASE o \in todo
      BY <2>1, <3>3
    <3>4. CASE OnQueue(o, current + 1)
      <4>1. PICK j \in (current + 1)..Len(queue) : queue[j] \in Parents(o)
        BY <3>4 DEF OnQueue
      <4>2. j \in (current + 1)..Len(queue') /\ queue'[j] = queue[j]
        BY <2>2, <2>3
      <4> QED BY <2>1, <4>1, <4>2 DEF OnQueue, Parents
    <3>5. CASE ParentMissing(o)
      <4>1. PICK p \in Parents(o) : ~ContainsTx(p) /\ p \notin mapTx
        BY <3>5 DEF ParentMissing
      <4>2. CASE p = x
        <5>1. Len(queue) + 1 \in (current + 1)..Len(queue')
          BY <2>2, <2>3
        <5> QED BY <2>1, <2>3, <4>1, <4>2, <5>1 DEF OnQueue, Parents
      <4>3. CASE p # x
        BY <2>1, <4>1, <4>3 DEF ParentMissing, ContainsTx, LocatedIn, Parents
      <4> QED BY <4>2, <4>3
    <3> QED BY <3>2, <3>3, <3>4, <3>5
  <2> QED BY <2>2, <2>3, <2>4, <2>5, <2>6
<1>4. ASSUME NEW x \in todo, PassOverOrphan(x) PROVE RetryInv'
  <2>1. /\ UNCHANGED <<tip, mapTx, orphans, queue, current>> /\ todo' = todo \ {x}
        /\ \/ MissingInputs(x) /\ erase' = erase
           \/ erase' = erase \cup {x}
    BY <1>4 DEF PassOverOrphan
  <2>2. MissingInputs(x) => ParentMissing(x)
    BY DEF MissingInputs, ParentMissing
  <2> QED BY <2>1, <2>2 DEF RetryInv, OnQueue, ParentMissing, ContainsTx, LocatedIn
<1>5. ASSUME NextInQueue PROVE RetryInv'
  <2>1. /\ UNCHANGED <<tip, mapTx, orphans, erase, queue>> /\ todo = {}
        /\ current < Len(queue) /\ current' = current + 1 /\ todo' = byPrev[queue[current + 1]]
    BY <1>5 DEF NextInQueue
  <2>2. queue \in Seq(mapTx) /\ current \in 0..Len(queue) /\ mapTx \subseteq Txs
    BY <1>0 DEF TypeOK
  <2>3. queue[current + 1] \in Txs
    BY <2>1, <2>2
  <2> SUFFICES ASSUME NEW o \in orphans \ erase, OnQueue(o, 1), OnQueue(o, current + 1)
               PROVE  o \in todo' \/ OnQueue(o, current + 2)
    BY <2>1, <2>2 DEF RetryInv, OnQueue, ParentMissing, ContainsTx, LocatedIn
  <2>4. PICK j \in (current + 1)..Len(queue) : queue[j] \in Parents(o)
    BY DEF OnQueue
  <2>5. CASE j = current + 1
    BY <1>0, <2>1, <2>3, <2>4, <2>5 DEF OrphanIndexAgrees
  <2>6. CASE j # current + 1
    <3>1. j \in (current + 2)..Len(queue)
      BY <2>2, <2>6
    <3> QED BY <2>4, <3>1 DEF OnQueue
  <2> QED BY <2>5, <2>6
<1>6. CASE UNCHANGED vars
  BY <1>6 DEF vars, RetryInv, OnQueue, ParentMissing, ContainsTx, LocatedIn
<1>7. CASE Next
  <2>1. CASE \E t \in Txs : SubmitTx(t) \/ TxMessageOrphan(t)
    BY <1>1, <2>1 DEF SubmitTx, TxMessageOrphan
  <2>2. CASE EraseOrphans
    BY <1>1, <2>2 DEF EraseOrphans
  <2>3. CASE \E b \in Blocks : ConnectTip(b) \/ Reorganize(b)
    BY <1>1, <2>3 DEF ConnectTip, Reorganize
  <2>4. CASE \E offered, supported \in SUBSET Txs : Restart(offered, supported)
    BY <1>1, <2>4 DEF Restart
  <2> QED BY <1>2, <1>3, <1>4, <1>5, <1>7, <2>1, <2>2, <2>3, <2>4 DEF Next, LoopStep
<1> QED BY <1>6, <1>7

-----------------------------------------------------------------------------
PoolSafety == Init /\ [][Next]_vars

\* Whatever the wallet does beside the pool, commits, failed reorganisations,
\* repairs and restarts with what it offers again included, the pool only makes
\* steps of its own specification.
THEOREM WalletRefinesPool == WalletSpec => PoolSafety /\ []PoolInv
<1>1. WalletInit => Init /\ PoolInv
  BY PoolInitOK DEF WalletInit
<1>2. PoolInv /\ [WalletNext]_wvars => [Next]_vars /\ PoolInv'
  BY WalletStepIsPoolStep, PoolStepKeeps
<1> QED BY <1>1, <1>2, PTL DEF WalletSpec, PoolSafety

\* mapTx and mapNextTx describe the same pool, which holds no double spend,
\* through acceptance, blocks, reorganisations and restarts.
THEOREM PoolMapsConsistent == WalletSpec => []PoolMapsAgree
<1>1. PoolInv => PoolMapsAgree
  BY DEF PoolInv
<1> QED BY <1>1, WalletRefinesPool, PTL

\* No transaction is in the pool and on the best chain, also after a
\* reorganisation whose branches share transactions.
THEOREM PoolOffChain == WalletSpec => []PoolAndChainDisjoint
<1>1. PoolInv => PoolAndChainDisjoint
  BY DEF PoolInv
<1> QED BY <1>1, WalletRefinesPool, PTL

\* The orphan transactions are within their limit and every parent leads to them.
THEOREM OrphansIndexed == WalletSpec => []OrphanIndexAgrees
<1>1. PoolInv => OrphanIndexAgrees
  BY DEF PoolInv
<1> QED BY <1>1, WalletRefinesPool, PTL

\* No dependent of a transaction thrown out is left in the pool.
THEOREM DependentsThrownOut == WalletSpec => DependentsFollow
<1> DEFINE Follow == \A t \in mapTx' : Parents(t) \cap (mapTx \ mapTx') \subseteq
                                          {p \in Txs : ContainsTx(p)'}
<1>1. PoolInv /\ [Next]_vars => [Follow]_vars
  <2> SUFFICES ASSUME PoolInv, Next PROVE Follow
    OBVIOUS
  <2>1. mapTx \subseteq Txs
    BY DEF PoolInv, TypeOK
  <2>2. CASE mapTx \subseteq mapTx'
    BY <2>2
  <2>3. CASE \E b \in Blocks : ConnectTip(b) \/ Reorganize(b)
    BY <2>1, <2>3, ConnectTipKeeps, ReorganizeKeeps
  <2>4. CASE \E offered, supported \in SUBSET Txs : Restart(offered, supported)
    <3>1. PICK offered \in SUBSET Txs, supported \in SUBSET Txs : Offered(offered, supported) /\ tip' = tip
      BY <2>4 DEF Restart
    <3>2. \A t \in mapTx' : \A p \in Parents(t) : ContainsTx(p)' \/ p \in mapTx'
      BY <3>1, OfferedKeeps
    <3> QED BY <2>1, <3>2
  <2> QED BY <2>2, <2>3, <2>4
          DEF Next, SubmitTx, TxMessage, TxMessageOrphan, LoopStep, AcceptOrphan, PassOverOrphan,
              NextInQueue, EraseOrphans, AddToPool, pool
<1> QED BY <1>1, WalletRefinesPool, PTL DEF PoolSafety, DependentsFollow

\* When a message ends, no orphan is left that waited for a transaction it brought
\* and now has all its parents, for any chain of orphans.
THEOREM OrphansAreRetried == WalletSpec => OrphansRetried
<1> DEFINE Retried == pc = "orphans" /\ pc' = "idle" /\ mapTx' = mapTx =>
                        \A o \in orphans' : (\E i \in 1..Len(queue) : queue[i] \in Parents(o)) =>
                            \E p \in Parents(o) : ~ContainsTx(p) /\ p \notin mapTx
<1>1. Init => RetryInv
  BY DEF Init, RetryInv
<1>2. PoolInv /\ RetryInv /\ [Next]_vars => [Retried]_vars
  <2> SUFFICES ASSUME PoolInv, RetryInv, Next, pc = "orphans", pc' = "idle" PROVE Retried
    OBVIOUS
  <2>1. CASE EraseOrphans
    <3>1. todo = {} /\ current = Len(queue) /\ orphans' = orphans \ erase
      BY <2>1 DEF EraseOrphans, OrphansBecome
    <3>2. \A i \in (current + 1)..Len(queue) : FALSE
      BY <3>1 DEF PoolInv, TypeOK
    <3> QED BY <3>1, <3>2 DEF RetryInv, OnQueue, ParentMissing
  <2>2. CASE orphans' = {}
    BY <2>2
  <2> QED BY <2>1, <2>2
          DEF Next, SubmitTx, TxMessage, TxMessageOrphan, LoopStep, AcceptOrphan, PassOverOrphan,
              NextInQueue, ConnectTip, Reorganize, Restart, loop
<1> QED BY <1>1, <1>2, WalletRefinesPool, RetryStepKeeps, PTL DEF PoolSafety, OrphansRetried

-----------------------------------------------------------------------------
(***************************************************************************)
(* The wallet.  What is true of a wallet w beside a chain that ends in b.  *)
(***************************************************************************)
OnChain(t, b) == \E c \in Anc[b] : t \in TxsOf(c)

WalletOK(w) ==
    /\ w \in [known : SUBSET Txs, spent : SUBSET Mine, block : [Txs -> Blocks \cup {None}]]
    /\ \A o \in w.spent : o[1] \in w.known
    /\ \A t \in Txs \ w.known : w.block[t] = None

\* Every flag has a spender the wallet knows.
Explained(w) == \A o \in w.spent : \E t \in w.known : o \in Inputs[t]

\* The wallet never forgets a transaction: of the blocks D it knows all that
\* involve it, whatever happened.
Knows(w, D) == \A c \in D : \A t \in TxsOf(c) : Involves(t) => t \in w.known

\* It has them in the right block.
Places(w, D) == \A c \in D : \A t \in TxsOf(c) : Involves(t) => t \in w.known /\ w.block[t] = c

\* It has flagged what they spend of its own.
Flags(w, D) == \A c \in D : Mine \cap InputsOf(c) \subseteq w.spent

\* What a coinstake outside the chain spends is given back, for the outputs of the
\* chain other than those of the transactions S.
Repaid(w, b, S) ==
    \A o \in w.spent : OnChain(o[1], b) /\ o[1] \notin S =>
        \E t \in w.known : o \in Inputs[t] /\ (t \in CoinStakes => OnChain(t, b))

Correct(w, b, d) ==
    /\ WalletOK(w)
    /\ Explained(w)
    /\ Knows(w, Anc[b])
    /\ d # "apart" => Places(w, Anc[b]) /\ Flags(w, Anc[b])
    /\ d = "none" => Repaid(w, b, {})

LEMMA MineFacts == \A o \in Mine : o[1] \in Txs /\ PaysMe(o[1])
BY WalletAssumption DEF OutPoints, OutputsOf, PaysMe

LEMMA RefundedFields ==
    ASSUME NEW w, WalletOK(w), NEW S
    PROVE  /\ WalletOK(Refunded(w, S))
           /\ Refunded(w, S).known = w.known
           /\ Refunded(w, S).block = w.block
           /\ Refunded(w, S).spent = w.spent \ {o \in Mine : o[1] \in w.known /\ \E t \in S \cap CoinStakes : o \in Inputs[t]}
           /\ Explained(w) => Explained(Refunded(w, S))
BY DEF WalletOK, Refunded, Explained

LEMMA SyncedFields ==
    ASSUME NEW w, NEW S, NEW pos
    PROVE  LET x == Synced(w, S, pos)
           IN  /\ x.known = w.known \cup InvolvesMe(w, S)
               /\ \A o : o \in x.spent <=>
                     \/ o \in w.spent /\ ~((\E t \in S : pos[t] # None) /\ o \in Mine /\ o[1] \in S)
                     \/ o \in Mine /\ o[1] \in x.known /\ \E t \in S : o \in Inputs[t]
               /\ \A t \in Txs :
                     x.block[t] = IF t \in x.known \cap S /\ pos[t] # None THEN pos[t] ELSE w.block[t]
BY DEF Synced, WalletUpdateSpent

LEMMA SyncedKeeps ==
    ASSUME NEW w, WalletOK(w), NEW S \in SUBSET Txs, NEW pos \in [Txs -> Blocks \cup {None}]
    PROVE  /\ WalletOK(Synced(w, S, pos))
           /\ w.known \subseteq Synced(w, S, pos).known
           /\ Explained(w) => Explained(Synced(w, S, pos))
<1> DEFINE x == Synced(w, S, pos)
<1>1. /\ x.known = w.known \cup InvolvesMe(w, S)
      /\ \A o : o \in x.spent <=>
            \/ o \in w.spent /\ ~((\E t \in S : pos[t] # None) /\ o \in Mine /\ o[1] \in S)
            \/ o \in Mine /\ o[1] \in x.known /\ \E t \in S : o \in Inputs[t]
      /\ \A t \in Txs :
            x.block[t] = IF t \in x.known \cap S /\ pos[t] # None THEN pos[t] ELSE w.block[t]
  BY SyncedFields
<1>0. /\ x = [known |-> x.known, spent |-> x.spent, block |-> x.block]
      /\ x.block = [t \in Txs |-> x.block[t]]
  BY DEF Synced
<1> HIDE DEF x
<1>2. InvolvesMe(w, S) \subseteq S
  BY DEF InvolvesMe
<1>3. \A o \in x.spent : o \in w.spent \/ (o \in Mine /\ o[1] \in x.known /\ \E t \in S : o \in Inputs[t])
  BY <1>1
<1>4. x.known \in SUBSET Txs /\ x.block \in [Txs -> Blocks \cup {None}] /\ x.spent \in SUBSET Mine
  <2>1. x.known \in SUBSET Txs /\ x.spent \in SUBSET Mine
    BY <1>1, <1>2, <1>3 DEF WalletOK
  <2>2. \A t \in Txs : x.block[t] \in Blocks \cup {None}
    BY <1>1 DEF WalletOK
  <2> QED BY <1>0, <2>1, <2>2
<1>5. \A t \in Txs \ x.known : x.block[t] = None
  BY <1>1 DEF WalletOK
<1>6. WalletOK(x)
  BY <1>0, <1>1, <1>3, <1>4, <1>5 DEF WalletOK
<1>7. ASSUME Explained(w), NEW o \in x.spent PROVE \E t \in x.known : o \in Inputs[t]
  <2>1. CASE o \in w.spent
    BY <1>1, <1>7, <2>1 DEF Explained
  <2>2. ASSUME o \in Mine, o[1] \in x.known, NEW t \in S, o \in Inputs[t] PROVE t \in x.known
    BY <1>1, <1>2, <2>2 DEF InvolvesMe, FromMe
  <2> QED BY <1>3, <2>1, <2>2
<1> QED BY <1>1, <1>6, <1>7 DEF Explained, x

\* A transaction heard of outside any block: flags are only added.
LEMMA HeardKeeps ==
    ASSUME NEW w, NEW b \in Blocks, NEW d, Correct(w, b, d), NEW t \in Txs, t \notin CoinStakes
    PROVE  Correct(Synced(w, {t}, NoBlock), b, d)
<1> DEFINE x == Synced(w, {t}, NoBlock)
<1>1. NoBlock \in [Txs -> Blocks \cup {None}] /\ NoBlock[t] = None
  BY DEF NoBlock
<1>2. WalletOK(x) /\ w.known \subseteq x.known /\ Explained(x)
  <2>1. {t} \in SUBSET Txs
    OBVIOUS
  <2> QED BY <1>1, <2>1, SyncedKeeps DEF Correct
<1>3. /\ x.known = w.known \cup InvolvesMe(w, {t})
      /\ x.spent = w.spent \cup {o \in Mine : o[1] \in x.known /\ o \in Inputs[t]}
      /\ \A u \in Txs : x.block[u] = w.block[u]
  <2>1. /\ x.known = w.known \cup InvolvesMe(w, {t})
        /\ \A o : o \in x.spent <=>
              \/ o \in w.spent /\ ~((\E u \in {t} : NoBlock[u] # None) /\ o \in Mine /\ o[1] \in {t})
              \/ o \in Mine /\ o[1] \in x.known /\ \E u \in {t} : o \in Inputs[u]
        /\ \A u \in Txs :
              x.block[u] = IF u \in x.known \cap {t} /\ NoBlock[u] # None THEN NoBlock[u] ELSE w.block[u]
    BY SyncedFields
  <2> HIDE DEF x
  <2>2. x.spent = w.spent \cup {o \in Mine : o[1] \in x.known /\ o \in Inputs[t]}
    BY <1>1, <2>1
  <2> QED BY <1>1, <2>1, <2>2
<1> HIDE DEF x
<1>4. Knows(x, Anc[b])
  BY <1>2 DEF Correct, Knows
<1>5. Places(w, Anc[b]) /\ Flags(w, Anc[b]) => Places(x, Anc[b]) /\ Flags(x, Anc[b])
  <2>1. \A c \in Anc[b] : TxsOf(c) \subseteq Txs
    BY AncBasic, TxFacts
  <2> QED BY <1>2, <1>3, <2>1 DEF Places, Flags
<1>6. Repaid(w, b, {}) => Repaid(x, b, {})
  <2> SUFFICES ASSUME Repaid(w, b, {}), NEW o \in x.spent, OnChain(o[1], b)
               PROVE  \E u \in x.known : o \in Inputs[u] /\ (u \in CoinStakes => OnChain(u, b))
    BY DEF Repaid
  <2>1. CASE o \in w.spent
    BY <1>2, <2>1 DEF Repaid
  <2>2. CASE o \in Mine /\ o[1] \in x.known /\ o \in Inputs[t]
    <3>1. t \in x.known
      BY <1>3, <2>2 DEF InvolvesMe, FromMe
    <3> QED BY <2>2, <3>1
  <2> QED BY <1>3, <2>1, <2>2
<1> QED BY <1>2, <1>4, <1>5, <1>6 DEF Correct, x

\* SyncWithWallets for the transactions of the blocks D of a valid chain, from what
\* the wallet has of the other blocks.
LEMMA SyncedKnows ==
    ASSUME NEW w, WalletOK(w), NEW b \in Blocks, ChainSpendsValid(b), NEW D \in SUBSET Anc[b],
           Knows(w, Anc[b] \ D)
    PROVE  Knows(Synced(w, TxsIn(D), Located[b]), Anc[b])
<1> DEFINE S == TxsIn(D)
           x == Synced(w, S, Located[b])
<1>1. x.known = w.known \cup InvolvesMe(w, S)
  BY SyncedFields
<1> HIDE DEF x
<1> SUFFICES ASSUME NEW c \in Anc[b], NEW t \in TxsOf(c), Involves(t) PROVE t \in x.known
  BY DEF Knows, x
<1>2. CASE c \notin D
  BY <1>1, <1>2 DEF Knows
<1>3. CASE c \in D
  <2>1. t \in S
    BY <1>3 DEF TxsIn
  <2>2. CASE PaysMe(t)
    BY <1>1, <2>1, <2>2 DEF InvolvesMe
  <2>3. ASSUME NEW o \in Inputs[t], o \in Mine PROVE t \in x.known
    <3>1. o \in InputsOf(c)
      BY DEF InputsOf
    <3>2. PICK d \in Anc[c] : o[1] \in TxsOf(d)
      BY <3>1, SourceBelow
    <3>3. d \in Anc[b]
      BY AncTransitive
    <3>4. o[1] \in w.known \cup S
      BY <2>3, <3>2, <3>3, MineFacts DEF Knows, Involves, TxsIn
    <3> QED BY <1>1, <2>1, <2>3, <3>4 DEF InvolvesMe, FromMe
  <2> QED BY <2>2, <2>3 DEF Involves
<1> QED BY <1>2, <1>3

LEMMA SyncedPlaces ==
    ASSUME NEW w, WalletOK(w), NEW b \in Blocks, ChainSpendsValid(b), NEW D \in SUBSET Anc[b],
           Places(w, Anc[b] \ D)
    PROVE  Places(Synced(w, TxsIn(D), Located[b]), Anc[b])
<1> DEFINE S == TxsIn(D)
           x == Synced(w, S, Located[b])
<1>1. /\ x.known = w.known \cup InvolvesMe(w, S)
      /\ \A t \in Txs :
            x.block[t] = IF t \in x.known \cap S /\ Located[b][t] # None THEN Located[b][t] ELSE w.block[t]
  BY SyncedFields
<1>2. Knows(w, Anc[b] \ D)
  BY DEF Knows, Places
<1>3. Knows(x, Anc[b])
  BY <1>2, SyncedKnows
<1> HIDE DEF x
<1> SUFFICES ASSUME NEW c \in Anc[b], NEW t \in TxsOf(c), Involves(t) PROVE t \in x.known /\ x.block[t] = c
  BY DEF Places, x
<1>4. t \in Txs /\ t \in x.known /\ c # None
  BY <1>3, AncBasic, TxFacts, TreeFacts DEF Knows
<1>5. Located[b][t] = c
  BY LocatedAt DEF Located
<1>6. CASE c \notin D
  BY <1>1, <1>4, <1>5, <1>6 DEF Places
<1>7. CASE c \in D
  <2>1. t \in S
    BY <1>7 DEF TxsIn
  <2> QED BY <1>1, <1>4, <1>5, <2>1
<1> QED BY <1>6, <1>7

\* The flags survive because the blocks told of are the upper ones: an output of
\* theirs, whose flag is cleared, is spent in none but them.
LEMMA SyncedFlags ==
    ASSUME NEW w, WalletOK(w), NEW b \in Blocks, ChainSpendsValid(b), NEW D \in SUBSET Anc[b],
           \A c \in D : \A d \in Anc[b] : c \in Anc[d] => d \in D,
           Knows(w, Anc[b] \ D), Flags(w, Anc[b] \ D)
    PROVE  Flags(Synced(w, TxsIn(D), Located[b]), Anc[b])
<1> DEFINE S == TxsIn(D)
           x == Synced(w, S, Located[b])
<1>1. /\ x.known = w.known \cup InvolvesMe(w, S)
      /\ \A o : o \in x.spent <=>
            \/ o \in w.spent /\ ~((\E t \in S : Located[b][t] # None) /\ o \in Mine /\ o[1] \in S)
            \/ o \in Mine /\ o[1] \in x.known /\ \E t \in S : o \in Inputs[t]
  BY SyncedFields
<1>2. Knows(x, Anc[b])
  BY SyncedKnows
<1> HIDE DEF x
<1> SUFFICES ASSUME NEW d \in Anc[b], NEW o \in Mine, o \in InputsOf(d) PROVE o \in x.spent
  BY DEF Flags, x
<1>3. PICK e \in Anc[d] : o[1] \in TxsOf(e)
  BY SourceBelow
<1>4. e \in Anc[b]
  BY AncTransitive
<1>5. o[1] \in x.known
  BY <1>2, <1>3, <1>4, MineFacts DEF Knows, Involves
<1>6. CASE d \in D
  <2>1. \E t \in S : o \in Inputs[t]
    BY <1>6 DEF InputsOf, TxsIn
  <2> QED BY <1>1, <1>5, <2>1
<1>7. CASE d \notin D
  <2>1. o \in w.spent
    BY <1>7 DEF Flags
  <2>2. o[1] \notin S
    <3> SUFFICES ASSUME NEW f \in D, o[1] \in TxsOf(f) PROVE FALSE
      BY DEF TxsIn
    <3>1. f = e
      BY <1>3, <1>4, OneLocation
    <3> QED BY <1>3, <1>7, <3>1
  <2> QED BY <1>1, <2>1, <2>2
<1> QED BY <1>6, <1>7

LEMMA SyncedRepaid ==
    ASSUME NEW w, WalletOK(w), NEW b \in Blocks, ChainSpendsValid(b), NEW D \in SUBSET Anc[b],
           Repaid(w, b, TxsIn(D))
    PROVE  Repaid(Synced(w, TxsIn(D), Located[b]), b, {})
<1> DEFINE S == TxsIn(D)
           x == Synced(w, S, Located[b])
<1>1. /\ x.known = w.known \cup InvolvesMe(w, S)
      /\ \A o : o \in x.spent <=>
            \/ o \in w.spent /\ ~((\E t \in S : Located[b][t] # None) /\ o \in Mine /\ o[1] \in S)
            \/ o \in Mine /\ o[1] \in x.known /\ \E t \in S : o \in Inputs[t]
  BY SyncedFields
<1>2. InvolvesMe(w, S) \subseteq S
  BY DEF InvolvesMe
<1> HIDE DEF x
<1> SUFFICES ASSUME NEW o \in x.spent, OnChain(o[1], b)
             PROVE  \E t \in x.known : o \in Inputs[t] /\ (t \in CoinStakes => OnChain(t, b))
  BY DEF Repaid, x
<1>3. CASE o \in Mine /\ o[1] \in x.known /\ \E t \in S : o \in Inputs[t]
  <2>1. PICK t \in S : o \in Inputs[t]
    BY <1>3
  <2>2. t \in x.known
    BY <1>1, <1>2, <1>3, <2>1 DEF InvolvesMe, FromMe
  <2>3. OnChain(t, b)
    BY DEF TxsIn, OnChain
  <2> QED BY <2>1, <2>2, <2>3
<1>4. CASE ~(o \in Mine /\ o[1] \in x.known /\ \E t \in S : o \in Inputs[t])
  <2>1. /\ o \in w.spent
        /\ ~((\E t \in S : Located[b][t] # None) /\ o \in Mine /\ o[1] \in S)
    BY <1>1, <1>4
  <2>2. o[1] \notin S
    <3> SUFFICES ASSUME o[1] \in S PROVE FALSE
      OBVIOUS
    <3>1. PICK c \in D : o[1] \in TxsOf(c)
      BY DEF TxsIn
    <3>2. Located[b][o[1]] = c /\ c # None
      BY <3>1, LocatedAt, AncBasic, TreeFacts DEF Located
    <3> QED BY <2>1, <3>2 DEF WalletOK
  <2> QED BY <1>1, <2>1, <2>2 DEF Repaid
<1> QED BY <1>3, <1>4

LEMMA TxsInType == ASSUME NEW D \in SUBSET Blocks PROVE TxsIn(D) \in SUBSET Txs
BY TxFacts DEF TxsIn

LEMMA LocatedType == ASSUME NEW b \in Blocks PROVE Located[b] \in [Txs -> Blocks \cup {None}]
BY LocationType DEF Located

\* DisconnectBlock down to the fork and ConnectBlock up to b, for any b.
LEMMA MovingKeeps ==
    ASSUME TypeOK, NEW w, WalletOK(w), NEW b \in Blocks
    PROVE  /\ WalletOK(AfterMoving(w, b))
           /\ w.known \subseteq AfterMoving(w, b).known
           /\ Explained(w) => Explained(AfterMoving(w, b))
<1> DEFINE r == Refunded(w, TxsIn(Anc[tip] \ Anc[b]))
           S == TxsIn(Anc[b] \ Anc[tip])
<1>1. S \in SUBSET Txs
  BY AncBasic, TxsInType
<1>2. WalletOK(r) /\ r.known = w.known /\ (Explained(w) => Explained(r))
  BY RefundedFields
<1> HIDE DEF r, S
<1>3. /\ WalletOK(Synced(r, S, Located[b])) /\ r.known \subseteq Synced(r, S, Located[b]).known
      /\ Explained(r) => Explained(Synced(r, S, Located[b]))
  BY <1>1, <1>2, LocatedType, SyncedKeeps
<1> QED BY <1>2, <1>3 DEF AfterMoving, r, S

\* For a b that ends a valid chain the wallet then has of it what it had of the
\* chain before.
LEMMA MovedAgrees ==
    ASSUME TypeOK, ChainInv, NEW w, NEW d, Correct(w, tip, d), NEW b \in Blocks, ChainSpendsValid(b)
    PROVE  Correct(AfterMoving(w, b), b, d)
<1> DEFINE S1 == TxsIn(Anc[tip] \ Anc[b])
           r  == Refunded(w, S1)
           D  == Anc[b] \ Anc[tip]
           x  == Synced(r, TxsIn(D), Located[b])
<1>1. /\ WalletOK(r) /\ r.known = w.known /\ r.block = w.block
      /\ r.spent = w.spent \ {o \in Mine : o[1] \in w.known /\ \E t \in S1 \cap CoinStakes : o \in Inputs[t]}
  BY RefundedFields DEF Correct
<1>2. tip \in Blocks /\ ChainSpendsValid(tip)
  BY DEF TypeOK, ChainInv
<1>3. D \in SUBSET Anc[b] /\ Anc[b] \ D \subseteq Anc[tip]
  OBVIOUS
<1>4. \A c \in D : \A e \in Anc[b] : c \in Anc[e] => e \in D
  BY <1>2, AncTransitive
<1>5. WalletOK(x) /\ Explained(x)
  BY MovingKeeps DEF AfterMoving, Correct
<1>6. Knows(r, Anc[b] \ D)
  BY <1>1, <1>3 DEF Correct, Knows
<1> HIDE DEF r
<1>7. Knows(x, Anc[b])
  BY <1>1, <1>3, <1>6, SyncedKnows
<1>8. ASSUME d # "apart" PROVE Places(x, Anc[b]) /\ Flags(x, Anc[b])
  <2>1. Places(r, Anc[b] \ D)
    BY <1>1, <1>3, <1>8 DEF Correct, Places
  <2>2. Flags(r, Anc[b] \ D)
    <3> SUFFICES ASSUME NEW c \in Anc[b] \ D, NEW o \in Mine, o \in InputsOf(c) PROVE o \in r.spent
      BY DEF Flags
    <3>1. c \in Anc[tip] /\ o \in w.spent
      BY <1>3, <1>8 DEF Correct, Flags
    <3>2. ASSUME NEW t \in S1, o \in Inputs[t] PROVE FALSE
      <4>1. PICK e \in Anc[tip] \ Anc[b] : t \in TxsOf(e)
        BY DEF TxsIn
      <4>2. PICK u \in TxsOf(c) : o \in Inputs[u]
        BY DEF InputsOf
      <4>3. c = e
        BY <1>2, <3>1, <3>2, <4>1, <4>2, OneSpender
      <4> QED BY <4>1, <4>3
    <3> QED BY <1>1, <3>1, <3>2
  <2> QED BY <1>1, <1>3, <1>4, <1>6, <2>1, <2>2, SyncedPlaces, SyncedFlags
<1>9. ASSUME d = "none" PROVE Repaid(x, b, {})
  <2>1. Repaid(r, b, TxsIn(D))
    <3> SUFFICES ASSUME NEW o \in r.spent, OnChain(o[1], b), o[1] \notin TxsIn(D)
                 PROVE  \E t \in r.known : o \in Inputs[t] /\ (t \in CoinStakes => OnChain(t, b))
      BY DEF Repaid
    <3>1. OnChain(o[1], tip)
      BY DEF OnChain, TxsIn
    <3>2. PICK t \in w.known : o \in Inputs[t] /\ (t \in CoinStakes => OnChain(t, tip))
      BY <1>1, <1>9, <3>1 DEF Correct, Repaid
    <3>3. ASSUME t \in CoinStakes PROVE OnChain(t, b)
      <4>1. PICK c \in Anc[tip] : t \in TxsOf(c)
        BY <3>2, <3>3 DEF OnChain
      <4>2. t \notin S1
        BY <1>1, <3>2, <3>3 DEF Correct, WalletOK
      <4>3. c \in Anc[b]
        BY <4>1, <4>2 DEF TxsIn
      <4> QED BY <4>1, <4>3 DEF OnChain
    <3> QED BY <1>1, <3>2, <3>3
  <2> QED BY <1>1, <1>3, <2>1, SyncedRepaid
<1> QED BY <1>5, <1>7, <1>8, <1>9 DEF Correct, AfterMoving, r

\* ReacceptWalletTransactions only flags what the chain spends.
LEMMA ReacceptedKeeps ==
    ASSUME TypeOK, NEW w, NEW d, Correct(w, tip, d)
    PROVE  Correct(Reaccepted(w), tip, d) /\ Reaccepted(w).known = w.known
<1> DEFINE x == Reaccepted(w)
<1>1. w \in [known : SUBSET Txs, spent : SUBSET Mine, block : [Txs -> Blocks \cup {None}]]
  BY DEF Correct, WalletOK
<1>2. /\ x \in [known : SUBSET Txs, spent : SUBSET Mine, block : [Txs -> Blocks \cup {None}]]
      /\ x.known = w.known /\ x.block = w.block /\ w.spent \subseteq x.spent
      /\ \A o \in x.spent : o \in w.spent \/ (o \in Mine /\ o \in SpentIn[tip] /\ o[1] \in w.known)
  BY <1>1 DEF Reaccepted
<1> HIDE DEF x
<1>3. ASSUME NEW o \in x.spent, o \notin w.spent
      PROVE  \E t \in w.known : o \in Inputs[t] /\ OnChain(t, tip)
  <2>1. o \in SpentOn(tip) /\ o \in Mine
    BY <1>2, <1>3 DEF SpentIn, TypeOK
  <2>2. PICK c \in Anc[tip] : \E t \in TxsOf(c) : o \in Inputs[t]
    BY <2>1 DEF SpentOn, InputsOf
  <2>3. PICK t \in TxsOf(c) : o \in Inputs[t]
    BY <2>2
  <2>4. t \in w.known
    BY <2>1, <2>3 DEF Correct, Knows, Involves
  <2> QED BY <2>3, <2>4 DEF OnChain
<1>4. WalletOK(x)
  BY <1>2 DEF Correct, WalletOK
<1>5. Explained(x)
  BY <1>2, <1>3 DEF Correct, Explained
<1>6. Knows(x, Anc[tip]) /\ (d # "apart" => Places(x, Anc[tip]) /\ Flags(x, Anc[tip]))
  BY <1>2 DEF Correct, Knows, Places, Flags
<1>7. d = "none" => Repaid(x, tip, {})
  BY <1>2, <1>3 DEF Correct, Repaid
<1> QED BY <1>2, <1>4, <1>5, <1>6, <1>7 DEF Correct, x

LEMMA UnderwayValid ==
    ASSUME TypeOK, ChainInv, NEW c \in Underway \cup {tip}
    PROVE  c \in Blocks /\ ChainSpendsValid(c)
<1>1. CASE c \in Underway
  <2>1. PICK b \in Blocks : c \in Anc[b] /\ b \in ValidChains
    BY <1>1 DEF Underway, MayBecomeBest
  <2> QED BY <2>1, AncBasic, ValidBelow DEF ValidChains
<1>2. CASE c = tip
  BY <1>2 DEF TypeOK, ChainInv
<1> QED BY <1>1, <1>2

\* A start: the wallet was told of the way to c, then rescans the upper part of the
\* best chain.
LEMMA RescanKeeps ==
    ASSUME TypeOK, ChainInv, NEW w, NEW d, Correct(w, tip, d), NEW c \in Underway \cup {tip},
           NEW from \in Anc[tip], NEW e,
           e = IF from = Genesis /\ tip # Genesis THEN "none"
               ELSE IF c = tip THEN d
               ELSE IF tip \in Anc[c] /\ d # "apart" THEN "ahead" ELSE "apart"
    PROVE  Correct(Synced(AfterMoving(w, c),
                          IF from = tip THEN {} ELSE TxsIn(Anc[tip] \ (Anc[from] \ {from})),
                          Located[tip]), tip, e)
<1> DEFINE D == IF from = tip THEN {} ELSE Anc[tip] \ (Anc[from] \ {from})
           y == AfterMoving(w, c)
           x == Synced(y, TxsIn(D), Located[tip])
<1>1. tip \in Blocks /\ ChainSpendsValid(tip) /\ c \in Blocks /\ ChainSpendsValid(c) /\ from \in Blocks
  BY UnderwayValid, AncBasic DEF TypeOK, ChainInv
<1>2. TxsIn(D) = IF from = tip THEN {} ELSE TxsIn(Anc[tip] \ (Anc[from] \ {from}))
  <2>1. TxsIn({}) = {}
    BY DEF TxsIn
  <2> QED BY <2>1
<1>3. D \in SUBSET Anc[tip] /\ TxsIn(D) \in SUBSET Txs
  <2>1. D \in SUBSET Anc[tip] /\ D \in SUBSET Blocks
    BY <1>1, AncBasic
  <2> HIDE DEF D
  <2> QED BY <2>1, TxsInType
<1>4. \A a \in D : \A b \in Anc[tip] : a \in Anc[b] => b \in D
  <2> SUFFICES ASSUME from # tip, NEW a \in Anc[tip], a \notin Anc[from] \ {from},
                      NEW b \in Anc[from] \ {from}, a \in Anc[b]
               PROVE  FALSE
    OBVIOUS
  <2>1. a = from
    BY <1>1, AncTransitive
  <2>2. b \in Blocks /\ Height[b] < Height[from] /\ Height[from] <= Height[b]
    <3>1. b \in Blocks
      BY <1>1, AncBasic
    <3> QED BY <1>1, <2>1, <3>1, AncBelow
  <2> QED BY <1>1, <2>2, TreeFacts
<1>5. from = Genesis /\ tip # Genesis => D = Anc[tip]
  BY AncGenesis
<1>6. WalletOK(y) /\ w.known \subseteq y.known /\ Explained(y) /\ Correct(y, c, d)
  BY <1>1, MovingKeeps, MovedAgrees DEF Correct
<1> HIDE DEF y, D
<1>7. WalletOK(x) /\ Explained(x)
  BY <1>1, <1>3, <1>6, LocatedType, SyncedKeeps
<1>8. Knows(y, Anc[tip] \ D)
  BY <1>6 DEF Correct, Knows
<1>9. Knows(x, Anc[tip])
  BY <1>1, <1>3, <1>6, <1>8, SyncedKnows
<1>10. ASSUME e # "apart" PROVE Places(x, Anc[tip]) /\ Flags(x, Anc[tip])
  <2>1. Places(y, Anc[tip] \ D) /\ Flags(y, Anc[tip] \ D)
    <3>1. CASE from = Genesis /\ tip # Genesis
      BY <1>5, <3>1 DEF Places, Flags
    <3>2. CASE ~(from = Genesis /\ tip # Genesis)
      <4>1. d # "apart" /\ tip \in Anc[c]
        BY <1>1, <1>10, <3>2, AncBasic
      <4>2. Anc[tip] \subseteq Anc[c]
        BY <1>1, <4>1, AncTransitive
      <4> QED BY <1>6, <4>1, <4>2 DEF Correct, Places, Flags
    <3> QED BY <3>1, <3>2
  <2> QED BY <1>1, <1>3, <1>4, <1>6, <1>8, <2>1, SyncedPlaces, SyncedFlags
<1>11. ASSUME e = "none" PROVE Repaid(x, tip, {})
  <2>1. Repaid(y, tip, TxsIn(D))
    <3>1. CASE from = Genesis /\ tip # Genesis
      BY <1>5, <3>1 DEF Repaid, OnChain, TxsIn
    <3>2. CASE ~(from = Genesis /\ tip # Genesis)
      <4>1. c = tip /\ d = "none"
        BY <1>11, <3>2
      <4> QED BY <1>6, <4>1 DEF Correct, Repaid
    <3> QED BY <3>1, <3>2
  <2> QED BY <1>1, <1>3, <1>6, <2>1, SyncedRepaid
<1> HIDE DEF x
<1>12. Correct(x, tip, e)
  BY <1>7, <1>9, <1>10, <1>11 DEF Correct
<1> QED BY <1>2, <1>12 DEF x, y

-----------------------------------------------------------------------------
\* The inductive invariant of the wallet.
WalletInv ==
    /\ PoolInv
    /\ Correct(TheWallet, tip, doubt)
    /\ madeAt \in [Txs -> Blocks \cup {None}]
    /\ \A t \in Txs \ mapWallet : madeAt[t] = None
    /\ doubt \in {"none", "ahead", "apart"}
    /\ refused \subseteq mapWallet

\* What is true of the wallet the variables hold is read off its three fields.
LEMMA BecomesReads ==
    ASSUME NEW w, WalletBecomes(w), NEW b, NEW d, Correct(w, b, d)
    PROVE  Correct(TheWallet', b, d)
<1>1. TheWallet' = [known |-> w.known, spent |-> w.spent, block |-> w.block]
  BY DEF WalletBecomes, TheWallet
<1>2. w = [known |-> w.known, spent |-> w.spent, block |-> w.block]
  BY DEF Correct, WalletOK
<1> QED BY <1>1, <1>2

LEMMA WalletInitOK == WalletInit => WalletInv
<1> SUFFICES ASSUME WalletInit PROVE WalletInv
  OBVIOUS
<1>1. PoolInv
  BY PoolInitOK DEF WalletInit
<1>2. TheWallet = [known |-> {}, spent |-> {}, block |-> [t \in Txs |-> None]]
  BY DEF TheWallet, WalletInit
<1>3. tip = Genesis /\ Anc[Genesis] = {Genesis} /\ TxsOf(Genesis) = {} /\ InputsOf(Genesis) = {}
  BY AncGenesis, TxFacts DEF WalletInit, Init, InputsOf
<1>4. Correct(TheWallet, tip, doubt)
  BY <1>2, <1>3 DEF Correct, WalletOK, Explained, Knows, Places, Flags, Repaid
<1> QED BY <1>1, <1>4 DEF WalletInv, WalletInit

\* Telling the wallet of a transaction that is not in a block.
LEMMA ToldKeeps ==
    ASSUME WalletInv, PoolInv', tip' = tip, NEW t \in Txs, t \notin CoinStakes,
           Told(Synced(TheWallet, {t}, NoBlock))
    PROVE  WalletInv'
<1> DEFINE x == Synced(TheWallet, {t}, NoBlock)
<1>1. WalletBecomes(x) /\ UNCHANGED <<madeAt, doubt, refused>>
  BY DEF Told
<1>2. tip \in Blocks /\ Correct(TheWallet, tip, doubt)
  BY DEF WalletInv, PoolInv, TypeOK
<1>3. Correct(x, tip, doubt)
  BY <1>2, HeardKeeps
<1>4. x.known = mapWallet \cup InvolvesMe(TheWallet, {t})
  BY SyncedFields DEF TheWallet
<1> HIDE DEF x
<1>5. Correct(TheWallet', tip, doubt)
  BY <1>1, <1>3, BecomesReads
<1>6. mapWallet \subseteq mapWallet'
  BY <1>1, <1>4 DEF WalletBecomes
<1> QED BY <1>1, <1>5, <1>6 DEF WalletInv

LEMMA MoveTold ==
    ASSUME WalletInv, PoolInv', NEW b \in Blocks, tip' = b, ChainSpendsValid(b),
           Told(AfterMoving(TheWallet, b))
    PROVE  WalletInv'
<1> DEFINE x == AfterMoving(TheWallet, b)
<1>1. WalletBecomes(x) /\ UNCHANGED <<madeAt, doubt, refused>>
  BY DEF Told
<1>2. TypeOK /\ ChainInv /\ Correct(TheWallet, tip, doubt) /\ WalletOK(TheWallet) /\ TheWallet.known = mapWallet
  BY DEF WalletInv, PoolInv, Correct, TheWallet
<1>3. Correct(x, b, doubt) /\ mapWallet \subseteq x.known
  BY <1>2, MovedAgrees, MovingKeeps
<1> HIDE DEF x
<1>4. Correct(TheWallet', b, doubt)
  BY <1>1, <1>3, BecomesReads
<1>5. mapWallet \subseteq mapWallet'
  BY <1>1, <1>3 DEF WalletBecomes
<1> QED BY <1>1, <1>4, <1>5 DEF WalletInv

LEMMA ReorganizeFailsKeeps ==
    ASSUME WalletInv, PoolInv', NEW b \in Blocks \ {Genesis}, ReorganizeFails(b)
    PROVE  WalletInv'
<1>1. PICK f \in Anc[b] \ Anc[tip] : WalletBecomes(AfterMoving(TheWallet, Prev[f]))
  BY DEF ReorganizeFails
<1>2. tip' = tip /\ doubt' = "apart" /\ UNCHANGED <<madeAt, refused>>
  BY DEF ReorganizeFails, vars
<1>3. /\ TypeOK /\ Correct(TheWallet, tip, doubt) /\ WalletOK(TheWallet) /\ Explained(TheWallet)
      /\ TheWallet.known = mapWallet /\ tip \in Blocks
  BY DEF WalletInv, PoolInv, Correct, TheWallet, TypeOK
<1>4. Prev[f] \in Blocks
  BY <1>3, AncBasic, GenesisBelowAll, TreeFacts
<1> DEFINE x == AfterMoving(TheWallet, Prev[f])
<1>5. WalletOK(x) /\ mapWallet \subseteq x.known /\ Explained(x)
  BY <1>3, <1>4, MovingKeeps
<1> HIDE DEF x
<1>6. Knows(x, Anc[tip])
  BY <1>3, <1>5 DEF Correct, Knows
<1>7. Correct(x, tip, "apart")
  BY <1>5, <1>6 DEF Correct
<1>8. Correct(TheWallet', tip, "apart")
  BY <1>1, <1>7, BecomesReads DEF x
<1>9. mapWallet \subseteq mapWallet'
  BY <1>1, <1>5 DEF WalletBecomes, x
<1> QED BY <1>2, <1>8, <1>9 DEF WalletInv

LEMMA CommitKeeps ==
    ASSUME WalletInv, PoolInv', NEW t \in Txs, CommitTransaction(t)
    PROVE  WalletInv'
<1>1. /\ mapWallet' = mapWallet \cup {t} /\ vfSpent' = vfSpent \cup Inputs[t]
      /\ madeAt' = [madeAt EXCEPT ![t] = tip] /\ tip' = tip /\ hashBlock' = hashBlock /\ doubt' = doubt
      /\ refused' \subseteq refused \cup {t}
      /\ \A o \in Inputs[t] : o \in Mine /\ o[1] \in mapWallet
      /\ t \notin CoinStakes /\ t \notin mapWallet
  BY DEF CommitTransaction, Available, IsCoinGenerated
<1>2. Correct(TheWallet, tip, doubt) /\ tip \in Blocks
  BY DEF WalletInv, PoolInv, TypeOK
<1>3. /\ TheWallet = [known |-> mapWallet, spent |-> vfSpent, block |-> hashBlock]
      /\ TheWallet' = [known |-> mapWallet \cup {t}, spent |-> vfSpent \cup Inputs[t], block |-> hashBlock]
  BY <1>1 DEF TheWallet
<1>4. WalletOK(TheWallet')
  BY <1>1, <1>2, <1>3 DEF Correct, WalletOK
<1>5. Explained(TheWallet')
  BY <1>2, <1>3 DEF Correct, Explained
<1>6. /\ Knows(TheWallet', Anc[tip])
      /\ doubt # "apart" => Places(TheWallet', Anc[tip]) /\ Flags(TheWallet', Anc[tip])
  BY <1>2, <1>3 DEF Correct, Knows, Places, Flags
<1>7. doubt = "none" => Repaid(TheWallet', tip, {})
  BY <1>1, <1>2, <1>3 DEF Correct, Repaid
<1>8. Correct(TheWallet', tip, doubt)
  BY <1>4, <1>5, <1>6, <1>7 DEF Correct
<1>9. madeAt' \in [Txs -> Blocks \cup {None}] /\ \A u \in Txs \ mapWallet' : madeAt'[u] = None
  BY <1>1, <1>2 DEF WalletInv
<1> QED BY <1>1, <1>8, <1>9 DEF WalletInv

LEMMA FixSpentCoinsKeeps ==
    ASSUME WalletInv, PoolInv', FixSpentCoins
    PROVE  WalletInv'
<1>1. /\ vfSpent' = {o \in vfSpent : ~ContainsTx(o[1])}
                       \cup {o \in Mine \cap SpentIn[tip] : o[1] \in mapWallet /\ ContainsTx(o[1])}
      /\ UNCHANGED <<tip, mapWallet, hashBlock, madeAt, doubt, refused>>
  BY DEF FixSpentCoins, vars
<1>2. TypeOK /\ ChainSpendsValid(tip) /\ Correct(TheWallet, tip, doubt) /\ tip \in Blocks
  BY DEF WalletInv, PoolInv, ChainInv, TypeOK
<1>3. /\ TheWallet = [known |-> mapWallet, spent |-> vfSpent, block |-> hashBlock]
      /\ TheWallet' = [known |-> mapWallet, spent |-> vfSpent', block |-> hashBlock]
  BY <1>1 DEF TheWallet
<1>4. WalletOK(TheWallet')
  <2>1. vfSpent' \in SUBSET Mine /\ \A o \in vfSpent' : o[1] \in mapWallet
    BY <1>1, <1>2, <1>3 DEF Correct, WalletOK
  <2> QED BY <1>2, <1>3, <2>1 DEF Correct, WalletOK
<1>5. ASSUME NEW o \in vfSpent', ContainsTx(o[1])
      PROVE  \E t \in mapWallet : o \in Inputs[t] /\ OnChain(t, tip)
  <2>1. o \in SpentOn(tip) /\ o \in Mine
    BY <1>1, <1>2, <1>5 DEF SpentIn
  <2>2. PICK c \in Anc[tip] : \E t \in TxsOf(c) : o \in Inputs[t]
    BY <2>1 DEF SpentOn, InputsOf
  <2>3. PICK t \in TxsOf(c) : o \in Inputs[t]
    BY <2>2
  <2>4. t \in mapWallet
    BY <1>2, <1>3, <2>1, <2>3 DEF Correct, Knows, Involves
  <2> QED BY <2>3, <2>4 DEF OnChain
<1>6. Explained(TheWallet')
  <2>1. \A o \in vfSpent' : \E t \in mapWallet : o \in Inputs[t]
    BY <1>1, <1>2, <1>3, <1>5 DEF Correct, Explained
  <2> QED BY <1>3, <2>1 DEF Explained
<1>7. Knows(TheWallet', Anc[tip]) /\ (doubt # "apart" => Places(TheWallet', Anc[tip]))
  BY <1>2, <1>3 DEF Correct, Knows, Places
<1>8. Flags(TheWallet', Anc[tip])
  <2> SUFFICES ASSUME NEW c \in Anc[tip], NEW o \in Mine, o \in InputsOf(c) PROVE o \in vfSpent'
    BY <1>3 DEF Flags
  <2>1. o \in SpentIn[tip]
    BY <1>2 DEF SpentIn, SpentOn
  <2>2. PICK e \in Anc[c] : o[1] \in TxsOf(e)
    BY <1>2, SourceBelow
  <2>3. e \in Anc[tip]
    BY <1>2, AncTransitive
  <2>4. ContainsTx(o[1]) /\ o[1] \in mapWallet
    BY <1>2, <1>3, <2>2, <2>3, MineFacts, ContainsIff DEF Correct, Knows, Involves
  <2> QED BY <1>1, <2>1, <2>4
<1>9. Repaid(TheWallet', tip, {})
  <2> SUFFICES ASSUME NEW o \in vfSpent', OnChain(o[1], tip)
               PROVE  \E t \in mapWallet : o \in Inputs[t] /\ OnChain(t, tip)
    BY <1>3 DEF Repaid
  <2>1. o[1] \in Txs
    BY <1>2, AncBasic, TxFacts DEF OnChain
  <2> QED BY <1>2, <1>5, <2>1, ContainsIff DEF OnChain
<1>10. Correct(TheWallet', tip, doubt)
  BY <1>4, <1>6, <1>7, <1>8, <1>9 DEF Correct
<1> QED BY <1>1, <1>10 DEF WalletInv

LEMMA WalletRestartKeeps ==
    ASSUME WalletInv, PoolInv', NEW c \in Underway \cup {tip}, NEW from \in Anc[tip], WalletRestart(c, from)
    PROVE  WalletInv'
<1> DEFINE S == IF from = tip THEN {} ELSE TxsIn(Anc[tip] \ (Anc[from] \ {from}))
           y == AfterMoving(TheWallet, c)
           x == Synced(y, S, Located[tip])
<1>1. /\ WalletBecomes(Reaccepted(x)) /\ UNCHANGED <<madeAt, refused, tip>>
      /\ doubt' = IF from = Genesis /\ tip # Genesis THEN "none"
                  ELSE IF c = tip THEN doubt
                  ELSE IF tip \in Anc[c] /\ doubt # "apart" THEN "ahead" ELSE "apart"
  BY DEF WalletRestart, Restart
<1>2. TypeOK /\ ChainInv /\ Correct(TheWallet, tip, doubt) /\ WalletOK(TheWallet) /\ TheWallet.known = mapWallet
  BY DEF WalletInv, PoolInv, Correct, TheWallet
<1>3. Correct(x, tip, doubt')
  BY <1>1, <1>2, RescanKeeps
<1>4. mapWallet \subseteq x.known
  <2>1. mapWallet \subseteq y.known
    BY <1>2, UnderwayValid, MovingKeeps
  <2>2. x.known = y.known \cup InvolvesMe(y, S)
    BY SyncedFields
  <2> QED BY <2>1, <2>2
<1> HIDE DEF x
<1>5. Correct(Reaccepted(x), tip, doubt') /\ Reaccepted(x).known = x.known
  BY <1>2, <1>3, ReacceptedKeeps
<1>6. Correct(TheWallet', tip, doubt')
  BY <1>1, <1>5, BecomesReads
<1>7. mapWallet \subseteq mapWallet'
  BY <1>1, <1>4, <1>5 DEF WalletBecomes
<1>8. doubt' \in {"none", "ahead", "apart"}
  BY <1>1 DEF WalletInv
<1> QED BY <1>1, <1>6, <1>7, <1>8 DEF WalletInv

LEMMA WalletStepKeeps == WalletInv /\ [WalletNext]_wvars => WalletInv'
<1> SUFFICES ASSUME WalletInv, [WalletNext]_wvars PROVE WalletInv'
  OBVIOUS
<1>1. PoolInv /\ PoolInv' /\ tip \in Blocks
  BY WalletStepIsPoolStep, PoolStepKeeps DEF WalletInv, PoolInv, TypeOK
<1>2. ASSUME Quiet, tip' = tip PROVE WalletInv'
  BY <1>1, <1>2 DEF Quiet, walletVars, WalletInv, TheWallet
<1>3. CASE \E t \in Txs : WalletSubmitTx(t) \/ WalletTxMessage(t)
  <2>1. PICK t \in Txs : /\ Acceptable(t) /\ tip' = tip
                         /\ Told(Synced(TheWallet, {t}, NoBlock))
    BY <1>3 DEF WalletSubmitTx, WalletTxMessage, SubmitTx, TxMessage
  <2>2. t \notin CoinStakes
    BY <2>1 DEF Acceptable, PassesFirstChecks, IsCoinGenerated
  <2> QED BY <1>1, <2>1, <2>2, ToldKeeps
<1>4. CASE \E t \in Txs : WalletTxMessageOrphan(t)
  BY <1>2, <1>4 DEF WalletTxMessageOrphan, TxMessageOrphan
<1>5. CASE \E t \in Txs : CommitTransaction(t)
  BY <1>1, <1>5, CommitKeeps
<1>6. CASE \E o \in todo : WalletAcceptOrphan(o)
  <2>1. pc = "orphans" /\ tip' = tip /\ Told(Synced(TheWallet, {msg}, NoBlock))
    BY <1>6 DEF WalletAcceptOrphan, AcceptOrphan
  <2>2. msg \in Txs /\ msg \notin CoinStakes
    BY <1>1, <2>1 DEF PoolInv, TypeOK, MessageInv, ChainInv, IsCoinGenerated
  <2> QED BY <1>1, <2>1, <2>2, ToldKeeps
<1>7. CASE (\E o \in todo : WalletPassOverOrphan(o)) \/ WalletNextInQueue \/ WalletEraseOrphans
  BY <1>2, <1>7 DEF WalletPassOverOrphan, WalletNextInQueue, WalletEraseOrphans, PassOverOrphan,
     NextInQueue, EraseOrphans
<1>8. CASE \E b \in Blocks : WalletConnectTip(b) \/ WalletReorganize(b)
  <2>1. PICK b \in Blocks : tip' = b /\ b \in ValidChains /\ Told(AfterMoving(TheWallet, b))
    BY <1>8 DEF WalletConnectTip, WalletReorganize, ConnectTip, Reorganize, MayBecomeBest
  <2>2. ChainSpendsValid(b)
    BY <2>1 DEF ValidChains
  <2> QED BY <1>1, <2>1, <2>2, MoveTold
<1>9. CASE \E b \in Blocks \ {Genesis} : ReorganizeFails(b)
  BY <1>1, <1>9, ReorganizeFailsKeeps
<1>10. CASE FixSpentCoins
  BY <1>1, <1>10, FixSpentCoinsKeeps
<1>11. CASE \E c \in Underway \cup {tip}, from \in (RescanFrom \cap Anc[tip]) \cup {tip} : WalletRestart(c, from)
  BY <1>1, <1>11, AncBasic, WalletRestartKeeps
<1>12. CASE UNCHANGED wvars
  BY <1>2, <1>12 DEF wvars, vars, Quiet
<1> QED BY <1>3, <1>4, <1>5, <1>6, <1>7, <1>8, <1>9, <1>10, <1>11, <1>12 DEF WalletNext, WalletLoopStep

LEMMA WalletInvariant == WalletSpec => []WalletInv
BY WalletInitOK, WalletStepKeeps, PTL DEF WalletSpec

\* What WalletInv says, in the words of Wallet.
LEMMA WalletInvImplies ==
    ASSUME WalletInv
    PROVE  WalletTypeOK /\ WalletAgreesWithChain /\ SpentCoinsFlagged /\ FlaggedHasSpender /\ StakesRefunded
<1>1. /\ TypeOK /\ ChainSpendsValid(tip) /\ tip \in Blocks /\ Correct(TheWallet, tip, doubt)
      /\ TheWallet.known = mapWallet /\ TheWallet.spent = vfSpent /\ TheWallet.block = hashBlock
  BY DEF WalletInv, PoolInv, ChainInv, TypeOK, TheWallet
<1>2. WalletTypeOK
  BY <1>1 DEF WalletTypeOK, WalletInv, Correct, WalletOK
<1>3. WalletAgreesWithChain
  <2> SUFFICES ASSUME doubt # "apart", NEW t \in Txs, ContainsTx(t), Involves(t)
               PROVE  t \in mapWallet /\ hashBlock[t] = LocatedIn(t)
    BY DEF WalletAgreesWithChain, Involves
  <2>1. PICK c \in Anc[tip] : t \in TxsOf(c)
    BY <1>1, ContainsIff
  <2>2. LocatedIn(t) = c
    BY <1>1, <2>1, LocatedAt DEF LocatedIn, Located
  <2> QED BY <1>1, <2>1, <2>2 DEF Correct, Places
<1>4. SpentCoinsFlagged
  <2> SUFFICES ASSUME doubt # "apart", NEW o \in Mine, o \in SpentOn(tip) PROVE o \in vfSpent
    BY <1>1 DEF SpentCoinsFlagged, SpentIn
  <2> QED BY <1>1 DEF SpentOn, Correct, Flags
<1>5. FlaggedHasSpender
  BY <1>1 DEF FlaggedHasSpender, Correct, Explained
<1>6. StakesRefunded
  <2> SUFFICES ASSUME doubt = "none", NEW o \in vfSpent, ContainsTx(o[1])
               PROVE  \E t \in mapWallet : o \in Inputs[t] /\ (t \in CoinStakes => ContainsTx(t))
    BY DEF StakesRefunded
  <2>1. o[1] \in Txs /\ mapWallet \subseteq Txs
    BY <1>1 DEF Correct, WalletOK
  <2>2. OnChain(o[1], tip)
    BY <1>1, <2>1, ContainsIff DEF OnChain
  <2>3. PICK t \in mapWallet : o \in Inputs[t] /\ (t \in CoinStakes => OnChain(t, tip))
    BY <1>1, <2>2 DEF Correct, Repaid
  <2> QED BY <1>1, <2>1, <2>3, ContainsIff DEF OnChain
<1> QED BY <1>2, <1>3, <1>4, <1>5, <1>6

\* The wallet's variables and the pool's have their types.
THEOREM WalletTypeCorrect == WalletSpec => []WalletTypeOK
BY WalletInvariant, WalletInvImplies, PTL

\* Unless a reorganisation was cut short or failed since the last full rescan, the
\* wallet has every transaction of the best chain that involves it, in its block.
THEOREM WalletFollowsChain == WalletSpec => []WalletAgreesWithChain
BY WalletInvariant, WalletInvImplies, PTL

\* Under the same condition, no own output the chain spends is offered to be spent.
THEOREM SpentIsFlagged == WalletSpec => []SpentCoinsFlagged
BY WalletInvariant, WalletInvImplies, PTL

\* Always: every coin flagged as spent has a spender in the wallet.
THEOREM FlagsExplained == WalletSpec => []FlaggedHasSpender
BY WalletInvariant, WalletInvImplies, PTL

\* Disconnecting a coinstake gives the wallet its stake back.
THEOREM StakeGivenBack == WalletSpec => []StakesRefunded
BY WalletInvariant, WalletInvImplies, PTL

\* Of the best chain the wallet never misses a transaction that involves it, not
\* even where a crash or a failed reorganisation has left it with wrong blocks.
THEOREM WalletForgetsNothing ==
    WalletSpec => [](\A t \in Txs : ContainsTx(t) /\ Involves(t) => t \in mapWallet)
<1>1. WalletInv => \A t \in Txs : ContainsTx(t) /\ Involves(t) => t \in mapWallet
  <2> SUFFICES ASSUME WalletInv, NEW t \in Txs, ContainsTx(t), Involves(t) PROVE t \in mapWallet
    OBVIOUS
  <2>1. TypeOK /\ Knows(TheWallet, Anc[tip]) /\ TheWallet.known = mapWallet
    BY DEF WalletInv, PoolInv, Correct, TheWallet
  <2> QED BY <2>1, ContainsIff DEF Knows
<1> QED BY <1>1, WalletInvariant, PTL
=============================================================================
