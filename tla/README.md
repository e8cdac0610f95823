# A TLA+ model of the Bitcrystal node

Bitcrystal (`src/src`) is a Bitcoin-derived node with hybrid proof of work and
proof of stake, LevelDB block storage, an encrypted wallet, a message-signed
"sync checkpoint" facility and a JSON-RPC server. This directory holds TLA+
modules translated from its source, the TLC runs that check them on small
instances and TLAPS proofs of the main results.

## 1. Inventory

| component | source | state it keeps | operations |
|---|---|---|---|
| transaction database | `txdb-leveldb.{h,cpp}` | one shared LevelDB, one write batch per `CTxDB` handle | Read, Write, Erase, Exists, TxnBegin, TxnCommit, TxnAbort |
| chain state | `main.cpp` 1133-2016 | `mapBlockIndex`, `pindexBest`, `pnext` links in memory; `hashNext`, tx index with spent pointers, `hashBestChain` on disk | AddToBlockIndex, SetBestChain, SetBestChainInner, Reorganize, ConnectBlock, DisconnectBlock, FetchInputs, ConnectInputs, DisconnectInputs, LoadBlockIndex at a restart |
| block intake | `main.cpp` 2019-2330 | `mapOrphanBlocks`, `mapOrphanBlocksByPrev`, `setStakeSeen`, `setStakeSeenOrphan` | CheckBlock, AcceptBlock, ProcessBlock |
| memory pool | `main.cpp` 560-776 | `mapTx`, `mapNextTx` | accept, addUnchecked, remove, removeConflicts |
| orphan transactions | `main.cpp` 200-258, 3262-3327 | `mapOrphanTransactions`, `mapOrphanTransactionsByPrev` | AddOrphanTx, EraseOrphanTx, LimitOrphanTxSize, the `tx` message |
| sync checkpoints | `checkpoints.cpp` | `hashSyncCheckpoint`, `hashPendingCheckpoint`, `hashInvalidCheckpoint` | ProcessSyncCheckpoint, AcceptPendingSyncCheckpoint, ResetSyncCheckpoint, CheckSync |
| stake kernel | `kernel.cpp` | stake modifiers in the block index | ComputeNextStakeModifier, CheckStakeKernelHash |
| wallet | `wallet.cpp`, `walletdb.cpp` | `mapWallet` with the block and the spent flags of every transaction, in memory and in `wallet.dat` | AddToWallet, WalletUpdateSpent, DisableTransaction, CommitTransaction, FixSpentCoins, ReacceptWalletTransactions, ScanForWalletTransactions |
| key pool | `wallet.cpp` 1955-2113, 2310-2345 | `setKeyPool`, the pool records in `wallet.dat`, an index held by every `CReserveKey` | TopUpKeyPool, ReserveKeyFromKeyPool, KeepKey, ReturnKey, GetKeyFromPool, NewKeyPool |
| keystore | `keystore.cpp`, `crypter.cpp` | keys, the master key | Lock, Unlock, EncryptKeys |
| miner | `miner.cpp` | last search interval, a block template | CreateNewBlock, CheckWork, StakeMiner |
| address manager | `addrman.{h,cpp}` | `mapInfo`, `vRandom`, `vvNew`, `vvTried`, `nNew`, `nTried`; `peers.dat` | Add, Good, Attempt, Select, GetAddr, dump and load |
| network | `net.cpp`, `main.cpp` 2835-3761 | nodes, buffers, inventory to send, `mapAlreadyAskedFor` | connect, disconnect, ProcessMessages, SendMessages |
| script | `script.cpp` | evaluation stacks | EvalScript, SignSignature |
| check queue | `checkqueue.h` | a work queue and its workers; nothing includes the header | Add, Wait, Loop |
| alerts | `alert.cpp` | `mapAlerts` | ProcessAlert, cancellation |
| RPC, GUI, utilities | `rpc*.cpp`, `qt/`, `util.cpp` | none of their own that consensus depends on; `qt/locale/*.ts` are translations, data without behaviour | calls into the above |

The `ProcessMessages` thread, the staking thread, the RPC threads and the GUI
all take `cs_main` before they touch the chain, the pool or the orphan maps, so
each of those handlers runs to its end against the others; what can come
between two steps of a handler is a crash, and what can come between two
handlers is anything. The hard behaviours are therefore:

* a reorganisation, which is one database transaction over many blocks but
  whose memory part, wallet callbacks and memory-pool updates are not covered
  by that transaction;
* a crash between two commits and the restart that rebuilds memory from disk;
* blocks, transactions and checkpoints arriving in any order, so that the
  orphan maps and the pending checkpoint have to replay them;
* failure in the middle of a multi-step operation;
* the wallet file, which is written in place while the chain is still inside a
  database transaction, so that the two can disagree after a failure;
* a miner thread that takes a key from the pool, lets go of `cs_wallet`, and
  gives the key back after the pool may have been refilled or renewed;
* redundant indexes (orphan maps, pool maps, the tables of the address manager)
  that many operations update piece by piece.

What makes each part correct: a read sees the open transaction; the database
describes the chain it names, after any failure; the main chain does not leave
the checkpoint, which moves only up; an orphan is held only while its parent is
missing; pool, orphan index and chain agree; the wallet knows what happened to
its coins; a key is given out once and none is lost; an address is new or tried
and never counted wrongly.

## 2. The modules and the code

```
 BlockTree ---- Ledger ---- ChainState ==implements==> BestChain
     |             \------- MemPool ---- Wallet
     \--------- SyncCheckpoint <==implements== BlockIntake
 TxDB        KeyPool        AddrMan
```

A solid line is EXTENDS. `...Proofs` modules hold theorems, `MC...` modules the
small universes TLC runs on.

| module | stands for | what a variable or action is in the code |
|---|---|---|
| `TxDB` | `CTxDB` | `db` is LevelDB, `batch[h]` a handle's `activeBatch`; `ApplyBatch` is what LevelDB does with the operations of a batch, one after the other, `ScanBatch` the search of `Read` for the last one on a key; `TxnBegin`, `TxnCommit` (also failing), `TxnAbort`, `Write`, `Erase`, `Read`, `Exists`, and a crash |
| `BlockTree` | `CBlockIndex` | the constants `Prev`, `Height`, `ChainTrust` are `pprev`, `nHeight`, `nChainTrust`; `Anc[b]` is b with everything below it |
| `Ledger` | `CTransaction`, `CBlock` | transactions, outpoints and values as constants; the input, maturity, BIP30, fee and reward rules of `ConnectBlock`; what the database should hold for a chain |
| `ChainState` | `AddToBlockIndex`, `SetBestChain`, `Reorganize`, `SetBestChainInner`, `ConnectBlock`, `DisconnectBlock`, `LoadBlockIndex` | see below |
| `BestChain` | (abstract) | what the committed chain promises: known, valid, and given up only for more trust |
| `SyncCheckpoint` | `checkpoints.cpp`, `AcceptBlock` | `sync`, `pending`, `invalid` are the three hashes, `index` and `best` the chain in memory, `disk` the committed one; `AcceptBlock`, `AddToBlockIndex`, the commits of `SetBestChain` (`CommitIntermediate`, `CommitPostponed`, with what refuses them), `AcceptPendingSyncCheckpoint`, `ProcessSyncCheckpoint`, `SendSyncCheckpoint`, `WriteSyncCheckpoint`, each commit also failing, and `CrashAndRestart` with `ResetSyncCheckpoint` |
| `BlockIntake` | `ProcessBlock` | `orphans`, `byPrev`, `stakeSeenOrphan` are the holding area; `ProcessBlock` rejects, holds or accepts; `AcceptOrphan`, `ReturnFromOrphan`, `NextInQueue` are its loop over `vWorkQueue`; `asked` are outstanding requests to peers |
| `MemPool` | `CTxMemPool`, the orphan transactions, the `tx` message | `mapTx`, `mapNextTx`, `orphans`, `byPrev`; `queue` is `vWorkQueue` and `current` the position of its loop; `TxMessage`, `TxMessageOrphan`, `AcceptOrphan`, `PassOverOrphan`, `NextInQueue`, `EraseOrphans` are the handler, `SubmitTx` is `sendrawtransaction`, `ConnectTip` and `Reorganize` what a new best chain does to the pool, `Restart` what the wallet offers again at a start |
| `Wallet` | `CWallet` and what it is told | `mapWallet`, `vfSpent`, `hashBlock`; every action of `MemPool` together with the `SyncWithWallets` call it makes; `ReorganizeFails`; `CommitTransaction` (with `CreateTransaction`), `FixSpentCoins`, `WalletRestart` |
| `KeyPool` | the key pool, `CReserveKey` | `setKeyPool`, `pool` (the records), `nIndex[m]` the index a miner holds, `given` the keys handed out; one action per caller |
| `AddrMan` | `CAddrMan` | the variables have the names of the members; an `nId` is its address; `AddNew`, `AddAgain`, `MakeTried` (`Good_`), `GetAddr`, `Restart` (dump and load) |

`ChainState` splits one call of `SetBestChain` into the steps between which a
crash makes a difference. `disk` is what was last committed, `view` what reads
inside the open transaction return. That a read inside a transaction sees the
transaction's own writes is the result `ReadConsistent` about `TxDB`; it is why
`ChainState` need not carry a batch. `pc` follows the code:

```
idle --AddToBlockIndex--> set --ExtendBestChain--> inner --ConnectBlock, CommitInner--> done (or inner again)
                           \---BeginReorganize--> reorganize --DisconnectBlock*, ConnectBlock*,
                                                   CommitReorganize--> done (or inner, for vpindexSecondary)
done --NewBestBlock--> idle          any failure --> idle, or done for a postponed block
```

`AddToBlockIndex` puts a block into `mapBlockIndex` before it commits the entry;
when that commit fails (`AddToBlockIndexFails`) the block is known in memory only.
A descendant can still be stored, so that a later start finds an index with a
hole: `InsertBlockIndex` then makes an entry without contents for the missing
block, and neither module follows the node any further (`pc` is "halted").

`SyncCheckpoint` has the commits of `SetBestChain` without the ledger. It is
called for a new block of more trust or for a checkpoint, whatever its trust.
The first commit goes as far as `pindexIntermediate`; then each block of
`vpindexSecondary` has one, and when a block or its commit fails there, the
function returns true all the same with `best` set to the target, ahead of
`disk.best`. What `ConnectBlock` decides is left open where the ledger would be
needed: a block in `Doubtful` may be refused or not, each time it is tried, and
once memory has been ahead of the disk (`InStep` is false) any block may be,
because `Reorganize` then disconnects and connects on a transaction index that
is not that of `pindexBest`; a commit made in that state may leave the index that
of no chain (`disk.torn`). `IsInMainChain` looks at a `pnext` link, which is missing
in places while memory is ahead; either answer is possible there.

`MemPool` and `Wallet` take the committed chain from `LocationOn` and
`SpentOn`, which `DiskFollowsChain` shows to be what the database holds.

`Wallet` joins the pool, the chain and the wallet: an action of `MemPool` and
the effect of the callback are one step, because `cs_main` is held. The
callbacks of a whole reorganisation come before its commit, so a failure or a
crash can leave the wallet anywhere on the way (`Underway`): `WalletRestart(c,
from)` is a stop with the wallet told of the way to c and the database
unchanged, then a start that rescans from a block on. The variable `doubt`
remembers whether that has happened since the last full rescan: after a crash
on the way to an extension ("ahead") the wallet merely knows too much, after
one on the way to another branch, or a reorganisation that failed ("apart"),
flags of the branch in use may be lost until a rescan. The properties say which
of the two they tolerate. `Mine` is constant: keys are not imported. In the
code the network threads start a moment before `ReacceptWalletTransactions`; in
the model the start finishes first.

In `KeyPool` keys are numbered in the order of their generation, so "an index
written twice" and "a key given out twice" are different things and both can be
seen. RPC calls hold `cs_wallet` throughout; only the miners hold an index across
steps, because `CreateNewBlock` reserves and returns under the lock separately.

`AddrMan` leaves times open, so which entry `ShrinkNew` removes and which
`SelectTried` evicts is any the code could choose for some times. `Attempt_`,
`Connected_` and `Select_` change nothing but times and take no step.

What is abstracted: hashes are identities of blocks and transactions;
signatures, scripts, proof of work, timestamps and stake kernels are constant
sets (`Unsound`, `Refused`, `NonStandard`, `Signed`, `Kernel`); all transactions
have one minimum fee; coin age is given per block in units that earn one base
unit of money per percent of interest.

## 3. The runs

| run | configuration | result |
|---|---|---|
| `txdb` | two handles, two keys, two values, batches of three operations; symmetric | `ReadSeesOwnWrites`: a read returns what applying the handle's own batch in order would leave, and `Exists` is wrong in one case only |
| `chain` | two branches of five blocks over one trunk block, stake blocks on both, in two years of the stake reward: a4 claims that of the first year, b5 more than any year allows; a crash at every step, commits that fail, `AddToBlockIndex`'s included | `DiskAgreesWithChain`, `MemoryAgreesWithDisk`, `DisconnectNeverFails`, `NoInflation`, `RefusedForAReason`, `KeepsPromise` |
| `chain_ahead` | the same tree, b5 invalid; postponed reconnects may fail as well | `SetBestChain` still ends (`ProcessingEnds`) and hashBestChain only gains trust (`CommittedTrustGrows`) |
| `chain_postponed` | b4 a double spend, commits work | **violated**: memory names a best block that was never connected |
| `intake` | STRICT mode on the master node; seven blocks in a heavier and a lighter branch, three of them with one stake, one refused, one that `ConnectBlock` may refuse, one with too little work; three signed checkpoints; reorganisations that end halfway, crashes, failing commits, changes of the master key | `OrphanMapsAgree`; from every state in which memory and disk are on the checkpoint, no step takes either off it (`SyncInMainChain`); a checkpoint written with the two in step keeps its entry (`SyncAccepted`); `SyncOnlyAdvances`; `ProcessBlock` implements `SyncCheckpoint` |
| `intake_live` | STRICT mode on the master node; the same blocks, the last of the lower branch, y3, one that `ConnectBlock` may refuse; checkpoints for y2 and y3; requests answered, commits work | `HeldOnlyForMissingParent`, `NoCheckpointForgotten` (also while the checkpoint at y3 fails again and again); `OrphansResolved`: every orphan is resolved unless it hangs on a block the checkpoint bars |
| `intake_stuck` | STRICT mode; `ConnectBlock` may refuse y2 | **violated**: an orphan is held although its parent is known |
| `wallet` | three branches that share or contradict transactions, one staked by the wallet and one that fails in `ConnectBlock`; chains of orphans, at most two kept, one free transaction; crashes, full rescans, repairs | pool: `PoolMapsAgree`, `PoolAndChainDisjoint`, `OrphanIndexAgrees`, `DependentsFollow`, `OrphansRetried`, `MessageHandled`; wallet: `WalletAgreesWithChain`, `SpentCoinsFlagged`, `FlaggedHasSpender`, `StakesRefunded` |
| `wallets_know_pool` | the same | **violated**: an accepted orphan is not shown to the wallets |
| `wallet_commit` | the same without rescans and repairs | **violated**: the pool refuses a transaction the wallet made, after its change was marked unspent |
| `keypool` | two symmetric miners, `-keypool` 2, refills of 0 (the default) and 3, nine keys | `GivenOnce`, `PoolBacked`, `NoKeyLost` |
| `addrman` | four symmetric addresses, three sources with a new bucket of one place each, a tried bucket of two | `Check` (the tests of `Check_`: `RefCountsAgree`, `TriedXorNew`, `CountsAgree`, `RandomAgrees`), `BucketsBounded`, `DumpKeepsAll`, `TriedNotDeleted` |

**Bounds.** The trees are the smallest on which every branch of the code is
taken: an extension, a reorganisation that ends at its first heavier block, one
that goes on with postponed blocks, one that goes back again, and a branch that
fails in the middle. A transaction is in both branches (location and spent
pointers must be moved, not only added), another spends it in the same block
(the order of disconnecting matters), and a coin is staked. In `TxDB` a second
operation on a key is what could go wrong in a batch; `MaxBatch` = 3 allows that
and one on another key between them. `MaxOrphans` = 2 with three possible orphans reaches the
limit; the constant in the code is `MAX_BLOCK_SIZE/100`. `Maturity` = 2 (in
`chain`) and `Maturity` = 1 with `ExtraMaturity` = 1 (in `wallet`; the code has
10 for it) make both a mature and an immature spend possible, and coins that are
mature for the chain and not yet for the wallet. `YearlyBlockCount` = 4 in `chain` puts
the tips of the branches into the second year and their lower blocks into the
first, so that a4, valid on its own parent, is refused by a node on b4; the other
runs stay within one year (100), which their properties do not depend on.
`RescanFrom` are the blocks a start may rescan from: the genesis block, which is
`-rescan`, beside the best block, which is no rescan at all. `Repairs` turns
`repairwallet` on; `wallet_commit` turns both off to show that neither is to
blame. In `KeyPool`, `Target` = 2 with refills to 3 and `MaxKey` = 9 leaves room
for two rounds of top-up after an encryption, with both miners holding an index
before, between and after. In `AddrMan`, `NewSize`, `TriedSize`, `PerAddress`,
`Inspect`, `MaxPercent` and `MaxNodes` stand for 64, 64, 4, 4, 23 and 2500: a
bucket of one place is full at once, and three new buckets are more than the two
an address may be in. Blocks and transactions are compared by height and
content, so no symmetry is used on them; handles, miners and addresses are
interchangeable.

**Fairness.** Handlers hold `cs_main` from start to end and do not wait for
anything, so a started handler goes on: weak fairness of the handler's own
steps (`SetBestChainStep`, `ProcessBlockStep`, `WalletLoopStep`) and of nothing
else.
Arrivals, crashes and failures are never fair. `intake_live` moreover assumes
that a block the node has asked for is delivered in the end (strong fairness,
because a delivery is possible only between handlers); the code itself repeats
its requests through `getblocks` and `inv`, and without some peer that answers
nothing can be promised. `intake_live` is in STRICT mode, the default
(`init.cpp:372`): a block that contradicts the checkpoint is delivered and refused,
and the orphans above it are never dropped. `OrphansResolved` excepts those, and
only those (`BarredByCheckpoint`).

## 4. What is proved

Everything here holds for every value of the constants that meets the
assumptions, which TLC evaluates on every run:

* `TreeAssumption`: heights and trusts increase along the tree.
* `TxAssumption`: a block starts with a coinbase that carries its height, no
  other transaction is without inputs, no transaction occurs twice in a block.
* `RewardAssumption`: a proof-of-stake block has a coinstake, and one that passes
  `CheckBlock` has a coinbase with one empty output (`main.cpp:2047-2051`).
* `CheckpointAssumption`, `TxDBAssumption`, `KeyPoolAssumption`,
  `AddrManAssumption` (which also says that there are finitely many new buckets;
  the code has 256), and the assumptions of `MemPool` and `Wallet`: types and
  sizes.

**`TxDBProofs`**: `TypeCorrect`, `ReadConsistent`. `ApplyBatch` goes through the batch from
its first operation on, `ScanBatch` looks for the last one on a key; that the two
agree for a batch of any length is shown by an induction on its prefixes that
takes the claim as a set of numbers (a smallest counterexample).

**`BlockTreeProofs`, `LedgerProofs`**: lemmas. `Anc` is defined as a least closed
set, not by recursion, so its facts (a chain is linear, the ancestors of a child
are those of the parent and the child itself) are proved without induction over
data. `LedgerProofs` shows that in a valid chain no transaction is located in two
blocks (`OneLocation`) and no output is spent twice (`OneSpender`), which is what
makes disconnecting a block the inverse of connecting it. Its second half is
about money. The library's induction theorems cannot be used, so
`SubsetInduction` takes the claim as a set of subsets and argues with a smallest
counterexample; from it follow that a sum over a finite set does not depend on
the order (`TotalRemove`) and can be split (`TotalUnion`, `TotalFamily`), and then
`MoneyStep`: a valid block changes the value of the unspent outputs by what its
coinbase pays and its coinstake gains, less its fees.

**`ChainStateProofs`**: `TypeCorrect`, `DiskFollowsChain`, `MemoryFollowsDisk`,
`AlwaysDisconnects`, `ImplementsBestChain`, `OnlyRefusedForAReason`,
`NothingFromNowhere`, `TrustOfCommittedGrows`.

* The first properties are not inductive: that the disk agrees with its chain
  after a commit depends on what the open transaction held, and where. The
  invariant `IInv` adds `IndexInv` (memory knows the blocks of the disk and perhaps
  more, closed under pprev, with the same links), `DiskInv` (the disk's chain is
  valid), `ViewInv` (the open transaction holds the ledger of the block it has
  reached, and adds to the index the entries of the blocks it connects, which a
  failed `AddToBlockIndex` may have left out)
  and `ControlInv` (where `SetBestChain` is going: the goal is an ancestor of the
  target with more trust than the committed best block, and the position is
  between best and goal). `ConnectAgrees` and `DisconnectAgrees` are the two steps
  that carry `ViewInv`.
* `NothingFromNowhere` (`NoInflation`) needs `MoneyInv`: the bound holds for the
  committed chain, for the chain the open transaction stands on, and for every
  chain below either, because `Reorganize` goes back to one of those before it
  connects a branch. `MintAllowed` shows that whatever year `pindexBest` is in,
  the reward granted is within five percent of the coin age.
* `OnlyRefusedForAReason` (`RefusedForAReason`) makes no assumption about years: the
  reason it names is a rule broken on the ledger of the block's own ancestors, with
  the stake reward of the year of the old best block, as the code has it
  (section 5).
* `TypeCorrect` is about `Spec`; the others are about `SpecSafe`, the behaviours in
  which no postponed reconnect fails, because memory and disk disagree otherwise
  (run `chain_postponed`). `TrustOfCommittedGrows` is about `Spec` again: with
  memory possibly ahead of the disk, `TrustInv` only compares trusts (memory's
  best block never weighs less than the committed one while a decision is taken,
  and the goal of a handler outweighs both), and `AncTrust` carries it along
  `vpindexSecondary`.

**`BlockIntakeProofs`**, first about `SyncCheckpoint`: `TypeCorrect`,
`MainChainKeepsCheckpoint`, `CheckpointIsKnown`, `CheckpointAdvances`,
`PendingIsAdopted`. The invariant `IInv` says how memory and disk are related
(`StoreInv`: the index on disk is part of that in memory and, unless the database is
torn, has the whole chain of `disk.best`), on whose behalf a step is taken
(`CallerInv`) and where it leads (`HandlerInv`: what is about to become best descends
from the checkpoint, what is about to be written is in the main chain and descends
from the current checkpoint, and the postponed blocks lead from `disk.best` to the
target).

* `MainChainKeepsCheckpoint` and `CheckpointIsKnown` are action properties, because
  the state they speak of can be left out by the code itself: a checkpoint written
  while memory is ahead of the disk is not on disk's chain. What is proved is that
  nothing takes memory or disk off a checkpoint once both are on it, crashes and
  failed commits included. The point that needs an argument is the commit as far
  as `pindexIntermediate`: it is an ancestor of the target, and
  `IntermediateAboveCheckpoint` shows by the comparison of trusts that it is not
  below the checkpoint.
* `PendingIsAdopted` is about `SpecDiskWorks`: a commit that fails leaves the
  checkpoint pending. `PendingInv` says that a pending checkpoint whose block is
  known is on a doubtful chain, or being dealt with, or the node is `Behind` (torn,
  or memory ahead), which `BehindStays` shows only a restart to end.

Then about `BlockIntake`: `IntakeTypeCorrect`, `OrphanBlockMapsAgree`,
`IntakeRefinesCheckpoint`, `HeldOnlyForMissing`, and the four results about
checkpoints again for a node whose blocks come through the holding area
(`IntakeKeepsMainChain`, `IntakeCheckpointKnown`, `IntakeCheckpointAdvances`,
`IntakePendingAdopted`).

* `IntakeInv` says what the loop of `ProcessBlock` is doing: `vWorkQueue` is empty
  outside it, the block `AcceptBlock` is given inside it is an orphan of the front
  of the queue and the one it is given before it is no orphan (`LoopInv`), and an
  orphan is filed under its parent (`FiledInv`). The refinement follows step by
  step: a step of the loop is a step of `SyncCheckpoint`, a call of its
  `AcceptBlock`, or a move from one phase to the next.
* `HeldOnlyForMissing` is about `IntakeLiveSpec`, where commits work. The
  invariant `TurnInv` says that a held block whose parent is known will have its
  turn (the parent is in the queue or is being accepted), unless the parent rests
  on a doubtful block or the node is `Behind`; `NotKnownInv` says that an orphan is
  unknown; `HeldForUnconnected` is what remains in general, and
  `HeldOnlyForMissingParent` what it says if no block is doubtful, where the node
  never falls behind (`NeverBehindStep`). The run
  `intake_stuck` shows that the condition is needed.

**`WalletProofs`**: the pool and the wallet, about `WalletSpec`.

* `WalletRefinesPool`: every step with the wallet beside the pool is a step of
  `MemPool`. `PoolInv` (the types, the state of the message loop, a valid chain
  and no coinbase or coinstake in the pool, the three invariants themselves) is
  inductive and gives `PoolMapsConsistent`, `PoolOffChain`, `OrphansIndexed`; the
  action property `DependentsThrownOut` follows from it and from the closure that
  `remove` computes. That no coinbase or coinstake is in the pool is needed for
  reorganisations: those are not put back.
* `OrphansAreRetried` needs `RetryInv`: an orphan with a parent on the work queue is
  among those being visited, or that parent or another is still to come, or a
  parent is missing.
* `WalletTypeCorrect`, `WalletFollowsChain`, `SpentIsFlagged`, `FlagsExplained`,
  `StakeGivenBack`, `WalletForgetsNothing`. The invariant `Correct` is stated of a
  wallet value and a block, so that it can be used of the wallet in the middle of
  a reorganisation, where it has been told of some blocks: what is flagged is
  explained (`Explained`), what the chain has is known (`Knows`) and placed
  (`Places`), what the chain spends is flagged (`Flags`) and coinstakes off the
  chain are repaid (`Repaid`), each as far as `doubt` allows. One lemma per
  callback (connecting, disconnecting, a loose transaction, a rescan, a repair)
  shows that it is kept. `RescanFrom` is any set of blocks here, so partial
  rescans are covered, which the runs leave out.

**`KeyPoolProofs`**: `KeyPoolTypeOK`, `KeysGivenOnce`, `PoolAlwaysBacked`,
`NoKeyEverLost`, for any number of miners and any sizes. The invariant is stated
of a pool value, so that it can be used of the pool in the middle of an
operation: `Below` (no index runs ahead of the generated keys), `Unused` (what has
a record has not been given out) and, for a plain wallet with -keypool above 0,
`Apart` (the indices in memory and those the miners hold are distinct and have
records, and the greatest index of all is in memory, so that a top-up never
starts on one in use) and `Complete` (nothing is lost). The greatest index is in
memory because a reservation follows a top-up to at least two; it is what fails
for -keypool=0 and after `NewKeyPool`.

**`AddrManProofs`**: `TypeCorrect`, `TablesAgree` (`Check`), `NoBucketOutgrown`,
`DumpLosesNothing` (`DumpKeepsAll`), `TriedStays` (`TriedNotDeleted`), for any
addresses, sources, assignment of buckets and sizes.

* The invariant `Good` is stated of a value of the manager, because an operation
  is composed of several changes (`Create`, `SwapRandom`, `Erase`, `ShrinkNew`,
  `LeftNew`), each of which has a lemma saying what it does to each table. It has
  one part per table: `RandomInv` (vRandom is a bijection and the positions are
  its inverse, which is what makes swapping and erasing at the end correct),
  `NewInv` and `RefsInv` (references are counted by the buckets that hold the
  entry, and a new entry has 1 to `PerAddress` of them), `TriedInv`, `CountInv`,
  `SizeInv`. `Check` alone is not inductive: that buckets hold only known entries
  is needed to see that the entry `Add_` creates has no reference yet, and that
  no bucket is over its size to see that loading loses nothing; `Good` states them
  together, in the form the lemmas use.
* Between `Create` and the end of `Add_` an entry has no reference; `Entering` is
  `Good` but for that entry. When `MakeTried` evicts, the entry's home bucket or
  the one the address has just left has place, which `SizeInv` turns into the
  comment "there is certainly place there".
* The three loops (`SelectTried`, `GetAddr_`, reading the tried entries) are
  recursive functions. `StepByStep` is induction over the natural numbers with
  the claim as a set; it gives that the function exists (`RoundsExist`,
  `RandomRoundsExist`, `LoadsExist`) and what it has done after n rounds: the
  bucket is rearranged, vRandom is reordered with its positions, the tried
  entries read so far are in their buckets.
* `DumpLosesNothing` counts twice: nNew and nTried are the numbers of entries of
  each kind, so the dump cuts nothing off, and the tried entries of a bucket
  fitted into it before, so no round of loading finds the bucket full.

**Only model-checked**: liveness (`ProcessingEnds`, `OrphansResolved`,
`MessageHandled`), which the prover does not handle.

## 5. Disagreements found

* **`SetBestChain` after a failed postponed block** (`main.cpp:1818`): the loop
  over `vpindexSecondary` stops, and the function still makes `pindexNew` the
  best block in memory, against "The memory index structure will be changed
  after the db commits" (`main.cpp:1480`, `1619`). A restart repairs it.
* **Orphans of an indexed but unconnectable block** (`main.cpp:2301`) stay in the
  holding area with their parent known, against `main.cpp:2269`.
* **Wallets and orphans** (`main.cpp:3298`): an accepted orphan is reported to the
  wallets as the transaction that triggered it, against `main.cpp:135`.
* **Spending unconfirmed change** (`wallet.cpp:370-385`): the block that confirms
  a transaction marks its outputs unspent, also one that a pending transaction
  of the wallet spends. The wallet spends it again and the pool refuses, against
  "This must not fail" (`wallet.cpp:1788`). A restart offers the pending
  transaction again; nothing sets the flag before that is confirmed.

Observed while modelling, without a run of their own:

* `Exists` (`txdb-leveldb.h:154`) finds a key in LevelDB that its own batch
  deletes, against `txdb-leveldb.cpp:181`; `ReadSeesOwnWrites` states this case and
  that there is no other.
* A checkpoint written while memory is ahead of the disk (`checkpoints.cpp:416` after
  a failed postponed block, `main.cpp:1818`) can name a block that the chain on disk
  never reached, or one whose index entry was refused. After a crash the node is
  then not on its checkpoint, or stops in the assertion of `CheckSync`.
  `SyncInMainChain` and `SyncAccepted` speak of checkpoints written in step.
* A refused commit of `AddToBlockIndex` (`main.cpp:1996`) leaves the block in
  `mapBlockIndex`. A second copy is refused as already known, descendants are
  stored, and the next start finds an index with a hole. Connecting a descendant
  before that stores the entry after all.
* In STRICT mode orphans above a block the checkpoint bars are held until the node
  stops (`OrphansResolved`).
* `setStakeSeenOrphan` (`main.cpp:2317`) forgets a stake while another orphan with
  it is held, against `main.cpp:2278`.
* `CheckWork` "Remove key from key pool" (`miner.cpp:469`) keeps the key of
  `BitcoinMiner`'s own `CReserveKey`, which never reserved one; the key of the
  block was reserved by `CreateNewBlock` (`miner.cpp:129`) and is back in the pool.
* `SelectTried` (`addrman.cpp:142`) returns the position from which the least
  recently tried entry was just swapped away.
* `GetProofOfStakeReward` (`main.cpp:1004`) takes the year from `pindexBest`. A node
  that stands on b4, in the second year, judges the coinstake of a4, whose parent is
  in the first, by the lower rate and refuses it, though a node that saw a4 first
  accepts it; the two stay apart until one chain outweighs the other by other
  means. This happens in the run `chain`; `RefusedForAReason` says that it is the only
  way in which a chain of blocks that are all right is refused.
* The orphans of a transaction are looked for only when a `tx` message puts it in
  the pool. An orphan that meanwhile got there through `sendrawtransaction` is
  refused by `accept`, erased as invalid and not put on the work queue
  (`main.cpp:3296-3310`), so its own orphans stay until one of their parents comes
  again. `OrphansRetried` is about the transactions of the work queue.
* With an encrypted wallet, or with `-keypool=0`, an index a miner holds can lose
  its record or have it overwritten (the conditions of `PoolBacked`).

## 6. Not modelled, and the plan

Left out of what is modelled: money supply bookkeeping (`nMint`,
`nMoneySupply`); what a node does after a start on an index with a hole; the
ledger during a `SetBestChain` on behalf of a checkpoint (`SyncCheckpoint` leaves
the answer of `ConnectBlock` open there, `ChainState` does not have the case);
`LoadBlockIndex` going back when a block on disk is damaged; writes that the operating system loses in a
power failure; the first start, which is `Init`.

Of the wallet: coin selection, fees, accounts, importing keys, making coinstakes,
resending, the keystore and a crash inside `EncryptWallet`. Of the address
manager: times and the choices they govern. Of the miner: everything but its use
of keys.

What could be added next:

1. The reload of an index with a hole, with the entries `InsertBlockIndex` makes.
2. `Net`: node life cycle, reference counts, `mapAlreadyAskedFor`.
3. Pure algorithms against reference definitions: `GetNextTargetRequired`, the
   stake modifier; and `CreateNewBlock` over `MemPool`.

Not planned: the script interpreter and the cryptography (pure functions over
bit strings, constants here), the RPC and Qt layers (formatting and calls into
the above) with its translations (`qt/locale/*.ts`, texts only), the check queue
(included by nothing), alerts, LevelDB, JSON and Zerocoin (third-party code).
