----------------------------- MODULE ChainState -----------------------------
(***************************************************************************)
(* Best-chain selection (src/src/main.cpp): AddToBlockIndex, SetBestChain, *)
(* Reorganize, SetBestChainInner, ConnectBlock and DisconnectBlock over    *)
(* the transaction database, and the reload of memory after a crash        *)
(* (CTxDB::LoadBlockIndex).                                                *)
(*                                                                         *)
(* cs_main is held throughout, so one block is processed at a time; the    *)
(* steps of the processing are separate actions because a crash can come   *)
(* between them.  The database batch is modelled by view, the contents     *)
(* reads inside the transaction return (see TxDB: ReadConsistent); commit  *)
(* makes it the contents of the disk, abort drops it.                      *)
(***************************************************************************)
EXTENDS Ledger

VARIABLES
    index,         \* the blocks of mapBlockIndex
    pnext,         \* CBlockIndex::pnext, None for NULL
    best,          \* pindexBest (hashBestChain, nBestHeight, nBestChainTrust)
    invalidTrust,  \* nBestInvalidTrust, also in the database
    disk,          \* committed database contents
    view,          \* database contents as the open batch shows them
    pc,            \* where SetBestChain is
    target,        \* pindexNew of SetBestChain
    goal,          \* block whose connection ends the open transaction
    at             \* block on which view stands: the loops' position

mem == <<index, pnext, best, invalidTrust>>
ctl == <<pc, target, goal, at>>
vars == <<mem, disk, view, ctl>>

-----------------------------------------------------------------------------
\* Database contents: "blockindex" entries with hashNext, "tx" entries (the
\* block a transaction is located in, the outputs with a spent pointer) and
\* "hashBestChain".
Database == [index : SUBSET Blocks,
             next  : [Blocks -> Blocks \cup {None}],
             pos   : [Txs -> Blocks \cup {None}],
             spent : SUBSET OutPoints,
             best  : Blocks]

Phases == {"idle",        \* no block is being processed
           "set",         \* AddToBlockIndex has committed; SetBestChain is next
           "reorganize",  \* in Reorganize
           "inner",       \* in SetBestChainInner
           "done",        \* the chain is connected; the final assignments are next
           "halted"}      \* restarted on a block index with a hole

TypeOK ==
    /\ index \subseteq Blocks
    /\ pnext \in [Blocks -> Blocks \cup {None}]
    /\ best \in Blocks
    /\ invalidTrust \in Nat
    /\ disk \in Database
    /\ view \in Database
    /\ pc \in Phases
    /\ target \in Blocks
    /\ goal \in Blocks
    /\ at \in Blocks

\* The genesis block is indexed and best but never connected, so its coinbase
\* is not in the transaction index.
GenesisDatabase ==
    [index |-> {Genesis},
     next  |-> [b \in Blocks |-> None],
     pos   |-> [t \in Txs |-> None],
     spent |-> {},
     best  |-> Genesis]

Init ==
    /\ index = {Genesis}
    /\ pnext = [b \in Blocks |-> None]
    /\ best = Genesis
    /\ invalidTrust = 0
    /\ disk = GenesisDatabase
    /\ view = GenesisDatabase
    /\ pc = "idle"
    /\ target = Genesis
    /\ goal = Genesis
    /\ at = Genesis

-----------------------------------------------------------------------------
\* Mutant: a coinstake may pay itself any reward.
RewardAllowedToAll(b) == IsProofOfStake(b) \/ ValueOut(Vtx[b][1]) <= GetProofOfWorkReward(b)

\* Mutant: exactly the allowed reward is refused.
RewardAllowedStrictly(b) ==
    IF IsProofOfStake(b)
    THEN StakeReward(b) < GetProofOfStakeReward(b, Height[best])
    ELSE ValueOut(Vtx[b][1]) < GetProofOfWorkReward(b)

\* GetProofOfStakeReward takes the year from pindexBest, not from the block.
RewardAllowed(b) ==
    IF IsProofOfStake(b)
    THEN StakeReward(b) <= GetProofOfStakeReward(b, Height[best])
    ELSE ValueOut(Vtx[b][1]) <= GetProofOfWorkReward(b)

ConnectBlockSucceeds(v, b) ==
    /\ SpendsValid(v, b)
    /\ b \notin Unsound
    /\ FeesPaid(b)
    /\ RewardAllowed(b)

\* Mutant: the block's own entry is taken to be there already.
ConnectWithoutEntry(v, b) ==
    [v EXCEPT !.pos   = [t \in Txs |-> IF t \in TxsOf(b) THEN b ELSE v.pos[t]],
              !.spent = {o \in v.spent : o[1] \notin TxsOf(b)} \cup InputsOf(b),
              !.next  = [v.next EXCEPT ![Prev[b]] = b],
              !.index = v.index \cup {Prev[b]}]

\* The queued transaction-index changes and the two block-index writes; the
\* block's own entry is written with the pnext it has in memory.
ConnectBlockUpdate(v, b) ==
    [v EXCEPT !.pos   = [t \in Txs |-> IF t \in TxsOf(b) THEN b ELSE v.pos[t]],
              !.spent = {o \in v.spent : o[1] \notin TxsOf(b)} \cup InputsOf(b),
              !.next  = [v.next EXCEPT ![b] = pnext[b], ![Prev[b]] = b],
              !.index = v.index \cup {b, Prev[b]}]

\* DisconnectInputs, from the last transaction to the first: the entry of each
\* input's transaction must still be there to be updated.
\* Mutant: from the first transaction to the last.
DisconnectForwardSucceeds(v, b) ==
    \A i \in DOMAIN Vtx[b] : \A o \in Inputs[Vtx[b][i]] :
        v.pos[o[1]] # None /\ o[1] \notin TxsBefore(b, i)

DisconnectBlockSucceeds(v, b) ==
    \A i \in DOMAIN Vtx[b] : \A o \in Inputs[Vtx[b][i]] :
        v.pos[o[1]] # None /\ o[1] \notin TxsAfter(b, i)

\* Mutant: the previous block keeps its hashNext.
DisconnectKeepsLink(v, b) ==
    [v EXCEPT !.pos   = [t \in Txs |-> IF t \in TxsOf(b) THEN None ELSE v.pos[t]],
              !.spent = {o \in v.spent \ InputsOf(b) : o[1] \notin TxsOf(b)},
              !.index = v.index \cup {Prev[b]}]

DisconnectBlockUpdate(v, b) ==
    [v EXCEPT !.pos   = [t \in Txs |-> IF t \in TxsOf(b) THEN None ELSE v.pos[t]],
              !.spent = {o \in v.spent \ InputsOf(b) : o[1] \notin TxsOf(b)},
              !.next  = [v.next EXCEPT ![Prev[b]] = None],
              !.index = v.index \cup {Prev[b]}]

-----------------------------------------------------------------------------
\* CheckProofOfStake reads the staked transaction from the main chain's index.
AcceptBlockSucceeds(b) ==
    /\ b \notin index
    /\ Prev[b] \in index
    /\ IsProofOfStake(b) => disk.pos[Kernel[b][1]] # None

\* Mutant: a block of equal trust replaces the best one.
AddToBlockIndexOnTie(b) ==
    /\ pc = "idle"
    /\ b # Genesis
    /\ AcceptBlockSucceeds(b)
    /\ index' = index \cup {b}
    /\ disk' = [disk EXCEPT !.index = @ \cup {b}]
    /\ IF ChainTrust[b] >= ChainTrust[best]
       THEN pc' = "set" /\ target' = b
       ELSE UNCHANGED <<pc, target>>
    /\ UNCHANGED <<pnext, best, invalidTrust, view, goal, at>>

AddToBlockIndex(b) ==
    /\ pc = "idle"
    /\ b # Genesis
    /\ AcceptBlockSucceeds(b)
    /\ index' = index \cup {b}
    /\ disk' = [disk EXCEPT !.index = @ \cup {b}]
    /\ IF ChainTrust[b] > ChainTrust[best]
       THEN pc' = "set" /\ target' = b
       ELSE UNCHANGED <<pc, target>>
    /\ UNCHANGED <<pnext, best, invalidTrust, view, goal, at>>

\* The block is put into mapBlockIndex before its entry is committed, and stays
\* there when LevelDB refuses the commit: AddToBlockIndex only returns false.
AddToBlockIndexFails(b) ==
    /\ pc = "idle"
    /\ b # Genesis
    /\ AcceptBlockSucceeds(b)
    /\ index' = index \cup {b}
    /\ UNCHANGED <<pnext, best, invalidTrust, disk, view, ctl>>

\* Mutant: the position is taken from the forward link of the old tip.
ExtendFromNext ==
    /\ pc = "set"
    /\ Prev[target] = best
    /\ pc' = "inner"
    /\ goal' = target
    /\ at' = pnext[best]
    /\ view' = disk
    /\ UNCHANGED <<mem, disk, target>>

\* SetBestChain, hashPrevBlock == hashBestChain.
ExtendBestChain ==
    /\ pc = "set"
    /\ Prev[target] = best
    /\ pc' = "inner"
    /\ goal' = target
    /\ at' = Prev[target]
    /\ view' = disk
    /\ UNCHANGED <<mem, disk, target>>

\* Mutant: the walk back goes on while the trust is equal.
ReorganizeToTie ==
    /\ pc = "set"
    /\ Prev[target] # best
    /\ pc' = "reorganize"
    /\ \E b \in Anc[target] \ {Genesis} :
          /\ ChainTrust[Prev[b]] < ChainTrust[best]
          /\ \A c \in Anc[target] \ Anc[b] : ChainTrust[Prev[c]] >= ChainTrust[best]
          /\ goal' = b
    /\ at' = best
    /\ view' = disk
    /\ UNCHANGED <<mem, disk, target>>

\* SetBestChain, otherwise: Reorganize goes as far as pindexIntermediate, the
\* first block of the branch with more trust than the best chain; the blocks
\* after it are connected afterwards (vpindexSecondary).
BeginReorganize ==
    /\ pc = "set"
    /\ Prev[target] # best
    /\ pc' = "reorganize"
    /\ \E b \in Anc[target] \ {Genesis} :
          /\ ChainTrust[Prev[b]] <= ChainTrust[best]
          /\ \A c \in Anc[target] \ Anc[b] : ChainTrust[Prev[c]] > ChainTrust[best]
          /\ goal' = b
    /\ at' = best
    /\ view' = disk
    /\ UNCHANGED <<mem, disk, target>>

InvalidChainFound(b) ==
    invalidTrust' = IF ChainTrust[b] > invalidTrust THEN ChainTrust[b] ELSE invalidTrust

\* Mutant: the chain is tried again.
GiveUpRetries ==
    /\ pc' = "set"
    /\ InvalidChainFound(target)
    /\ UNCHANGED <<index, pnext, best, disk, view, target, goal, at>>

\* Reorganize or the first SetBestChainInner failed: SetBestChain returns false.
GiveUp ==
    /\ pc' = "idle"
    /\ InvalidChainFound(target)
    /\ UNCHANGED <<index, pnext, best, disk, view, target, goal, at>>

DisconnectBlock ==
    /\ pc = "reorganize"
    /\ at \notin Anc[goal]
    /\ DisconnectBlockSucceeds(view, at)
    /\ view' = DisconnectBlockUpdate(view, at)
    /\ at' = Prev[at]
    /\ UNCHANGED <<mem, disk, pc, target, goal>>

DisconnectBlockFails ==
    /\ pc = "reorganize"
    /\ at \notin Anc[goal]
    /\ ~DisconnectBlockSucceeds(view, at)
    /\ GiveUp

\* The next block to connect: the child of at on the way to goal.
OnTheWay(b) == b \in Anc[goal] \ {Genesis} /\ Prev[b] = at

ConnectBlock ==
    /\ pc \in {"reorganize", "inner"}
    /\ \E b \in Blocks :
          /\ OnTheWay(b)
          /\ ConnectBlockSucceeds(view, b)
          /\ view' = ConnectBlockUpdate(view, b)
          /\ at' = b
    /\ UNCHANGED <<mem, disk, pc, target, goal>>

\* SetBestChainInner for a block of vpindexSecondary: pindexBest is still the
\* tip of the old branch.
Postponed == pc = "inner" /\ Prev[goal] # best

ConnectBlockFails ==
    /\ pc \in {"reorganize", "inner"}
    /\ ~Postponed
    /\ \E b \in Blocks : OnTheWay(b) /\ ~ConnectBlockSucceeds(view, b)
    /\ GiveUp

\* "errors now are not fatal": the loop ends and SetBestChain goes on.
PostponedBlockFails ==
    /\ Postponed
    /\ \E b \in Blocks : OnTheWay(b) /\ ~ConnectBlockSucceeds(view, b)
    /\ InvalidChainFound(goal)
    /\ pc' = "done"
    /\ UNCHANGED <<index, pnext, best, disk, view, target, goal, at>>

\* WriteHashBestChain and TxnCommit.
CommitBest == disk' = [view EXCEPT !.best = goal]

\* After a commit: the next block of vpindexSecondary, in a new transaction, or
\* the end of SetBestChain.
NextPostponed ==
    IF goal = target
    THEN pc' = "done" /\ UNCHANGED <<view, goal>>
    ELSE /\ pc' = "inner"
         /\ view' = disk'
         /\ \E b \in Anc[target] \ {Genesis} : Prev[b] = goal /\ goal' = b

\* Mutant: the forward links of the old branch are left in memory.
CommitReorganizeKeepsLinks ==
    /\ pc = "reorganize"
    /\ at = goal
    /\ CommitBest
    /\ LET connected == Anc[goal] \ Anc[best]
           NextOf(b) == {c \in connected : Prev[c] = b}
       IN  pnext' = [b \in Blocks |->
                        IF NextOf(b) # {} THEN OnlyOf(NextOf(b)) ELSE pnext[b]]
    /\ NextPostponed
    /\ UNCHANGED <<index, best, invalidTrust, target, at>>

\* The end of Reorganize: memory follows the commit.
CommitReorganize ==
    /\ pc = "reorganize"
    /\ at = goal
    /\ CommitBest
    /\ LET connected    == Anc[goal] \ Anc[best]
           disconnected == Anc[best] \ Anc[goal]
           NextOf(b)    == {c \in connected : Prev[c] = b}
       IN  pnext' = [b \in Blocks |->
                        IF NextOf(b) # {} THEN OnlyOf(NextOf(b))
                        ELSE IF \E d \in disconnected : Prev[d] = b THEN None
                        ELSE pnext[b]]
    /\ NextPostponed
    /\ UNCHANGED <<index, best, invalidTrust, target, at>>

\* The end of SetBestChainInner.
CommitInner ==
    /\ pc = "inner"
    /\ at = goal
    /\ CommitBest
    /\ pnext' = [pnext EXCEPT ![Prev[goal]] = goal]
    /\ NextPostponed
    /\ UNCHANGED <<index, best, invalidTrust, target, at>>

\* LevelDB refuses the batch, which is gone all the same: Reorganize and the
\* first SetBestChainInner make SetBestChain return false; only the former
\* reports an invalid chain.
CommitFails ==
    /\ pc \in {"reorganize", "inner"}
    /\ at = goal
    /\ ~Postponed
    /\ pc' = "idle"
    /\ IF pc = "reorganize" THEN InvalidChainFound(target) ELSE UNCHANGED invalidTrust
    /\ UNCHANGED <<index, pnext, best, disk, view, target, goal, at>>

PostponedCommitFails ==
    /\ Postponed
    /\ at = goal
    /\ pc' = "done"
    /\ UNCHANGED <<mem, disk, view, target, goal, at>>

\* The assignments at the end of SetBestChain.
NewBestBlock ==
    /\ pc = "done"
    /\ best' = target
    /\ pc' = "idle"
    /\ UNCHANGED <<index, pnext, invalidTrust, disk, view, target, goal, at>>

\* The process dies and is started again: LoadBlockIndex.  A parent whose entry a
\* failed AddToBlockIndex left out comes back as an entry without contents
\* (InsertBlockIndex); the node is not followed any further then.
CrashAndRestart ==
    /\ index' = disk.index
    /\ pnext' = disk.next
    /\ best' = disk.best
    /\ pc' = IF ClosedUnderPrev(disk.index) THEN "idle" ELSE "halted"
    /\ UNCHANGED <<invalidTrust, disk, view, target, goal, at>>

-----------------------------------------------------------------------------
\* The steps of SetBestChain, short of a refused commit or postponed block.
SetBestChainStep ==
    \/ ExtendBestChain \/ BeginReorganize
    \/ DisconnectBlock \/ DisconnectBlockFails
    \/ ConnectBlock \/ ConnectBlockFails
    \/ CommitReorganize \/ CommitInner
    \/ NewBestBlock

PostponedFails == PostponedBlockFails \/ PostponedCommitFails

NextSafe ==
    \/ \E b \in Blocks : AddToBlockIndex(b) \/ AddToBlockIndexFails(b)
    \/ SetBestChainStep
    \/ CommitFails
    \/ CrashAndRestart

Next == NextSafe \/ PostponedFails

\* cs_main is released only when the handler returns, so it runs to its end.
Spec == Init /\ [][Next]_vars /\ WF_vars(SetBestChainStep \/ PostponedFails)

\* The behaviours in which every reconnect that SetBestChain postpones succeeds.
SpecSafe == Init /\ [][NextSafe]_vars /\ WF_vars(SetBestChainStep)

\* The behaviours in which no commit fails; a crash may still come at any time.
SpecDiskWorks ==
    Init /\ [][\/ \E b \in Blocks : AddToBlockIndex(b)
              \/ SetBestChainStep
              \/ PostponedBlockFails
              \/ CrashAndRestart]_vars

-----------------------------------------------------------------------------
\* The database agrees with a chain: block index entries, hashNext links, locations,
\* spent pointers.
Agrees(v, b) ==
    /\ Anc[b] \subseteq v.index
    /\ v.next = NextOn(b)
    /\ v.pos = LocationOn(b)
    /\ v.spent = SpentOn(b)

\* After every commit, and so after a crash at any point, the transaction index
\* and the forward links on disk are those of the chain hashBestChain names,
\* however many blocks were disconnected and connected to get there; and every
\* block of that chain has its entry, also one whose own AddToBlockIndex failed.
DiskAgreesWithChain == Agrees(disk, disk.best)

\* "The memory index structure will be changed after the db commits"
\* (main.cpp:1480, 1619): between blocks, memory describes what is on disk.  The
\* index in memory may have more blocks (a failed AddToBlockIndex leaves its block
\* there), but none of the main chain.
MemoryAgreesWithDisk ==
    pc = "idle" => /\ best = disk.best
                   /\ pnext = disk.next
                   /\ disk.index \subseteq index
                   /\ (index \ disk.index) \cap Anc[best] = {}

\* A reorganisation can always get off the current chain: DisconnectInputs finds
\* the index entry of every input it gives back.
DisconnectNeverFails ==
    pc = "reorganize" /\ at \notin Anc[goal] => DisconnectBlockSucceeds(view, at)

\* No coin from nowhere: the unspent outputs of the committed chain are worth at
\* most what its blocks were allowed to create.
UnspentValue == MapThenSumSet(LAMBDA o : Value[o[1]][o[2]],
                              {o \in OutPoints : disk.pos[o[1]] # None} \ disk.spent)
Allowance(b) == IF IsProofOfStake(b) THEN 5 * CoinAge[b] ELSE Subsidy
NoInflation == UnspentValue <= MapThenSumSet(Allowance, Anc[disk.best] \ {Genesis})

\* A chain is refused for a reason of its own: when SetBestChain gives up on a
\* heavier chain, in Reorganize or in SetBestChainInner, on whatever branch the
\* node stands and however the branch was cut into transactions, one of the blocks
\* to be connected breaks a rule on the ledger of its own ancestors.  The stake
\* reward is no reason of its own: it is that of the year of the old best block
\* (GetProofOfStakeReward), so that a chain valid block by block is refused by a
\* node whose other branch has already reached the next year.
KeepsRules(c, rewardHeight) ==
    /\ SpendsValid(LedgerOf(Prev[c]), c) /\ c \notin Unsound /\ FeesPaid(c)
    /\ IF IsProofOfStake(c) THEN StakeReward(c) <= GetProofOfStakeReward(c, rewardHeight)
                            ELSE ValueOut(Vtx[c][1]) <= GetProofOfWorkReward(c)
RefusedForAReason ==
    [][SetBestChainStep /\ pc' = "idle" =>
          \/ best' = target
          \/ \E c \in Anc[target] \ Anc[best] : ~KeepsRules(c, Height[best])]_vars

\* SetBestChain comes to an end, whatever is connected, postponed or refused.
ProcessingEnds == pc \notin {"idle", "halted"} ~> pc \in {"idle", "halted"}

\* The committed chain is what BestChain promises.
ValidTips == {b \in Blocks : ChainSpendsValid(b)}
Promise == INSTANCE BestChain WITH Chain <- Anc, known <- disk.index, tip <- disk.best
KeepsPromise == Promise!Spec

\* Even where memory has run ahead of the disk, hashBestChain only ever moves to
\* a block of more trust.
CommittedTrustGrows ==
    [][disk'.best # disk.best => ChainTrust[disk'.best] > ChainTrust[disk.best]]_vars
=============================================================================
