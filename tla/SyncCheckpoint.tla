--------------------------- MODULE SyncCheckpoint ---------------------------
(***************************************************************************)
(* Synchronised checkpoints (src/src/checkpoints.cpp) and the part of      *)
(* CBlock::AcceptBlock (src/src/main.cpp) that they are entangled with.  A *)
(* signed checkpoint names a block; the node must have it in its main      *)
(* chain and, in STRICT mode, accepts no block that contradicts it.  A     *)
(* checkpoint whose block is unknown waits in hashPendingCheckpoint.       *)
(*                                                                         *)
(* cs_main is held, so handlers do not interleave, but each of their       *)
(* database commits is a step of its own, may fail, and a crash can come   *)
(* between two.  SetBestChain is that of ChainState with the ledger left   *)
(* out: one commit as far as pindexIntermediate, then one for each of the  *)
(* postponed blocks, after whose failure the best block in memory is ahead *)
(* of the one on disk.  Whether ConnectBlock refuses a doubtful block is   *)
(* left open, and so is, once memory is ahead, whether it refuses any.     *)
(***************************************************************************)
EXTENDS BlockTree

CONSTANTS
    Mode,           \* CheckpointsMode: "STRICT", "ADVISORY" or "PERMISSIVE"
    Signed,         \* the blocks for which signed checkpoints exist
    HasMasterKey,   \* strMasterPrivKey is set: this node issues checkpoints
    MasterDepth,    \* how deep a block the master issues a checkpoint for must be
    Refused,        \* blocks AcceptBlock's checks of the block itself refuse
    Doubtful        \* blocks ConnectBlock may refuse: it depends on the chain
                    \* they are connected on and on the year of pindexBest

ASSUME CheckpointAssumption ==
    /\ Mode \in {"STRICT", "ADVISORY", "PERMISSIVE"}
    /\ Signed \subseteq Blocks
    /\ HasMasterKey \in BOOLEAN
    /\ MasterDepth \in Nat
    /\ Genesis \notin Refused \cup Doubtful

VARIABLES
    index,      \* mapBlockIndex
    best,       \* pindexBest
    disk,       \* the database: index entries, hashBestChain, and whether the
                \* transaction index may be that of no chain
    sync,       \* hashSyncCheckpoint, in memory and on disk
    pending,    \* hashPendingCheckpoint, None for 0
    invalid,    \* hashInvalidCheckpoint, None for 0
    pc,         \* where AcceptBlock or the checkpoint handler is
    cur,        \* the block AcceptBlock is working on
    chk,        \* the checkpoint about to be written
    caller,     \* on whose behalf SetBestChain and WriteSyncCheckpoint are called
    ok          \* what AcceptBlock returned

chainVars == <<index, best, disk>>
syncVars == <<sync, pending, invalid>>
callVars == <<cur, chk, caller>>
vars == <<chainVars, syncVars, pc, callVars, ok>>

Phases == {"idle",
           "index",      \* in AddToBlockIndex: the commit of the block's entry is next
           "set",        \* in SetBestChain: the commit of pindexIntermediate is next
           "postponed",  \* in SetBestChain: the loop over vpindexSecondary
           "accepted",   \* in AcceptBlock: AcceptPendingSyncCheckpoint is next
           "write",      \* in a checkpoint handler: WriteSyncCheckpoint is next
           "returned",   \* AcceptBlock has returned ok
           "queue",      \* in ProcessBlock: its loop over the orphans (BlockIntake)
           "send",       \* at the end of ProcessBlock: SendSyncCheckpoint is next
           "halted"}     \* restarted on a block index with a hole

\* AcceptBlock, AcceptPendingSyncCheckpoint within it, ProcessSyncCheckpoint.
Callers == {"block", "pending", "message"}

Database == [index : SUBSET Blocks, best : Blocks, torn : BOOLEAN]

TypeOK ==
    /\ index \subseteq Blocks
    /\ best \in Blocks
    /\ disk \in Database
    /\ sync \in Blocks
    /\ pending \in Blocks \cup {None}
    /\ invalid \in Blocks \cup {None}
    /\ pc \in Phases
    /\ cur \in Blocks
    /\ chk \in Blocks
    /\ caller \in Callers
    /\ ok \in BOOLEAN

Init ==
    /\ index = {Genesis}
    /\ best = Genesis
    /\ disk = [index |-> {Genesis}, best |-> Genesis, torn |-> FALSE]
    /\ sync = Genesis
    /\ pending = None
    /\ invalid = None
    /\ pc = "idle"
    /\ cur = Genesis
    /\ chk = Genesis
    /\ caller = "block"
    /\ ok = FALSE

-----------------------------------------------------------------------------
\* Memory and disk describe the same chain.
InStep == best = disk.best /\ ~disk.torn

ChainConnects(b) == Anc[b] \cap Doubtful = {}

\* pnext || this == pindexBest.  The links of the main chain have gaps when memory
\* is ahead of the disk: for one of its blocks either answer is possible then.
IsInMainChain(b) == b \in Anc[best]
IsNotInMainChain(b) == b \notin Anc[best] \/ (b # best /\ ~InStep)

\* Mutant: an older checkpoint of the same branch is adopted, not ignored.
ValidateOlderToo(c) == c # sync /\ (sync \in Anc[c] \/ c \in Anc[sync])

\* Only a proper descendant of the current checkpoint is allowed; a checkpoint
\* that is merely older is ignored, one on another branch is recorded.  If the block
\* of the current checkpoint is missing, no other is allowed.
ValidateSyncCheckpoint(c) == sync \in index /\ Height[c] > Height[sync] /\ sync \in Anc[c]
Conflicting(c) ==
    /\ sync \in index
    /\ IF Height[c] <= Height[sync] THEN c \notin Anc[sync] ELSE sync \notin Anc[c]

\* Mutant: a block at the height of the checkpoint is not compared with it.
CheckSyncAbove(b) ==
    /\ Height[b] > Height[sync] => sync \in Anc[Prev[b]]
    /\ Height[b] < Height[sync] => b \in index

CheckSync(b) ==
    /\ Height[b] > Height[sync] => sync \in Anc[Prev[b]]
    /\ Height[b] = Height[sync] => b = sync
    /\ Height[b] < Height[sync] => b \in index

-----------------------------------------------------------------------------
\* The checks before CheckSync, and CheckSync itself.
BlockChecks(b) ==
    /\ b \notin index
    /\ b # Genesis /\ Prev[b] \in index
    /\ b \notin Refused
AcceptBlockChecks(b) == BlockChecks(b) /\ (Mode = "STRICT" => CheckSync(b))

Return(r) == pc' = "returned" /\ ok' = r

\* AcceptBlock as far as AddToBlockIndex's insertion into mapBlockIndex.  When the
\* block of the checkpoint is missing, the assertion in CheckSync stops the process:
\* what follows is Restart.
AcceptBlock(b) ==
    /\ BlockChecks(b) => sync \in index
    /\ cur' = b /\ caller' = "block"
    /\ IF AcceptBlockChecks(b)
       THEN index' = index \cup {b} /\ pc' = "index" /\ UNCHANGED ok
       ELSE Return(FALSE) /\ UNCHANGED index
    /\ UNCHANGED <<best, disk, syncVars, chk>>

\* AddToBlockIndex commits the entry and compares the trust.
AddToBlockIndex ==
    /\ pc = "index"
    /\ disk' = [disk EXCEPT !.index = @ \cup {cur}]
    /\ pc' = IF ChainTrust[cur] > ChainTrust[best] THEN "set" ELSE "accepted"
    /\ UNCHANGED <<index, best, syncVars, callVars, ok>>

\* The commit fails; the block stays in mapBlockIndex.
AddToBlockIndexFails ==
    /\ pc = "index"
    /\ Return(FALSE)
    /\ UNCHANGED <<chainVars, syncVars, callVars>>

-----------------------------------------------------------------------------
\* SetBestChain.  pindexNew, and where its callers go on from its return value: to
\* AcceptPendingSyncCheckpoint or out of AcceptBlock; to WriteSyncCheckpoint or, with
\* hashInvalidCheckpoint set, out of the checkpoint handler, whose own return value
\* AcceptBlock ignores.
Target == IF caller = "block" THEN cur ELSE chk

EndOfCheckpoint == IF caller = "pending" THEN Return(TRUE) ELSE pc' = "idle" /\ UNCHANGED ok

SetBestChainTrue ==
    /\ best' = Target
    /\ pc' = IF caller = "block" THEN "accepted" ELSE "write"
    /\ UNCHANGED <<invalid, ok>>

SetBestChainFalse ==
    /\ IF caller = "block" THEN Return(FALSE) /\ UNCHANGED invalid
                           ELSE EndOfCheckpoint /\ invalid' = chk
    /\ UNCHANGED <<chainVars, sync, pending, callVars>>

\* pindexIntermediate: the target itself where it extends the best block.
IsIntermediate(i) ==
    /\ i \in Anc[Target] \ {Genesis}
    /\ ChainTrust[Prev[i]] <= ChainTrust[best]
    /\ \A c \in Anc[Target] \ Anc[i] : ChainTrust[Prev[c]] > ChainTrust[best]

Connected(i) == Anc[i] \ Anc[best]
Disconnected(i) == Anc[best] \ Anc[i]

\* ConnectBlock writes the entries of its block and of the one before, DisconnectBlock
\* only the latter.  The database describes a chain afterwards if it did before.
CommitIntermediate ==
    /\ pc = "set"
    /\ \E i \in Blocks :
          /\ IsIntermediate(i)
          /\ disk' = [index |-> disk.index \cup Connected(i)
                                 \cup {Prev[b] : b \in Connected(i) \cup Disconnected(i)},
                      best  |-> i,
                      torn  |-> ~InStep]
          /\ IF i = Target THEN SetBestChainTrue
                           ELSE pc' = "postponed" /\ UNCHANGED <<best, invalid, ok>>
    /\ UNCHANGED <<index, sync, pending, callVars>>

\* Reorganize or the first SetBestChainInner refuses a block.
IntermediateRefused ==
    /\ pc = "set"
    /\ ~InStep \/ \E i \in Blocks : IsIntermediate(i) /\ Connected(i) \cap Doubtful # {}
    /\ SetBestChainFalse

IntermediateCommitFails == pc = "set" /\ SetBestChainFalse

\* The next block of vpindexSecondary.
IsNextPostponed(b) == b \in Anc[Target] \ {Genesis} /\ Prev[b] = disk.best

CommitPostponed ==
    /\ pc = "postponed"
    /\ \E b \in Blocks :
          /\ IsNextPostponed(b)
          /\ disk' = [disk EXCEPT !.index = @ \cup {b, Prev[b]}, !.best = b]
          /\ IF b = Target THEN SetBestChainTrue ELSE UNCHANGED <<best, invalid, pc, ok>>
    /\ UNCHANGED <<index, sync, pending, callVars>>

\* "errors now are not fatal": pindexBest becomes pindexNew all the same.
PostponedEnds ==
    /\ SetBestChainTrue
    /\ UNCHANGED <<index, disk, sync, pending, callVars>>

PostponedRefused ==
    /\ pc = "postponed"
    /\ disk.torn \/ \E b \in Doubtful : IsNextPostponed(b)
    /\ PostponedEnds

PostponedCommitFails == pc = "postponed" /\ PostponedEnds

-----------------------------------------------------------------------------
\* The checkpoint's block is brought into the main chain, if it is not there, before
\* the checkpoint is written.
AdoptCheckpoint(c, who) ==
    /\ chk' = c /\ caller' = who
    /\ \/ IsInMainChain(c) /\ pc' = "write"
       \/ IsNotInMainChain(c) /\ pc' = "set"
    /\ UNCHANGED <<chainVars, syncVars, cur, ok>>

\* Mutant: the pending checkpoint is looked at only after a new best block.
AcceptPendingAtTip ==
    /\ pc = "accepted"
    /\ IF pending \notin index \/ cur # best
       THEN Return(TRUE) /\ UNCHANGED <<chainVars, syncVars, callVars>>
       ELSE IF ValidateSyncCheckpoint(pending)
       THEN AdoptCheckpoint(pending, "pending")
       ELSE /\ pending' = None
            /\ invalid' = IF Conflicting(pending) THEN pending ELSE invalid
            /\ Return(TRUE)
            /\ UNCHANGED <<chainVars, sync, callVars>>

AcceptPendingSyncCheckpoint ==
    /\ pc = "accepted"
    /\ IF pending \notin index
       THEN Return(TRUE) /\ UNCHANGED <<chainVars, syncVars, callVars>>
       ELSE IF ValidateSyncCheckpoint(pending)
       THEN AdoptCheckpoint(pending, "pending")
       ELSE /\ pending' = None
            /\ invalid' = IF Conflicting(pending) THEN pending ELSE invalid
            /\ Return(TRUE)
            /\ UNCHANGED <<chainVars, sync, callVars>>

\* Mutant: the block need not be known.
ProcessUnknownCheckpoint(c) ==
    IF ValidateSyncCheckpoint(c)
    THEN AdoptCheckpoint(c, "message")
    ELSE /\ invalid' = IF Conflicting(c) THEN c ELSE invalid
         /\ pc' = "idle"
         /\ UNCHANGED <<chainVars, sync, pending, callVars, ok>>

\* A signed checkpoint is processed; whether its block is known decides.
ProcessSyncCheckpoint(c) ==
    IF c \notin index
    THEN /\ pending' = c
         /\ pc' = "idle"
         /\ UNCHANGED <<chainVars, sync, invalid, callVars, ok>>
    ELSE IF ValidateSyncCheckpoint(c)
    THEN AdoptCheckpoint(c, "message")
    ELSE /\ invalid' = IF Conflicting(c) THEN c ELSE invalid
         /\ pc' = "idle"
         /\ UNCHANGED <<chainVars, sync, pending, callVars, ok>>

\* AutoSelectSyncCheckpoint walks back from the tip to a block that is deep and
\* old enough, or to the first one; how old blocks are is left open.
AutoSelectSyncCheckpoint ==
    {c \in Anc[best] : c = Genesis \/ Height[c] + MasterDepth <= Height[best]}

\* The master node issues a checkpoint for a block of its own main chain.
SendSyncCheckpoint ==
    /\ pc = "send"
    /\ \E c \in AutoSelectSyncCheckpoint : ProcessSyncCheckpoint(c)

\* WriteSyncCheckpoint commits, and the caller clears the pending checkpoint.
WriteSyncCheckpoint ==
    /\ pc = "write"
    /\ sync' = chk
    /\ pending' = None
    /\ EndOfCheckpoint
    /\ UNCHANGED <<chainVars, invalid, callVars>>

\* Its commit fails.
WriteSyncCheckpointFails ==
    /\ pc = "write"
    /\ EndOfCheckpoint
    /\ UNCHANGED <<chainVars, syncVars, callVars>>

\* ProcessBlock ends; after an accepted block the master node issues a checkpoint.
ReturnFromBlock ==
    /\ pc = "returned"
    /\ pc' = "idle" \/ (HasMasterKey /\ pc' = "send")
    /\ UNCHANGED <<chainVars, syncVars, callVars, ok>>

\* The process dies and is started again: the database is read back, and
\* ResetSyncCheckpoint goes back to the last hardened checkpoint, which is the
\* genesis block, if the new release has another master key.  An index with a hole
\* comes back with an entry without contents; the node is not followed any further.
CrashAndRestart(newKey) ==
    /\ index' = disk.index
    /\ best' = disk.best
    /\ sync' = IF newKey THEN Genesis ELSE sync
    /\ pending' = None
    /\ invalid' = None
    /\ pc' = IF ClosedUnderPrev(disk.index) THEN "idle" ELSE "halted"
    /\ UNCHANGED <<disk, callVars, ok>>

-----------------------------------------------------------------------------
\* The steps of the handler that is running, no commit failing.
HandlerStep ==
    \/ AddToBlockIndex
    \/ CommitIntermediate \/ IntermediateRefused
    \/ CommitPostponed \/ PostponedRefused
    \/ AcceptPendingSyncCheckpoint
    \/ WriteSyncCheckpoint
    \/ SendSyncCheckpoint

CommitFails ==
    \/ AddToBlockIndexFails
    \/ IntermediateCommitFails
    \/ PostponedCommitFails
    \/ WriteSyncCheckpointFails

\* The "checkpoint" message.
CheckpointArrives == pc = "idle" /\ \E c \in Signed : ProcessSyncCheckpoint(c)

\* ProcessBlock calls AcceptBlock for the block it was given and then for the
\* orphans that were waiting for it.
BlockArrives == pc \in {"idle", "returned"} /\ \E b \in Blocks : AcceptBlock(b)

Restart == \E newKey \in BOOLEAN : CrashAndRestart(newKey)

NextDiskWorks ==
    \/ BlockArrives
    \/ HandlerStep
    \/ ReturnFromBlock
    \/ CheckpointArrives
    \/ Restart

Next == NextDiskWorks \/ CommitFails

Spec == Init /\ [][Next]_vars

\* The behaviours in which no commit fails.
SpecDiskWorks == Init /\ [][NextDiskWorks]_vars

-----------------------------------------------------------------------------
\* "only descendant of sync-checkpoint can pass check" (CheckSync): in STRICT mode no
\* block, checkpoint, reorganisation in parts, failed commit or crash takes the main
\* chain off the checkpoint, neither the one in memory nor the one on disk.  A
\* checkpoint that is written while memory is ahead of the disk starts outside this
\* promise: a crash may lose its block.
CheckpointHeld == sync \in Anc[best] /\ sync \in Anc[disk.best]
SyncInMainChain ==
    [][Mode = "STRICT" /\ CheckpointHeld /\ (sync' = sync \/ InStep) => CheckpointHeld']_vars

\* "sync-checkpoint should always be accepted block": the assertion in CheckSync never
\* stops the node.  Whatever order blocks and checkpoints come in, and although a block
\* may be in mapBlockIndex only, a checkpoint written while memory and disk are in step
\* has its entry on disk, and keeps it.
CheckpointStored == sync \in disk.index /\ sync \in index
SyncAccepted ==
    [][(sync' = sync \/ InStep) /\ sync \in disk.index => CheckpointStored']_vars

\* "only descendant of current sync-checkpoint is allowed" (checkpoints.cpp, above
\* ValidateSyncCheckpoint): the checkpoint only moves up its own branch, unless a
\* new master key resets it.
SyncOnlyAdvances == [][sync' # sync /\ sync' # Genesis => sync \in Anc[sync']]_vars

\* A pending checkpoint is adopted as soon as its block can be: one that still waits
\* although its block is known is on a chain with a block ConnectBlock may refuse, or
\* the node's memory is ahead of its disk.
NoCheckpointForgotten ==
    pc = "idle" /\ pending \in index /\ InStep => ~ChainConnects(pending)
=============================================================================
