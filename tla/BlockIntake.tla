---------------------------- MODULE BlockIntake -----------------------------
(***************************************************************************)
(* ProcessBlock (src/src/main.cpp): duplicate and duplicate-stake checks,  *)
(* the holding area for blocks whose parent is not known, and the loop     *)
(* that accepts, with a block, the orphans that were waiting for it.       *)
(* AcceptBlock and the checkpoint handlers are those of SyncCheckpoint,    *)
(* step for step.  Blocks come from peers in any order, any number of      *)
(* times; a block that CheckBlock rejects changes nothing and is left out. *)
(***************************************************************************)
EXTENDS SyncCheckpoint, Sequences

CONSTANTS
    Stake,         \* Stake[b]: GetProofOfStake, the staked output and the time;
                   \* None for proof of work
    Weak,          \* blocks with too little work or stake for an off-tip block
    Downloading    \* what IsInitialBlockDownload may return; TRUE also stands for
                   \* a block that did not come from a peer (pfrom is NULL)

ASSUME IntakeAssumption ==
    /\ Stake \in [Blocks -> STRING \cup {None}]
    /\ Weak \subseteq Blocks
    /\ Downloading \subseteq BOOLEAN

VARIABLES
    orphans,           \* mapOrphanBlocks
    byPrev,            \* mapOrphanBlocksByPrev, as pairs of parent and orphan
    stakeSeenOrphan,   \* setStakeSeenOrphan
    queue,             \* vWorkQueue from its current position on
    asked              \* blocks requested from peers and not yet delivered

orphanVars == <<orphans, byPrev, stakeSeenOrphan>>
intakeVars == <<orphanVars, queue, asked>>
allVars == <<vars, intakeVars>>

IntakeTypeOK ==
    /\ TypeOK
    /\ orphans \subseteq Blocks
    /\ byPrev \subseteq Blocks \X Blocks
    /\ stakeSeenOrphan \subseteq {Stake[b] : b \in Blocks} \ {None}
    /\ queue \in Seq(Blocks)
    /\ asked \subseteq Blocks

IntakeInit ==
    /\ Init
    /\ orphans = {}
    /\ byPrev = {}
    /\ stakeSeenOrphan = {}
    /\ queue = <<>>
    /\ asked = {}

-----------------------------------------------------------------------------
\* setStakeSeen: filled by AddToBlockIndex and, at a restart, from the database.
setStakeSeen == {Stake[b] : b \in index} \ {None}

HasOrphanChild(b) == \E o \in Blocks : <<b, o>> \in byPrev

\* The parent of the first block of the orphan chain that ends in b.
WantedByOrphan(held, b) ==
    CHOOSE a \in Anc[b] : a \notin held /\ \A c \in Anc[b] \ Anc[a] : c \in held

WantedByPendingSyncCheckpoint(b) ==
    /\ pending # None
    /\ \/ b = pending
       \/ pending \in orphans /\ b = WantedByOrphan(orphans, pending)

\* "Duplicate stake allowed only when there is orphan child block".
DuplicateStake(b, seen) ==
    /\ Stake[b] \in seen
    /\ ~HasOrphanChild(b)
    /\ ~WantedByPendingSyncCheckpoint(b)

TooLittleWork(b) ==
    /\ b \in Weak
    /\ sync \in index
    /\ Prev[b] # best
    /\ ~WantedByPendingSyncCheckpoint(b)

RejectedAtOnce(b) ==
    \/ b \in index \cup orphans
    \/ DuplicateStake(b, setStakeSeen)
    \/ TooLittleWork(b)

\* AskForPendingSyncCheckpoint.
PendingToAskFor(downloading) ==
    IF downloading \/ pending \in index \cup orphans THEN {} ELSE {pending} \ {None}

\* An answered request is no longer outstanding.
Request(b, more) == asked' = (asked \ {b}) \cup more

ProcessBlockRejects(b) ==
    /\ RejectedAtOnce(b)
    /\ Request(b, {})
    /\ UNCHANGED <<vars, orphanVars, queue>>

\* Mutant: the stake of a proof-of-work block is recorded too.
HoldsAnyStake(b, downloading) ==
    /\ ~RejectedAtOnce(b)
    /\ Prev[b] \notin index
    /\ ~DuplicateStake(b, stakeSeenOrphan)
    /\ orphans' = orphans \cup {b}
    /\ byPrev' = byPrev \cup {<<Prev[b], b>>}
    /\ stakeSeenOrphan' = stakeSeenOrphan \cup {Stake[b]}
    /\ Request(b, PendingToAskFor(downloading)
                  \cup (IF downloading THEN {} ELSE {WantedByOrphan(orphans', b)}))
    /\ UNCHANGED <<vars, queue>>

\* Mutant: the sender is not asked for the missing block.
HoldsWithoutAsking(b, downloading) ==
    /\ ~RejectedAtOnce(b)
    /\ Prev[b] \notin index
    /\ ~DuplicateStake(b, stakeSeenOrphan)
    /\ orphans' = orphans \cup {b}
    /\ byPrev' = byPrev \cup {<<Prev[b], b>>}
    /\ stakeSeenOrphan' = stakeSeenOrphan \cup ({Stake[b]} \ {None})
    /\ Request(b, PendingToAskFor(downloading))
    /\ UNCHANGED <<vars, queue>>

\* The parent is not known: the block is held and the sender asked for what is
\* missing below it.
ProcessBlockHolds(b, downloading) ==
    /\ ~RejectedAtOnce(b)
    /\ Prev[b] \notin index
    /\ ~DuplicateStake(b, stakeSeenOrphan)
    /\ orphans' = orphans \cup {b}
    /\ byPrev' = byPrev \cup {<<Prev[b], b>>}
    /\ stakeSeenOrphan' = stakeSeenOrphan \cup ({Stake[b]} \ {None})
    /\ Request(b, PendingToAskFor(downloading)
                  \cup (IF downloading THEN {} ELSE {WantedByOrphan(orphans', b)}))
    /\ UNCHANGED <<vars, queue>>

ProcessBlockRejectsOrphan(b, downloading) ==
    /\ ~RejectedAtOnce(b)
    /\ Prev[b] \notin index
    /\ DuplicateStake(b, stakeSeenOrphan)
    /\ Request(b, PendingToAskFor(downloading))
    /\ UNCHANGED <<vars, orphanVars, queue>>

ProcessBlockAccepts(b, downloading) ==
    /\ ~RejectedAtOnce(b)
    /\ Prev[b] \in index
    /\ AcceptBlock(b)
    /\ Request(b, PendingToAskFor(downloading))
    /\ UNCHANGED <<orphanVars, queue>>

\* A "block" message.
ProcessBlock(b) ==
    /\ pc = "idle"
    /\ b # Genesis
    /\ \E downloading \in Downloading :
          \/ ProcessBlockRejects(b)
          \/ ProcessBlockHolds(b, downloading)
          \/ ProcessBlockRejectsOrphan(b, downloading)
          \/ ProcessBlockAccepts(b, downloading)

\* The end of ProcessBlock, after at least one block was accepted; the master node
\* issues a checkpoint unless the block is its own (pfrom is NULL).
EndOfProcessBlock == pc' = "idle" \/ (HasMasterKey /\ pc' = "send")

\* AcceptBlock of the block itself returns.
ReturnToProcessBlock ==
    /\ pc = "returned"
    /\ cur \notin orphans
    /\ IF ok THEN pc' = "queue" /\ queue' = <<cur>>
             ELSE pc' = "idle" /\ UNCHANGED queue
    /\ UNCHANGED <<chainVars, syncVars, callVars, ok, orphanVars, asked>>

WaitingFor(b) == {o \in orphans : <<b, o>> \in byPrev}

\* Mutant: the orphan is indexed without the checks of AcceptBlock.
AcceptOrphanUnchecked ==
    /\ pc = "queue"
    /\ \E o \in WaitingFor(Head(queue)) : index' = index \cup {o} /\ cur' = o
    /\ caller' = "block" /\ pc' = "index"
    /\ UNCHANGED <<best, disk, syncVars, chk, ok, intakeVars>>

\* The loop over the orphans of the block at the front of the queue.
AcceptOrphan ==
    /\ pc = "queue"
    /\ \E o \in WaitingFor(Head(queue)) : AcceptBlock(o)
    /\ UNCHANGED intakeVars

\* Mutant: orphans of an orphan are not looked for.
ReturnFromOrphanOnly ==
    /\ pc = "returned"
    /\ cur \in orphans
    /\ pc' = "queue"
    /\ orphans' = orphans \ {cur}
    /\ stakeSeenOrphan' = stakeSeenOrphan \ {Stake[cur]}
    /\ UNCHANGED <<chainVars, syncVars, callVars, ok, byPrev, queue, asked>>

\* AcceptBlock of an orphan returns; the orphan is dropped either way.
ReturnFromOrphan ==
    /\ pc = "returned"
    /\ cur \in orphans
    /\ pc' = "queue"
    /\ queue' = IF ok THEN Append(queue, cur) ELSE queue
    /\ orphans' = orphans \ {cur}
    /\ stakeSeenOrphan' = stakeSeenOrphan \ {Stake[cur]}
    /\ UNCHANGED <<chainVars, syncVars, callVars, ok, byPrev, asked>>

\* Mutant: mapOrphanBlocksByPrev keeps the entries.
NextInQueueKeepsEntries ==
    /\ pc = "queue"
    /\ WaitingFor(Head(queue)) = {}
    /\ queue' = Tail(queue)
    /\ IF queue' = <<>> THEN EndOfProcessBlock ELSE UNCHANGED pc
    /\ UNCHANGED <<chainVars, syncVars, callVars, ok, orphanVars, asked>>

\* mapOrphanBlocksByPrev.erase(hashPrev), and on to the next in the queue.
NextInQueue ==
    /\ pc = "queue"
    /\ WaitingFor(Head(queue)) = {}
    /\ byPrev' = {p \in byPrev : p[1] # Head(queue)}
    /\ queue' = Tail(queue)
    /\ IF queue' = <<>> THEN EndOfProcessBlock ELSE UNCHANGED pc
    /\ UNCHANGED <<chainVars, syncVars, callVars, ok, orphans, stakeSeenOrphan, asked>>

\* The "checkpoint" message: what the checkpoint waits for is asked for.
CheckpointMessage ==
    /\ CheckpointArrives
    /\ IF pending' # pending /\ pending' # None
       THEN asked' = asked \cup {IF pending' \in orphans THEN WantedByOrphan(orphans, pending')
                                                         ELSE pending'}
       ELSE UNCHANGED asked
    /\ UNCHANGED <<orphanVars, queue>>

\* Orphans and requests are only in memory.
IntakeRestart ==
    /\ Restart
    /\ orphans' = {}
    /\ byPrev' = {}
    /\ stakeSeenOrphan' = {}
    /\ queue' = <<>>
    /\ asked' = {}

-----------------------------------------------------------------------------
ProcessBlockStep ==
    \/ HandlerStep /\ UNCHANGED intakeVars
    \/ ReturnToProcessBlock
    \/ AcceptOrphan
    \/ ReturnFromOrphan
    \/ NextInQueue

IntakeNext ==
    \/ \E b \in Blocks : ProcessBlock(b)
    \/ ProcessBlockStep
    \/ CommitFails /\ UNCHANGED intakeVars
    \/ CheckpointMessage
    \/ IntakeRestart

\* A started handler runs to its end.
IntakeSpec == IntakeInit /\ [][IntakeNext]_allVars /\ WF_allVars(ProcessBlockStep)

\* The behaviours without crashes and failed commits, in which moreover every
\* block asked for is delivered in the end.
IntakeLiveSpec ==
    /\ IntakeInit
    /\ [][\/ \E b \in Blocks : ProcessBlock(b)
          \/ ProcessBlockStep
          \/ CheckpointMessage]_allVars
    /\ WF_allVars(ProcessBlockStep)
    /\ \A b \in Blocks : SF_allVars(b \in asked /\ ProcessBlock(b))

-----------------------------------------------------------------------------
\* mapOrphanBlocksByPrev never holds a pointer to a block that was deleted, and
\* every held block can be found through it; only the entries of the block whose
\* orphans are being accepted lag behind.
OrphanMapsAgree ==
    /\ \A p \in byPrev : p[2] \in orphans \/ (queue # <<>> /\ p[1] = Head(queue))
    /\ \A o \in orphans : <<Prev[o], o>> \in byPrev

\* "shunt it off to holding area until we get it" (main.cpp:2269): between
\* messages no block is held whose parent is known.
HeldOnlyForMissingParent == pc = "idle" => \A o \in orphans : Prev[o] \notin index

\* Blocks rejected as duplicate stakes do not hold a chain up: with what the node asks
\* for delivered, no orphan is held for ever; in STRICT mode, the default, none but those
\* that hang on a block the checkpoint bars: that block is delivered, refused, and the
\* orphans above it are never dropped.
BarredByCheckpoint(b) == Mode = "STRICT" /\ \E a \in Anc[b] : a \notin index /\ ~CheckSync(a)
OrphansResolved ==
    \A b \in Blocks : b \in orphans ~> b \notin orphans \/ BarredByCheckpoint(b)

\* ProcessBlock, its loop over the orphans included, does with blocks and
\* checkpoints nothing that SyncCheckpoint does not allow.
Checkpointing == INSTANCE SyncCheckpoint WITH pc <- IF pc = "queue" THEN "returned" ELSE pc
ImplementsSyncCheckpoint == Checkpointing!Spec
=============================================================================
