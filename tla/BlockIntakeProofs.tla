------------------------- MODULE BlockIntakeProofs --------------------------
(***************************************************************************)
(* Proofs about SyncCheckpoint: in STRICT mode no step takes the main      *)
(* chain off the checkpoint, and the checkpoint only moves up its own      *)
(* branch, for any tree of blocks, any order of messages, reorganisations  *)
(* that end halfway, failed commits and crashes.                           *)
(* Then about BlockIntake: ProcessBlock with its loop over the orphans     *)
(* implements SyncCheckpoint, the two maps of orphan blocks agree, and no  *)
(* block is held whose parent could have been accepted.                    *)
(***************************************************************************)
EXTENDS BlockIntake, BlockTreeProofs

-----------------------------------------------------------------------------
(* Sync checkpoints *)

LEMMA AcceptBlockType ==
    ASSUME TypeOK, NEW b \in Blocks, AcceptBlock(b)
    PROVE  TypeOK'
BY DEF AcceptBlock, Return, TypeOK, Phases, Callers, syncVars

\* What the ends of SetBestChain leave of the types.
LEMMA SetBestChainEnds ==
    ASSUME TypeOK
    PROVE  /\ Target \in Blocks
           /\ SetBestChainTrue => /\ best' \in Blocks /\ pc' \in Phases /\ ok' \in BOOLEAN
                                  /\ invalid' \in Blocks \cup {None}
           /\ SetBestChainFalse => TypeOK'
<1> USE DEF TypeOK, Phases
<1>1. Target \in Blocks
  BY DEF Target
<1>2. ASSUME SetBestChainTrue
      PROVE  /\ best' \in Blocks /\ pc' \in Phases /\ ok' \in BOOLEAN
             /\ invalid' \in Blocks \cup {None}
  BY <1>1, <1>2 DEF SetBestChainTrue
<1>3. ASSUME SetBestChainFalse PROVE TypeOK'
  BY <1>3 DEF SetBestChainFalse, EndOfCheckpoint, Return, chainVars, callVars
<1> QED BY <1>1, <1>2, <1>3

\* The commits of SetBestChain write blocks of the chain left and of the chain joined.
LEMMA IntermediateType ==
    ASSUME TypeOK, NEW i \in Blocks
    PROVE  {Prev[b] : b \in Connected(i) \cup Disconnected(i)} \subseteq Blocks
<1> SUFFICES ASSUME NEW b \in Connected(i) \cup Disconnected(i) PROVE Prev[b] \in Blocks
  OBVIOUS
<1>1. best \in Blocks
  BY DEF TypeOK
<1>2. b \in Blocks \ {Genesis}
  BY <1>1, GenesisBelowAll, AncBasic DEF Connected, Disconnected
<1> QED BY <1>2, TreeFacts

LEMMA CheckpointTypeStep == TypeOK /\ [Next]_vars => TypeOK'
<1> SUFFICES ASSUME TypeOK, [Next]_vars PROVE TypeOK'
  OBVIOUS
<1>1. ASSUME NEW b \in Blocks, AcceptBlock(b) PROVE TypeOK'
  BY <1>1, AcceptBlockType
<1> USE DEF TypeOK, Phases, Callers, Database, chainVars, syncVars, callVars
<1>2. CASE AddToBlockIndex \/ AddToBlockIndexFails
  BY <1>2 DEF AddToBlockIndex, AddToBlockIndexFails, Return
<1>3. CASE CommitIntermediate
  <2>1. PICK i \in Blocks :
           /\ disk' = [index |-> disk.index \cup Connected(i)
                                  \cup {Prev[b] : b \in Connected(i) \cup Disconnected(i)},
                       best  |-> i, torn  |-> ~InStep]
           /\ IF i = Target THEN SetBestChainTrue
                            ELSE pc' = "postponed" /\ UNCHANGED <<best, invalid, ok>>
    BY <1>3 DEF CommitIntermediate
  <2>2. disk.index \subseteq Blocks /\ Connected(i) \subseteq Blocks
    BY AncBasic DEF Connected
  <2>3. disk' \in Database
    BY <2>1, <2>2, IntermediateType DEF InStep
  <2>4. UNCHANGED <<index, sync, pending, callVars>>
    BY <1>3 DEF CommitIntermediate
  <2> QED BY <2>1, <2>3, <2>4, SetBestChainEnds
<1>4. CASE CommitPostponed
  <2>1. PICK b \in Blocks :
           /\ IsNextPostponed(b)
           /\ disk' = [disk EXCEPT !.index = @ \cup {b, Prev[b]}, !.best = b]
           /\ IF b = Target THEN SetBestChainTrue ELSE UNCHANGED <<best, invalid, pc, ok>>
    BY <1>4 DEF CommitPostponed
  <2>2. disk' \in Database
    BY <2>1 DEF IsNextPostponed
  <2>3. UNCHANGED <<index, sync, pending, callVars>>
    BY <1>4 DEF CommitPostponed
  <2> QED BY <2>1, <2>2, <2>3, SetBestChainEnds
<1>5. CASE IntermediateRefused \/ IntermediateCommitFails
  BY <1>5, SetBestChainEnds DEF IntermediateRefused, IntermediateCommitFails
<1>6. CASE PostponedRefused \/ PostponedCommitFails
  BY <1>6, SetBestChainEnds DEF PostponedRefused, PostponedCommitFails, PostponedEnds
<1>7. ASSUME NEW c \in Blocks, NEW who \in Callers, AdoptCheckpoint(c, who) PROVE TypeOK'
  BY <1>7 DEF AdoptCheckpoint
<1>8. CASE AcceptPendingSyncCheckpoint
  BY <1>7, <1>8 DEF AcceptPendingSyncCheckpoint, Return
<1>9. ASSUME NEW c \in Blocks, ProcessSyncCheckpoint(c) PROVE TypeOK'
  BY <1>7, <1>9 DEF ProcessSyncCheckpoint
<1>10. CASE WriteSyncCheckpoint \/ WriteSyncCheckpointFails
  BY <1>10 DEF WriteSyncCheckpoint, WriteSyncCheckpointFails, EndOfCheckpoint, Return
<1>11. CASE ReturnFromBlock \/ Restart \/ UNCHANGED vars
  BY <1>11, TreeFacts DEF ReturnFromBlock, Restart, CrashAndRestart, vars
<1>12. AutoSelectSyncCheckpoint \subseteq Blocks
  BY AncBasic DEF AutoSelectSyncCheckpoint
<1> QED BY <1>1, <1>2, <1>3, <1>4, <1>5, <1>6, <1>8, <1>9, <1>10, <1>11, <1>12,
           CheckpointAssumption
        DEF Next, NextDiskWorks, HandlerStep, CommitFails, CheckpointArrives, BlockArrives,
            SendSyncCheckpoint

LEMMA CheckpointTypeInit == Init => TypeOK
<1> SUFFICES ASSUME Init PROVE TypeOK
  OBVIOUS
<1>1. disk \in Database
  BY TreeFacts DEF Init, Database
<1> QED BY <1>1, TreeFacts DEF Init, TypeOK, Phases, Callers

LEMMA CheckpointType == Init /\ [][Next]_vars => []TypeOK
BY CheckpointTypeInit, CheckpointTypeStep, PTL

-----------------------------------------------------------------------------
\* Every entry on disk is in memory; the index in memory has no gaps unless the node
\* came up on one with a hole; and the database has the entries of the chain it
\* describes, if it describes one.
StoreInv ==
    /\ disk.index \subseteq index
    /\ Genesis \in disk.index
    /\ best \in index
    /\ disk.best \in disk.index
    /\ ~disk.torn => Anc[disk.best] \subseteq disk.index
    /\ pc # "halted" => ClosedUnderPrev(index)

\* On whose behalf the steps are taken.
CallerInv ==
    /\ pc = "index" => caller = "block"
    /\ pc = "write" => caller # "block"

\* A block about to become best descends from the checkpoint; a checkpoint about
\* to be written is in the main chain already and descends from the current one.
HandlerInv ==
    /\ pc = "index" => cur \in index /\ (Mode = "STRICT" => sync \in Anc[cur])
    /\ pc \in {"set", "postponed"} =>
          Target \in index /\ (Mode = "STRICT" \/ caller # "block" => sync \in Anc[Target])
    /\ pc = "set" => Target # best
    /\ pc = "postponed" => disk.best \in Anc[Target]
    /\ pc = "write" => chk \in Anc[best] /\ sync \in Anc[chk]

IInv == TypeOK /\ StoreInv /\ CallerInv /\ HandlerInv

\* A new block that CheckSync lets pass descends from the checkpoint.
LEMMA CheckSyncDescends ==
    ASSUME TypeOK, NEW b \in Blocks, AcceptBlockChecks(b), sync \in index, Mode = "STRICT"
    PROVE  sync \in Anc[b]
<1>1. b # Genesis /\ b \notin index /\ CheckSync(b)
  BY DEF AcceptBlockChecks, BlockChecks
<1>2. Height[b] > Height[sync]
  <2>1. Height[b] \in Nat /\ Height[sync] \in Nat
    BY TreeFacts DEF TypeOK
  <2> QED BY <1>1, <2>1 DEF CheckSync
<1> QED BY <1>1, <1>2, AncStep DEF CheckSync

LEMMA AcceptBlockKeeps ==
    ASSUME IInv, TypeOK', NEW b \in Blocks, AcceptBlock(b), pc # "halted"
    PROVE  IInv'
<1> USE DEF IInv, chainVars, syncVars, callVars
<1>1. CASE AcceptBlockChecks(b)
  <2>1. /\ index' = index \cup {b} /\ pc' = "index" /\ cur' = b /\ caller' = "block"
        /\ UNCHANGED <<best, disk, sync>> /\ Prev[b] \in index /\ sync \in index
    BY <1>1 DEF AcceptBlock, AcceptBlockChecks, BlockChecks
  <2>2. StoreInv'
    BY <2>1 DEF StoreInv, ClosedUnderPrev
  <2>3. Mode = "STRICT" => sync \in Anc[b]
    BY <1>1, <2>1, CheckSyncDescends
  <2> QED BY <2>1, <2>2, <2>3 DEF CallerInv, HandlerInv
<1>2. CASE ~AcceptBlockChecks(b)
  <2>1. pc' = "returned" /\ UNCHANGED <<index, best, disk>>
    BY <1>2 DEF AcceptBlock, Return
  <2> QED BY <2>1 DEF StoreInv, CallerInv, HandlerInv, ClosedUnderPrev
<1> QED BY <1>1, <1>2

\* The steps that move neither the chains nor the index.
LEMMA ChainsStay ==
    ASSUME IInv, TypeOK', UNCHANGED chainVars, pc # "halted",
           pc' \in {"idle", "accepted", "returned", "queue", "send"}
    PROVE  IInv'
BY DEF IInv, StoreInv, CallerInv, HandlerInv, chainVars, ClosedUnderPrev

\* A checkpoint that Validate lets pass.
LEMMA AdoptKeeps ==
    ASSUME IInv, TypeOK', NEW c \in index, NEW who \in {"pending", "message"}, pc # "halted",
           ValidateSyncCheckpoint(c), AdoptCheckpoint(c, who)
    PROVE  IInv'
<1> USE DEF IInv
<1>1. /\ chk' = c /\ caller' = who /\ pc' \in {"set", "write"}
      /\ UNCHANGED <<index, best, disk, sync>>
      /\ pc' = "write" => c \in Anc[best]
      /\ pc' = "set" => c \notin Anc[best] \/ c # best
  BY DEF AdoptCheckpoint, IsInMainChain, IsNotInMainChain, chainVars, syncVars
<1>2. c \in Blocks /\ sync \in Anc[c] /\ best \in Anc[best]
  BY AncBasic DEF TypeOK, ValidateSyncCheckpoint
<1>3. Target' = c
  BY <1>1 DEF Target
<1>4. StoreInv'
  BY <1>1 DEF StoreInv, ClosedUnderPrev
<1> QED BY <1>1, <1>2, <1>3, <1>4 DEF CallerInv, HandlerInv

\* The index in memory holds the whole chain below each of its blocks.
LEMMA IndexHoldsChain ==
    ASSUME TypeOK, StoreInv, pc # "halted", NEW b \in index
    PROVE  Anc[b] \subseteq index
BY AncLeast DEF TypeOK, StoreInv

\* The end of SetBestChain with true.
LEMMA TrueKeeps ==
    ASSUME IInv, TypeOK', pc \in {"set", "postponed"}, SetBestChainTrue, StoreInv',
           UNCHANGED <<sync, callVars>>
    PROVE  IInv'
<1>1. best' = Target /\ pc' = (IF caller = "block" THEN "accepted" ELSE "write")
  BY DEF SetBestChainTrue
<1>2. UNCHANGED <<sync, cur, chk, caller>> /\ Target \in Blocks
  BY SetBestChainEnds DEF callVars, IInv
<1>3. caller # "block" => chk = Target /\ sync \in Anc[chk] /\ Target \in Anc[Target]
  BY <1>2, AncBasic DEF Target, IInv, HandlerInv
<1> QED BY <1>1, <1>2, <1>3 DEF IInv, CallerInv, HandlerInv

\* The commit as far as pindexIntermediate: what becomes of index and disk.
LEMMA CommitIntermediateStores ==
    ASSUME IInv, TypeOK', NEW i \in Blocks, pc = "set", IsIntermediate(i), pc' # "halted",
           disk' = [index |-> disk.index \cup Connected(i)
                                \cup {Prev[b] : b \in Connected(i) \cup Disconnected(i)},
                    best  |-> i, torn  |-> ~InStep],
           best' \in {best, Target}, index' = index
    PROVE  StoreInv'
<1> DEFINE written == Connected(i) \cup {Prev[b] : b \in Connected(i) \cup Disconnected(i)}
<1>1. /\ disk'.index = disk.index \cup written /\ disk'.best = i /\ disk'.torn = ~InStep
  OBVIOUS
<1>2. /\ Target \in index /\ Target \in Blocks /\ best \in Blocks /\ best \in index
      /\ i \in Anc[Target] \ {Genesis} /\ Target # best
  BY SetBestChainEnds DEF IInv, HandlerInv, StoreInv, TypeOK, IsIntermediate
<1>3. Anc[i] \subseteq index /\ Anc[best] \subseteq index
  <2>1. Anc[Target] \subseteq index /\ Anc[best] \subseteq index
    BY <1>2, IndexHoldsChain DEF IInv
  <2> QED BY <1>2, <2>1, AncTransitive
<1>4. written \subseteq index
  <2>1. ASSUME NEW b \in Connected(i) \cup Disconnected(i) PROVE Prev[b] \in index
    <3>1. b \in index /\ b # Genesis
      BY <1>2, <1>3, GenesisBelowAll DEF Connected, Disconnected
    <3> QED BY <3>1 DEF IInv, StoreInv, ClosedUnderPrev
  <2>2. Connected(i) \subseteq index
    BY <1>3 DEF Connected
  <2> QED BY <2>1, <2>2
<1>5. i # best
  <2>1. CASE i = Target
    BY <1>2, <2>1
  <2>2. CASE i # Target
    <3>1. PICK c \in Anc[Target] \ {Genesis} : Prev[c] = i /\ c \notin Anc[i]
      BY <1>2, <2>2, ChildOnChain
    <3>2. ChainTrust[i] > ChainTrust[best] /\ ChainTrust[best] \in Nat
      BY <1>2, <3>1, TreeFacts DEF IsIntermediate
    <3> QED BY <3>2
  <2> QED BY <2>1, <2>2
<1>6. i \in written
  <2>1. CASE i \in Anc[best]
    <3>1. PICK c \in Anc[best] \ {Genesis} : Prev[c] = i /\ c \notin Anc[i]
      BY <1>2, <1>5, <2>1, ChildOnChain
    <3>2. c \in Disconnected(i)
      BY <3>1 DEF Disconnected
    <3> QED BY <3>1, <3>2
  <2>2. CASE i \notin Anc[best]
    BY <2>2, AncBasic DEF Connected
  <2> QED BY <2>1, <2>2
<1>7. InStep => Anc[i] \subseteq disk.index \cup written
  BY DEF Connected, InStep, IInv, StoreInv
<1> HIDE DEF written
<1>8. best' \in index' /\ ClosedUnderPrev(index)
  BY <1>2 DEF IInv, StoreInv
<1> QED BY <1>1, <1>4, <1>6, <1>7, <1>8 DEF IInv, StoreInv, ClosedUnderPrev

LEMMA CommitPostponedStores ==
    ASSUME IInv, TypeOK', NEW b \in Blocks, pc = "postponed", IsNextPostponed(b), pc' # "halted",
           disk' = [disk EXCEPT !.index = @ \cup {b, Prev[b]}, !.best = b],
           best' \in {best, Target}, index' = index
    PROVE  StoreInv'
<1>1. /\ disk'.index = disk.index \cup {b, disk.best} /\ disk'.best = b /\ disk'.torn = disk.torn
      /\ b \in Anc[Target] \ {Genesis} /\ Prev[b] = disk.best
  BY DEF IsNextPostponed, IInv, TypeOK, Database
<1>2. Target \in index /\ Target \in Blocks /\ best \in index /\ disk.best \in index
  BY SetBestChainEnds DEF IInv, HandlerInv, StoreInv
<1>3. b \in index
  BY <1>1, <1>2, IndexHoldsChain DEF IInv
<1>4. Anc[b] = {b} \cup Anc[disk.best]
  BY <1>1, AncStep
<1>5. ClosedUnderPrev(index)
  BY DEF IInv, StoreInv
<1> QED BY <1>1, <1>2, <1>3, <1>4, <1>5 DEF IInv, StoreInv, ClosedUnderPrev

LEMMA CheckpointStepKeeps == IInv /\ TypeOK' /\ [Next]_vars => IInv'
<1> SUFFICES ASSUME IInv, TypeOK', [Next]_vars PROVE IInv'
  OBVIOUS
<1>1. ASSUME NEW b \in Blocks, AcceptBlock(b), pc # "halted" PROVE IInv'
  BY <1>1, AcceptBlockKeeps
<1>2. CASE AddToBlockIndex
  <2>1. /\ pc = "index" /\ disk'.index = disk.index \cup {cur} /\ disk'.best = disk.best
        /\ disk'.torn = disk.torn /\ UNCHANGED <<index, best, sync, cur, chk, caller>>
        /\ pc' = IF ChainTrust[cur] > ChainTrust[best] THEN "set" ELSE "accepted"
    BY <1>2 DEF AddToBlockIndex, syncVars, callVars, IInv, TypeOK, Database
  <2>2. cur \in index /\ caller = "block" /\ cur \in Blocks /\ best \in Blocks
    BY <2>1 DEF IInv, HandlerInv, CallerInv, TypeOK
  <2>3. StoreInv'
    BY <2>1, <2>2 DEF IInv, StoreInv, ClosedUnderPrev
  <2>4. Target' = cur
    BY <2>1, <2>2 DEF Target
  <2>5. pc' = "set" => cur # best
    BY <2>1, <2>2, TreeFacts
  <2> QED BY <2>1, <2>2, <2>3, <2>4, <2>5 DEF IInv, CallerInv, HandlerInv
<1>3. CASE CommitIntermediate
  <2>1. PICK i \in Blocks :
           /\ IsIntermediate(i)
           /\ disk' = [index |-> disk.index \cup Connected(i)
                                  \cup {Prev[b] : b \in Connected(i) \cup Disconnected(i)},
                       best  |-> i, torn  |-> ~InStep]
           /\ IF i = Target THEN SetBestChainTrue
                            ELSE pc' = "postponed" /\ UNCHANGED <<best, invalid, ok>>
    BY <1>3 DEF CommitIntermediate
  <2>2. pc = "set" /\ UNCHANGED <<index, sync, pending, callVars>>
    BY <1>3 DEF CommitIntermediate
  <2>3. StoreInv'
    BY <2>1, <2>2, CommitIntermediateStores DEF SetBestChainTrue
  <2>4. CASE i = Target
    BY <2>1, <2>2, <2>3, <2>4, TrueKeeps
  <2>5. CASE i # Target
    <3>1. Target' = Target /\ disk'.best = i /\ i \in Anc[Target]
      BY <2>1, <2>2 DEF Target, callVars, IsIntermediate
    <3> QED BY <2>1, <2>2, <2>3, <2>5, <3>1 DEF IInv, CallerInv, HandlerInv, callVars
  <2> QED BY <2>4, <2>5
<1>4. CASE CommitPostponed
  <2>1. PICK b \in Blocks :
           /\ IsNextPostponed(b)
           /\ disk' = [disk EXCEPT !.index = @ \cup {b, Prev[b]}, !.best = b]
           /\ IF b = Target THEN SetBestChainTrue ELSE UNCHANGED <<best, invalid, pc, ok>>
    BY <1>4 DEF CommitPostponed
  <2>2. pc = "postponed" /\ UNCHANGED <<index, sync, pending, callVars>>
    BY <1>4 DEF CommitPostponed
  <2>3. StoreInv'
    BY <2>1, <2>2, CommitPostponedStores DEF SetBestChainTrue
  <2>4. CASE b = Target
    BY <2>1, <2>2, <2>3, <2>4, TrueKeeps
  <2>5. CASE b # Target
    <3>1. Target' = Target /\ disk'.best = b /\ b \in Anc[Target]
      BY <2>1, <2>2 DEF Target, callVars, IsNextPostponed, IInv, TypeOK, Database
    <3> QED BY <2>1, <2>2, <2>3, <2>5, <3>1 DEF IInv, CallerInv, HandlerInv, callVars
  <2> QED BY <2>4, <2>5
<1>5. CASE IntermediateRefused \/ IntermediateCommitFails
  <2>1. pc = "set" /\ SetBestChainFalse
    BY <1>5 DEF IntermediateRefused, IntermediateCommitFails
  <2> QED BY <2>1, ChainsStay DEF SetBestChainFalse, EndOfCheckpoint, Return
<1>6. CASE PostponedRefused \/ PostponedCommitFails
  <2>1. pc = "postponed" /\ SetBestChainTrue /\ UNCHANGED <<index, disk, sync, pending, callVars>>
    BY <1>6 DEF PostponedRefused, PostponedCommitFails, PostponedEnds
  <2>2. best' = Target /\ pc' # "halted"
    BY <2>1 DEF SetBestChainTrue
  <2>3. StoreInv'
    BY <2>1, <2>2 DEF IInv, StoreInv, HandlerInv, ClosedUnderPrev
  <2> QED BY <2>1, <2>3, TrueKeeps
<1>7. CASE AcceptPendingSyncCheckpoint
  <2>1. CASE pending \in index /\ ValidateSyncCheckpoint(pending)
    BY <1>7, <2>1, AdoptKeeps DEF AcceptPendingSyncCheckpoint
  <2>2. CASE ~(pending \in index /\ ValidateSyncCheckpoint(pending))
    BY <1>7, <2>2, ChainsStay DEF AcceptPendingSyncCheckpoint, Return
  <2> QED BY <2>1, <2>2
<1>8. ASSUME NEW c \in Blocks, ProcessSyncCheckpoint(c), pc # "halted" PROVE IInv'
  <2>1. CASE c \in index /\ ValidateSyncCheckpoint(c)
    BY <1>8, <2>1, AdoptKeeps DEF ProcessSyncCheckpoint
  <2>2. CASE ~(c \in index /\ ValidateSyncCheckpoint(c))
    BY <1>8, <2>2, ChainsStay DEF ProcessSyncCheckpoint
  <2> QED BY <2>1, <2>2
<1>9. CASE WriteSyncCheckpoint \/ WriteSyncCheckpointFails \/ AddToBlockIndexFails \/ ReturnFromBlock
  BY <1>9, ChainsStay
     DEF WriteSyncCheckpoint, WriteSyncCheckpointFails, AddToBlockIndexFails, ReturnFromBlock,
         EndOfCheckpoint, Return
<1>10. CASE Restart
  <2>1. /\ index' = disk.index /\ best' = disk.best /\ disk' = disk
        /\ pc' = IF ClosedUnderPrev(disk.index) THEN "idle" ELSE "halted"
    BY <1>10 DEF Restart, CrashAndRestart
  <2> QED BY <2>1 DEF IInv, StoreInv, CallerInv, HandlerInv, ClosedUnderPrev
<1>11. CASE UNCHANGED vars
  <2>1. Target' = Target
    BY <1>11 DEF vars, callVars, Target
  <2> QED BY <1>11, <2>1
          DEF vars, chainVars, syncVars, callVars, IInv, StoreInv, CallerInv, HandlerInv,
              ClosedUnderPrev
<1>12. AutoSelectSyncCheckpoint \subseteq Blocks
  BY AncBasic DEF AutoSelectSyncCheckpoint, IInv, TypeOK
<1> QED BY <1>1, <1>2, <1>3, <1>4, <1>5, <1>6, <1>7, <1>8, <1>9, <1>10, <1>11, <1>12,
           CheckpointAssumption
        DEF Next, NextDiskWorks, HandlerStep, CommitFails, CheckpointArrives, BlockArrives,
            SendSyncCheckpoint

LEMMA CheckpointInitOK == Init => IInv
<1> SUFFICES ASSUME Init PROVE IInv
  OBVIOUS
<1>1. TypeOK /\ Anc[Genesis] = {Genesis}
  BY CheckpointTypeInit, AncGenesis
<1> QED BY <1>1 DEF Init, IInv, StoreInv, CallerInv, HandlerInv, ClosedUnderPrev

LEMMA CheckpointInvHolds == Spec => []IInv
BY CheckpointInitOK, CheckpointStepKeeps, CheckpointType, PTL DEF Spec

\* Variables keep their types, whatever arrives, fails or crashes.
THEOREM TypeCorrect == Spec => []TypeOK
BY CheckpointType, PTL DEF Spec


-----------------------------------------------------------------------------
\* The steps that move neither the two best blocks nor the checkpoint.
LEMMA OtherSteps ==
    ASSUME TypeOK, Next
    PROVE  \/ CommitIntermediate \/ CommitPostponed
           \/ PostponedRefused \/ PostponedCommitFails
           \/ WriteSyncCheckpoint \/ Restart
           \/ UNCHANGED <<best, sync>> /\ disk'.best = disk.best /\ disk.index \subseteq disk'.index
<1> DEFINE Rest == UNCHANGED <<best, sync>> /\ disk'.best = disk.best /\ disk.index \subseteq disk'.index
<1> USE DEF chainVars, syncVars, callVars
<1>1. ASSUME NEW b \in Blocks, AcceptBlock(b) PROVE Rest
  BY <1>1 DEF AcceptBlock
<1>2. CASE AddToBlockIndex \/ AddToBlockIndexFails
  BY <1>2 DEF AddToBlockIndex, AddToBlockIndexFails, TypeOK, Database
<1>3. CASE IntermediateRefused \/ IntermediateCommitFails
  BY <1>3 DEF IntermediateRefused, IntermediateCommitFails, SetBestChainFalse
<1>4. ASSUME NEW c, ProcessSyncCheckpoint(c) PROVE Rest
  BY <1>4 DEF ProcessSyncCheckpoint, AdoptCheckpoint
<1>5. CASE AcceptPendingSyncCheckpoint
  BY <1>5 DEF AcceptPendingSyncCheckpoint, AdoptCheckpoint
<1>6. CASE WriteSyncCheckpointFails \/ ReturnFromBlock
  BY <1>6 DEF WriteSyncCheckpointFails, ReturnFromBlock
<1> QED BY <1>1, <1>2, <1>3, <1>4, <1>5, <1>6
        DEF Next, NextDiskWorks, HandlerStep, CommitFails, CheckpointArrives, BlockArrives,
            SendSyncCheckpoint

\* The commit as far as pindexIntermediate stays above a checkpoint that is on both
\* chains: the blocks that are postponed have more trust than the best block, and so
\* has the one they are postponed on.
LEMMA IntermediateAboveCheckpoint ==
    ASSUME TypeOK, NEW i \in Blocks, IsIntermediate(i), sync \in Anc[best], sync \in Anc[Target]
    PROVE  sync \in Anc[i]
<1>1. Target \in Blocks /\ best \in Blocks /\ i \in Anc[Target]
  BY SetBestChainEnds DEF TypeOK, IsIntermediate
<1>2. CASE i = Target
  BY <1>2
<1>3. CASE i # Target
  <2>1. PICK c \in Anc[Target] \ {Genesis} : Prev[c] = i /\ c \notin Anc[i]
    BY <1>1, <1>3, ChildOnChain
  <2>2. ChainTrust[i] > ChainTrust[best]
    BY <2>1 DEF IsIntermediate
  <2>3. ChainTrust[sync] <= ChainTrust[best]
    BY <1>1, AncTrust
  <2>4. sync \in Anc[i] \/ i \in Anc[sync]
    BY <1>1, AncTotal
  <2>5. i \in Anc[sync] => ChainTrust[i] <= ChainTrust[sync]
    BY AncTrust DEF TypeOK
  <2>6. ChainTrust[i] \in Int /\ ChainTrust[sync] \in Int /\ ChainTrust[best] \in Int
    BY <1>1, TreeFacts DEF TypeOK
  <2> QED BY <2>2, <2>3, <2>4, <2>5, <2>6
<1> QED BY <1>2, <1>3

LEMMA StepKeepsMainChain ==
    IInv /\ [Next]_vars =>
        [Mode = "STRICT" /\ CheckpointHeld /\ (sync' = sync \/ InStep) => CheckpointHeld']_vars
<1> SUFFICES ASSUME IInv, Next, Mode = "STRICT", CheckpointHeld, sync' = sync \/ InStep
             PROVE  CheckpointHeld'
  BY DEF vars
<1>0. TypeOK /\ best \in Blocks /\ disk.best \in Blocks /\ Target \in Blocks
  BY SetBestChainEnds DEF IInv, TypeOK, Database
<1> USE DEF CheckpointHeld
<1>1. pc \in {"set", "postponed"} => sync \in Anc[Target]
  BY DEF IInv, HandlerInv
<1>2. CASE CommitIntermediate
  <2>1. PICK i \in Blocks : /\ IsIntermediate(i)
                            /\ disk'.best = i
                            /\ best' \in {best, Target}
    BY <1>2 DEF CommitIntermediate, SetBestChainTrue
  <2>2. pc = "set" /\ sync' = sync
    BY <1>2 DEF CommitIntermediate
  <2> QED BY <1>0, <1>1, <2>1, <2>2, IntermediateAboveCheckpoint
<1>3. CASE CommitPostponed
  <2>1. PICK b \in Blocks : /\ IsNextPostponed(b)
                            /\ disk'.best = b
                            /\ best' \in {best, Target}
    BY <1>3 DEF CommitPostponed, SetBestChainTrue, IInv, TypeOK, Database
  <2>2. pc = "postponed" /\ sync' = sync
    BY <1>3 DEF CommitPostponed
  <2>3. Anc[b] = {b} \cup Anc[disk.best]
    BY <2>1, AncStep DEF IsNextPostponed
  <2> QED BY <1>1, <2>1, <2>2, <2>3
<1>4. CASE PostponedRefused \/ PostponedCommitFails
  BY <1>1, <1>4 DEF PostponedRefused, PostponedCommitFails, PostponedEnds, SetBestChainTrue
<1>5. CASE WriteSyncCheckpoint
  <2>1. sync' = chk /\ UNCHANGED <<best, disk>> /\ chk \in Anc[best]
    BY <1>5 DEF WriteSyncCheckpoint, chainVars, IInv, HandlerInv
  <2> QED BY <2>1 DEF InStep
<1>6. CASE Restart
  <2>1. best' = disk.best /\ disk' = disk /\ sync' \in {sync, Genesis}
    BY <1>6 DEF Restart, CrashAndRestart
  <2> QED BY <1>0, <2>1, GenesisBelowAll
<1> QED BY <1>0, <1>2, <1>3, <1>4, <1>5, <1>6, OtherSteps

\* In STRICT mode no step takes either main chain off a checkpoint both are on.
THEOREM MainChainKeepsCheckpoint == Spec => SyncInMainChain
BY StepKeepsMainChain, CheckpointInvHolds, PTL DEF Spec, SyncInMainChain

LEMMA StepKeepsStored ==
    IInv /\ IInv' /\ [Next]_vars =>
        [(sync' = sync \/ InStep) /\ sync \in disk.index => CheckpointStored']_vars
<1> SUFFICES ASSUME IInv, IInv', Next, sync' = sync \/ InStep, sync \in disk.index
             PROVE  CheckpointStored'
  BY DEF vars
<1>1. SUFFICES sync' \in disk'.index
  BY DEF IInv, StoreInv, CheckpointStored
<1>2. CASE CommitIntermediate
  BY <1>2 DEF CommitIntermediate
<1>3. CASE CommitPostponed
  BY <1>3 DEF CommitPostponed, IInv, TypeOK, Database
<1>4. CASE PostponedRefused \/ PostponedCommitFails
  BY <1>4 DEF PostponedRefused, PostponedCommitFails, PostponedEnds
<1>5. CASE WriteSyncCheckpoint
  BY <1>5 DEF WriteSyncCheckpoint, chainVars, InStep, IInv, HandlerInv, StoreInv
<1>6. CASE Restart
  BY <1>6 DEF Restart, CrashAndRestart, IInv, StoreInv
<1> QED BY <1>2, <1>3, <1>4, <1>5, <1>6, OtherSteps DEF IInv

\* The assertion in CheckSync holds in every mode, for a checkpoint written while
\* memory and disk were in step.
THEOREM CheckpointIsKnown == Spec => SyncAccepted
BY StepKeepsStored, CheckpointInvHolds, PTL DEF Spec, SyncAccepted

LEMMA CheckpointStepAdvances ==
    IInv /\ [Next]_vars => [sync' # sync /\ sync' # Genesis => sync \in Anc[sync']]_vars
<1> SUFFICES ASSUME IInv, Next, sync' # sync, sync' # Genesis PROVE sync \in Anc[sync']
  BY DEF vars
<1>1. CASE WriteSyncCheckpoint
  BY <1>1 DEF WriteSyncCheckpoint, IInv, HandlerInv
<1>2. CASE Restart
  BY <1>2 DEF Restart, CrashAndRestart
<1>3. sync' = sync \/ WriteSyncCheckpoint \/ Restart
  BY OtherSteps
     DEF IInv, CommitIntermediate, CommitPostponed, PostponedRefused, PostponedCommitFails,
         PostponedEnds
<1> QED BY <1>1, <1>2, <1>3

\* The checkpoint only moves up its own branch, but for a reset.
THEOREM CheckpointAdvances == Spec => SyncOnlyAdvances
BY CheckpointStepAdvances, CheckpointInvHolds, PTL DEF Spec, SyncOnlyAdvances

-----------------------------------------------------------------------------
\* SetBestChain has left memory ahead of the disk, or made the database one of no
\* chain; only a restart mends the former.
Behind == disk.torn \/ (pc # "postponed" /\ best # disk.best)

LEMMA BehindStays ==
    ASSUME TypeOK, HandlerStep, Behind
    PROVE  Behind'
<1> USE DEF Behind, chainVars
<1>1. CASE CommitIntermediate
  <2>1. pc = "set" /\ disk'.torn = ~InStep
    BY <1>1 DEF CommitIntermediate
  <2> QED BY <2>1 DEF InStep
<1>2. CASE CommitPostponed
  <2>1. pc = "postponed" /\ disk'.torn = disk.torn
    BY <1>2 DEF CommitPostponed, TypeOK, Database
  <2> QED BY <2>1
<1>3. CASE AddToBlockIndex
  <2>1. pc = "index" /\ pc' # "postponed" /\ disk'.torn = disk.torn /\ disk'.best = disk.best /\ best' = best
    BY <1>3 DEF AddToBlockIndex, TypeOK, Database
  <2> QED BY <2>1
<1>4. CASE IntermediateRefused
  BY <1>4 DEF IntermediateRefused, SetBestChainFalse, EndOfCheckpoint, Return
<1>5. CASE PostponedRefused
  BY <1>5 DEF PostponedRefused, PostponedEnds
<1>6. CASE AcceptPendingSyncCheckpoint
  BY <1>6 DEF AcceptPendingSyncCheckpoint, AdoptCheckpoint, Return
<1>7. CASE WriteSyncCheckpoint
  BY <1>7 DEF WriteSyncCheckpoint, EndOfCheckpoint, Return
<1>8. CASE SendSyncCheckpoint
  BY <1>8 DEF SendSyncCheckpoint, ProcessSyncCheckpoint, AdoptCheckpoint
<1> QED BY <1>1, <1>2, <1>3, <1>4, <1>5, <1>6, <1>7, <1>8 DEF HandlerStep

\* ConnectBlock refuses a block of a chain in step only if it may.
LEMMA RefusedForADoubt ==
    ASSUME TypeOK, IntermediateRefused
    PROVE  (Behind /\ Behind') \/ ~ChainConnects(Target)
<1>1. CASE ~InStep
  BY <1>1 DEF IntermediateRefused, InStep, Behind, SetBestChainFalse, EndOfCheckpoint, Return, chainVars
<1>2. CASE InStep
  <2>1. PICK i \in Blocks : IsIntermediate(i) /\ Connected(i) \cap Doubtful # {}
    BY <1>2 DEF IntermediateRefused
  <2>2. Anc[i] \subseteq Anc[Target]
    BY <2>1, SetBestChainEnds, AncTransitive DEF IsIntermediate
  <2> QED BY <2>1, <2>2 DEF Connected, ChainConnects
<1> QED BY <1>1, <1>2

\* A pending checkpoint whose block is known waits only for the step at hand, or is on
\* a chain with a doubtful block, or the node is behind.
PendingInv ==
    pending \in index =>
        \/ Behind
        \/ ~ChainConnects(pending)
        \/ pc \in {"index", "set", "postponed"} /\ caller = "block" /\ pending = cur
        \/ pc \in {"set", "postponed"} /\ caller = "pending" /\ pending = chk
        \/ pc \in {"accepted", "write"}

LEMMA AcceptBlockPending ==
    ASSUME PendingInv, NEW b \in Blocks, AcceptBlock(b), pc \in {"idle", "returned", "queue"}
    PROVE  PendingInv'
BY DEF AcceptBlock, Return, PendingInv, Behind, ChainConnects, syncVars

LEMMA PendingStep == TypeOK /\ PendingInv /\ [NextDiskWorks]_vars => PendingInv'
<1> SUFFICES ASSUME TypeOK, PendingInv, [NextDiskWorks]_vars PROVE PendingInv'
  OBVIOUS
<1>1. CASE BlockArrives
  BY <1>1, AcceptBlockPending DEF BlockArrives
<1>0. None \notin index
  BY TreeFacts DEF TypeOK
<1> USE DEF ChainConnects, chainVars, syncVars, callVars
<1>2. CASE AddToBlockIndex
  <2>1. Behind => Behind'
    BY <1>2, BehindStays DEF HandlerStep
  <2> QED BY <1>2, <2>1 DEF PendingInv, AddToBlockIndex
<1>3. CASE CommitIntermediate \/ CommitPostponed
  <2>1. Behind => Behind'
    BY <1>3, BehindStays DEF HandlerStep
  <2>2. /\ pc \in {"set", "postponed"} /\ UNCHANGED <<index, pending, cur, chk, caller>>
        /\ pc' \in {"postponed", "accepted", "write"}
    BY <1>3 DEF CommitIntermediate, CommitPostponed, SetBestChainTrue
  <2> QED BY <2>1, <2>2 DEF PendingInv
<1>4. CASE IntermediateRefused
  <2>1. (Behind /\ Behind') \/ ~ChainConnects(Target)
    BY <1>4, RefusedForADoubt
  <2>2. Behind => Behind'
    BY <1>4, BehindStays DEF HandlerStep
  <2>3. pc = "set" /\ UNCHANGED <<index, pending>>
    BY <1>4 DEF IntermediateRefused, SetBestChainFalse
  <2> QED BY <2>1, <2>2, <2>3 DEF PendingInv, Target
<1>5. CASE PostponedRefused
  BY <1>5 DEF PostponedRefused, PostponedEnds, SetBestChainTrue, PendingInv
<1>6. CASE AcceptPendingSyncCheckpoint
  BY <1>0, <1>6 DEF AcceptPendingSyncCheckpoint, AdoptCheckpoint, Return, PendingInv
<1>7. ASSUME NEW c \in Blocks, pc \in {"idle", "send"}, ProcessSyncCheckpoint(c)
      PROVE  PendingInv'
  BY <1>7 DEF ProcessSyncCheckpoint, AdoptCheckpoint, PendingInv, Behind
<1>8. CASE WriteSyncCheckpoint \/ Restart
  BY <1>0, <1>8, TreeFacts DEF WriteSyncCheckpoint, Restart, CrashAndRestart, PendingInv, TypeOK, Database
<1>9. CASE ReturnFromBlock \/ UNCHANGED vars
  BY <1>9 DEF ReturnFromBlock, vars, PendingInv, Behind
<1>10. AutoSelectSyncCheckpoint \subseteq Blocks
  BY AncBasic DEF AutoSelectSyncCheckpoint, TypeOK
<1> QED BY <1>1, <1>2, <1>3, <1>4, <1>5, <1>6, <1>7, <1>8, <1>9, <1>10, CheckpointAssumption
        DEF NextDiskWorks, HandlerStep, CheckpointArrives, SendSyncCheckpoint

LEMMA PendingInvSays == PendingInv => NoCheckpointForgotten
BY DEF PendingInv, NoCheckpointForgotten, Behind, InStep

\* As long as the disk works, a pending checkpoint is adopted as soon as its block can
\* be: a known block waits only behind a doubtful one or behind an earlier failure that
\* left memory ahead of the disk.
THEOREM PendingIsAdopted == SpecDiskWorks => []NoCheckpointForgotten
<1>1. Init => PendingInv
  BY TreeFacts DEF Init, PendingInv
<1>2. [NextDiskWorks]_vars => [Next]_vars
  BY DEF Next
<1> QED BY <1>1, <1>2, PendingInvSays, PendingStep, CheckpointType, PTL DEF SpecDiskWorks

-----------------------------------------------------------------------------
(* The orphans of ProcessBlock *)

\* AcceptBlock is at work on cur, SetBestChain and WriteSyncCheckpoint on behalf of a
\* pending checkpoint included.
Accepting ==
    \/ pc \in {"index", "accepted", "returned"}
    \/ pc \in {"set", "postponed", "write"} /\ caller # "message"

\* vWorkQueue is there exactly while ProcessBlock loops over orphans; the block
\* AcceptBlock is given in the loop is an orphan of the front of the queue, and
\* the one it is given before the loop is no orphan.
LoopInv ==
    /\ pc = "queue" => queue # <<>>
    /\ Accepting => IF queue = <<>> THEN cur \notin orphans
                                    ELSE cur \in orphans /\ Prev[cur] = Head(queue)
    /\ ~Accepting /\ pc # "queue" => queue = <<>>

\* Entries of mapOrphanBlocksByPrev are filed under the parent of the orphan, and
\* the genesis block is never held.
FiledInv ==
    /\ Genesis \notin orphans
    /\ \A p \in byPrev : p[1] = Prev[p[2]]

IntakeInv == LoopInv /\ FiledInv /\ OrphanMapsAgree

\* Only the orphan AcceptBlock has just indexed is both held and known.
NotKnownInv == \A o \in orphans \cap index : Accepting /\ o = cur

\* A held block whose parent is known has its turn in the loop, unless the chain
\* of its parent has a doubtful block or the node is behind.
InQueue(p) == \E i \in 1..Len(queue) : queue[i] = p
BeingAccepted(p) == Accepting /\ (pc = "returned" => ok) /\ p = cur
HasTurn(p) == Behind \/ ~ChainConnects(p) \/ InQueue(p) \/ BeingAccepted(p)
TurnInv == \A o \in orphans : Prev[o] \in index => HasTurn(Prev[o])

-----------------------------------------------------------------------------
\* What a step of ProcessBlock does to the state of SyncCheckpoint: a step of
\* that module, a call of AcceptBlock, or a move from one phase to the next.
MovesOn(from, to) ==
    /\ pc \in from /\ pc' \in to
    /\ UNCHANGED <<chainVars, syncVars, callVars, ok>>

LEMMA IntakeStepShape ==
    ASSUME IntakeTypeOK, [IntakeNext]_allVars
    PROVE  \/ [Next]_vars
           \/ pc \in {"idle", "queue"} /\ \E b \in Blocks : AcceptBlock(b)
           \/ MovesOn({"returned"}, {"queue", "idle"})
           \/ MovesOn({"queue"}, {"queue", "idle", "send"})
<1>1. ASSUME NEW b \in Blocks, ProcessBlock(b)
      PROVE  UNCHANGED vars \/ (pc = "idle" /\ AcceptBlock(b))
  BY <1>1 DEF ProcessBlock, ProcessBlockRejects, ProcessBlockHolds, ProcessBlockRejectsOrphan,
              ProcessBlockAccepts
<1>2. CASE ProcessBlockStep
  <2>1. CASE HandlerStep
    BY <2>1 DEF Next, NextDiskWorks
  <2>2. CASE ReturnToProcessBlock \/ ReturnFromOrphan
    BY <2>2 DEF ReturnToProcessBlock, ReturnFromOrphan, MovesOn
  <2>3. CASE AcceptOrphan
    <3>1. PICK o \in WaitingFor(Head(queue)) : pc = "queue" /\ AcceptBlock(o)
      BY <2>3 DEF AcceptOrphan
    <3>2. o \in Blocks
      BY DEF WaitingFor, IntakeTypeOK
    <3> QED BY <3>1, <3>2
  <2>4. CASE NextInQueue
    BY <2>4 DEF NextInQueue, EndOfProcessBlock, MovesOn
  <2> QED BY <1>2, <2>1, <2>2, <2>3, <2>4 DEF ProcessBlockStep
<1>3. CASE CommitFails \/ CheckpointMessage \/ IntakeRestart
  BY <1>3 DEF Next, NextDiskWorks, CheckpointMessage, IntakeRestart
<1>4. CASE UNCHANGED allVars
  BY <1>4 DEF allVars
<1> QED BY <1>1, <1>2, <1>3, <1>4 DEF IntakeNext

\* The tree and the tests of a block or a checkpoint do not depend on pc.
LEMMA SameTree ==
    /\ Checkpointing!Anc = Anc
    /\ \A S : Checkpointing!ClosedUnderPrev(S) <=> ClosedUnderPrev(S)
BY DEF Anc, ClosedUnderPrev, Checkpointing!Anc, Checkpointing!ClosedUnderPrev

LEMMA SameTests ==
    /\ Checkpointing!AutoSelectSyncCheckpoint = AutoSelectSyncCheckpoint
    /\ \A b : /\ Checkpointing!BlockChecks(b) <=> BlockChecks(b)
              /\ Checkpointing!AcceptBlockChecks(b) <=> AcceptBlockChecks(b)
              /\ Checkpointing!IsInMainChain(b) <=> IsInMainChain(b)
              /\ Checkpointing!IsNotInMainChain(b) <=> IsNotInMainChain(b)
              /\ Checkpointing!ValidateSyncCheckpoint(b) <=> ValidateSyncCheckpoint(b)
              /\ Checkpointing!Conflicting(b) <=> Conflicting(b)
BY SameTree
   DEF AutoSelectSyncCheckpoint, BlockChecks, AcceptBlockChecks, CheckSync, IsInMainChain,
       IsNotInMainChain, InStep, ValidateSyncCheckpoint, Conflicting,
       Checkpointing!AutoSelectSyncCheckpoint, Checkpointing!BlockChecks,
       Checkpointing!AcceptBlockChecks, Checkpointing!CheckSync, Checkpointing!IsInMainChain,
       Checkpointing!IsNotInMainChain, Checkpointing!InStep,
       Checkpointing!ValidateSyncCheckpoint, Checkpointing!Conflicting

\* And neither do the operators of SetBestChain.
LEMMA SameChoices ==
    /\ Checkpointing!InStep <=> InStep
    /\ Checkpointing!Target = Target
    /\ \A i : /\ Checkpointing!IsIntermediate(i) <=> IsIntermediate(i)
              /\ Checkpointing!Connected(i) = Connected(i)
              /\ Checkpointing!Disconnected(i) = Disconnected(i)
              /\ Checkpointing!IsNextPostponed(i) <=> IsNextPostponed(i)
BY SameTree
   DEF InStep, Target, IsIntermediate, Connected, Disconnected, IsNextPostponed,
       Checkpointing!InStep, Checkpointing!Target, Checkpointing!IsIntermediate,
       Checkpointing!Connected, Checkpointing!Disconnected, Checkpointing!IsNextPostponed

LEMMA SameEnds ==
    ASSUME pc # "queue"
    PROVE  /\ SetBestChainTrue => Checkpointing!SetBestChainTrue
           /\ SetBestChainFalse => Checkpointing!SetBestChainFalse
           /\ EndOfCheckpoint => Checkpointing!EndOfCheckpoint
           /\ \A r : Return(r) => Checkpointing!Return(r)
BY SameChoices
   DEF SetBestChainTrue, SetBestChainFalse, EndOfCheckpoint, Return, chainVars, callVars,
       Checkpointing!SetBestChainTrue, Checkpointing!SetBestChainFalse,
       Checkpointing!EndOfCheckpoint, Checkpointing!Return, Checkpointing!chainVars,
       Checkpointing!callVars

\* The refinement, step by step: a round of the loop over the orphans is a call
\* of AcceptBlock from the place where the block itself has returned.
LEMMA IntakeStepRefines ==
    IntakeTypeOK /\ [IntakeNext]_allVars => [Checkpointing!Next]_(Checkpointing!vars)
<1> SUFFICES ASSUME IntakeTypeOK, [IntakeNext]_allVars
             PROVE  Checkpointing!Next \/ UNCHANGED Checkpointing!vars
  OBVIOUS
<1> USE DEF chainVars, syncVars, callVars, Checkpointing!chainVars, Checkpointing!syncVars,
            Checkpointing!callVars
<1>1. ASSUME UNCHANGED vars PROVE UNCHANGED Checkpointing!vars
  BY <1>1 DEF vars, Checkpointing!vars
<1>2. ASSUME NEW b \in Blocks, AcceptBlock(b), pc \in {"idle", "queue"}
      PROVE  Checkpointing!BlockArrives
  BY <1>2, SameTests
     DEF AcceptBlock, Return, Checkpointing!BlockArrives, Checkpointing!AcceptBlock,
         Checkpointing!Return
<1>3. ASSUME \/ MovesOn({"returned"}, {"queue", "idle"})
             \/ MovesOn({"queue"}, {"queue", "idle"})
             \/ MovesOn({"queue"}, {"send"}) /\ HasMasterKey
      PROVE  Checkpointing!ReturnFromBlock \/ UNCHANGED Checkpointing!vars
  BY <1>3 DEF MovesOn, Checkpointing!ReturnFromBlock, Checkpointing!vars
<1>4. ASSUME NEW c, ProcessSyncCheckpoint(c), pc # "queue"
      PROVE  Checkpointing!ProcessSyncCheckpoint(c)
  BY <1>4, SameTests
     DEF ProcessSyncCheckpoint, AdoptCheckpoint,
         Checkpointing!ProcessSyncCheckpoint, Checkpointing!AdoptCheckpoint
<1>5. ASSUME HandlerStep PROVE Checkpointing!HandlerStep
  <2> USE DEF Checkpointing!HandlerStep
  <2>1. CASE AddToBlockIndex
    BY <2>1 DEF AddToBlockIndex, Checkpointing!AddToBlockIndex
  <2>2. CASE CommitIntermediate
    <3>1. PICK i \in Blocks :
             /\ IsIntermediate(i)
             /\ disk' = [index |-> disk.index \cup Connected(i)
                                    \cup {Prev[b] : b \in Connected(i) \cup Disconnected(i)},
                         best  |-> i, torn  |-> ~InStep]
             /\ IF i = Target THEN SetBestChainTrue
                              ELSE pc' = "postponed" /\ UNCHANGED <<best, invalid, ok>>
      BY <2>2 DEF CommitIntermediate
    <3>2. pc = "set" /\ UNCHANGED <<index, sync, pending, callVars>>
      BY <2>2 DEF CommitIntermediate
    <3> QED BY <3>1, <3>2, SameChoices, SameEnds DEF Checkpointing!CommitIntermediate
  <2>3. CASE IntermediateRefused
    BY <2>3, SameChoices, SameEnds DEF IntermediateRefused, Checkpointing!IntermediateRefused
  <2>4. CASE CommitPostponed
    <3>1. PICK b \in Blocks :
             /\ IsNextPostponed(b)
             /\ disk' = [disk EXCEPT !.index = @ \cup {b, Prev[b]}, !.best = b]
             /\ IF b = Target THEN SetBestChainTrue ELSE UNCHANGED <<best, invalid, pc, ok>>
      BY <2>4 DEF CommitPostponed
    <3>2. pc = "postponed" /\ UNCHANGED <<index, sync, pending, callVars>>
      BY <2>4 DEF CommitPostponed
    <3> QED BY <3>1, <3>2, SameChoices, SameEnds DEF Checkpointing!CommitPostponed
  <2>5. CASE PostponedRefused
    BY <2>5, SameChoices, SameEnds
       DEF PostponedRefused, PostponedEnds, Checkpointing!PostponedRefused,
           Checkpointing!PostponedEnds
  <2>6. CASE AcceptPendingSyncCheckpoint
    BY <2>6, SameTests, SameEnds
       DEF AcceptPendingSyncCheckpoint, AdoptCheckpoint,
           Checkpointing!AcceptPendingSyncCheckpoint, Checkpointing!AdoptCheckpoint
  <2>7. CASE WriteSyncCheckpoint
    BY <2>7, SameEnds DEF WriteSyncCheckpoint, Checkpointing!WriteSyncCheckpoint
  <2>8. CASE SendSyncCheckpoint
    BY <1>4, <2>8, SameTests DEF SendSyncCheckpoint, Checkpointing!SendSyncCheckpoint
  <2> QED BY <1>5, <2>1, <2>2, <2>3, <2>4, <2>5, <2>6, <2>7, <2>8 DEF HandlerStep
<1>6. ASSUME CommitFails PROVE Checkpointing!CommitFails
  BY <1>6, SameEnds
     DEF CommitFails, AddToBlockIndexFails, IntermediateCommitFails, PostponedCommitFails,
         PostponedEnds, WriteSyncCheckpointFails,
         Checkpointing!CommitFails, Checkpointing!AddToBlockIndexFails,
         Checkpointing!IntermediateCommitFails, Checkpointing!PostponedCommitFails,
         Checkpointing!PostponedEnds, Checkpointing!WriteSyncCheckpointFails
<1>7. ASSUME CheckpointArrives PROVE Checkpointing!CheckpointArrives
  BY <1>4, <1>7 DEF CheckpointArrives, Checkpointing!CheckpointArrives
<1>8. ASSUME Restart PROVE Checkpointing!Restart
  BY <1>8, SameTree
     DEF Restart, CrashAndRestart, Checkpointing!Restart, Checkpointing!CrashAndRestart
<1> USE DEF Checkpointing!Next, Checkpointing!NextDiskWorks
<1>9. CASE \E b \in Blocks : ProcessBlock(b)
  BY <1>1, <1>2, <1>9 DEF ProcessBlock, ProcessBlockRejects, ProcessBlockHolds,
                          ProcessBlockRejectsOrphan, ProcessBlockAccepts
<1>10. CASE ProcessBlockStep
  <2>1. CASE AcceptOrphan
    <3>1. PICK o \in WaitingFor(Head(queue)) : pc = "queue" /\ AcceptBlock(o)
      BY <2>1 DEF AcceptOrphan
    <3>2. o \in Blocks
      BY DEF WaitingFor, IntakeTypeOK
    <3> QED BY <1>2, <3>1, <3>2
  <2>2. CASE ReturnToProcessBlock \/ ReturnFromOrphan
    BY <1>3, <2>2 DEF ReturnToProcessBlock, ReturnFromOrphan, MovesOn
  <2>3. CASE NextInQueue
    BY <1>3, <2>3 DEF NextInQueue, EndOfProcessBlock, MovesOn
  <2> QED BY <1>5, <1>10, <2>1, <2>2, <2>3 DEF ProcessBlockStep
<1>11. CASE CommitFails \/ CheckpointMessage \/ IntakeRestart
  BY <1>6, <1>7, <1>8, <1>11 DEF CheckpointMessage, IntakeRestart
<1>12. CASE UNCHANGED allVars
  BY <1>1, <1>12 DEF allVars
<1> QED BY <1>9, <1>10, <1>11, <1>12 DEF IntakeNext

\* The inductive invariant of SyncCheckpoint holds in the loop over the orphans.
LEMMA IntakeKeepsCheckpoint ==
    IntakeTypeOK /\ IntakeTypeOK' /\ IInv /\ [IntakeNext]_allVars => IInv'
<1> SUFFICES ASSUME IntakeTypeOK, IntakeTypeOK', IInv, [IntakeNext]_allVars PROVE IInv'
  OBVIOUS
<1>1. TypeOK'
  BY DEF IntakeTypeOK
<1>2. ASSUME NEW from \in {{"returned"}, {"queue"}}, NEW to \in SUBSET {"idle", "queue", "send"},
             MovesOn(from, to)
      PROVE  IInv'
  BY <1>1, <1>2, ChainsStay DEF MovesOn
<1>3. ASSUME pc \in {"idle", "queue"}, NEW b \in Blocks, AcceptBlock(b) PROVE IInv'
  BY <1>1, <1>3, AcceptBlockKeeps
<1> QED BY <1>1, <1>2, <1>3, IntakeStepShape, CheckpointStepKeeps

-----------------------------------------------------------------------------
\* The walk back through the orphans ends at a block that is not held.
LEMMA WantedExists ==
    ASSUME NEW held, Genesis \notin held, NEW b \in Blocks
    PROVE  WantedByOrphan(held, b) \in Anc[b] \ held
<1> DEFINE W(a) == a \notin held /\ \A c \in Anc[b] \ Anc[a] : c \in held
<1>1. \E a \in Anc[b] : W(a)
  <2> SUFFICES ASSUME \A a \in Anc[b] : ~W(a) PROVE FALSE
    OBVIOUS
  <2> DEFINE S == {a \in Anc[b] : a \in held /\ \A c \in Anc[b] \ Anc[a] : c \in held}
  <2>1. S \in SUBSET Blocks /\ b \in S
    BY AncBasic
  <2>2. ClosedUnderPrev(S)
    <3> SUFFICES ASSUME NEW a \in S, a # Genesis PROVE Prev[a] \in S
      BY DEF ClosedUnderPrev
    <3>1. a \in Blocks \ {Genesis} /\ Prev[a] \in Anc[b]
      BY AncBasic
    <3>2. Anc[a] = {a} \cup Anc[Prev[a]]
      BY <3>1, AncStep
    <3>3. \A c \in Anc[b] \ Anc[Prev[a]] : c \in held
      BY <3>2
    <3> QED BY <3>1, <3>3
  <2>3. Genesis \in S
    BY <2>1, <2>2, AncLeast, GenesisBelowAll
  <2> QED BY <2>3
<1> QED BY <1>1 DEF WantedByOrphan

LEMMA IntakeTypeStep ==
    IntakeTypeOK /\ LoopInv /\ FiledInv /\ [IntakeNext]_allVars => IntakeTypeOK'
<1> SUFFICES ASSUME IntakeTypeOK, LoopInv, FiledInv, [IntakeNext]_allVars PROVE IntakeTypeOK'
  OBVIOUS
<1>1. TypeOK'
  <2>1. TypeOK
    BY DEF IntakeTypeOK
  <2>2. ASSUME NEW from, NEW to \in SUBSET Phases, MovesOn(from, to) PROVE TypeOK'
    BY <2>1, <2>2 DEF MovesOn, TypeOK, chainVars, syncVars, callVars
  <2> QED BY <2>1, <2>2, IntakeStepShape, CheckpointTypeStep, AcceptBlockType DEF Phases
<1> DEFINE Held == /\ orphans \subseteq Blocks
                   /\ byPrev \subseteq Blocks \X Blocks
                   /\ stakeSeenOrphan \subseteq {Stake[b] : b \in Blocks} \ {None}
                   /\ queue \in Seq(Blocks)
                   /\ asked \subseteq Blocks
<1>2. Held /\ cur \in Blocks /\ pending \in Blocks \cup {None}
  BY DEF IntakeTypeOK, TypeOK
<1>3. ASSUME NEW d PROVE PendingToAskFor(d) \subseteq Blocks
  BY <1>2 DEF PendingToAskFor
<1> USE DEF intakeVars, orphanVars
<1>4. CASE \E b \in Blocks : ProcessBlock(b)
  <2>1. PICK b \in Blocks : ProcessBlock(b)
    BY <1>4
  <2>2. PICK d \in Downloading :
           \/ ProcessBlockRejects(b)
           \/ ProcessBlockHolds(b, d)
           \/ ProcessBlockRejectsOrphan(b, d)
           \/ ProcessBlockAccepts(b, d)
    BY <2>1 DEF ProcessBlock
  <2>3. b # Genesis
    BY <2>1 DEF ProcessBlock
  <2>4. CASE ProcessBlockHolds(b, d)
    <3>1. Prev[b] \in Blocks
      BY <2>3, TreeFacts
    <3>2. Genesis \notin orphans'
      BY <2>3, <2>4 DEF ProcessBlockHolds, FiledInv
    <3>3. WantedByOrphan(orphans', b) \in Blocks
      BY <3>2, WantedExists, AncBasic
    <3> QED BY <1>1, <1>2, <1>3, <2>4, <3>1, <3>3 DEF ProcessBlockHolds, Request, IntakeTypeOK
  <2>5. CASE ~ProcessBlockHolds(b, d)
    BY <1>1, <1>2, <1>3, <2>2, <2>5
       DEF ProcessBlockRejects, ProcessBlockRejectsOrphan, ProcessBlockAccepts, Request, IntakeTypeOK
  <2> QED BY <2>4, <2>5
<1>5. CASE ProcessBlockStep
  <2>1. CASE ReturnToProcessBlock
    <3>1. <<cur>> \in Seq(Blocks)
      BY <1>2
    <3>2. queue' \in Seq(Blocks)
      BY <1>2, <2>1, <3>1 DEF ReturnToProcessBlock
    <3> QED BY <1>1, <1>2, <2>1, <3>2 DEF ReturnToProcessBlock, IntakeTypeOK
  <2>2. CASE ReturnFromOrphan
    BY <1>1, <1>2, <2>2 DEF ReturnFromOrphan, IntakeTypeOK
  <2>3. CASE NextInQueue
    <3>1. queue # <<>> /\ queue' = Tail(queue)
      BY <2>3 DEF NextInQueue, LoopInv
    <3>2. queue' \in Seq(Blocks)
      BY <1>2, <3>1
    <3> QED BY <1>1, <1>2, <2>3, <3>2 DEF NextInQueue, IntakeTypeOK
  <2>4. CASE UNCHANGED intakeVars
    BY <1>1, <1>2, <2>4 DEF IntakeTypeOK
  <2> QED BY <1>5, <2>1, <2>2, <2>3, <2>4 DEF ProcessBlockStep, AcceptOrphan
<1>6. CASE CheckpointMessage
  <2>1. ASSUME pending' # None PROVE WantedByOrphan(orphans, pending') \in Blocks
    <3>1. pending' \in Blocks
      BY <1>1, <2>1 DEF TypeOK
    <3> QED BY <3>1, WantedExists, AncBasic DEF FiledInv
  <2> QED BY <1>1, <1>2, <1>6, <2>1 DEF CheckpointMessage, IntakeTypeOK, TypeOK
<1>7. CASE IntakeRestart
  BY <1>1, <1>7 DEF IntakeRestart, IntakeTypeOK
<1>8. CASE (CommitFails /\ UNCHANGED intakeVars) \/ UNCHANGED allVars
  BY <1>1, <1>2, <1>8 DEF IntakeTypeOK, allVars
<1> QED BY <1>4, <1>5, <1>6, <1>7, <1>8 DEF IntakeNext

\* What a call of AcceptBlock and the other steps of the handlers do to pc and cur.
LEMMA AcceptBlockPhase ==
    ASSUME NEW b, AcceptBlock(b)
    PROVE  cur' = b /\ pc' \in {"index", "returned"}
BY DEF AcceptBlock, Return

LEMMA HandlerPhase ==
    ASSUME TypeOK, CallerInv, HandlerStep \/ CommitFails
    PROVE  /\ cur' = cur
           /\ pc \notin {"idle", "returned", "queue"} /\ pc' # "queue"
           /\ Accepting' <=> Accepting
<1> USE DEF Accepting, Return, chainVars, syncVars, callVars
<1>1. CASE AddToBlockIndex \/ AddToBlockIndexFails
  BY <1>1 DEF AddToBlockIndex, AddToBlockIndexFails, CallerInv
<1>2. CASE CommitIntermediate \/ CommitPostponed
  BY <1>2 DEF CommitIntermediate, CommitPostponed, SetBestChainTrue
<1>3. CASE IntermediateRefused \/ IntermediateCommitFails
  BY <1>3 DEF IntermediateRefused, IntermediateCommitFails, SetBestChainFalse, EndOfCheckpoint,
              TypeOK, Callers
<1>4. CASE PostponedRefused \/ PostponedCommitFails
  BY <1>4 DEF PostponedRefused, PostponedCommitFails, PostponedEnds, SetBestChainTrue
<1>5. CASE AcceptPendingSyncCheckpoint
  BY <1>5 DEF AcceptPendingSyncCheckpoint, AdoptCheckpoint
<1>6. CASE SendSyncCheckpoint
  BY <1>6 DEF SendSyncCheckpoint, ProcessSyncCheckpoint, AdoptCheckpoint
<1>7. CASE WriteSyncCheckpoint \/ WriteSyncCheckpointFails
  BY <1>7 DEF WriteSyncCheckpoint, WriteSyncCheckpointFails, EndOfCheckpoint, CallerInv,
              TypeOK, Callers
<1> QED BY <1>1, <1>2, <1>3, <1>4, <1>5, <1>6, <1>7 DEF HandlerStep, CommitFails

LEMMA MessagePhase ==
    ASSUME CheckpointArrives
    PROVE  pc = "idle" /\ pc' \in {"idle", "set", "write"} /\ ~Accepting /\ ~Accepting'
BY DEF CheckpointArrives, ProcessSyncCheckpoint, AdoptCheckpoint, Accepting

LEMMA IntakeInvStep ==
    IntakeTypeOK /\ IInv /\ IntakeInv /\ [IntakeNext]_allVars => IntakeInv'
<1> SUFFICES ASSUME IntakeTypeOK, IInv, IntakeInv, [IntakeNext]_allVars PROVE IntakeInv'
  OBVIOUS
<1> USE DEF IntakeInv, LoopInv, FiledInv, OrphanMapsAgree, intakeVars, orphanVars
<1>1. ASSUME NEW b \in Blocks, ProcessBlock(b) PROVE IntakeInv'
  <2>0. pc = "idle" /\ queue = <<>> /\ b # Genesis
    BY <1>1 DEF ProcessBlock, Accepting
  <2>1. PICK d \in Downloading :
           \/ ProcessBlockRejects(b)
           \/ ProcessBlockHolds(b, d)
           \/ ProcessBlockRejectsOrphan(b, d)
           \/ ProcessBlockAccepts(b, d)
    BY <1>1 DEF ProcessBlock
  <2>2. CASE ProcessBlockHolds(b, d)
    BY <2>0, <2>2 DEF ProcessBlockHolds, vars, Accepting
  <2>3. CASE ProcessBlockAccepts(b, d)
    <3>1. b \notin orphans
      BY <2>3 DEF ProcessBlockAccepts, RejectedAtOnce
    <3>2. cur' = b /\ pc' \in {"index", "returned"}
      BY <2>3, AcceptBlockPhase DEF ProcessBlockAccepts
    <3> QED BY <2>0, <2>3, <3>1, <3>2 DEF ProcessBlockAccepts, Accepting
  <2>4. CASE ProcessBlockRejects(b) \/ ProcessBlockRejectsOrphan(b, d)
    BY <2>0, <2>4 DEF ProcessBlockRejects, ProcessBlockRejectsOrphan, vars, Accepting
  <2> QED BY <2>1, <2>2, <2>3, <2>4
<1>2. CASE (HandlerStep \/ CommitFails) /\ UNCHANGED intakeVars
  BY <1>2, HandlerPhase DEF IInv, Accepting
<1>3. CASE ReturnToProcessBlock
  <2>1. queue = <<>>
    BY <1>3 DEF ReturnToProcessBlock, Accepting
  <2>2. CASE ok
    BY <1>3, <2>1, <2>2 DEF ReturnToProcessBlock, Accepting
  <2>3. CASE ~ok
    BY <1>3, <2>1, <2>3 DEF ReturnToProcessBlock, Accepting
  <2> QED BY <2>2, <2>3
<1>4. CASE AcceptOrphan
  <2>1. PICK o \in WaitingFor(Head(queue)) : AcceptBlock(o)
    BY <1>4 DEF AcceptOrphan
  <2>2. cur' = o /\ pc' \in {"index", "returned"}
    BY <2>1, AcceptBlockPhase
  <2>3. o \in orphans /\ Prev[o] = Head(queue) /\ queue # <<>>
    BY <1>4, <2>1 DEF AcceptOrphan, WaitingFor
  <2> QED BY <1>4, <2>2, <2>3 DEF AcceptOrphan, Accepting
<1>5. CASE ReturnFromOrphan
  <2>1. queue # <<>> /\ cur \in orphans /\ Prev[cur] = Head(queue) /\ queue \in Seq(Blocks)
    BY <1>5 DEF ReturnFromOrphan, Accepting, IntakeTypeOK
  <2>2. queue' # <<>> /\ Head(queue') = Head(queue)
    BY <1>5, <2>1 DEF ReturnFromOrphan, IntakeTypeOK, TypeOK
  <2> QED BY <1>5, <2>1, <2>2 DEF ReturnFromOrphan, Accepting
<1>6. CASE NextInQueue
  <2>1. \A o \in orphans : Prev[o] # Head(queue)
    BY <1>6 DEF NextInQueue, WaitingFor
  <2>2. \A p \in byPrev' : p \in byPrev /\ p[2] \in orphans
    BY <1>6 DEF NextInQueue
  <2>3. \A o \in orphans : <<Prev[o], o>> \in byPrev'
    BY <1>6, <2>1 DEF NextInQueue
  <2> QED BY <1>6, <2>2, <2>3 DEF NextInQueue, EndOfProcessBlock, Accepting
<1>7. CASE CheckpointMessage
  BY <1>7, MessagePhase DEF CheckpointMessage, Accepting
<1>8. CASE IntakeRestart
  BY <1>8 DEF IntakeRestart, Restart, CrashAndRestart, Accepting
<1>9. CASE UNCHANGED allVars
  BY <1>9 DEF allVars, vars, callVars, Accepting
<1> QED BY <1>1, <1>2, <1>3, <1>4, <1>5, <1>6, <1>7, <1>8, <1>9 DEF IntakeNext, ProcessBlockStep

LEMMA IntakeInitOK == IntakeInit => IntakeTypeOK /\ IInv /\ IntakeInv
<1> SUFFICES ASSUME IntakeInit PROVE IntakeTypeOK /\ IInv /\ IntakeInv
  OBVIOUS
<1>1. TypeOK /\ IInv
  BY CheckpointTypeInit, CheckpointInitOK DEF IntakeInit
<1> QED BY <1>1 DEF IntakeInit, Init, IntakeTypeOK, IntakeInv, LoopInv, FiledInv, OrphanMapsAgree,
                    Accepting

LEMMA IntakeStepKeeps ==
    IntakeTypeOK /\ IInv /\ IntakeInv /\ [IntakeNext]_allVars
        => (IntakeTypeOK /\ IInv /\ IntakeInv)'
BY IntakeTypeStep, IntakeKeepsCheckpoint, IntakeInvStep DEF IntakeInv

LEMMA IntakeInvHolds == IntakeSpec => [](IntakeTypeOK /\ IInv /\ IntakeInv)
BY IntakeInitOK, IntakeStepKeeps, PTL DEF IntakeSpec

\* Variables keep their types: no chain of orphans is followed to its end in vain,
\* so that every block asked for exists.
THEOREM IntakeTypeCorrect == IntakeSpec => []IntakeTypeOK
BY IntakeInvHolds, PTL

\* mapOrphanBlocks and mapOrphanBlocksByPrev agree whenever they are looked at.
THEOREM OrphanBlockMapsAgree == IntakeSpec => []OrphanMapsAgree
<1>1. IntakeInv => OrphanMapsAgree
  BY DEF IntakeInv
<1> QED BY <1>1, IntakeInvHolds, PTL

\* ProcessBlock implements SyncCheckpoint.
THEOREM IntakeRefinesCheckpoint == IntakeSpec => ImplementsSyncCheckpoint
<1>1. IntakeInit => Checkpointing!Init
  BY DEF IntakeInit, Init, Checkpointing!Init
<1> QED BY <1>1, IntakeStepRefines, IntakeInvHolds, PTL
        DEF IntakeSpec, ImplementsSyncCheckpoint, Checkpointing!Spec

-----------------------------------------------------------------------------
\* The steps of IntakeLiveSpec, and restarts: no commit fails.
IntakeNextDiskWorks ==
    \/ \E b \in Blocks : ProcessBlock(b)
    \/ ProcessBlockStep
    \/ CheckpointMessage
    \/ IntakeRestart

\* What the steps of AcceptBlock after the insertion into the index do to index and
\* ok: it returns false only if the chain of the block has a doubtful block or the
\* node is behind.
LEMMA HandlerReturns ==
    ASSUME TypeOK, HandlerStep
    PROVE  /\ index' = index
           /\ pc' = "returned" => ok' \/ ~ChainConnects(cur) \/ Behind'
<1> USE DEF Return, chainVars, syncVars
<1>1. CASE AddToBlockIndex
  BY <1>1 DEF AddToBlockIndex
<1>2. CASE CommitIntermediate \/ CommitPostponed
  BY <1>2 DEF CommitIntermediate, CommitPostponed, SetBestChainTrue
<1>3. CASE IntermediateRefused
  <2>1. Behind' \/ ~ChainConnects(Target)
    BY <1>3, RefusedForADoubt
  <2> QED BY <1>3, <2>1 DEF IntermediateRefused, SetBestChainFalse, EndOfCheckpoint, Target
<1>4. CASE PostponedRefused
  BY <1>4 DEF PostponedRefused, PostponedEnds, SetBestChainTrue
<1>5. CASE AcceptPendingSyncCheckpoint
  BY <1>5 DEF AcceptPendingSyncCheckpoint, AdoptCheckpoint
<1>6. CASE SendSyncCheckpoint
  BY <1>6 DEF SendSyncCheckpoint, ProcessSyncCheckpoint, AdoptCheckpoint
<1>7. CASE WriteSyncCheckpoint
  BY <1>7 DEF WriteSyncCheckpoint, EndOfCheckpoint
<1> QED BY <1>1, <1>2, <1>3, <1>4, <1>5, <1>6, <1>7 DEF HandlerStep

LEMMA MessageKeepsIndex ==
    ASSUME CheckpointArrives
    PROVE  UNCHANGED <<index, best, disk>>
BY DEF CheckpointArrives, ProcessSyncCheckpoint, AdoptCheckpoint, chainVars, syncVars

LEMMA NotKnownStep ==
    IntakeTypeOK /\ IInv /\ IntakeInv /\ NotKnownInv /\ [IntakeNextDiskWorks]_allVars => NotKnownInv'
<1> SUFFICES ASSUME IntakeTypeOK, IInv, IntakeInv, NotKnownInv, [IntakeNextDiskWorks]_allVars
             PROVE  NotKnownInv'
  OBVIOUS
<1> USE DEF NotKnownInv, intakeVars, orphanVars, chainVars, callVars
<1>1. ASSUME NEW b \in Blocks, AcceptBlock(b), UNCHANGED orphans, ~Accepting PROVE NotKnownInv'
  <2>1. Accepting' /\ cur' = b
    BY <1>1, AcceptBlockPhase DEF Accepting
  <2>2. index' \subseteq index \cup {b}
    BY <1>1 DEF AcceptBlock
  <2> QED BY <1>1, <2>1, <2>2
<1>2. ASSUME NEW b \in Blocks, ProcessBlock(b) PROVE NotKnownInv'
  <2>1. PICK d \in Downloading :
           \/ ProcessBlockRejects(b)
           \/ ProcessBlockHolds(b, d)
           \/ ProcessBlockRejectsOrphan(b, d)
           \/ ProcessBlockAccepts(b, d)
    BY <1>2 DEF ProcessBlock
  <2>2. CASE ProcessBlockHolds(b, d)
    BY <2>2 DEF ProcessBlockHolds, RejectedAtOnce, vars, Accepting
  <2>3. CASE ProcessBlockAccepts(b, d)
    BY <1>1, <1>2, <2>3 DEF ProcessBlock, ProcessBlockAccepts, Accepting
  <2>4. CASE ProcessBlockRejects(b) \/ ProcessBlockRejectsOrphan(b, d)
    BY <2>4 DEF ProcessBlockRejects, ProcessBlockRejectsOrphan, vars, Accepting
  <2> QED BY <2>1, <2>2, <2>3, <2>4
<1>3. CASE HandlerStep /\ UNCHANGED intakeVars
  BY <1>3, HandlerPhase, HandlerReturns DEF IInv
<1>4. CASE ReturnToProcessBlock
  BY <1>4 DEF ReturnToProcessBlock
<1>5. CASE AcceptOrphan
  <2>1. PICK o \in WaitingFor(Head(queue)) : AcceptBlock(o)
    BY <1>5 DEF AcceptOrphan
  <2>2. o \in Blocks
    BY <2>1 DEF WaitingFor, IntakeTypeOK
  <2> QED BY <1>1, <1>5, <2>1, <2>2 DEF AcceptOrphan, Accepting
<1>6. CASE ReturnFromOrphan
  BY <1>6 DEF ReturnFromOrphan
<1>7. CASE NextInQueue
  BY <1>7 DEF NextInQueue, Accepting
<1>8. CASE CheckpointMessage
  BY <1>8, MessagePhase, MessageKeepsIndex DEF CheckpointMessage, Accepting
<1>9. CASE IntakeRestart
  BY <1>9 DEF IntakeRestart
<1>10. CASE UNCHANGED allVars
  BY <1>10 DEF allVars, vars, Accepting
<1> QED BY <1>2, <1>3, <1>4, <1>5, <1>6, <1>7, <1>8, <1>9, <1>10
        DEF IntakeNextDiskWorks, ProcessBlockStep

LEMMA TurnStep ==
    IntakeTypeOK /\ IInv /\ IntakeInv /\ NotKnownInv /\ TurnInv /\ [IntakeNextDiskWorks]_allVars
        => TurnInv'
<1> SUFFICES ASSUME IntakeTypeOK, IInv, IntakeInv, NotKnownInv, TurnInv, [IntakeNextDiskWorks]_allVars,
                    NEW o \in orphans', Prev[o] \in index'
             PROVE  HasTurn(Prev[o])'
  BY DEF TurnInv
<1> USE DEF intakeVars, orphanVars, chainVars, callVars, HasTurn, ChainConnects
<1>0. queue \in Seq(Blocks) /\ orphans \subseteq Blocks
  BY DEF IntakeTypeOK
<1>1. ASSUME o \in orphans, Prev[o] \in index
      PROVE  HasTurn(Prev[o])
  BY <1>1 DEF TurnInv
<1>2. ASSUME NEW b \in Blocks, AcceptBlock(b), UNCHANGED <<orphans, queue>>, b \notin index,
             pc \in {"idle", "queue"}
      PROVE  HasTurn(Prev[o])'
  <2>0. Behind => Behind'
    BY <1>2 DEF AcceptBlock, Return, Behind
  <2>1. CASE AcceptBlockChecks(b)
    BY <1>1, <1>2, <2>0, <2>1 DEF AcceptBlock, InQueue, Accepting, BeingAccepted
  <2>2. CASE ~AcceptBlockChecks(b)
    BY <1>1, <1>2, <2>0, <2>2 DEF AcceptBlock, Return, InQueue, Accepting, BeingAccepted
  <2> QED BY <2>1, <2>2
<1>3. ASSUME NEW b \in Blocks, ProcessBlock(b)
      PROVE  HasTurn(Prev[o])'
  <2>1. PICK d \in Downloading :
           \/ ProcessBlockRejects(b)
           \/ ProcessBlockHolds(b, d)
           \/ ProcessBlockRejectsOrphan(b, d)
           \/ ProcessBlockAccepts(b, d)
    BY <1>3 DEF ProcessBlock
  <2>2. CASE ProcessBlockHolds(b, d)
    BY <1>1, <2>2 DEF ProcessBlockHolds, vars, InQueue, Accepting, BeingAccepted, Behind
  <2>3. CASE ProcessBlockAccepts(b, d)
    BY <1>2, <1>3, <2>3 DEF ProcessBlock, ProcessBlockAccepts, RejectedAtOnce, Accepting, BeingAccepted
  <2>4. CASE ProcessBlockRejects(b) \/ ProcessBlockRejectsOrphan(b, d)
    BY <1>1, <2>4 DEF ProcessBlockRejects, ProcessBlockRejectsOrphan, vars, InQueue, Accepting, BeingAccepted,
                         Behind
  <2> QED BY <2>1, <2>2, <2>3, <2>4
<1>4. CASE HandlerStep /\ UNCHANGED intakeVars
  <2>1. TypeOK /\ CallerInv
    BY DEF IInv
  <2> QED BY <1>1, <1>4, <2>1, HandlerPhase, HandlerReturns, BehindStays DEF InQueue, BeingAccepted
<1>5. CASE ReturnToProcessBlock
  <2>1. queue = <<>> /\ ~InQueue(Prev[o])
    BY <1>5 DEF ReturnToProcessBlock, Accepting, BeingAccepted, IntakeInv, LoopInv, InQueue
  <2>2. CASE ok
    <3>1. Prev[o] = cur => InQueue(Prev[o])'
      BY <1>5, <2>2 DEF ReturnToProcessBlock, InQueue
    <3> QED BY <1>1, <1>5, <2>1, <3>1 DEF ReturnToProcessBlock, BeingAccepted, Accepting, Behind
  <2>3. CASE ~ok
    BY <1>1, <1>5, <2>1, <2>3 DEF ReturnToProcessBlock, BeingAccepted, Accepting, Behind
  <2> QED BY <2>2, <2>3
<1>6. CASE AcceptOrphan
  <2>1. PICK b \in WaitingFor(Head(queue)) : AcceptBlock(b)
    BY <1>6 DEF AcceptOrphan
  <2>2. b \in Blocks /\ b \notin index
    BY <1>0, <1>6, <2>1 DEF WaitingFor, NotKnownInv, AcceptOrphan, Accepting, BeingAccepted
  <2> QED BY <1>2, <1>6, <2>1, <2>2 DEF AcceptOrphan, Accepting, BeingAccepted
<1>7. CASE ReturnFromOrphan
  <2>1. CASE ok
    <3>1. queue' = Append(queue, cur) /\ cur \in Blocks
      BY <1>0, <1>7, <2>1 DEF ReturnFromOrphan, BeingAccepted, Accepting, Behind, InQueue
    <3>2. InQueue(Prev[o]) \/ Prev[o] = cur => InQueue(Prev[o])'
      BY <1>0, <3>1 DEF InQueue
    <3> QED BY <1>1, <1>7, <3>2 DEF ReturnFromOrphan, BeingAccepted, Accepting, Behind, InQueue
  <2>2. CASE ~ok
    BY <1>1, <1>7, <2>2 DEF ReturnFromOrphan, BeingAccepted, Accepting, Behind, InQueue
  <2> QED BY <2>1, <2>2
<1>8. CASE NextInQueue
  <2>1. Prev[o] # Head(queue) /\ queue # <<>> /\ queue' = Tail(queue)
    BY <1>8 DEF NextInQueue, WaitingFor, IntakeInv, OrphanMapsAgree, LoopInv
  <2>2. InQueue(Prev[o]) => InQueue(Prev[o])'
    <3> SUFFICES ASSUME NEW i \in 1..Len(queue), queue[i] = Prev[o] PROVE InQueue(Prev[o])'
      BY DEF InQueue
    <3>1. i # 1
      BY <1>0, <2>1
    <3>2. i - 1 \in 1..Len(queue') /\ queue'[i - 1] = queue[i]
      BY <1>0, <2>1, <3>1
    <3> QED BY <3>2 DEF InQueue
  <2> QED BY <1>1, <1>8, <2>2 DEF NextInQueue, EndOfProcessBlock, Accepting, BeingAccepted, Behind
<1>9. CASE CheckpointMessage
  BY <1>1, <1>9, MessagePhase, MessageKeepsIndex DEF CheckpointMessage, InQueue, BeingAccepted, Behind
<1>10. CASE IntakeRestart
  BY <1>10 DEF IntakeRestart
<1>11. CASE UNCHANGED allVars
  BY <1>1, <1>11 DEF allVars, vars, InQueue, Accepting, BeingAccepted, Behind
<1> QED BY <1>3, <1>4, <1>5, <1>6, <1>7, <1>8, <1>9, <1>10, <1>11
        DEF IntakeNextDiskWorks, ProcessBlockStep

LEMMA TurnInvHolds ==
    IntakeInit /\ [][IntakeNextDiskWorks]_allVars =>
        [](IntakeTypeOK /\ IInv /\ IntakeInv /\ NotKnownInv /\ TurnInv)
<1>1. IntakeInit => IntakeTypeOK /\ IInv /\ IntakeInv /\ NotKnownInv /\ TurnInv
  BY IntakeInitOK DEF IntakeInit, NotKnownInv, TurnInv
<1>2. [IntakeNextDiskWorks]_allVars => [IntakeNext]_allVars
  BY DEF IntakeNextDiskWorks, IntakeNext
<1> QED BY <1>1, <1>2, IntakeStepKeeps, NotKnownStep, TurnStep, PTL

\* Between messages a block is held although its parent is known only if the chain
\* of the parent has a doubtful block, or the node is behind.
HeldForUnconnected ==
    pc = "idle" /\ InStep => \A o \in orphans : Prev[o] \in index => ~ChainConnects(Prev[o])

\* Without doubtful blocks and failing commits the node never falls behind.
LEMMA NeverBehindStep ==
    Doubtful = {} /\ IntakeTypeOK /\ ~Behind /\ [IntakeNextDiskWorks]_allVars => ~Behind'
<1> SUFFICES ASSUME Doubtful = {}, IntakeTypeOK, ~Behind, [IntakeNextDiskWorks]_allVars
             PROVE  ~Behind'
  OBVIOUS
<1>0. TypeOK /\ disk \in Database
  BY DEF IntakeTypeOK, TypeOK
<1> USE DEF chainVars
<1>1. ASSUME UNCHANGED <<best, disk>>, pc # "postponed" PROVE ~Behind'
  BY <1>1 DEF Behind
<1>2. CASE HandlerStep
  <2>1. CASE AddToBlockIndex
    <3>1. /\ pc = "index" /\ best' = best
          /\ disk'.torn = disk.torn /\ disk'.best = disk.best
      BY <1>0, <2>1 DEF AddToBlockIndex, Database
    <3> QED BY <3>1 DEF Behind
  <2>2. CASE CommitIntermediate
    <3>1. PICK i \in Blocks :
             /\ disk'.best = i /\ disk'.torn = ~InStep
             /\ IF i = Target THEN SetBestChainTrue ELSE pc' = "postponed"
      BY <2>2 DEF CommitIntermediate
    <3>2. InStep
      BY <2>2 DEF CommitIntermediate, Behind, InStep
    <3> QED BY <3>1, <3>2 DEF Behind, SetBestChainTrue
  <2>3. CASE CommitPostponed
    <3>1. PICK b \in Blocks :
             /\ disk'.best = b /\ disk'.torn = disk.torn
             /\ IF b = Target THEN SetBestChainTrue ELSE pc' = pc
      BY <1>0, <2>3 DEF CommitPostponed, Database
    <3>2. pc = "postponed" /\ ~disk.torn
      BY <2>3 DEF CommitPostponed, Behind
    <3> QED BY <3>1, <3>2 DEF Behind, SetBestChainTrue
  <2>4. CASE PostponedRefused
    BY <2>4 DEF PostponedRefused, Behind
  <2>5. CASE IntermediateRefused \/ AcceptPendingSyncCheckpoint \/ WriteSyncCheckpoint
    BY <1>1, <2>5 DEF IntermediateRefused, SetBestChainFalse, AcceptPendingSyncCheckpoint,
                      AdoptCheckpoint, WriteSyncCheckpoint
  <2>6. CASE SendSyncCheckpoint
    BY <1>1, <2>6 DEF SendSyncCheckpoint, ProcessSyncCheckpoint, AdoptCheckpoint
  <2> QED BY <1>2, <2>1, <2>2, <2>3, <2>4, <2>5, <2>6 DEF HandlerStep
<1>3. ASSUME NEW b, AcceptBlock(b), pc # "postponed" PROVE ~Behind'
  BY <1>1, <1>3 DEF AcceptBlock
<1>4. CASE \E b \in Blocks : ProcessBlock(b)
  <2>1. PICK b \in Blocks : ProcessBlock(b)
    BY <1>4
  <2>2. pc = "idle" /\ (UNCHANGED vars \/ AcceptBlock(b))
    BY <2>1 DEF ProcessBlock, ProcessBlockRejects, ProcessBlockHolds, ProcessBlockRejectsOrphan,
                ProcessBlockAccepts
  <2> QED BY <1>1, <1>3, <2>2 DEF vars
<1>5. CASE ReturnToProcessBlock \/ ReturnFromOrphan \/ NextInQueue
  BY <1>1, <1>5 DEF ReturnToProcessBlock, ReturnFromOrphan, NextInQueue
<1>6. CASE AcceptOrphan
  BY <1>3, <1>6 DEF AcceptOrphan
<1>7. CASE CheckpointMessage
  BY <1>1, <1>7, MessagePhase, MessageKeepsIndex DEF CheckpointMessage
<1>8. CASE IntakeRestart
  BY <1>8 DEF IntakeRestart, Restart, CrashAndRestart, Behind
<1>9. CASE UNCHANGED allVars
  BY <1>9 DEF allVars, vars, Behind
<1> QED BY <1>2, <1>4, <1>5, <1>6, <1>7, <1>8, <1>9 DEF IntakeNextDiskWorks, ProcessBlockStep

LEMMA LiveStepsOnly == IntakeLiveSpec => IntakeInit /\ [][IntakeNextDiskWorks]_allVars
<1>1. [\/ \E b \in Blocks : ProcessBlock(b)
       \/ ProcessBlockStep
       \/ CheckpointMessage]_allVars => [IntakeNextDiskWorks]_allVars
  BY DEF IntakeNextDiskWorks
<1> QED BY <1>1, PTL DEF IntakeLiveSpec

\* As long as no commit fails, a block is held between messages only while its
\* parent is missing, if ConnectBlock refuses no block; the ways to get stuck are a
\* parent that was indexed and then refused by ConnectBlock, and a node whose memory is
\* ahead of its disk.
THEOREM HeldOnlyForMissing ==
    IntakeLiveSpec => /\ []HeldForUnconnected
                      /\ (Doubtful = {} => []HeldOnlyForMissingParent)
<1>1. IntakeInv /\ TurnInv => HeldForUnconnected
  BY DEF IntakeInv, LoopInv, TurnInv, HasTurn, InQueue, BeingAccepted, Accepting, Behind, InStep,
         HeldForUnconnected
<1>2. IntakeInv /\ TurnInv /\ ~Behind /\ Doubtful = {} => HeldOnlyForMissingParent
  BY DEF IntakeInv, LoopInv, TurnInv, HasTurn, InQueue, BeingAccepted, Accepting, ChainConnects,
         HeldOnlyForMissingParent
<1>3. IntakeInit => ~Behind
  BY DEF IntakeInit, Init, Behind
<1>4. Doubtful = {} => [](Doubtful = {})
  OBVIOUS
<1> QED BY <1>1, <1>2, <1>3, <1>4, LiveStepsOnly, TurnInvHolds, NeverBehindStep, PTL

-----------------------------------------------------------------------------
\* The steps of ProcessBlock itself leave the chains, the database and the checkpoint
\* alone.
LEMMA IntakeMoves ==
    ASSUME IntakeTypeOK, [IntakeNext]_allVars
    PROVE  [Next]_vars \/ UNCHANGED <<best, disk, sync>>
<1>1. ASSUME NEW b, AcceptBlock(b) PROVE UNCHANGED <<best, disk, sync>>
  BY <1>1 DEF AcceptBlock, syncVars
<1>2. ASSUME NEW from, NEW to, MovesOn(from, to) PROVE UNCHANGED <<best, disk, sync>>
  BY <1>2 DEF MovesOn, chainVars, syncVars
<1> QED BY <1>1, <1>2, IntakeStepShape

\* In STRICT mode no order of blocks, orphans and checkpoints takes either main chain
\* off a checkpoint both are on.
THEOREM IntakeKeepsMainChain == IntakeSpec => SyncInMainChain
<1>1. IntakeTypeOK /\ IInv /\ [IntakeNext]_allVars =>
        [Mode = "STRICT" /\ CheckpointHeld /\ (sync' = sync \/ InStep) => CheckpointHeld']_vars
  BY IntakeMoves, StepKeepsMainChain DEF CheckpointHeld
<1> QED BY <1>1, IntakeInvHolds, PTL DEF IntakeSpec, SyncInMainChain

\* The assertion in CheckSync holds for the orphans ProcessBlock accepts too.
THEOREM IntakeCheckpointKnown == IntakeSpec => SyncAccepted
<1>1. IntakeTypeOK /\ IInv /\ IInv' /\ [IntakeNext]_allVars =>
        [(sync' = sync \/ InStep) /\ sync \in disk.index => CheckpointStored']_vars
  <2> SUFFICES ASSUME IntakeTypeOK, IInv, IInv', [IntakeNext]_allVars
               PROVE  [(sync' = sync \/ InStep) /\ sync \in disk.index => CheckpointStored']_vars
    OBVIOUS
  <2>1. CASE UNCHANGED <<best, disk, sync>>
    BY <2>1 DEF IInv, StoreInv, CheckpointStored
  <2> QED BY <2>1, IntakeMoves, StepKeepsStored
<1> QED BY <1>1, IntakeInvHolds, PTL DEF IntakeSpec, SyncAccepted

\* The checkpoint only moves up its own branch while ProcessBlock works through
\* its queue.
THEOREM IntakeCheckpointAdvances == IntakeSpec => SyncOnlyAdvances
<1>1. IntakeTypeOK /\ IInv /\ [IntakeNext]_allVars
         => [sync' # sync /\ sync' # Genesis => sync \in Anc[sync']]_vars
  BY IntakeMoves, CheckpointStepAdvances
<1> QED BY <1>1, IntakeInvHolds, PTL DEF IntakeSpec, SyncOnlyAdvances

\* PendingInv in the loop over the orphans, no commit failing.
LEMMA IntakePendingStep ==
    IntakeTypeOK /\ PendingInv /\ [IntakeNextDiskWorks]_allVars => PendingInv'
<1> SUFFICES ASSUME IntakeTypeOK, PendingInv, [IntakeNextDiskWorks]_allVars PROVE PendingInv'
  OBVIOUS
<1>0. TypeOK
  BY DEF IntakeTypeOK
<1>1. ASSUME NextDiskWorks \/ UNCHANGED vars PROVE PendingInv'
  BY <1>0, <1>1, PendingStep
<1>2. ASSUME NEW to \in SUBSET {"idle", "queue", "send"}, MovesOn({"returned", "queue"}, to)
      PROVE  PendingInv'
  BY <1>2 DEF MovesOn, PendingInv, Behind, ChainConnects, chainVars, syncVars, callVars
<1>3. CASE \E b \in Blocks : ProcessBlock(b)
  BY <1>1, <1>3, AcceptBlockPending
     DEF ProcessBlock, ProcessBlockRejects, ProcessBlockHolds, ProcessBlockRejectsOrphan,
         ProcessBlockAccepts
<1>4. CASE ProcessBlockStep
  <2>1. CASE AcceptOrphan
    <3>1. PICK o \in WaitingFor(Head(queue)) : pc = "queue" /\ AcceptBlock(o)
      BY <2>1 DEF AcceptOrphan
    <3>2. o \in Blocks
      BY DEF WaitingFor, IntakeTypeOK
    <3> QED BY <3>1, <3>2, AcceptBlockPending
  <2>2. CASE ReturnToProcessBlock \/ ReturnFromOrphan
    BY <1>2, <2>2 DEF ReturnToProcessBlock, ReturnFromOrphan, MovesOn
  <2>3. CASE NextInQueue
    BY <1>2, <2>3 DEF NextInQueue, EndOfProcessBlock, MovesOn
  <2> QED BY <1>1, <1>4, <2>1, <2>2, <2>3 DEF ProcessBlockStep, NextDiskWorks
<1>5. CASE CheckpointMessage \/ IntakeRestart
  BY <1>1, <1>5 DEF CheckpointMessage, IntakeRestart, NextDiskWorks
<1>6. CASE UNCHANGED allVars
  BY <1>1, <1>6 DEF allVars
<1> QED BY <1>3, <1>4, <1>5, <1>6 DEF IntakeNextDiskWorks

\* As long as the disk works, the orphans a block brings with it do not make the
\* node forget a pending checkpoint, unless it is on a chain with a doubtful block or
\* the node is behind.
THEOREM IntakePendingAdopted == IntakeLiveSpec => []NoCheckpointForgotten
<1>1. IntakeInit => PendingInv
  BY TreeFacts DEF IntakeInit, Init, PendingInv
<1> QED BY <1>1, PendingInvSays, IntakePendingStep, LiveStepsOnly, TurnInvHolds, PTL
=============================================================================
