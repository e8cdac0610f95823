-------------------------- MODULE ChainStateProofs --------------------------
(***************************************************************************)
(* Proofs about ChainState: type correctness of every behaviour, and, for  *)
(* the behaviours in which no postponed reconnect fails, that disk and     *)
(* memory describe one valid chain and that ChainState implements          *)
(* BestChain.                                                              *)
(***************************************************************************)
EXTENDS ChainState, LedgerProofs

-----------------------------------------------------------------------------
(* Type correctness *)

LEMMA ConnectType ==
    ASSUME TypeOK, NEW v \in Database, NEW b \in Blocks \ {Genesis}, SpendsValid(v, b)
    PROVE  ConnectBlockUpdate(v, b) \in Database
<1>1. Prev[b] \in Blocks
  BY TreeFacts
<1>2. InputsOf(b) \subseteq OutPoints
  <2> SUFFICES ASSUME NEW o \in InputsOf(b) PROVE o \in OutPoints
    OBVIOUS
  <2>1. PICK i \in DOMAIN Vtx[b] : o \in Inputs[Vtx[b][i]]
    BY DEF InputsOf, TxsOf
  <2> QED BY <2>1 DEF SpendsValid, InputsAvailable
<1>3. [v.next EXCEPT ![b] = pnext[b], ![Prev[b]] = b] \in [Blocks -> Blocks \cup {None}]
  BY <1>1 DEF TypeOK, Database
<1>4. [t \in Txs |-> IF t \in TxsOf(b) THEN b ELSE v.pos[t]] \in [Txs -> Blocks \cup {None}]
  BY DEF Database
<1>5. {o \in v.spent : o[1] \notin TxsOf(b)} \cup InputsOf(b) \in SUBSET OutPoints
  BY <1>2 DEF Database
<1>6. v.index \cup {b, Prev[b]} \in SUBSET Blocks
  BY <1>1 DEF Database
<1> QED BY <1>3, <1>4, <1>5, <1>6 DEF ConnectBlockUpdate, Database

LEMMA DisconnectType ==
    ASSUME NEW v \in Database, NEW b \in Blocks \ {Genesis}
    PROVE  DisconnectBlockUpdate(v, b) \in Database
BY TreeFacts DEF DisconnectBlockUpdate, Database

LEMMA TypeInit == Init => TypeOK
BY TreeFacts DEF Init, TypeOK, GenesisDatabase, Database, Phases

LEMMA TypeStep == TypeOK /\ [Next]_vars => TypeOK'
<1> SUFFICES ASSUME TypeOK, [Next]_vars PROVE TypeOK'
  OBVIOUS
<1>1. ASSUME NEW b \in Blocks, AddToBlockIndex(b) PROVE TypeOK'
  BY <1>1 DEF AddToBlockIndex, TypeOK, Database, Phases
<1>0. ASSUME NEW b \in Blocks, AddToBlockIndexFails(b) PROVE TypeOK'
  BY <1>0 DEF AddToBlockIndexFails, TypeOK, ctl
<1>2. CASE ExtendBestChain
  <2>1. target # Genesis => Prev[target] \in Blocks
    BY TreeFacts DEF TypeOK
  <2> QED BY <1>2 DEF ExtendBestChain, TypeOK, Phases, mem
<1>3. CASE BeginReorganize
  BY <1>3, AncBasic DEF BeginReorganize, TypeOK, Phases, mem
<1>4. ASSUME GiveUp PROVE TypeOK'
  BY <1>4, TreeFacts DEF GiveUp, InvalidChainFound, TypeOK, Phases
<1>5. CASE DisconnectBlock
  <2>1. at # Genesis
    BY <1>5, GenesisBelowAll DEF DisconnectBlock, TypeOK
  <2>2. Prev[at] \in Blocks /\ DisconnectBlockUpdate(view, at) \in Database
    BY <2>1, DisconnectType, TreeFacts DEF TypeOK
  <2> QED BY <1>5, <2>2 DEF DisconnectBlock, TypeOK, mem
<1>6. CASE ConnectBlock
  <2>1. PICK b \in Blocks : /\ OnTheWay(b) /\ ConnectBlockSucceeds(view, b)
                            /\ view' = ConnectBlockUpdate(view, b) /\ at' = b
    BY <1>6 DEF ConnectBlock
  <2>2. ConnectBlockUpdate(view, b) \in Database
    BY <2>1, ConnectType DEF OnTheWay, ConnectBlockSucceeds, TypeOK
  <2> QED BY <1>6, <2>1, <2>2 DEF ConnectBlock, TypeOK, mem
<1>7. CASE PostponedBlockFails
  BY <1>7, TreeFacts DEF PostponedBlockFails, InvalidChainFound, TypeOK, Phases
<1>8. ASSUME CommitBest, NextPostponed PROVE disk' \in Database /\ view' \in Database
                                             /\ pc' \in Phases /\ goal' \in Blocks
  <2>1. disk' \in Database
    BY <1>8 DEF CommitBest, TypeOK, Database
  <2> QED BY <1>8, <2>1, AncBasic DEF NextPostponed, TypeOK, Phases
<1>9. CASE CommitReorganize
  <2> DEFINE NextOf(b) == {c \in Anc[goal] \ Anc[best] : Prev[c] = b}
  <2>1. \A b \in Blocks : NextOf(b) # {} => OnlyOf(NextOf(b)) \in Blocks
    BY AncBasic DEF TypeOK, OnlyOf
  <2>2. pnext' \in [Blocks -> Blocks \cup {None}]
    BY <1>9, <2>1 DEF CommitReorganize, TypeOK
  <2> QED BY <1>8, <1>9, <2>2 DEF CommitReorganize, TypeOK
<1>10. CASE CommitInner
  <2>1. pnext' \in [Blocks -> Blocks \cup {None}]
    BY <1>10 DEF CommitInner, TypeOK
  <2> QED BY <1>8, <1>10, <2>1 DEF CommitInner, TypeOK
<1>11. CASE CommitFails
  BY <1>11, TreeFacts DEF CommitFails, InvalidChainFound, TypeOK, Phases
<1>12. CASE PostponedCommitFails
  BY <1>12 DEF PostponedCommitFails, TypeOK, Phases, mem
<1>13. CASE NewBestBlock
  BY <1>13 DEF NewBestBlock, TypeOK, Phases
<1>14. CASE CrashAndRestart
  BY <1>14 DEF CrashAndRestart, TypeOK, Phases, Database
<1>15. CASE UNCHANGED vars
  BY <1>15 DEF vars, mem, ctl, TypeOK
<1> QED BY <1>0, <1>1, <1>2, <1>3, <1>4, <1>5, <1>6, <1>7, <1>9, <1>10, <1>11, <1>12,
           <1>13, <1>14, <1>15
        DEF Next, NextSafe, SetBestChainStep, PostponedFails, DisconnectBlockFails,
            ConnectBlockFails

\* Every variable keeps its type in every behaviour, whatever fails or crashes.
THEOREM TypeCorrect == Spec => []TypeOK
BY TypeInit, TypeStep, PTL DEF Spec

-----------------------------------------------------------------------------
(* The database follows the chain, one block at a time *)

\* ConnectBlock takes the database of a valid chain to that of the longer one.
LEMMA ConnectAgrees ==
    ASSUME NEW b \in Blocks \ {Genesis}, NEW v \in Database, Agrees(v, Prev[b]),
           ChainSpendsValid(Prev[b]), SpendsValid(v, b), pnext[b] = None
    PROVE  Agrees(ConnectBlockUpdate(v, b), b) /\ ChainSpendsValid(b)
<1> DEFINE w == ConnectBlockUpdate(v, b)
<1>1. /\ Prev[b] \in Blocks /\ Anc[b] = {b} \cup Anc[Prev[b]] /\ b \notin Anc[Prev[b]]
      /\ Anc[b] \subseteq Blocks
  BY TreeFacts, AncStep, NotOwnAncestor, AncBasic
<1>2. ChainSpendsValid(b)
  <2>1. LedgerOf(Prev[b]).pos = v.pos /\ LedgerOf(Prev[b]).spent = v.spent
    BY DEF Agrees, LedgerOf
  <2>2. SpendsValid(LedgerOf(Prev[b]), b)
    BY <2>1, SpendsValidReads
  <2> QED BY <1>1, <2>2 DEF ChainSpendsValid
<1>3. w.pos = LocationOn(b)
  <2>1. w.pos = [t \in Txs |-> IF t \in TxsOf(b) THEN b ELSE LocationOn(Prev[b])[t]]
    BY DEF ConnectBlockUpdate, Database, Agrees
  <2>2. ASSUME NEW t \in Txs
        PROVE  LocationOn(b)[t] = IF t \in TxsOf(b) THEN b ELSE LocationOn(Prev[b])[t]
    <3> DEFINE here == {c \in Anc[b] : t \in TxsOf(c)}
               below == {c \in Anc[Prev[b]] : t \in TxsOf(c)}
    <3>1. CASE t \in TxsOf(b)
      <4>1. here = {b}
        BY <1>1, <1>2, <3>1, NoRepeat
      <4> QED BY <3>1, <4>1 DEF LocationOn, OnlyOf
    <3>2. CASE t \notin TxsOf(b)
      <4>1. here = below
        BY <1>1, <3>2
      <4> QED BY <3>2, <4>1 DEF LocationOn
    <3> QED BY <3>1, <3>2
  <2> QED BY <2>1, <2>2 DEF LocationOn
<1>4. w.spent = SpentOn(b)
  <2>1. w.spent = {o \in SpentOn(Prev[b]) : o[1] \notin TxsOf(b)} \cup InputsOf(b)
    BY DEF ConnectBlockUpdate, Database, Agrees
  <2>2. SpentOn(b) = SpentOn(Prev[b]) \cup InputsOf(b)
    BY <1>1 DEF SpentOn
  <2> QED BY <1>2, <2>1, <2>2, NoDoubleSpend
<1>5. w.next = NextOn(b)
  <2>1. w.next = [NextOn(Prev[b]) EXCEPT ![b] = None, ![Prev[b]] = b]
    BY DEF ConnectBlockUpdate, Database, Agrees
  <2>2. NextOn(Prev[b]) \in [Blocks -> Blocks \cup {None}]
    BY DEF Agrees, Database
  <2>3. ASSUME NEW a \in Blocks PROVE NextOn(b)[a] = w.next[a]
    <3>1. CASE a = Prev[b]
      BY <1>1, <2>1, <2>2, <3>1, NextOnChild
    <3>2. CASE a = b
      <4>1. \A c \in Anc[b] \ {Genesis} : Prev[c] # b
        BY <1>1, AncBasic, TreeFacts
      <4> QED BY <1>1, <2>1, <2>2, <3>2, <4>1, NextOnNone
    <3>3. CASE a # Prev[b] /\ a # b
      <4>1. {c \in Anc[b] \ {Genesis} : Prev[c] = a}
              = {c \in Anc[Prev[b]] \ {Genesis} : Prev[c] = a}
        BY <1>1, <3>3
      <4> QED BY <2>1, <2>2, <3>3, <4>1 DEF NextOn
    <3> QED BY <3>1, <3>2, <3>3
  <2> QED BY <2>1, <2>2, <2>3 DEF NextOn
<1>6. Anc[b] \subseteq w.index
  BY <1>1 DEF ConnectBlockUpdate, Database, Agrees
<1> QED BY <1>2, <1>3, <1>4, <1>5, <1>6 DEF Agrees

\* DisconnectBlock succeeds on the tip of a valid chain and takes the database
\* to that of the chain without it.
LEMMA DisconnectAgrees ==
    ASSUME NEW b \in Blocks \ {Genesis}, NEW v \in Database, Agrees(v, b), ChainSpendsValid(b)
    PROVE  /\ DisconnectBlockSucceeds(v, b)
           /\ Agrees(DisconnectBlockUpdate(v, b), Prev[b])
           /\ ChainSpendsValid(Prev[b])
<1> DEFINE w == DisconnectBlockUpdate(v, b)
<1>1. /\ Prev[b] \in Blocks /\ Anc[b] = {b} \cup Anc[Prev[b]] /\ b \notin Anc[Prev[b]]
      /\ Anc[b] \subseteq Blocks /\ b \in Anc[b] /\ Prev[b] \in Anc[b]
  BY TreeFacts, AncStep, NotOwnAncestor, AncBasic
<1>2. ChainSpendsValid(Prev[b])
  BY <1>1, ValidBelow
<1>3. DisconnectBlockSucceeds(v, b)
  <2> SUFFICES ASSUME NEW i \in DOMAIN Vtx[b], NEW o \in Inputs[Vtx[b][i]]
               PROVE  v.pos[o[1]] # None /\ o[1] \notin TxsAfter(b, i)
    BY DEF DisconnectBlockSucceeds
  <2>1. CASE o[1] \in TxsBefore(b, i)
    <3>1. PICK j \in 1..(i - 1) : o[1] = Vtx[b][j]
      BY <2>1 DEF TxsBefore
    <3>2. j \in DOMAIN Vtx[b] /\ j < i
      BY <3>1, TxFacts
    <3>3. o[1] \in TxsOf(b) /\ o[1] \in Txs
      BY <3>1, <3>2, TxFacts DEF TxsOf
    <3>4. o[1] \notin TxsAfter(b, i)
      BY <3>1, <3>2, TxFacts DEF TxsAfter
    <3> QED BY <1>1, <3>3, <3>4, LocatedIff DEF Agrees
  <2>2. CASE \E d \in Anc[Prev[b]] : o[1] \in TxsOf(d)
    <3>1. o[1] \notin TxsOf(b) /\ o[1] \in Txs
      BY <1>1, <2>2, InputSource, NoRepeat
    <3>2. o[1] \notin TxsAfter(b, i)
      BY <3>1, TxFacts DEF TxsAfter, TxsOf
    <3> QED BY <1>1, <2>2, <3>1, <3>2, LocatedIff DEF Agrees
  <2> QED BY <1>1, <2>1, <2>2, InputSource
<1>4. w.pos = LocationOn(Prev[b])
  <2>1. w.pos = [t \in Txs |-> IF t \in TxsOf(b) THEN None ELSE LocationOn(b)[t]]
    BY DEF DisconnectBlockUpdate, Database, Agrees
  <2>2. ASSUME NEW t \in Txs
        PROVE  LocationOn(Prev[b])[t] = IF t \in TxsOf(b) THEN None ELSE LocationOn(b)[t]
    <3> DEFINE here == {c \in Anc[b] : t \in TxsOf(c)}
               below == {c \in Anc[Prev[b]] : t \in TxsOf(c)}
    <3>1. CASE t \in TxsOf(b)
      BY <1>1, <3>1, NoRepeat, LocatedIff
    <3>2. CASE t \notin TxsOf(b)
      <4>1. here = below
        BY <1>1, <3>2
      <4> QED BY <3>2, <4>1 DEF LocationOn
    <3> QED BY <3>1, <3>2
  <2> QED BY <2>1, <2>2 DEF LocationOn
<1>5. w.spent = SpentOn(Prev[b])
  <2>1. w.spent = {o \in SpentOn(b) \ InputsOf(b) : o[1] \notin TxsOf(b)}
    BY DEF DisconnectBlockUpdate, Database, Agrees
  <2>2. SpentOn(b) = SpentOn(Prev[b]) \cup InputsOf(b)
    BY <1>1 DEF SpentOn
  <2> QED BY <2>1, <2>2, NoDoubleSpend
<1>6. w.next = NextOn(Prev[b])
  <2>1. w.next = [NextOn(b) EXCEPT ![Prev[b]] = None]
    BY DEF DisconnectBlockUpdate, Database, Agrees
  <2>2. NextOn(b) \in [Blocks -> Blocks \cup {None}]
    BY DEF Agrees, Database
  <2>3. ASSUME NEW a \in Blocks PROVE NextOn(Prev[b])[a] = w.next[a]
    <3>1. CASE a = Prev[b]
      <4>1. \A c \in Anc[Prev[b]] \ {Genesis} : Prev[c] # a
        BY <1>1, <3>1, OneChild
      <4> QED BY <1>1, <2>1, <2>2, <3>1, <4>1, NextOnNone
    <3>2. CASE a # Prev[b]
      <4>1. {c \in Anc[b] \ {Genesis} : Prev[c] = a}
              = {c \in Anc[Prev[b]] \ {Genesis} : Prev[c] = a}
        BY <1>1, <3>2
      <4> QED BY <2>1, <2>2, <3>2, <4>1 DEF NextOn
    <3> QED BY <3>1, <3>2
  <2> QED BY <2>1, <2>2, <2>3 DEF NextOn
<1>7. Anc[Prev[b]] \subseteq w.index
  BY <1>1 DEF DisconnectBlockUpdate, Database, Agrees
<1> QED BY <1>2, <1>3, <1>4, <1>5, <1>6, <1>7 DEF Agrees

-----------------------------------------------------------------------------
(* The inductive invariant of the behaviours without a failing postponed block *)

\* The block index in memory has every entry on disk and, unless the node came up
\* on one with a hole, no gaps; the forward links are those on disk.
IndexInv ==
    /\ disk.index \subseteq index
    /\ pnext = disk.next
    /\ Genesis \in disk.index
    /\ pc # "halted" => ClosedUnderPrev(index)

\* The disk holds the ledger of a valid chain.
DiskInv == Agrees(disk, disk.best) /\ ChainSpendsValid(disk.best)

\* So does the open transaction, for the block it has got to; it adds the entries of
\* the blocks it connects, which a failed AddToBlockIndex may have left out.
ViewInv ==
    pc \in {"reorganize", "inner"} =>
        /\ Agrees(view, at) /\ ChainSpendsValid(at)
        /\ view.index = disk.index \cup Anc[at]

\* Where SetBestChain is going and how far it has got.
ControlInv ==
    /\ pc \notin {"idle", "halted"} => target \in index \ {Genesis}
    /\ pc = "set" => ChainTrust[target] > ChainTrust[best]
    /\ pc \in {"idle", "set", "reorganize"} => best = disk.best
    /\ pc \in {"reorganize", "inner"} =>
          goal \in Anc[target] \ {Genesis} /\ ChainTrust[goal] > ChainTrust[disk.best]
    /\ pc = "reorganize" =>
          at \in Anc[best] \cup Anc[goal] /\ Anc[best] \cap Anc[goal] \subseteq Anc[at]
    /\ pc = "inner" => disk.best = Prev[goal] /\ at \in {Prev[goal], goal}
    /\ pc = "done" => disk.best = target

IInv == TypeOK /\ IndexInv /\ DiskInv /\ ViewInv /\ ControlInv

LEMMA InvInit == Init => IInv
<1> SUFFICES ASSUME Init PROVE IInv
  OBVIOUS
<1>1. TypeOK
  BY TypeInit
<1>2. Anc[Genesis] = {Genesis}
  BY AncGenesis
<1>3. LocationOn(Genesis) = [t \in Txs |-> None] /\ NextOn(Genesis) = [b \in Blocks |-> None]
  <2>1. \A t \in Txs : {c \in Anc[Genesis] : t \in TxsOf(c)} = {}
    BY <1>2, TxFacts
  <2>2. \A a \in Blocks : {c \in Anc[Genesis] \ {Genesis} : Prev[c] = a} = {}
    BY <1>2
  <2> QED BY <2>1, <2>2 DEF LocationOn, NextOn, OnlyOf
<1>4. SpentOn(Genesis) = {}
  BY <1>2, TxFacts DEF SpentOn, InputsOf
<1>5. DiskInv
  BY <1>2, <1>3, <1>4 DEF DiskInv, Agrees, ChainSpendsValid, Init, GenesisDatabase
<1> QED BY <1>1, <1>5
        DEF IInv, IndexInv, ViewInv, ControlInv, Init, GenesisDatabase, ClosedUnderPrev

\* An index without gaps holds the whole chain below each of its blocks.
LEMMA IndexHoldsChain ==
    ASSUME TypeOK, IndexInv, pc # "halted", NEW b \in index
    PROVE  Anc[b] \subseteq index
BY AncLeast DEF TypeOK, IndexInv

\* The links Reorganize leaves in memory are those of the new chain.
LEMMA ReorganizeLinks ==
    ASSUME IInv, CommitReorganize
    PROVE  pnext' = NextOn(goal)
<1> USE DEF IInv
<1> DEFINE NextOf(b) == {c \in Anc[goal] \ Anc[best] : Prev[c] = b}
           New(b) == IF NextOf(b) # {} THEN OnlyOf(NextOf(b))
                     ELSE IF \E d \in Anc[best] \ Anc[goal] : Prev[d] = b THEN None
                     ELSE pnext[b]
<1>1. pnext' = [b \in Blocks |-> New(b)]
  BY DEF CommitReorganize
<1>2. /\ best \in Blocks /\ goal \in Blocks /\ best = disk.best
      /\ pnext = NextOn(best)
      /\ Genesis \in Anc[best] /\ Genesis \in Anc[goal]
  BY GenesisBelowAll DEF TypeOK, CommitReorganize, ControlInv, IndexInv, DiskInv, Agrees
<1>3. ASSUME NEW b \in Blocks PROVE New(b) = NextOn(goal)[b]
  <2>1. ASSUME NEW c \in Anc[goal] \ {Genesis}, Prev[c] = b, c \notin Anc[best]
        PROVE  New(b) = NextOn(goal)[b]
    <3>1. NextOf(b) = {c}
      BY <1>2, <2>1, OneChild
    <3>2. New(b) = c
      BY <3>1 DEF OnlyOf
    <3> QED BY <1>2, <2>1, <3>2, NextOnChild
  <2>2. ASSUME NEW c \in Anc[goal] \ {Genesis}, Prev[c] = b, c \in Anc[best]
        PROVE  New(b) = NextOn(goal)[b]
    <3>1. NextOf(b) = {}
      BY <1>2, <2>2, OneChild
    <3>2. ~ \E d \in Anc[best] \ Anc[goal] : Prev[d] = b
      BY <1>2, <2>2, OneChild
    <3>3. pnext[b] = c
      BY <1>2, <2>2, NextOnChild
    <3> QED BY <1>2, <2>2, <3>1, <3>2, <3>3, NextOnChild
  <2>3. ASSUME \A c \in Anc[goal] \ {Genesis} : Prev[c] # b
        PROVE  New(b) = NextOn(goal)[b]
    <3>1. NextOf(b) = {} /\ NextOn(goal)[b] = None
      BY <1>2, <2>3, NextOnNone
    <3>2. CASE \E d \in Anc[best] \ Anc[goal] : Prev[d] = b
      BY <3>1, <3>2
    <3>3. CASE ~ \E d \in Anc[best] \ Anc[goal] : Prev[d] = b
      <4>1. \A d \in Anc[best] \ {Genesis} : Prev[d] # b
        BY <2>3, <3>3
      <4> QED BY <1>2, <3>1, <3>3, <4>1, NextOnNone
    <3> QED BY <3>2, <3>3
  <2> QED BY <2>1, <2>2, <2>3
<1>4. pnext' = [b \in Blocks |-> NextOn(goal)[b]]
  BY <1>1, <1>3
<1> QED BY <1>4 DEF NextOn

\* What follows a commit: the disk, and the control state for the next block of
\* vpindexSecondary or for the end.
LEMMA AfterCommit ==
    ASSUME IInv, TypeOK', pc \in {"reorganize", "inner"}, at = goal, CommitBest,
           NextPostponed, pnext' = NextOn(goal), UNCHANGED <<index, best, invalidTrust, target, at>>
    PROVE  IInv'
<1> USE DEF IInv
<1>1. /\ goal \in Blocks \ {Genesis} /\ goal \in Anc[target] /\ target \in Blocks
      /\ target \in index /\ view.index = disk.index \cup Anc[goal]
      /\ Agrees(view, goal) /\ ChainSpendsValid(goal)
  BY DEF ControlInv, ViewInv, TypeOK
<1>2. /\ disk'.index = view.index /\ disk'.next = view.next /\ disk'.pos = view.pos
      /\ disk'.spent = view.spent /\ disk'.best = goal
  BY DEF CommitBest, TypeOK, Database
<1>3. IndexInv'
  <2>1. Anc[goal] \subseteq index /\ ClosedUnderPrev(index)
    <3>1. Anc[target] \subseteq index
      BY <1>1, IndexHoldsChain
    <3> QED BY <1>1, <3>1, AncTransitive DEF IndexInv
  <2> QED BY <1>1, <1>2, <2>1 DEF IndexInv, Agrees, ClosedUnderPrev
<1>4. DiskInv'
  BY <1>1, <1>2 DEF DiskInv, Agrees
<1>5. CASE goal = target
  BY <1>1, <1>2, <1>3, <1>4, <1>5 DEF NextPostponed, ViewInv, ControlInv
<1>6. CASE goal # target
  <2>1. PICK b \in Anc[target] \ {Genesis} : Prev[b] = goal /\ goal' = b
    BY <1>6 DEF NextPostponed
  <2>2. pc' = "inner" /\ view' = disk'
    BY <1>6 DEF NextPostponed
  <2>3. ViewInv'
    BY <1>1, <1>4, <1>2, <2>2 DEF ViewInv, DiskInv, Agrees
  <2>4. b \in Blocks \ {Genesis} /\ ChainTrust[b] > ChainTrust[goal]
    BY <1>1, <2>1, AncBasic, TreeFacts
  <2>5. ControlInv'
    BY <1>1, <1>2, <2>1, <2>2, <2>4 DEF ControlInv
  <2> QED BY <1>3, <1>4, <2>3, <2>5
<1> QED BY <1>5, <1>6

\* The block Reorganize stops at has more trust than the chain it replaces.
LEMMA ReorganizeGains ==
    ASSUME IInv, BeginReorganize
    PROVE  goal' \in Anc[target] \ {Genesis} /\ ChainTrust[goal'] > ChainTrust[best]
<1>1. PICK b \in Anc[target] \ {Genesis} :
          /\ \A c \in Anc[target] \ Anc[b] : ChainTrust[Prev[c]] > ChainTrust[best]
          /\ goal' = b
  BY DEF BeginReorganize
<1>2. CASE b = target
  BY <1>1, <1>2 DEF IInv, ControlInv, BeginReorganize
<1>3. CASE b # target
  <2>1. target \in Blocks
    BY DEF IInv, TypeOK
  <2> QED BY <1>1, <1>3, <2>1, ChildOnChain
<1> QED BY <1>1, <1>2, <1>3

\* DisconnectBlock works at a block of the chain that is being left.
LEMMA LeavingChain ==
    ASSUME IInv, pc = "reorganize", at \notin Anc[goal]
    PROVE  at \in Anc[best] \ {Genesis} /\ at \in Blocks
BY GenesisBelowAll DEF IInv, ControlInv, TypeOK

LEMMA InvStep == IInv /\ [NextSafe]_vars => IInv'
<1> SUFFICES ASSUME IInv, [NextSafe]_vars PROVE IInv'
  OBVIOUS
<1>0. TypeOK /\ TypeOK'
  BY TypeStep DEF IInv, Next
<1>1. ASSUME NEW b \in Blocks, AddToBlockIndex(b) PROVE IInv'
  <2>1. /\ pc = "idle" /\ b # Genesis /\ Prev[b] \in index
        /\ index' = index \cup {b} /\ disk' = [disk EXCEPT !.index = @ \cup {b}]
        /\ UNCHANGED <<pnext, best>>
    BY <1>1 DEF AddToBlockIndex, AcceptBlockSucceeds
  <2>2. /\ disk'.index = disk.index \cup {b} /\ disk'.next = disk.next
        /\ disk'.pos = disk.pos /\ disk'.spent = disk.spent /\ disk'.best = disk.best
    BY <1>0, <2>1 DEF TypeOK, Database
  <2>3. IndexInv'
    BY <2>1, <2>2 DEF IInv, IndexInv, ClosedUnderPrev
  <2>4. DiskInv'
    BY <2>2 DEF IInv, DiskInv, Agrees
  <2>5. \/ pc' = "idle"
        \/ pc' = "set" /\ target' = b /\ ChainTrust[b] > ChainTrust[best]
    BY <1>1, <2>1 DEF AddToBlockIndex
  <2>6. ViewInv' /\ ControlInv'
    BY <2>1, <2>2, <2>5 DEF IInv, ViewInv, ControlInv
  <2> QED BY <1>0, <2>3, <2>4, <2>6 DEF IInv
<1>15. ASSUME NEW b \in Blocks, AddToBlockIndexFails(b) PROVE IInv'
  <2>1. /\ pc = "idle" /\ Prev[b] \in index /\ index' = index \cup {b} /\ pc' = pc
        /\ UNCHANGED <<pnext, best, disk>>
    BY <1>15 DEF AddToBlockIndexFails, AcceptBlockSucceeds, ctl
  <2>2. IndexInv'
    BY <2>1 DEF IInv, IndexInv, ClosedUnderPrev
  <2>3. DiskInv' /\ ViewInv' /\ ControlInv'
    BY <2>1 DEF IInv, DiskInv, ViewInv, ControlInv, Agrees
  <2> QED BY <1>0, <2>2, <2>3 DEF IInv
<1>2. CASE ExtendBestChain
  <2>1. /\ pc = "set" /\ pc' = "inner" /\ Prev[target] = best /\ goal' = target
        /\ at' = Prev[target] /\ view' = disk
        /\ UNCHANGED <<index, pnext, best, disk, target>>
    BY <1>2 DEF ExtendBestChain, mem
  <2>2. /\ target \in index /\ target \in Blocks /\ best = disk.best
        /\ ChainTrust[target] > ChainTrust[best]
    BY <1>0, <2>1 DEF IInv, ControlInv, TypeOK
  <2>3. target # Genesis
    BY <2>1 DEF IInv, ControlInv
  <2>4. target \in Anc[target]
    BY <2>2, AncBasic
  <2>5. IndexInv' /\ DiskInv' /\ ViewInv'
    BY <2>1, <2>2 DEF IInv, IndexInv, DiskInv, ViewInv, Agrees, ClosedUnderPrev
  <2>6. ControlInv'
    BY <2>1, <2>2, <2>3, <2>4 DEF ControlInv
  <2> QED BY <1>0, <2>5, <2>6 DEF IInv
<1>3. CASE BeginReorganize
  <2>1. /\ pc = "set" /\ pc' = "reorganize" /\ at' = best /\ view' = disk
        /\ UNCHANGED <<index, pnext, best, disk, target>>
    BY <1>3 DEF BeginReorganize, mem
  <2>2. /\ target \in index \ {Genesis} /\ best = disk.best /\ best \in Blocks
        /\ goal' \in Anc[target] \ {Genesis} /\ ChainTrust[goal'] > ChainTrust[best]
    BY <1>0, <1>3, <2>1, ReorganizeGains DEF IInv, ControlInv, TypeOK
  <2>3. IndexInv' /\ DiskInv' /\ ViewInv'
    BY <2>1, <2>2 DEF IInv, IndexInv, DiskInv, ViewInv, Agrees, ClosedUnderPrev
  <2>4. best \in Anc[best]
    BY <2>2, AncBasic
  <2>5. ControlInv'
    BY <2>1, <2>2, <2>4 DEF ControlInv
  <2> QED BY <1>0, <2>3, <2>5 DEF IInv
<1>4. ASSUME pc' = "idle", pc \in {"reorganize", "set"} \/ (pc = "inner" /\ ~Postponed),
             UNCHANGED <<index, pnext, best, disk>>
      PROVE  IInv'
  BY <1>0, <1>4
     DEF IInv, IndexInv, DiskInv, ViewInv, ControlInv, Postponed, Agrees, ClosedUnderPrev
<1>5. CASE DisconnectBlock
  <2>1. /\ pc = "reorganize" /\ pc' = pc /\ at \notin Anc[goal] /\ at' = Prev[at]
        /\ view' = DisconnectBlockUpdate(view, at)
        /\ UNCHANGED <<index, pnext, best, disk, target, goal>>
    BY <1>5 DEF DisconnectBlock, mem
  <2>2. /\ at \in Anc[best] \ {Genesis} /\ at \in Blocks /\ best \in Blocks
        /\ Agrees(view, at) /\ ChainSpendsValid(at) /\ view \in Database
    BY <1>0, <2>1, LeavingChain DEF IInv, ViewInv, TypeOK
  <2>3. Agrees(view', at') /\ ChainSpendsValid(at') /\ view'.index = view.index \cup {at'}
    BY <2>1, <2>2, DisconnectAgrees DEF DisconnectBlockUpdate, Database
  <2>4. ViewInv'
    <3>1. Anc[at] = {at} \cup Anc[at'] /\ at' \in Anc[at']
      BY <2>1, <2>2, AncStep, AncBasic, TreeFacts
    <3>2. at \in disk.index
      BY <2>1, <2>2 DEF IInv, DiskInv, ControlInv, Agrees
    <3>3. view'.index = disk.index \cup Anc[at']
      BY <2>1, <2>3, <3>1, <3>2 DEF IInv, ViewInv
    <3> QED BY <2>1, <2>3, <3>3 DEF ViewInv, Agrees
  <2>5. at' \in Anc[best] /\ Anc[best] \cap Anc[goal] \subseteq Anc[at']
    <3>1. at' \in Anc[best] /\ Anc[at] = {at} \cup Anc[at']
      BY <2>1, <2>2, AncBasic, AncStep
    <3> QED BY <2>1, <3>1 DEF IInv, ControlInv
  <2>6. IndexInv' /\ DiskInv' /\ ControlInv'
    BY <2>1, <2>5 DEF IInv, IndexInv, DiskInv, ControlInv, Agrees, ClosedUnderPrev
  <2> QED BY <1>0, <2>4, <2>6 DEF IInv
<1>6. CASE ConnectBlock
  <2>1. PICK b \in Blocks : /\ OnTheWay(b) /\ ConnectBlockSucceeds(view, b)
                            /\ view' = ConnectBlockUpdate(view, b) /\ at' = b
    BY <1>6 DEF ConnectBlock
  <2>2. /\ pc \in {"reorganize", "inner"}
        /\ UNCHANGED <<index, pnext, best, disk, pc, target, goal>>
    BY <1>6 DEF ConnectBlock, mem
  <2>3. /\ b \in Anc[goal] \ {Genesis} /\ Prev[b] = at /\ goal \in Blocks
        /\ Agrees(view, at) /\ ChainSpendsValid(at) /\ view \in Database
        /\ SpendsValid(view, b) /\ disk.best \in Blocks
    BY <1>0, <2>1, <2>2 DEF IInv, ViewInv, OnTheWay, ConnectBlockSucceeds, TypeOK, Database
  <2>4. b \notin Anc[disk.best]
    <3>1. CASE pc = "reorganize"
      BY <2>1, <2>3, <3>1, NotOwnAncestor DEF IInv, ControlInv
    <3>2. CASE pc = "inner"
      <4>1. disk.best = Prev[goal] /\ at \in {Prev[goal], goal} /\ goal # Genesis
        BY <3>2 DEF IInv, ControlInv
      <4>2. at # goal
        BY <2>1, <2>3, AncBelow, TreeFacts
      <4>3. at = disk.best
        BY <4>1, <4>2
      <4> QED BY <2>1, <2>3, <4>3, NotOwnAncestor
    <3> QED BY <2>2, <3>1, <3>2
  <2>5. pnext[b] = None
    <3>1. pnext = NextOn(disk.best)
      BY DEF IInv, IndexInv, DiskInv, Agrees
    <3>2. \A c \in Anc[disk.best] \ {Genesis} : Prev[c] # b
      BY <2>3, <2>4, AncBasic
    <3> QED BY <2>1, <2>3, <3>1, <3>2, NextOnNone
  <2>6. Agrees(view', b) /\ ChainSpendsValid(b) /\ view'.index = view.index \cup {b, at}
    <3>1. view'.index = view.index \cup {b, at}
      BY <2>1, <2>3 DEF ConnectBlockUpdate, Database
    <3> QED BY <2>1, <2>3, <2>5, <3>1, ConnectAgrees
  <2>7. ViewInv'
    <3>1. Anc[b] = {b} \cup Anc[at] /\ at \in Anc[at]
      BY <2>1, <2>3, AncStep, AncBasic, TreeFacts
    <3>2. view'.index = disk.index \cup Anc[b]
      BY <2>2, <2>6, <3>1 DEF IInv, ViewInv
    <3> QED BY <2>1, <2>2, <2>6, <3>2 DEF ViewInv, Agrees
  <2>8. ControlInv'
    <3>1. Anc[b] = {b} \cup Anc[at]
      BY <2>1, <2>3, AncStep
    <3>2. CASE pc = "reorganize"
      BY <2>1, <2>2, <2>3, <3>1, <3>2 DEF IInv, ControlInv
    <3>3. CASE pc = "inner"
      <4>1. goal \in Anc[goal] \ {Genesis} /\ disk.best = Prev[goal]
        BY <2>3, <3>3, AncBasic DEF IInv, ControlInv
      <4>2. at = Prev[goal]
        BY <2>1, <2>3, <3>3, AncBelow, TreeFacts DEF IInv, ControlInv
      <4>3. b = goal
        BY <2>3, <4>1, <4>2, OneChild
      <4> QED BY <2>1, <2>2, <3>3, <4>1, <4>3 DEF IInv, ControlInv
    <3> QED BY <2>2, <3>2, <3>3
  <2>9. IndexInv' /\ DiskInv'
    BY <2>2 DEF IInv, IndexInv, DiskInv, Agrees, ClosedUnderPrev
  <2> QED BY <1>0, <2>7, <2>8, <2>9 DEF IInv
<1>7. CASE CommitReorganize
  BY <1>0, <1>7, ReorganizeLinks, AfterCommit DEF CommitReorganize
<1>8. CASE CommitInner
  <2>1. /\ pc = "inner" /\ at = goal /\ CommitBest /\ NextPostponed
        /\ pnext' = [pnext EXCEPT ![Prev[goal]] = goal]
        /\ UNCHANGED <<index, best, invalidTrust, target, at>>
    BY <1>8 DEF CommitInner
  <2>2. /\ goal \in Blocks \ {Genesis} /\ Prev[goal] \in Blocks
        /\ pnext = NextOn(Prev[goal])
    BY <1>0, <2>1, TreeFacts DEF IInv, ControlInv, IndexInv, DiskInv, Agrees, TypeOK
  <2>3. ASSUME NEW a \in Blocks PROVE NextOn(goal)[a] = pnext'[a]
    <3>1. Anc[goal] = {goal} \cup Anc[Prev[goal]] /\ goal \in Anc[goal]
      BY <2>2, AncStep
    <3>2. CASE a = Prev[goal]
      BY <1>0, <2>1, <2>2, <3>1, <3>2, NextOnChild DEF TypeOK
    <3>3. CASE a # Prev[goal]
      <4>1. {c \in Anc[goal] \ {Genesis} : Prev[c] = a}
              = {c \in Anc[Prev[goal]] \ {Genesis} : Prev[c] = a}
        BY <3>1, <3>3
      <4> QED BY <1>0, <2>1, <2>2, <3>3, <4>1 DEF NextOn, TypeOK
    <3> QED BY <3>2, <3>3
  <2>4. pnext' = NextOn(goal)
    BY <1>0, <2>3 DEF NextOn, TypeOK
  <2> QED BY <1>0, <2>1, <2>4, AfterCommit
<1>9. CASE CommitFails
  BY <1>4, <1>9 DEF CommitFails
<1>10. CASE NewBestBlock
  BY <1>0, <1>10
     DEF NewBestBlock, IInv, IndexInv, DiskInv, ViewInv, ControlInv, Agrees, ClosedUnderPrev
<1>11. CASE CrashAndRestart
  <2>1. /\ index' = disk.index /\ pnext' = disk.next /\ best' = disk.best /\ disk' = disk
        /\ pc' = IF ClosedUnderPrev(disk.index) THEN "idle" ELSE "halted"
    BY <1>11 DEF CrashAndRestart
  <2>2. IndexInv'
    BY <2>1 DEF IInv, IndexInv, ClosedUnderPrev
  <2>3. DiskInv' /\ ViewInv' /\ ControlInv'
    BY <2>1 DEF IInv, DiskInv, ViewInv, ControlInv, Agrees
  <2> QED BY <1>0, <2>2, <2>3 DEF IInv
<1>12. CASE UNCHANGED vars
  BY <1>0, <1>12
     DEF vars, mem, ctl, IInv, IndexInv, DiskInv, ViewInv, ControlInv, Agrees, ClosedUnderPrev
<1>13. CASE DisconnectBlockFails
  BY <1>4, <1>13 DEF DisconnectBlockFails, GiveUp
<1>14. CASE ConnectBlockFails
  BY <1>4, <1>14 DEF ConnectBlockFails, GiveUp
<1> QED BY <1>1, <1>2, <1>3, <1>5, <1>6, <1>7, <1>8, <1>9, <1>10, <1>11, <1>12, <1>13, <1>14,
           <1>15
        DEF NextSafe, SetBestChainStep

LEMMA InvHolds == SpecSafe => []IInv
BY InvInit, InvStep, PTL DEF SpecSafe

\* After every commit, and whatever crashes, the transaction index and forward
\* links on disk are those of the chain hashBestChain names.
THEOREM DiskFollowsChain == SpecSafe => []DiskAgreesWithChain
<1>1. IInv => DiskAgreesWithChain
  BY DEF IInv, DiskInv, DiskAgreesWithChain
<1> QED BY <1>1, InvHolds, PTL

\* Between blocks memory describes what is on disk, in every behaviour in which
\* no reconnect that SetBestChain postponed fails: also where the commit of
\* AddToBlockIndex fails, only blocks off the main chain are missing on disk.
THEOREM MemoryFollowsDisk == SpecSafe => []MemoryAgreesWithDisk
<1>1. IInv => MemoryAgreesWithDisk
  <2> SUFFICES ASSUME IInv, pc = "idle"
               PROVE  /\ best = disk.best /\ pnext = disk.next /\ disk.index \subseteq index
                      /\ (index \ disk.index) \cap Anc[best] = {}
    BY DEF MemoryAgreesWithDisk
  <2>1. best = disk.best /\ Anc[disk.best] \subseteq disk.index
    BY DEF IInv, ControlInv, DiskInv, Agrees
  <2> QED BY <2>1 DEF IInv, IndexInv
<1> QED BY <1>1, InvHolds, PTL

\* Reorganize never fails in DisconnectBlock.
THEOREM AlwaysDisconnects == SpecSafe => []DisconnectNeverFails
<1>1. IInv => DisconnectNeverFails
  <2> SUFFICES ASSUME IInv, pc = "reorganize", at \notin Anc[goal]
               PROVE  DisconnectBlockSucceeds(view, at)
    BY DEF DisconnectNeverFails
  <2> QED BY LeavingChain, DisconnectAgrees DEF IInv, ViewInv, TypeOK
<1> QED BY <1>1, InvHolds, PTL

\* The committed chain keeps the promise of BestChain: it is valid and is only
\* given up for one of more trust.
THEOREM ImplementsBestChain == SpecSafe => KeepsPromise
<1>1. Init => Promise!Init
  BY DEF Init, GenesisDatabase, Promise!Init
<1>2. ASSUME IInv, [NextSafe]_vars PROVE [Promise!Next]_<<disk.index, disk.best>>
  <2>1. ASSUME NEW b \in Blocks, AddToBlockIndex(b) PROVE Promise!Next
    <3>1. disk'.index = disk.index \cup {b} /\ disk'.best = disk.best
      BY <1>2, <2>1 DEF AddToBlockIndex, IInv, TypeOK, Database
    <3> QED BY <3>1 DEF Promise!Next, Promise!Learn
  <2>2. ASSUME CommitBest, pc \in {"reorganize", "inner"}, at = goal PROVE Promise!Next
    <3>1. disk'.index = disk.index \cup Anc[goal] /\ disk'.best = goal
      BY <1>2, <2>2 DEF CommitBest, IInv, ViewInv, TypeOK, Database
    <3>2. goal \in Blocks /\ ChainSpendsValid(goal) /\ ChainTrust[goal] > ChainTrust[disk.best]
      BY <1>2, <2>2 DEF IInv, ViewInv, ControlInv, TypeOK
    <3> QED BY <3>1, <3>2 DEF Promise!Next, Promise!Switch, ValidTips
  <2>3. ASSUME UNCHANGED disk PROVE UNCHANGED <<disk.index, disk.best>>
    BY <2>3
  <2> QED BY <1>2, <2>1, <2>2, <2>3
          DEF NextSafe, AddToBlockIndexFails,
              SetBestChainStep, ExtendBestChain, BeginReorganize, DisconnectBlock,
              DisconnectBlockFails, ConnectBlock, ConnectBlockFails, GiveUp, CommitReorganize,
              CommitInner, NewBestBlock, CommitFails, CrashAndRestart, vars
<1> QED BY <1>1, <1>2, InvHolds, PTL DEF SpecSafe, KeepsPromise, Promise!Spec

\* SetBestChain gives up on a heavier chain only if a block it has yet to connect breaks
\* a rule on the ledger of its own ancestors, the stake reward being that of the year of
\* the best block; neither the branch the node stands on nor the way the chain was cut
\* into transactions is a reason.
THEOREM OnlyRefusedForAReason == SpecSafe => RefusedForAReason
<1>1. ASSUME IInv, [NextSafe]_vars
      PROVE  [SetBestChainStep /\ pc' = "idle" =>
                 \/ best' = target
                 \/ \E c \in Anc[target] \ Anc[best] : ~KeepsRules(c, Height[best])]_vars
  <2> SUFFICES ASSUME SetBestChainStep, pc' = "idle", best' # target
               PROVE  \E c \in Anc[target] \ Anc[best] : ~KeepsRules(c, Height[best])
    OBVIOUS
  <2>1. ~NewBestBlock
    BY DEF NewBestBlock
  <2>2. ~DisconnectBlockFails
    BY <1>1, LeavingChain, DisconnectAgrees DEF DisconnectBlockFails, IInv, ViewInv, TypeOK
  <2>3. CASE ConnectBlockFails
    <3>1. PICK b \in Blocks : OnTheWay(b) /\ ~ConnectBlockSucceeds(view, b)
      BY <2>3 DEF ConnectBlockFails
    <3>2. /\ goal \in Anc[target] /\ goal \in Blocks /\ target \in Blocks /\ Agrees(view, at)
          /\ best \in Blocks
      BY <1>1, <2>3 DEF ConnectBlockFails, IInv, ControlInv, ViewInv, TypeOK
    <3>3. b \in Anc[goal] \ {Genesis} /\ b \in Anc[target] \ {Genesis} /\ Prev[b] = at
      BY <3>1, <3>2, AncTransitive DEF OnTheWay
    <3>4. b \notin Anc[best]
      <4>1. CASE pc = "reorganize"
        BY <1>1, <3>1, <3>3, <4>1, NotOwnAncestor DEF IInv, ControlInv
      <4>2. CASE pc = "inner"
        <5>1. best = Prev[goal] /\ at \in {Prev[goal], goal}
          BY <1>1, <2>3, <4>2 DEF IInv, ControlInv, ConnectBlockFails, Postponed
        <5>2. at # goal
          BY <3>1, <3>2, <3>3, AncBelow, TreeFacts
        <5> QED BY <3>1, <3>3, <5>1, <5>2, NotOwnAncestor
      <4> QED BY <2>3, <4>1, <4>2 DEF ConnectBlockFails
    <3>5. ~KeepsRules(b, Height[best])
      <4> SUFFICES ASSUME KeepsRules(b, Height[best]) PROVE ConnectBlockSucceeds(view, b)
        BY <3>1
      <4>1. LedgerOf(Prev[b]).pos = view.pos /\ LedgerOf(Prev[b]).spent = view.spent
        BY <3>2, <3>3 DEF Agrees, LedgerOf
      <4>2. SpendsValid(view, b)
        BY <4>1, SpendsValidReads DEF KeepsRules
      <4> QED BY <4>2 DEF KeepsRules, ConnectBlockSucceeds, RewardAllowed
    <3> QED BY <3>3, <3>4, <3>5
  <2> QED BY <1>1, <2>1, <2>2, <2>3
          DEF SetBestChainStep, ExtendBestChain, BeginReorganize, DisconnectBlock, ConnectBlock,
              CommitReorganize, CommitInner, NextPostponed
<1> QED BY <1>1, InvHolds, PTL DEF SpecSafe, RefusedForAReason

-----------------------------------------------------------------------------
(* Every behaviour, failing postponed blocks and commits included *)

\* Where SetBestChain may be while memory has run ahead of the disk: the trust of
\* what it works on, of the best block in memory and of the one on disk.
TrustInv ==
    /\ TypeOK
    /\ pc \in {"idle", "set", "reorganize"} => ChainTrust[best] >= ChainTrust[disk.best]
    /\ pc = "set" => ChainTrust[target] > ChainTrust[best]
    /\ pc \in {"reorganize", "inner"} =>
          /\ goal \in Anc[target]
          /\ ChainTrust[goal] > ChainTrust[disk.best]
          /\ ChainTrust[goal] > ChainTrust[best]
    /\ pc = "inner" /\ Prev[goal] = best => ChainTrust[best] >= ChainTrust[disk.best]
    /\ pc = "done" => ChainTrust[target] >= ChainTrust[disk.best]

\* The commits of Reorganize and SetBestChainInner.
LEMMA TrustCommit ==
    ASSUME TrustInv, TypeOK', pc \in {"reorganize", "inner"}, CommitBest, NextPostponed,
           UNCHANGED <<best, target>>
    PROVE  /\ TrustInv'
           /\ ChainTrust[disk'.best] > ChainTrust[disk.best]
<1>1. /\ disk'.best = goal /\ goal \in Anc[target] /\ goal \in Blocks /\ target \in Blocks
      /\ best \in Blocks /\ disk.best \in Blocks
      /\ ChainTrust[goal] > ChainTrust[disk.best] /\ ChainTrust[goal] > ChainTrust[best]
  BY DEF TrustInv, CommitBest, TypeOK, Database
<1>2. CASE goal = target
  <2>1. pc' = "done"
    BY <1>2 DEF NextPostponed
  <2> QED BY <1>1, <1>2, <2>1, TreeFacts DEF TrustInv
<1>3. CASE goal # target
  <2>1. PICK b \in Anc[target] \ {Genesis} : Prev[b] = goal /\ goal' = b
    BY <1>3 DEF NextPostponed
  <2>2. pc' = "inner" /\ b \in Blocks /\ ChainTrust[b] > ChainTrust[goal]
    BY <1>1, <1>3, <2>1, AncBasic, TreeFacts DEF NextPostponed
  <2>3. ChainTrust[b] > ChainTrust[best]
    BY <1>1, <2>2, TreeFacts
  <2>4. Prev[b] # best
    BY <1>1, <2>1, TreeFacts
  <2> QED BY <1>1, <2>1, <2>2, <2>3, <2>4 DEF TrustInv
<1> QED BY <1>2, <1>3

LEMMA TrustStep ==
    ASSUME TrustInv, [Next]_vars
    PROVE  /\ TrustInv'
           /\ disk'.best # disk.best => ChainTrust[disk'.best] > ChainTrust[disk.best]
<1>1. TypeOK /\ TypeOK'
  BY TypeStep DEF TrustInv
<1>2. /\ best \in Blocks /\ target \in Blocks /\ goal \in Blocks /\ disk.best \in Blocks
      /\ \A b \in Blocks : ChainTrust[b] \in Nat
  BY <1>1, TreeFacts DEF TypeOK, Database
<1>3. ASSUME NEW b \in Blocks, AddToBlockIndex(b)
      PROVE  TrustInv' /\ disk'.best = disk.best
  <2>1. disk'.best = disk.best /\ best' = best /\ pc = "idle"
    BY <1>1, <1>3 DEF AddToBlockIndex, TypeOK, Database
  <2>2. \/ pc' = "set" /\ target' = b /\ ChainTrust[b] > ChainTrust[best]
        \/ pc' = "idle"
    BY <1>3, <2>1 DEF AddToBlockIndex
  <2> QED BY <1>1, <2>1, <2>2 DEF TrustInv
<1>18. ASSUME NEW b \in Blocks, AddToBlockIndexFails(b)
      PROVE  TrustInv' /\ disk'.best = disk.best
  BY <1>1, <1>18 DEF AddToBlockIndexFails, TrustInv, ctl
<1>4. CASE ExtendBestChain
  <2>1. target \in Anc[target]
    BY <1>2, AncBasic
  <2> QED BY <1>1, <1>2, <1>4, <2>1 DEF ExtendBestChain, TrustInv, mem
<1>5. CASE BeginReorganize
  <2>1. PICK b \in Anc[target] \ {Genesis} :
            /\ \A c \in Anc[target] \ Anc[b] : ChainTrust[Prev[c]] > ChainTrust[best]
            /\ goal' = b
    BY <1>5 DEF BeginReorganize
  <2>2. ChainTrust[b] > ChainTrust[best]
    <3>1. CASE b = target
      BY <1>5, <3>1 DEF BeginReorganize, TrustInv
    <3>2. CASE b # target
      <4>1. PICK c \in Anc[target] \ {Genesis} : Prev[c] = b /\ c \notin Anc[b]
        BY <1>2, <3>2, ChildOnChain
      <4> QED BY <2>1, <4>1
    <3> QED BY <3>1, <3>2
  <2>3. /\ pc = "set" /\ pc' = "reorganize" /\ best' = best /\ disk' = disk
        /\ target' = target
    BY <1>5 DEF BeginReorganize, mem
  <2>4. b \in Blocks
    BY <1>2, AncBasic
  <2> QED BY <1>1, <1>2, <2>1, <2>2, <2>3, <2>4 DEF TrustInv
<1>6. ASSUME pc \in {"reorganize", "inner"}, ~Postponed, pc' = "idle",
             UNCHANGED <<best, disk, target, goal>>
      PROVE  TrustInv'
  BY <1>1, <1>6 DEF TrustInv, Postponed
<1>7. CASE DisconnectBlock
  BY <1>1, <1>7 DEF DisconnectBlock, TrustInv, mem
<1>8. CASE ConnectBlock
  BY <1>1, <1>8 DEF ConnectBlock, TrustInv, mem
<1>9. CASE PostponedFails
  <2>1. /\ pc = "inner" /\ pc' = "done" /\ disk' = disk /\ target' = target
    BY <1>9 DEF PostponedFails, PostponedBlockFails, PostponedCommitFails, Postponed
  <2>2. ChainTrust[goal] <= ChainTrust[target] /\ ChainTrust[goal] > ChainTrust[disk.best]
    BY <1>2, <2>1, AncTrust DEF TrustInv
  <2> QED BY <1>1, <1>2, <2>1, <2>2 DEF TrustInv
<1>10. CASE CommitReorganize \/ CommitInner
  BY <1>1, <1>10, TrustCommit DEF CommitReorganize, CommitInner
<1>11. CASE NewBestBlock
  BY <1>1, <1>11 DEF NewBestBlock, TrustInv
<1>12. CASE CrashAndRestart
  BY <1>1, <1>2, <1>12 DEF CrashAndRestart, TrustInv
<1>13. CASE UNCHANGED vars
  BY <1>1, <1>13 DEF vars, mem, ctl, TrustInv
<1>14. CASE DisconnectBlockFails
  BY <1>6, <1>14 DEF DisconnectBlockFails, GiveUp, Postponed
<1>15. CASE ConnectBlockFails
  BY <1>6, <1>15 DEF ConnectBlockFails, GiveUp
<1>16. CASE CommitFails
  BY <1>6, <1>16 DEF CommitFails
<1>17. DisconnectBlockFails \/ ConnectBlockFails \/ CommitFails => UNCHANGED disk
  BY DEF DisconnectBlockFails, ConnectBlockFails, CommitFails, GiveUp
<1> QED BY <1>3, <1>4, <1>5, <1>7, <1>8, <1>9, <1>10, <1>11, <1>12, <1>13, <1>14, <1>15,
           <1>16, <1>17, <1>18
        DEF Next, NextSafe, SetBestChainStep, ExtendBestChain, BeginReorganize,
            DisconnectBlock, ConnectBlock, PostponedFails, PostponedBlockFails,
            PostponedCommitFails, NewBestBlock, CrashAndRestart, vars

\* hashBestChain only ever moves to a block of more trust, in every behaviour: also
\* where a postponed block or its commit fails and memory runs ahead of the disk.
THEOREM TrustOfCommittedGrows == Spec => CommittedTrustGrows
<1>1. Init => TrustInv
  <2>1. ASSUME Init PROVE TypeOK
    BY <2>1, TypeInit
  <2> QED BY <2>1, TreeFacts DEF Init, TrustInv, GenesisDatabase
<1>2. TrustInv /\ [Next]_vars => TrustInv'
  BY TrustStep
<1>3. TrustInv /\ [Next]_vars =>
          [disk'.best # disk.best => ChainTrust[disk'.best] > ChainTrust[disk.best]]_vars
  BY TrustStep
<1> QED BY <1>1, <1>2, <1>3, PTL DEF Spec, CommittedTrustGrows

-----------------------------------------------------------------------------
(* No coin from nowhere *)

Allowed == [b \in Blocks |-> Allowance(b)]

\* The unspent outputs of the chain that ends in b, and of every chain below it,
\* are worth at most what the blocks were allowed to create.  The chains below
\* count, since Reorganize goes back to one of them before it connects a branch.
Solvent(b) == \A c \in Anc[b] : Money(c) <= Total(Allowed, Anc[c] \ {Genesis})

MoneyInv ==
    /\ Solvent(disk.best)
    /\ pc \in {"reorganize", "inner"} => Solvent(at)

\* The reward ConnectBlock grants, in whatever year of pindexBest, is within the
\* allowance of the block.
LEMMA MintAllowed ==
    ASSUME TypeOK, NEW b \in Blocks \ {Genesis}, ChainSpendsValid(b),
           b \notin Unsound, RewardAllowed(b)
    PROVE  Minted(b) <= Allowed[b]
<1> DEFINE year == Height[best] \div YearlyBlockCount
           percent == 5 - (IF year >= 5 THEN 4 ELSE year)
           paid == ValueOut(Vtx[b][1])
           gain == StakeReward(b)
           fees == Fees(b)
           age == CoinAge[b]
<1>1. paid \in Int /\ fees \in Int /\ (IsProofOfStake(b) => gain \in Int)
  BY MoneyStep
<1>2. CASE IsProofOfStake(b)
  <2>1. Value[Vtx[b][1]] = <<0>>
    BY <1>2, RewardAssumption
  <2>2. paid = 0
    <3>1. Vtx[b][1] \in Txs
      BY TxFacts
    <3>2. paid = Total(Value[Vtx[b][1]], DOMAIN Value[Vtx[b][1]])
      BY DEF ValueOut, MapThenSumSet, MapThenFoldSet, Total, Summing, Chosen
    <3> DEFINE f == <<0>>
    <3>3. DOMAIN f = {1} /\ f[1] = 0
      OBVIOUS
    <3> HIDE DEF f
    <3>4. IsFiniteSet({1}) /\ \A x \in {1} : f[x] \in Int
      <4>1. IsFiniteSet({1})
        BY FS_Singleton, Zenon
      <4> QED BY <3>3, <4>1
    <3>5. Total(f, {1}) = f[1] + Total(f, {1} \ {1})
      BY <3>4, TotalRemove
    <3>6. {1} \ {1} = {} /\ Total(f, {}) = 0
      BY <3>4, TotalStep
    <3>7. Total(f, {1}) = 0
      BY <3>3, <3>5, <3>6
    <3> QED BY <2>1, <3>2, <3>3, <3>7 DEF f
  <2>3. age \in Nat /\ YearlyBlockCount \in Nat \ {0} /\ Height[best] \in Nat
    BY RewardAssumption, TreeFacts DEF TypeOK
  <2>4. year \in Nat
    BY <2>3
  <2>5. gain <= age * percent + fees
    BY <1>2 DEF RewardAllowed, GetProofOfStakeReward
  <2> HIDE DEF year, gain, fees, age, paid
  <2>6. percent \in 1..5
    BY <2>4
  <2> HIDE DEF percent
  <2>7. age * percent <= 5 * age /\ age * percent \in Int
    BY <2>3, <2>6
  <2>8. paid + gain - fees <= 5 * age
    BY <1>1, <1>2, <2>2, <2>3, <2>5, <2>7
  <2> QED BY <1>2, <2>8 DEF Minted, Allowed, Allowance, paid, gain, fees, age
<1>3. CASE ~IsProofOfStake(b)
  <2>1. paid <= Subsidy + fees
    BY <1>3 DEF RewardAllowed, GetProofOfWorkReward
  <2>2. Subsidy \in Nat
    BY RewardAssumption
  <2> HIDE DEF paid, fees
  <2>3. paid + 0 - fees <= Subsidy
    BY <1>1, <2>1, <2>2
  <2> QED BY <1>3, <2>3 DEF Minted, Allowed, Allowance, paid, fees
<1> QED BY <1>2, <1>3

LEMMA AllowedType == \A b \in Blocks : Allowed[b] \in Int
<1> SUFFICES ASSUME NEW b \in Blocks PROVE Allowance(b) \in Int
  BY DEF Allowed
<1>1. 5 * CoinAge[b] \in Int /\ Subsidy \in Int
  BY RewardAssumption
<1> QED BY <1>1 DEF Allowance

LEMMA ConnectSolvent ==
    ASSUME TypeOK, NEW b \in Blocks \ {Genesis}, ChainSpendsValid(b), Solvent(Prev[b]),
           b \notin Unsound, RewardAllowed(b)
    PROVE  Solvent(b)
<1> DEFINE below == Anc[Prev[b]] \ {Genesis}
           here == Anc[b] \ {Genesis}
<1>1. Prev[b] \in Blocks /\ Prev[b] \in Anc[Prev[b]] /\ Anc[b] = {b} \cup Anc[Prev[b]]
  BY TreeFacts, AncBasic, AncStep
<1>2. IsFiniteSet(here) /\ here \in SUBSET Blocks /\ b \in here /\ here \ {b} = below
  BY <1>1, AncBasic, ChainFinite, FS_Subset, NotOwnAncestor
<1>3. IsFiniteSet(below) /\ below \in SUBSET Blocks
  BY <1>2, FS_Subset
<1>4. Money(Prev[b]) <= Total(Allowed, below)
  BY <1>1 DEF Solvent
<1> HIDE DEF below, here
<1>5. Total(Allowed, here) = Allowed[b] + Total(Allowed, below)
  <2>1. \A c \in here : Allowed[c] \in Int
    BY <1>2, AllowedType
  <2> QED BY <1>2, <2>1, TotalRemove
<1>6. Total(Allowed, below) \in Int /\ Allowed[b] \in Int
  BY <1>3, AllowedType, TotalType
<1>7. Minted(b) <= Allowed[b]
  BY MintAllowed
<1>8. Money(b) = Money(Prev[b]) + Minted(b) /\ Money(Prev[b]) \in Int /\ Minted(b) \in Int
  BY MoneyStep DEF Minted
<1>9. Money(b) <= Total(Allowed, here)
  BY <1>4, <1>5, <1>6, <1>7, <1>8
<1> QED BY <1>1, <1>9 DEF Solvent, here

LEMMA SolventBelow ==
    ASSUME NEW b \in Blocks, Solvent(b), NEW c \in Anc[b]
    PROVE  Solvent(c)
BY AncTransitive DEF Solvent

LEMMA MoneyInit == Init => MoneyInv
<1> SUFFICES ASSUME Init PROVE Solvent(Genesis)
  BY DEF Init, GenesisDatabase, MoneyInv
<1>1. Anc[Genesis] = {Genesis} /\ Genesis \in Blocks
  BY AncGenesis, TreeFacts
<1>2. \A t \in Txs : LocationOn(Genesis)[t] = None
  BY <1>1, LocatedIff, TxFacts
<1>3. UnspentOn(Genesis) = {}
  BY <1>2, CoinFacts DEF UnspentOn
<1>4. IsFiniteSet({}) /\ Anc[Genesis] \ {Genesis} = {}
  BY <1>1, FS_EmptySet
<1>5. Total(Coin, {}) = 0 /\ Total(Allowed, {}) = 0
  BY <1>4, TotalStep
<1>6. Money(Genesis) <= Total(Allowed, Anc[Genesis] \ {Genesis})
  BY <1>3, <1>4, <1>5 DEF Money
<1> QED BY <1>1, <1>6 DEF Solvent

\* A commit makes the chain that was connected the one on disk.
LEMMA MoneyCommit ==
    ASSUME IInv, MoneyInv, pc \in {"reorganize", "inner"}, at = goal,
           CommitBest, NextPostponed, at' = at
    PROVE  MoneyInv'
<1>1. Solvent(at) /\ disk'.best = goal
  BY DEF MoneyInv, CommitBest, IInv, TypeOK, Database
<1>2. Solvent(disk'.best) /\ Solvent(at')
  BY <1>1
<1> QED BY <1>2 DEF MoneyInv, Solvent

LEMMA MoneyStepInv == IInv /\ IInv' /\ MoneyInv /\ [NextSafe]_vars => MoneyInv'
<1> SUFFICES ASSUME IInv, IInv', MoneyInv, [NextSafe]_vars PROVE MoneyInv'
  OBVIOUS
<1>0. TypeOK
  BY DEF IInv
<1>1. ASSUME NEW b \in Blocks, AddToBlockIndex(b) PROVE MoneyInv'
  <2>1. disk'.best = disk.best /\ pc' \in {"idle", "set"}
    BY <1>0, <1>1 DEF AddToBlockIndex, TypeOK, Database
  <2> QED BY <2>1 DEF MoneyInv, Solvent
<1>2. CASE ExtendBestChain
  <2>1. disk' = disk /\ at' = disk.best
    BY <1>2 DEF ExtendBestChain, IInv, ControlInv
  <2> QED BY <2>1 DEF MoneyInv, Solvent
<1>3. CASE BeginReorganize
  <2>1. disk' = disk /\ at' = disk.best
    BY <1>3 DEF BeginReorganize, IInv, ControlInv
  <2> QED BY <2>1 DEF MoneyInv, Solvent
<1>4. CASE DisconnectBlock
  <2>1. pc = "reorganize" /\ at \notin Anc[goal] /\ disk' = disk /\ at' = Prev[at] /\ pc' = pc
    BY <1>4 DEF DisconnectBlock
  <2>2. at \in Blocks \ {Genesis}
    BY <1>0, <2>1, LeavingChain DEF TypeOK
  <2>3. Prev[at] \in Anc[at] /\ Solvent(at)
    BY <2>1, <2>2, AncBasic DEF MoneyInv
  <2>4. Solvent(Prev[at])
    BY <2>2, <2>3, SolventBelow
  <2> QED BY <2>1, <2>4 DEF MoneyInv, Solvent
<1>5. CASE ConnectBlock
  <2>1. PICK b \in Blocks : OnTheWay(b) /\ ConnectBlockSucceeds(view, b) /\ at' = b
    BY <1>5 DEF ConnectBlock
  <2>2. disk' = disk /\ pc \in {"reorganize", "inner"} /\ pc' = pc
    BY <1>5 DEF ConnectBlock
  <2>3. /\ b \in Blocks \ {Genesis} /\ Prev[b] = at /\ Solvent(at)
        /\ b \notin Unsound /\ RewardAllowed(b)
    BY <2>1, <2>2 DEF OnTheWay, ConnectBlockSucceeds, MoneyInv
  <2>4. ChainSpendsValid(b)
    BY <2>1, <2>2 DEF IInv, ViewInv, ChainSpendsValid
  <2>5. Solvent(b)
    BY <1>0, <2>3, <2>4, ConnectSolvent
  <2> QED BY <2>1, <2>2, <2>5 DEF MoneyInv, Solvent
<1>6. CASE CommitReorganize
  BY <1>6, MoneyCommit DEF CommitReorganize
<1>7. CASE CommitInner
  BY <1>7, MoneyCommit DEF CommitInner
<1>8. ASSUME disk' = disk, pc' \in {"idle", "halted"} PROVE MoneyInv'
  BY <1>8 DEF MoneyInv, Solvent
<1>9. CASE UNCHANGED vars
  BY <1>9 DEF MoneyInv, Solvent, vars, ctl
<1> QED BY <1>1, <1>2, <1>3, <1>4, <1>5, <1>6, <1>7, <1>8, <1>9
        DEF NextSafe, AddToBlockIndexFails, ctl, SetBestChainStep, CommitFails, NewBestBlock,
            CrashAndRestart, DisconnectBlockFails, ConnectBlockFails, GiveUp

\* What a set of blocks was allowed to create.
LEMMA AllowanceTotal ==
    ASSUME NEW S \in SUBSET Blocks, IsFiniteSet(S)
    PROVE  MapThenSumSet(Allowance, S) = Total(Allowed, S)
<1> DEFINE Sums(g) == g = [s \in SUBSET S |-> IF s = {} THEN 0
                            ELSE Allowance(Chosen(s)) + g[s \ {Chosen(s)}]]
           iter == CHOOSE g : Sums(g)
           k == CHOOSE g : Summing(Allowed, S, g)
<1>1. MapThenSumSet(Allowance, S) = iter[S]
  BY DEF MapThenSumSet, MapThenFoldSet, Chosen
<1>2. ASSUME NEW s \in SUBSET S, s # {} PROVE Allowed[Chosen(s)] = Allowance(Chosen(s))
  BY <1>2, ChosenIn DEF Allowed
<1>3. ASSUME NEW g PROVE Summing(Allowed, S, g) <=> Sums(g)
  BY <1>2 DEF Summing
<1>4. PICK h : Summing(Allowed, S, h)
  BY SummingExists
<1> HIDE DEF Sums
<1>5. Summing(Allowed, S, iter) /\ Summing(Allowed, S, k)
  BY <1>3, <1>4
<1>6. Total(Allowed, S) = k[S]
  BY DEF Total
<1> HIDE DEF iter, k
<1> QED BY <1>1, <1>5, <1>6, SummingUnique

\* No coin from nowhere: whatever is disconnected and connected, and in whatever
\* year the node believes itself, the unspent outputs of the committed chain are
\* worth at most what its blocks were allowed to create.
THEOREM NothingFromNowhere == SpecSafe => []NoInflation
<1>1. ASSUME IInv, MoneyInv PROVE NoInflation
  <2> DEFINE unspent == {o \in OutPoints : disk.pos[o[1]] # None} \ disk.spent
             chain == Anc[disk.best] \ {Genesis}
  <2>1. disk.best \in Blocks /\ Agrees(disk, disk.best)
    BY <1>1 DEF IInv, TypeOK, Database, DiskInv
  <2>2. unspent = UnspentOn(disk.best)
    BY <2>1 DEF Agrees, UnspentOn
  <2>3. UnspentValue = Total(Coin, unspent)
    BY <2>1, <2>2, UnspentFinite, CoinsTotal DEF UnspentValue
  <2>4. chain \in SUBSET Blocks /\ IsFiniteSet(chain)
    BY <2>1, AncBasic, ChainFinite, FS_Subset
  <2>5. MapThenSumSet(Allowance, chain) = Total(Allowed, chain)
    BY <2>4, AllowanceTotal
  <2>6. Money(disk.best) <= Total(Allowed, chain)
    BY <1>1, <2>1, AncBasic DEF MoneyInv, Solvent
  <2> QED BY <2>2, <2>3, <2>5, <2>6 DEF NoInflation, Money
<1> QED BY <1>1, InvInit, InvStep, MoneyInit, MoneyStepInv, PTL DEF SpecSafe

====
