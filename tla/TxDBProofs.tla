----------------------------- MODULE TxDBProofs -----------------------------
(* Proofs about TxDB, for any number of handles, keys and values.          *)
EXTENDS TxDB, WellFoundedInduction, TLAPS

\* A key the batch mentions has a last mention, the one ScanBatch reports.
LEMMA LastMention ==
    ASSUME NEW ops \in Seq(BatchOp), NEW k, Mentions(ops, k) # {}
    PROVE  \E i \in Mentions(ops, k) : \A j \in Mentions(ops, k) : j <= i
<1> DEFINE fromEnd == {Len(ops) - i : i \in Mentions(ops, k)}
<1>1. fromEnd \subseteq Nat /\ fromEnd # {}
  BY DEF Mentions
<1>2. PICK d \in fromEnd : \A e \in fromEnd : <<e, d>> \notin OpToRel(<, Nat)
  BY <1>1, WFMin, NatLessThanWellFounded
<1>3. PICK i \in Mentions(ops, k) : d = Len(ops) - i
  OBVIOUS
<1>4. ASSUME NEW j \in Mentions(ops, k) PROVE j <= i
  <2>1. Len(ops) - j \in fromEnd /\ i \in Nat /\ j \in Nat
    BY DEF Mentions
  <2>2. ~(Len(ops) - j < d)
    BY <1>1, <1>2, <2>1 DEF OpToRel
  <2> QED BY <1>3, <2>1, <2>2
<1> QED BY <1>3, <1>4

\* The batch scan returns a value that some queued operation on the key wrote.
LEMMA ScanBatchType ==
    ASSUME NEW ops \in Seq(BatchOp), NEW k, Mentions(ops, k) # {}
    PROVE  ScanBatch(ops, k) \in Vals \cup {Missing}
<1> DEFINE last == CHOOSE i \in Mentions(ops, k) : \A j \in Mentions(ops, k) : j <= i
<1>1. last \in Mentions(ops, k)
  BY LastMention
<1>2. ops[last] \in BatchOp
  BY <1>1 DEF Mentions
<1>3. ops[last].val \in Vals \cup {Missing}
  BY <1>2 DEF BatchOp
<1> QED BY <1>3 DEF ScanBatch

\* Induction over the natural numbers, for sets.
LEMMA StepByStep ==
    ASSUME NEW P, 0 \in P, \A n \in Nat : n \in P => n + 1 \in P
    PROVE  \A n \in Nat : n \in P
<1> DEFINE bad == {n \in Nat : n \notin P}
<1>1. SUFFICES ASSUME bad # {} PROVE FALSE
  OBVIOUS
<1>2. PICK n \in bad : \A k \in bad : <<k, n>> \notin OpToRel(<, Nat)
  BY <1>1, WFMin, NatLessThanWellFounded
<1>3. n \in Nat /\ n # 0
  BY <1>2
<1>4. n - 1 \in Nat /\ n - 1 < n /\ (n - 1) + 1 = n
  BY ONLY <1>3
<1>5. n - 1 \notin bad
  BY <1>2, <1>3, <1>4 DEF OpToRel
<1> QED BY <1>2, <1>4, <1>5

\* What one operation does to a database, and the databases met while the first n
\* operations of a batch are applied.
ApplyOp(store, op) == [store EXCEPT ![op.key] = op.val]
Applying(store, ops, n, v) ==
    /\ DOMAIN v = 0..n
    /\ v[0] = store
    /\ \A i \in 1..n : v[i] = ApplyOp(v[i - 1], ops[i])

\* The databases exist for any number of operations.
LEMMA ApplyingExists ==
    ASSUME NEW store, NEW ops
    PROVE  \A n \in Nat : \E v : v = [i \in 0..n |-> v[i]] /\ Applying(store, ops, n, v)
<1> DEFINE P == {n \in Nat : \E v : v = [i \in 0..n |-> v[i]] /\ Applying(store, ops, n, v)}
<1>1. 0 \in P
  <2> DEFINE v == [i \in 0..0 |-> store]
  <2>1. v = [i \in 0..0 |-> v[i]] /\ Applying(store, ops, 0, v)
    BY DEF Applying
  <2> QED BY <2>1
<1>2. ASSUME NEW n \in Nat, n \in P PROVE n + 1 \in P
  <2>1. PICK v : v = [i \in 0..n |-> v[i]] /\ Applying(store, ops, n, v)
    BY <1>2
  <2>2. PICK w : w = [i \in 0..(n + 1) |-> IF i \in 0..n THEN v[i] ELSE ApplyOp(v[n], ops[n + 1])]
    OBVIOUS
  <2>3. DOMAIN w = 0..(n + 1) /\ \A i \in 0..n : w[i] = v[i]
    BY <2>2
  <2>4. w[n + 1] = ApplyOp(v[n], ops[n + 1])
    BY <2>2
  <2>5. ASSUME NEW i \in 1..(n + 1) PROVE w[i] = ApplyOp(w[i - 1], ops[i])
    <3>1. CASE i = n + 1
      <4>1. w[i - 1] = v[n]
        BY <2>3, <3>1
      <4> QED BY <2>4, <3>1, <4>1
    <3>2. CASE i # n + 1
      <4>1. i \in 1..n /\ i - 1 \in 0..n /\ i \in 0..n
        BY <3>2
      <4> QED BY <2>1, <2>3, <4>1 DEF Applying
    <3> QED BY <3>1, <3>2
  <2>6. w[0] = store
    BY <2>1, <2>3 DEF Applying
  <2>7. w = [i \in 0..(n + 1) |-> w[i]]
    BY <2>2
  <2>8. Applying(store, ops, n + 1, w)
    BY <2>3, <2>5, <2>6 DEF Applying
  <2> QED BY <2>7, <2>8
<1> HIDE DEF P
<1>3. \A n \in Nat : n \in P
  BY <1>1, <1>2, StepByStep
<1> QED BY <1>3 DEF P

\* The recursive function of ApplyBatch.
Applied(store, ops, v) ==
    v = [n \in 0..Len(ops) |-> IF n = 0 THEN store
                                        ELSE [v[n - 1] EXCEPT ![ops[n].key] = ops[n].val]]

LEMMA AppliedIs ==
    ASSUME NEW store, NEW ops, NEW v
    PROVE  Applied(store, ops, v) <=>
             v = [n \in 0..Len(ops) |-> IF n = 0 THEN store ELSE ApplyOp(v[n - 1], ops[n])]
BY DEF Applied, ApplyOp

LEMMA ApplyBatchIsApplying ==
    ASSUME NEW store, NEW ops \in Seq(BatchOp)
    PROVE  \E v : Applying(store, ops, Len(ops), v) /\ ApplyBatch(store, ops) = v[Len(ops)]
<1>0. PICK n \in Nat : n = Len(ops)
  OBVIOUS
<1>1. PICK w : w = [i \in 0..n |-> w[i]] /\ Applying(store, ops, n, w)
  BY ApplyingExists
<1>2. \A i \in 0..n : w[i] = IF i = 0 THEN store ELSE ApplyOp(w[i - 1], ops[i])
  <2>1. \A i \in 0..n : i # 0 => i \in 1..n
    OBVIOUS
  <2> QED BY <1>1, <2>1 DEF Applying
<1>3. Applied(store, ops, w)
  BY <1>0, <1>1, <1>2, AppliedIs
<1>4. PICK v : v = CHOOSE x : Applied(store, ops, x)
  OBVIOUS
<1>5. Applied(store, ops, v)
  BY <1>3, <1>4
<1>6. ApplyBatch(store, ops) = v[n]
  BY <1>0, <1>4 DEF ApplyBatch, Applied
<1>7. v = [i \in 0..n |-> IF i = 0 THEN store ELSE ApplyOp(v[i - 1], ops[i])]
  BY <1>0, <1>5, AppliedIs
<1>8. DOMAIN v = 0..n /\ v[0] = store
  BY <1>7
<1>9. ASSUME NEW i \in 1..n PROVE v[i] = ApplyOp(v[i - 1], ops[i])
  <2>1. i \in 0..n /\ i # 0
    OBVIOUS
  <2> QED BY <1>7, <2>1
<1> QED BY <1>0, <1>6, <1>8, <1>9 DEF Applying

\* After n operations a key has the value of the last of them on it, if there is one.
LastWins(store, ops, n, s) ==
    /\ s \in [Keys -> Vals \cup {Missing}]
    /\ \A k \in Keys :
          /\ (\A j \in 1..n : ops[j].key # k) => s[k] = store[k]
          /\ \A i \in 1..n : ops[i].key = k /\ (\A j \in 1..n : ops[j].key = k => j <= i)
                                => s[k] = ops[i].val

LEMMA LastWinsOneMore ==
    ASSUME NEW store, NEW ops \in Seq(BatchOp), NEW n \in Nat, n + 1 \in 1..Len(ops),
           NEW s, LastWins(store, ops, n, s)
    PROVE  LastWins(store, ops, n + 1, ApplyOp(s, ops[n + 1]))
<1>1. PICK key, val : key = ops[n + 1].key /\ val = ops[n + 1].val
  OBVIOUS
<1>2. key \in Keys /\ val \in Vals \cup {Missing}
  <2>1. ops[n + 1] \in BatchOp
    OBVIOUS
  <2> QED BY <1>1, <2>1 DEF BatchOp
<1>3. s \in [Keys -> Vals \cup {Missing}]
  BY DEF LastWins
<1>4. PICK r : r = [s EXCEPT ![key] = val]
  OBVIOUS
<1>5. r = ApplyOp(s, ops[n + 1])
  BY <1>1, <1>4 DEF ApplyOp
<1>6. r \in [Keys -> Vals \cup {Missing}] /\ r[key] = val /\ \A k \in Keys : k # key => r[k] = s[k]
  BY <1>2, <1>3, <1>4
<1>7. ASSUME NEW k \in Keys, \A j \in 1..(n + 1) : ops[j].key # k PROVE r[k] = store[k]
  <2>1. k # key /\ \A j \in 1..n : ops[j].key # k
    BY <1>1, <1>7
  <2> QED BY <1>6, <2>1 DEF LastWins
<1>8. ASSUME NEW k \in Keys, NEW i \in 1..(n + 1), ops[i].key = k,
             \A j \in 1..(n + 1) : ops[j].key = k => j <= i
      PROVE  r[k] = ops[i].val
  <2>1. CASE k = key
    <3>1. i = n + 1
      BY <1>1, <1>8, <2>1
    <3> QED BY <1>1, <1>6, <2>1, <3>1
  <2>2. CASE k # key
    <3>1. i \in 1..n
      BY <1>1, <1>8, <2>2
    <3>2. \A j \in 1..n : ops[j].key = k => j <= i
      BY <1>8
    <3> QED BY <1>6, <1>8, <2>2, <3>1, <3>2 DEF LastWins
  <2> QED BY <2>1, <2>2
<1> QED BY <1>5, <1>6, <1>7, <1>8 DEF LastWins

LEMMA LastOperationWins ==
    ASSUME NEW store \in [Keys -> Vals \cup {Missing}], NEW ops \in Seq(BatchOp)
    PROVE  LastWins(store, ops, Len(ops), ApplyBatch(store, ops))
<1>1. PICK v : Applying(store, ops, Len(ops), v) /\ ApplyBatch(store, ops) = v[Len(ops)]
  BY ApplyBatchIsApplying
<1> DEFINE P == {n \in Nat : n <= Len(ops) => LastWins(store, ops, n, v[n])}
<1>2. 0 \in P
  <2>1. v[0] = store /\ 1..0 = {}
    BY <1>1 DEF Applying
  <2> QED BY <2>1 DEF LastWins
<1>3. ASSUME NEW n \in Nat, n \in P PROVE n + 1 \in P
  <2>1. SUFFICES ASSUME n + 1 <= Len(ops) PROVE LastWins(store, ops, n + 1, v[n + 1])
    OBVIOUS
  <2>2. n + 1 \in 1..Len(ops) /\ n <= Len(ops) /\ (n + 1) - 1 = n
    BY <2>1
  <2>3. v[n + 1] = ApplyOp(v[n], ops[n + 1])
    BY <1>1, <2>2 DEF Applying
  <2> QED BY <1>3, <2>2, <2>3, LastWinsOneMore
<1> HIDE DEF P
<1>4. Len(ops) \in P
  BY <1>2, <1>3, StepByStep
<1> QED BY <1>1, <1>4 DEF P

\* Committing a batch yields a well-formed database.
LEMMA ApplyBatchType ==
    ASSUME NEW store \in [Keys -> Vals \cup {Missing}], NEW ops \in Seq(BatchOp)
    PROVE  ApplyBatch(store, ops) \in [Keys -> Vals \cup {Missing}]
BY LastOperationWins DEF LastWins

\* What a scan of the batch reports is what applying it leaves under the key.
LEMMA ScanIsApplied ==
    ASSUME NEW store \in [Keys -> Vals \cup {Missing}], NEW ops \in Seq(BatchOp), NEW k \in Keys
    PROVE  ApplyBatch(store, ops)[k] =
             IF Mentions(ops, k) = {} THEN store[k] ELSE ScanBatch(ops, k)
<1>1. LastWins(store, ops, Len(ops), ApplyBatch(store, ops)) /\ DOMAIN ops = 1..Len(ops)
  BY LastOperationWins
<1>2. CASE Mentions(ops, k) = {}
  BY <1>1, <1>2 DEF LastWins, Mentions
<1>3. CASE Mentions(ops, k) # {}
  <2>1. PICK last : last = CHOOSE i \in Mentions(ops, k) : \A j \in Mentions(ops, k) : j <= i
    OBVIOUS
  <2>2. last \in Mentions(ops, k) /\ \A j \in Mentions(ops, k) : j <= last
    BY <1>3, <2>1, LastMention
  <2>3. ScanBatch(ops, k) = ops[last].val
    BY <2>1 DEF ScanBatch
  <2>4. last \in 1..Len(ops) /\ ops[last].key = k
        /\ \A j \in 1..Len(ops) : ops[j].key = k => j <= last
    BY <1>1, <2>2 DEF Mentions
  <2> QED BY <1>1, <1>3, <2>3, <2>4 DEF LastWins
<1> QED BY <1>2, <1>3

\* Read and Exists against a commit of the batch.
LEMMA ReadValueIsCommitted ==
    ASSUME NEW h \in Handles, NEW k \in Keys, TypeOK
    PROVE  /\ ReadValue(h, k) = Committed(h)[k]
           /\ ExistsValue(h, k) = (Committed(h)[k] # Missing \/ (InBatch(h, k) /\ db[k] # Missing))
<1>1. CASE batch[h] = NoBatch
  BY <1>1 DEF ReadValue, ExistsValue, Committed, InBatch
<1>2. CASE batch[h] # NoBatch
  <2>1. batch[h] \in Seq(BatchOp) /\ db \in [Keys -> Vals \cup {Missing}]
    BY <1>2 DEF TypeOK
  <2>2. Committed(h)[k] = IF Mentions(batch[h], k) = {} THEN db[k] ELSE ScanBatch(batch[h], k)
    BY <1>2, <2>1, ScanIsApplied DEF Committed
  <2> QED BY <1>2, <2>2 DEF ReadValue, ExistsValue, InBatch
<1> QED BY <1>1, <1>2

\* The inductive invariant: types, and Read's answers agree with the batch.
IInv == TypeOK /\ ReadSeesOwnWrites

LEMMA TypeStep == IInv /\ [Next]_vars => TypeOK'
<1> SUFFICES ASSUME TypeOK, [Next]_vars PROVE TypeOK'
  BY DEF IInv
<1> USE DEF TypeOK, NoAnswer
<1>1. ASSUME NEW h \in Handles, TxnBegin(h) PROVE TypeOK'
  BY <1>1 DEF TxnBegin
<1>2. ASSUME NEW h \in Handles, TxnCommit(h) PROVE TypeOK'
  BY <1>2, ApplyBatchType DEF TxnCommit
<1>3. ASSUME NEW h \in Handles, TxnCommitFails(h) PROVE TypeOK'
  BY <1>3 DEF TxnCommitFails
<1>4. ASSUME NEW h \in Handles, TxnAbort(h) PROVE TypeOK'
  BY <1>4 DEF TxnAbort
<1>5. ASSUME NEW h \in Handles, NEW k \in Keys, NEW v \in Vals \cup {Missing}, Put(h, k, v)
      PROVE  TypeOK'
  <2>1. [key |-> k, val |-> v] \in BatchOp
    BY DEF BatchOp
  <2>2. CASE batch[h] = NoBatch
    BY <1>5, <2>2 DEF Put
  <2>3. CASE batch[h] # NoBatch
    <3>1. Append(batch[h], [key |-> k, val |-> v]) \in Seq(BatchOp)
      BY <2>1, <2>3
    <3> QED BY <1>5, <2>3, <3>1 DEF Put
  <2> QED BY <2>2, <2>3
<1>6. ASSUME NEW h \in Handles, NEW k \in Keys, Read(h, k) PROVE TypeOK'
  <2>1. ReadValue(h, k) \in Vals \cup {Missing}
    BY ScanBatchType DEF ReadValue, InBatch
  <2> QED BY <1>6, <2>1 DEF Read
<1>7. ASSUME NEW h \in Handles, NEW k \in Keys, Exists(h, k) PROVE TypeOK'
  <2>1. ExistsValue(h, k) \in BOOLEAN
    BY DEF ExistsValue
  <2> QED BY <1>7, <2>1 DEF Exists
<1>8. CASE Crash
  BY <1>8 DEF Crash
<1>9. CASE UNCHANGED vars
  BY <1>9 DEF vars
<1> QED BY <1>1, <1>2, <1>3, <1>4, <1>5, <1>6, <1>7, <1>8, <1>9
        DEF Next, Write, Erase

LEMMA ReadStep == IInv /\ [Next]_vars => ReadSeesOwnWrites'
<1> SUFFICES ASSUME TypeOK, ReadSeesOwnWrites, [Next]_vars PROVE ReadSeesOwnWrites'
  BY DEF IInv
<1>1. CASE answer' = NoAnswer
  BY <1>1 DEF ReadSeesOwnWrites, NoAnswer
<1>2. ASSUME NEW h \in Handles, NEW k \in Keys, Read(h, k) PROVE ReadSeesOwnWrites'
  <2>1. answer'.h = h /\ answer'.key = k /\ answer'.got = ReadValue(h, k)
        /\ answer'.kind = "read"
    BY <1>2 DEF Read
  <2>2. Committed(h)' = Committed(h)
    BY <1>2 DEF Read, Committed
  <2> QED BY <2>1, <2>2, ReadValueIsCommitted DEF ReadSeesOwnWrites
<1>3. ASSUME NEW h \in Handles, NEW k \in Keys, Exists(h, k) PROVE ReadSeesOwnWrites'
  <2>1. answer'.h = h /\ answer'.key = k /\ answer'.got = ExistsValue(h, k)
        /\ answer'.kind = "exists"
    BY <1>3 DEF Exists
  <2>2. Committed(h)' = Committed(h) /\ InBatch(h, k)' = InBatch(h, k) /\ db' = db
    BY <1>3 DEF Exists, Committed, InBatch
  <2> QED BY <2>1, <2>2, ReadValueIsCommitted DEF ReadSeesOwnWrites
<1>4. CASE UNCHANGED vars
  BY <1>4 DEF vars, ReadSeesOwnWrites, Committed, InBatch
<1> QED BY <1>1, <1>2, <1>3, <1>4
        DEF Next, TxnBegin, TxnCommit, TxnCommitFails, TxnAbort, Write, Erase, Put, Crash

\* Database, batches and answers keep their types (CTxDB as a whole).
THEOREM TypeCorrect == Spec => []TypeOK
<1>1. Init => IInv
  BY DEF Init, IInv, TypeOK, ReadSeesOwnWrites, NoAnswer
<1> QED BY <1>1, TypeStep, ReadStep, PTL DEF Spec, IInv

\* CTxDB::Read always answers with what applying the operations of the handle's
\* own batch, in order, would leave under the key, whatever the other handles do
\* meanwhile; Exists is wrong only about a key the batch deletes and LevelDB has.
THEOREM ReadConsistent == Spec => []ReadSeesOwnWrites
<1>1. Init => IInv
  BY DEF Init, IInv, TypeOK, ReadSeesOwnWrites, NoAnswer
<1> QED BY <1>1, TypeStep, ReadStep, PTL DEF Spec, IInv
=============================================================================
