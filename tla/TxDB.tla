-------------------------------- MODULE TxDB --------------------------------
(***************************************************************************)
(* CTxDB (src/src/txdb-leveldb.h, src/src/txdb-leveldb.cpp): handles on    *)
(* one LevelDB database, each with an optional write batch.                *)
(*                                                                         *)
(* All handles share the static pointer txdb; a handle's activeBatch is    *)
(* its own.  While a batch is active, Write and Erase only append to it,   *)
(* and Read and Exists look into it (ScanBatch) before the database.       *)
(***************************************************************************)
EXTENDS Integers, Sequences

CONSTANTS
    Handles,      \* the CTxDB objects alive at the same time
    Keys,         \* database keys ("tx"+hash, "blockindex"+hash, ...)
    Vals,         \* serialized values
    Missing,      \* the answer of a Get for which LevelDB has no entry
    NoBatch,      \* activeBatch == NULL
    MaxBatch      \* bound: operations queued in one batch

ASSUME TxDBAssumption ==
    /\ Missing \notin Vals
    /\ NoBatch \notin Seq([key : Keys, val : Vals \cup {Missing}])
    /\ MaxBatch \in Nat

VARIABLES
    db,           \* [Keys -> Vals \cup {Missing}], what LevelDB holds
    batch,        \* batch[h]: NoBatch or the queued operations, in order
    answer        \* what the last Read or Exists returned

vars == <<db, batch, answer>>

\* A queued operation; a Delete is a write of Missing.
BatchOp == [key : Keys, val : Vals \cup {Missing}]

NoAnswer == [kind |-> "none"]

TypeOK ==
    /\ db \in [Keys -> Vals \cup {Missing}]
    /\ batch \in [Handles -> Seq(BatchOp) \cup {NoBatch}]
    /\ answer \in [kind : {"none"}]
                  \cup [kind : {"read"}, h : Handles, key : Keys, got : Vals \cup {Missing}]
                  \cup [kind : {"exists"}, h : Handles, key : Keys, got : BOOLEAN]

Init ==
    /\ db = [k \in Keys |-> Missing]
    /\ batch = [h \in Handles |-> NoBatch]
    /\ answer = NoAnswer

-----------------------------------------------------------------------------
\* CBatchScanner visits every operation in order, so the last one on the key
\* decides what ScanBatch reports.
Mentions(ops, k) == {i \in DOMAIN ops : ops[i].key = k}

ScanBatch(ops, k) ==
    LET last == CHOOSE i \in Mentions(ops, k) : \A j \in Mentions(ops, k) : j <= i
    IN  ops[last].val

\* LevelDB applies the operations of a WriteBatch one after the other, and the
\* whole of it atomically.
ApplyBatch(store, ops) ==
    LET applied[n \in 0..Len(ops)] ==
            IF n = 0 THEN store
                     ELSE [applied[n - 1] EXCEPT ![ops[n].key] = ops[n].val]
    IN  applied[Len(ops)]

-----------------------------------------------------------------------------
TxnBegin(h) ==
    /\ batch[h] = NoBatch
    /\ batch' = [batch EXCEPT ![h] = <<>>]
    /\ answer' = NoAnswer
    /\ UNCHANGED db

TxnCommit(h) ==
    /\ batch[h] # NoBatch
    /\ db' = ApplyBatch(db, batch[h])
    /\ batch' = [batch EXCEPT ![h] = NoBatch]
    /\ answer' = NoAnswer

\* A commit LevelDB refuses: the batch is deleted all the same.
TxnCommitFails(h) ==
    /\ batch[h] # NoBatch
    /\ batch' = [batch EXCEPT ![h] = NoBatch]
    /\ answer' = NoAnswer
    /\ UNCHANGED db

TxnAbort(h) ==
    /\ batch' = [batch EXCEPT ![h] = NoBatch]
    /\ answer' = NoAnswer
    /\ UNCHANGED db

Put(h, k, v) ==
    /\ answer' = NoAnswer
    /\ IF batch[h] = NoBatch
       THEN db' = [db EXCEPT ![k] = v] /\ UNCHANGED batch
       ELSE /\ Len(batch[h]) < MaxBatch
            /\ batch' = [batch EXCEPT ![h] = Append(@, [key |-> k, val |-> v])]
            /\ UNCHANGED db

Write(h, k, v) == v \in Vals /\ Put(h, k, v)

Erase(h, k) == Put(h, k, Missing)

InBatch(h, k) == batch[h] # NoBatch /\ Mentions(batch[h], k) # {}

\* Mutant: a deleted key is looked up in LevelDB again, as Exists does.
ReadValueFallsThrough(h, k) ==
    IF InBatch(h, k) /\ ScanBatch(batch[h], k) # Missing
    THEN ScanBatch(batch[h], k) ELSE db[k]

ReadValue(h, k) == IF InBatch(h, k) THEN ScanBatch(batch[h], k) ELSE db[k]

\* Mutant: the stored value is returned in place of the test on it.
ExistsValueRaw(h, k) == ReadValue(h, k)

\* The batch is consulted, but a key it deletes is looked up in LevelDB again.
ExistsValue(h, k) ==
    \/ InBatch(h, k) /\ ScanBatch(batch[h], k) # Missing
    \/ db[k] # Missing

Read(h, k) ==
    /\ answer' = [kind |-> "read", h |-> h, key |-> k, got |-> ReadValue(h, k)]
    /\ UNCHANGED <<db, batch>>

Exists(h, k) ==
    /\ answer' = [kind |-> "exists", h |-> h, key |-> k, got |-> ExistsValue(h, k)]
    /\ UNCHANGED <<db, batch>>

\* The process dies: batches live in memory only.
Crash ==
    /\ batch' = [h \in Handles |-> NoBatch]
    /\ answer' = NoAnswer
    /\ UNCHANGED db

Next ==
    \/ \E h \in Handles :
          \/ TxnBegin(h) \/ TxnCommit(h) \/ TxnCommitFails(h) \/ TxnAbort(h)
          \/ \E k \in Keys :
                \/ Read(h, k) \/ Exists(h, k) \/ Erase(h, k)
                \/ \E v \in Vals : Write(h, k, v)
    \/ Crash

Spec == Init /\ [][Next]_vars
-----------------------------------------------------------------------------
\* What the database would hold if the handle's batch were committed now.
Committed(h) == IF batch[h] = NoBatch THEN db ELSE ApplyBatch(db, batch[h])

\* "once a database transaction begins reads are consistent with it"
\* (txdb-leveldb.cpp:181): Read returns what the operations of the handle's own
\* batch would leave under the key if they were applied now, in their order and
\* on what the other handles have put into LevelDB meanwhile.  Exists never misses
\* a key; it is wrong in one case only, a key the batch deletes and LevelDB has.
ReadSeesOwnWrites ==
    LET after == Committed(answer.h)[answer.key]
    IN  /\ answer.kind = "read" => answer.got = after
        /\ answer.kind = "exists" =>
              answer.got = (after # Missing \/ (InBatch(answer.h, answer.key)
                                                /\ db[answer.key] # Missing))
=============================================================================
