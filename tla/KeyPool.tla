------------------------------ MODULE KeyPool -------------------------------
(***************************************************************************)
(* The wallet's pool of unused keys (CWallet::setKeyPool and the "pool"    *)
(* records of wallet.dat, src/src/wallet.cpp) and CReserveKey, through     *)
(* which a caller borrows a key and later keeps or returns it.             *)
(*                                                                         *)
(* RPC commands, the sends of the user interface and the top-up thread     *)
(* hold cs_wallet from the first to the last use of the pool, so each is   *)
(* one step here.  A miner thread does not: CreateNewBlock takes a key     *)
(* under the lock, uses it and gives it back under the lock again, and     *)
(* anything may happen in between.                                         *)
(***************************************************************************)
EXTENDS Integers, FiniteSets, FiniteSetsExt

CONSTANTS
    Miners,   \* threads of BitcoinMiner
    Target,   \* -keypool
    Refills,  \* sizes keypoolrefill is called with
    MaxKey    \* bound on the number of keys the wallet generates

ASSUME KeyPoolAssumption ==
    /\ Target \in Nat
    /\ Refills \subseteq Nat
    /\ MaxKey \in Nat

VARIABLES
    setKeyPool,  \* indices of the pool, in memory
    pool,        \* the pool records on disk: the key of an index
    nextKey,     \* keys are numbered as GenerateNewKey makes them
    crypted,     \* IsCrypted
    locked,      \* IsLocked
    given,       \* keys handed out for good: addresses, change, the default key
    nIndex       \* CReserveKey::nIndex of a miner in CreateNewBlock, 0 for -1

vars == <<setKeyPool, pool, nextKey, crypted, locked, given, nIndex>>

\* vchDefaultKey: the key taken on the first run.
DefaultKey == 1

\* Keys, and the indices of the pool, which never run ahead of the keys.
Keys == 1 .. MaxKey

TypeOK ==
    /\ setKeyPool \subseteq Keys
    /\ DOMAIN pool \subseteq Keys
    /\ pool \in [DOMAIN pool -> Keys]
    /\ nextKey \in 1 .. MaxKey + 1
    /\ crypted \in BOOLEAN
    /\ locked \in BOOLEAN
    /\ given \subseteq Keys
    /\ nIndex \in [Miners -> Keys \cup {0}]

\* The end of the first start: GetKeyFromPool has filled the pool and the key
\* of its first index has become the default key.
Init ==
    /\ setKeyPool = 2 .. Target + 1
    /\ pool = [i \in 2 .. Target + 1 |-> i]
    /\ nextKey = Target + 2
    /\ nextKey <= MaxKey + 1
    /\ crypted = FALSE
    /\ locked = FALSE
    /\ given = {DefaultKey}
    /\ nIndex = [m \in Miners |-> 0]

-----------------------------------------------------------------------------
\* Write the records first .. last with new keys.
Written(records, first, last) ==
    [i \in DOMAIN records \cup first .. last |->
        IF i \in first .. last THEN nextKey + (i - first) ELSE records[i]]

Unchanged == [set |-> setKeyPool, disk |-> pool, next |-> nextKey]

\* TopUpKeyPool(nSize) of an unlocked wallet.
\* Mutant: the new index is the size of the pool plus one.
ToppedUpBySize(nTargetSize) ==
    LET short == nTargetSize + 1 - Cardinality(setKeyPool)
        nEnd  == Cardinality(setKeyPool) + 1
        last  == nEnd + short - 1
    IN  IF short <= 0
        THEN Unchanged
        ELSE [set  |-> setKeyPool \cup nEnd .. last,
              disk |-> Written(pool, nEnd, last),
              next |-> nextKey + short]

ToppedUp(nTargetSize) ==
    LET short == nTargetSize + 1 - Cardinality(setKeyPool)
        nEnd  == IF setKeyPool = {} THEN 1 ELSE Max(setKeyPool) + 1
        last  == nEnd + short - 1
    IN  IF short <= 0
        THEN Unchanged
        ELSE [set  |-> setKeyPool \cup nEnd .. last,
              disk |-> Written(pool, nEnd, last),
              next |-> nextKey + short]

\* What ReserveKeyFromKeyPool starts with, and the oldest index it then takes.
BeforeReserve == IF locked THEN Unchanged ELSE ToppedUp(Target)
Oldest(p) == Min(p.set)
Readable(p) == p.set # {} /\ Oldest(p) \in DOMAIN p.disk

\* The pool becomes p, within the bound on keys.
PoolBecomes(p) ==
    /\ p.next <= MaxKey + 1
    /\ setKeyPool' = p.set
    /\ pool' = p.disk
    /\ nextKey' = p.next

\* ErasePool of an index.
Erased(records, i) == [j \in DOMAIN records \ {i} |-> records[j]]

\* KeepKey, for the oldest index of p, which has just been taken from the set.
\* Mutant: the record stays on disk.
KeepRecord(p) == [p EXCEPT !.set = p.set \ {Oldest(p)}]

Keep(p) == [p EXCEPT !.set = p.set \ {Oldest(p)}, !.disk = Erased(p.disk, Oldest(p))]

-----------------------------------------------------------------------------
\* ThreadTopUpKeyPool and keypoolrefill; TopUpKeyPool takes the size 0 for -keypool.
TopUpKeyPool(nSize) ==
    /\ ~locked
    /\ PoolBecomes(ToppedUp(IF nSize > 0 THEN nSize ELSE Target))
    /\ UNCHANGED <<crypted, locked, given, nIndex>>

\* getnewaddress, getnewpubkey, getaccountaddress, the checkorder message, the
\* address book, and AddToWallet replacing a default key that has been used.
\* Reuse (fAllowReuse) is the default key again, when the pool is empty.
GetKeyFromPool ==
    LET p == BeforeReserve
    IN  /\ Readable(p)
        /\ PoolBecomes(Keep(p))
        /\ given' = given \cup {p.disk[Oldest(p)]}
        /\ UNCHANGED <<crypted, locked, nIndex>>

\* GetKeyFromPool and GetOldestKeyPoolTime when the record cannot be read: the
\* exception leaves the index out of the set.
ReserveThrows ==
    LET p == BeforeReserve
    IN  /\ p.set # {}
        /\ ~Readable(p)
        /\ PoolBecomes([p EXCEPT !.set = p.set \ {Oldest(p)}])
        /\ UNCHANGED <<crypted, locked, given, nIndex>>

\* GetOldestKeyPoolTime, a send that needs no change or is called off, and a
\* CReserveKey whose reservation throws (its destructor puts the index back):
\* only the top-up is left.
ReserveAndReturn ==
    /\ PoolBecomes(BeforeReserve)
    /\ UNCHANGED <<crypted, locked, given, nIndex>>

\* SendMoney, sendmany and the send of the user interface: CreateTransaction
\* reserves the key of the change and CommitTransaction keeps it.
CommitTransaction ==
    /\ ~locked
    /\ GetKeyFromPool

\* Mutant: the record is erased when the key is reserved.
ReserveErases(m) ==
    LET p == BeforeReserve
    IN  /\ nIndex[m] = 0
        /\ Readable(p)
        /\ PoolBecomes(Keep(p))
        /\ nIndex' = [nIndex EXCEPT ![m] = Oldest(p)]
        /\ UNCHANGED <<crypted, locked, given>>

\* CreateNewBlock: GetReservedKey.  An empty pool of a locked wallet leaves nIndex
\* at -1, and the block pays to the default key.
GetReservedKey(m) ==
    LET p == BeforeReserve
    IN  /\ nIndex[m] = 0
        /\ \/ /\ Readable(p)
              /\ PoolBecomes([p EXCEPT !.set = p.set \ {Oldest(p)}])
              /\ nIndex' = [nIndex EXCEPT ![m] = Oldest(p)]
           \/ /\ p.set = {}
              /\ PoolBecomes(p)
              /\ UNCHANGED nIndex
        /\ UNCHANGED <<crypted, locked, given>>

\* The destructor of CreateNewBlock's own CReserveKey.  The CReserveKey that
\* CheckWork keeps is BitcoinMiner's, which never reserves anything.
\* Mutant: an index of -1 is returned as well.
ReturnAnyKey(m) ==
    /\ setKeyPool' = setKeyPool \cup {nIndex[m]}
    /\ nIndex' = [nIndex EXCEPT ![m] = 0]
    /\ UNCHANGED <<pool, nextKey, crypted, locked, given>>

ReturnKey(m) ==
    /\ nIndex[m] # 0
    /\ setKeyPool' = setKeyPool \cup {nIndex[m]}
    /\ nIndex' = [nIndex EXCEPT ![m] = 0]
    /\ UNCHANGED <<pool, nextKey, crypted, locked, given>>

\* EncryptWallet: NewKeyPool, between Unlock and Lock, erases the records of the
\* set and writes the indices 1 to -keypool.
EncryptWallet ==
    LET left == [i \in DOMAIN pool \ setKeyPool |-> pool[i]]
    IN  /\ ~crypted
        /\ PoolBecomes([set  |-> 1 .. Target,
                        disk |-> Written(left, 1, Target),
                        next |-> nextKey + Target])
        /\ crypted' = TRUE
        /\ locked' = TRUE
        /\ UNCHANGED <<given, nIndex>>

\* walletlock, ThreadCleanWalletPassphrase.
Lock ==
    /\ crypted /\ ~locked
    /\ locked' = TRUE
    /\ UNCHANGED <<setKeyPool, pool, nextKey, crypted, given, nIndex>>

\* walletpassphrase.
Unlock ==
    /\ locked
    /\ locked' = FALSE
    /\ UNCHANGED <<setKeyPool, pool, nextKey, crypted, given, nIndex>>

\* A crash or a shutdown, and LoadWallet: every record is in the pool again.
Restart ==
    /\ setKeyPool' = DOMAIN pool
    /\ locked' = crypted
    /\ nIndex' = [m \in Miners |-> 0]
    /\ UNCHANGED <<pool, nextKey, crypted, given>>

Next ==
    \/ \E n \in Refills : TopUpKeyPool(n)
    \/ GetKeyFromPool \/ ReserveThrows \/ ReserveAndReturn \/ CommitTransaction
    \/ \E m \in Miners : GetReservedKey(m) \/ ReturnKey(m)
    \/ EncryptWallet \/ Lock \/ Unlock
    \/ Restart

Spec == Init /\ [][Next]_vars

-----------------------------------------------------------------------------
Recorded == {pool[i] : i \in DOMAIN pool}

\* "Take key pair from key pool so it won't be used again" (wallet.cpp:1760): a
\* key given out as an address or as change is never offered by the pool again,
\* also when a miner holds an index meanwhile, the pool is refilled from index
\* one or the wallet is loaded from disk.
GivenOnce ==
    /\ given \cap Recorded = {}
    /\ \A i, j \in DOMAIN pool : pool[i] = pool[j] => i = j

\* Unless the wallet is encrypted or -keypool is 0, every index in memory has its
\* record, whichever indices the miners hold, so that "read failed"
\* (ReserveKeyFromKeyPool) is never thrown.
PoolBacked ==
    ~crypted /\ Target > 0 =>
        /\ setKeyPool \subseteq DOMAIN pool
        /\ \A m \in Miners : nIndex[m] # 0 => nIndex[m] \in DOMAIN pool

\* Under the same conditions no key is lost: one that has been generated has been
\* given out, or has a record and returns to the pool at the latest when the
\* wallet is loaded again.
NoKeyLost == ~crypted /\ Target > 0 => 1 .. nextKey - 1 \subseteq given \cup Recorded
=============================================================================
