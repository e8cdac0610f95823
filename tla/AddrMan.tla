------------------------------ MODULE AddrMan -------------------------------
(***************************************************************************)
(* The address manager (src/src/addrman.h, src/src/addrman.cpp): the       *)
(* addresses of other nodes in "new" and "tried" buckets, the redundant    *)
(* indexes over them, and peers.dat, into which they are dumped.           *)
(*                                                                         *)
(* An nId and the address it stands for are one (mapAddr).  Every public   *)
(* operation holds cs, so each is one step, and the threads that learn of  *)
(* addresses, connect to them and answer getaddr interleave freely.  When  *)
(* an address was seen, tried or failed is left open: it decides which     *)
(* entry ShrinkNew removes, which SelectTried evicts and which Select_     *)
(* prefers, and is all that Attempt_, Connected_ and Good_ of a tried      *)
(* address change.  nKey, which the buckets depend on, is fixed: it is     *)
(* kept in peers.dat.                                                      *)
(***************************************************************************)
EXTENDS Integers, Sequences, FiniteSets, FiniteSetsExt

CONSTANTS
    Addrs, Sources,
    NewBuckets, TriedBuckets,
    NewBucket,      \* NewBucket[a][s]: GetNewBucket of a heard from s
    TriedBucket,    \* TriedBucket[a]: GetTriedBucket of a
    NewSize,        \* ADDRMAN_NEW_BUCKET_SIZE
    TriedSize,      \* ADDRMAN_TRIED_BUCKET_SIZE
    PerAddress,     \* ADDRMAN_NEW_BUCKETS_PER_ADDRESS
    Inspect,        \* ADDRMAN_TRIED_ENTRIES_INSPECT_ON_EVICT
    MaxPercent,     \* ADDRMAN_GETADDR_MAX_PCT
    MaxNodes        \* ADDRMAN_GETADDR_MAX

ASSUME AddrManAssumption ==
    /\ NewBucket \in [Addrs -> [Sources -> NewBuckets]]
    /\ TriedBucket \in [Addrs -> TriedBuckets]
    /\ IsFiniteSet(NewBuckets)
    /\ {NewSize, TriedSize, PerAddress, Inspect, MaxNodes} \subseteq Nat \ {0}
    /\ MaxPercent \in 0..100

VARIABLES
    mapInfo,   \* what is known of an address: the fields of CAddrInfo
    vRandom,   \* all addresses, in random order
    vvNew,     \* the "new" buckets
    vvTried,   \* the "tried" buckets
    nNew, nTried

vars == <<mapInfo, vRandom, vvNew, vvTried, nNew, nTried>>

ToSet(s) == {s[i] : i \in DOMAIN s}

Known == DOMAIN mapInfo
Info == [source : Sources, nRefCount : Int, fInTried : BOOLEAN, nRandomPos : Nat]

TypeOK ==
    /\ Known \subseteq Addrs
    /\ mapInfo \in [Known -> Info]
    /\ vRandom \in Seq(Known)
    /\ vvNew \in [NewBuckets -> SUBSET Known]
    /\ vvTried \in [TriedBuckets -> Seq(Known)]
    /\ nNew \in Int /\ nTried \in Int

Empty ==
    [info |-> [a \in {} |-> [source |-> "", nRefCount |-> 0, fInTried |-> FALSE, nRandomPos |-> 0]],
     random |-> <<>>,
     new |-> [b \in NewBuckets |-> {}],
     tried |-> [b \in TriedBuckets |-> <<>>],
     nNew |-> 0, nTried |-> 0]

-----------------------------------------------------------------------------
\* The operations work on m, the manager's contents.
Manager == [info |-> mapInfo, random |-> vRandom, new |-> vvNew, tried |-> vvTried,
            nNew |-> nNew, nTried |-> nTried]
Becomes(m) ==
    /\ mapInfo' = m.info
    /\ vRandom' = m.random
    /\ vvNew' = m.new
    /\ vvTried' = m.tried
    /\ nNew' = m.nNew
    /\ nTried' = m.nTried

SwapRandom(m, i, j) ==
    IF i = j THEN m
    ELSE [m EXCEPT !.random = [m.random EXCEPT ![i] = m.random[j], ![j] = m.random[i]],
                   !.info[m.random[i]].nRandomPos = j,
                   !.info[m.random[j]].nRandomPos = i]

Create(m, a, s) ==
    [m EXCEPT !.info = [x \in DOMAIN m.info \cup {a} |->
                           IF x = a THEN [source |-> s, nRefCount |-> 0, fInTried |-> FALSE,
                                          nRandomPos |-> Len(m.random) + 1]
                                    ELSE m.info[x]],
              !.random = Append(m.random, a),
              !.nNew = @ + 1]

\* The entry a is swapped to the end of vRandom and erased.
Erase(m, a) ==
    LET n == SwapRandom(m, m.info[a].nRandomPos, Len(m.random))
    IN  [n EXCEPT !.info = [x \in DOMAIN m.info \ {a} |-> n.info[x]],
                  !.random = SubSeq(n.random, 1, Len(n.random) - 1),
                  !.nNew = @ - 1]

\* ShrinkNew: a leaves the bucket b, and the manager with its last reference.
\* Mutant: an entry goes although another bucket refers to it.
ShrinkErases(m, b, a) == Erase([m EXCEPT !.new[b] = @ \ {a}], a)

ShrinkNew(m, b, a) ==
    LET n == [m EXCEPT !.info[a].nRefCount = @ - 1, !.new[b] = @ \ {a}]
    IN  IF n.info[a].nRefCount = 0 THEN Erase(n, a) ELSE n

\* The end of Add_: a gets a reference from the bucket b, after a is counted there
\* and, if the bucket is full, after some entry has left it.
\* Mutant: ShrinkNew is called once the bucket is over its size.
InsertedLate(m, b, a) ==
    LET n == [m EXCEPT !.info[a].nRefCount = @ + 1]
    IN  IF a \in m.new[b] THEN {m}
        ELSE {[k EXCEPT !.new[b] = @ \cup {a}] :
                 k \in IF Cardinality(m.new[b]) > NewSize
                       THEN {ShrinkNew(n, b, x) : x \in m.new[b]} ELSE {n}}

Inserted(m, b, a) ==
    LET n == [m EXCEPT !.info[a].nRefCount = @ + 1]
    IN  IF a \in m.new[b] THEN {m}
        ELSE {[k EXCEPT !.new[b] = @ \cup {a}] :
                 k \in IF Cardinality(m.new[b]) = NewSize
                       THEN {ShrinkNew(n, b, x) : x \in m.new[b]} ELSE {n}}

\* Add_ of an address not known yet.
AddNew(a, s) ==
    /\ a \notin Known
    /\ \E m \in Inserted(Create(Manager, a, s), NewBucket[a][s], a) : Becomes(m)

\* Mutant: it is not looked at whether the address is tried.
AddAgainTried(a, s) ==
    /\ a \in Known
    /\ mapInfo[a].nRefCount # PerAddress
    /\ \E m \in Inserted(Manager, NewBucket[a][s], a) : Becomes(m)

\* Add_ of a known address, newer than what is known of it and let through by the
\* stochastic test.
AddAgain(a, s) ==
    /\ a \in Known
    /\ ~mapInfo[a].fInTried
    /\ mapInfo[a].nRefCount # PerAddress
    /\ \E m \in Inserted(Manager, NewBucket[a][s], a) : Becomes(m)

-----------------------------------------------------------------------------
\* The random positions of a loop that swaps the first n of len elements, each
\* with itself or a later one.
Picks(n, len) == {p \in [1..n -> 1..len] : \A i \in 1..n : p[i] >= i}

\* SelectTried: what is inspected is swapped to the front of the bucket; nOldestPos
\* is the position from which one of the inspected entries came.
Shuffled(tried, picks, n) ==
    LET vTried[i \in 0..n] ==
            IF i = 0 THEN tried
            ELSE [vTried[i - 1] EXCEPT ![picks[i]] = vTried[i - 1][i],
                                       ![i] = vTried[i - 1][picks[i]]]
    IN  vTried[n]

SelectTried(tried, picks, n) ==
    {[tried |-> Shuffled(tried, picks, n), nOldestPos |-> picks[i]] : i \in 1..n}

\* MakeTried, first part: a leaves all new buckets.
LeftNew(m, a) ==
    [m EXCEPT !.new = [b \in NewBuckets |-> m.new[b] \ {a}],
              !.info[a].nRefCount = @ - Cardinality({b \in NewBuckets : a \in m.new[b]}),
              !.info[a].fInTried = TRUE,
              !.nNew = @ - 1]

\* There is place in the tried bucket.
Placed(m, a) ==
    [m EXCEPT !.tried[TriedBucket[a]] = Append(@, a), !.nTried = @ + 1]

\* An entry is evicted to its new bucket or, if that is full, to the one a came from.
\* Mutant: it is deleted.
EvictedErased(m, a, origin, r) ==
    Erase([m EXCEPT !.nNew = @ + 1,
                    !.tried[TriedBucket[a]] = [r.tried EXCEPT ![r.nOldestPos] = a]],
          r.tried[r.nOldestPos])

Evicted(m, a, origin, r) ==
    LET old  == r.tried[r.nOldestPos]
        home == NewBucket[old][m.info[old].source]
        to   == IF Cardinality(m.new[home]) < NewSize THEN home ELSE origin
    IN  [m EXCEPT !.info[old].fInTried = FALSE,
                  !.info[old].nRefCount = 1,
                  !.new[to] = @ \cup {old},
                  !.nNew = @ + 1,
                  !.tried[TriedBucket[a]] = [r.tried EXCEPT ![r.nOldestPos] = a]]

\* Good_ of an address in new buckets, origin the one of them that is found first.
MakeTried(a, origin) ==
    /\ a \in Known
    /\ ~mapInfo[a].fInTried
    /\ a \in vvNew[origin]
    /\ LET m     == LeftNew(Manager, a)
           tried == vvTried[TriedBucket[a]]
           n     == Min({Inspect, Len(tried)})
       IN  IF Len(tried) < TriedSize
           THEN Becomes(Placed(m, a))
           ELSE \E p \in Picks(n, Len(tried)) :
                \E r \in SelectTried(tried, p, n) : Becomes(Evicted(m, a, origin, r))

\* GetAddr_ shuffles the part of vRandom that it returns.
ShuffledRandom(m, picks, nNodes) ==
    LET shuffled[n \in 0..nNodes] ==
            IF n = 0 THEN m ELSE SwapRandom(shuffled[n - 1], n, picks[n])
    IN  shuffled[nNodes]

GetAddr ==
    LET nNodes == Min({(MaxPercent * Len(vRandom)) \div 100, MaxNodes})
    IN  /\ nNodes > 0
        /\ \E p \in Picks(nNodes, Len(vRandom)) : Becomes(ShuffledRandom(Manager, p, nNodes))

-----------------------------------------------------------------------------
\* peers.dat: nNew entries with references, nTried entries in tried buckets, and the
\* new buckets as numbers of entries of the first kind.  The entries are in the
\* order of their nIds, which is any order of them.
Orders(S) == {s \in [1..Cardinality(S) -> S] : \A i, j \in DOMAIN s : s[i] = s[j] => i = j}
Referred == {a \in Known : mapInfo[a].nRefCount # 0}
Tried == {a \in Known : mapInfo[a].fInTried}

UpTo(s, n) == SubSeq(s, 1, Min({Len(s), n}))
Dumped(referred, tried) ==
    LET new == UpTo(referred, nNew)
    IN  [nNew    |-> nNew,
         nTried  |-> nTried,
         new     |-> new,
         tried   |-> UpTo(tried, nTried),
         source  |-> [a \in Known |-> mapInfo[a].source],
         buckets |-> [b \in NewBuckets |-> {i \in DOMAIN new : new[i] \in vvNew[b]}]]

\* The tried entries of the file f are put into their buckets one by one; what does
\* not fit is lost.
LoadedTried(f) ==
    LET loaded[n \in 0..Len(f.tried)] ==
            IF n = 0
            THEN [random |-> f.new, tried |-> [b \in TriedBuckets |-> <<>>], nLost |-> 0]
            ELSE LET r == loaded[n - 1]
                     a == f.tried[n]
                     b == TriedBucket[a]
                 IN  IF Len(r.tried[b]) < TriedSize
                     THEN [r EXCEPT !.random = Append(@, a), !.tried[b] = Append(@, a)]
                     ELSE [r EXCEPT !.nLost = @ + 1]
    IN  loaded[Len(f.tried)]

\* nRefCount is counted as the new buckets are read.  No entry is in so many that one
\* would be passed over (RefCountsAgree).
\* Mutant: it is set when the entry is read.
UncountedRefs(f, a) == IF a \in ToSet(f.new) THEN 1 ELSE 0

CountedRefs(f, a) == Cardinality({b \in NewBuckets : \E i \in f.buckets[b] : f.new[i] = a})

\* The manager is rebuilt from the file, with vRandom in its order.
Loaded(f) ==
    LET r == LoadedTried(f)
    IN  [info |-> [a \in ToSet(r.random) |->
                      [source     |-> f.source[a],
                       nRefCount  |-> CountedRefs(f, a),
                       fInTried   |-> a \in ToSet(r.tried[TriedBucket[a]]),
                       nRandomPos |-> CHOOSE i \in DOMAIN r.random : r.random[i] = a]],
         random |-> r.random,
         new    |-> [b \in NewBuckets |-> {f.new[i] : i \in f.buckets[b]}],
         tried  |-> r.tried,
         nNew   |-> f.nNew,
         nTried |-> f.nTried - r.nLost]

\* StopNode dumps, the next start loads.  After a crash the start loads what
\* ThreadDumpAddress wrote last, a state the manager was in before (DumpKeepsAll);
\* without peers.dat it begins empty.
Restart ==
    \/ \E referred \in Orders(Referred), tried \in Orders(Tried) :
          Becomes(Loaded(Dumped(referred, tried)))
    \/ Becomes(Empty)

-----------------------------------------------------------------------------
Init ==
    /\ mapInfo = Empty.info
    /\ vRandom = <<>>
    /\ vvNew = Empty.new
    /\ vvTried = Empty.tried
    /\ nNew = 0
    /\ nTried = 0

Next ==
    \/ \E a \in Addrs, s \in Sources : AddNew(a, s) \/ AddAgain(a, s)
    \/ \E a \in Addrs, b \in NewBuckets : MakeTried(a, b)
    \/ GetAddr
    \/ Restart

Spec == Init /\ [][Next]_vars

-----------------------------------------------------------------------------
\* Check_ -3, -4, -12, -15: a new entry is in exactly as many new buckets as it
\* counts references, at least one and at most PerAddress, so the asserts of
\* MakeTried hold and an entry is erased exactly when its last bucket drops it.
RefCountsAgree ==
    \A a \in Known :
        LET refs == Cardinality({b \in NewBuckets : a \in vvNew[b]})
        IN  /\ mapInfo[a].nRefCount = refs
            /\ ~mapInfo[a].fInTried => refs \in 1..PerAddress

\* Check_ -2, -11, -13: an address is tried or new, never both, and a tried one is
\* once in its own bucket and in no other.
TriedXorNew ==
    \A a \in Known :
        /\ mapInfo[a].fInTried => \A b \in NewBuckets : a \notin vvNew[b]
        /\ \A b \in TriedBuckets :
              Cardinality({i \in DOMAIN vvTried[b] : vvTried[b][i] = a}) =
                  (IF mapInfo[a].fInTried /\ b = TriedBucket[a] THEN 1 ELSE 0)

\* Check_ -7, -9, -10: the counters are right; Select_, which loops until it meets a
\* bucket that is not empty, relies on them to know that there is one.
CountsAgree ==
    /\ nNew = Cardinality({a \in Known : ~mapInfo[a].fInTried})
    /\ nTried = Cardinality({a \in Known : mapInfo[a].fInTried})
    /\ Len(vRandom) = nNew + nTried

\* Check_ -14: every entry is where it says it is in vRandom, whatever was
\* shuffled, erased or loaded.
RandomAgrees ==
    /\ ToSet(vRandom) = Known
    /\ \A a \in Known : mapInfo[a].nRandomPos \in DOMAIN vRandom /\ vRandom[mapInfo[a].nRandomPos] = a

\* Check_ returns 0: the redundant tables, references, positions and counters agree
\* after every operation, as the threads that learn of addresses, connect to them
\* and answer getaddr interleave.
Check ==
    /\ RefCountsAgree
    /\ TriedXorNew
    /\ CountsAgree
    /\ RandomAgrees

\* "Only keep a limited number of addresses around" (addrman.h:99), and "there is
\* certainly place there" (MakeTried): no bucket outgrows its size.
BucketsBounded ==
    /\ \A b \in NewBuckets : Cardinality(vvNew[b]) <= NewSize
    /\ \A b \in TriedBuckets : Len(vvTried[b]) <= TriedSize

\* Dumping and loading again loses no address, no reference and no source.
DumpKeepsAll ==
    \A referred \in Orders(Referred), tried \in Orders(Tried) :
    LET m == Loaded(Dumped(referred, tried))
    IN  /\ m.new = vvNew
        /\ \A b \in TriedBuckets : ToSet(m.tried[b]) = ToSet(vvTried[b])
        /\ DOMAIN m.info = Known
        /\ \A a \in Known : [m.info[a] EXCEPT !.nRandomPos = mapInfo[a].nRandomPos] = mapInfo[a]

\* "They are never deleted while in the "tried" table, only possibly evicted back to
\* the "new" table" (addrman.h:215): short of a start without peers.dat, a tried
\* address stays known.
TriedNotDeleted ==
    [][DOMAIN mapInfo' # {} =>
          \A a \in Known : mapInfo[a].fInTried => a \in DOMAIN mapInfo']_vars
=============================================================================
