--------------------------- MODULE AddrManProofs ----------------------------
(***************************************************************************)
(* Proofs about AddrMan: Check_ returns 0 after every operation, no bucket *)
(* outgrows its size, peers.dat loses nothing, and no tried address is     *)
(* deleted, for any addresses, sources, buckets and sizes.                 *)
(***************************************************************************)
EXTENDS AddrMan, FiniteSetTheorems, WellFoundedInduction, TLAPS

IsManager(m) ==
    \E info, random, new, tried, n, t :
        m = [info |-> info, random |-> random, new |-> new, tried |-> tried, nNew |-> n, nTried |-> t]

\* The new buckets that refer to a; the entries that are new.
Refs(new, a) == {b \in NewBuckets : a \in new[b]}
NewIn(info) == {a \in DOMAIN info : ~info[a].fInTried}
TriedIn(info) == {a \in DOMAIN info : info[a].fInTried}

\* Single changes of the tables: one more reference counted, one entered, one removed.
CountUp(m, a) == [m EXCEPT !.info[a].nRefCount = @ + 1]
Enter(m, b, a) == [m EXCEPT !.new[b] = @ \cup {a}]
With(new, b, a) == [new EXCEPT ![b] = @ \cup {a}]
Without(new, b, a) == [new EXCEPT ![b] = @ \ {a}]
Put(s, i, x) == [s EXCEPT ![i] = x]

-----------------------------------------------------------------------------
(* The invariant, table by table *)

InfoInv(info) == DOMAIN info \subseteq Addrs /\ info \in [DOMAIN info -> Info]

\* vRandom lists every entry once, where the entry says it is.
RandomInv(info, random) ==
    /\ random \in Seq(DOMAIN info)
    /\ \A a \in DOMAIN info : info[a].nRandomPos \in DOMAIN random /\ random[info[a].nRandomPos] = a
    /\ \A i \in DOMAIN random : info[random[i]].nRandomPos = i

\* The new buckets hold new entries, each as many times as it counts.
NewInv(info, new) ==
    /\ new \in [NewBuckets -> SUBSET NewIn(info)]
    /\ \A a \in DOMAIN info : info[a].nRefCount = Cardinality(Refs(new, a))

RefsInv(info) == \A a \in NewIn(info) : info[a].nRefCount \in 1..PerAddress

\* The tried buckets hold the tried entries, each once and in its own bucket.
TriedInv(info, tried) ==
    /\ tried \in [TriedBuckets -> Seq(TriedIn(info))]
    /\ \A b \in TriedBuckets : \A i \in DOMAIN tried[b] : TriedBucket[tried[b][i]] = b
    /\ \A b \in TriedBuckets : \A i, j \in DOMAIN tried[b] : tried[b][i] = tried[b][j] => i = j
    /\ \A a \in TriedIn(info) : a \in ToSet(tried[TriedBucket[a]])

CountInv(info, n, t) ==
    /\ n = Cardinality(NewIn(info))
    /\ t = Cardinality(TriedIn(info))

SizeInv(new, tried) ==
    /\ \A b \in NewBuckets : Cardinality(new[b]) <= NewSize
    /\ \A b \in TriedBuckets : Len(tried[b]) <= TriedSize

Good(m) ==
    /\ InfoInv(m.info)
    /\ RandomInv(m.info, m.random)
    /\ NewInv(m.info, m.new)
    /\ RefsInv(m.info)
    /\ TriedInv(m.info, m.tried)
    /\ CountInv(m.info, m.nNew, m.nTried)
    /\ SizeInv(m.new, m.tried)

\* The inductive invariant.
Inv == Good(Manager)

\* Two states of mapInfo that agree on an entry but for its position, and on all.
SameEntry(f, g, a) ==
    f[a].source = g[a].source /\ f[a].nRefCount = g[a].nRefCount /\ f[a].fInTried = g[a].fInTried
SameEntries(f, g) == DOMAIN f = DOMAIN g /\ \A a \in DOMAIN f : SameEntry(f, g, a)

LEMMA BecomesGood ==
    ASSUME NEW k, Good(k), Becomes(k)
    PROVE  Inv' /\ mapInfo' = k.info
<1>1. /\ mapInfo' = k.info /\ vRandom' = k.random /\ vvNew' = k.new /\ vvTried' = k.tried
      /\ nNew' = k.nNew /\ nTried' = k.nTried
  BY DEF Becomes
<1>2. /\ Manager'.info = k.info /\ Manager'.random = k.random /\ Manager'.new = k.new
      /\ Manager'.tried = k.tried /\ Manager'.nNew = k.nNew /\ Manager'.nTried = k.nTried
  BY <1>1 DEF Manager
<1> QED BY <1>1, <1>2 DEF Inv, Good

LEMMA SeqFacts ==
    ASSUME NEW S, NEW r \in Seq(S)
    PROVE  DOMAIN r = 1..Len(r) /\ Len(r) \in Nat /\ \A k \in DOMAIN r : r[k] \in S
OBVIOUS

-----------------------------------------------------------------------------
(* SwapRandom and what is built on it *)

LEMMA SwapFields ==
    ASSUME NEW m, IsManager(m), NEW i, NEW j, i # j
    PROVE  LET n == SwapRandom(m, i, j)
           IN  /\ IsManager(n)
               /\ n.random = [m.random EXCEPT ![i] = m.random[j], ![j] = m.random[i]]
               /\ n.info = [m.info EXCEPT ![m.random[i]].nRandomPos = j,
                                          ![m.random[j]].nRandomPos = i]
               /\ n.new = m.new /\ n.tried = m.tried /\ n.nNew = m.nNew /\ n.nTried = m.nTried
<1>1. PICK info, random, new, tried, n, t :
        m = [info |-> info, random |-> random, new |-> new, tried |-> tried, nNew |-> n, nTried |-> t]
  BY DEF IsManager
<1> DEFINE random2 == [random EXCEPT ![i] = random[j], ![j] = random[i]]
           info2 == [info EXCEPT ![random[i]].nRandomPos = j, ![random[j]].nRandomPos = i]
<1>2. SwapRandom(m, i, j) = [info |-> info2, random |-> random2, new |-> new, tried |-> tried, nNew |-> n, nTried |-> t]
  BY <1>1 DEF SwapRandom
<1> HIDE DEF random2, info2
<1>3. IsManager(SwapRandom(m, i, j))
  BY <1>2 DEF IsManager
<1> DEFINE k == SwapRandom(m, i, j)
<1>4. m.random = random /\ m.info = info /\ m.new = new /\ m.tried = tried /\ m.nNew = n /\ m.nTried = t
  BY <1>1
<1>5. /\ k.random = random2 /\ k.info = info2 /\ k.new = new /\ k.tried = tried
      /\ k.nNew = n /\ k.nTried = t
  BY <1>2
<1> HIDE DEF k
<1>6. /\ k.random = [m.random EXCEPT ![i] = m.random[j], ![j] = m.random[i]]
      /\ k.info = [m.info EXCEPT ![m.random[i]].nRandomPos = j, ![m.random[j]].nRandomPos = i]
  BY <1>4, <1>5 DEF random2, info2
<1> QED BY <1>3, <1>4, <1>5, <1>6 DEF k

LEMMA SwapKeeps ==
    ASSUME NEW m, IsManager(m), InfoInv(m.info), RandomInv(m.info, m.random),
           NEW i \in DOMAIN m.random, NEW j \in DOMAIN m.random,
           NEW n, n = SwapRandom(m, i, j)
    PROVE  /\ IsManager(n)
           /\ InfoInv(n.info) /\ RandomInv(n.info, n.random) /\ SameEntries(m.info, n.info)
           /\ Len(n.random) = Len(m.random)
           /\ n.random[j] = m.random[i]
           /\ n.new = m.new /\ n.tried = m.tried /\ n.nNew = m.nNew /\ n.nTried = m.nTried
<1>1. CASE i = j
  BY <1>1 DEF SwapRandom, SameEntries, SameEntry
<1>2. CASE i # j
  <2>1. /\ IsManager(n)
        /\ n.random = [m.random EXCEPT ![i] = m.random[j], ![j] = m.random[i]]
        /\ n.info = [m.info EXCEPT ![m.random[i]].nRandomPos = j, ![m.random[j]].nRandomPos = i]
        /\ n.new = m.new /\ n.tried = m.tried /\ n.nNew = m.nNew /\ n.nTried = m.nTried
    BY <1>2, SwapFields
  <2>2. PICK f, r, g, s, a, b : /\ f = m.info /\ r = m.random /\ g = n.info /\ s = n.random
                                /\ a = r[i] /\ b = r[j]
    OBVIOUS
  <2>3. InfoInv(f) /\ RandomInv(f, r) /\ i \in DOMAIN r /\ j \in DOMAIN r
    BY <2>2
  <2>4. s = [r EXCEPT ![i] = b, ![j] = a] /\ g = [f EXCEPT ![a].nRandomPos = j, ![b].nRandomPos = i]
    BY <2>1, <2>2
  <2>5. r \in Seq(DOMAIN f) /\ DOMAIN r = 1..Len(r) /\ Len(r) \in Nat /\ \A k \in DOMAIN r : r[k] \in DOMAIN f
    BY <2>3, SeqFacts DEF RandomInv
  <2>6. /\ f[a].nRandomPos = i /\ f[b].nRandomPos = j
        /\ \A x \in DOMAIN f : f[x].nRandomPos \in DOMAIN r /\ r[f[x].nRandomPos] = x
        /\ \A k \in DOMAIN r : f[r[k]].nRandomPos = k
    BY <2>2, <2>3 DEF RandomInv
  <2>7. a \in DOMAIN f /\ b \in DOMAIN f /\ a # b /\ i \in Nat /\ j \in Nat
    BY <1>2, <2>2, <2>3, <2>5, <2>6
  <2>8. f \in [DOMAIN f -> Info] /\ DOMAIN f \subseteq Addrs /\ DOMAIN g = DOMAIN f
    BY <2>3, <2>4 DEF InfoInv
  <2>9. ASSUME NEW x \in DOMAIN f
        PROVE  /\ g[x] \in Info /\ f[x].source = g[x].source
               /\ f[x].nRefCount = g[x].nRefCount /\ f[x].fInTried = g[x].fInTried
               /\ g[x].nRandomPos = IF x = b THEN i ELSE IF x = a THEN j ELSE f[x].nRandomPos
    <3>1. f[x] \in Info
      BY <2>8
    <3>2. g[x] = IF x = b THEN [f[x] EXCEPT !.nRandomPos = i]
                 ELSE IF x = a THEN [f[x] EXCEPT !.nRandomPos = j] ELSE f[x]
      BY <2>4, <2>7, <2>8
    <3> QED BY ONLY <2>7, <3>1, <3>2 DEF Info
  <2>10. SameEntries(f, g) /\ InfoInv(g)
    <3>1. g \in [DOMAIN g -> Info]
      BY <2>4, <2>8, <2>9
    <3> QED BY ONLY <2>8, <2>9, <3>1 DEF SameEntries, SameEntry, InfoInv
  <2>11. s \in Seq(DOMAIN g) /\ Len(s) = Len(r) /\ DOMAIN s = DOMAIN r
    BY ONLY <2>3, <2>4, <2>5, <2>7, <2>8
  <2>12. \A k \in DOMAIN r : s[k] = IF k = j THEN a ELSE IF k = i THEN b ELSE r[k]
    BY ONLY <2>3, <2>4, <2>5
  <2>13. ASSUME NEW x \in DOMAIN f PROVE g[x].nRandomPos \in DOMAIN r /\ s[g[x].nRandomPos] = x
    <3>1. g[x].nRandomPos = IF x = b THEN i ELSE IF x = a THEN j ELSE f[x].nRandomPos
      BY <2>9
    <3>2. f[x].nRandomPos \in DOMAIN r /\ r[f[x].nRandomPos] = x
      BY <2>6
    <3> QED BY ONLY <1>2, <2>2, <2>3, <2>7, <2>12, <3>1, <3>2
  <2>14. ASSUME NEW k \in DOMAIN r PROVE g[s[k]].nRandomPos = k
    <3>1. r[k] \in DOMAIN f /\ f[r[k]].nRandomPos = k
      BY <2>5, <2>6
    <3>2. s[k] = IF k = j THEN a ELSE IF k = i THEN b ELSE r[k]
      BY <2>12
    <3>3. \A x \in DOMAIN f : g[x].nRandomPos = IF x = b THEN i ELSE IF x = a THEN j ELSE f[x].nRandomPos
      BY <2>9
    <3> QED BY ONLY <1>2, <2>6, <2>7, <3>1, <3>2, <3>3
  <2>15. RandomInv(g, s)
    BY ONLY <2>8, <2>11, <2>13, <2>14 DEF RandomInv
  <2>16. s[j] = a
    BY <2>3, <2>12
  <2> QED BY <2>1, <2>2, <2>10, <2>11, <2>15, <2>16
<1> QED BY <1>1, <1>2

LEMMA EraseKeeps ==
    ASSUME NEW m, IsManager(m), InfoInv(m.info), RandomInv(m.info, m.random),
           NEW a \in DOMAIN m.info, NEW k, k = Erase(m, a)
    PROVE  /\ IsManager(k)
           /\ InfoInv(k.info) /\ RandomInv(k.info, k.random)
           /\ DOMAIN k.info = DOMAIN m.info \ {a}
           /\ \A x \in DOMAIN k.info : SameEntry(m.info, k.info, x)
           /\ k.new = m.new /\ k.tried = m.tried /\ k.nNew = m.nNew - 1 /\ k.nTried = m.nTried
<1>1. PICK n, i, j : i = m.info[a].nRandomPos /\ j = Len(m.random) /\ n = SwapRandom(m, i, j)
  OBVIOUS
<1>2. i \in DOMAIN m.random /\ m.random[i] = a /\ DOMAIN m.random = 1..Len(m.random) /\ Len(m.random) \in Nat
  BY <1>1, SeqFacts DEF RandomInv
<1>3. j \in DOMAIN m.random
  BY <1>1, <1>2
<1>4. /\ IsManager(n)
      /\ InfoInv(n.info) /\ RandomInv(n.info, n.random) /\ SameEntries(m.info, n.info)
      /\ Len(n.random) = Len(m.random)
      /\ n.random[j] = a
      /\ n.new = m.new /\ n.tried = m.tried /\ n.nNew = m.nNew /\ n.nTried = m.nTried
  BY <1>1, <1>2, <1>3, SwapKeeps
<1>5. /\ IsManager(k)
      /\ k.info = [x \in DOMAIN m.info \ {a} |-> n.info[x]]
      /\ k.random = SubSeq(n.random, 1, Len(n.random) - 1)
      /\ k.new = n.new /\ k.tried = n.tried /\ k.nNew = n.nNew - 1 /\ k.nTried = n.nTried
  <2>1. PICK info, random, new, tried, p, t :
          n = [info |-> info, random |-> random, new |-> new, tried |-> tried, nNew |-> p, nTried |-> t]
    BY <1>4 DEF IsManager
  <2>2. PICK info2, random2 : /\ info2 = [x \in DOMAIN m.info \ {a} |-> n.info[x]]
                              /\ random2 = SubSeq(n.random, 1, Len(n.random) - 1)
    OBVIOUS
  <2>3. k = [n EXCEPT !.info = info2, !.random = random2, !.nNew = @ - 1]
    BY <1>1, <2>2 DEF Erase
  <2>4. k = [info |-> info2, random |-> random2, new |-> new, tried |-> tried, nNew |-> p - 1, nTried |-> t]
    BY ONLY <2>1, <2>3
  <2>5. IsManager(k)
    BY ONLY <2>4 DEF IsManager
  <2>6. /\ k.info = info2 /\ k.random = random2 /\ k.new = n.new /\ k.tried = n.tried
        /\ k.nNew = n.nNew - 1 /\ k.nTried = n.nTried
    BY ONLY <2>1, <2>4
  <2> QED BY ONLY <2>2, <2>5, <2>6
<1>6. PICK f, r, g, s : f = n.info /\ r = n.random /\ g = k.info /\ s = k.random
  OBVIOUS
<1>7. DOMAIN f = DOMAIN m.info /\ \A x \in DOMAIN f : SameEntry(m.info, f, x)
  BY ONLY <1>4, <1>6 DEF SameEntries
<1>8. g = [x \in DOMAIN f \ {a} |-> f[x]] /\ DOMAIN g = DOMAIN f \ {a} /\ \A x \in DOMAIN g : g[x] = f[x]
  BY ONLY <1>5, <1>6, <1>7
<1>9. DOMAIN f \subseteq Addrs /\ f \in [DOMAIN f -> Info]
  BY ONLY <1>4, <1>6 DEF InfoInv
<1>10. InfoInv(g)
  BY ONLY <1>8, <1>9 DEF InfoInv
<1>11. /\ r \in Seq(DOMAIN f)
       /\ \A x \in DOMAIN f : f[x].nRandomPos \in DOMAIN r /\ r[f[x].nRandomPos] = x
       /\ \A q \in DOMAIN r : f[r[q]].nRandomPos = q
  BY ONLY <1>4, <1>6 DEF RandomInv
<1>12. DOMAIN r = 1..j /\ \A q \in DOMAIN r : r[q] \in DOMAIN f
  <2>1. Len(r) = j
    BY ONLY <1>1, <1>4, <1>6
  <2>2. r \in Seq(DOMAIN f)
    BY ONLY <1>11
  <2> QED BY ONLY <2>1, <2>2, SeqFacts
<1>13. j \in Nat /\ j \in 1..j /\ r[j] = a /\ Len(r) = j
  BY ONLY <1>1, <1>2, <1>3, <1>4, <1>6
<1>14. s = SubSeq(r, 1, j - 1)
  BY ONLY <1>5, <1>6, <1>13
<1>15. \A q \in 1..(j - 1) : r[q] # a /\ r[q] \in DOMAIN g
  BY ONLY <1>8, <1>11, <1>12, <1>13
<1>16. DOMAIN s = 1..(j - 1) /\ \A q \in 1..(j - 1) : s[q] = r[q]
  BY ONLY <1>11, <1>13, <1>14
<1>17. s \in Seq(DOMAIN g)
  <2>1. Len(s) = j - 1 /\ s \in Seq(DOMAIN f)
    BY ONLY <1>11, <1>13, <1>14
  <2> QED BY ONLY <1>13, <1>15, <1>16, <2>1
<1>18. \A x \in DOMAIN g : g[x].nRandomPos \in DOMAIN s /\ s[g[x].nRandomPos] = x
  BY ONLY <1>8, <1>11, <1>12, <1>13, <1>16
<1>19. \A q \in DOMAIN s : g[s[q]].nRandomPos = q
  BY ONLY <1>8, <1>11, <1>12, <1>13, <1>15, <1>16
<1>20. RandomInv(g, s)
  BY ONLY <1>17, <1>18, <1>19 DEF RandomInv
<1>21. \A x \in DOMAIN g : SameEntry(m.info, g, x)
  BY ONLY <1>7, <1>8 DEF SameEntry
<1> QED BY ONLY <1>4, <1>5, <1>6, <1>7, <1>8, <1>10, <1>20, <1>21

LEMMA SamePositions ==
    ASSUME NEW f, NEW g, NEW r, RandomInv(f, r), DOMAIN g = DOMAIN f,
           \A x \in DOMAIN f : g[x].nRandomPos = f[x].nRandomPos
    PROVE  RandomInv(g, r)
<1>1. r \in Seq(DOMAIN f) /\ \A k \in DOMAIN r : r[k] \in DOMAIN f
  BY SeqFacts DEF RandomInv
<1> QED BY <1>1 DEF RandomInv

\* An entry loses the reference of one bucket, and is erased with its last one.
Shrunk(m, k, b, x) ==
    /\ IsManager(k)
    /\ InfoInv(k.info) /\ RandomInv(k.info, k.random)
    /\ k.new = Without(m.new, b, x)
    /\ k.tried = m.tried /\ k.nTried = m.nTried
    /\ DOMAIN k.info = IF m.info[x].nRefCount = 1 THEN DOMAIN m.info \ {x} ELSE DOMAIN m.info
    /\ k.nNew = IF m.info[x].nRefCount = 1 THEN m.nNew - 1 ELSE m.nNew
    /\ \A y \in DOMAIN k.info :
          /\ k.info[y].source = m.info[y].source
          /\ k.info[y].fInTried = m.info[y].fInTried
          /\ k.info[y].nRefCount = m.info[y].nRefCount - (IF y = x THEN 1 ELSE 0)

LEMMA ShrinkKeeps ==
    ASSUME NEW m, IsManager(m), InfoInv(m.info), RandomInv(m.info, m.random),
           NEW b, NEW x \in DOMAIN m.info, NEW k, k = ShrinkNew(m, b, x)
    PROVE  Shrunk(m, k, b, x)
<1>1. PICK info, random, new, tried, p, t :
        m = [info |-> info, random |-> random, new |-> new, tried |-> tried, nNew |-> p, nTried |-> t]
  BY DEF IsManager
<1>2. /\ m.info = info /\ m.random = random /\ m.new = new /\ m.tried = tried /\ m.nNew = p /\ m.nTried = t
  BY ONLY <1>1
<1>3. PICK info2, new2 : info2 = [m.info EXCEPT ![x].nRefCount = @ - 1] /\ new2 = Without(m.new, b, x)
  OBVIOUS
<1>4. PICK n : n = [m EXCEPT !.info[x].nRefCount = @ - 1, !.new[b] = @ \ {x}]
  OBVIOUS
<1>5. n = [info |-> info2, random |-> random, new |-> new2, tried |-> tried, nNew |-> p, nTried |-> t]
  <2>1. n = [m EXCEPT !.info = info2, !.new = new2]
    BY ONLY <1>3, <1>4 DEF Without
  <2> QED BY ONLY <1>1, <2>1
<1>6. IsManager(n)
  BY ONLY <1>5 DEF IsManager
<1>7. /\ n.info = info2 /\ n.random = random /\ n.new = new2 /\ n.tried = tried /\ n.nNew = p /\ n.nTried = t
  BY ONLY <1>5
<1>8. info \in [DOMAIN info -> Info] /\ DOMAIN info \subseteq Addrs /\ x \in DOMAIN info
  BY <1>2 DEF InfoInv
<1>9. DOMAIN info2 = DOMAIN info
  BY ONLY <1>2, <1>3
<1>10. ASSUME NEW y \in DOMAIN info
       PROVE  /\ info2[y] \in Info /\ info2[y].source = info[y].source /\ info2[y].fInTried = info[y].fInTried
              /\ info2[y].nRandomPos = info[y].nRandomPos
              /\ info2[y].nRefCount = info[y].nRefCount - (IF y = x THEN 1 ELSE 0)
  <2>1. info[y] \in Info
    BY ONLY <1>8
  <2>2. info2[y] = IF y = x THEN [info[y] EXCEPT !.nRefCount = @ - 1] ELSE info[y]
    BY ONLY <1>2, <1>3, <1>8
  <2> QED BY ONLY <2>1, <2>2 DEF Info
<1>11. InfoInv(info2)
  <2>1. info2 \in [DOMAIN info2 -> Info]
    BY ONLY <1>2, <1>3, <1>9, <1>10
  <2> QED BY ONLY <1>8, <1>9, <2>1 DEF InfoInv
<1>12. RandomInv(info2, random)
  BY <1>2, <1>9, <1>10, SamePositions
<1>13. k = IF info2[x].nRefCount = 0 THEN Erase(n, x) ELSE n
  <2>1. k = IF n.info[x].nRefCount = 0 THEN Erase(n, x) ELSE n
    BY <1>4 DEF ShrinkNew
  <2> QED BY ONLY <1>7, <2>1
<1>14. info[x].nRefCount \in Int /\ info2[x].nRefCount = info[x].nRefCount - 1
  BY ONLY <1>8, <1>10 DEF Info
<1>15. CASE info[x].nRefCount = 1
  <2>1. k = Erase(n, x) /\ x \in DOMAIN n.info /\ InfoInv(n.info) /\ RandomInv(n.info, n.random)
    BY ONLY <1>7, <1>8, <1>9, <1>11, <1>12, <1>13, <1>14, <1>15
  <2>2. /\ IsManager(k)
        /\ InfoInv(k.info) /\ RandomInv(k.info, k.random)
        /\ DOMAIN k.info = DOMAIN n.info \ {x}
        /\ \A y \in DOMAIN k.info : SameEntry(n.info, k.info, y)
        /\ k.new = n.new /\ k.tried = n.tried /\ k.nNew = n.nNew - 1 /\ k.nTried = n.nTried
    BY <1>6, <2>1, EraseKeeps
  <2>3. \A y \in DOMAIN k.info :
           /\ k.info[y].source = m.info[y].source
           /\ k.info[y].fInTried = m.info[y].fInTried
           /\ k.info[y].nRefCount = m.info[y].nRefCount - (IF y = x THEN 1 ELSE 0)
    BY ONLY <1>2, <1>7, <1>9, <1>10, <2>2 DEF SameEntry
  <2> QED BY ONLY <1>2, <1>3, <1>7, <1>9, <1>15, <2>2, <2>3 DEF Shrunk
<1>16. CASE info[x].nRefCount # 1
  <2>1. k = n
    BY ONLY <1>13, <1>14, <1>16
  <2>2. \A y \in DOMAIN k.info :
           /\ k.info[y].source = m.info[y].source
           /\ k.info[y].fInTried = m.info[y].fInTried
           /\ k.info[y].nRefCount = m.info[y].nRefCount - (IF y = x THEN 1 ELSE 0)
    BY ONLY <1>2, <1>7, <1>9, <1>10, <2>1
  <2>3. k.new = Without(m.new, b, x)
    BY ONLY <1>2, <1>3, <1>7, <2>1
  <2>4. InfoInv(k.info) /\ RandomInv(k.info, k.random)
    BY ONLY <1>7, <1>11, <1>12, <2>1
  <2>5. IsManager(k) /\ DOMAIN k.info = DOMAIN m.info /\ k.tried = m.tried /\ k.nTried = m.nTried /\ k.nNew = m.nNew
    BY ONLY <1>2, <1>6, <1>7, <1>9, <2>1
  <2>6. m.info[x].nRefCount # 1
    BY ONLY <1>2, <1>16
  <2> QED BY ONLY <2>2, <2>3, <2>4, <2>5, <2>6 DEF Shrunk
<1> QED BY <1>15, <1>16

-----------------------------------------------------------------------------
(* Counting entries and references *)

LEMMA RefsFinite ==
    ASSUME NEW new, NEW a
    PROVE  IsFiniteSet(Refs(new, a)) /\ Cardinality(Refs(new, a)) \in Nat
<1>1. Refs(new, a) \in SUBSET NewBuckets
  BY DEF Refs
<1>2. IsFiniteSet(Refs(new, a))
  BY <1>1, FS_Subset, AddrManAssumption DEF AddrManAssumption
<1> QED BY <1>2, FS_CardinalityType

\* vRandom is as long as there are entries.
LEMMA KnownFinite ==
    ASSUME NEW f, NEW r, RandomInv(f, r)
    PROVE  IsFiniteSet(DOMAIN f) /\ Cardinality(DOMAIN f) = Len(r)
<1>1. r \in Seq(DOMAIN f) /\ DOMAIN r = 1..Len(r) /\ Len(r) \in Nat /\ \A k \in DOMAIN r : r[k] \in DOMAIN f
  BY SeqFacts DEF RandomInv
<1>2. r \in [1..Len(r) -> DOMAIN f]
  BY <1>1
<1>3. \A i, j \in 1..Len(r) : r[i] = r[j] => i = j
  BY <1>1 DEF RandomInv
<1>4. \A a \in DOMAIN f : \E i \in 1..Len(r) : r[i] = a
  BY <1>1 DEF RandomInv
<1>5. ExistsBijection(1..Len(r), DOMAIN f)
  <2>1. r \in Injection(1..Len(r), DOMAIN f)
    BY <1>2, <1>3 DEF Injection, IsInjective
  <2>2. r \in Surjection(1..Len(r), DOMAIN f)
    BY <1>2, <1>4 DEF Surjection
  <2> QED BY <2>1, <2>2 DEF ExistsBijection, Bijection
<1>6. IsFiniteSet(1..Len(r)) /\ Cardinality(1..Len(r)) = Len(r)
  BY <1>1, FS_Interval
<1> QED BY <1>5, <1>6, FS_Bijection

LEMMA PartsFinite ==
    ASSUME NEW f, IsFiniteSet(DOMAIN f)
    PROVE  /\ IsFiniteSet(NewIn(f)) /\ Cardinality(NewIn(f)) \in Nat
           /\ IsFiniteSet(TriedIn(f)) /\ Cardinality(TriedIn(f)) \in Nat
           /\ Cardinality(DOMAIN f) = Cardinality(NewIn(f)) + Cardinality(TriedIn(f))
<1>1. NewIn(f) \in SUBSET DOMAIN f /\ TriedIn(f) \in SUBSET DOMAIN f
  BY DEF NewIn, TriedIn
<1>2. IsFiniteSet(NewIn(f)) /\ IsFiniteSet(TriedIn(f))
  BY <1>1, FS_Subset
<1>3. Cardinality(NewIn(f)) \in Nat /\ Cardinality(TriedIn(f)) \in Nat
  BY <1>2, FS_CardinalityType
<1>4. NewIn(f) \cap TriedIn(f) = {} /\ NewIn(f) \cup TriedIn(f) = DOMAIN f
  BY DEF NewIn, TriedIn
<1>5. Cardinality(NewIn(f) \cup TriedIn(f)) = Cardinality(NewIn(f)) + Cardinality(TriedIn(f)) - Cardinality(NewIn(f) \cap TriedIn(f))
  BY <1>2, FS_Union
<1>6. Cardinality(NewIn(f) \cap TriedIn(f)) = 0
  BY <1>4, FS_EmptySet
<1> QED BY <1>2, <1>3, <1>4, <1>5, <1>6

-----------------------------------------------------------------------------
(* Add_ *)

\* What Inserted makes of m: of the entries of b, those in gone have lost a reference
\* to make place for a.
AddedTo(m, k, b, a, gone) ==
    /\ IsManager(k) /\ InfoInv(k.info) /\ RandomInv(k.info, k.random)
    /\ k.new \in [NewBuckets -> SUBSET DOMAIN m.info]
    /\ \A c \in NewBuckets : k.new[c] = IF c = b THEN (m.new[c] \ gone) \cup {a} ELSE m.new[c]
    /\ k.tried = m.tried /\ k.nTried = m.nTried
    /\ DOMAIN k.info = {y \in DOMAIN m.info : y \in gone => m.info[y].nRefCount # 1}
    /\ k.nNew = IF \E y \in gone : m.info[y].nRefCount = 1 THEN m.nNew - 1 ELSE m.nNew
    /\ \A y \in DOMAIN k.info :
          /\ k.info[y].source = m.info[y].source
          /\ k.info[y].fInTried = m.info[y].fInTried
          /\ k.info[y].nRefCount = m.info[y].nRefCount + (IF y = a THEN 1 ELSE 0)
                                                       - (IF y \in gone THEN 1 ELSE 0)

LEMMA CountedOnce ==
    ASSUME NEW m, IsManager(m), InfoInv(m.info), RandomInv(m.info, m.random),
           NEW a \in DOMAIN m.info, NEW n, n = CountUp(m, a)
    PROVE  /\ IsManager(n) /\ InfoInv(n.info) /\ RandomInv(n.info, n.random)
           /\ n.new = m.new /\ n.tried = m.tried /\ n.nNew = m.nNew /\ n.nTried = m.nTried
           /\ DOMAIN n.info = DOMAIN m.info
           /\ \A y \in DOMAIN m.info :
                 /\ n.info[y].source = m.info[y].source
                 /\ n.info[y].fInTried = m.info[y].fInTried
                 /\ n.info[y].nRefCount = m.info[y].nRefCount + (IF y = a THEN 1 ELSE 0)
<1>1. PICK info, random, new, tried, p, t :
        m = [info |-> info, random |-> random, new |-> new, tried |-> tried, nNew |-> p, nTried |-> t]
  BY DEF IsManager
<1>2. /\ m.info = info /\ m.random = random /\ m.new = new /\ m.tried = tried /\ m.nNew = p /\ m.nTried = t
  BY ONLY <1>1
<1>3. PICK info2 : info2 = [m.info EXCEPT ![a].nRefCount = @ + 1]
  OBVIOUS
<1>4. n = [info |-> info2, random |-> random, new |-> new, tried |-> tried, nNew |-> p, nTried |-> t]
  <2>1. n = [m EXCEPT !.info = info2]
    BY <1>3 DEF CountUp
  <2> QED BY ONLY <1>1, <2>1
<1>5. IsManager(n)
  BY ONLY <1>4 DEF IsManager
<1>6. /\ n.info = info2 /\ n.random = random /\ n.new = new /\ n.tried = tried /\ n.nNew = p /\ n.nTried = t
  BY ONLY <1>4
<1>7. info \in [DOMAIN info -> Info] /\ DOMAIN info \subseteq Addrs /\ a \in DOMAIN info
  BY <1>2 DEF InfoInv
<1>8. DOMAIN info2 = DOMAIN info
  BY ONLY <1>2, <1>3
<1>9. ASSUME NEW y \in DOMAIN info
      PROVE  /\ info2[y] \in Info /\ info2[y].source = info[y].source /\ info2[y].fInTried = info[y].fInTried
             /\ info2[y].nRandomPos = info[y].nRandomPos
             /\ info2[y].nRefCount = info[y].nRefCount + (IF y = a THEN 1 ELSE 0)
  <2>1. info[y] \in Info
    BY ONLY <1>7
  <2>2. info2[y] = IF y = a THEN [info[y] EXCEPT !.nRefCount = @ + 1] ELSE info[y]
    BY ONLY <1>2, <1>3, <1>7
  <2> QED BY ONLY <2>1, <2>2 DEF Info
<1>10. InfoInv(info2)
  <2>1. info2 \in [DOMAIN info2 -> Info]
    BY ONLY <1>2, <1>3, <1>8, <1>9
  <2> QED BY ONLY <1>7, <1>8, <2>1 DEF InfoInv
<1>11. RandomInv(info2, random)
  BY <1>2, <1>8, <1>9, SamePositions
<1> QED BY ONLY <1>2, <1>5, <1>6, <1>8, <1>9, <1>10, <1>11

LEMMA NewAdded ==
    ASSUME NEW m, IsManager(m), NEW b, NEW a, NEW n, n = Enter(m, b, a)
    PROVE  /\ IsManager(n) /\ n.new = With(m.new, b, a)
           /\ n.info = m.info /\ n.random = m.random /\ n.tried = m.tried /\ n.nNew = m.nNew /\ n.nTried = m.nTried
<1>1. PICK info, random, new, tried, p, t :
        m = [info |-> info, random |-> random, new |-> new, tried |-> tried, nNew |-> p, nTried |-> t]
  BY DEF IsManager
<1>2. PICK new2 : new2 = With(m.new, b, a)
  OBVIOUS
<1>3. n = [info |-> info, random |-> random, new |-> new2, tried |-> tried, nNew |-> p, nTried |-> t]
  <2>1. n = [m EXCEPT !.new = new2]
    BY <1>2 DEF Enter, With
  <2> QED BY ONLY <1>1, <2>1
<1>4. IsManager(n)
  BY ONLY <1>3 DEF IsManager
<1>5. /\ n.info = m.info /\ n.random = m.random /\ n.new = new2 /\ n.tried = m.tried /\ n.nNew = m.nNew /\ n.nTried = m.nTried
  BY ONLY <1>1, <1>3
<1> QED BY <1>2, <1>4, <1>5

LEMMA InsertedMakes ==
    ASSUME NEW m, IsManager(m), InfoInv(m.info), RandomInv(m.info, m.random),
           NEW b \in NewBuckets, m.new \in [NewBuckets -> SUBSET DOMAIN m.info],
           NEW a \in DOMAIN m.info, a \notin m.new[b], NEW k \in Inserted(m, b, a)
    PROVE  IF Cardinality(m.new[b]) = NewSize
           THEN \E x \in m.new[b] : AddedTo(m, k, b, a, {x})
           ELSE AddedTo(m, k, b, a, {})
<1>1. PICK n : n = CountUp(m, a)
  OBVIOUS
<1>2. /\ IsManager(n) /\ InfoInv(n.info) /\ RandomInv(n.info, n.random)
      /\ n.new = m.new /\ n.tried = m.tried /\ n.nNew = m.nNew /\ n.nTried = m.nTried
      /\ DOMAIN n.info = DOMAIN m.info
      /\ \A y \in DOMAIN m.info :
            /\ n.info[y].source = m.info[y].source
            /\ n.info[y].fInTried = m.info[y].fInTried
            /\ n.info[y].nRefCount = m.info[y].nRefCount + (IF y = a THEN 1 ELSE 0)
  BY <1>1, CountedOnce
<1>3. \A y \in DOMAIN m.info : m.info[y].nRefCount \in Int
  BY DEF InfoInv, Info
<1>4. m.new[b] \subseteq DOMAIN m.info
  OBVIOUS
<1>5. ASSUME Cardinality(m.new[b]) = NewSize PROVE \E x \in m.new[b] : AddedTo(m, k, b, a, {x})
  <2>1. PICK x \in m.new[b] : k = Enter(ShrinkNew(n, b, x), b, a)
    BY <1>1, <1>5 DEF Inserted, Enter, CountUp
  <2>2. PICK j : j = ShrinkNew(n, b, x)
    OBVIOUS
  <2>3. x \in DOMAIN n.info /\ x # a
    BY <1>2, <1>4, <2>1
  <2>4. /\ IsManager(j) /\ InfoInv(j.info) /\ RandomInv(j.info, j.random)
        /\ j.new = Without(n.new, b, x)
        /\ j.tried = n.tried /\ j.nTried = n.nTried
        /\ DOMAIN j.info = IF n.info[x].nRefCount = 1 THEN DOMAIN n.info \ {x} ELSE DOMAIN n.info
        /\ j.nNew = IF n.info[x].nRefCount = 1 THEN n.nNew - 1 ELSE n.nNew
        /\ \A y \in DOMAIN j.info :
              /\ j.info[y].source = n.info[y].source
              /\ j.info[y].fInTried = n.info[y].fInTried
              /\ j.info[y].nRefCount = n.info[y].nRefCount - (IF y = x THEN 1 ELSE 0)
    <3>1. Shrunk(n, j, b, x)
      BY <1>2, <2>2, <2>3, ShrinkKeeps
    <3> QED BY ONLY <3>1 DEF Shrunk
  <2>5. k = Enter(j, b, a)
    BY <2>1, <2>2
  <2>6. /\ IsManager(k) /\ k.new = With(j.new, b, a)
        /\ k.info = j.info /\ k.random = j.random /\ k.tried = j.tried /\ k.nNew = j.nNew /\ k.nTried = j.nTried
    BY <2>4, <2>5, NewAdded
  <2>7. /\ k.new \in [NewBuckets -> SUBSET DOMAIN m.info]
        /\ \A c \in NewBuckets : k.new[c] = IF c = b THEN (m.new[c] \ {x}) \cup {a} ELSE m.new[c]
    <3>1. k.new = With(Without(m.new, b, x), b, a)
      BY <1>2, <2>4, <2>6
    <3> QED BY <3>1 DEF With, Without
  <2>8. n.info[x].nRefCount = m.info[x].nRefCount
    BY <1>2, <1>3, <2>3
  <2>9. DOMAIN k.info = {y \in DOMAIN m.info : y \in {x} => m.info[y].nRefCount # 1}
    BY ONLY <1>2, <2>3, <2>4, <2>6, <2>8
  <2>10. /\ \A y \in DOMAIN k.info :
               /\ k.info[y].source = m.info[y].source
               /\ k.info[y].fInTried = m.info[y].fInTried
               /\ k.info[y].nRefCount = m.info[y].nRefCount + (IF y = a THEN 1 ELSE 0)
                                                           - (IF y \in {x} THEN 1 ELSE 0)
    BY ONLY <1>2, <1>3, <2>3, <2>4, <2>6, <2>9
  <2>11. k.nNew = IF \E y \in {x} : m.info[y].nRefCount = 1 THEN m.nNew - 1 ELSE m.nNew
    <3>1. CASE m.info[x].nRefCount = 1
      BY <1>2, <2>4, <2>6, <2>8, <3>1
    <3>2. CASE m.info[x].nRefCount # 1
      <4>1. k.nNew = m.nNew
        BY <1>2, <2>4, <2>6, <2>8, <3>2
      <4> QED BY <3>2, <4>1
    <3> QED BY <3>1, <3>2
  <2> QED BY <1>2, <2>4, <2>6, <2>7, <2>9, <2>10, <2>11 DEF AddedTo
<1>6. ASSUME Cardinality(m.new[b]) # NewSize PROVE AddedTo(m, k, b, a, {})
  <2>1. k = Enter(n, b, a)
    BY <1>1, <1>6 DEF Inserted, Enter, CountUp
  <2>2. /\ IsManager(k) /\ k.new = With(n.new, b, a)
        /\ k.info = n.info /\ k.random = n.random /\ k.tried = n.tried /\ k.nNew = n.nNew /\ k.nTried = n.nTried
    BY <1>2, <2>1, NewAdded
  <2>3. /\ k.new \in [NewBuckets -> SUBSET DOMAIN m.info]
        /\ \A c \in NewBuckets : k.new[c] = IF c = b THEN (m.new[c] \ {}) \cup {a} ELSE m.new[c]
    <3>1. PICK u, v : u = m.new /\ v = k.new
      OBVIOUS
    <3>2. u \in [NewBuckets -> SUBSET DOMAIN m.info] /\ a \in DOMAIN m.info /\ b \in NewBuckets
      BY <3>1
    <3>3. v = [u EXCEPT ![b] = @ \cup {a}]
      BY ONLY <1>2, <2>2, <3>1 DEF With
    <3>4. \A c \in NewBuckets : v[c] = IF c = b THEN u[c] \cup {a} ELSE u[c]
      BY ONLY <3>2, <3>3
    <3>5. v \in [NewBuckets -> SUBSET DOMAIN m.info]
      BY ONLY <3>2, <3>3
    <3>6. \A c \in NewBuckets : v[c] = IF c = b THEN (u[c] \ {}) \cup {a} ELSE u[c]
      BY ONLY <3>4
    <3> QED BY ONLY <3>1, <3>5, <3>6
  <2>4. DOMAIN k.info = {y \in DOMAIN m.info : y \in {} => m.info[y].nRefCount # 1}
    BY ONLY <1>2, <2>2
  <2>5. \A y \in DOMAIN k.info :
           /\ k.info[y].source = m.info[y].source
           /\ k.info[y].fInTried = m.info[y].fInTried
           /\ k.info[y].nRefCount = m.info[y].nRefCount + (IF y = a THEN 1 ELSE 0)
                                                       - (IF y \in {} THEN 1 ELSE 0)
    BY ONLY <1>2, <1>3, <2>2, <2>4
  <2>6. k.nNew = IF \E y \in {} : m.info[y].nRefCount = 1 THEN m.nNew - 1 ELSE m.nNew
    BY ONLY <1>2, <2>2
  <2>7. k.tried = m.tried /\ k.nTried = m.nTried /\ InfoInv(k.info) /\ RandomInv(k.info, k.random)
    BY ONLY <1>2, <2>2
  <2> QED BY ONLY <2>2, <2>3, <2>4, <2>5, <2>6, <2>7 DEF AddedTo
<1> QED BY <1>5, <1>6

\* TriedInv depends only on which entries are tried.
LEMMA TriedSame ==
    ASSUME NEW f, NEW g, NEW tried, TriedInv(f, tried), TriedIn(g) = TriedIn(f)
    PROVE  TriedInv(g, tried)
BY DEF TriedInv

LEMMA AddedGood ==
    ASSUME NEW m, InfoInv(m.info), RandomInv(m.info, m.random), NewInv(m.info, m.new),
           TriedInv(m.info, m.tried), CountInv(m.info, m.nNew, m.nTried), SizeInv(m.new, m.tried),
           NEW b \in NewBuckets, NEW a \in NewIn(m.info), a \notin m.new[b],
           m.info[a].nRefCount < PerAddress,
           \A y \in NewIn(m.info) \ {a} : m.info[y].nRefCount \in 1..PerAddress,
           NEW gone \in SUBSET m.new[b],
           (gone = {} /\ Cardinality(m.new[b]) # NewSize) \/ \E x : gone = {x},
           NEW k, AddedTo(m, k, b, a, gone)
    PROVE  Good(k) /\ TriedIn(k.info) = TriedIn(m.info)
<1>1. PICK f, g, u, v : f = m.info /\ g = k.info /\ u = m.new /\ v = k.new
  OBVIOUS
<1>2. /\ InfoInv(g) /\ RandomInv(g, k.random)
      /\ v \in [NewBuckets -> SUBSET DOMAIN f]
      /\ \A c \in NewBuckets : v[c] = IF c = b THEN (u[c] \ gone) \cup {a} ELSE u[c]
      /\ k.tried = m.tried /\ k.nTried = m.nTried
      /\ DOMAIN g = {y \in DOMAIN f : y \in gone => f[y].nRefCount # 1}
      /\ k.nNew = IF \E y \in gone : f[y].nRefCount = 1 THEN m.nNew - 1 ELSE m.nNew
      /\ \A y \in DOMAIN g : /\ g[y].fInTried = f[y].fInTried
                             /\ g[y].nRefCount = f[y].nRefCount + (IF y = a THEN 1 ELSE 0)
                                                                - (IF y \in gone THEN 1 ELSE 0)
  BY <1>1 DEF AddedTo
<1>3. /\ u \in [NewBuckets -> SUBSET NewIn(f)]
      /\ \A y \in DOMAIN f : f[y].nRefCount = Cardinality(Refs(u, y))
  BY <1>1 DEF NewInv
<1>4. a \in NewIn(f) /\ a \notin u[b] /\ a \notin gone /\ gone \subseteq u[b] /\ u[b] \subseteq NewIn(f)
  BY <1>1, <1>3
<1>5. NewIn(f) \subseteq DOMAIN f /\ \A y \in DOMAIN f : f[y].nRefCount \in Nat
  BY <1>3, RefsFinite DEF NewIn
\* The entries that are erased were in b only.
<1>6. ASSUME NEW y \in gone, f[y].nRefCount = 1 PROVE Refs(u, y) = {b}
  <2>1. y \in DOMAIN f /\ b \in Refs(u, y)
    BY <1>4, <1>5 DEF Refs
  <2>2. IsFiniteSet(Refs(u, y)) /\ Cardinality(Refs(u, y)) = 1
    BY <1>3, <1>6, <2>1, RefsFinite
  <2>3. PICK z : Refs(u, y) = {z}
    BY <2>2, FS_Singleton
  <2> QED BY <2>1, <2>3
<1>7. NewIn(g) = {y \in NewIn(f) : y \in gone => f[y].nRefCount # 1} /\ TriedIn(g) = TriedIn(f)
  <2>1. \A y \in TriedIn(f) : y \notin gone
    BY <1>4 DEF NewIn, TriedIn
  <2> QED BY <1>2, <1>4, <2>1 DEF NewIn, TriedIn
<1>8. v \in [NewBuckets -> SUBSET NewIn(g)]
  <2>1. ASSUME NEW c \in NewBuckets, NEW y \in v[c] PROVE y \in NewIn(g)
    <3>1. CASE y = a
      BY <1>4, <1>7, <3>1
    <3>2. CASE y # a
      <4>1. y \in u[c] /\ y \in NewIn(f) /\ (c = b => y \notin gone)
        BY <1>2, <1>3, <2>1, <3>2
      <4>2. ASSUME y \in gone, f[y].nRefCount = 1 PROVE FALSE
        <5>1. c \in Refs(u, y)
          BY <4>1 DEF Refs
        <5> QED BY <1>6, <4>1, <4>2, <5>1
      <4> QED BY <1>7, <4>1, <4>2
    <3> QED BY <3>1, <3>2
  <2> QED BY <1>2, <2>1
<1>9. ASSUME NEW y \in DOMAIN g PROVE g[y].nRefCount = Cardinality(Refs(v, y))
  <2>1. y \in DOMAIN f /\ f[y].nRefCount = Cardinality(Refs(u, y)) /\ f[y].nRefCount \in Nat /\ IsFiniteSet(Refs(u, y))
    BY <1>2, <1>3, <1>5, RefsFinite
  <2>2. CASE y = a
    <3>1. Refs(v, y) = Refs(u, y) \cup {b} /\ b \notin Refs(u, y)
      BY <1>2, <1>4, <2>2 DEF Refs
    <3>2. Cardinality(Refs(v, y)) = Cardinality(Refs(u, y)) + 1
      BY <2>1, <3>1, FS_AddElement
    <3>3. g[y].nRefCount = f[y].nRefCount + 1
      BY <1>2, <1>4, <2>1, <2>2
    <3> QED BY <2>1, <3>2, <3>3
  <2>3. CASE y \in gone
    <3>1. Refs(v, y) = Refs(u, y) \ {b} /\ b \in Refs(u, y)
      BY <1>2, <1>4, <2>3 DEF Refs
    <3>2. Cardinality(Refs(v, y)) = Cardinality(Refs(u, y)) - 1
      BY <2>1, <3>1, FS_RemoveElement
    <3>3. g[y].nRefCount = f[y].nRefCount - 1
      BY <1>2, <1>4, <2>1, <2>3
    <3> QED BY <2>1, <3>2, <3>3
  <2>4. CASE y # a /\ y \notin gone
    <3>1. Refs(v, y) = Refs(u, y)
      BY <1>2, <2>4 DEF Refs
    <3> QED BY <1>2, <2>1, <2>4, <3>1
  <2> QED BY <2>2, <2>3, <2>4
<1>10. RefsInv(g)
  <2>1. ASSUME NEW y \in NewIn(g) PROVE g[y].nRefCount \in 1..PerAddress
    <3>1. y \in NewIn(f) /\ y \in DOMAIN g /\ y \in DOMAIN f /\ PerAddress \in Nat \ {0} /\ f[y].nRefCount \in Nat
      BY <1>5, <1>7, AddrManAssumption DEF NewIn, AddrManAssumption
    <3>2. y # a => f[y].nRefCount \in 1..PerAddress
      BY <1>1, <3>1
    <3>3. y \in gone => f[y].nRefCount # 1
      BY <1>7
    <3>4. f[a].nRefCount < PerAddress
      BY <1>1
    <3>5. g[y].nRefCount = f[y].nRefCount + (IF y = a THEN 1 ELSE 0) - (IF y \in gone THEN 1 ELSE 0)
      BY <1>2, <3>1
    <3> QED BY ONLY <1>4, <3>1, <3>2, <3>3, <3>4, <3>5
  <2> QED BY <2>1 DEF RefsInv
<1>11. TriedInv(g, k.tried)
  BY <1>1, <1>2, <1>7, TriedSame
<1>12. IsFiniteSet(DOMAIN f)
  BY <1>1, KnownFinite
<1>13. CountInv(g, k.nNew, k.nTried)
  <2>1. m.nNew = Cardinality(NewIn(f)) /\ m.nTried = Cardinality(TriedIn(f)) /\ IsFiniteSet(NewIn(f))
    BY <1>1, <1>12, PartsFinite DEF CountInv
  <2>2. CASE \E y \in gone : f[y].nRefCount = 1
    <3>1. PICK y \in gone : f[y].nRefCount = 1
      BY <2>2
    <3>2. NewIn(g) = NewIn(f) \ {y}
      BY <1>7, <3>1
    <3>3. y \in NewIn(f)
      BY <1>4
    <3>4. Cardinality(NewIn(g)) = Cardinality(NewIn(f)) - 1
      BY <2>1, <3>2, <3>3, FS_RemoveElement
    <3>5. k.nNew = m.nNew - 1
      BY <1>2, <2>2
    <3> QED BY <1>2, <1>7, <2>1, <3>4, <3>5 DEF CountInv
  <2>3. CASE ~(\E y \in gone : f[y].nRefCount = 1)
    <3>1. NewIn(g) = NewIn(f)
      BY <1>7, <2>3
    <3>2. k.nNew = m.nNew
      BY <1>2, <2>3
    <3> QED BY <1>2, <1>7, <2>1, <3>1, <3>2 DEF CountInv
  <2> QED BY <2>2, <2>3
<1>14. SizeInv(v, k.tried)
  <2>1. \A c \in NewBuckets : Cardinality(u[c]) <= NewSize
    BY <1>1 DEF SizeInv
  <2>2. IsFiniteSet(u[b]) /\ Cardinality(u[b]) \in Nat /\ NewSize \in Nat
    <3>1. u[b] \in SUBSET DOMAIN f
      BY <1>4, <1>5
    <3>2. IsFiniteSet(u[b])
      BY <1>12, <3>1, FS_Subset
    <3> QED BY <3>2, FS_CardinalityType, AddrManAssumption DEF AddrManAssumption
  <2>3. v[b] = (u[b] \ gone) \cup {a}
    BY <1>2
  <2>4. Cardinality(v[b]) <= NewSize
    <3>1. CASE gone = {} /\ Cardinality(m.new[b]) # NewSize
      <4>1. v[b] = u[b] \cup {a} /\ Cardinality(u[b]) # NewSize
        BY <1>1, <2>3, <3>1
      <4>2. Cardinality(v[b]) = Cardinality(u[b]) + 1
        <5>1. a \notin u[b] /\ IsFiniteSet(u[b])
          BY ONLY <1>4, <2>2
        <5>2. Cardinality(u[b] \cup {a}) = Cardinality(u[b]) + 1
          BY ONLY <5>1, FS_AddElement
        <5> QED BY ONLY <4>1, <5>2
      <4> QED BY <2>1, <2>2, <4>1, <4>2
    <3>2. CASE \E x : gone = {x}
      <4>1. PICK x : gone = {x}
        BY <3>2
      <4>2. x \in u[b] /\ v[b] = (u[b] \ {x}) \cup {a} /\ a \notin u[b] \ {x}
        BY <1>4, <2>3, <4>1
      <4>3. IsFiniteSet(u[b] \ {x}) /\ Cardinality(u[b] \ {x}) = Cardinality(u[b]) - 1
        BY ONLY <2>2, <4>2, FS_RemoveElement
      <4>4. Cardinality(v[b]) = Cardinality(u[b] \ {x}) + 1
        BY ONLY <4>2, <4>3, FS_AddElement
      <4> QED BY <2>1, <2>2, <4>3, <4>4
    <3> QED BY <3>1, <3>2
  <2>5. \A c \in NewBuckets : Cardinality(v[c]) <= NewSize
    BY ONLY <1>2, <2>1, <2>4
  <2>6. \A c \in TriedBuckets : Len(k.tried[c]) <= TriedSize
    BY <1>2 DEF SizeInv
  <2> QED BY ONLY <2>5, <2>6 DEF SizeInv
<1>15. NewInv(g, v)
  BY <1>8, <1>9 DEF NewInv
<1> QED BY <1>1, <1>2, <1>7, <1>10, <1>11, <1>13, <1>14, <1>15 DEF Good

\* The manager when a is entered: the invariant holds but for the references of a.
Entering(m, a) ==
    /\ IsManager(m) /\ InfoInv(m.info) /\ RandomInv(m.info, m.random) /\ NewInv(m.info, m.new)
    /\ TriedInv(m.info, m.tried) /\ CountInv(m.info, m.nNew, m.nTried) /\ SizeInv(m.new, m.tried)
    /\ a \in NewIn(m.info) /\ m.info[a].nRefCount < PerAddress
    /\ \A y \in NewIn(m.info) \ {a} : m.info[y].nRefCount \in 1..PerAddress

LEMMA InsertedGood ==
    ASSUME NEW m, NEW a, Entering(m, a), NEW b \in NewBuckets, NEW k \in Inserted(m, b, a)
    PROVE  Good(k) /\ TriedIn(k.info) = TriedIn(m.info)
<1>1. /\ IsManager(m) /\ InfoInv(m.info) /\ RandomInv(m.info, m.random) /\ NewInv(m.info, m.new)
      /\ TriedInv(m.info, m.tried) /\ CountInv(m.info, m.nNew, m.nTried) /\ SizeInv(m.new, m.tried)
      /\ a \in NewIn(m.info) /\ m.info[a].nRefCount < PerAddress
      /\ \A y \in NewIn(m.info) \ {a} : m.info[y].nRefCount \in 1..PerAddress
  BY DEF Entering
<1>2. m.new \in [NewBuckets -> SUBSET DOMAIN m.info] /\ a \in DOMAIN m.info
  BY <1>1 DEF NewInv, NewIn
<1>3. CASE a \in m.new[b]
  <2>1. k = m
    BY <1>3 DEF Inserted
  <2>2. m.info[a].nRefCount \in 1..PerAddress
    <3>1. m.info[a].nRefCount = Cardinality(Refs(m.new, a)) /\ b \in Refs(m.new, a)
      BY <1>1, <1>2, <1>3 DEF NewInv, Refs
    <3>2. Cardinality(Refs(m.new, a)) \in Nat /\ Cardinality(Refs(m.new, a)) # 0
      BY <3>1, RefsFinite, FS_EmptySet
    <3> QED BY ONLY <1>1, <3>1, <3>2, AddrManAssumption DEF AddrManAssumption
  <2>3. RefsInv(m.info)
    BY ONLY <1>1, <2>2 DEF RefsInv
  <2> QED BY ONLY <1>1, <2>1, <2>3 DEF Good
<1>4. CASE a \notin m.new[b] /\ Cardinality(m.new[b]) = NewSize
  <2>1. PICK x \in m.new[b] : AddedTo(m, k, b, a, {x})
    BY <1>1, <1>2, <1>4, InsertedMakes
  <2>2. PICK gone : gone = {x} /\ gone \in SUBSET m.new[b] /\ AddedTo(m, k, b, a, gone)
    BY <2>1
  <2> QED BY <1>1, <1>4, <2>2, AddedGood
<1>5. CASE a \notin m.new[b] /\ Cardinality(m.new[b]) # NewSize
  <2>1. AddedTo(m, k, b, a, {})
    BY <1>1, <1>2, <1>5, InsertedMakes
  <2>2. PICK gone : gone = {} /\ gone \in SUBSET m.new[b] /\ AddedTo(m, k, b, a, gone)
    BY <2>1
  <2> QED BY <1>1, <1>5, <2>2, AddedGood
<1> QED BY <1>3, <1>4, <1>5

LEMMA ManagerIs == IsManager(Manager)
BY DEF IsManager, Manager

LEMMA AddAgainGood ==
    ASSUME Inv, NEW a, NEW s \in Sources, AddAgain(a, s)
    PROVE  Inv' /\ TriedIn(mapInfo') = TriedIn(mapInfo)
<1>1. PICK m : m = Manager
  OBVIOUS
<1>2. IsManager(m) /\ Good(m) /\ m.info = mapInfo
  BY <1>1, ManagerIs DEF Inv, Manager
<1>3. a \in Known /\ ~mapInfo[a].fInTried /\ mapInfo[a].nRefCount # PerAddress
  BY DEF AddAgain
<1>4. a \in NewIn(m.info) /\ m.info[a].nRefCount < PerAddress
  <2>1. a \in NewIn(m.info)
    BY <1>2, <1>3 DEF NewIn, Known
  <2>2. m.info[a].nRefCount \in 1..PerAddress
    BY <1>2, <2>1 DEF Good, RefsInv
  <2>3. PerAddress \in Nat /\ m.info[a].nRefCount # PerAddress
    BY <1>2, <1>3, AddrManAssumption DEF AddrManAssumption
  <2> QED BY ONLY <2>1, <2>2, <2>3
<1>5. Entering(m, a)
  BY <1>2, <1>4 DEF Entering, Good, RefsInv
<1>6. PICK k \in Inserted(m, NewBucket[a][s], a) : Becomes(k)
  BY <1>1 DEF AddAgain
<1>7. NewBucket[a][s] \in NewBuckets
  <2>1. a \in Addrs
    BY <1>2, <1>3 DEF Good, InfoInv, Known
  <2> QED BY <2>1, AddrManAssumption DEF AddrManAssumption
<1>8. Good(k) /\ TriedIn(k.info) = TriedIn(m.info)
  BY <1>5, <1>6, <1>7, InsertedGood
<1> QED BY <1>2, <1>6, <1>8, BecomesGood

\* Create adds an entry that no bucket refers to yet.
LEMMA CreateEntering ==
    ASSUME NEW m, IsManager(m), Good(m), NEW a \in Addrs, a \notin DOMAIN m.info, NEW s \in Sources,
           NEW k, k = Create(m, a, s)
    PROVE  Entering(k, a) /\ TriedIn(k.info) = TriedIn(m.info)
<1>1. PICK f, r, u, tried, p, t :
        m = [info |-> f, random |-> r, new |-> u, tried |-> tried, nNew |-> p, nTried |-> t]
  BY DEF IsManager
<1>2. m.info = f /\ m.random = r /\ m.new = u /\ m.tried = tried /\ m.nNew = p /\ m.nTried = t
  BY ONLY <1>1
<1>3. PICK e, g, q : /\ e = [source |-> s, nRefCount |-> 0, fInTried |-> FALSE, nRandomPos |-> Len(r) + 1]
                     /\ g = [x \in DOMAIN f \cup {a} |-> IF x = a THEN e ELSE f[x]]
                     /\ q = Append(r, a)
  OBVIOUS
<1>4. k = [m EXCEPT !.info = g, !.random = q, !.nNew = @ + 1]
  BY <1>2, <1>3 DEF Create
<1>5. k = [info |-> g, random |-> q, new |-> u, tried |-> tried, nNew |-> p + 1, nTried |-> t]
  BY ONLY <1>1, <1>4
<1>6. IsManager(k)
  BY ONLY <1>5 DEF IsManager
<1>7. k.info = g /\ k.random = q /\ k.new = u /\ k.tried = tried /\ k.nNew = p + 1 /\ k.nTried = t
  BY ONLY <1>5
<1>8. /\ InfoInv(f) /\ RandomInv(f, r) /\ NewInv(f, u) /\ RefsInv(f) /\ TriedInv(f, tried)
      /\ CountInv(f, p, t) /\ SizeInv(u, tried)
  BY <1>2 DEF Good
<1>9. r \in Seq(DOMAIN f) /\ DOMAIN r = 1..Len(r) /\ Len(r) \in Nat /\ \A i \in DOMAIN r : r[i] \in DOMAIN f
  BY ONLY <1>8, SeqFacts DEF RandomInv
<1>10. /\ DOMAIN g = DOMAIN f \cup {a} /\ a \notin DOMAIN f /\ g[a] = e
       /\ \A x \in DOMAIN f : g[x] = f[x]
  BY <1>2, <1>3
<1>11. /\ e \in Info /\ e.nRefCount = 0 /\ ~e.fInTried /\ e.nRandomPos = Len(r) + 1
  BY <1>3, <1>9 DEF Info
<1>12. InfoInv(g)
  <2>1. f \in [DOMAIN f -> Info] /\ DOMAIN f \subseteq Addrs
    BY ONLY <1>8 DEF InfoInv
  <2>2. \A x \in DOMAIN g : g[x] \in Info
    BY ONLY <1>10, <1>11, <2>1
  <2>3. g \in [DOMAIN g -> Info]
    BY <1>3, <1>10, <2>2
  <2> QED BY <1>10, <2>1, <2>3 DEF InfoInv
<1>13. RandomInv(g, q)
  <2>1. /\ q \in Seq(DOMAIN g) /\ DOMAIN q = 1..(Len(r) + 1) /\ q[Len(r) + 1] = a
        /\ \A i \in DOMAIN r : q[i] = r[i]
    BY ONLY <1>3, <1>9, <1>10
  <2>2. /\ \A x \in DOMAIN f : f[x].nRandomPos \in DOMAIN r /\ r[f[x].nRandomPos] = x
        /\ \A i \in DOMAIN r : f[r[i]].nRandomPos = i
    BY ONLY <1>8 DEF RandomInv
  <2>3. \A x \in DOMAIN g : g[x].nRandomPos \in DOMAIN q /\ q[g[x].nRandomPos] = x
    BY ONLY <1>9, <1>10, <1>11, <2>1, <2>2
  <2>4. ASSUME NEW i \in DOMAIN q PROVE g[q[i]].nRandomPos = i
    <3>1. CASE i = Len(r) + 1
      BY ONLY <1>10, <1>11, <2>1, <3>1
    <3>2. CASE i # Len(r) + 1
      <4>1. i \in DOMAIN r
        BY ONLY <1>9, <2>1, <2>4, <3>2
      <4> QED BY ONLY <1>9, <1>10, <2>1, <2>2, <4>1
    <3> QED BY <3>1, <3>2
  <2> QED BY ONLY <2>1, <2>3, <2>4 DEF RandomInv
<1>14. NewIn(g) = NewIn(f) \cup {a} /\ a \notin NewIn(f) /\ TriedIn(g) = TriedIn(f)
  BY ONLY <1>10, <1>11 DEF NewIn, TriedIn
<1>15. NewInv(g, u)
  <2>1. u \in [NewBuckets -> SUBSET NewIn(f)] /\ \A x \in DOMAIN f : f[x].nRefCount = Cardinality(Refs(u, x))
    BY ONLY <1>8 DEF NewInv
  <2>2. Refs(u, a) = {}
    BY ONLY <1>14, <2>1 DEF Refs
  <2>3. g[a].nRefCount = Cardinality(Refs(u, a))
    BY ONLY <1>10, <1>11, <2>2, FS_EmptySet
  <2>4. u \in [NewBuckets -> SUBSET NewIn(g)]
    BY ONLY <1>14, <2>1
  <2> QED BY ONLY <1>10, <2>1, <2>3, <2>4 DEF NewInv
<1>16. TriedInv(g, tried)
  BY ONLY <1>8, <1>14, TriedSame
<1>17. CountInv(g, p + 1, t)
  <2>1. p = Cardinality(NewIn(f)) /\ t = Cardinality(TriedIn(f))
    BY ONLY <1>8 DEF CountInv
  <2>2. IsFiniteSet(NewIn(f))
    BY ONLY <1>8, KnownFinite, PartsFinite
  <2>3. Cardinality(NewIn(f) \cup {a}) = Cardinality(NewIn(f)) + 1
    BY ONLY <1>14, <2>2, FS_AddElement
  <2> QED BY ONLY <1>14, <2>1, <2>3 DEF CountInv
<1>18. a \in NewIn(g) /\ g[a].nRefCount < PerAddress
  <2>1. PerAddress \in Nat \ {0}
    BY ONLY AddrManAssumption DEF AddrManAssumption
  <2> QED BY ONLY <1>10, <1>11, <1>14, <2>1
<1>19. \A y \in NewIn(g) \ {a} : g[y].nRefCount \in 1..PerAddress
  BY ONLY <1>8, <1>10, <1>14 DEF RefsInv, NewIn
<1>20. Entering(k, a)
  BY ONLY <1>6, <1>7, <1>8, <1>12, <1>13, <1>15, <1>16, <1>17, <1>18, <1>19 DEF Entering
<1> QED BY ONLY <1>2, <1>7, <1>14, <1>20

LEMMA AddNewGood ==
    ASSUME Inv, NEW a \in Addrs, NEW s \in Sources, AddNew(a, s)
    PROVE  Inv' /\ TriedIn(mapInfo') = TriedIn(mapInfo)
<1>1. PICK m, n : m = Manager /\ n = Create(m, a, s)
  OBVIOUS
<1>2. IsManager(m) /\ Good(m) /\ m.info = mapInfo
  BY <1>1, ManagerIs DEF Inv, Manager
<1>3. a \notin DOMAIN m.info
  BY <1>2 DEF AddNew, Known
<1>4. Entering(n, a) /\ TriedIn(n.info) = TriedIn(m.info)
  BY <1>1, <1>2, <1>3, CreateEntering
<1>5. PICK k \in Inserted(n, NewBucket[a][s], a) : Becomes(k)
  BY <1>1 DEF AddNew
<1>6. NewBucket[a][s] \in NewBuckets
  BY AddrManAssumption DEF AddrManAssumption
<1>7. Good(k) /\ TriedIn(k.info) = TriedIn(n.info)
  BY <1>4, <1>5, <1>6, InsertedGood
<1> QED BY <1>2, <1>4, <1>5, <1>7, BecomesGood

-----------------------------------------------------------------------------
(* The loops: induction over the numbers of steps, with the claim as a set *)

LEMMA StepByStep ==
    ASSUME NEW P, 0 \in P, \A n \in Nat : n \in P => n + 1 \in P
    PROVE  \A n \in Nat : n \in P
<1> DEFINE bad == {n \in Nat : n \notin P}
<1>1. SUFFICES ASSUME bad # {} PROVE FALSE
  OBVIOUS
<1>2. PICK n \in bad : \A k \in bad : <<k, n>> \notin OpToRel(<, Nat)
  BY <1>1, WFMin, NatLessThanWellFounded
<1>3. n \in Nat /\ n # 0
  BY <1>2
<1>4. n - 1 \in Nat /\ n - 1 < n /\ (n - 1) + 1 = n
  BY ONLY <1>3
<1>5. n - 1 \notin bad
  BY <1>2, <1>3, <1>4 DEF OpToRel
<1> QED BY <1>2, <1>4, <1>5

\* The loop of SelectTried, and what one of its rounds does.
Round(s, i, j) == [s EXCEPT ![j] = s[i], ![i] = s[j]]
Shuffling(tried, picks, n, v) ==
    v = [i \in 0..n |-> IF i = 0 THEN tried
                        ELSE [v[i - 1] EXCEPT ![picks[i]] = v[i - 1][i],
                                              ![i] = v[i - 1][picks[i]]]]
Rounds(tried, picks, n, v) ==
    /\ DOMAIN v = 0..n
    /\ v[0] = tried
    /\ \A i \in 1..n : v[i] = Round(v[i - 1], i, picks[i])

LEMMA RoundsExist ==
    ASSUME NEW tried, NEW picks
    PROVE  \A n \in Nat : \E v : v = [i \in 0..n |-> v[i]] /\ Rounds(tried, picks, n, v)
<1> DEFINE P == {n \in Nat : \E v : v = [i \in 0..n |-> v[i]] /\ Rounds(tried, picks, n, v)}
<1>1. 0 \in P
  <2> DEFINE v == [i \in 0..0 |-> tried]
  <2>1. v = [i \in 0..0 |-> v[i]] /\ Rounds(tried, picks, 0, v)
    BY DEF Rounds
  <2> QED BY <2>1
<1>2. ASSUME NEW n \in Nat, n \in P PROVE n + 1 \in P
  <2>1. PICK v : v = [i \in 0..n |-> v[i]] /\ Rounds(tried, picks, n, v)
    BY <1>2
  <2>2. PICK w : w = [i \in 0..(n + 1) |-> IF i \in 0..n THEN v[i] ELSE Round(v[n], n + 1, picks[n + 1])]
    OBVIOUS
  <2>3. DOMAIN w = 0..(n + 1) /\ \A i \in 0..n : w[i] = v[i]
    BY <2>2
  <2>4. w[n + 1] = Round(v[n], n + 1, picks[n + 1])
    BY <2>2
  <2>5. ASSUME NEW i \in 1..(n + 1) PROVE w[i] = Round(w[i - 1], i, picks[i])
    <3>1. CASE i = n + 1
      <4>1. w[i - 1] = v[n]
        BY <2>3, <3>1
      <4> QED BY <2>4, <3>1, <4>1
    <3>2. CASE i # n + 1
      <4>1. i \in 1..n /\ i - 1 \in 0..n /\ i \in 0..n
        BY <3>2
      <4> QED BY <2>1, <2>3, <4>1 DEF Rounds
    <3> QED BY <3>1, <3>2
  <2>6. w[0] = tried
    BY <2>1, <2>3 DEF Rounds
  <2>7. w = [i \in 0..(n + 1) |-> w[i]]
    BY <2>2
  <2>8. Rounds(tried, picks, n + 1, w)
    BY <2>3, <2>5, <2>6 DEF Rounds
  <2> QED BY <2>7, <2>8
<1> HIDE DEF P
<1>3. \A n \in Nat : n \in P
  BY <1>1, <1>2, StepByStep
<1> QED BY <1>3 DEF P

LEMMA ShuffledRounds ==
    ASSUME NEW tried, NEW picks, NEW n \in Nat
    PROVE  \E v : Rounds(tried, picks, n, v) /\ Shuffled(tried, picks, n) = v[n]
<1>1. PICK w : w = [i \in 0..n |-> w[i]] /\ Rounds(tried, picks, n, w)
  BY RoundsExist
<1>2. \A i \in 0..n : w[i] = IF i = 0 THEN tried
                             ELSE [w[i - 1] EXCEPT ![picks[i]] = w[i - 1][i], ![i] = w[i - 1][picks[i]]]
  <2>1. \A i \in 0..n : i # 0 => i \in 1..n
    OBVIOUS
  <2> QED BY <1>1, <2>1 DEF Rounds, Round
<1>3. Shuffling(tried, picks, n, w)
  BY <1>1, <1>2 DEF Shuffling
<1>4. PICK v : v = CHOOSE x : Shuffling(tried, picks, n, x)
  OBVIOUS
<1>5. Shuffling(tried, picks, n, v)
  BY <1>3, <1>4
<1>6. Shuffled(tried, picks, n) = v[n]
  BY <1>4 DEF Shuffled, Shuffling
<1>7. DOMAIN v = 0..n /\ v[0] = tried
  BY <1>5 DEF Shuffling
<1>8. ASSUME NEW i \in 1..n PROVE v[i] = Round(v[i - 1], i, picks[i])
  <2>1. i \in 0..n /\ i # 0
    OBVIOUS
  <2> QED BY <1>5, <2>1 DEF Shuffling, Round
<1> QED BY <1>6, <1>7, <1>8 DEF Rounds

\* s has the entries of tried, each once, in some order.
Distinct(s) == \A i, j \in DOMAIN s : s[i] = s[j] => i = j
Rearranged(tried, s) ==
    s \in Seq(ToSet(tried)) /\ Len(s) = Len(tried) /\ ToSet(s) = ToSet(tried) /\ Distinct(s)

LEMMA RoundRearranges ==
    ASSUME NEW tried, NEW s, Rearranged(tried, s), NEW i \in 1..Len(tried), NEW j \in 1..Len(tried),
           NEW t, t = Round(s, i, j)
    PROVE  Rearranged(tried, t)
<1>1. s \in Seq(ToSet(tried)) /\ Len(s) = Len(tried) /\ ToSet(s) = ToSet(tried) /\ Distinct(s)
  BY DEF Rearranged
<1>2. DOMAIN s = 1..Len(s) /\ Len(s) \in Nat /\ \A k \in DOMAIN s : s[k] \in ToSet(tried)
  BY ONLY <1>1, SeqFacts
<1>3. i \in DOMAIN s /\ j \in DOMAIN s
  BY <1>1, <1>2
<1>4. t = [s EXCEPT ![j] = s[i], ![i] = s[j]]
  BY DEF Round
<1>5. t \in Seq(ToSet(tried)) /\ Len(t) = Len(s) /\ DOMAIN t = DOMAIN s
  BY ONLY <1>1, <1>2, <1>3, <1>4
<1>6. \A k \in DOMAIN s : t[k] = IF k = i THEN s[j] ELSE IF k = j THEN s[i] ELSE s[k]
  BY ONLY <1>3, <1>4
<1>7. Distinct(t)
  BY ONLY <1>1, <1>3, <1>5, <1>6 DEF Distinct
<1>8. ToSet(t) = ToSet(s)
  <2>1. \A k \in DOMAIN s : \E l \in DOMAIN t : t[l] = s[k]
    BY ONLY <1>3, <1>5, <1>6
  <2>2. \A k \in DOMAIN t : \E l \in DOMAIN s : t[k] = s[l]
    BY ONLY <1>3, <1>5, <1>6
  <2> QED BY ONLY <2>1, <2>2 DEF ToSet
<1> QED BY ONLY <1>1, <1>5, <1>7, <1>8 DEF Rearranged

LEMMA ShuffledRearranges ==
    ASSUME NEW S, NEW tried \in Seq(S), Distinct(tried), NEW n \in Nat, NEW picks \in Picks(n, Len(tried))
    PROVE  Rearranged(tried, Shuffled(tried, picks, n))
<1>1. PICK v : Rounds(tried, picks, n, v) /\ Shuffled(tried, picks, n) = v[n]
  BY ShuffledRounds
<1>2. \A i \in 1..n : picks[i] \in 1..Len(tried) /\ i \in 1..Len(tried)
  <2>1. Len(tried) \in Nat /\ \A i \in 1..n : picks[i] \in 1..Len(tried) /\ picks[i] >= i
    BY DEF Picks
  <2> QED BY ONLY <2>1
<1> DEFINE P == {k \in Nat : k \in 0..n => Rearranged(tried, v[k])}
<1>3. 0 \in P
  <2>1. tried \in Seq(ToSet(tried))
    BY DEF ToSet
  <2>2. Rearranged(tried, tried)
    BY <2>1 DEF Rearranged
  <2> QED BY <1>1, <2>2 DEF Rounds
<1>4. ASSUME NEW k \in Nat, k \in P PROVE k + 1 \in P
  <2>1. SUFFICES ASSUME k + 1 \in 0..n PROVE Rearranged(tried, v[k + 1])
    OBVIOUS
  <2>2. k \in 0..n /\ k + 1 \in 1..n /\ (k + 1) - 1 = k
    BY <2>1
  <2>3. v[k + 1] = Round(v[k], k + 1, picks[k + 1])
    BY <1>1, <2>2 DEF Rounds
  <2>4. Rearranged(tried, v[k])
    BY <1>4, <2>2
  <2>5. k + 1 \in 1..Len(tried) /\ picks[k + 1] \in 1..Len(tried)
    BY <1>2, <2>2
  <2> QED BY ONLY <2>3, <2>4, <2>5, RoundRearranges
<1> HIDE DEF P
<1>5. n \in P
  BY <1>3, <1>4, StepByStep
<1>6. Rearranged(tried, v[n])
  BY <1>5 DEF P
<1> QED BY <1>1, <1>6

-----------------------------------------------------------------------------
(* GetAddr_ *)

RandomRounds(m, picks, n, v) ==
    /\ DOMAIN v = 0..n
    /\ v[0] = m
    /\ \A i \in 1..n : v[i] = SwapRandom(v[i - 1], i, picks[i])

LEMMA RandomRoundsExist ==
    ASSUME NEW m, NEW picks
    PROVE  \A n \in Nat : \E v : v = [i \in 0..n |-> v[i]] /\ RandomRounds(m, picks, n, v)
<1> DEFINE P == {n \in Nat : \E v : v = [i \in 0..n |-> v[i]] /\ RandomRounds(m, picks, n, v)}
<1>1. 0 \in P
  <2> DEFINE v == [i \in 0..0 |-> m]
  <2>1. v = [i \in 0..0 |-> v[i]] /\ RandomRounds(m, picks, 0, v)
    BY DEF RandomRounds
  <2> QED BY <2>1
<1>2. ASSUME NEW n \in Nat, n \in P PROVE n + 1 \in P
  <2>1. PICK v : v = [i \in 0..n |-> v[i]] /\ RandomRounds(m, picks, n, v)
    BY <1>2
  <2>2. PICK w : w = [i \in 0..(n + 1) |-> IF i \in 0..n THEN v[i] ELSE SwapRandom(v[n], n + 1, picks[n + 1])]
    OBVIOUS
  <2>3. DOMAIN w = 0..(n + 1) /\ \A i \in 0..n : w[i] = v[i]
    BY <2>2
  <2>4. w[n + 1] = SwapRandom(v[n], n + 1, picks[n + 1])
    BY <2>2
  <2>5. ASSUME NEW i \in 1..(n + 1) PROVE w[i] = SwapRandom(w[i - 1], i, picks[i])
    <3>1. CASE i = n + 1
      <4>1. w[i - 1] = v[n]
        BY <2>3, <3>1
      <4> QED BY <2>4, <3>1, <4>1
    <3>2. CASE i # n + 1
      <4>1. i \in 1..n /\ i - 1 \in 0..n /\ i \in 0..n
        BY <3>2
      <4> QED BY <2>1, <2>3, <4>1 DEF RandomRounds
    <3> QED BY <3>1, <3>2
  <2>6. w[0] = m
    BY <2>1, <2>3 DEF RandomRounds
  <2>7. w = [i \in 0..(n + 1) |-> w[i]]
    BY <2>2
  <2>8. RandomRounds(m, picks, n + 1, w)
    BY <2>3, <2>5, <2>6 DEF RandomRounds
  <2> QED BY <2>7, <2>8
<1> HIDE DEF P
<1>3. \A n \in Nat : n \in P
  BY <1>1, <1>2, StepByStep
<1> QED BY <1>3 DEF P

RandomShuffling(m, picks, nNodes, v) ==
    v = [n \in 0..nNodes |-> IF n = 0 THEN m ELSE SwapRandom(v[n - 1], n, picks[n])]

LEMMA ShuffledRandomRounds ==
    ASSUME NEW m, NEW picks, NEW n \in Nat
    PROVE  \E v : RandomRounds(m, picks, n, v) /\ ShuffledRandom(m, picks, n) = v[n]
<1>1. PICK w : w = [i \in 0..n |-> w[i]] /\ RandomRounds(m, picks, n, w)
  BY RandomRoundsExist
<1>2. \A i \in 0..n : w[i] = IF i = 0 THEN m ELSE SwapRandom(w[i - 1], i, picks[i])
  <2>1. \A i \in 0..n : i # 0 => i \in 1..n
    OBVIOUS
  <2> QED BY <1>1, <2>1 DEF RandomRounds
<1>3. RandomShuffling(m, picks, n, w)
  BY <1>1, <1>2 DEF RandomShuffling
<1>4. PICK v : v = CHOOSE x : RandomShuffling(m, picks, n, x)
  OBVIOUS
<1>5. RandomShuffling(m, picks, n, v)
  BY <1>3, <1>4
<1>6. ShuffledRandom(m, picks, n) = v[n]
  BY <1>4 DEF ShuffledRandom, RandomShuffling
<1>7. DOMAIN v = 0..n /\ v[0] = m
  BY <1>5 DEF RandomShuffling
<1>8. ASSUME NEW i \in 1..n PROVE v[i] = SwapRandom(v[i - 1], i, picks[i])
  <2>1. i \in 0..n /\ i # 0
    OBVIOUS
  <2> QED BY <1>5, <2>1 DEF RandomShuffling
<1> QED BY <1>6, <1>7, <1>8 DEF RandomRounds

\* k differs from m only in the order of vRandom.
Kept(m, k) ==
    /\ IsManager(k) /\ InfoInv(k.info) /\ RandomInv(k.info, k.random)
    /\ SameEntries(m.info, k.info) /\ Len(k.random) = Len(m.random)
    /\ k.new = m.new /\ k.tried = m.tried /\ k.nNew = m.nNew /\ k.nTried = m.nTried

LEMMA SwapKept ==
    ASSUME NEW m, NEW k, Kept(m, k), NEW i \in DOMAIN k.random, NEW j \in DOMAIN k.random,
           NEW n, n = SwapRandom(k, i, j)
    PROVE  Kept(m, n)
<1>1. /\ IsManager(k) /\ InfoInv(k.info) /\ RandomInv(k.info, k.random)
      /\ SameEntries(m.info, k.info) /\ Len(k.random) = Len(m.random)
      /\ k.new = m.new /\ k.tried = m.tried /\ k.nNew = m.nNew /\ k.nTried = m.nTried
  BY DEF Kept
<1>2. /\ IsManager(n)
      /\ InfoInv(n.info) /\ RandomInv(n.info, n.random) /\ SameEntries(k.info, n.info)
      /\ Len(n.random) = Len(k.random)
      /\ n.new = k.new /\ n.tried = k.tried /\ n.nNew = k.nNew /\ n.nTried = k.nTried
  BY <1>1, SwapKeeps
<1>3. SameEntries(m.info, n.info)
  BY ONLY <1>1, <1>2 DEF SameEntries, SameEntry
<1> QED BY ONLY <1>1, <1>2, <1>3 DEF Kept

LEMMA ShuffledKept ==
    ASSUME NEW m, IsManager(m), Good(m), NEW n \in Nat, NEW picks \in Picks(n, Len(m.random))
    PROVE  Kept(m, ShuffledRandom(m, picks, n))
<1>1. PICK v : RandomRounds(m, picks, n, v) /\ ShuffledRandom(m, picks, n) = v[n]
  BY ShuffledRandomRounds
<1>2. PICK len : len = Len(m.random) /\ len \in Nat
  BY SeqFacts DEF Good, RandomInv
<1>3. \A i \in 1..n : picks[i] \in 1..len /\ i \in 1..len
  <2>1. \A i \in 1..n : picks[i] \in 1..len /\ picks[i] >= i
    BY <1>2 DEF Picks
  <2> QED BY ONLY <1>2, <2>1
<1> DEFINE P == {k \in Nat : k \in 0..n => Kept(m, v[k])}
<1>4. 0 \in P
  <2>1. Kept(m, m)
    BY DEF Kept, Good, SameEntries, SameEntry
  <2> QED BY <1>1, <2>1 DEF RandomRounds
<1>5. ASSUME NEW k \in Nat, k \in P PROVE k + 1 \in P
  <2>1. SUFFICES ASSUME k + 1 \in 0..n PROVE Kept(m, v[k + 1])
    OBVIOUS
  <2>2. k \in 0..n /\ k + 1 \in 1..n /\ (k + 1) - 1 = k
    BY <2>1
  <2>3. v[k + 1] = SwapRandom(v[k], k + 1, picks[k + 1])
    BY <1>1, <2>2 DEF RandomRounds
  <2>4. Kept(m, v[k])
    BY <1>5, <2>2
  <2>5. DOMAIN v[k].random = 1..len
    <3>1. RandomInv(v[k].info, v[k].random) /\ Len(v[k].random) = len
      BY ONLY <1>2, <2>4 DEF Kept
    <3> QED BY ONLY <3>1, SeqFacts DEF RandomInv
  <2>6. k + 1 \in DOMAIN v[k].random /\ picks[k + 1] \in DOMAIN v[k].random
    BY ONLY <1>3, <2>2, <2>5
  <2> QED BY ONLY <2>3, <2>4, <2>6, SwapKept
<1> HIDE DEF P
<1>6. n \in P
  BY <1>4, <1>5, StepByStep
<1>7. Kept(m, v[n])
  BY <1>6 DEF P
<1> QED BY <1>1, <1>7

LEMMA SameParts ==
    ASSUME NEW f, NEW g, SameEntries(f, g)
    PROVE  NewIn(g) = NewIn(f) /\ TriedIn(g) = TriedIn(f)
BY DEF SameEntries, SameEntry, NewIn, TriedIn

LEMMA KeptGood ==
    ASSUME NEW m, Good(m), NEW k, Kept(m, k)
    PROVE  Good(k) /\ TriedIn(k.info) = TriedIn(m.info)
<1>1. PICK f, g : f = m.info /\ g = k.info
  OBVIOUS
<1>2. /\ InfoInv(f) /\ NewInv(f, m.new) /\ RefsInv(f) /\ TriedInv(f, m.tried)
      /\ CountInv(f, m.nNew, m.nTried) /\ SizeInv(m.new, m.tried)
  BY <1>1 DEF Good
<1>3. /\ InfoInv(g) /\ RandomInv(g, k.random) /\ SameEntries(f, g)
      /\ k.new = m.new /\ k.tried = m.tried /\ k.nNew = m.nNew /\ k.nTried = m.nTried
  BY <1>1 DEF Kept
<1>4. NewIn(g) = NewIn(f) /\ TriedIn(g) = TriedIn(f)
  BY ONLY <1>3, SameParts
<1>5. DOMAIN g = DOMAIN f /\ \A a \in DOMAIN f : g[a].nRefCount = f[a].nRefCount
  BY ONLY <1>3 DEF SameEntries, SameEntry
<1>6. NewInv(g, k.new)
  BY ONLY <1>2, <1>3, <1>4, <1>5 DEF NewInv
<1>7. RefsInv(g)
  BY ONLY <1>2, <1>4, <1>5 DEF RefsInv, NewIn
<1>8. TriedInv(g, k.tried)
  BY ONLY <1>2, <1>3, <1>4, TriedSame
<1>9. CountInv(g, k.nNew, k.nTried)
  BY ONLY <1>2, <1>3, <1>4 DEF CountInv
<1>10. SizeInv(k.new, k.tried)
  BY ONLY <1>2, <1>3
<1> QED BY <1>1, <1>3, <1>4, <1>6, <1>7, <1>8, <1>9, <1>10 DEF Good

LEMMA MinOfTwo ==
    ASSUME NEW x \in Nat, NEW y \in Nat
    PROVE  Min({x, y}) = IF x <= y THEN x ELSE y
BY DEF Min

LEMMA GetAddrGood ==
    ASSUME Inv, GetAddr
    PROVE  Inv' /\ TriedIn(mapInfo') = TriedIn(mapInfo)
<1>1. PICK m : m = Manager
  OBVIOUS
<1>2. IsManager(m) /\ Good(m) /\ m.info = mapInfo /\ m.random = vRandom
  BY <1>1, ManagerIs DEF Inv, Manager
<1>3. PICK nNodes : nNodes = Min({(MaxPercent * Len(vRandom)) \div 100, MaxNodes})
  OBVIOUS
<1>4. nNodes \in Nat
  <2>1. Len(vRandom) \in Nat
    BY <1>2, SeqFacts DEF Good, RandomInv
  <2>2. MaxPercent \in Nat /\ MaxNodes \in Nat
    BY AddrManAssumption DEF AddrManAssumption
  <2>3. MaxPercent * Len(vRandom) \in Nat
    BY ONLY <2>1, <2>2
  <2>4. (MaxPercent * Len(vRandom)) \div 100 \in Nat
    BY ONLY <2>3
  <2> QED BY ONLY <1>3, <2>2, <2>4, MinOfTwo
<1>5. PICK p \in Picks(nNodes, Len(vRandom)) : Becomes(ShuffledRandom(m, p, nNodes))
  BY <1>1, <1>3 DEF GetAddr
<1>6. PICK k : k = ShuffledRandom(m, p, nNodes)
  OBVIOUS
<1>7. Kept(m, k)
  BY <1>2, <1>4, <1>5, <1>6, ShuffledKept
<1>8. Good(k) /\ TriedIn(k.info) = TriedIn(m.info)
  BY <1>2, <1>7, KeptGood
<1> QED BY <1>2, <1>5, <1>6, <1>8, BecomesGood

-----------------------------------------------------------------------------
(* MakeTried *)

\* A tried bucket gets other contents: the invariant of the tried buckets holds if
\* it does in that bucket and what is in the others is still tried.
LEMMA BucketReplaced ==
    ASSUME NEW f, NEW g, InfoInv(g), NEW tried, TriedInv(f, tried), NEW b \in TriedBuckets,
           NEW s \in Seq(TriedIn(g)), Distinct(s), \A i \in DOMAIN s : TriedBucket[s[i]] = b,
           \A x \in TriedIn(g) : TriedBucket[x] = b => x \in ToSet(s),
           \A x : TriedBucket[x] # b => (x \in TriedIn(f) <=> x \in TriedIn(g)),
           NEW tried2, tried2 = [tried EXCEPT ![b] = s]
    PROVE  TriedInv(g, tried2)
<1>1. /\ tried \in [TriedBuckets -> Seq(TriedIn(f))]
      /\ \A c \in TriedBuckets : \A i \in DOMAIN tried[c] : TriedBucket[tried[c][i]] = c
      /\ \A c \in TriedBuckets : \A i, j \in DOMAIN tried[c] : tried[c][i] = tried[c][j] => i = j
      /\ \A a \in TriedIn(f) : a \in ToSet(tried[TriedBucket[a]])
  BY DEF TriedInv
<1>2. /\ DOMAIN tried2 = TriedBuckets /\ tried2[b] = s
      /\ \A c \in TriedBuckets \ {b} : tried2[c] = tried[c]
  BY ONLY <1>1, tried2 = [tried EXCEPT ![b] = s], b \in TriedBuckets
<1>3. ASSUME NEW c \in TriedBuckets, c # b PROVE tried[c] \in Seq(TriedIn(g))
  <2>1. PICK q : q = tried[c]
    OBVIOUS
  <2>2. q \in Seq(TriedIn(f)) /\ \A i \in DOMAIN q : TriedBucket[q[i]] = c
    BY <1>1, <2>1
  <2>3. DOMAIN q = 1..Len(q) /\ Len(q) \in Nat /\ \A i \in DOMAIN q : q[i] \in TriedIn(f)
    BY ONLY <2>2, SeqFacts
  <2>4. \A i \in DOMAIN q : q[i] \in TriedIn(g)
    BY <1>3, <2>2, <2>3
  <2>5. q \in Seq(TriedIn(g))
    BY ONLY <2>2, <2>3, <2>4
  <2> QED BY <2>1, <2>5
<1>4. tried2 \in [TriedBuckets -> Seq(TriedIn(g))]
  <2>1. \A c \in TriedBuckets : tried2[c] \in Seq(TriedIn(g))
    BY <1>2, <1>3
  <2>2. tried2 = [c \in TriedBuckets |-> tried2[c]]
    BY <1>1
  <2> QED BY ONLY <2>1, <2>2
<1>5. \A c \in TriedBuckets : \A i \in DOMAIN tried2[c] : TriedBucket[tried2[c][i]] = c
  BY <1>1, <1>2
<1>6. \A c \in TriedBuckets : \A i, j \in DOMAIN tried2[c] : tried2[c][i] = tried2[c][j] => i = j
  BY <1>1, <1>2 DEF Distinct
<1>7. ASSUME NEW a \in TriedIn(g) PROVE a \in ToSet(tried2[TriedBucket[a]])
  <2>1. CASE TriedBucket[a] = b
    BY <1>2, <2>1
  <2>2. CASE TriedBucket[a] # b
    <3>1. TriedBucket[a] \in TriedBuckets
      <4>1. a \in Addrs
        BY <1>7 DEF InfoInv, TriedIn
      <4> QED BY <4>1, AddrManAssumption DEF AddrManAssumption
    <3> QED BY <1>1, <1>2, <2>2, <3>1
  <2> QED BY <2>1, <2>2
<1> QED BY <1>4, <1>5, <1>6, <1>7 DEF TriedInv

\* MakeTried, first part: a is tried, and in no bucket.
Left(m, n, a) ==
    /\ IsManager(n) /\ InfoInv(n.info) /\ RandomInv(n.info, n.random)
    /\ NewInv(n.info, n.new) /\ RefsInv(n.info)
    /\ DOMAIN n.info = DOMAIN m.info
    /\ NewIn(n.info) = NewIn(m.info) \ {a} /\ TriedIn(n.info) = TriedIn(m.info) \cup {a}
    /\ \A b \in NewBuckets : n.new[b] = m.new[b] \ {a}
    /\ n.tried = m.tried
    /\ n.nNew = Cardinality(NewIn(n.info))
    /\ n.nTried = m.nTried
    /\ SizeInv(n.new, n.tried)

LEMMA LeavingNew ==
    ASSUME NEW m, IsManager(m), Good(m), NEW a \in NewIn(m.info), NEW n, n = LeftNew(m, a)
    PROVE  Left(m, n, a)
<1>1. PICK f, r, u, tried, p, t :
        m = [info |-> f, random |-> r, new |-> u, tried |-> tried, nNew |-> p, nTried |-> t]
  BY DEF IsManager
<1>2. m.info = f /\ m.random = r /\ m.new = u /\ m.tried = tried /\ m.nNew = p /\ m.nTried = t
  BY ONLY <1>1
<1>3. /\ InfoInv(f) /\ RandomInv(f, r) /\ NewInv(f, u) /\ RefsInv(f) /\ TriedInv(f, tried)
      /\ CountInv(f, p, t) /\ SizeInv(u, tried)
  BY <1>2 DEF Good
<1>4. PICK c, h, g, w : /\ c = Cardinality(Refs(u, a))
                        /\ h = [f EXCEPT ![a].nRefCount = @ - c]
                        /\ g = [h EXCEPT ![a].fInTried = TRUE]
                        /\ w = [b \in NewBuckets |-> u[b] \ {a}]
  OBVIOUS
<1>5. n = [m EXCEPT !.info = g, !.new = w, !.nNew = @ - 1]
  <2>1. n = [m EXCEPT !.new = w, !.info[a].nRefCount = @ - c, !.info[a].fInTried = TRUE, !.nNew = @ - 1]
    BY <1>2, <1>4 DEF LeftNew, Refs
  <2>2. PICK j : j = [m EXCEPT !.new = w, !.info[a].nRefCount = @ - c]
    OBVIOUS
  <2>3. j = [m EXCEPT !.new = w, !.info = h]
    BY ONLY <1>2, <1>4, <2>2
  <2>4. j.info = h
    BY ONLY <1>1, <2>3
  <2>5. n = [j EXCEPT !.info[a].fInTried = TRUE, !.nNew = @ - 1]
    BY ONLY <2>1, <2>2
  <2>6. n = [j EXCEPT !.info = g, !.nNew = @ - 1]
    BY ONLY <1>4, <2>4, <2>5
  <2> QED BY ONLY <1>1, <2>3, <2>6
<1>6. n = [info |-> g, random |-> r, new |-> w, tried |-> tried, nNew |-> p - 1, nTried |-> t]
  BY ONLY <1>1, <1>5
<1>7. IsManager(n)
  BY ONLY <1>6 DEF IsManager
<1>8. n.info = g /\ n.random = r /\ n.new = w /\ n.tried = tried /\ n.nNew = p - 1 /\ n.nTried = t
  BY ONLY <1>6
<1>9. f \in [DOMAIN f -> Info] /\ DOMAIN f \subseteq Addrs /\ a \in DOMAIN f /\ ~f[a].fInTried /\ a \in NewIn(f)
  BY <1>2, <1>3 DEF InfoInv, NewIn
<1>10. DOMAIN g = DOMAIN f
  BY ONLY <1>4
<1>11. c \in Nat /\ f[a].nRefCount = c
  BY <1>3, <1>4, <1>9, RefsFinite DEF NewInv
<1>12. ASSUME NEW y \in DOMAIN f
       PROVE  /\ g[y] \in Info /\ g[y].nRandomPos = f[y].nRandomPos
              /\ g[y].fInTried = IF y = a THEN TRUE ELSE f[y].fInTried
              /\ g[y].nRefCount = IF y = a THEN 0 ELSE f[y].nRefCount
  <2>1. f[y] \in Info
    BY ONLY <1>9, <1>12
  <2>2. CASE y = a
    <3>1. h[y] = [f[y] EXCEPT !.nRefCount = @ - c] /\ g[y] = [h[y] EXCEPT !.fInTried = TRUE]
      BY ONLY <1>4, <1>9, <2>2
    <3>2. f[y].nRefCount - c = 0
      BY ONLY <1>11, <2>2
    <3>3. h[y] = [f[y] EXCEPT !.nRefCount = 0]
      BY ONLY <3>1, <3>2
    <3>4. PICK d, e : d = g[y] /\ e = f[y]
      OBVIOUS
    <3>5. e \in Info /\ d = [[e EXCEPT !.nRefCount = 0] EXCEPT !.fInTried = TRUE]
      BY ONLY <2>1, <3>1, <3>3, <3>4
    <3>6. PICK so \in Sources, rc \in Int, it \in BOOLEAN, rp \in Nat :
            e = [source |-> so, nRefCount |-> rc, fInTried |-> it, nRandomPos |-> rp]
      BY ONLY <3>5 DEF Info
    <3>7. d = [source |-> so, nRefCount |-> 0, fInTried |-> TRUE, nRandomPos |-> rp]
      BY ONLY <3>5, <3>6
    <3>8. d \in Info /\ d.nRandomPos = e.nRandomPos /\ d.fInTried = TRUE /\ d.nRefCount = 0
      BY ONLY <3>6, <3>7 DEF Info
    <3> QED BY ONLY <2>2, <3>4, <3>8
  <2>3. CASE y # a
    <3>1. g[y] = f[y]
      BY ONLY <1>4, <1>9, <1>12, <2>3
    <3>2. f[y].fInTried \in BOOLEAN
      BY ONLY <2>1 DEF Info
    <3> QED BY ONLY <2>1, <2>3, <3>1, <3>2
  <2> QED BY <2>2, <2>3
<1>13. InfoInv(g)
  <2>1. g \in [DOMAIN g -> Info]
    BY ONLY <1>4, <1>9, <1>10, <1>12
  <2> QED BY ONLY <1>9, <1>10, <2>1 DEF InfoInv
<1>14. RandomInv(g, r)
  BY <1>3, <1>10, <1>12, SamePositions
<1>15. NewIn(g) = NewIn(f) \ {a} /\ TriedIn(g) = TriedIn(f) \cup {a}
  BY ONLY <1>9, <1>10, <1>12 DEF NewIn, TriedIn
<1>16. u \in [NewBuckets -> SUBSET NewIn(f)] /\ \A x \in DOMAIN f : f[x].nRefCount = Cardinality(Refs(u, x))
  BY ONLY <1>3 DEF NewInv
<1>17. NewInv(g, w)
  <2>1. w \in [NewBuckets -> SUBSET NewIn(g)]
    BY ONLY <1>4, <1>15, <1>16
  <2>2. Refs(w, a) = {} /\ \A x : x # a => Refs(w, x) = Refs(u, x)
    BY ONLY <1>4 DEF Refs
  <2>3. Cardinality(Refs(w, a)) = 0
    BY ONLY <2>2, FS_EmptySet
  <2>4. \A x \in DOMAIN g : g[x].nRefCount = Cardinality(Refs(w, x))
    BY ONLY <1>10, <1>12, <1>16, <2>2, <2>3
  <2> QED BY ONLY <2>1, <2>4 DEF NewInv
<1>18. RefsInv(g)
  BY ONLY <1>3, <1>10, <1>12, <1>15 DEF RefsInv, NewIn
<1>19. IsFiniteSet(DOMAIN f) /\ IsFiniteSet(NewIn(f)) /\ p = Cardinality(NewIn(f))
  BY ONLY <1>3, KnownFinite, PartsFinite DEF CountInv
<1>20. p - 1 = Cardinality(NewIn(g))
  BY ONLY <1>9, <1>15, <1>19, FS_RemoveElement
<1>21. SizeInv(w, tried)
  <2>1. ASSUME NEW b \in NewBuckets PROVE Cardinality(w[b]) <= NewSize
    <3>1. u[b] \in SUBSET DOMAIN f /\ w[b] \in SUBSET u[b] /\ Cardinality(u[b]) <= NewSize
      BY <1>3, <1>4, <1>16 DEF SizeInv, NewIn
    <3>2. IsFiniteSet(u[b])
      BY ONLY <1>19, <3>1, FS_Subset
    <3>3. Cardinality(w[b]) <= Cardinality(u[b]) /\ IsFiniteSet(w[b])
      BY ONLY <3>1, <3>2, FS_Subset
    <3>4. Cardinality(w[b]) \in Nat /\ Cardinality(u[b]) \in Nat /\ NewSize \in Nat
      BY ONLY <3>2, <3>3, FS_CardinalityType, AddrManAssumption DEF AddrManAssumption
    <3> QED BY ONLY <3>1, <3>3, <3>4
  <2> QED BY <1>3, <2>1 DEF SizeInv
<1>22. \A b \in NewBuckets : w[b] = u[b] \ {a}
  BY ONLY <1>4
<1> QED BY ONLY <1>2, <1>7, <1>8, <1>10, <1>13, <1>14, <1>15, <1>17, <1>18, <1>20, <1>21, <1>22 DEF Left

\* The tried bucket of a has place.
LEMMA PlacedGood ==
    ASSUME NEW m, Good(m), NEW a \in NewIn(m.info), NEW n, Left(m, n, a),
           Len(m.tried[TriedBucket[a]]) < TriedSize, NEW k, k = Placed(n, a)
    PROVE  Good(k) /\ DOMAIN k.info = DOMAIN m.info
<1>1. PICK g, r, w, tried, p, t :
        n = [info |-> g, random |-> r, new |-> w, tried |-> tried, nNew |-> p, nTried |-> t]
  BY DEF Left, IsManager
<1>2. n.info = g /\ n.random = r /\ n.new = w /\ n.tried = tried /\ n.nNew = p /\ n.nTried = t
  BY ONLY <1>1
<1>3. PICK f, b, s, tried2 : /\ f = m.info /\ b = TriedBucket[a] /\ s = Append(tried[b], a)
                             /\ tried2 = [tried EXCEPT ![b] = s]
  OBVIOUS
<1>4. k = [n EXCEPT !.tried = tried2, !.nTried = @ + 1]
  <2>1. k = [n EXCEPT !.tried[b] = Append(@, a), !.nTried = @ + 1]
    BY <1>3 DEF Placed
  <2>2. tried2 = [n.tried EXCEPT ![b] = Append(@, a)]
    BY ONLY <1>2, <1>3
  <2> QED BY ONLY <1>1, <2>1, <2>2
<1>5. k = [info |-> g, random |-> r, new |-> w, tried |-> tried2, nNew |-> p, nTried |-> t + 1]
  BY ONLY <1>1, <1>4
<1>6. k.info = g /\ k.random = r /\ k.new = w /\ k.tried = tried2 /\ k.nNew = p /\ k.nTried = t + 1
  BY ONLY <1>5
<1>7. /\ InfoInv(g) /\ RandomInv(g, r) /\ NewInv(g, w) /\ RefsInv(g)
      /\ DOMAIN g = DOMAIN f
      /\ NewIn(g) = NewIn(f) \ {a} /\ TriedIn(g) = TriedIn(f) \cup {a}
      /\ tried = m.tried /\ p = Cardinality(NewIn(g)) /\ t = m.nTried /\ SizeInv(w, tried)
  BY <1>2, <1>3 DEF Left
<1>8. InfoInv(f) /\ RandomInv(f, m.random) /\ TriedInv(f, tried) /\ t = Cardinality(TriedIn(f))
  BY <1>3, <1>7 DEF Good, CountInv
<1>9. a \in NewIn(f) /\ a \notin TriedIn(f) /\ a \in Addrs
  BY <1>3, <1>8 DEF NewIn, TriedIn, InfoInv
<1>10. b \in TriedBuckets
  BY <1>3, <1>9, AddrManAssumption DEF AddrManAssumption
<1>11. PICK q : /\ q = tried[b] /\ q \in Seq(TriedIn(f)) /\ \A i \in DOMAIN q : TriedBucket[q[i]] = b
                /\ Distinct(q) /\ \A x \in TriedIn(f) : TriedBucket[x] = b => x \in ToSet(q)
  BY <1>8, <1>10 DEF TriedInv, Distinct
<1>12. DOMAIN q = 1..Len(q) /\ Len(q) \in Nat /\ \A i \in DOMAIN q : q[i] \in TriedIn(f)
  BY ONLY <1>11, SeqFacts
<1>13. /\ s \in Seq(TriedIn(g)) /\ Len(s) = Len(q) + 1 /\ DOMAIN s = 1..(Len(q) + 1)
       /\ s[Len(q) + 1] = a /\ \A i \in DOMAIN q : s[i] = q[i]
  <2>1. s = Append(q, a) /\ q \in Seq(TriedIn(g)) /\ a \in TriedIn(g)
    <3>1. q \in Seq(TriedIn(g))
      BY ONLY <1>7, <1>11, <1>12
    <3> QED BY <1>3, <1>7, <1>11, <3>1
  <2> QED BY ONLY <1>12, <2>1
<1>14. \A i \in DOMAIN s : i = Len(q) + 1 \/ i \in DOMAIN q
  BY ONLY <1>12, <1>13
<1>15. Distinct(s)
  BY ONLY <1>9, <1>11, <1>12, <1>13, <1>14 DEF Distinct
<1>16. \A i \in DOMAIN s : TriedBucket[s[i]] = b
  BY ONLY <1>3, <1>11, <1>13, <1>14
<1>17. ASSUME NEW x \in TriedIn(g), TriedBucket[x] = b PROVE x \in ToSet(s)
  <2>1. CASE x = a
    BY ONLY <1>12, <1>13, <2>1 DEF ToSet
  <2>2. CASE x # a
    <3>1. PICK i \in DOMAIN q : q[i] = x
      BY <1>7, <1>11, <1>17, <2>2 DEF ToSet
    <3>2. i \in DOMAIN s /\ s[i] = x
      BY ONLY <1>12, <1>13, <3>1
    <3> QED BY ONLY <3>2 DEF ToSet
  <2> QED BY <2>1, <2>2
<1>18. \A x : TriedBucket[x] # b => (x \in TriedIn(f) <=> x \in TriedIn(g))
  BY ONLY <1>3, <1>7
<1>19. TriedInv(g, tried2)
  BY ONLY <1>3, <1>7, <1>8, <1>10, <1>13, <1>15, <1>16, <1>17, <1>18, BucketReplaced
<1>20. CountInv(g, p, t + 1)
  <2>1. IsFiniteSet(TriedIn(f))
    BY ONLY <1>8, KnownFinite, PartsFinite
  <2>2. Cardinality(TriedIn(g)) = Cardinality(TriedIn(f)) + 1
    BY ONLY <1>7, <1>9, <2>1, FS_AddElement
  <2> QED BY ONLY <1>7, <1>8, <2>2 DEF CountInv
<1>21. SizeInv(w, tried2)
  <2>1. Len(s) <= TriedSize
    <3>1. Len(q) < TriedSize /\ TriedSize \in Nat
      BY <1>3, <1>7, <1>11, AddrManAssumption DEF AddrManAssumption
    <3> QED BY ONLY <1>12, <1>13, <3>1
  <2>2. \A c \in TriedBuckets : tried2[c] = IF c = b THEN s ELSE tried[c]
    BY <1>3, <1>8 DEF TriedInv
  <2> QED BY ONLY <1>7, <2>1, <2>2 DEF SizeInv
<1> QED BY ONLY <1>3, <1>6, <1>7, <1>19, <1>20, <1>21 DEF Good

\* old takes the place in a new bucket that home or a's leaving has, and a its place
\* in the tried bucket.
Evictee(n, a, origin, e, old, home, to) ==
    /\ old = e.tried[e.nOldestPos] /\ old \in DOMAIN n.info
    /\ home = NewBucket[old][n.info[old].source]
    /\ to = IF Cardinality(n.new[home]) < NewSize THEN home ELSE origin
EvictedTo(n, k, a, e, old, to) ==
    /\ k.new = With(n.new, to, old)
    /\ k.random = n.random /\ k.nNew = n.nNew + 1 /\ k.nTried = n.nTried
    /\ k.tried = Put(n.tried, TriedBucket[a], Put(e.tried, e.nOldestPos, a))
    /\ InfoInv(k.info) /\ DOMAIN k.info = DOMAIN n.info
    /\ \A y \in DOMAIN n.info :
          /\ k.info[y].nRandomPos = n.info[y].nRandomPos
          /\ k.info[y].fInTried = IF y = old THEN FALSE ELSE n.info[y].fInTried
          /\ k.info[y].nRefCount = IF y = old THEN 1 ELSE n.info[y].nRefCount

LEMMA EvictedFields ==
    ASSUME NEW n, IsManager(n), InfoInv(n.info), NEW a, NEW origin, NEW e, NEW old, NEW home, NEW to,
           Evictee(n, a, origin, e, old, home, to), NEW k, k = Evicted(n, a, origin, e)
    PROVE  EvictedTo(n, k, a, e, old, to)
<1>0. /\ old = e.tried[e.nOldestPos] /\ old \in DOMAIN n.info
      /\ home = NewBucket[old][n.info[old].source]
      /\ to = IF Cardinality(n.new[home]) < NewSize THEN home ELSE origin
  BY DEF Evictee
<1>1. PICK g, r, w, tried, p, t :
        n = [info |-> g, random |-> r, new |-> w, tried |-> tried, nNew |-> p, nTried |-> t]
  BY DEF IsManager
<1>2. n.info = g /\ n.random = r /\ n.new = w /\ n.tried = tried /\ n.nNew = p /\ n.nTried = t
  BY ONLY <1>1
<1>3. PICK b, s, tried2, w2, h, h2 :
        /\ b = TriedBucket[a] /\ s = [e.tried EXCEPT ![e.nOldestPos] = a]
        /\ tried2 = [n.tried EXCEPT ![b] = s] /\ w2 = With(n.new, to, old)
        /\ h = [g EXCEPT ![old].fInTried = FALSE]
        /\ h2 = [h EXCEPT ![old].nRefCount = 1]
  OBVIOUS
<1>4. k = [n EXCEPT !.info[old].fInTried = FALSE, !.info[old].nRefCount = 1, !.new[to] = @ \cup {old},
                    !.nNew = @ + 1, !.tried[b] = s]
  BY <1>0, <1>3 DEF Evicted
<1>5. k = [info |-> h2, random |-> r, new |-> w2, tried |-> tried2, nNew |-> p + 1, nTried |-> t]
  <2>1. PICK j : j = [n EXCEPT !.info[old].fInTried = FALSE]
    OBVIOUS
  <2>2. j = [n EXCEPT !.info = h]
    BY ONLY <1>2, <1>3, <2>1
  <2>3. j = [info |-> h, random |-> r, new |-> w, tried |-> tried, nNew |-> p, nTried |-> t]
    BY ONLY <1>1, <2>2
  <2>4. j.info = h /\ j.new = n.new /\ j.tried = n.tried
    BY ONLY <1>2, <2>3
  <2>5. k = [j EXCEPT !.info[old].nRefCount = 1, !.new[to] = @ \cup {old}, !.nNew = @ + 1, !.tried[b] = s]
    BY ONLY <1>4, <2>1
  <2>6. k = [j EXCEPT !.info = h2, !.new = w2, !.nNew = @ + 1, !.tried = tried2]
    BY ONLY <1>3, <2>4, <2>5 DEF With
  <2> QED BY ONLY <2>3, <2>6
<1>6. k.info = h2 /\ k.random = r /\ k.new = w2 /\ k.tried = tried2 /\ k.nNew = p + 1 /\ k.nTried = t
  BY ONLY <1>5
<1>7. g \in [DOMAIN g -> Info] /\ DOMAIN g \subseteq Addrs /\ old \in DOMAIN g
  BY <1>0, <1>2 DEF InfoInv
<1>8. DOMAIN h2 = DOMAIN g
  BY ONLY <1>3
<1>9. ASSUME NEW y \in DOMAIN g
      PROVE  /\ h2[y] \in Info /\ h2[y].nRandomPos = g[y].nRandomPos
             /\ h2[y].fInTried = IF y = old THEN FALSE ELSE g[y].fInTried
             /\ h2[y].nRefCount = IF y = old THEN 1 ELSE g[y].nRefCount
  <2>1. g[y] \in Info
    BY ONLY <1>7, <1>9
  <2>2. CASE y = old
    <3>1. PICK c, d, x : c = g[y] /\ d = h[y] /\ x = h2[y]
      OBVIOUS
    <3>2. c \in Info /\ d = [c EXCEPT !.fInTried = FALSE] /\ x = [d EXCEPT !.nRefCount = 1]
      BY ONLY <1>3, <1>7, <2>1, <2>2, <3>1
    <3>3. PICK so \in Sources, rc \in Int, it \in BOOLEAN, rp \in Nat :
            c = [source |-> so, nRefCount |-> rc, fInTried |-> it, nRandomPos |-> rp]
      BY ONLY <3>2 DEF Info
    <3>4. x = [source |-> so, nRefCount |-> 1, fInTried |-> FALSE, nRandomPos |-> rp]
      BY ONLY <3>2, <3>3
    <3>5. x \in Info /\ x.nRandomPos = c.nRandomPos /\ x.fInTried = FALSE /\ x.nRefCount = 1
      BY ONLY <3>3, <3>4 DEF Info
    <3> QED BY ONLY <2>2, <3>1, <3>5
  <2>3. CASE y # old
    <3>1. h2[y] = g[y]
      BY ONLY <1>3, <1>7, <1>9, <2>3
    <3> QED BY ONLY <2>1, <2>3, <3>1
  <2> QED BY <2>2, <2>3
<1>10. InfoInv(h2)
  <2>1. h2 \in [DOMAIN h2 -> Info]
    BY ONLY <1>3, <1>7, <1>8, <1>9
  <2> QED BY ONLY <1>7, <1>8, <2>1 DEF InfoInv
<1>11. k.tried = Put(n.tried, TriedBucket[a], Put(e.tried, e.nOldestPos, a))
  BY ONLY <1>3, <1>6 DEF Put
<1>12. k.new = With(n.new, to, old) /\ k.random = n.random /\ k.nNew = n.nNew + 1 /\ k.nTried = n.nTried
  BY ONLY <1>2, <1>3, <1>6
<1>13. InfoInv(k.info) /\ DOMAIN k.info = DOMAIN n.info
  BY ONLY <1>2, <1>6, <1>8, <1>10
<1>14. \A y \in DOMAIN n.info :
          /\ k.info[y].nRandomPos = n.info[y].nRandomPos
          /\ k.info[y].fInTried = IF y = old THEN FALSE ELSE n.info[y].fInTried
          /\ k.info[y].nRefCount = IF y = old THEN 1 ELSE n.info[y].nRefCount
  BY ONLY <1>2, <1>6, <1>9
<1> QED BY ONLY <1>11, <1>12, <1>13, <1>14 DEF EvictedTo

\* a has left the new buckets, and e is what SelectTried chose in its tried bucket b.
Evicting(m, n, a, origin, b, c, picks, e) ==
    /\ Good(m) /\ a \in NewIn(m.info) /\ Left(m, n, a)
    /\ origin \in NewBuckets /\ a \in m.new[origin] /\ b = TriedBucket[a]
    /\ c \in Nat /\ picks \in Picks(c, Len(m.tried[b])) /\ e \in SelectTried(m.tried[b], picks, c)

LEMMA EvictedGood ==
    ASSUME NEW m, NEW n, NEW a, NEW origin, NEW b, NEW c, NEW picks, NEW e,
           Evicting(m, n, a, origin, b, c, picks, e), NEW k, k = Evicted(n, a, origin, e)
    PROVE  Good(k) /\ DOMAIN k.info = DOMAIN m.info
<1>0. /\ Good(m) /\ a \in NewIn(m.info) /\ Left(m, n, a)
      /\ origin \in NewBuckets /\ a \in m.new[origin] /\ b = TriedBucket[a]
      /\ c \in Nat /\ picks \in Picks(c, Len(m.tried[b])) /\ e \in SelectTried(m.tried[b], picks, c)
  BY DEF Evicting
<1> USE <1>0
<1>1. PICK f, g, h, w, tried, q, s, pos, old, home, to, w2 :
        /\ f = m.info /\ g = n.info /\ h = k.info /\ w = n.new /\ tried = m.tried /\ q = m.tried[b]
        /\ pos = e.nOldestPos /\ s = [e.tried EXCEPT ![pos] = a] /\ old = e.tried[pos]
        /\ home = NewBucket[old][n.info[old].source]
        /\ to = IF Cardinality(n.new[home]) < NewSize THEN home ELSE origin
        /\ w2 = k.new
  OBVIOUS
<1>2. /\ InfoInv(f) /\ RandomInv(f, m.random) /\ TriedInv(f, tried) /\ m.nTried = Cardinality(TriedIn(f))
      /\ m.new \in [NewBuckets -> SUBSET NewIn(f)] /\ SizeInv(m.new, tried)
  BY <1>1 DEF Good, CountInv, NewInv
<1>3. /\ IsManager(n) /\ InfoInv(g) /\ RandomInv(g, n.random) /\ NewInv(g, w) /\ RefsInv(g)
      /\ DOMAIN g = DOMAIN f
      /\ NewIn(g) = NewIn(f) \ {a} /\ TriedIn(g) = TriedIn(f) \cup {a}
      /\ \A x \in NewBuckets : w[x] = m.new[x] \ {a}
      /\ n.tried = tried /\ n.nNew = Cardinality(NewIn(g)) /\ n.nTried = m.nTried /\ SizeInv(w, tried)
  BY <1>1 DEF Left
<1>4. a \in NewIn(f) /\ a \notin TriedIn(f) /\ a \in Addrs /\ a \in DOMAIN f
  BY <1>1, <1>2 DEF NewIn, TriedIn, InfoInv
<1>5. b \in TriedBuckets
  BY <1>4, AddrManAssumption DEF AddrManAssumption
<1>6. /\ q \in Seq(TriedIn(f)) /\ (\A i \in DOMAIN q : TriedBucket[q[i]] = b)
      /\ Distinct(q) /\ \A x \in TriedIn(f) : TriedBucket[x] = b => x \in ToSet(q)
  <2>1. q = tried[b]
    BY ONLY <1>1
  <2>2. /\ tried \in [TriedBuckets -> Seq(TriedIn(f))]
        /\ \A x \in TriedBuckets : \A i \in DOMAIN tried[x] : TriedBucket[tried[x][i]] = x
        /\ \A x \in TriedBuckets : \A i, j \in DOMAIN tried[x] : tried[x][i] = tried[x][j] => i = j
        /\ \A x \in TriedIn(f) : x \in ToSet(tried[TriedBucket[x]])
    BY ONLY <1>2 DEF TriedInv
  <2> QED BY ONLY <1>5, <2>1, <2>2 DEF Distinct
<1>7. DOMAIN q = 1..Len(q) /\ Len(q) \in Nat /\ \A i \in DOMAIN q : q[i] \in TriedIn(f)
  BY ONLY <1>6, SeqFacts
\* The shuffled bucket and the position that is chosen.
<1>8. PICK v : v = e.tried /\ v = Shuffled(q, picks, c) /\ pos \in 1..Len(q)
  <2>1. PICK i \in 1..c : e = [tried |-> Shuffled(q, picks, c), nOldestPos |-> picks[i]]
    BY <1>1 DEF SelectTried
  <2>2. picks[i] \in 1..Len(q)
    BY <1>1 DEF Picks
  <2> QED BY <1>1, <2>1, <2>2
<1>9. v \in Seq(ToSet(q)) /\ Len(v) = Len(q) /\ ToSet(v) = ToSet(q) /\ Distinct(v)
  <2>1. picks \in Picks(c, Len(q))
    BY <1>1
  <2> QED BY <1>6, <1>8, <2>1, ShuffledRearranges DEF Rearranged
<1>10. DOMAIN v = DOMAIN q /\ pos \in DOMAIN v /\ old = v[pos] /\ s = [v EXCEPT ![pos] = a]
  <2>1. DOMAIN v = 1..Len(q)
    BY ONLY <1>9, SeqFacts
  <2> QED BY ONLY <1>1, <1>7, <1>8, <2>1
<1>11. \A x \in ToSet(q) : x \in TriedIn(f) /\ TriedBucket[x] = b
  BY ONLY <1>6, <1>7 DEF ToSet
<1>12. \A i \in DOMAIN v : v[i] \in ToSet(q)
  BY ONLY <1>9 DEF ToSet
<1>13. old \in TriedIn(f) /\ TriedBucket[old] = b /\ old # a /\ old \in DOMAIN g /\ old \notin NewIn(g)
  <2>1. old \in TriedIn(f) /\ TriedBucket[old] = b
    BY ONLY <1>10, <1>11, <1>12
  <2> QED BY ONLY <1>3, <1>4, <2>1 DEF TriedIn, NewIn
<1>14. /\ w2 = With(w, to, old)
       /\ k.random = n.random /\ k.nNew = n.nNew + 1 /\ k.nTried = n.nTried
       /\ k.tried = [tried EXCEPT ![b] = s]
       /\ InfoInv(h) /\ DOMAIN h = DOMAIN g
       /\ \A y \in DOMAIN g : /\ h[y].nRandomPos = g[y].nRandomPos
                              /\ h[y].fInTried = IF y = old THEN FALSE ELSE g[y].fInTried
                              /\ h[y].nRefCount = IF y = old THEN 1 ELSE g[y].nRefCount
  <2>1. old = e.tried[e.nOldestPos] /\ old \in DOMAIN n.info
    BY <1>1, <1>13
  <2>2. /\ k.new = With(n.new, to, old)
        /\ k.random = n.random /\ k.nNew = n.nNew + 1 /\ k.nTried = n.nTried
        /\ k.tried = Put(n.tried, TriedBucket[a], Put(e.tried, e.nOldestPos, a))
        /\ InfoInv(k.info) /\ DOMAIN k.info = DOMAIN n.info
        /\ \A y \in DOMAIN n.info :
              /\ k.info[y].nRandomPos = n.info[y].nRandomPos
              /\ k.info[y].fInTried = IF y = old THEN FALSE ELSE n.info[y].fInTried
              /\ k.info[y].nRefCount = IF y = old THEN 1 ELSE n.info[y].nRefCount
    <3>1. IsManager(n) /\ InfoInv(n.info) /\ k = Evicted(n, a, origin, e)
      BY <1>1, <1>3
    <3>2. Evictee(n, a, origin, e, old, home, to)
      BY <1>1, <2>1 DEF Evictee
    <3>3. EvictedTo(n, k, a, e, old, to)
      BY ONLY <3>1, <3>2, EvictedFields
    <3> QED BY ONLY <3>3 DEF EvictedTo
  <2>3. k.tried = [tried EXCEPT ![b] = s]
    <3>1. n.tried = tried /\ TriedBucket[a] = b /\ s = Put(e.tried, e.nOldestPos, a)
      BY <1>1, <1>3 DEF Put
    <3> QED BY ONLY <2>2, <3>1 DEF Put
  <2> QED BY ONLY <1>1, <2>2, <2>3
<1>15. RandomInv(h, k.random)
  <2>1. /\ RandomInv(g, k.random) /\ DOMAIN h = DOMAIN g
        /\ \A x \in DOMAIN g : h[x].nRandomPos = g[x].nRandomPos
    BY ONLY <1>3, <1>14
  <2> QED BY ONLY <2>1, SamePositions
<1>16. NewIn(h) = NewIn(g) \cup {old} /\ TriedIn(h) = TriedIn(g) \ {old}
  BY ONLY <1>13, <1>14 DEF NewIn, TriedIn
<1>17. home \in NewBuckets /\ to \in NewBuckets
  <2>1. old \in Addrs /\ n.info[old].source \in Sources
    BY <1>1, <1>3, <1>13 DEF InfoInv, Info
  <2> QED BY <1>1, <2>1, AddrManAssumption DEF AddrManAssumption
<1>18. w \in [NewBuckets -> SUBSET NewIn(g)] /\ \A x \in DOMAIN g : g[x].nRefCount = Cardinality(Refs(w, x))
  BY ONLY <1>3 DEF NewInv
<1>19. /\ DOMAIN w2 = NewBuckets /\ w2 = [x \in NewBuckets |-> w2[x]]
       /\ \A x \in NewBuckets : w2[x] = IF x = to THEN w[x] \cup {old} ELSE w[x]
  BY ONLY <1>14, <1>17, <1>18 DEF With
<1>20. NewInv(h, w2)
  <2>1. w2 \in [NewBuckets -> SUBSET NewIn(h)]
    <3>1. \A x \in NewBuckets : w2[x] \in SUBSET NewIn(h)
      BY ONLY <1>16, <1>18, <1>19
    <3> QED BY ONLY <1>19, <3>1
  <2>2. Refs(w2, old) = {to}
    BY ONLY <1>13, <1>17, <1>18, <1>19 DEF Refs
  <2>3. \A x : x # old => Refs(w2, x) = Refs(w, x)
    BY ONLY <1>19 DEF Refs
  <2>4. Cardinality(Refs(w2, old)) = 1
    BY ONLY <2>2, FS_Singleton
  <2>5. \A x \in DOMAIN h : h[x].nRefCount = Cardinality(Refs(w2, x))
    BY ONLY <1>14, <1>18, <2>3, <2>4
  <2> QED BY ONLY <2>1, <2>5 DEF NewInv
<1>21. RefsInv(h)
  <2>1. PerAddress \in Nat \ {0}
    BY ONLY AddrManAssumption DEF AddrManAssumption
  <2>2. ASSUME NEW y \in NewIn(h) PROVE h[y].nRefCount \in 1..PerAddress
    <3>1. CASE y = old
      <4>1. h[y].nRefCount = 1
        BY ONLY <1>13, <1>14, <3>1
      <4> QED BY ONLY <2>1, <4>1
    <3>2. CASE y # old
      <4>1. y \in NewIn(g) /\ y \in DOMAIN g
        BY <1>16, <2>2, <3>2 DEF NewIn
      <4>2. g[y].nRefCount \in 1..PerAddress
        BY ONLY <1>3, <4>1 DEF RefsInv
      <4> QED BY ONLY <1>14, <3>2, <4>1, <4>2
    <3> QED BY <3>1, <3>2
  <2> QED BY ONLY <2>2 DEF RefsInv
<1>22. TriedInv(h, k.tried)
  <2>1. TriedIn(h) = (TriedIn(f) \cup {a}) \ {old}
    BY ONLY <1>3, <1>16
  <2>2. DOMAIN s = DOMAIN v /\ \A i \in DOMAIN v : s[i] = IF i = pos THEN a ELSE v[i]
    BY ONLY <1>10
  <2>3. \A i \in DOMAIN v : i # pos => v[i] # old
    BY ONLY <1>9, <1>10 DEF Distinct
  <2>4. \A i \in DOMAIN s : s[i] \in TriedIn(h) /\ TriedBucket[s[i]] = b
    <3>1. \A i \in DOMAIN v : v[i] \in TriedIn(f) /\ TriedBucket[v[i]] = b
      BY ONLY <1>11, <1>12
    <3>2. TriedBucket[a] = b
      OBVIOUS
    <3> QED BY ONLY <1>13, <2>1, <2>2, <2>3, <3>1, <3>2
  <2>5. s \in Seq(TriedIn(h))
    <3>1. DOMAIN v = 1..Len(v) /\ Len(v) \in Nat
      BY ONLY <1>9, SeqFacts
    <3>2. s \in Seq(ToSet(q) \cup {a}) /\ Len(s) = Len(v)
      BY ONLY <1>9, <1>10
    <3> QED BY ONLY <2>2, <2>4, <3>1, <3>2
  <2>6. Distinct(s)
    <3>1. \A i \in DOMAIN v : v[i] # a
      BY ONLY <1>4, <1>11, <1>12
    <3> QED BY ONLY <1>9, <2>2, <3>1 DEF Distinct
  <2>7. ASSUME NEW x \in TriedIn(h), TriedBucket[x] = b PROVE x \in ToSet(s)
    <3>1. CASE x = a
      BY ONLY <1>10, <2>2, <3>1 DEF ToSet
    <3>2. CASE x # a
      <4>1. x \in TriedIn(f) /\ x # old
        BY ONLY <2>1, <2>7, <3>2
      <4>2. x \in ToSet(v)
        BY ONLY <1>6, <1>9, <2>7, <4>1
      <4>3. PICK i \in DOMAIN v : v[i] = x
        BY ONLY <4>2 DEF ToSet
      <4>4. i \in DOMAIN s /\ s[i] = x
        BY ONLY <1>10, <2>2, <4>1, <4>3
      <4> QED BY ONLY <4>4 DEF ToSet
    <3> QED BY <3>1, <3>2
  <2>8. \A x : TriedBucket[x] # b => (x \in TriedIn(f) <=> x \in TriedIn(h))
    <3>1. TriedBucket[a] = b /\ TriedBucket[old] = b
      BY <1>13
    <3> QED BY ONLY <2>1, <3>1
  <2>9. \A i \in DOMAIN s : TriedBucket[s[i]] = b
    BY ONLY <2>4
  <2> QED BY ONLY <1>2, <1>5, <1>14, <2>5, <2>6, <2>7, <2>8, <2>9, BucketReplaced
<1>23. IsFiniteSet(DOMAIN g) /\ IsFiniteSet(NewIn(g)) /\ IsFiniteSet(TriedIn(f)) /\ Cardinality(TriedIn(f)) \in Nat
  BY ONLY <1>2, <1>3, KnownFinite, PartsFinite
<1>24. CountInv(h, k.nNew, k.nTried)
  <2>1. Cardinality(NewIn(h)) = Cardinality(NewIn(g)) + 1
    BY ONLY <1>13, <1>16, <1>23, FS_AddElement
  <2>2. IsFiniteSet(TriedIn(g)) /\ Cardinality(TriedIn(g)) = Cardinality(TriedIn(f)) + 1
    BY ONLY <1>3, <1>4, <1>23, FS_AddElement
  <2>3. old \in TriedIn(g)
    BY ONLY <1>3, <1>13
  <2>4. Cardinality(TriedIn(h)) = Cardinality(TriedIn(g)) - 1
    BY ONLY <1>16, <2>2, <2>3, FS_RemoveElement
  <2>5. Cardinality(TriedIn(h)) = Cardinality(TriedIn(f))
    BY ONLY <1>23, <2>2, <2>4
  <2> QED BY ONLY <1>2, <1>3, <1>14, <2>1, <2>5 DEF CountInv
<1>25. SizeInv(w2, k.tried)
  <2>1. NewSize \in Nat
    BY ONLY AddrManAssumption DEF AddrManAssumption
  <2>2. ASSUME NEW x \in NewBuckets PROVE IsFiniteSet(w[x]) /\ Cardinality(w[x]) \in Nat
    <3>1. w[x] \in SUBSET NewIn(g)
      BY ONLY <1>18, <2>2
    <3>2. IsFiniteSet(w[x])
      BY ONLY <1>23, <3>1, FS_Subset
    <3> QED BY ONLY <3>2, FS_CardinalityType
  <2>3. Cardinality(w[to]) < NewSize
    <3>1. CASE Cardinality(w[home]) < NewSize
      BY ONLY <1>1, <3>1
    <3>2. CASE ~(Cardinality(w[home]) < NewSize)
      <4>1. to = origin
        BY ONLY <1>1, <3>2
      <4>2. w[origin] = m.new[origin] \ {a} /\ m.new[origin] = w[origin] \cup {a} /\ a \notin w[origin]
        BY <1>3
      <4>3. Cardinality(m.new[origin]) = Cardinality(w[origin]) + 1
        BY <2>2, <4>2, FS_AddElement
      <4>4. Cardinality(m.new[origin]) <= NewSize
        BY <1>2 DEF SizeInv
      <4>5. Cardinality(w[origin]) \in Nat
        BY <2>2
      <4> QED BY ONLY <2>1, <4>1, <4>3, <4>4, <4>5
    <3> QED BY <3>1, <3>2
  <2>4. old \notin w[to]
    BY ONLY <1>13, <1>17, <1>18
  <2>5. Cardinality(w2[to]) = Cardinality(w[to]) + 1
    <3>1. w2[to] = w[to] \cup {old} /\ IsFiniteSet(w[to])
      BY ONLY <1>17, <1>19, <2>2
    <3> QED BY ONLY <2>4, <3>1, FS_AddElement
  <2>6. \A x \in NewBuckets : Cardinality(w2[x]) <= NewSize
    <3>1. \A x \in NewBuckets : Cardinality(w[x]) <= NewSize
      BY ONLY <1>3 DEF SizeInv
    <3>2. Cardinality(w2[to]) <= NewSize
      BY ONLY <1>17, <2>1, <2>2, <2>3, <2>5
    <3> QED BY ONLY <1>19, <3>1, <3>2
  <2>7. Len(s) = Len(q)
    BY ONLY <1>9, <1>10
  <2>8. \A x \in TriedBuckets : k.tried[x] = IF x = b THEN s ELSE tried[x]
    BY ONLY <1>2, <1>14 DEF TriedInv
  <2>9. \A x \in TriedBuckets : Len(k.tried[x]) <= TriedSize
    BY ONLY <1>1, <1>2, <1>5, <2>7, <2>8 DEF SizeInv
  <2> QED BY ONLY <2>6, <2>9 DEF SizeInv
<1> QED BY <1>1, <1>3, <1>14, <1>15, <1>20, <1>21, <1>22, <1>24, <1>25 DEF Good

LEMMA MakeTriedGood ==
    ASSUME Inv, NEW a \in Addrs, NEW origin \in NewBuckets, MakeTried(a, origin)
    PROVE  Inv' /\ DOMAIN mapInfo' = DOMAIN mapInfo
<1>1. PICK m, n, b, c : /\ m = Manager /\ n = LeftNew(m, a) /\ b = TriedBucket[a]
                        /\ c = Min({Inspect, Len(vvTried[b])})
  OBVIOUS
<1>2. IsManager(m) /\ Good(m) /\ m.info = mapInfo /\ m.new = vvNew /\ m.tried = vvTried
  BY <1>1, ManagerIs DEF Inv, Manager
<1>3. a \in NewIn(m.info) /\ a \in m.new[origin]
  BY <1>2 DEF MakeTried, NewIn, Known
<1>4. Left(m, n, a)
  BY <1>1, <1>2, <1>3, LeavingNew
<1>5. CASE Len(vvTried[b]) < TriedSize
  <2>1. PICK k : k = Placed(n, a)
    OBVIOUS
  <2>2. Becomes(k)
    BY <1>1, <1>5, <2>1 DEF MakeTried
  <2>3. Good(k) /\ DOMAIN k.info = DOMAIN m.info
    BY <1>1, <1>2, <1>3, <1>4, <1>5, <2>1, PlacedGood
  <2> QED BY <1>2, <2>2, <2>3, BecomesGood
<1>6. CASE ~(Len(vvTried[b]) < TriedSize)
  <2>1. PICK p \in Picks(c, Len(vvTried[b])) : \E e \in SelectTried(vvTried[b], p, c) : Becomes(Evicted(n, a, origin, e))
    BY <1>1, <1>6 DEF MakeTried
  <2>2. PICK e \in SelectTried(vvTried[b], p, c) : Becomes(Evicted(n, a, origin, e))
    BY <2>1
  <2>3. PICK k : k = Evicted(n, a, origin, e)
    OBVIOUS
  <2>4. c \in Nat
    <3>1. b \in TriedBuckets /\ Inspect \in Nat
      BY <1>1, AddrManAssumption DEF AddrManAssumption
    <3>2. Len(vvTried[b]) \in Nat
      BY <1>2, <3>1, SeqFacts DEF Good, TriedInv
    <3> QED BY ONLY <1>1, <3>1, <3>2, MinOfTwo
  <2>5. Good(k) /\ DOMAIN k.info = DOMAIN m.info
    <3>1. p \in Picks(c, Len(m.tried[b])) /\ e \in SelectTried(m.tried[b], p, c)
      BY <1>2
    <3>2. b = TriedBucket[a] /\ origin \in NewBuckets
      BY <1>1
    <3>3. Evicting(m, n, a, origin, b, c, p, e)
      BY <1>2, <1>3, <1>4, <2>4, <3>1, <3>2 DEF Evicting
    <3> QED BY ONLY <2>3, <3>3, EvictedGood
  <2> QED BY <1>2, <2>2, <2>3, <2>5, BecomesGood
<1> QED BY <1>5, <1>6

-----------------------------------------------------------------------------
(* peers.dat *)

LEMMA DistinctLen ==
    ASSUME NEW S, NEW s \in Seq(S), Distinct(s)
    PROVE  IsFiniteSet(ToSet(s)) /\ Cardinality(ToSet(s)) = Len(s) /\ Len(s) \in Nat
<1>1. DOMAIN s = 1..Len(s) /\ Len(s) \in Nat
  BY SeqFacts
<1>2. s \in [1..Len(s) -> ToSet(s)]
  BY <1>1 DEF ToSet
<1>3. ExistsBijection(1..Len(s), ToSet(s))
  <2>1. s \in Injection(1..Len(s), ToSet(s))
    BY <1>1, <1>2 DEF Injection, IsInjective, Distinct
  <2>2. s \in Surjection(1..Len(s), ToSet(s))
    BY <1>1, <1>2 DEF Surjection, ToSet
  <2> QED BY <2>1, <2>2 DEF ExistsBijection, Bijection
<1>4. IsFiniteSet(1..Len(s)) /\ Cardinality(1..Len(s)) = Len(s)
  BY <1>1, FS_Interval
<1> QED BY <1>1, <1>3, <1>4, FS_Bijection

\* An order of a set lists all of it, each element once, so UpTo leaves out nothing.
LEMMA OrderFacts ==
    ASSUME NEW S, IsFiniteSet(S), NEW s \in Orders(S), NEW n, n = Cardinality(S)
    PROVE  /\ s \in Seq(S) /\ Len(s) = n /\ n \in Nat /\ DOMAIN s = 1..n
           /\ ToSet(s) = S /\ Distinct(s) /\ UpTo(s, n) = s
<1>1. s \in [1..n -> S] /\ (\A i, j \in DOMAIN s : s[i] = s[j] => i = j) /\ n \in Nat
  BY FS_CardinalityType DEF Orders
<1>2. s \in Seq(S) /\ Len(s) = n /\ DOMAIN s = 1..n /\ Distinct(s)
  BY ONLY <1>1 DEF Distinct
<1>3. ToSet(s) = S
  <2>1. IsFiniteSet(ToSet(s)) /\ Cardinality(ToSet(s)) = n
    BY ONLY <1>2, DistinctLen
  <2>2. ToSet(s) \in SUBSET S
    BY ONLY <1>1 DEF ToSet
  <2> QED BY <2>1, <2>2, FS_Subset
<1>4. UpTo(s, n) = s
  <2>1. Min({Len(s), n}) = n
    BY ONLY <1>1, <1>2, MinOfTwo
  <2>2. UpTo(s, n) = SubSeq(s, 1, n)
    BY ONLY <2>1 DEF UpTo
  <2>3. SubSeq(s, 1, n) = s
    BY ONLY <1>1, <1>2
  <2> QED BY ONLY <2>2, <2>3
<1> QED BY ONLY <1>1, <1>2, <1>3, <1>4

\* The loop over the tried entries of the file, and what one of its rounds does.
LoadNone(new) == [random |-> new, tried |-> [b \in TriedBuckets |-> <<>>], nLost |-> 0]
LoadOne(r, a) ==
    IF Len(r.tried[TriedBucket[a]]) < TriedSize
    THEN [r EXCEPT !.random = Append(@, a), !.tried[TriedBucket[a]] = Append(@, a)]
    ELSE [r EXCEPT !.nLost = @ + 1]
Loads(new, tried, n, v) ==
    /\ DOMAIN v = 0..n
    /\ v[0] = LoadNone(new)
    /\ \A i \in 1..n : v[i] = LoadOne(v[i - 1], tried[i])

LEMMA LoadsExist ==
    ASSUME NEW new, NEW tried
    PROVE  \A n \in Nat : \E v : v = [i \in 0..n |-> v[i]] /\ Loads(new, tried, n, v)
<1> DEFINE P == {n \in Nat : \E v : v = [i \in 0..n |-> v[i]] /\ Loads(new, tried, n, v)}
<1>1. 0 \in P
  <2> DEFINE v == [i \in 0..0 |-> LoadNone(new)]
  <2>1. v = [i \in 0..0 |-> v[i]] /\ Loads(new, tried, 0, v)
    BY DEF Loads
  <2> QED BY <2>1
<1>2. ASSUME NEW n \in Nat, n \in P PROVE n + 1 \in P
  <2>1. PICK v : v = [i \in 0..n |-> v[i]] /\ Loads(new, tried, n, v)
    BY <1>2
  <2>2. PICK w : w = [i \in 0..(n + 1) |-> IF i \in 0..n THEN v[i] ELSE LoadOne(v[n], tried[n + 1])]
    OBVIOUS
  <2>3. DOMAIN w = 0..(n + 1) /\ \A i \in 0..n : w[i] = v[i]
    BY <2>2
  <2>4. w[n + 1] = LoadOne(v[n], tried[n + 1])
    BY <2>2
  <2>5. ASSUME NEW i \in 1..(n + 1) PROVE w[i] = LoadOne(w[i - 1], tried[i])
    <3>1. CASE i = n + 1
      <4>1. w[i - 1] = v[n]
        BY <2>3, <3>1
      <4> QED BY <2>4, <3>1, <4>1
    <3>2. CASE i # n + 1
      <4>1. i \in 1..n /\ i - 1 \in 0..n /\ i \in 0..n
        BY <3>2
      <4> QED BY <2>1, <2>3, <4>1 DEF Loads
    <3> QED BY <3>1, <3>2
  <2>6. w[0] = LoadNone(new)
    BY <2>1, <2>3 DEF Loads
  <2>7. w = [i \in 0..(n + 1) |-> w[i]]
    BY <2>2
  <2>8. Loads(new, tried, n + 1, w)
    BY <2>3, <2>5, <2>6 DEF Loads
  <2> QED BY <2>7, <2>8
<1> HIDE DEF P
<1>3. \A n \in Nat : n \in P
  BY <1>1, <1>2, StepByStep
<1> QED BY <1>3 DEF P

Loading(f, loaded) ==
    loaded = [n \in 0..Len(f.tried) |->
                 IF n = 0
                 THEN [random |-> f.new, tried |-> [b \in TriedBuckets |-> <<>>], nLost |-> 0]
                 ELSE LET r == loaded[n - 1]
                          a == f.tried[n]
                          b == TriedBucket[a]
                      IN  IF Len(r.tried[b]) < TriedSize
                          THEN [r EXCEPT !.random = Append(@, a), !.tried[b] = Append(@, a)]
                          ELSE [r EXCEPT !.nLost = @ + 1]]

LEMMA LoadingIs ==
    ASSUME NEW f, NEW v
    PROVE  Loading(f, v) <=> v = [n \in 0..Len(f.tried) |->
                                     IF n = 0 THEN LoadNone(f.new) ELSE LoadOne(v[n - 1], f.tried[n])]
BY DEF Loading, LoadNone, LoadOne

LEMMA LoadedTriedLoads ==
    ASSUME NEW f, NEW n \in Nat, n = Len(f.tried)
    PROVE  \E v : Loads(f.new, f.tried, n, v) /\ LoadedTried(f) = v[n]
<1>1. PICK w : w = [i \in 0..n |-> w[i]] /\ Loads(f.new, f.tried, n, w)
  BY LoadsExist
<1>2. \A i \in 0..n : w[i] = IF i = 0 THEN LoadNone(f.new) ELSE LoadOne(w[i - 1], f.tried[i])
  <2>1. \A i \in 0..n : i # 0 => i \in 1..n
    OBVIOUS
  <2> QED BY <1>1, <2>1 DEF Loads
<1>3. Loading(f, w)
  BY <1>1, <1>2, LoadingIs
<1>4. PICK v : v = CHOOSE x : Loading(f, x)
  OBVIOUS
<1>5. Loading(f, v)
  BY <1>3, <1>4
<1>6. LoadedTried(f) = v[n]
  BY <1>4 DEF LoadedTried, Loading
<1>7. v = [i \in 0..n |-> IF i = 0 THEN LoadNone(f.new) ELSE LoadOne(v[i - 1], f.tried[i])]
  BY <1>5, LoadingIs
<1>8. DOMAIN v = 0..n /\ v[0] = LoadNone(f.new)
  BY <1>7
<1>9. ASSUME NEW i \in 1..n PROVE v[i] = LoadOne(v[i - 1], f.tried[i])
  <2>1. i \in 0..n /\ i # 0
    OBVIOUS
  <2> QED BY <1>7, <2>1
<1> QED BY <1>6, <1>8, <1>9 DEF Loads

\* After n rounds: vRandom has the new entries and the first n tried ones, the tried
\* buckets have those, and nothing is lost.
Front(tried, n) == {tried[i] : i \in 1..n}
InBucket(S, b) == {x \in S : TriedBucket[x] = b}
LoadedAs(new, tried, n, r, random, buckets) ==
    /\ r = [random |-> random, tried |-> buckets, nLost |-> 0]
    /\ random \in Seq(ToSet(new) \cup ToSet(tried)) /\ Len(random) = Len(new) + n
    /\ \A i \in 1..Len(new) : random[i] = new[i]
    /\ \A i \in 1..n : random[Len(new) + i] = tried[i]
    /\ buckets \in [TriedBuckets -> Seq(ToSet(tried))]
    /\ \A b \in TriedBuckets : Distinct(buckets[b]) /\ ToSet(buckets[b]) = InBucket(Front(tried, n), b)
LoadedSome(new, tried, n, r) == \E random, buckets : LoadedAs(new, tried, n, r, random, buckets)

\* The buckets of the dumped manager show that there is place for all.
Fits(tried) ==
    \A b \in TriedBuckets : /\ IsFiniteSet(InBucket(ToSet(tried), b))
                            /\ Cardinality(InBucket(ToSet(tried), b)) <= TriedSize

LEMMA LoadOneMore ==
    ASSUME NEW S, NEW new \in Seq(S), NEW tried \in Seq(S), Distinct(tried), Fits(tried),
           ToSet(tried) \subseteq Addrs, NEW n \in Nat, n + 1 \in 1..Len(tried),
           NEW r, LoadedSome(new, tried, n, r), NEW k, k = LoadOne(r, tried[n + 1])
    PROVE  LoadedSome(new, tried, n + 1, k)
<1>1. PICK random, buckets :
        /\ r = [random |-> random, tried |-> buckets, nLost |-> 0]
        /\ random \in Seq(ToSet(new) \cup ToSet(tried)) /\ Len(random) = Len(new) + n
        /\ \A i \in 1..Len(new) : random[i] = new[i]
        /\ \A i \in 1..n : random[Len(new) + i] = tried[i]
        /\ buckets \in [TriedBuckets -> Seq(ToSet(tried))]
        /\ \A b \in TriedBuckets : Distinct(buckets[b]) /\ ToSet(buckets[b]) = InBucket(Front(tried, n), b)
  BY DEF LoadedSome, LoadedAs
<1>2. PICK a, b, q : a = tried[n + 1] /\ b = TriedBucket[a] /\ q = buckets[b]
  OBVIOUS
<1>3. DOMAIN tried = 1..Len(tried) /\ Len(tried) \in Nat /\ Len(new) \in Nat
  BY SeqFacts
<1>4. a \in ToSet(tried) /\ b \in TriedBuckets
  <2>1. a \in ToSet(tried)
    BY <1>2, <1>3 DEF ToSet
  <2> QED BY <1>2, <2>1, AddrManAssumption DEF AddrManAssumption
<1>5. q \in Seq(ToSet(tried)) /\ Distinct(q) /\ ToSet(q) = InBucket(Front(tried, n), b)
  BY ONLY <1>1, <1>2, <1>4
<1>6. 1..n \subseteq DOMAIN tried /\ n + 1 \in DOMAIN tried /\ n + 1 \notin 1..n
  BY <1>3
<1>7. a \notin Front(tried, n) /\ Front(tried, n) \subseteq ToSet(tried)
  BY <1>2, <1>6 DEF Front, ToSet, Distinct
<1>8. Front(tried, n + 1) = Front(tried, n) \cup {a}
  <2>1. 1..(n + 1) = (1..n) \cup {n + 1}
    OBVIOUS
  <2> QED BY <1>2, <2>1 DEF Front
\* There is place in the bucket.
<1>9. Len(q) < TriedSize
  <2>1. IsFiniteSet(ToSet(q)) /\ Cardinality(ToSet(q)) = Len(q) /\ Len(q) \in Nat
    BY ONLY <1>5, DistinctLen
  <2>2. a \notin ToSet(q)
    BY ONLY <1>5, <1>7 DEF InBucket
  <2>3. IsFiniteSet(ToSet(q) \cup {a}) /\ Cardinality(ToSet(q) \cup {a}) = Len(q) + 1
    BY ONLY <2>1, <2>2, FS_AddElement
  <2>4. ToSet(q) \cup {a} \in SUBSET InBucket(ToSet(tried), b)
    BY ONLY <1>2, <1>4, <1>5, <1>7 DEF InBucket
  <2>5. IsFiniteSet(InBucket(ToSet(tried), b)) /\ Cardinality(InBucket(ToSet(tried), b)) <= TriedSize
    BY <1>4 DEF Fits
  <2>6. Cardinality(ToSet(q) \cup {a}) <= Cardinality(InBucket(ToSet(tried), b))
    BY ONLY <2>4, <2>5, FS_Subset
  <2>7. Cardinality(InBucket(ToSet(tried), b)) \in Nat /\ TriedSize \in Nat
    BY ONLY <2>5, FS_CardinalityType, AddrManAssumption DEF AddrManAssumption
  <2> QED BY ONLY <2>1, <2>3, <2>5, <2>6, <2>7
<1>10. PICK random2, q2, buckets2 :
         random2 = Append(random, a) /\ q2 = Append(q, a) /\ buckets2 = [buckets EXCEPT ![b] = q2]
  OBVIOUS
<1>11. k = [random |-> random2, tried |-> buckets2, nLost |-> 0]
  <2>1. r.tried = buckets /\ r.random = random
    BY ONLY <1>1
  <2>2. k = [r EXCEPT !.random = Append(@, a), !.tried[b] = Append(@, a)]
    BY <1>2, <1>9, <2>1 DEF LoadOne
  <2>3. k = [r EXCEPT !.random = random2, !.tried = buckets2]
    BY ONLY <1>2, <1>10, <2>1, <2>2
  <2> QED BY ONLY <1>1, <2>3
<1>12. /\ random2 \in Seq(ToSet(new) \cup ToSet(tried)) /\ Len(random2) = Len(new) + (n + 1)
       /\ \A i \in 1..(Len(new) + n) : random2[i] = random[i]
       /\ random2[Len(new) + (n + 1)] = a
  <2>1. random \in Seq(ToSet(new) \cup ToSet(tried)) /\ Len(random) = Len(new) + n /\ a \in ToSet(new) \cup ToSet(tried)
    BY ONLY <1>1, <1>4
  <2>2. n \in Nat
    OBVIOUS
  <2> QED BY ONLY <1>3, <1>10, <2>1, <2>2
<1>13. \A i \in 1..Len(new) : random2[i] = new[i]
  BY <1>1, <1>3, <1>12
<1>14. \A i \in 1..(n + 1) : random2[Len(new) + i] = tried[i]
  <2>1. ASSUME NEW i \in 1..n PROVE random2[Len(new) + i] = tried[i]
    <3>1. Len(new) + i \in 1..(Len(new) + n)
      BY <1>3
    <3> QED BY <1>1, <1>12, <3>1
  <2>2. \A i \in 1..(n + 1) : i \in 1..n \/ i = n + 1
    OBVIOUS
  <2> QED BY <1>2, <1>12, <2>1, <2>2
<1>15. q2 \in Seq(ToSet(tried)) /\ Distinct(q2) /\ ToSet(q2) = ToSet(q) \cup {a}
  <2>1. DOMAIN q = 1..Len(q) /\ Len(q) \in Nat
    BY ONLY <1>5, SeqFacts
  <2>2. /\ q2 \in Seq(ToSet(tried)) /\ DOMAIN q2 = 1..(Len(q) + 1) /\ q2[Len(q) + 1] = a
        /\ \A i \in DOMAIN q : q2[i] = q[i]
    BY ONLY <1>4, <1>5, <1>10, <2>1
  <2>3. \A i \in DOMAIN q2 : i \in DOMAIN q \/ i = Len(q) + 1
    BY ONLY <2>1, <2>2
  <2>4. \A i \in DOMAIN q : i \in DOMAIN q2 /\ q[i] # a
    <3>1. a \notin ToSet(q)
      BY ONLY <1>5, <1>7 DEF InBucket
    <3> QED BY ONLY <2>1, <2>2, <3>1 DEF ToSet
  <2>5. Distinct(q2)
    BY ONLY <1>5, <2>2, <2>3, <2>4 DEF Distinct
  <2>6. Len(q) + 1 \in DOMAIN q2
    BY ONLY <2>1, <2>2
  <2>7. ToSet(q2) = ToSet(q) \cup {a}
    BY ONLY <2>2, <2>3, <2>4, <2>6 DEF ToSet
  <2> QED BY ONLY <2>2, <2>5, <2>7
<1>16. /\ buckets2 = [c \in TriedBuckets |-> buckets2[c]] /\ buckets2[b] = q2
       /\ \A c \in TriedBuckets : c # b => buckets2[c] = buckets[c]
  BY ONLY <1>1, <1>4, <1>10
<1>17. buckets2 \in [TriedBuckets -> Seq(ToSet(tried))]
  <2>1. \A c \in TriedBuckets : buckets2[c] \in Seq(ToSet(tried))
    BY ONLY <1>1, <1>15, <1>16
  <2> QED BY ONLY <1>16, <2>1
<1>18. ASSUME NEW c \in TriedBuckets
       PROVE  Distinct(buckets2[c]) /\ ToSet(buckets2[c]) = InBucket(Front(tried, n + 1), c)
  <2>1. CASE c = b
    <3>1. InBucket(Front(tried, n + 1), b) = InBucket(Front(tried, n), b) \cup {a}
      BY ONLY <1>2, <1>8 DEF InBucket
    <3> QED BY ONLY <1>5, <1>15, <1>16, <2>1, <3>1
  <2>2. CASE c # b
    <3>1. InBucket(Front(tried, n + 1), c) = InBucket(Front(tried, n), c)
      BY ONLY <1>2, <1>8, <2>2 DEF InBucket
    <3> QED BY ONLY <1>1, <1>16, <1>18, <2>2, <3>1
  <2> QED BY <2>1, <2>2
<1>19. LoadedAs(new, tried, n + 1, k, random2, buckets2)
  BY ONLY <1>11, <1>12, <1>13, <1>14, <1>17, <1>18 DEF LoadedAs
<1> QED BY ONLY <1>19 DEF LoadedSome

LEMMA LoadedAll ==
    ASSUME NEW S, NEW f, f.new \in Seq(S), f.tried \in Seq(S), Distinct(f.tried), Fits(f.tried),
           ToSet(f.tried) \subseteq Addrs
    PROVE  LoadedSome(f.new, f.tried, Len(f.tried), LoadedTried(f))
<1>1. PICK new, tried, n : new = f.new /\ tried = f.tried /\ n = Len(f.tried) /\ n \in Nat
  BY SeqFacts
<1>2. PICK v : Loads(new, tried, n, v) /\ LoadedTried(f) = v[n]
  BY <1>1, LoadedTriedLoads
<1> DEFINE P == {k \in Nat : k \in 0..n => LoadedSome(new, tried, k, v[k])}
<1>3. 0 \in P
  <2>1. v[0] = LoadNone(new)
    BY <1>2 DEF Loads
  <2>2. PICK buckets : buckets = [b \in TriedBuckets |-> <<>>]
    OBVIOUS
  <2>3. v[0] = [random |-> new, tried |-> buckets, nLost |-> 0]
    BY ONLY <2>1, <2>2 DEF LoadNone
  <2>4. new \in Seq(ToSet(new) \cup ToSet(tried)) /\ Len(new) = Len(new) + 0
    BY <1>1 DEF ToSet
  <2>5. buckets \in [TriedBuckets -> Seq(ToSet(tried))]
    BY ONLY <2>2
  <2>6. Front(tried, 0) = {}
    BY DEF Front
  <2>7. \A b \in TriedBuckets : Distinct(buckets[b]) /\ ToSet(buckets[b]) = InBucket(Front(tried, 0), b)
    BY ONLY <2>2, <2>6 DEF Distinct, ToSet, InBucket
  <2>8. /\ \A i \in 1..Len(new) : new[i] = new[i]
        /\ \A i \in 1..0 : new[Len(new) + i] = tried[i]
    OBVIOUS
  <2>9. LoadedAs(new, tried, 0, v[0], new, buckets)
    BY ONLY <2>3, <2>4, <2>5, <2>7, <2>8 DEF LoadedAs
  <2> QED BY <2>9 DEF LoadedSome
<1>4. ASSUME NEW k \in Nat, k \in P PROVE k + 1 \in P
  <2>1. SUFFICES ASSUME k + 1 \in 0..n PROVE LoadedSome(new, tried, k + 1, v[k + 1])
    OBVIOUS
  <2>2. k \in 0..n /\ k + 1 \in 1..n /\ (k + 1) - 1 = k
    BY <1>1, <2>1
  <2>3. v[k + 1] = LoadOne(v[k], tried[k + 1])
    BY <1>2, <2>2 DEF Loads
  <2>4. LoadedSome(new, tried, k, v[k])
    BY <1>4, <2>2
  <2>5. /\ new \in Seq(S) /\ tried \in Seq(S) /\ Distinct(tried) /\ Fits(tried) /\ ToSet(tried) \subseteq Addrs
        /\ k \in Nat /\ k + 1 \in 1..Len(tried)
    BY <1>1, <2>2
  <2> QED BY ONLY <2>3, <2>4, <2>5, LoadOneMore
<1> HIDE DEF P
<1>5. n \in P
  BY <1>1, <1>3, <1>4, StepByStep
<1>6. LoadedSome(new, tried, n, v[n])
  BY <1>1, <1>5 DEF P
<1> QED BY <1>1, <1>2, <1>6

\* The tables that are rebuilt after the tried entries are read.
LoadedInfo(f, r) ==
    [a \in ToSet(r.random) |->
        [source     |-> f.source[a],
         nRefCount  |-> CountedRefs(f, a),
         fInTried   |-> a \in ToSet(r.tried[TriedBucket[a]]),
         nRandomPos |-> CHOOSE i \in DOMAIN r.random : r.random[i] = a]]
LoadedNew(f) == [b \in NewBuckets |-> {f.new[i] : i \in f.buckets[b]}]

LEMMA LoadedFields ==
    ASSUME NEW f, NEW r, r = LoadedTried(f), NEW k, k = Loaded(f)
    PROVE  /\ k.info = LoadedInfo(f, r) /\ k.random = r.random /\ k.new = LoadedNew(f)
           /\ k.tried = r.tried /\ k.nNew = f.nNew /\ k.nTried = f.nTried - r.nLost
<1>1. k = [info |-> LoadedInfo(f, r), random |-> r.random, new |-> LoadedNew(f), tried |-> r.tried,
           nNew |-> f.nNew, nTried |-> f.nTried - r.nLost]
  BY DEF Loaded, LoadedInfo, LoadedNew
<1> QED BY ONLY <1>1

\* What is dumped: nothing is cut off.
Dump(f, referred, tried) ==
    /\ f.nNew = nNew /\ f.nTried = nTried /\ f.new = referred /\ f.tried = tried
    /\ \A a \in Known : f.source[a] = mapInfo[a].source
    /\ \A b \in NewBuckets : f.buckets[b] = {i \in DOMAIN referred : referred[i] \in vvNew[b]}

LEMMA DumpIs ==
    ASSUME NEW referred, NEW tried, UpTo(referred, nNew) = referred, UpTo(tried, nTried) = tried,
           NEW f, f = Dumped(referred, tried)
    PROVE  Dump(f, referred, tried)
<1>1. PICK source, buckets : /\ source = [a \in Known |-> mapInfo[a].source]
                             /\ buckets = [b \in NewBuckets |-> {i \in DOMAIN referred : referred[i] \in vvNew[b]}]
  OBVIOUS
<1>2. f = [nNew |-> nNew, nTried |-> nTried, new |-> referred, tried |-> tried, source |-> source, buckets |-> buckets]
  BY <1>1 DEF Dumped
<1>3. /\ f.nNew = nNew /\ f.nTried = nTried /\ f.new = referred /\ f.tried = tried
      /\ f.source = source /\ f.buckets = buckets
  BY ONLY <1>2
<1> QED BY ONLY <1>1, <1>3 DEF Dump

\* Only the new entries have references, and all of them have.
LEMMA PartsDumped ==
    ASSUME Inv
    PROVE  Referred = NewIn(mapInfo) /\ Tried = TriedIn(mapInfo)
<1>1. NewInv(mapInfo, vvNew) /\ RefsInv(mapInfo)
  BY DEF Inv, Good, Manager
<1>2. ASSUME NEW a \in Known PROVE mapInfo[a].nRefCount # 0 <=> ~mapInfo[a].fInTried
  <2>1. CASE mapInfo[a].fInTried
    <3>1. Refs(vvNew, a) = {}
      BY <1>1, <2>1 DEF NewInv, NewIn, Refs
    <3>2. mapInfo[a].nRefCount = 0
      BY <1>1, <1>2, <3>1, FS_EmptySet DEF NewInv, Known
    <3> QED BY <2>1, <3>2
  <2>2. CASE ~mapInfo[a].fInTried
    <3>1. mapInfo[a].nRefCount \in 1..PerAddress
      BY <1>1, <1>2, <2>2 DEF RefsInv, NewIn, Known
    <3> QED BY <2>2, <3>1
  <2> QED BY <2>1, <2>2
<1> QED BY <1>2 DEF Referred, Tried, NewIn, TriedIn, Known

\* vRandom after loading: the new entries, then the tried ones.
Listing(S, s) == s \in Seq(S) /\ ToSet(s) = S /\ Distinct(s)
Joins(s, t, r) ==
    /\ Len(r) = Len(s) + Len(t)
    /\ \A i \in 1..Len(s) : r[i] = s[i]
    /\ \A i \in 1..Len(t) : r[Len(s) + i] = t[i]

LEMMA Joined ==
    ASSUME NEW N, NEW T, N \cap T = {}, NEW s, NEW t, Listing(N, s), Listing(T, t),
           NEW S, NEW r \in Seq(S), Joins(s, t, r)
    PROVE  Listing(N \cup T, r)
<1>0. /\ s \in Seq(N) /\ t \in Seq(T) /\ ToSet(s) = N /\ ToSet(t) = T /\ Distinct(s) /\ Distinct(t)
      /\ Len(r) = Len(s) + Len(t)
      /\ \A i \in 1..Len(s) : r[i] = s[i]
      /\ \A i \in 1..Len(t) : r[Len(s) + i] = t[i]
  BY DEF Listing, Joins
<1> USE <1>0
<1>1. DOMAIN s = 1..Len(s) /\ Len(s) \in Nat /\ DOMAIN t = 1..Len(t) /\ Len(t) \in Nat
  BY SeqFacts
<1>2. DOMAIN r = 1..(Len(s) + Len(t))
  BY SeqFacts
<1>3. ASSUME NEW i \in DOMAIN r
      PROVE  IF i <= Len(s) THEN i \in DOMAIN s /\ r[i] = s[i]
                            ELSE i - Len(s) \in DOMAIN t /\ r[i] = t[i - Len(s)]
  <2>1. CASE i <= Len(s)
    BY <1>1, <1>2, <2>1
  <2>2. CASE ~(i <= Len(s))
    <3>1. i - Len(s) \in 1..Len(t) /\ Len(s) + (i - Len(s)) = i
      BY <1>1, <1>2, <2>2
    <3> QED BY <1>1, <2>2, <3>1
  <2> QED BY <2>1, <2>2
<1>4. (\A i \in DOMAIN s : s[i] \in N) /\ \A i \in DOMAIN t : t[i] \in T
  BY SeqFacts
<1>5. \A i \in DOMAIN r : r[i] \in N \cup T
  BY ONLY <1>3, <1>4
<1>6. ToSet(r) = N \cup T
  <2>1. ToSet(r) \subseteq N \cup T
    BY ONLY <1>5 DEF ToSet
  <2>2. ASSUME NEW x \in N PROVE x \in ToSet(r)
    <3>1. PICK i \in DOMAIN s : s[i] = x
      BY <2>2 DEF ToSet
    <3>2. i \in DOMAIN r /\ r[i] = x
      BY <1>1, <1>2, <3>1
    <3> QED BY <3>2 DEF ToSet
  <2>3. ASSUME NEW x \in T PROVE x \in ToSet(r)
    <3>1. PICK i \in DOMAIN t : t[i] = x
      BY <2>3 DEF ToSet
    <3>2. Len(s) + i \in DOMAIN r /\ r[Len(s) + i] = x
      BY <1>1, <1>2, <3>1
    <3> QED BY <3>2 DEF ToSet
  <2> QED BY <2>1, <2>2, <2>3
<1>7. ASSUME NEW i \in DOMAIN r, NEW j \in DOMAIN r, r[i] = r[j] PROVE i = j
  <2>1. i \in Nat /\ j \in Nat
    BY <1>2
  <2>2. CASE i <= Len(s) /\ j <= Len(s)
    BY <1>3, <1>7, <2>2 DEF Distinct
  <2>3. CASE ~(i <= Len(s)) /\ ~(j <= Len(s))
    <3>1. i - Len(s) = j - Len(s)
      BY <1>3, <1>7, <2>3 DEF Distinct
    <3> QED BY ONLY <1>1, <2>1, <3>1
  <2>4. CASE (i <= Len(s)) # (j <= Len(s))
    BY <1>3, <1>4, <1>7, <2>4
  <2> QED BY <2>2, <2>3, <2>4
<1>8. r \in Seq(N \cup T)
  <2>1. r \in Seq(S)
    OBVIOUS
  <2>2. DOMAIN r = 1..Len(r) /\ Len(r) \in Nat
    BY ONLY <2>1, SeqFacts
  <2> QED BY ONLY <1>5, <2>1, <2>2
<1> QED BY <1>6, <1>7, <1>8 DEF Distinct, Listing

\* What is loaded from a dump of the manager: all of it, but for the order of vRandom
\* and of the tried buckets.
Reloaded(k) ==
    /\ Good(k) /\ SameEntries(mapInfo, k.info) /\ k.new = vvNew
    /\ \A b \in TriedBuckets : ToSet(k.tried[b]) = ToSet(vvTried[b])

LEMMA DumpedLoads ==
    ASSUME Inv, NEW referred \in Orders(Referred), NEW tried \in Orders(Tried),
           NEW k, k = Loaded(Dumped(referred, tried))
    PROVE  Reloaded(k)
<1>1. /\ InfoInv(mapInfo) /\ RandomInv(mapInfo, vRandom) /\ NewInv(mapInfo, vvNew) /\ RefsInv(mapInfo)
      /\ TriedInv(mapInfo, vvTried) /\ CountInv(mapInfo, nNew, nTried) /\ SizeInv(vvNew, vvTried)
  BY DEF Inv, Good, Manager
<1>2. PICK h, N, T : h = mapInfo /\ N = NewIn(h) /\ T = TriedIn(h)
  OBVIOUS
<1>3. /\ Referred = N /\ Tried = T /\ N \cap T = {} /\ N \cup T = DOMAIN h /\ Known = DOMAIN h
      /\ N \subseteq DOMAIN h /\ T \subseteq DOMAIN h /\ DOMAIN h \subseteq Addrs
  BY <1>1, <1>2, PartsDumped DEF NewIn, TriedIn, Known, InfoInv
<1>4. IsFiniteSet(N) /\ IsFiniteSet(T) /\ nNew = Cardinality(N) /\ nTried = Cardinality(T)
  BY <1>1, <1>2, KnownFinite, PartsFinite DEF CountInv
<1>5. /\ referred \in Seq(N) /\ Len(referred) = nNew /\ nNew \in Nat /\ DOMAIN referred = 1..nNew
      /\ ToSet(referred) = N /\ Distinct(referred) /\ UpTo(referred, nNew) = referred
  BY <1>3, <1>4, OrderFacts
<1>6. /\ tried \in Seq(T) /\ Len(tried) = nTried /\ nTried \in Nat /\ DOMAIN tried = 1..nTried
      /\ ToSet(tried) = T /\ Distinct(tried) /\ UpTo(tried, nTried) = tried
  BY <1>3, <1>4, OrderFacts
<1>7. PICK f : f = Dumped(referred, tried) /\ Dump(f, referred, tried)
  BY <1>5, <1>6, DumpIs
<1>8. /\ f.nNew = nNew /\ f.nTried = nTried /\ f.new = referred /\ f.tried = tried
      /\ \A a \in DOMAIN h : f.source[a] = h[a].source
      /\ \A b \in NewBuckets : f.buckets[b] = {i \in DOMAIN referred : referred[i] \in vvNew[b]}
  BY ONLY <1>2, <1>3, <1>7 DEF Dump
\* The tried entries of a bucket are what the bucket held.
<1>9. ASSUME NEW b \in TriedBuckets
      PROVE  /\ InBucket(T, b) = ToSet(vvTried[b])
             /\ IsFiniteSet(ToSet(vvTried[b])) /\ Cardinality(ToSet(vvTried[b])) <= TriedSize
  <2>1. PICK q : q = vvTried[b] /\ q \in Seq(T) /\ (\A i \in DOMAIN q : TriedBucket[q[i]] = b) /\ Distinct(q)
                 /\ (\A x \in T : TriedBucket[x] = b => x \in ToSet(q)) /\ Len(q) <= TriedSize
    BY <1>1, <1>2, <1>9 DEF TriedInv, Distinct, SizeInv
  <2>2. \A i \in DOMAIN q : q[i] \in T
    BY ONLY <2>1, SeqFacts
  <2>3. InBucket(T, b) = ToSet(q)
    BY ONLY <2>1, <2>2 DEF InBucket, ToSet
  <2>4. IsFiniteSet(ToSet(q)) /\ Cardinality(ToSet(q)) = Len(q)
    BY ONLY <2>1, DistinctLen
  <2> QED BY ONLY <2>1, <2>3, <2>4
<1>10. Fits(tried)
  BY ONLY <1>6, <1>9 DEF Fits
<1>11. PICK r, random, buckets : r = LoadedTried(f) /\ LoadedAs(referred, tried, nTried, r, random, buckets)
  <2>1. referred \in Seq(DOMAIN h) /\ tried \in Seq(DOMAIN h)
    <3>1. \A i \in DOMAIN referred : referred[i] \in DOMAIN h
      BY ONLY <1>3, <1>5, SeqFacts
    <3>2. \A i \in DOMAIN tried : tried[i] \in DOMAIN h
      BY ONLY <1>3, <1>6, SeqFacts
    <3>3. referred \in Seq(DOMAIN h)
      BY ONLY <1>5, <3>1
    <3>4. tried \in Seq(DOMAIN h)
      BY ONLY <1>6, <3>2
    <3> QED BY ONLY <3>3, <3>4
  <2>2. /\ f.new \in Seq(DOMAIN h) /\ f.tried \in Seq(DOMAIN h) /\ Distinct(f.tried) /\ Fits(f.tried)
        /\ ToSet(f.tried) \subseteq Addrs
    BY ONLY <1>3, <1>6, <1>8, <1>10, <2>1
  <2>3. LoadedSome(f.new, f.tried, Len(f.tried), LoadedTried(f))
    BY ONLY <2>2, LoadedAll
  <2>4. LoadedSome(referred, tried, nTried, LoadedTried(f))
    BY ONLY <1>6, <1>8, <2>3
  <2> QED BY ONLY <2>4 DEF LoadedSome
<1>12. /\ r = [random |-> random, tried |-> buckets, nLost |-> 0]
       /\ random \in Seq(N \cup T) /\ Len(random) = Len(referred) + Len(tried)
       /\ \A i \in 1..Len(referred) : random[i] = referred[i]
       /\ \A i \in 1..Len(tried) : random[Len(referred) + i] = tried[i]
       /\ buckets \in [TriedBuckets -> Seq(T)]
       /\ \A b \in TriedBuckets : Distinct(buckets[b]) /\ ToSet(buckets[b]) = InBucket(Front(tried, nTried), b)
  BY ONLY <1>5, <1>6, <1>11 DEF LoadedAs
<1>13. random \in Seq(DOMAIN h) /\ ToSet(random) = DOMAIN h /\ Distinct(random)
  <2>1. random \in Seq(N \cup T) /\ ToSet(random) = N \cup T /\ Distinct(random)
    <3>1. Listing(N, referred) /\ Listing(T, tried)
      BY ONLY <1>5, <1>6 DEF Listing
    <3>2. Joins(referred, tried, random)
      BY ONLY <1>12 DEF Joins
    <3>3. N \cap T = {} /\ random \in Seq(N \cup T)
      BY ONLY <1>3, <1>12
    <3>4. Listing(N \cup T, random)
      BY ONLY <3>1, <3>2, <3>3, Joined
    <3> QED BY ONLY <3>4 DEF Listing
  <2> QED BY ONLY <1>3, <2>1
<1>14. \A b \in TriedBuckets : Distinct(buckets[b]) /\ ToSet(buckets[b]) = InBucket(T, b)
  <2>1. Front(tried, nTried) = T
    BY ONLY <1>6 DEF Front, ToSet
  <2> QED BY ONLY <1>12, <2>1
<1>15. PICK g, w : g = LoadedInfo(f, r) /\ w = LoadedNew(f)
  OBVIOUS
<1>16. k.info = g /\ k.random = random /\ k.new = w /\ k.tried = buckets /\ k.nNew = nNew /\ k.nTried = nTried
  <2>1. /\ k.info = LoadedInfo(f, r) /\ k.random = r.random /\ k.new = LoadedNew(f)
        /\ k.tried = r.tried /\ k.nNew = f.nNew /\ k.nTried = f.nTried - r.nLost
    BY <1>7, <1>11, LoadedFields
  <2>2. r.random = random /\ r.tried = buckets /\ r.nLost = 0
    BY ONLY <1>12
  <2> QED BY ONLY <1>6, <1>8, <1>15, <2>1, <2>2
\* The new buckets are the same.
<1>17. vvNew \in [NewBuckets -> SUBSET N] /\ \A a \in DOMAIN h : h[a].nRefCount = Cardinality(Refs(vvNew, a))
  BY ONLY <1>1, <1>2 DEF NewInv
<1>18. w = vvNew
  <2>1. \A b \in NewBuckets : {f.new[i] : i \in f.buckets[b]} = vvNew[b]
    <3>1. ASSUME NEW b \in NewBuckets PROVE {referred[i] : i \in f.buckets[b]} = vvNew[b]
      <4>1. \A x \in vvNew[b] : \E i \in DOMAIN referred : referred[i] = x
        BY ONLY <1>5, <1>17, <3>1 DEF ToSet
      <4> QED BY ONLY <1>8, <3>1, <4>1
    <3> QED BY ONLY <1>8, <3>1
  <2>2. w = [b \in NewBuckets |-> {f.new[i] : i \in f.buckets[b]}]
    BY ONLY <1>15 DEF LoadedNew
  <2> QED BY ONLY <1>17, <2>1, <2>2
<1>19. ASSUME NEW a \in DOMAIN h PROVE CountedRefs(f, a) = h[a].nRefCount
  <2>1. {b \in NewBuckets : \E i \in f.buckets[b] : f.new[i] = a} = Refs(vvNew, a)
    <3>1. ASSUME NEW b \in NewBuckets PROVE (\E i \in f.buckets[b] : f.new[i] = a) <=> a \in vvNew[b]
      <4>1. a \in vvNew[b] => \E i \in DOMAIN referred : referred[i] = a
        BY ONLY <1>5, <1>17, <3>1 DEF ToSet
      <4> QED BY ONLY <1>8, <3>1, <4>1
    <3> QED BY ONLY <3>1 DEF Refs
  <2> QED BY ONLY <1>17, <1>19, <2>1 DEF CountedRefs
<1>20. ASSUME NEW a \in DOMAIN h PROVE (a \in ToSet(buckets[TriedBucket[a]])) = (a \in T)
  <2>1. TriedBucket[a] \in TriedBuckets
    BY <1>3, AddrManAssumption DEF AddrManAssumption
  <2> QED BY ONLY <1>14, <2>1 DEF InBucket
<1>21. /\ DOMAIN g = DOMAIN h /\ g = [a \in DOMAIN h |-> g[a]]
       /\ \A a \in DOMAIN h : g[a] = [source     |-> f.source[a],
                                      nRefCount  |-> CountedRefs(f, a),
                                      fInTried   |-> a \in ToSet(buckets[TriedBucket[a]]),
                                      nRandomPos |-> CHOOSE i \in DOMAIN random : random[i] = a]
  <2>1. r.random = random /\ r.tried = buckets
    BY ONLY <1>12
  <2> QED BY ONLY <1>13, <1>15, <2>1 DEF LoadedInfo
<1>22. h \in [DOMAIN h -> Info]
  BY ONLY <1>1, <1>2 DEF InfoInv
<1>23. ASSUME NEW a \in DOMAIN h
       PROVE  /\ g[a] \in Info /\ SameEntry(h, g, a)
              /\ g[a].nRandomPos \in DOMAIN random /\ random[g[a].nRandomPos] = a
  <2>1. PICK p : p = CHOOSE i \in DOMAIN random : random[i] = a
    OBVIOUS
  <2>2. \E i \in DOMAIN random : random[i] = a
    BY ONLY <1>13, <1>23 DEF ToSet
  <2>3. p \in DOMAIN random /\ random[p] = a
    BY ONLY <2>1, <2>2
  <2>4. p \in Nat
    BY ONLY <1>13, <2>3, SeqFacts
  <2>5. PICK e : e = (a \in T) /\ e \in BOOLEAN
    <3>1. (a \in T) \in BOOLEAN
      OBVIOUS
    <3> QED BY ONLY <3>1, Zenon
  <2>6. g[a] = [source |-> h[a].source, nRefCount |-> h[a].nRefCount, fInTried |-> e, nRandomPos |-> p]
    BY ONLY <1>8, <1>19, <1>20, <1>21, <1>23, <2>1, <2>5
  <2>7. h[a] \in Info
    BY ONLY <1>22, <1>23
  <2>8. e = h[a].fInTried
    <3>1. h[a].fInTried \in BOOLEAN
      BY ONLY <2>7 DEF Info
    <3> QED BY ONLY <1>2, <1>23, <2>5, <3>1 DEF TriedIn
  <2>9. /\ g[a].source = h[a].source /\ g[a].nRefCount = h[a].nRefCount
        /\ g[a].fInTried = e /\ g[a].nRandomPos = p
    BY ONLY <2>6
  <2>10. g[a] \in Info
    BY ONLY <2>4, <2>5, <2>6, <2>7 DEF Info
  <2> QED BY ONLY <2>3, <2>8, <2>9, <2>10 DEF SameEntry
<1>24. InfoInv(g) /\ SameEntries(h, g)
  <2>1. g \in [DOMAIN g -> Info]
    BY ONLY <1>21, <1>23
  <2> QED BY ONLY <1>3, <1>21, <1>23, <2>1 DEF InfoInv, SameEntries
<1>25. RandomInv(g, random)
  <2>1. \A i \in DOMAIN random : random[i] \in DOMAIN h
    BY ONLY <1>13, SeqFacts
  <2>2. \A i \in DOMAIN random : g[random[i]].nRandomPos = i
    BY ONLY <1>13, <1>23, <2>1 DEF Distinct
  <2> QED BY ONLY <1>13, <1>21, <1>23, <2>2 DEF RandomInv
<1>26. NewIn(g) = N /\ TriedIn(g) = T
  BY ONLY <1>2, <1>24, SameParts
<1>27. NewInv(g, vvNew)
  <2>1. \A a \in DOMAIN g : g[a].nRefCount = Cardinality(Refs(vvNew, a))
    BY ONLY <1>17, <1>21, <1>23 DEF SameEntry
  <2> QED BY ONLY <1>17, <1>26, <2>1 DEF NewInv
<1>28. RefsInv(g)
  <2>1. \A a \in N : a \in DOMAIN h /\ h[a].nRefCount \in 1..PerAddress
    BY ONLY <1>1, <1>2, <1>3 DEF RefsInv
  <2> QED BY ONLY <1>23, <1>26, <2>1 DEF RefsInv, SameEntry
<1>29. TriedInv(g, buckets)
  <2>1. ASSUME NEW b \in TriedBuckets, NEW i \in DOMAIN buckets[b] PROVE TriedBucket[buckets[b][i]] = b
    <3>1. buckets[b][i] \in ToSet(buckets[b])
      BY ONLY <2>1 DEF ToSet
    <3> QED BY ONLY <1>14, <2>1, <3>1 DEF InBucket
  <2>2. \A a \in T : a \in ToSet(buckets[TriedBucket[a]])
    BY ONLY <1>3, <1>20
  <2> QED BY ONLY <1>12, <1>14, <1>26, <2>1, <2>2 DEF TriedInv, Distinct
<1>30. CountInv(g, nNew, nTried)
  BY ONLY <1>4, <1>26 DEF CountInv
<1>31. SizeInv(vvNew, buckets)
  <2>1. ASSUME NEW b \in TriedBuckets PROVE Len(buckets[b]) <= TriedSize
    <3>1. buckets[b] \in Seq(T) /\ Distinct(buckets[b]) /\ ToSet(buckets[b]) = InBucket(T, b)
      BY ONLY <1>12, <1>14, <2>1
    <3>2. Cardinality(ToSet(buckets[b])) = Len(buckets[b])
      BY ONLY <3>1, DistinctLen
    <3> QED BY ONLY <1>9, <2>1, <3>1, <3>2
  <2> QED BY ONLY <1>1, <2>1 DEF SizeInv
<1>32. Good(k)
  BY ONLY <1>16, <1>18, <1>24, <1>25, <1>27, <1>28, <1>29, <1>30, <1>31 DEF Good
<1>33. \A b \in TriedBuckets : ToSet(k.tried[b]) = ToSet(vvTried[b])
  BY ONLY <1>9, <1>14, <1>16
<1> QED BY ONLY <1>2, <1>16, <1>18, <1>24, <1>32, <1>33 DEF Reloaded

LEMMA EmptyGood == Good(Empty) /\ DOMAIN Empty.info = {}
<1>1. PICK f, new, tried :
        /\ f = [a \in {} |-> [source |-> "", nRefCount |-> 0, fInTried |-> FALSE, nRandomPos |-> 0]]
        /\ new = [b \in NewBuckets |-> {}] /\ tried = [b \in TriedBuckets |-> <<>>]
  OBVIOUS
<1>2. Empty = [info |-> f, random |-> <<>>, new |-> new, tried |-> tried, nNew |-> 0, nTried |-> 0]
  BY ONLY <1>1 DEF Empty
<1>3. /\ Empty.info = f /\ Empty.random = <<>> /\ Empty.new = new /\ Empty.tried = tried
      /\ Empty.nNew = 0 /\ Empty.nTried = 0
  BY ONLY <1>2
<1>4. DOMAIN f = {} /\ NewIn(f) = {} /\ TriedIn(f) = {}
  BY ONLY <1>1 DEF NewIn, TriedIn
<1>5. f \in [DOMAIN f -> Info]
  BY ONLY <1>1
<1>6. InfoInv(f) /\ RefsInv(f)
  BY ONLY <1>4, <1>5 DEF InfoInv, RefsInv
<1>7. RandomInv(f, <<>>)
  BY ONLY <1>4 DEF RandomInv
<1>8. NewInv(f, new)
  BY ONLY <1>1, <1>4 DEF NewInv
<1>9. TriedInv(f, tried)
  BY ONLY <1>1, <1>4 DEF TriedInv
<1>10. CountInv(f, 0, 0)
  BY ONLY <1>4, FS_EmptySet DEF CountInv
<1>11. SizeInv(new, tried)
  <2>1. NewSize \in Nat /\ TriedSize \in Nat
    BY AddrManAssumption DEF AddrManAssumption
  <2>2. (\A b \in NewBuckets : Cardinality(new[b]) = 0) /\ \A b \in TriedBuckets : Len(tried[b]) = 0
    BY ONLY <1>1, FS_EmptySet
  <2> QED BY ONLY <2>1, <2>2 DEF SizeInv
<1> QED BY ONLY <1>3, <1>4, <1>6, <1>7, <1>8, <1>9, <1>10, <1>11 DEF Good

LEMMA RestartGood ==
    ASSUME Inv, Restart
    PROVE  Inv' /\ (DOMAIN mapInfo' = {} \/ DOMAIN mapInfo' = DOMAIN mapInfo)
<1>1. CASE \E referred \in Orders(Referred), tried \in Orders(Tried) : Becomes(Loaded(Dumped(referred, tried)))
  <2>1. PICK referred \in Orders(Referred), tried \in Orders(Tried) : Becomes(Loaded(Dumped(referred, tried)))
    BY <1>1
  <2>2. PICK k : k = Loaded(Dumped(referred, tried))
    OBVIOUS
  <2>3. Reloaded(k)
    BY <2>2, DumpedLoads
  <2>4. Good(k) /\ DOMAIN k.info = DOMAIN mapInfo
    BY <2>3 DEF Reloaded, SameEntries
  <2> QED BY <2>1, <2>2, <2>4, BecomesGood
<1>2. CASE Becomes(Empty)
  BY <1>2, EmptyGood, BecomesGood
<1> QED BY <1>1, <1>2 DEF Restart

-----------------------------------------------------------------------------
(* The invariant is one *)

LEMMA InitGood == Init => Inv
<1>1. SUFFICES ASSUME Init PROVE Inv
  OBVIOUS
<1>2. Manager = [info |-> Empty.info, random |-> <<>>, new |-> Empty.new, tried |-> Empty.tried, nNew |-> 0, nTried |-> 0]
  BY <1>1 DEF Init, Manager
<1>3. /\ Manager.info = Empty.info /\ Manager.random = Empty.random /\ Manager.new = Empty.new
      /\ Manager.tried = Empty.tried /\ Manager.nNew = Empty.nNew /\ Manager.nTried = Empty.nTried
  <2>1. Empty.random = <<>> /\ Empty.nNew = 0 /\ Empty.nTried = 0
    BY DEF Empty
  <2> QED BY ONLY <1>2, <2>1
<1> QED BY <1>3, EmptyGood DEF Inv, Good

LEMMA StepGood ==
    ASSUME Inv, [Next]_vars
    PROVE  Inv' /\ (\/ DOMAIN mapInfo' = {}
                    \/ DOMAIN mapInfo' = DOMAIN mapInfo
                    \/ TriedIn(mapInfo') = TriedIn(mapInfo))
<1>1. ASSUME NEW a \in Addrs, NEW s \in Sources, AddNew(a, s) PROVE Inv' /\ TriedIn(mapInfo') = TriedIn(mapInfo)
  BY <1>1, AddNewGood
<1>2. ASSUME NEW a \in Addrs, NEW s \in Sources, AddAgain(a, s) PROVE Inv' /\ TriedIn(mapInfo') = TriedIn(mapInfo)
  BY <1>2, AddAgainGood
<1>3. ASSUME NEW a \in Addrs, NEW b \in NewBuckets, MakeTried(a, b) PROVE Inv' /\ DOMAIN mapInfo' = DOMAIN mapInfo
  BY <1>3, MakeTriedGood
<1>4. CASE GetAddr
  BY <1>4, GetAddrGood
<1>5. CASE Restart
  BY <1>5, RestartGood
<1>6. CASE UNCHANGED vars
  <2>1. Manager' = Manager /\ mapInfo' = mapInfo
    BY <1>6 DEF vars, Manager
  <2> QED BY <2>1 DEF Inv
<1> QED BY <1>1, <1>2, <1>3, <1>4, <1>5, <1>6 DEF Next

\* In every reachable state, the tables agree and no bucket is over its size: the
\* induction that all that follows rests on.
THEOREM ManagerGood == Spec => []Inv
<1>1. Inv /\ [Next]_vars => Inv'
  BY StepGood
<1> QED BY InitGood, <1>1, PTL DEF Spec

LEMMA InvParts ==
    ASSUME Inv
    PROVE  /\ InfoInv(mapInfo) /\ RandomInv(mapInfo, vRandom) /\ NewInv(mapInfo, vvNew) /\ RefsInv(mapInfo)
           /\ TriedInv(mapInfo, vvTried) /\ CountInv(mapInfo, nNew, nTried) /\ SizeInv(vvNew, vvTried)
BY DEF Inv, Good, Manager

\* Every table holds what its declaration in addrman.h says, of entries that exist.
THEOREM TypeCorrect == Spec => []TypeOK
<1>1. ASSUME Inv PROVE TypeOK
  <2>1. /\ InfoInv(mapInfo) /\ RandomInv(mapInfo, vRandom) /\ NewInv(mapInfo, vvNew) /\ RefsInv(mapInfo)
        /\ TriedInv(mapInfo, vvTried) /\ CountInv(mapInfo, nNew, nTried) /\ SizeInv(vvNew, vvTried)
    BY <1>1, InvParts
  <2>2. Known \subseteq Addrs /\ mapInfo \in [Known -> Info] /\ vRandom \in Seq(Known)
    BY ONLY <2>1 DEF Known, InfoInv, RandomInv
  <2>3. NewIn(mapInfo) \subseteq Known /\ TriedIn(mapInfo) \subseteq Known
    BY DEF NewIn, TriedIn, Known
  <2>4. vvNew \in [NewBuckets -> SUBSET Known]
    BY ONLY <2>1, <2>3 DEF NewInv
  <2>5. vvTried \in [TriedBuckets -> Seq(Known)]
    <3>1. vvTried \in [TriedBuckets -> Seq(TriedIn(mapInfo))]
      BY ONLY <2>1 DEF TriedInv
    <3>2. ASSUME NEW s \in Seq(TriedIn(mapInfo)) PROVE s \in Seq(Known)
      <4>1. \A i \in DOMAIN s : s[i] \in Known
        BY <2>3, SeqFacts
      <4> QED BY ONLY <3>2, <4>1
    <3> QED BY ONLY <3>1, <3>2
  <2>6. nNew \in Int /\ nTried \in Int
    BY ONLY <2>1, KnownFinite, PartsFinite DEF CountInv
  <2> QED BY <2>2, <2>4, <2>5, <2>6 DEF TypeOK
<1> QED BY ManagerGood, <1>1, PTL

\* Check_ returns 0 after every operation, in whatever order the threads that learn
\* of addresses, connect to them and answer getaddr take the lock.
THEOREM TablesAgree == Spec => []Check
<1>1. ASSUME Inv PROVE Check
  <2>1. /\ InfoInv(mapInfo) /\ RandomInv(mapInfo, vRandom) /\ NewInv(mapInfo, vvNew) /\ RefsInv(mapInfo)
        /\ TriedInv(mapInfo, vvTried) /\ CountInv(mapInfo, nNew, nTried) /\ SizeInv(vvNew, vvTried)
    BY <1>1, InvParts
  <2>2. RefCountsAgree
    <3>1. ASSUME NEW a \in Known
          PROVE  /\ mapInfo[a].nRefCount = Cardinality(Refs(vvNew, a))
                 /\ ~mapInfo[a].fInTried => Cardinality(Refs(vvNew, a)) \in 1..PerAddress
      BY <2>1, <3>1 DEF NewInv, RefsInv, NewIn, Known
    <3> QED BY <3>1 DEF RefCountsAgree, Refs
  <2>3. ASSUME NEW a \in Known, mapInfo[a].fInTried, NEW b \in NewBuckets PROVE a \notin vvNew[b]
    BY <2>1, <2>3 DEF NewInv, NewIn
  <2>4. ASSUME NEW a \in Known, NEW b \in TriedBuckets
        PROVE  Cardinality({i \in DOMAIN vvTried[b] : vvTried[b][i] = a}) =
                   (IF mapInfo[a].fInTried /\ b = TriedBucket[a] THEN 1 ELSE 0)
    <3>1. PICK q : /\ q = vvTried[b] /\ q \in Seq(TriedIn(mapInfo))
                   /\ (\A i \in DOMAIN q : TriedBucket[q[i]] = b) /\ Distinct(q)
                   /\ (a \in TriedIn(mapInfo) /\ TriedBucket[a] = b => a \in ToSet(q))
      BY <2>1, <2>4 DEF TriedInv, Distinct
    <3>2. \A i \in DOMAIN q : q[i] \in TriedIn(mapInfo)
      BY ONLY <3>1, SeqFacts
    <3>3. CASE mapInfo[a].fInTried /\ b = TriedBucket[a]
      <4>1. a \in TriedIn(mapInfo)
        BY <2>4, <3>3 DEF TriedIn, Known
      <4>2. PICK i \in DOMAIN q : q[i] = a
        BY <3>1, <3>3, <4>1 DEF ToSet
      <4>3. {j \in DOMAIN q : q[j] = a} = {i}
        BY ONLY <3>1, <4>2 DEF Distinct
      <4>4. Cardinality({j \in DOMAIN q : q[j] = a}) = 1
        BY ONLY <4>3, FS_Singleton
      <4> QED BY <3>1, <3>3, <4>4
    <3>4. CASE ~(mapInfo[a].fInTried /\ b = TriedBucket[a])
      <4>1. {j \in DOMAIN q : q[j] = a} = {}
        BY <3>1, <3>2, <3>4 DEF TriedIn
      <4>2. Cardinality({j \in DOMAIN q : q[j] = a}) = 0
        BY ONLY <4>1, FS_EmptySet
      <4> QED BY <3>1, <3>4, <4>2
    <3> QED BY <3>3, <3>4
  <2>5. TriedXorNew
    BY <2>3, <2>4 DEF TriedXorNew
  <2>6. CountsAgree
    <3>1. nNew = Cardinality(NewIn(mapInfo)) /\ nTried = Cardinality(TriedIn(mapInfo))
      BY ONLY <2>1 DEF CountInv
    <3>2. Len(vRandom) = nNew + nTried
      BY ONLY <2>1, <3>1, KnownFinite, PartsFinite
    <3> QED BY ONLY <3>1, <3>2 DEF CountsAgree, NewIn, TriedIn, Known
  <2>7. RandomAgrees
    <3>1. /\ vRandom \in Seq(Known)
          /\ \A a \in Known : mapInfo[a].nRandomPos \in DOMAIN vRandom /\ vRandom[mapInfo[a].nRandomPos] = a
      BY ONLY <2>1 DEF RandomInv, Known
    <3>2. \A i \in DOMAIN vRandom : vRandom[i] \in Known
      BY ONLY <3>1, SeqFacts
    <3> QED BY ONLY <3>1, <3>2 DEF RandomAgrees, ToSet
  <2> QED BY <2>2, <2>5, <2>6, <2>7 DEF Check
<1> QED BY ManagerGood, <1>1, PTL

\* No new or tried bucket outgrows its size; in particular there is certainly place
\* in the bucket an address came from when MakeTried evicts another to it.
THEOREM NoBucketOutgrown == Spec => []BucketsBounded
<1>1. ASSUME Inv PROVE BucketsBounded
  BY <1>1, InvParts DEF SizeInv, BucketsBounded
<1> QED BY ManagerGood, <1>1, PTL

\* Whatever the order of the entries in peers.dat, loading what was dumped brings back
\* every address, with its source, its references and its bucket.
THEOREM DumpLosesNothing == Spec => []DumpKeepsAll
<1>1. ASSUME Inv, NEW referred \in Orders(Referred), NEW tried \in Orders(Tried),
             NEW m, m = Loaded(Dumped(referred, tried))
      PROVE  /\ m.new = vvNew
             /\ \A b \in TriedBuckets : ToSet(m.tried[b]) = ToSet(vvTried[b])
             /\ DOMAIN m.info = Known
             /\ \A a \in Known : [m.info[a] EXCEPT !.nRandomPos = mapInfo[a].nRandomPos] = mapInfo[a]
  <2>1. Reloaded(m)
    BY <1>1, DumpedLoads
  <2>2. /\ Good(m) /\ SameEntries(mapInfo, m.info) /\ m.new = vvNew
        /\ \A b \in TriedBuckets : ToSet(m.tried[b]) = ToSet(vvTried[b])
    BY ONLY <2>1 DEF Reloaded
  <2>3. DOMAIN m.info = Known /\ \A a \in Known : SameEntry(mapInfo, m.info, a)
    BY ONLY <2>2 DEF SameEntries, Known
  <2>4. m.info \in [DOMAIN m.info -> Info] /\ mapInfo \in [Known -> Info]
    BY <1>1, <2>2, InvParts DEF Good, InfoInv, Known
  <2>5. ASSUME NEW a \in Known PROVE [m.info[a] EXCEPT !.nRandomPos = mapInfo[a].nRandomPos] = mapInfo[a]
    <3>1. PICK c, d : c = m.info[a] /\ d = mapInfo[a]
      OBVIOUS
    <3>2. /\ c \in Info /\ d \in Info
          /\ c.source = d.source /\ c.nRefCount = d.nRefCount /\ c.fInTried = d.fInTried
      BY ONLY <2>3, <2>4, <2>5, <3>1 DEF SameEntry
    <3>3. PICK s1, r1, t1, p1 : c = [source |-> s1, nRefCount |-> r1, fInTried |-> t1, nRandomPos |-> p1]
      BY ONLY <3>2 DEF Info
    <3>4. PICK s2, r2, t2, p2 : d = [source |-> s2, nRefCount |-> r2, fInTried |-> t2, nRandomPos |-> p2]
      BY ONLY <3>2 DEF Info
    <3>5. s1 = s2 /\ r1 = r2 /\ t1 = t2 /\ d.nRandomPos = p2
      BY ONLY <3>2, <3>3, <3>4
    <3>6. [c EXCEPT !.nRandomPos = p2] = [source |-> s1, nRefCount |-> r1, fInTried |-> t1, nRandomPos |-> p2]
      BY ONLY <3>3
    <3>7. [c EXCEPT !.nRandomPos = d.nRandomPos] = d
      BY ONLY <3>4, <3>5, <3>6
    <3> QED BY ONLY <3>1, <3>7
  <2> QED BY ONLY <2>2, <2>3, <2>5
<1>2. ASSUME Inv PROVE DumpKeepsAll
  BY <1>1, <1>2 DEF DumpKeepsAll
<1> QED BY ManagerGood, <1>2, PTL

\* No step but a start without peers.dat deletes a tried address: what Add_ erases to
\* make place is new, and what MakeTried evicts stays known.
THEOREM TriedStays == Spec => TriedNotDeleted
<1>1. ASSUME Inv, [Next]_vars
      PROVE  [DOMAIN mapInfo' # {} => \A a \in Known : mapInfo[a].fInTried => a \in DOMAIN mapInfo']_vars
  BY <1>1, StepGood DEF TriedIn, Known
<1> QED BY ManagerGood, <1>1, PTL DEF Spec, TriedNotDeleted
=============================================================================
