---------------------------- MODULE KeyPoolProofs ---------------------------
(* Proofs about KeyPool, for any number of miners, keys and refills.       *)
EXTENDS KeyPool, FiniteSetTheorems, WellFoundedInduction, TLAPS

USE KeyPoolAssumption DEF KeyPoolAssumption

\* A non-empty set of numbers has a least element, the one Min returns.
LEMMA MinIsLeast ==
    ASSUME NEW S, S \subseteq Nat, S # {}
    PROVE  Min(S) \in S /\ \A x \in S : Min(S) <= x
<1>1. PICK d \in S : \A e \in S : <<e, d>> \notin OpToRel(<, Nat)
  BY WFMin, NatLessThanWellFounded
<1>2. ASSUME NEW e \in S PROVE d <= e
  <2>1. d \in Nat /\ e \in Nat
    OBVIOUS
  <2>2. ~(e < d)
    BY <1>1, <2>1 DEF OpToRel
  <2> QED BY <2>1, <2>2
<1> QED BY <1>2 DEF Min

\* A non-empty set of indices has a greatest element, the one Max returns.
LEMMA MaxIsGreatest ==
    ASSUME NEW S, S \subseteq Keys, S # {}
    PROVE  Max(S) \in S /\ \A x \in S : x <= Max(S)
<1> DEFINE fromEnd == {MaxKey - x : x \in S}
<1>1. fromEnd \subseteq Nat /\ fromEnd # {}
  <2>1. ASSUME NEW x \in S PROVE MaxKey - x \in Nat
    BY DEF Keys
  <2> QED BY <2>1
<1>2. PICK d \in fromEnd : \A e \in fromEnd : <<e, d>> \notin OpToRel(<, Nat)
  BY <1>1, WFMin, NatLessThanWellFounded
<1>3. PICK x \in S : d = MaxKey - x
  OBVIOUS
<1>4. ASSUME NEW y \in S PROVE y <= x
  <2>1. MaxKey - y \in fromEnd /\ x \in Nat /\ y \in Nat
    BY DEF Keys
  <2>2. ~(MaxKey - y < d)
    BY <1>1, <1>2, <2>1 DEF OpToRel
  <2> QED BY <1>3, <2>1, <2>2
<1> QED BY <1>4 DEF Max

\* The indices are finitely many.
LEMMA IndicesFinite ==
    ASSUME NEW S, S \subseteq Keys
    PROVE  IsFiniteSet(S) /\ Cardinality(S) \in Nat
<1>1. IsFiniteSet(Keys)
  BY FS_Interval DEF Keys
<1> QED BY <1>1, FS_Subset, FS_CardinalityType

-----------------------------------------------------------------------------
\* The inductive invariant, as a predicate of a pool p, the keys given out and
\* the indices the miners hold.
WellFormed(p, out, held) ==
    /\ p.set \subseteq Keys
    /\ DOMAIN p.disk \subseteq Keys
    /\ p.disk \in [DOMAIN p.disk -> Keys]
    /\ p.next \in 1 .. MaxKey + 1
    /\ out \subseteq Keys
    /\ held \in [Miners -> Keys \cup {0}]

\* No index and no key runs ahead of the keys generated so far.
Below(p, out, held) ==
    /\ \A i \in p.set : i < p.next
    /\ \A i \in DOMAIN p.disk : i < p.next /\ p.disk[i] < p.next
    /\ \A k \in out : k < p.next
    /\ \A m \in Miners : held[m] < p.next

Unused(p, out) ==
    /\ \A i \in DOMAIN p.disk : p.disk[i] \notin out
    /\ \A i, j \in DOMAIN p.disk : p.disk[i] = p.disk[j] => i = j

\* The indices in memory and those the miners hold are different indices with
\* a record, and the greatest index is in memory: a top-up never starts at an
\* index that is in use.
Apart(p, held) ==
    /\ p.set \subseteq DOMAIN p.disk
    /\ \A i \in DOMAIN p.disk : \E j \in p.set : i <= j
    /\ \A m \in Miners : held[m] # 0 => held[m] \in DOMAIN p.disk \ p.set
    /\ \A m, n \in Miners : held[m] # 0 /\ held[m] = held[n] => m = n

Complete(p, out) ==
    \A k \in 1 .. p.next - 1 : k \in out \/ \E i \in DOMAIN p.disk : p.disk[i] = k

Good(p, out, held, plain) ==
    /\ WellFormed(p, out, held)
    /\ Below(p, out, held)
    /\ Unused(p, out)
    /\ plain /\ Target > 0 => Apart(p, held) /\ Complete(p, out)

IInv ==
    /\ Good(Unchanged, given, nIndex, ~crypted)
    /\ crypted \in BOOLEAN /\ locked \in BOOLEAN
    /\ locked => crypted
    /\ DefaultKey \in given

\* The pool p is the current one with the records a .. b added.
Grown(p, a, b) ==
    /\ a \in 1 .. nextKey
    /\ b \in Int
    /\ a <= b + 1
    /\ \A j \in setKeyPool : j < a
    /\ p = [set  |-> setKeyPool \cup a .. b,
            disk |-> Written(pool, a, b),
            next |-> nextKey + (b + 1 - a)]

LEMMA UnchangedIsGrown ==
    ASSUME IInv
    PROVE  \E a, b : Grown(Unchanged, a, b)
<1> DEFINE a == nextKey
           b == nextKey - 1
<1>1. nextKey \in 1 .. MaxKey + 1 /\ pool \in [DOMAIN pool -> Keys] /\ \A j \in setKeyPool : j < nextKey
  BY DEF IInv, Good, WellFormed, Below, Unchanged
<1>2. a .. b = {}
  BY <1>1
<1>3. setKeyPool \cup a .. b = setKeyPool
  BY <1>2
<1>4. Written(pool, a, b) = pool
  BY <1>1, <1>2 DEF Written
<1>5. nextKey + (b + 1 - a) = nextKey
  BY <1>1
<1>6. Grown(Unchanged, a, b)
  BY <1>1, <1>3, <1>4, <1>5 DEF Grown, Unchanged
<1> QED BY <1>6

\* A top-up adds records above the indices in memory; afterwards more indices
\* than asked for are there.
LEMMA ToppedUpIsGrown ==
    ASSUME IInv, NEW n \in Nat
    PROVE  /\ \E a, b : Grown(ToppedUp(n), a, b)
           /\ n > 0 => \A x : ToppedUp(n).set \ {x} # {}
<1> DEFINE short == n + 1 - Cardinality(setKeyPool)
           nEnd  == IF setKeyPool = {} THEN 1 ELSE Max(setKeyPool) + 1
           last  == nEnd + short - 1
<1>1. /\ nextKey \in 1 .. MaxKey + 1
      /\ setKeyPool \subseteq Keys
      /\ \A j \in setKeyPool : j < nextKey
  BY DEF IInv, Good, WellFormed, Below, Unchanged
<1>2. IsFiniteSet(setKeyPool) /\ Cardinality(setKeyPool) \in Nat
  BY <1>1, IndicesFinite
<1>3. nEnd \in 1 .. nextKey /\ \A j \in setKeyPool : j < nEnd
  <2>1. CASE setKeyPool = {}
    BY <1>1, <2>1
  <2>2. CASE setKeyPool # {}
    <3>1. Max(setKeyPool) \in setKeyPool /\ \A x \in setKeyPool : x <= Max(setKeyPool)
      BY <1>1, <2>2, MaxIsGreatest
    <3>2. nEnd = Max(setKeyPool) + 1
      BY <2>2
    <3>3. Max(setKeyPool) \in Keys /\ Max(setKeyPool) < nextKey
      BY <1>1, <3>1
    <3>4. nEnd \in 1 .. nextKey
      BY <1>1, <3>2, <3>3 DEF Keys
    <3>5. \A x \in setKeyPool : x \in Nat
      BY <1>1 DEF Keys
    <3> HIDE DEF nEnd
    <3> QED BY <3>1, <3>2, <3>3, <3>5, <3>4 DEF Keys
  <2> QED BY <2>1, <2>2
<1>4. CASE short <= 0
  <2>1. ToppedUp(n) = Unchanged
    BY <1>4 DEF ToppedUp
  <2>2. ASSUME n > 0, NEW x PROVE setKeyPool \ {x} # {}
    <3>1. Cardinality(setKeyPool) >= 2
      BY <1>2, <1>4, <2>2
    <3>2. /\ IsFiniteSet(setKeyPool \ {x})
          /\ Cardinality(setKeyPool \ {x}) =
                IF x \in setKeyPool THEN Cardinality(setKeyPool) - 1 ELSE Cardinality(setKeyPool)
      BY <1>2, FS_RemoveElement
    <3>3. Cardinality(setKeyPool \ {x}) # 0
      BY <1>2, <3>1, <3>2
    <3> QED BY <3>3, FS_EmptySet
  <2> QED BY <2>1, <2>2, UnchangedIsGrown DEF Unchanged
<1>5. CASE short > 0
  <2>1. ToppedUp(n) = [set  |-> setKeyPool \cup nEnd .. last,
                       disk |-> Written(pool, nEnd, last),
                       next |-> nextKey + short]
    BY <1>2, <1>5 DEF ToppedUp
  <2>2. short \in Int /\ last \in Int /\ last + 1 - nEnd = short
    BY <1>2, <1>3
  <2>3. Grown(ToppedUp(n), nEnd, last)
    <3> HIDE DEF nEnd, last, short
    <3> QED BY <1>3, <1>5, <2>1, <2>2 DEF Grown
  <2>4. ASSUME n > 0, NEW x PROVE (setKeyPool \cup nEnd .. last) \ {x} # {}
    <3>1. CASE Cardinality(setKeyPool) = 0
      <4>1. last >= nEnd + 1
        BY <1>2, <1>3, <2>2, <2>4, <3>1
      <4>2. nEnd \in nEnd .. last /\ nEnd + 1 \in nEnd .. last /\ nEnd # nEnd + 1
        BY <1>3, <2>2, <4>1
      <4> QED BY <4>2
    <3>2. CASE Cardinality(setKeyPool) # 0
      <4>1. PICK y : y \in setKeyPool
        BY <1>2, <3>2, FS_EmptySet
      <4>2. y < nEnd /\ nEnd \in nEnd .. last /\ y \in Nat
        BY <1>1, <1>3, <1>5, <2>2, <4>1 DEF Keys
      <4>3. y # nEnd
        BY <1>3, <4>2
      <4> QED BY <4>1, <4>2, <4>3
    <3> QED BY <3>1, <3>2
  <2>5. ToppedUp(n).set = setKeyPool \cup nEnd .. last
    BY <2>1
  <2> HIDE DEF nEnd, last, short
  <2> QED BY <2>3, <2>4, <2>5
<1>6. short \in Int
  BY <1>2
<1> HIDE DEF nEnd, last, short
<1> QED BY <1>4, <1>5, <1>6

\* Adding records keeps the invariant.
LEMMA GrownIsGood ==
    ASSUME IInv, NEW p, NEW a, NEW b, Grown(p, a, b), p.next <= MaxKey + 1
    PROVE  Good(p, given, nIndex, ~crypted)
<1>1. /\ WellFormed(Unchanged, given, nIndex)
      /\ Below(Unchanged, given, nIndex)
      /\ Unused(Unchanged, given)
  BY DEF IInv, Good
<1>2. /\ setKeyPool \subseteq Keys
      /\ DOMAIN pool \subseteq Keys
      /\ pool \in [DOMAIN pool -> Keys]
      /\ nextKey \in 1 .. MaxKey + 1
      /\ given \subseteq Keys
      /\ nIndex \in [Miners -> Keys \cup {0}]
  BY <1>1 DEF WellFormed, Unchanged
<1>3. /\ \A i \in setKeyPool : i < nextKey
      /\ \A i \in DOMAIN pool : i < nextKey /\ pool[i] < nextKey
      /\ \A k \in given : k < nextKey
      /\ \A m \in Miners : nIndex[m] < nextKey
  BY <1>1 DEF Below, Unchanged
<1>4. /\ a \in 1 .. nextKey
      /\ b \in Int
      /\ a <= b + 1
      /\ \A j \in setKeyPool : j < a
      /\ p.set = setKeyPool \cup a .. b
      /\ p.disk = Written(pool, a, b)
      /\ p.next = nextKey + (b + 1 - a)
  BY DEF Grown
<1>5. /\ DOMAIN p.disk = DOMAIN pool \cup a .. b
      /\ \A i \in a .. b : p.disk[i] = nextKey + (i - a)
      /\ \A i \in DOMAIN pool \ a .. b : p.disk[i] = pool[i]
  BY <1>4 DEF Written
<1>6. a .. b \subseteq Keys /\ \A i \in a .. b : p.disk[i] \in Keys /\ p.disk[i] >= nextKey /\ p.disk[i] < p.next /\ i < p.next
  BY <1>2, <1>4, <1>5 DEF Keys
<1>7. nextKey <= p.next /\ p.next \in Int
  BY <1>2, <1>4
<1>8. WellFormed(p, given, nIndex)
  <2>1. p.set \subseteq Keys /\ DOMAIN p.disk \subseteq Keys
    BY <1>2, <1>4, <1>5, <1>6
  <2>2. \A i \in DOMAIN p.disk : p.disk[i] \in Keys
    BY <1>2, <1>5, <1>6
  <2>3. p.disk = [i \in DOMAIN p.disk |-> p.disk[i]]
    BY <1>4 DEF Written
  <2>4. p.disk \in [DOMAIN p.disk -> Keys]
    BY <2>2, <2>3
  <2> QED BY <1>2, <1>7, <2>1, <2>4 DEF WellFormed
<1>9. Below(p, given, nIndex)
  <2>1. ASSUME NEW i \in p.set PROVE i < p.next
    BY <1>2, <1>3, <1>4, <1>6, <1>7 DEF Keys
  <2>2. ASSUME NEW i \in DOMAIN p.disk PROVE i < p.next /\ p.disk[i] < p.next
    <3>1. CASE i \in a .. b
      BY <1>6, <3>1
    <3>2. CASE i \in DOMAIN pool \ a .. b
      <4>1. i \in Keys /\ pool[i] \in Keys
        BY <1>2, <3>2
      <4> QED BY <1>2, <1>3, <1>5, <1>7, <3>2, <4>1 DEF Keys
    <3> QED BY <1>5, <3>1, <3>2
  <2>3. ASSUME NEW k \in given PROVE k < p.next
    BY <1>2, <1>3, <1>7 DEF Keys
  <2>4. ASSUME NEW m \in Miners PROVE nIndex[m] < p.next
    BY <1>2, <1>3, <1>7 DEF Keys
  <2> QED BY <2>1, <2>2, <2>3, <2>4 DEF Below
<1>10. Unused(p, given)
  <2>1. /\ \A i \in DOMAIN pool : pool[i] \notin given
        /\ \A i, j \in DOMAIN pool : pool[i] = pool[j] => i = j
    BY <1>1 DEF Unused, Unchanged
  <2>2. ASSUME NEW i \in DOMAIN p.disk PROVE p.disk[i] \notin given
    <3>1. CASE i \in a .. b
      <4>1. p.disk[i] >= nextKey /\ p.disk[i] \in Keys
        BY <1>6, <3>1
      <4> QED BY <1>2, <1>3, <4>1 DEF Keys
    <3>2. CASE i \in DOMAIN pool \ a .. b
      BY <1>5, <2>1, <3>2
    <3> QED BY <1>5, <3>1, <3>2
  <2>3. ASSUME NEW i \in DOMAIN p.disk, NEW j \in DOMAIN p.disk, p.disk[i] = p.disk[j] PROVE i = j
    <3>1. CASE i \in a .. b /\ j \in a .. b
      BY <1>2, <1>4, <1>5, <2>3, <3>1
    <3>2. CASE i \in DOMAIN pool \ a .. b /\ j \in DOMAIN pool \ a .. b
      BY <1>5, <2>1, <2>3, <3>2
    <3>3. CASE i \in a .. b /\ j \in DOMAIN pool \ a .. b
      <4>1. p.disk[i] >= nextKey /\ p.disk[j] < nextKey /\ p.disk[i] \in Keys /\ p.disk[j] \in Keys
        BY <1>2, <1>3, <1>5, <1>6, <3>3
      <4> QED BY <1>2, <2>3, <4>1 DEF Keys
    <3>4. CASE j \in a .. b /\ i \in DOMAIN pool \ a .. b
      <4>1. p.disk[j] >= nextKey /\ p.disk[i] < nextKey /\ p.disk[i] \in Keys /\ p.disk[j] \in Keys
        BY <1>2, <1>3, <1>5, <1>6, <3>4
      <4> QED BY <1>2, <2>3, <4>1 DEF Keys
    <3> QED BY <1>5, <3>1, <3>2, <3>3, <3>4
  <2> QED BY <2>2, <2>3 DEF Unused
<1>11. ASSUME ~crypted, Target > 0 PROVE Apart(p, nIndex) /\ Complete(p, given)
  <2>1. Apart(Unchanged, nIndex) /\ Complete(Unchanged, given)
    BY <1>11 DEF IInv, Good
  <2>2. /\ setKeyPool \subseteq DOMAIN pool
        /\ \A i \in DOMAIN pool : \E j \in setKeyPool : i <= j
        /\ \A m \in Miners : nIndex[m] # 0 => nIndex[m] \in DOMAIN pool \ setKeyPool
        /\ \A m, n \in Miners : nIndex[m] # 0 /\ nIndex[m] = nIndex[n] => m = n
    BY <2>1 DEF Apart, Unchanged
  <2>3. \A i \in DOMAIN pool : i < a /\ i \notin a .. b
    BY <1>2, <1>4, <2>2 DEF Keys
  <2>4. \A i \in DOMAIN p.disk : \E j \in p.set : i <= j
    <3>1. ASSUME NEW i \in a .. b PROVE \E j \in p.set : i <= j
      BY <1>4
    <3> QED BY <1>4, <1>5, <2>2, <3>1
  <2>5. Apart(p, nIndex)
    BY <1>4, <1>5, <2>2, <2>3, <2>4 DEF Apart
  <2>6. ASSUME NEW k \in 1 .. p.next - 1
        PROVE  k \in given \/ \E i \in DOMAIN p.disk : p.disk[i] = k
    <3>1. CASE k < nextKey
      <4>1. k \in 1 .. nextKey - 1
        BY <1>2, <1>7, <3>1
      <4>2. k \in given \/ \E i \in DOMAIN pool : pool[i] = k
        BY <2>1, <4>1 DEF Complete, Unchanged
      <4> QED BY <1>5, <2>3, <4>2
    <3>2. CASE k >= nextKey
      <4>1. a + (k - nextKey) \in a .. b
        BY <1>2, <1>4, <1>7, <3>2
      <4>2. p.disk[a + (k - nextKey)] = k
        BY <1>2, <1>4, <1>5, <1>7, <4>1
      <4> QED BY <1>5, <4>1, <4>2
    <3> QED BY <1>2, <1>7, <3>1, <3>2
  <2>7. Complete(p, given)
    BY <2>6 DEF Complete
  <2> QED BY <2>5, <2>7
<1> QED BY <1>8, <1>9, <1>10, <1>11 DEF Good

\* The pool a reservation starts from, and, where it matters, an index that is
\* left when the oldest has been taken.
LEMMA BeforeReserveIsGood ==
    ASSUME IInv, BeforeReserve.next <= MaxKey + 1
    PROVE  /\ Good(BeforeReserve, given, nIndex, ~crypted)
           /\ ~crypted /\ Target > 0 => \A x : BeforeReserve.set \ {x} # {}
<1>1. CASE locked
  <2>1. BeforeReserve = Unchanged
    BY <1>1 DEF BeforeReserve
  <2> QED BY <1>1, <2>1 DEF IInv
<1>2. CASE ~locked
  <2>1. BeforeReserve = ToppedUp(Target)
    BY <1>2 DEF BeforeReserve
  <2>2. PICK a, b : Grown(BeforeReserve, a, b)
    BY <2>1, ToppedUpIsGrown
  <2>3. Good(BeforeReserve, given, nIndex, ~crypted)
    BY <2>2, GrownIsGood
  <2> QED BY <2>1, <2>3, ToppedUpIsGrown
<1> QED BY <1>1, <1>2

\* Without its oldest index a pool in which another is left is still covered.
LEMMA OldestTaken ==
    ASSUME NEW p, NEW out, NEW held, WellFormed(p, out, held), p.set # {},
           p.set \ {Oldest(p)} # {}, \A i \in DOMAIN p.disk : \E j \in p.set : i <= j
    PROVE  \A i \in DOMAIN p.disk : \E j \in p.set \ {Oldest(p)} : i <= j
<1>1. p.set \subseteq Nat /\ DOMAIN p.disk \subseteq Nat
  BY DEF WellFormed, Keys
<1>2. Oldest(p) \in p.set /\ \A x \in p.set : Oldest(p) <= x
  BY <1>1, MinIsLeast DEF Oldest
<1>3. PICK y : y \in p.set \ {Oldest(p)}
  OBVIOUS
<1>4. ASSUME NEW i \in DOMAIN p.disk PROVE \E j \in p.set \ {Oldest(p)} : i <= j
  <2>1. PICK j \in p.set : i <= j
    OBVIOUS
  <2>2. CASE j # Oldest(p)
    BY <2>1, <2>2
  <2>3. CASE j = Oldest(p)
    <3>1. j <= y
      BY <1>2, <1>3, <2>3
    <3>2. i \in Nat /\ j \in Nat /\ y \in Nat
      BY <1>1, <1>3
    <3>3. i <= y
      BY <2>1, <3>1, <3>2
    <3> QED BY <1>3, <3>3
  <2> QED BY <2>2, <2>3
<1> QED BY <1>4

\* KeepKey: the oldest key leaves the pool and is given out.
LEMMA KeepIsGood ==
    ASSUME IInv, NEW p, Good(p, given, nIndex, ~crypted), Readable(p), p.set # {},
           ~crypted /\ Target > 0 => p.set \ {Oldest(p)} # {}
    PROVE  Good(Keep(p), given \cup {p.disk[Oldest(p)]}, nIndex, ~crypted)
<1> DEFINE i0  == Oldest(p)
           q   == Keep(p)
           out == given \cup {p.disk[i0]}
<1>1. WellFormed(p, given, nIndex) /\ Below(p, given, nIndex) /\ Unused(p, given)
  BY DEF Good
<1>2. i0 \in DOMAIN p.disk
  BY DEF Readable
<1>3. i0 \in p.set
  <2>1. p.set \subseteq Nat
    BY <1>1 DEF WellFormed, Keys
  <2> QED BY <2>1, MinIsLeast DEF Oldest
<1>4. /\ q.set = p.set \ {i0}
      /\ q.disk = Erased(p.disk, i0)
      /\ q.next = p.next
  BY DEF Keep, Oldest
<1>5. /\ DOMAIN q.disk = DOMAIN p.disk \ {i0}
      /\ \A i \in DOMAIN q.disk : q.disk[i] = p.disk[i]
      /\ q.disk = [i \in DOMAIN q.disk |-> q.disk[i]]
  BY <1>4 DEF Erased
<1> HIDE DEF i0, q
<1>6. WellFormed(q, out, nIndex)
  BY <1>1, <1>2, <1>4, <1>5 DEF WellFormed
<1>7. Below(q, out, nIndex)
  BY <1>1, <1>2, <1>4, <1>5 DEF Below
<1>8. Unused(q, out)
  BY <1>1, <1>2, <1>5 DEF Unused
<1>9. ASSUME ~crypted, Target > 0 PROVE Apart(q, nIndex) /\ Complete(q, out)
  <2>1. Apart(p, nIndex) /\ Complete(p, given)
    BY <1>9 DEF Good
  <2>2. \A i \in DOMAIN p.disk : \E j \in p.set \ {i0} : i <= j
    BY <1>1, <1>9, <2>1, OldestTaken DEF Apart, i0
  <2>3. Apart(q, nIndex)
    BY <1>3, <1>4, <1>5, <2>1, <2>2 DEF Apart
  <2>4. ASSUME NEW k \in 1 .. q.next - 1
        PROVE  k \in out \/ \E i \in DOMAIN q.disk : q.disk[i] = k
    <3>1. k \in given \/ \E i \in DOMAIN p.disk : p.disk[i] = k
      BY <1>4, <2>1 DEF Complete
    <3> QED BY <1>5, <3>1
  <2> QED BY <2>3, <2>4 DEF Complete
<1> QED BY <1>6, <1>7, <1>8, <1>9 DEF Good, q, i0

\* GetReservedKey: the oldest index leaves the set, its record stays, and a
\* miner that held nothing holds it.
LEMMA TakeIsGood ==
    ASSUME IInv, NEW p, Good(p, given, nIndex, ~crypted), Readable(p), p.set # {},
           ~crypted /\ Target > 0 => p.set \ {Oldest(p)} # {},
           NEW m \in Miners, nIndex[m] = 0
    PROVE  Good([p EXCEPT !.set = p.set \ {Oldest(p)}], given,
                [nIndex EXCEPT ![m] = Oldest(p)], ~crypted)
<1> DEFINE i0 == Oldest(p)
           q  == [p EXCEPT !.set = p.set \ {i0}]
           h  == [nIndex EXCEPT ![m] = i0]
<1>1. WellFormed(p, given, nIndex) /\ Below(p, given, nIndex) /\ Unused(p, given)
  BY DEF Good
<1>2. i0 \in DOMAIN p.disk
  BY DEF Readable
<1>3. i0 \in p.set
  <2>1. p.set \subseteq Nat
    BY <1>1 DEF WellFormed, Keys
  <2> QED BY <2>1, MinIsLeast DEF Oldest
<1>4. q.set = p.set \ {i0} /\ q.disk = p.disk /\ q.next = p.next
  OBVIOUS
<1>5. /\ h \in [Miners -> Keys \cup {0}]
      /\ h[m] = i0
      /\ \A n \in Miners \ {m} : h[n] = nIndex[n]
  BY <1>1, <1>3 DEF WellFormed
<1> HIDE DEF i0, q, h
<1>6. WellFormed(q, given, h)
  BY <1>1, <1>4, <1>5 DEF WellFormed
<1>7. Below(q, given, h)
  BY <1>1, <1>3, <1>4, <1>5 DEF Below
<1>8. Unused(q, given)
  BY <1>1, <1>4 DEF Unused
<1>9. ASSUME ~crypted, Target > 0 PROVE Apart(q, h) /\ Complete(q, given)
  <2>1. Apart(p, nIndex) /\ Complete(p, given)
    BY <1>9 DEF Good
  <2>2. \A i \in DOMAIN p.disk : \E j \in p.set \ {i0} : i <= j
    BY <1>1, <1>9, <2>1, OldestTaken DEF Apart, i0
  <2>3. \A n \in Miners : h[n] # 0 => h[n] \in DOMAIN q.disk \ q.set
    BY <1>2, <1>4, <1>5, <2>1 DEF Apart
  <2>4. \A n, o \in Miners : h[n] # 0 /\ h[n] = h[o] => n = o
    BY <1>3, <1>5, <2>1 DEF Apart
  <2>5. Apart(q, h)
    BY <1>4, <2>1, <2>2, <2>3, <2>4 DEF Apart
  <2> QED BY <1>4, <2>1, <2>5 DEF Complete
<1> QED BY <1>6, <1>7, <1>8, <1>9 DEF Good, q, h, i0

-----------------------------------------------------------------------------
LEMMA GoodDependsOnFields ==
    ASSUME NEW p, NEW q, q.set = p.set, q.disk = p.disk, q.next = p.next,
           NEW out, NEW held, NEW plain \in BOOLEAN, Good(p, out, held, plain)
    PROVE  Good(q, out, held, plain)
BY DEF Good, WellFormed, Below, Unused, Apart, Complete

\* The new pool of a step.
LEMMA NewPool ==
    ASSUME NEW p, PoolBecomes(p)
    PROVE  /\ p.next <= MaxKey + 1
           /\ Unchanged'.set = p.set
           /\ Unchanged'.disk = p.disk
           /\ Unchanged'.next = p.next
BY DEF PoolBecomes, Unchanged

LEMMA InitIInv == Init => IInv
<1> SUFFICES ASSUME Init PROVE IInv
  OBVIOUS
<1>1. /\ Unchanged.set = 2 .. Target + 1
      /\ Unchanged.disk = [i \in 2 .. Target + 1 |-> i]
      /\ Unchanged.next = Target + 2
      /\ Target + 2 <= MaxKey + 1
      /\ given = {1}
      /\ nIndex = [m \in Miners |-> 0]
  BY DEF Init, Unchanged, DefaultKey
<1>2. WellFormed(Unchanged, given, nIndex)
  BY <1>1 DEF WellFormed, Keys
<1>3. Below(Unchanged, given, nIndex)
  BY <1>1 DEF Below
<1>4. Unused(Unchanged, given)
  BY <1>1 DEF Unused
<1>5. Apart(Unchanged, nIndex)
  BY <1>1 DEF Apart
<1>6. Complete(Unchanged, given)
  BY <1>1 DEF Complete
<1> QED BY <1>2, <1>3, <1>4, <1>5, <1>6 DEF Init, IInv, Good

LEMMA StepTopUp ==
    ASSUME IInv, NEW n \in Refills, TopUpKeyPool(n)
    PROVE  IInv'
<1> DEFINE size == IF n > 0 THEN n ELSE Target
           p    == ToppedUp(size)
<1>1. size \in Nat
  OBVIOUS
<1>2. PICK a, b : Grown(p, a, b)
  BY <1>1, ToppedUpIsGrown
<1>3. PoolBecomes(p)
  BY DEF TopUpKeyPool
<1>4. Good(p, given, nIndex, ~crypted)
  BY <1>2, <1>3, NewPool, GrownIsGood
<1> HIDE DEF p
<1>5. Good(Unchanged', given, nIndex, ~crypted)
  BY <1>3, <1>4, NewPool, GoodDependsOnFields
<1> QED BY <1>5 DEF TopUpKeyPool, IInv

LEMMA StepGetKey ==
    ASSUME IInv, GetKeyFromPool
    PROVE  IInv'
<1> DEFINE p == BeforeReserve
           k == p.disk[Oldest(p)]
<1>1. Readable(p) /\ p.set # {} /\ PoolBecomes(Keep(p)) /\ given' = given \cup {k}
  BY DEF GetKeyFromPool, Readable
<1>2. Keep(p).next = p.next
  BY DEF Keep, BeforeReserve, Unchanged, ToppedUp
<1>3. Good(p, given, nIndex, ~crypted) /\ (~crypted /\ Target > 0 => p.set \ {Oldest(p)} # {})
  BY <1>1, <1>2, NewPool, BeforeReserveIsGood
<1> HIDE DEF p
<1>4. Good(Keep(p), given \cup {k}, nIndex, ~crypted)
  BY <1>1, <1>3, KeepIsGood
<1>5. Good(Unchanged', given', nIndex, ~crypted)
  BY <1>1, <1>4, NewPool, GoodDependsOnFields
<1> QED BY <1>5 DEF GetKeyFromPool, IInv

\* A record is missing only where nothing is claimed about records.
LEMMA StepThrows ==
    ASSUME IInv, ReserveThrows
    PROVE  IInv'
<1> DEFINE p == BeforeReserve
           q == [p EXCEPT !.set = p.set \ {Oldest(p)}]
<1>1. p.set # {} /\ ~Readable(p) /\ PoolBecomes(q)
  BY DEF ReserveThrows
<1>2. q.set = p.set \ {Oldest(p)} /\ q.disk = p.disk /\ q.next = p.next
  BY DEF BeforeReserve, Unchanged, ToppedUp
<1>3. Good(p, given, nIndex, ~crypted)
  BY <1>1, <1>2, NewPool, BeforeReserveIsGood
<1> HIDE DEF p, q
<1>4. ~(~crypted /\ Target > 0)
  <2>1. SUFFICES ASSUME ~crypted, Target > 0 PROVE FALSE
    OBVIOUS
  <2>2. p.set \subseteq DOMAIN p.disk /\ p.set \subseteq Nat
    BY <1>3, <2>1 DEF Good, Apart, WellFormed, Keys
  <2>3. Oldest(p) \in p.set
    BY <1>1, <2>2, MinIsLeast DEF Oldest
  <2> QED BY <1>1, <2>2, <2>3 DEF Readable
<1>5. Good(q, given, nIndex, ~crypted)
  BY <1>2, <1>3, <1>4 DEF Good, WellFormed, Below, Unused
<1>6. Good(Unchanged', given, nIndex, ~crypted)
  BY <1>1, <1>5, NewPool, GoodDependsOnFields
<1> QED BY <1>6 DEF ReserveThrows, IInv

LEMMA StepReturn ==
    ASSUME IInv, ReserveAndReturn
    PROVE  IInv'
<1>1. Good(BeforeReserve, given, nIndex, ~crypted) /\ PoolBecomes(BeforeReserve)
  BY NewPool, BeforeReserveIsGood DEF ReserveAndReturn
<1>2. Good(Unchanged', given, nIndex, ~crypted)
  BY <1>1, NewPool, GoodDependsOnFields
<1> QED BY <1>2 DEF ReserveAndReturn, IInv

LEMMA StepReserve ==
    ASSUME IInv, NEW m \in Miners, GetReservedKey(m)
    PROVE  IInv'
<1> DEFINE p == BeforeReserve
           q == [p EXCEPT !.set = p.set \ {Oldest(p)}]
<1>1. nIndex[m] = 0 /\ UNCHANGED <<crypted, locked, given>>
  BY DEF GetReservedKey
<1>2. CASE /\ Readable(p)
           /\ PoolBecomes(q)
           /\ nIndex' = [nIndex EXCEPT ![m] = Oldest(p)]
  <2>1. q.next = p.next /\ p.set # {}
    BY <1>2 DEF BeforeReserve, Unchanged, ToppedUp, Readable
  <2>2. Good(p, given, nIndex, ~crypted) /\ (~crypted /\ Target > 0 => p.set \ {Oldest(p)} # {})
    BY <1>2, <2>1, NewPool, BeforeReserveIsGood
  <2> HIDE DEF p
  <2>3. Good(q, given, nIndex', ~crypted)
    BY <1>1, <1>2, <2>1, <2>2, TakeIsGood
  <2> HIDE DEF q
  <2>4. Good(Unchanged', given, nIndex', ~crypted)
    BY <1>2, <2>3, NewPool, GoodDependsOnFields
  <2> QED BY <1>1, <2>4 DEF IInv
<1>3. CASE /\ p.set = {}
           /\ PoolBecomes(p)
           /\ UNCHANGED nIndex
  <2>1. Good(p, given, nIndex, ~crypted)
    BY <1>3, NewPool, BeforeReserveIsGood
  <2> HIDE DEF p
  <2>2. Good(Unchanged', given, nIndex, ~crypted)
    BY <1>3, <2>1, NewPool, GoodDependsOnFields
  <2> QED BY <1>1, <1>3, <2>2 DEF IInv
<1> QED BY <1>2, <1>3 DEF GetReservedKey

LEMMA StepReturnKey ==
    ASSUME IInv, NEW m \in Miners, ReturnKey(m)
    PROVE  IInv'
<1> DEFINE q == Unchanged'
<1>1. /\ q.set = Unchanged.set \cup {nIndex[m]}
      /\ q.disk = Unchanged.disk
      /\ q.next = Unchanged.next
      /\ Unchanged.disk = pool
  BY DEF ReturnKey, Unchanged
<1>2. Good(Unchanged, given, nIndex, ~crypted)
  BY DEF IInv
<1>3. /\ nIndex \in [Miners -> Keys \cup {0}]
      /\ nIndex' = [nIndex EXCEPT ![m] = 0]
      /\ nIndex[m] # 0
  BY <1>2 DEF Good, WellFormed, ReturnKey
<1>4. /\ nIndex' \in [Miners -> Keys \cup {0}]
      /\ nIndex'[m] = 0
      /\ \A n \in Miners \ {m} : nIndex'[n] = nIndex[n]
  BY <1>3
<1> HIDE DEF q
<1>5. WellFormed(q, given, nIndex')
  BY <1>1, <1>2, <1>3, <1>4 DEF Good, WellFormed
<1>6. Below(q, given, nIndex')
  <2>1. \A i \in DOMAIN q.disk : i < q.next /\ q.disk[i] < q.next
    BY <1>1, <1>2 DEF Good, Below
  <2>2. \A n \in Miners : nIndex'[n] < q.next
    <3>1. 0 < q.next
      BY <1>5 DEF WellFormed
    <3> QED BY <1>1, <1>2, <1>4, <3>1 DEF Good, Below
  <2> QED BY <1>1, <1>2, <2>1, <2>2 DEF Good, Below
<1>7. Unused(q, given)
  BY <1>1, <1>2 DEF Good, Unused
<1>8. ASSUME ~crypted, Target > 0 PROVE Apart(q, nIndex') /\ Complete(q, given)
  <2>1. Apart(Unchanged, nIndex) /\ Complete(Unchanged, given)
    BY <1>2, <1>8 DEF Good
  <2>2. Apart(q, nIndex')
    BY <1>1, <1>3, <1>4, <2>1 DEF Apart
  <2> QED BY <1>1, <2>1, <2>2 DEF Complete
<1>9. Good(q, given, nIndex', ~crypted)
  BY <1>5, <1>6, <1>7, <1>8 DEF Good
<1> QED BY <1>9 DEF q, ReturnKey, IInv

LEMMA StepEncrypt ==
    ASSUME IInv, EncryptWallet
    PROVE  IInv'
<1> DEFINE left == [i \in DOMAIN pool \ setKeyPool |-> pool[i]]
           q    == [set  |-> 1 .. Target,
                    disk |-> Written(left, 1, Target),
                    next |-> nextKey + Target]
<1>1. /\ PoolBecomes(q)
      /\ crypted' = TRUE
      /\ locked' = TRUE
      /\ UNCHANGED <<given, nIndex>>
  BY DEF EncryptWallet
<1>2. /\ WellFormed(Unchanged, given, nIndex)
      /\ Below(Unchanged, given, nIndex)
      /\ Unused(Unchanged, given)
  BY DEF IInv, Good
<1>3. /\ q.set = 1 .. Target
      /\ q.next = nextKey + Target
      /\ nextKey + Target <= MaxKey + 1
      /\ q.disk = Written(left, 1, Target)
  BY <1>1 DEF PoolBecomes
<1>4. /\ DOMAIN q.disk = (DOMAIN pool \ setKeyPool) \cup 1 .. Target
      /\ \A i \in 1 .. Target : q.disk[i] = nextKey + (i - 1)
      /\ \A i \in DOMAIN pool \ (setKeyPool \cup 1 .. Target) : q.disk[i] = pool[i]
      /\ q.disk = [i \in DOMAIN q.disk |-> q.disk[i]]
  <2>1. DOMAIN left = DOMAIN pool \ setKeyPool /\ \A i \in DOMAIN pool \ setKeyPool : left[i] = pool[i]
    OBVIOUS
  <2> HIDE DEF left
  <2> QED BY <1>3, <2>1 DEF Written
<1>5. /\ DOMAIN pool \subseteq Keys
      /\ pool \in [DOMAIN pool -> Keys]
      /\ nextKey \in 1 .. MaxKey + 1
      /\ given \subseteq Keys
      /\ nIndex \in [Miners -> Keys \cup {0}]
      /\ \A i \in DOMAIN pool : i < nextKey /\ pool[i] < nextKey /\ pool[i] \notin given
      /\ \A k \in given : k < nextKey
      /\ \A m \in Miners : nIndex[m] < nextKey
      /\ \A i, j \in DOMAIN pool : pool[i] = pool[j] => i = j
  BY <1>2 DEF WellFormed, Below, Unused, Unchanged
<1> HIDE DEF q
<1>6. \A i \in 1 .. Target : /\ i \in Keys /\ i < q.next
                             /\ q.disk[i] \in Keys /\ q.disk[i] >= nextKey /\ q.disk[i] < q.next
  <2> SUFFICES ASSUME NEW i \in 1 .. Target
               PROVE  /\ i \in Keys /\ i < q.next
                      /\ q.disk[i] \in Keys /\ q.disk[i] >= nextKey /\ q.disk[i] < q.next
    OBVIOUS
  <2>1. q.disk[i] = nextKey + (i - 1) /\ nextKey \in 1 .. MaxKey + 1
    BY <1>4, <1>5
  <2> QED BY <1>3, <2>1 DEF Keys
<1>7. WellFormed(q, given, nIndex)
  <2>1. \A i \in DOMAIN q.disk : i \in Keys /\ q.disk[i] \in Keys
    BY <1>4, <1>5, <1>6
  <2>2. q.next \in 1 .. MaxKey + 1
    BY <1>3, <1>5
  <2> QED BY <1>3, <1>4, <1>5, <1>6, <2>1, <2>2 DEF WellFormed
<1>8. nextKey <= q.next /\ q.next \in Int
  BY <1>3, <1>5
<1>9. Below(q, given, nIndex)
  <2>1. ASSUME NEW i \in DOMAIN q.disk PROVE i < q.next /\ q.disk[i] < q.next
    <3>1. CASE i \in 1 .. Target
      BY <1>6, <3>1
    <3>2. CASE i \in DOMAIN pool \ (setKeyPool \cup 1 .. Target)
      <4>1. i \in Keys /\ pool[i] \in Keys
        BY <1>5, <3>2
      <4> QED BY <1>4, <1>5, <1>8, <3>2, <4>1 DEF Keys
    <3> QED BY <1>4, <3>1, <3>2
  <2>2. ASSUME NEW k \in given PROVE k < q.next
    BY <1>5, <1>8 DEF Keys
  <2>3. ASSUME NEW m \in Miners PROVE nIndex[m] < q.next
    BY <1>5, <1>8 DEF Keys
  <2> QED BY <1>3, <1>6, <2>1, <2>2, <2>3 DEF Below
<1>10. Unused(q, given)
  <2>1. ASSUME NEW i \in DOMAIN q.disk PROVE q.disk[i] \notin given
    <3>1. CASE i \in 1 .. Target
      BY <1>5, <1>6, <3>1 DEF Keys
    <3>2. CASE i \in DOMAIN pool \ (setKeyPool \cup 1 .. Target)
      BY <1>4, <1>5, <3>2
    <3> QED BY <1>4, <3>1, <3>2
  <2>2. ASSUME NEW i \in DOMAIN q.disk, NEW j \in DOMAIN q.disk, q.disk[i] = q.disk[j] PROVE i = j
    <3> DEFINE old == DOMAIN pool \ (setKeyPool \cup 1 .. Target)
    <3>1. CASE i \in 1 .. Target /\ j \in 1 .. Target
      BY <1>4, <1>5, <2>2, <3>1
    <3>2. CASE i \in old /\ j \in old
      BY <1>4, <1>5, <2>2, <3>2
    <3>3. CASE i \in 1 .. Target /\ j \in old
      <4>1. q.disk[i] >= nextKey /\ q.disk[j] < nextKey /\ q.disk[i] \in Keys /\ q.disk[j] \in Keys
        BY <1>4, <1>5, <1>6, <3>3
      <4> QED BY <1>5, <2>2, <4>1 DEF Keys
    <3>4. CASE j \in 1 .. Target /\ i \in old
      <4>1. q.disk[j] >= nextKey /\ q.disk[i] < nextKey /\ q.disk[i] \in Keys /\ q.disk[j] \in Keys
        BY <1>4, <1>5, <1>6, <3>4
      <4> QED BY <1>5, <2>2, <4>1 DEF Keys
    <3> QED BY <1>4, <3>1, <3>2, <3>3, <3>4
  <2> QED BY <2>1, <2>2 DEF Unused
<1>11. Good(q, given, nIndex, FALSE)
  BY <1>7, <1>9, <1>10 DEF Good
<1>12. Good(Unchanged', given', nIndex', FALSE)
  BY <1>1, <1>11, NewPool, GoodDependsOnFields
<1> QED BY <1>1, <1>12 DEF IInv

\* After a restart the set holds exactly the records, and no miner an index.
LEMMA StepRestart ==
    ASSUME IInv, Restart
    PROVE  IInv'
<1> DEFINE q == Unchanged'
<1>1. /\ q.set = DOMAIN Unchanged.disk
      /\ q.disk = Unchanged.disk
      /\ q.next = Unchanged.next
      /\ nIndex' = [m \in Miners |-> 0]
      /\ UNCHANGED <<crypted, given>>
  BY DEF Restart, Unchanged
<1>2. Good(Unchanged, given, nIndex, ~crypted)
  BY DEF IInv
<1> HIDE DEF q
<1>3. WellFormed(q, given, nIndex')
  BY <1>1, <1>2 DEF Good, WellFormed
<1>4. Below(q, given, nIndex')
  <2>1. 0 < q.next
    BY <1>3 DEF WellFormed
  <2>2. \A m \in Miners : nIndex'[m] = 0
    BY <1>1
  <2> QED BY <1>1, <1>2, <2>1, <2>2 DEF Good, Below
<1>5. Unused(q, given)
  BY <1>1, <1>2 DEF Good, Unused
<1>6. ASSUME ~crypted, Target > 0 PROVE Apart(q, nIndex') /\ Complete(q, given)
  <2>1. Apart(Unchanged, nIndex) /\ Complete(Unchanged, given)
    BY <1>2, <1>6 DEF Good
  <2>2. \A i \in DOMAIN q.disk : i <= i
    BY <1>3 DEF WellFormed, Keys
  <2>3. Apart(q, nIndex')
    BY <1>1, <2>2 DEF Apart
  <2> QED BY <1>1, <2>1, <2>3 DEF Complete
<1>7. Good(q, given', nIndex', ~crypted')
  BY <1>1, <1>3, <1>4, <1>5, <1>6 DEF Good
<1>8. locked' = crypted
  BY DEF Restart
<1> QED BY <1>1, <1>7, <1>8 DEF q, IInv

LEMMA StepIInv == IInv /\ [Next]_vars => IInv'
<1> SUFFICES ASSUME IInv, [Next]_vars PROVE IInv'
  OBVIOUS
<1>1. CASE \E n \in Refills : TopUpKeyPool(n)
  BY <1>1, StepTopUp
<1>2. CASE GetKeyFromPool \/ CommitTransaction
  BY <1>2, StepGetKey DEF CommitTransaction
<1>3. CASE ReserveThrows
  BY <1>3, StepThrows
<1>4. CASE ReserveAndReturn
  BY <1>4, StepReturn
<1>5. CASE \E m \in Miners : GetReservedKey(m) \/ ReturnKey(m)
  BY <1>5, StepReserve, StepReturnKey
<1>6. CASE EncryptWallet
  BY <1>6, StepEncrypt
<1>7. CASE Lock \/ Unlock
  <2>1. Unchanged' = Unchanged /\ UNCHANGED <<given, nIndex, crypted>>
    BY <1>7 DEF Lock, Unlock, Unchanged
  <2>2. locked' \in BOOLEAN /\ (locked' => crypted)
    BY <1>7 DEF Lock, Unlock, IInv
  <2> QED BY <2>1, <2>2 DEF IInv
<1>8. CASE Restart
  BY <1>8, StepRestart
<1>9. CASE UNCHANGED vars
  BY <1>9 DEF vars, IInv, Unchanged
<1> QED BY <1>1, <1>2, <1>3, <1>4, <1>5, <1>6, <1>7, <1>8, <1>9 DEF Next

LEMMA SpecIInv == Spec => []IInv
BY InitIInv, StepIInv, PTL DEF Spec

-----------------------------------------------------------------------------
\* The state of the key pool is well formed; in particular no index runs ahead
\* of the number of keys generated (TopUpKeyPool, NewKeyPool).
THEOREM KeyPoolTypeOK == Spec => []TypeOK
<1>1. IInv => TypeOK
  BY DEF IInv, Good, WellFormed, Below, Unchanged, TypeOK
<1> QED BY <1>1, SpecIInv, PTL

\* A key given out as an address or as change is never offered by the pool
\* again (KeepKey), for any number of miners, any -keypool and any refills,
\* encrypted or not, through restarts.
THEOREM KeysGivenOnce == Spec => []GivenOnce
<1>1. IInv => GivenOnce
  BY DEF IInv, Good, Unused, Unchanged, GivenOnce, Recorded
<1> QED BY <1>1, SpecIInv, PTL

\* The pool of an unencrypted wallet with -keypool above 0 always finds the
\* record of an index it reserves (ReserveKeyFromKeyPool).
THEOREM PoolAlwaysBacked == Spec => []PoolBacked
<1>1. IInv => PoolBacked
  BY DEF IInv, Good, Apart, Unchanged, PoolBacked
<1> QED BY <1>1, SpecIInv, PTL

\* Such a wallet loses no key it has generated (TopUpKeyPool, ReturnKey).
THEOREM NoKeyEverLost == Spec => []NoKeyLost
<1>1. IInv => NoKeyLost
  BY DEF IInv, Good, Complete, Unchanged, NoKeyLost, Recorded
<1> QED BY <1>1, SpecIInv, PTL
=============================================================================
