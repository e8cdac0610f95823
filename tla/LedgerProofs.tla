---------------------------- MODULE LedgerProofs ----------------------------
(***************************************************************************)
(* Facts about the ledger of a valid chain, for any transactions.          *)
(***************************************************************************)
EXTENDS Ledger, BlockTreeProofs, FiniteSetTheorems

\* The forward links of a chain: where a block of it has a child, the child.
LEMMA NextOnChild ==
    ASSUME NEW b \in Blocks, NEW c \in Anc[b] \ {Genesis}
    PROVE  NextOn(b)[Prev[c]] = c
<1> DEFINE next == {d \in Anc[b] \ {Genesis} : Prev[d] = Prev[c]}
<1>1. next = {c}
  BY OneChild
<1>2. Prev[c] \in Blocks
  BY AncBasic, TreeFacts
<1> QED BY <1>1, <1>2 DEF NextOn, OnlyOf

LEMMA NextOnNone ==
    ASSUME NEW b \in Blocks, NEW a \in Blocks, \A c \in Anc[b] \ {Genesis} : Prev[c] # a
    PROVE  NextOn(b)[a] = None
<1>1. {d \in Anc[b] \ {Genesis} : Prev[d] = a} = {}
  OBVIOUS
<1> QED BY <1>1 DEF NextOn, OnlyOf

-----------------------------------------------------------------------------
LEMMA TxFacts ==
    /\ \A b \in Blocks : Vtx[b] \in Seq(Txs) /\ TxsOf(b) \subseteq Txs
    /\ TxsOf(Genesis) = {}
    /\ \A b \in Blocks \ {Genesis} : Vtx[b] # <<>>
    /\ \A b \in Blocks : \A i, j \in DOMAIN Vtx[b] : Vtx[b][i] = Vtx[b][j] => i = j
    /\ \A b, c \in Blocks \ {Genesis} : Vtx[b][1] = Vtx[c][1] => Height[b] = Height[c]
    /\ \A b \in Blocks : \A i \in DOMAIN Vtx[b] : Inputs[Vtx[b][i]] = {} <=> i = 1
    /\ \A b \in Blocks : \A i \in DOMAIN Vtx[b] : i \in Nat \ {0}
BY TxAssumption DEF TxsOf

\* Whether a block's spends are valid is read off pos and spent only.
LEMMA SpendsValidReads ==
    ASSUME NEW v, NEW w, NEW b, v.pos = w.pos, v.spent = w.spent, SpendsValid(v, b)
    PROVE  SpendsValid(w, b)
BY DEF SpendsValid, NoOverwrite, InputsAvailable, InputsMature

\* A transaction is located on a chain exactly when a block of the chain has it.
LEMMA LocatedIff ==
    ASSUME NEW b \in Blocks, NEW t \in Txs
    PROVE  LocationOn(b)[t] # None <=> \E c \in Anc[b] : t \in TxsOf(c)
<1> DEFINE at == {c \in Anc[b] : t \in TxsOf(c)}
<1>1. LocationOn(b)[t] = IF at = {} THEN None ELSE CHOOSE c \in at : TRUE
  BY DEF LocationOn, OnlyOf
<1>2. None \notin at
  BY AncBasic, TreeFacts
<1> QED BY <1>1, <1>2

\* In a valid chain every input names a transaction of the same or an earlier
\* block, and within one block an earlier transaction.
LEMMA InputSource ==
    ASSUME NEW b \in Blocks, ChainSpendsValid(b),
           NEW c \in Anc[b] \ {Genesis}, NEW i \in DOMAIN Vtx[c], NEW o \in Inputs[Vtx[c][i]]
    PROVE  /\ o \in OutPoints /\ o[1] \in Txs
           /\ \/ o[1] \in TxsBefore(c, i)
              \/ o \notin SpentOn(Prev[c]) /\ \E d \in Anc[Prev[c]] : o[1] \in TxsOf(d)
<1>1. SpendsValid(LedgerOf(Prev[c]), c)
  BY DEF ChainSpendsValid
<1>2. InputsAvailable(LedgerOf(Prev[c]), c, i)
  BY <1>1 DEF SpendsValid
<1>3. /\ o \in OutPoints
      /\ \/ o[1] \in TxsBefore(c, i)
         \/ LedgerOf(Prev[c]).pos[o[1]] # None /\ o \notin LedgerOf(Prev[c]).spent
  BY <1>2 DEF InputsAvailable
<1>4. o[1] \in Txs
  BY <1>3 DEF OutPoints, OutputsOf
<1>5. Prev[c] \in Blocks
  BY AncBasic, TreeFacts
<1> QED BY <1>3, <1>4, <1>5, LocatedIff DEF LedgerOf

\* The transaction an output belongs to is in the chain that spends the output.
LEMMA SpentIsCreated ==
    ASSUME NEW b \in Blocks, ChainSpendsValid(b), NEW o \in SpentOn(b)
    PROVE  o[1] \in Txs /\ \E c \in Anc[b] : o[1] \in TxsOf(c)
<1>1. PICK c \in Anc[b] : o \in InputsOf(c)
  BY DEF SpentOn
<1>2. PICK i \in DOMAIN Vtx[c] : o \in Inputs[Vtx[c][i]]
  BY <1>1 DEF InputsOf, TxsOf
<1>3. c \in Blocks /\ c # Genesis
  BY <1>1, AncBasic, TxFacts DEF InputsOf
<1>4. CASE o[1] \in TxsBefore(c, i)
  <2>1. o[1] \in TxsOf(c)
    BY <1>2, <1>3, <1>4, TxFacts DEF TxsBefore, TxsOf
  <2> QED BY <1>2, <1>3, <2>1, InputSource
<1>5. CASE \E d \in Anc[Prev[c]] : o[1] \in TxsOf(d)
  <2>1. Anc[Prev[c]] \subseteq Anc[b]
    BY <1>3, AncBasic, AncTransitive
  <2> QED BY <1>2, <1>3, <1>5, <2>1, InputSource
<1> QED BY <1>2, <1>3, <1>4, <1>5, InputSource

LEMMA ValidBelow ==
    ASSUME NEW b \in Blocks, ChainSpendsValid(b), NEW c \in Anc[b]
    PROVE  ChainSpendsValid(c)
BY AncTransitive DEF ChainSpendsValid

\* A valid chain repeats no transaction: the first repeated one in a block would
\* be a coinbase, whose height is its own, or spend an output already spent.
LEMMA NoRepeat ==
    ASSUME NEW b \in Blocks \ {Genesis}, ChainSpendsValid(b),
           NEW c \in Anc[Prev[b]], NEW t \in TxsOf(b)
    PROVE  t \notin TxsOf(c)
<1> DEFINE Repeated == {i \in DOMAIN Vtx[b] : \E d \in Anc[Prev[b]] : Vtx[b][i] \in TxsOf(d)}
<1>1. SUFFICES ASSUME Repeated # {} PROVE FALSE
  BY DEF TxsOf
<1>2. Repeated \subseteq Nat
  BY TxFacts
<1>3. PICK i \in Repeated : \A j \in Repeated : <<j, i>> \notin OpToRel(<, Nat)
  BY <1>1, <1>2, WFMin, NatLessThanWellFounded
<1>4. PICK d \in Anc[Prev[b]] : Vtx[b][i] \in TxsOf(d)
  BY <1>3
<1>5. PICK k \in DOMAIN Vtx[d] : Vtx[b][i] = Vtx[d][k]
  BY <1>4 DEF TxsOf
<1>6. /\ Prev[b] \in Blocks /\ b \in Anc[b] /\ Prev[b] \in Anc[b]
      /\ d \in Blocks \ {Genesis} /\ d \in Anc[b] /\ Height[d] < Height[b]
  <2>1. Prev[b] \in Blocks /\ b \in Anc[b] /\ Prev[b] \in Anc[b]
    BY AncBasic, TreeFacts
  <2>2. d \in Blocks \ {Genesis} /\ d \in Anc[b]
    BY <1>4, <2>1, AncBasic, AncTransitive, TxFacts
  <2>3. Height[d] <= Height[Prev[b]]
    BY <2>1, AncBelow
  <2> QED BY <2>1, <2>2, <2>3, TreeFacts
<1>7. i \in DOMAIN Vtx[b] /\ i # 1
  <2>1. i \in DOMAIN Vtx[b]
    BY <1>3
  <2>2. SUFFICES ASSUME i = 1 PROVE FALSE
    BY <2>1
  <2>3. k = 1
    <3>1. Inputs[Vtx[b][i]] = {}
      BY <2>1, <2>2, TxFacts
    <3>2. Inputs[Vtx[d][k]] = {}
      BY <1>5, <3>1
    <3> QED BY <1>5, <1>6, <3>2, TxFacts
  <2>4. Height[b] = Height[d]
    BY <1>5, <1>6, <2>2, <2>3, TxFacts
  <2> QED BY <1>6, <2>4, TreeFacts
<1>8. PICK o \in Inputs[Vtx[b][i]] : TRUE
  BY <1>7, TxFacts
<1>9. o \in SpentOn(Prev[b])
  <2>1. o \in InputsOf(d)
    BY <1>4, <1>8 DEF InputsOf
  <2> QED BY <2>1, <1>4 DEF SpentOn
<1>10. o[1] \in TxsBefore(b, i)
  BY <1>6, <1>7, <1>8, <1>9, InputSource
<1>11. PICK j \in 1..(i - 1) : o[1] = Vtx[b][j]
  BY <1>10 DEF TxsBefore
<1>12. j \in DOMAIN Vtx[b] /\ j < i
  BY <1>7, <1>11, TxFacts
<1>13. \E e \in Anc[Prev[b]] : o[1] \in TxsOf(e)
  BY <1>6, <1>9, ValidBelow, SpentIsCreated
<1>14. j \in Repeated
  BY <1>11, <1>12, <1>13
<1> HIDE DEF Repeated
<1> QED BY <1>2, <1>3, <1>12, <1>14 DEF OpToRel

\* A valid chain spends no output twice, and a block's own outputs are new.
LEMMA NoDoubleSpend ==
    ASSUME NEW b \in Blocks \ {Genesis}, ChainSpendsValid(b), NEW o \in SpentOn(Prev[b])
    PROVE  o \notin InputsOf(b) /\ o[1] \notin TxsOf(b)
<1>1. Prev[b] \in Blocks /\ b \in Anc[b] /\ Prev[b] \in Anc[b]
  BY AncBasic, TreeFacts
<1>2. o[1] \notin TxsOf(b)
  BY <1>1, ValidBelow, SpentIsCreated, NoRepeat
<1>3. ASSUME o \in InputsOf(b) PROVE FALSE
  <2>1. PICK i \in DOMAIN Vtx[b] : o \in Inputs[Vtx[b][i]]
    BY <1>3 DEF InputsOf, TxsOf
  <2>2. o[1] \in TxsBefore(b, i)
    BY <1>1, <2>1, InputSource
  <2> QED BY <1>2, <2>1, <2>2, TxFacts DEF TxsBefore, TxsOf
<1> QED BY <1>2, <1>3

-----------------------------------------------------------------------------
LEMMA GenesisValid == ChainSpendsValid(Genesis)
BY AncGenesis DEF ChainSpendsValid

\* In a valid chain every transaction has one block.
LEMMA OneLocation ==
    ASSUME NEW b \in Blocks, ChainSpendsValid(b), NEW c \in Anc[b], NEW d \in Anc[b],
           NEW t \in TxsOf(c), t \in TxsOf(d)
    PROVE  c = d
<1>1. ASSUME NEW x \in Anc[b], NEW y \in Anc[x], x # y, t \in TxsOf(x), t \in TxsOf(y) PROVE FALSE
  <2>1. x \in Blocks \ {Genesis}
    BY <1>1, AncBasic, TxFacts
  <2>2. ChainSpendsValid(x)
    BY ValidBelow
  <2>3. y \in Anc[Prev[x]]
    BY <1>1, <2>1, AncStep
  <2> QED BY <1>1, <2>1, <2>2, <2>3, NoRepeat
<1>2. c \in Anc[d] \/ d \in Anc[c]
  BY AncTotal
<1> QED BY <1>1, <1>2

LEMMA LocatedAt ==
    ASSUME NEW b \in Blocks, ChainSpendsValid(b), NEW c \in Anc[b], NEW t \in TxsOf(c)
    PROVE  LocationOn(b)[t] = c
<1> DEFINE at == {d \in Anc[b] : t \in TxsOf(d)}
<1>1. at = {c}
  BY OneLocation
<1>2. t \in Txs
  BY AncBasic, TxFacts
<1> QED BY <1>1, <1>2 DEF LocationOn, OnlyOf

LEMMA LocationType ==
    ASSUME NEW b \in Blocks
    PROVE  LocationOn(b) \in [Txs -> Blocks \cup {None}]
<1>1. ASSUME NEW S \in SUBSET Blocks PROVE OnlyOf(S) \in Blocks \cup {None}
  BY DEF OnlyOf
<1>2. ASSUME NEW t \in Txs PROVE OnlyOf({c \in Anc[b] : t \in TxsOf(c)}) \in Blocks \cup {None}
  <2>1. {c \in Anc[b] : t \in TxsOf(c)} \in SUBSET Blocks
    BY AncBasic
  <2> QED BY <1>1, <2>1
<1> QED BY <1>2 DEF LocationOn

\* What a block of a valid chain spends was created in the block or below it.
LEMMA SourceBelow ==
    ASSUME NEW b \in Blocks, ChainSpendsValid(b), NEW c \in Anc[b], NEW o \in InputsOf(c)
    PROVE  o[1] \in Txs /\ \E d \in Anc[c] : o[1] \in TxsOf(d)
<1>1. c \in Blocks /\ ChainSpendsValid(c) /\ o \in SpentOn(c)
  BY AncBasic, ValidBelow DEF SpentOn
<1> QED BY <1>1, SpentIsCreated

\* In a valid chain every output has at most one spender.
LEMMA OneSpender ==
    ASSUME NEW b \in Blocks, ChainSpendsValid(b), NEW c \in Anc[b], NEW d \in Anc[b],
           NEW t \in TxsOf(c), NEW u \in TxsOf(d), NEW o, o \in Inputs[t], o \in Inputs[u]
    PROVE  t = u /\ c = d
<1>1. ASSUME NEW x \in Anc[b], NEW y \in Anc[x], x # y, o \in InputsOf(x), o \in InputsOf(y) PROVE FALSE
  <2>1. x \in Blocks \ {Genesis}
    BY <1>1, AncBasic, TxFacts DEF InputsOf
  <2>2. ChainSpendsValid(x)
    BY ValidBelow
  <2>3. y \in Anc[Prev[x]]
    BY <1>1, <2>1, AncStep
  <2>4. o \in SpentOn(Prev[x])
    BY <1>1, <2>3 DEF SpentOn
  <2> QED BY <1>1, <2>1, <2>2, <2>4, NoDoubleSpend
<1>2. o \in InputsOf(c) /\ o \in InputsOf(d)
  BY DEF InputsOf
<1>3. c = d
  BY <1>1, <1>2, AncTotal
<1>4. PICK i \in DOMAIN Vtx[c], j \in DOMAIN Vtx[c] : t = Vtx[c][i] /\ u = Vtx[c][j]
  BY <1>3 DEF TxsOf
<1>5. c \in Blocks \ {Genesis} /\ SpendsValid(LedgerOf(Prev[c]), c)
  BY AncBasic, TxFacts DEF ChainSpendsValid
<1>6. InputsAvailable(LedgerOf(Prev[c]), c, i) /\ InputsAvailable(LedgerOf(Prev[c]), c, j)
  BY <1>5 DEF SpendsValid
<1>7. ~(i < j) /\ ~(j < i)
  <2>1. i \in Nat \ {0} /\ j \in Nat \ {0}
    BY <1>5, TxFacts
  <2> QED BY <1>4, <1>6, <2>1 DEF InputsAvailable
<1>8. i = j
  BY <1>5, <1>7, TxFacts
<1> QED BY <1>3, <1>4, <1>8

-----------------------------------------------------------------------------
(* Sums over finite sets *)

LEMMA LeastNat ==
    ASSUME NEW T \in SUBSET Nat, T # {}
    PROVE  \E n \in T : \A k \in T : n <= k
<1>1. PICK n \in T : \A k \in T : <<k, n>> \notin OpToRel(<, Nat)
  BY WFMin, NatLessThanWellFounded
<1>2. ASSUME NEW k \in T PROVE n <= k
  <2>1. ~(k < n)
    BY <1>1 DEF OpToRel
  <2> QED BY <2>1
<1> QED BY <1>2

\* Induction over the subsets of a finite set, with the claim as a set.
LEMMA SubsetInduction ==
    ASSUME NEW S, IsFiniteSet(S), NEW P,
           \A s \in SUBSET S : (\A t \in SUBSET s : t # s => t \in P) => s \in P
    PROVE  SUBSET S \subseteq P
<1> DEFINE bad == {s \in SUBSET S : s \notin P}
           sizes == {Cardinality(s) : s \in bad}
<1>1. SUFFICES ASSUME bad # {} PROVE FALSE
  OBVIOUS
<1>2. \A s \in SUBSET S : IsFiniteSet(s) /\ Cardinality(s) \in Nat
  BY FS_Subset, FS_CardinalityType
<1>3. sizes \in SUBSET Nat /\ sizes # {}
  BY <1>1, <1>2
<1>4. PICK n \in sizes : \A k \in sizes : n <= k
  BY <1>3, LeastNat
<1>5. PICK s \in bad : n = Cardinality(s)
  BY <1>4
<1>6. ASSUME NEW t \in SUBSET s, t # s, t \notin P PROVE FALSE
  <2>1. t \in bad /\ Cardinality(t) \in sizes
    BY <1>6
  <2>2. Cardinality(t) <= Cardinality(s) /\ Cardinality(t) # Cardinality(s)
    BY <1>2, <1>6, FS_Subset
  <2>3. Cardinality(t) \in Nat /\ Cardinality(s) \in Nat
    BY <1>2, <2>1
  <2> HIDE DEF sizes, bad
  <2>4. Cardinality(t) < Cardinality(s)
    BY <2>2, <2>3
  <2> QED BY <1>4, <1>5, <2>1, <2>3, <2>4
<1> QED BY <1>5, <1>6

\* The recursion of MapThenSumSet, for the values of a function.
Chosen(s) == CHOOSE x \in s : TRUE
Summing(f, S, g) ==
    g = [s \in SUBSET S |-> IF s = {} THEN 0 ELSE f[Chosen(s)] + g[s \ {Chosen(s)}]]
Total(f, S) == (CHOOSE g : Summing(f, S, g))[S]

LEMMA ChosenIn == ASSUME NEW s, s # {} PROVE Chosen(s) \in s
BY DEF Chosen

LEMMA SummingUnique ==
    ASSUME NEW f, NEW S, IsFiniteSet(S), NEW U \in SUBSET S, NEW g, NEW h, Summing(f, S, g), Summing(f, U, h)
    PROVE  \A s \in SUBSET U : g[s] = h[s]
<1> DEFINE P == {s \in SUBSET U : g[s] = h[s]}
<1>1. IsFiniteSet(U)
  BY FS_Subset
<1>2. ASSUME NEW s \in SUBSET U, \A t \in SUBSET s : t # s => t \in P PROVE s \in P
  <2>1. /\ g[s] = IF s = {} THEN 0 ELSE f[Chosen(s)] + g[s \ {Chosen(s)}]
        /\ h[s] = IF s = {} THEN 0 ELSE f[Chosen(s)] + h[s \ {Chosen(s)}]
    BY DEF Summing
  <2>2. s # {} => s \ {Chosen(s)} \in P
    BY <1>2, ChosenIn
  <2> QED BY <2>1, <2>2
<1> HIDE DEF P
<1>3. SUBSET U \subseteq P
  BY <1>1, <1>2, SubsetInduction
<1> QED BY <1>3 DEF P

LEMMA SummingExists ==
    ASSUME NEW f, NEW S, IsFiniteSet(S)
    PROVE  \E g : Summing(f, S, g)
<1> DEFINE P == {s \in SUBSET S : \E g : Summing(f, s, g)}
           G(s) == CHOOSE g : Summing(f, s, g)
<1>1. ASSUME NEW s \in SUBSET S, \A t \in SUBSET s : t # s => t \in P PROVE s \in P
  <2>1. \A t \in SUBSET s : t # s => Summing(f, t, G(t))
    BY <1>1
  <2> DEFINE rest == s \ {Chosen(s)}
             h == [t \in SUBSET s |-> IF t = {} THEN 0 ELSE IF t = s THEN f[Chosen(s)] + G(rest)[rest] ELSE G(t)[t]]
  <2>2. ASSUME NEW t \in SUBSET s, t # {}, t # s
        PROVE  G(t)[t] = f[Chosen(t)] + G(t \ {Chosen(t)})[t \ {Chosen(t)}]
    <3> DEFINE u == t \ {Chosen(t)}
    <3>1. Summing(f, t, G(t)) /\ IsFiniteSet(t)
      BY <2>1, <2>2, FS_Subset
    <3>2. u \in SUBSET t /\ u \in SUBSET s /\ u # s
      BY <2>2, ChosenIn
    <3>3. Summing(f, u, G(u))
      BY <2>1, <3>2
    <3> HIDE DEF G
    <3>4. G(t)[t] = f[Chosen(t)] + G(t)[u]
      BY <2>2, <3>1 DEF Summing
    <3>5. G(t)[u] = G(u)[u]
      BY <3>1, <3>2, <3>3, SummingUnique
    <3> QED BY <3>4, <3>5
  <2>3. G({})[{}] = 0 \/ s = {}
    <3> SUFFICES ASSUME s # {} PROVE G({})[{}] = 0
      OBVIOUS
    <3>1. Summing(f, {}, G({}))
      BY <2>1
    <3> HIDE DEF G
    <3> QED BY <3>1 DEF Summing
  <2> HIDE DEF G
  <2>4. ASSUME NEW t \in SUBSET s
        PROVE  h[t] = IF t = {} THEN 0 ELSE f[Chosen(t)] + h[t \ {Chosen(t)}]
    <3>1. CASE t = {}
      BY <3>1
    <3>2. CASE t # {}
      <4> DEFINE u == t \ {Chosen(t)}
      <4>1. u \in SUBSET s /\ u # s
        BY <3>2, ChosenIn
      <4>2. h[u] = G(u)[u]
        BY <2>3, <4>1
      <4>3. h[t] = f[Chosen(t)] + G(u)[u]
        BY <2>2, <3>2
      <4> QED BY <3>2, <4>2, <4>3
    <3> QED BY <3>1, <3>2
  <2>5. Summing(f, s, h)
    <3> HIDE DEF h
    <3>1. h = [t \in SUBSET s |-> h[t]]
      BY DEF h
    <3>2. h = [t \in SUBSET s |-> IF t = {} THEN 0 ELSE f[Chosen(t)] + h[t \ {Chosen(t)}]]
      BY <2>4, <3>1
    <3> QED BY <3>2 DEF Summing
  <2> QED BY <2>5
<1> HIDE DEF P
<1>2. SUBSET S \subseteq P
  BY <1>1, SubsetInduction
<1> QED BY <1>2 DEF P

LEMMA TotalStep ==
    ASSUME NEW f, NEW S, IsFiniteSet(S)
    PROVE  /\ Total(f, {}) = 0
           /\ S # {} => Total(f, S) = f[Chosen(S)] + Total(f, S \ {Chosen(S)})
<1> DEFINE G(s) == CHOOSE g : Summing(f, s, g)
<1>1. ASSUME NEW s \in SUBSET S PROVE Summing(f, s, G(s))
  <2>1. IsFiniteSet(s)
    BY FS_Subset
  <2> QED BY <2>1, SummingExists
<1>2. Summing(f, {}, G({}))
  BY <1>1
<1>3. \A s : Total(f, s) = G(s)[s]
  BY DEF Total
<1> HIDE DEF G
<1>4. Total(f, {}) = 0
  BY <1>2, <1>3 DEF Summing
<1>5. ASSUME S # {} PROVE Total(f, S) = f[Chosen(S)] + Total(f, S \ {Chosen(S)})
  <2> DEFINE u == S \ {Chosen(S)}
  <2>1. u \in SUBSET S
    OBVIOUS
  <2>2. Summing(f, S, G(S)) /\ Summing(f, u, G(u))
    BY <1>1
  <2>3. G(S)[S] = f[Chosen(S)] + G(S)[u]
    BY <1>5, <2>2 DEF Summing
  <2>4. G(S)[u] = G(u)[u]
    <3> DEFINE g == G(S)
               h == G(u)
    <3>1. Summing(f, S, g) /\ Summing(f, u, h)
      BY <2>2
    <3> HIDE DEF g, h, u
    <3>2. \A s \in SUBSET u : g[s] = h[s]
      BY <2>1, <3>1, SummingUnique
    <3> QED BY <3>2 DEF g, h
  <2> QED BY <1>3, <2>3, <2>4
<1> QED BY <1>4, <1>5

LEMMA TotalType ==
    ASSUME NEW f, NEW S, IsFiniteSet(S), \A x \in S : f[x] \in Int
    PROVE  Total(f, S) \in Int
<1> DEFINE P == {s \in SUBSET S : Total(f, s) \in Int}
<1>1. ASSUME NEW s \in SUBSET S, \A t \in SUBSET s : t # s => t \in P PROVE s \in P
  <2>1. IsFiniteSet(s)
    BY FS_Subset
  <2>2. CASE s = {}
    BY <2>1, <2>2, TotalStep
  <2>3. CASE s # {}
    <3>1. Chosen(s) \in s /\ s \ {Chosen(s)} \in P
      BY <1>1, <2>3, ChosenIn
    <3>2. Total(f, s) = f[Chosen(s)] + Total(f, s \ {Chosen(s)})
      BY <2>1, <2>3, TotalStep
    <3> QED BY <3>1, <3>2
  <2> QED BY <2>2, <2>3
<1> HIDE DEF P
<1>2. SUBSET S \subseteq P
  BY <1>1, SubsetInduction
<1> QED BY <1>2 DEF P

\* The order in which a set is summed makes no difference.
LEMMA TotalRemove ==
    ASSUME NEW f, NEW S, IsFiniteSet(S), \A x \in S : f[x] \in Int
    PROVE  \A x \in S : Total(f, S) = f[x] + Total(f, S \ {x})
<1> DEFINE P == {s \in SUBSET S : \A x \in s : Total(f, s) = f[x] + Total(f, s \ {x})}
<1>1. ASSUME NEW s \in SUBSET S, \A t \in SUBSET s : t # s => t \in P PROVE s \in P
  <2> SUFFICES ASSUME NEW x \in s PROVE Total(f, s) = f[x] + Total(f, s \ {x})
    OBVIOUS
  <2> DEFINE c == Chosen(s)
             both == s \ {c, x}
  <2>1. c \in s /\ \A t \in SUBSET S : IsFiniteSet(t)
    BY ChosenIn, FS_Subset
  <2>2. Total(f, s) = f[c] + Total(f, s \ {c})
    BY <2>1, TotalStep
  <2>3. CASE x = c
    BY <2>2, <2>3
  <2>4. CASE x # c
    <3>1. x \in s \ {c} /\ c \in s \ {x} /\ s \ {c} \in P /\ s \ {x} \in P
      BY <1>1, <2>1, <2>4
    <3>2. (s \ {c}) \ {x} = both /\ (s \ {x}) \ {c} = both
      OBVIOUS
    <3>3. Total(f, s \ {c}) = f[x] + Total(f, both) /\ Total(f, s \ {x}) = f[c] + Total(f, both)
      BY <3>1, <3>2
    <3>4. Total(f, both) \in Int /\ f[x] \in Int /\ f[c] \in Int
      <4>1. both \in SUBSET S
        OBVIOUS
      <4> QED BY <2>1, <4>1, TotalType
    <3> QED BY <2>2, <3>3, <3>4
  <2> QED BY <2>3, <2>4
<1> HIDE DEF P
<1>2. SUBSET S \subseteq P
  BY <1>1, SubsetInduction
<1> QED BY <1>2 DEF P

LEMMA TotalUnion ==
    ASSUME NEW f, NEW A, NEW B, IsFiniteSet(A), IsFiniteSet(B), A \cap B = {}, \A x \in A \cup B : f[x] \in Int
    PROVE  Total(f, A \cup B) = Total(f, A) + Total(f, B)
<1> DEFINE P == {s \in SUBSET B : Total(f, A \cup s) = Total(f, A) + Total(f, s)}
<1>1. \A s \in SUBSET B : IsFiniteSet(s) /\ IsFiniteSet(A \cup s) /\ Total(f, s) \in Int
  BY FS_Subset, FS_Union, TotalType
<1>2. Total(f, A) \in Int
  BY TotalType
<1>3. ASSUME NEW s \in SUBSET B, \A t \in SUBSET s : t # s => t \in P PROVE s \in P
  <2>1. CASE s = {}
    <3>1. A \cup {} = A /\ Total(f, {}) = 0
      BY TotalStep
    <3> QED BY <1>2, <2>1, <3>1
  <2>2. CASE s # {}
    <3> DEFINE x == Chosen(s)
               t == s \ {x}
    <3>1. x \in s /\ x \notin A /\ t \in P
      BY <1>3, <2>2, ChosenIn
    <3>2. (A \cup s) \ {x} = A \cup t
      BY <3>1
    <3>3. Total(f, A \cup s) = f[x] + Total(f, A \cup t)
      <4>1. \A y \in A \cup s : Total(f, A \cup s) = f[y] + Total(f, (A \cup s) \ {y})
        BY <1>1, TotalRemove
      <4> QED BY <3>1, <3>2, <4>1
    <3>4. Total(f, s) = f[x] + Total(f, t)
      BY <1>1, <2>2, TotalStep
    <3>5. Total(f, t) \in Int /\ f[x] \in Int
      BY <1>1, <3>1
    <3> QED BY <1>2, <3>1, <3>3, <3>4, <3>5
  <2> QED BY <2>1, <2>2
<1> HIDE DEF P
<1>4. SUBSET B \subseteq P
  BY <1>3, SubsetInduction
<1> QED BY <1>4 DEF P
\* Taking a subset out, and the two ends of a difference of values.
LEMMA TotalDifference ==
    ASSUME NEW f, NEW A, NEW B \in SUBSET A, IsFiniteSet(A), \A x \in A : f[x] \in Int
    PROVE  Total(f, A \ B) = Total(f, A) - Total(f, B)
<1>1. IsFiniteSet(B) /\ IsFiniteSet(A \ B)
  BY FS_Subset
<1>2. Total(f, B) \in Int /\ Total(f, A \ B) \in Int
  BY <1>1, TotalType
<1>3. Total(f, B \cup (A \ B)) = Total(f, B) + Total(f, A \ B)
  BY <1>1, TotalUnion
<1>4. B \cup (A \ B) = A
  OBVIOUS
<1>5. Total(f, A) = Total(f, B) + Total(f, A \ B)
  BY <1>3, <1>4
<1> DEFINE whole == Total(f, A)
           part == Total(f, B)
           rest == Total(f, A \ B)
<1>6. whole = part + rest /\ part \in Int /\ rest \in Int
  BY <1>2, <1>5
<1> HIDE DEF whole, part, rest
<1>7. rest = whole - part
  BY <1>6
<1> QED BY <1>7 DEF whole, part, rest

LEMMA TotalMinus ==
    ASSUME NEW f, NEW g, NEW h, NEW S, IsFiniteSet(S),
           \A x \in S : f[x] \in Int /\ g[x] \in Int /\ h[x] = f[x] - g[x]
    PROVE  Total(h, S) = Total(f, S) - Total(g, S)
<1> DEFINE P == {s \in SUBSET S : Total(h, s) = Total(f, s) - Total(g, s)}
<1>1. ASSUME NEW s \in SUBSET S, \A t \in SUBSET s : t # s => t \in P PROVE s \in P
  <2>1. IsFiniteSet(s)
    BY FS_Subset
  <2>2. CASE s = {}
    <3>1. Total(f, {}) = 0 /\ Total(g, {}) = 0 /\ Total(h, {}) = 0
      BY <2>1, TotalStep
    <3> QED BY <2>2, <3>1
  <2>3. CASE s # {}
    <3> DEFINE t == s \ {Chosen(s)}
    <3>1. Chosen(s) \in S /\ t \in P /\ IsFiniteSet(t)
      BY <1>1, <2>3, ChosenIn, FS_Subset
    <3>2. /\ Total(h, s) = h[Chosen(s)] + Total(h, t)
          /\ Total(f, s) = f[Chosen(s)] + Total(f, t)
          /\ Total(g, s) = g[Chosen(s)] + Total(g, t)
      BY <2>1, <2>3, TotalStep
    <3>3. Total(f, t) \in Int /\ Total(g, t) \in Int
      BY <3>1, TotalType
    <3>4. h[Chosen(s)] = f[Chosen(s)] - g[Chosen(s)] /\ f[Chosen(s)] \in Int /\ g[Chosen(s)] \in Int
      BY <3>1
    <3>5. Total(h, t) = Total(f, t) - Total(g, t)
      BY <3>1
    <3> HIDE DEF t
    <3>6. Total(h, s) = Total(f, s) - Total(g, s)
      BY <3>2, <3>3, <3>4, <3>5
    <3> QED BY <3>6
  <2> QED BY <2>2, <2>3
<1> HIDE DEF P
<1>2. SUBSET S \subseteq P
  BY <1>1, SubsetInduction
<1> QED BY <1>2 DEF P

\* A sum over disjoint sets F[t], taken set by set: q[t] is the sum of f over F[t].
LEMMA TotalFamily ==
    ASSUME NEW f, NEW F, NEW q, NEW K, IsFiniteSet(K),
           \A t \in K : IsFiniteSet(F[t]) /\ (\A x \in F[t] : f[x] \in Int) /\ q[t] = Total(f, F[t]),
           \A t, u \in K : t # u => F[t] \cap F[u] = {},
           NEW T, T = UNION {F[t] : t \in K}
    PROVE  Total(f, T) = Total(q, K) /\ IsFiniteSet(T)
<1> DEFINE All(s) == UNION {F[t] : t \in s}
           P == {s \in SUBSET K : Total(f, All(s)) = Total(q, s) /\ IsFiniteSet(All(s))}
<1>1. ASSUME NEW s \in SUBSET K, \A t \in SUBSET s : t # s => t \in P PROVE s \in P
  <2>1. IsFiniteSet(s)
    BY FS_Subset
  <2>2. CASE s = {}
    <3>1. All(s) = {}
      BY <2>2
    <3>2. Total(f, {}) = 0 /\ Total(q, {}) = 0
      BY <2>1, TotalStep
    <3> QED BY <2>2, <3>1, <3>2, FS_EmptySet
  <2>3. CASE s # {}
    <3> DEFINE x == Chosen(s)
               t == s \ {x}
    <3>1. x \in s /\ x \in K /\ t \in P
      BY <1>1, <2>3, ChosenIn
    <3>2. Total(q, s) = q[x] + Total(q, t)
      BY <2>1, <2>3, TotalStep
    <3>3. All(s) = All(t) \cup F[x] /\ All(t) \cap F[x] = {}
      BY <3>1
    <3>4. \A y \in All(t) \cup F[x] : f[y] \in Int
      BY <3>1
    <3>5. IsFiniteSet(All(t)) /\ Total(f, All(t)) = Total(q, t) /\ IsFiniteSet(F[x]) /\ q[x] = Total(f, F[x])
      BY <3>1
    <3> HIDE DEF All, t, x
    <3>6. Total(f, All(t) \cup F[x]) = Total(f, All(t)) + Total(f, F[x])
      BY <3>3, <3>4, <3>5, TotalUnion
    <3>7. IsFiniteSet(All(t) \cup F[x])
      BY <3>5, FS_Union
    <3>8. Total(f, All(t)) \in Int /\ Total(f, F[x]) \in Int
      BY <3>4, <3>5, TotalType
    <3>9. Total(f, All(s)) = Total(q, t) + q[x]
      BY <3>3, <3>5, <3>6
    <3>10. Total(f, All(s)) = Total(q, s)
      <4>1. Total(q, t) \in Int /\ q[x] \in Int
        BY <3>5, <3>8
      <4> QED BY <3>2, <3>9, <4>1
    <3>11. IsFiniteSet(All(s))
      BY <3>3, <3>7
    <3> QED BY <3>10, <3>11
  <2> QED BY <2>2, <2>3
<1> HIDE DEF P
<1>2. SUBSET K \subseteq P
  BY <1>1, SubsetInduction
<1> QED BY <1>2 DEF P

\* A sum of values under other names: m is one to one.
LEMMA TotalRenamed ==
    ASSUME NEW f, NEW g, NEW m, NEW S, IsFiniteSet(S),
           \A x \in S : f[x] \in Int /\ g[m[x]] = f[x],
           \A x, y \in S : m[x] = m[y] => x = y,
           NEW T, T = {m[x] : x \in S}
    PROVE  Total(g, T) = Total(f, S) /\ IsFiniteSet(T)
<1> DEFINE Image(s) == {m[x] : x \in s}
           P == {s \in SUBSET S : Total(g, Image(s)) = Total(f, s) /\ IsFiniteSet(Image(s))}
<1>1. ASSUME NEW s \in SUBSET S, \A t \in SUBSET s : t # s => t \in P PROVE s \in P
  <2>1. IsFiniteSet(s)
    BY FS_Subset
  <2>2. CASE s = {}
    <3>1. Image(s) = {}
      BY <2>2
    <3>2. Total(f, {}) = 0 /\ Total(g, {}) = 0
      BY <2>1, TotalStep
    <3> QED BY <2>2, <3>1, <3>2, FS_EmptySet
  <2>3. CASE s # {}
    <3> DEFINE x == Chosen(s)
               t == s \ {x}
    <3>1. x \in s /\ x \in S /\ t \in P
      BY <1>1, <2>3, ChosenIn
    <3>2. Total(f, s) = f[x] + Total(f, t)
      BY <2>1, <2>3, TotalStep
    <3>3. Image(s) = Image(t) \cup {m[x]} /\ Image(s) \ {m[x]} = Image(t)
      BY <3>1
    <3>4. \A y \in Image(s) : g[y] \in Int
      OBVIOUS
    <3>5. m[x] \in Image(s) /\ IsFiniteSet(Image(t)) /\ Total(g, Image(t)) = Total(f, t) /\ g[m[x]] = f[x]
      BY <3>1
    <3> HIDE DEF Image, t, x
    <3>6. IsFiniteSet(Image(s))
      BY <3>3, <3>5, FS_AddElement
    <3>7. Total(g, Image(s)) = g[m[x]] + Total(g, Image(s) \ {m[x]})
      BY <3>4, <3>5, <3>6, TotalRemove
    <3> QED BY <3>2, <3>3, <3>5, <3>6, <3>7
  <2> QED BY <2>2, <2>3
<1> HIDE DEF P
<1>2. SUBSET S \subseteq P
  BY <1>1, SubsetInduction
<1> QED BY <1>2 DEF P

-----------------------------------------------------------------------------
(* The money of a chain *)

\* The value of an output, as a function.
Coin == [o \in Txs \X (Nat \ {0}) |-> Value[o[1]][o[2]]]
UnspentOn(b) == {o \in OutPoints : LocationOn(b)[o[1]] # None} \ SpentOn(b)
CreatedBy(b) == UNION {OutputsOf(t) : t \in TxsOf(b)}

LEMMA CoinFacts ==
    /\ OutPoints \subseteq Txs \X (Nat \ {0})
    /\ \A o \in OutPoints : Coin[o] \in Int /\ o \in OutputsOf(o[1]) /\ o[1] \in Txs
    /\ \A t \in Txs : /\ IsFiniteSet(DOMAIN Value[t]) /\ OutputsOf(t) \subseteq OutPoints
                      /\ \A n \in DOMAIN Value[t] : Value[t][n] \in Int /\ Coin[<<t, n>>] = Value[t][n]
<1>1. ASSUME NEW t \in Txs
      PROVE  /\ IsFiniteSet(DOMAIN Value[t]) /\ OutputsOf(t) \subseteq OutPoints
             /\ \A n \in DOMAIN Value[t] : /\ n \in Nat \ {0} /\ Value[t][n] \in Int
                                           /\ Coin[<<t, n>>] = Value[t][n]
  <2>1. Value[t] \in Seq(Nat)
    BY TxAssumption
  <2>2. DOMAIN Value[t] = 1..Len(Value[t]) /\ Len(Value[t]) \in Nat
    BY <2>1
  <2>3. IsFiniteSet(DOMAIN Value[t])
    BY <2>2, FS_Interval
  <2>4. ASSUME NEW n \in DOMAIN Value[t]
        PROVE  n \in Nat \ {0} /\ Value[t][n] \in Int /\ Coin[<<t, n>>] = Value[t][n]
    BY <2>1, <2>2 DEF Coin
  <2> QED BY <2>3, <2>4 DEF OutPoints
<1>2. ASSUME NEW o \in OutPoints
      PROVE  o \in Txs \X (Nat \ {0}) /\ Coin[o] \in Int /\ o \in OutputsOf(o[1]) /\ o[1] \in Txs
  <2>1. PICK t \in Txs : \E n \in DOMAIN Value[t] : o = <<t, n>>
    BY DEF OutPoints, OutputsOf
  <2>0. PICK n \in DOMAIN Value[t] : o = <<t, n>>
    BY <2>1
  <2>2. o[1] = t /\ n \in Nat \ {0}
    BY <1>1, <2>0
  <2> QED BY <1>1, <2>0, <2>2 DEF OutputsOf
<1> QED BY <1>1, <1>2

\* What is paid by a transaction is the sum of the values of its outputs.
LEMMA ValueOutTotal ==
    ASSUME NEW t \in Txs
    PROVE  ValueOut(t) = Total(Coin, OutputsOf(t)) /\ ValueOut(t) \in Int /\ IsFiniteSet(OutputsOf(t))
<1> DEFINE f == Value[t]
           S == DOMAIN Value[t]
           m == [n \in S |-> <<t, n>>]
<1>1. ValueOut(t) = Total(f, S)
  BY DEF ValueOut, MapThenSumSet, MapThenFoldSet, Total, Summing, Chosen
<1>2. IsFiniteSet(S) /\ \A n \in S : f[n] \in Int /\ Coin[m[n]] = f[n]
  BY CoinFacts
<1>3. \A x, y \in S : m[x] = m[y] => x = y
  OBVIOUS
<1>4. {m[n] : n \in S} = OutputsOf(t)
  BY DEF OutputsOf
<1> HIDE DEF f, S, m
<1>5. Total(Coin, OutputsOf(t)) = Total(f, S) /\ IsFiniteSet(OutputsOf(t))
  BY <1>2, <1>3, <1>4, TotalRenamed
<1>6. Total(f, S) \in Int
  BY <1>2, TotalType
<1> QED BY <1>1, <1>5, <1>6

\* The sum of the values of a set of outputs.
LEMMA CoinsTotal ==
    ASSUME NEW S \in SUBSET OutPoints, IsFiniteSet(S)
    PROVE  MapThenSumSet(LAMBDA o : Value[o[1]][o[2]], S) = Total(Coin, S) /\ Total(Coin, S) \in Int
<1> DEFINE Sums(g) == g = [s \in SUBSET S |-> IF s = {} THEN 0
                            ELSE Value[Chosen(s)[1]][Chosen(s)[2]] + g[s \ {Chosen(s)}]]
           iter == CHOOSE g : Sums(g)
<1>1. MapThenSumSet(LAMBDA o : Value[o[1]][o[2]], S) = iter[S]
  BY DEF MapThenSumSet, MapThenFoldSet, Chosen
<1>2. ASSUME NEW s \in SUBSET S, s # {} PROVE Coin[Chosen(s)] = Value[Chosen(s)[1]][Chosen(s)[2]]
  BY <1>2, ChosenIn, CoinFacts DEF Coin
<1>3. ASSUME NEW g PROVE Summing(Coin, S, g) <=> Sums(g)
  BY <1>2 DEF Summing
<1>4. PICK h : Summing(Coin, S, h)
  BY SummingExists
<1> HIDE DEF Sums
<1>5. Summing(Coin, S, iter)
  BY <1>3, <1>4
<1> HIDE DEF iter
<1> DEFINE k == CHOOSE g : Summing(Coin, S, g)
<1>6. Summing(Coin, S, k)
  BY <1>4
<1>7. Total(Coin, S) = k[S]
  BY DEF Total
<1> HIDE DEF k
<1>8. iter[S] = k[S]
  BY <1>5, <1>6, SummingUnique
<1>9. Total(Coin, S) \in Int
  BY CoinFacts, TotalType
<1> QED BY <1>1, <1>7, <1>8, <1>9

LEMMA ImageFinite ==
    ASSUME NEW S, IsFiniteSet(S), NEW f, NEW T, T = {f[x] : x \in S}
    PROVE  IsFiniteSet(T)
<1> DEFINE g == [x \in S |-> f[x]]
<1>1. g \in Surjection(S, T)
  BY DEF Surjection
<1> QED BY <1>1, FS_Surjection

LEMMA ChainFinite ==
    ASSUME NEW b \in Blocks
    PROVE  IsFiniteSet(Anc[b])
<1> DEFINE bad == {c \in Blocks : ~IsFiniteSet(Anc[c])}
           heights == {Height[c] : c \in bad}
<1>1. SUFFICES ASSUME bad # {} PROVE FALSE
  OBVIOUS
<1>2. heights \in SUBSET Nat /\ heights # {}
  BY <1>1, TreeFacts
<1>3. PICK h \in heights : \A k \in heights : h <= k
  BY <1>2, LeastNat
<1>4. PICK c \in bad : h = Height[c]
  BY <1>3
<1>5. c \in Blocks \ {Genesis}
  <2>1. IsFiniteSet(Anc[Genesis])
    BY AncGenesis, FS_Singleton, Zenon
  <2> QED BY <1>4, <2>1
<1>6. Prev[c] \in Blocks /\ Height[Prev[c]] \in Nat /\ Height[c] = Height[Prev[c]] + 1
  BY <1>5, TreeFacts
<1>7. Prev[c] \notin bad
  <2>1. SUFFICES ASSUME Prev[c] \in bad PROVE FALSE
    OBVIOUS
  <2>2. Height[Prev[c]] \in heights
    BY <2>1
  <2> HIDE DEF heights, bad
  <2> QED BY <1>3, <1>4, <1>6, <2>2
<1>8. IsFiniteSet(Anc[Prev[c]])
  BY <1>6, <1>7
<1>9. IsFiniteSet(Anc[Prev[c]] \cup {c})
  BY <1>8, FS_AddElement
<1>10. Anc[c] = Anc[Prev[c]] \cup {c}
  BY <1>5, AncStep
<1> QED BY <1>4, <1>9, <1>10

LEMMA BlockFinite ==
    ASSUME NEW b \in Blocks
    PROVE  IsFiniteSet(TxsOf(b)) /\ TxsOf(b) \in SUBSET Txs
<1>1. Vtx[b] \in Seq(Txs) /\ TxsOf(b) \in SUBSET Txs
  BY TxFacts
<1>2. DOMAIN Vtx[b] = 1..Len(Vtx[b]) /\ Len(Vtx[b]) \in Nat
  BY <1>1
<1>3. IsFiniteSet(DOMAIN Vtx[b])
  BY <1>2, FS_Interval
<1>4. IsFiniteSet(TxsOf(b))
  BY <1>3, ImageFinite DEF TxsOf
<1> QED BY <1>1, <1>4

\* What a block creates, in all and transaction by transaction.
LEMMA CreatedTotal ==
    ASSUME NEW b \in Blocks, NEW q, \A t \in TxsOf(b) : q[t] = ValueOut(t)
    PROVE  Total(Coin, CreatedBy(b)) = Total(q, TxsOf(b)) /\ IsFiniteSet(CreatedBy(b))
<1> DEFINE F == [t \in TxsOf(b) |-> OutputsOf(t)]
<1>1. CreatedBy(b) = UNION {F[t] : t \in TxsOf(b)}
  BY DEF CreatedBy
<1>2. \A t \in TxsOf(b) : /\ IsFiniteSet(F[t]) /\ \A x \in F[t] : Coin[x] \in Int
                          /\ q[t] = Total(Coin, F[t])
  BY BlockFinite, ValueOutTotal, CoinFacts
<1>3. \A t, u \in TxsOf(b) : t # u => F[t] \cap F[u] = {}
  BY DEF OutputsOf
<1> HIDE DEF F
<1> DEFINE K == TxsOf(b)
           T == CreatedBy(b)
<1>4. IsFiniteSet(K)
  BY BlockFinite
<1>5. \A t \in K : IsFiniteSet(F[t]) /\ (\A x \in F[t] : Coin[x] \in Int) /\ q[t] = Total(Coin, F[t])
  BY <1>2
<1>6. (\A t, u \in K : t # u => F[t] \cap F[u] = {}) /\ T = UNION {F[t] : t \in K}
  BY <1>1, <1>3
<1> HIDE DEF K, T
<1>7. Total(Coin, T) = Total(q, K) /\ IsFiniteSet(T)
  BY ONLY <1>4, <1>5, <1>6, TotalFamily
<1> QED BY <1>7 DEF K, T

\* The outputs of a chain are those its blocks create.
LEMMA OutputsOfChain ==
    ASSUME NEW b \in Blocks
    PROVE  {o \in OutPoints : LocationOn(b)[o[1]] # None} = UNION {CreatedBy(c) : c \in Anc[b]}
<1>1. ASSUME NEW o \in OutPoints
      PROVE  LocationOn(b)[o[1]] # None <=> \E c \in Anc[b] : o \in CreatedBy(c)
  <2>1. o[1] \in Txs /\ o \in OutputsOf(o[1])
    BY CoinFacts
  <2>2. \A c \in Anc[b] : o[1] \in TxsOf(c) <=> o \in CreatedBy(c)
    BY <2>1 DEF CreatedBy, OutputsOf
  <2> QED BY <2>1, <2>2, LocatedIff
<1>2. \A c \in Anc[b] : CreatedBy(c) \subseteq OutPoints
  BY AncBasic, BlockFinite, CoinFacts DEF CreatedBy
<1> QED BY <1>1, <1>2

LEMMA UnspentFinite ==
    ASSUME NEW b \in Blocks
    PROVE  IsFiniteSet(UnspentOn(b)) /\ UnspentOn(b) \in SUBSET OutPoints
<1> DEFINE F == [c \in Anc[b] |-> CreatedBy(c)]
           sets == {F[c] : c \in Anc[b]}
<1>1. IsFiniteSet(sets)
  BY ChainFinite, ImageFinite
<1>2. ASSUME NEW c \in Anc[b] PROVE IsFiniteSet(F[c])
  <2>1. c \in Blocks
    BY AncBasic
  <2> DEFINE q == [t \in TxsOf(c) |-> ValueOut(t)]
  <2>2. \A t \in TxsOf(c) : q[t] = ValueOut(t)
    OBVIOUS
  <2> HIDE DEF q
  <2>3. IsFiniteSet(CreatedBy(c))
    BY <2>1, <2>2, CreatedTotal
  <2> QED BY <2>3
<1>3. IsFiniteSet(UNION sets)
  BY <1>1, <1>2, FS_UNION
<1>4. UnspentOn(b) \subseteq UNION sets
  BY OutputsOfChain DEF UnspentOn
<1>5. IsFiniteSet(UnspentOn(b))
  BY <1>3, <1>4, FS_Subset
<1> QED BY <1>5 DEF UnspentOn

\* A valid block spends what is unspent below it or what it creates.
LEMMA UnspentStep ==
    ASSUME NEW b \in Blocks \ {Genesis}, ChainSpendsValid(b)
    PROVE  /\ UnspentOn(b) = (UnspentOn(Prev[b]) \cup CreatedBy(b)) \ InputsOf(b)
           /\ InputsOf(b) \subseteq UnspentOn(Prev[b]) \cup CreatedBy(b)
           /\ UnspentOn(Prev[b]) \cap CreatedBy(b) = {}
<1> DEFINE Outs(c) == {o \in OutPoints : LocationOn(c)[o[1]] # None}
<1>1. Prev[b] \in Blocks /\ b \in Anc[b] /\ Anc[b] = {b} \cup Anc[Prev[b]]
  BY TreeFacts, AncBasic, AncStep
<1>2. Outs(b) = Outs(Prev[b]) \cup CreatedBy(b)
  BY <1>1, OutputsOfChain
<1>3. SpentOn(b) = SpentOn(Prev[b]) \cup InputsOf(b)
  BY <1>1 DEF SpentOn
<1>4. \A o \in CreatedBy(b) : o[1] \in TxsOf(b) /\ o[1] \in Txs
  BY BlockFinite DEF CreatedBy, OutputsOf
<1>5. CreatedBy(b) \cap SpentOn(Prev[b]) = {}
  BY <1>4, NoDoubleSpend
<1>6. CreatedBy(b) \cap Outs(Prev[b]) = {}
  BY <1>1, <1>4, NoRepeat, LocatedIff
<1>7. ASSUME NEW o \in InputsOf(b) PROVE o \in UnspentOn(Prev[b]) \cup CreatedBy(b)
  <2>1. PICK i \in DOMAIN Vtx[b] : o \in Inputs[Vtx[b][i]]
    BY DEF InputsOf, TxsOf
  <2>2. o \in OutPoints /\ o[1] \in Txs /\ o \in OutputsOf(o[1])
    BY <1>1, <2>1, InputSource, CoinFacts
  <2>3. CASE o[1] \in TxsBefore(b, i)
    <3>1. o[1] \in TxsOf(b)
      BY <2>1, <2>3, TxFacts DEF TxsBefore, TxsOf
    <3> QED BY <2>2, <3>1 DEF CreatedBy
  <2>4. CASE o \notin SpentOn(Prev[b]) /\ \E d \in Anc[Prev[b]] : o[1] \in TxsOf(d)
    BY <1>1, <2>2, <2>4, LocatedIff DEF UnspentOn
  <2> QED BY <1>1, <2>1, <2>3, <2>4, InputSource
<1> QED BY <1>2, <1>3, <1>5, <1>6, <1>7 DEF UnspentOn

\* What a valid block spends, in all and transaction by transaction.
LEMMA InputsTotal ==
    ASSUME NEW b \in Blocks \ {Genesis}, ChainSpendsValid(b),
           NEW q, \A t \in TxsOf(b) : q[t] = ValueIn(t)
    PROVE  /\ Total(Coin, InputsOf(b)) = Total(q, TxsOf(b))
           /\ \A t \in TxsOf(b) : ValueIn(t) \in Int
<1> DEFINE F == [t \in TxsOf(b) |-> Inputs[t]]
<1>1. InputsOf(b) = UNION {F[t] : t \in TxsOf(b)}
  BY DEF InputsOf
<1>2. IsFiniteSet(UnspentOn(Prev[b]) \cup CreatedBy(b)) /\ UnspentOn(Prev[b]) \cup CreatedBy(b) \subseteq OutPoints
  <2>1. IsFiniteSet(UnspentOn(Prev[b])) /\ UnspentOn(Prev[b]) \subseteq OutPoints
    BY TreeFacts, UnspentFinite
  <2> DEFINE out == [t \in TxsOf(b) |-> ValueOut(t)]
  <2>2. \A t \in TxsOf(b) : out[t] = ValueOut(t)
    OBVIOUS
  <2> HIDE DEF out
  <2>3. IsFiniteSet(CreatedBy(b))
    BY <2>2, CreatedTotal
  <2>4. CreatedBy(b) \subseteq OutPoints
    BY BlockFinite, CoinFacts DEF CreatedBy
  <2> QED BY <2>1, <2>3, <2>4, FS_Union
<1>3. ASSUME NEW t \in TxsOf(b)
      PROVE  /\ IsFiniteSet(Inputs[t]) /\ Inputs[t] \in SUBSET OutPoints
             /\ ValueIn(t) = Total(Coin, Inputs[t]) /\ ValueIn(t) \in Int
  <2>1. Inputs[t] \subseteq UnspentOn(Prev[b]) \cup CreatedBy(b)
    BY UnspentStep DEF InputsOf
  <2>2. IsFiniteSet(Inputs[t]) /\ Inputs[t] \in SUBSET OutPoints
    BY <1>2, <2>1, FS_Subset
  <2>3. ValueIn(t) = MapThenSumSet(LAMBDA o : Value[o[1]][o[2]], Inputs[t])
    BY DEF ValueIn
  <2> QED BY <2>2, <2>3, CoinsTotal
<1>4. \A t \in TxsOf(b) : /\ IsFiniteSet(F[t]) /\ \A x \in F[t] : Coin[x] \in Int
                          /\ q[t] = Total(Coin, F[t])
  BY <1>3, CoinFacts
<1>5. ASSUME NEW t \in TxsOf(b), NEW u \in TxsOf(b), t # u PROVE F[t] \cap F[u] = {}
  <2>1. b \in Anc[b]
    BY AncBasic
  <2> QED BY <1>5, <2>1, OneSpender
<1> HIDE DEF F
<1> DEFINE K == TxsOf(b)
           T == InputsOf(b)
<1>6. IsFiniteSet(K)
  BY BlockFinite
<1>7. \A t \in K : IsFiniteSet(F[t]) /\ (\A x \in F[t] : Coin[x] \in Int) /\ q[t] = Total(Coin, F[t])
  BY <1>4
<1>8. (\A t, u \in K : t # u => F[t] \cap F[u] = {}) /\ T = UNION {F[t] : t \in K}
  BY <1>1, <1>5
<1> HIDE DEF K, T
<1>9. Total(Coin, T) = Total(q, K)
  BY ONLY <1>6, <1>7, <1>8, TotalFamily
<1> QED BY <1>3, <1>9 DEF K, T

\* The fees of a block, as a sum over its paying transactions.
LEMMA FeesTotal ==
    ASSUME NEW b \in Blocks, NEW q, \A t \in Paying(b) : q[t] = Fee(t)
    PROVE  Fees(b) = Total(q, Paying(b)) /\ IsFiniteSet(Paying(b)) /\ Paying(b) \subseteq TxsOf(b)
<1> DEFINE S == Paying(b)
           Sums(g) == g = [s \in SUBSET S |-> IF s = {} THEN 0
                            ELSE Fee(Chosen(s)) + g[s \ {Chosen(s)}]]
           iter == CHOOSE g : Sums(g)
<1>1. Fees(b) = iter[S]
  BY DEF Fees, MapThenSumSet, MapThenFoldSet, Chosen
<1>2. S \subseteq TxsOf(b)
  BY DEF Paying, TxsOf
<1>3. IsFiniteSet(S)
  BY <1>2, BlockFinite, FS_Subset
<1>4. ASSUME NEW s \in SUBSET S, s # {} PROVE q[Chosen(s)] = Fee(Chosen(s))
  BY <1>4, ChosenIn
<1> HIDE DEF S
<1>5. ASSUME NEW g PROVE Summing(q, S, g) <=> Sums(g)
  BY <1>4 DEF Summing
<1>6. PICK h : Summing(q, S, h)
  BY <1>3, SummingExists
<1> HIDE DEF Sums
<1>7. Summing(q, S, iter)
  BY <1>5, <1>6
<1> HIDE DEF iter
<1> DEFINE k == CHOOSE g : Summing(q, S, g)
<1>8. Summing(q, S, k)
  BY <1>6
<1>9. Total(q, S) = k[S]
  BY DEF Total
<1> HIDE DEF k
<1>10. iter[S] = k[S]
  BY <1>3, <1>7, <1>8, SummingUnique
<1> QED BY <1>1, <1>2, <1>3, <1>9, <1>10 DEF S

\* The money a block adds: what its coinbase pays and its coinstake gains, less
\* the fees its other transactions leave.
Minted(b) == ValueOut(Vtx[b][1]) + (IF IsProofOfStake(b) THEN StakeReward(b) ELSE 0) - Fees(b)
Money(b) == Total(Coin, UnspentOn(b))

LEMMA MoneyStep ==
    ASSUME NEW b \in Blocks \ {Genesis}, ChainSpendsValid(b)
    PROVE  /\ Money(b) = Money(Prev[b]) + Minted(b)
           /\ Money(Prev[b]) \in Int /\ ValueOut(Vtx[b][1]) \in Int /\ Fees(b) \in Int
           /\ IsProofOfStake(b) => StakeReward(b) \in Int
<1> DEFINE T == TxsOf(b)
           P == Paying(b)
           old == UnspentOn(Prev[b])
           out == [t \in T |-> ValueOut(t)]
           in == [t \in T |-> ValueIn(t)]
           net == [t \in T |-> ValueOut(t) - ValueIn(t)]
           fee == [t \in T |-> Fee(t)]
           cb == Vtx[b][1]
           cs == Vtx[b][2]
<1>1. IsFiniteSet(T) /\ T \in SUBSET Txs
  BY BlockFinite
<1>2. /\ Total(Coin, CreatedBy(b)) = Total(out, T) /\ IsFiniteSet(CreatedBy(b))
  <2>1. \A t \in TxsOf(b) : out[t] = ValueOut(t)
    OBVIOUS
  <2> HIDE DEF out
  <2> QED BY <2>1, CreatedTotal
<1>3. Total(Coin, InputsOf(b)) = Total(in, T) /\ \A t \in T : ValueIn(t) \in Int
  <2>1. \A t \in TxsOf(b) : in[t] = ValueIn(t)
    OBVIOUS
  <2> HIDE DEF in
  <2> QED BY <2>1, InputsTotal
<1>4. \A t \in T : ValueOut(t) \in Int
  BY <1>1, ValueOutTotal
<1>5. IsFiniteSet(P) /\ P \in SUBSET T /\ Fees(b) = Total(fee, P)
  <2>1. P \subseteq T
    BY DEF Paying, TxsOf
  <2>2. \A t \in Paying(b) : fee[t] = Fee(t)
    BY <2>1
  <2> HIDE DEF fee
  <2> QED BY <2>2, FeesTotal
<1>6. /\ \A t \in T : out[t] \in Int /\ in[t] \in Int /\ net[t] = out[t] - in[t]
      /\ \A t \in P : fee[t] = in[t] - out[t]
      /\ \A t \in T : net[t] \in Int
  BY <1>3, <1>4, <1>5 DEF Fee
<1>7. /\ 1 \in DOMAIN Vtx[b] /\ cb \in T /\ net[cb] = ValueOut(cb) /\ ValueOut(cb) \in Int
  <2>1. 1 \in DOMAIN Vtx[b]
    BY TxFacts
  <2>2. cb \in T /\ Inputs[cb] = {}
    BY <2>1, TxFacts DEF TxsOf
  <2>3. MapThenSumSet(LAMBDA o : Value[o[1]][o[2]], {}) = Total(Coin, {})
    BY FS_EmptySet, CoinsTotal
  <2>4. ValueIn(cb) = 0
    BY <2>2, <2>3, FS_EmptySet, TotalStep DEF ValueIn
  <2> QED BY <1>4, <2>1, <2>2, <2>4
<1>8. IsProofOfStake(b) => /\ cs \in T \ {cb} /\ net[cs] = StakeReward(b) /\ StakeReward(b) \in Int
                           /\ P = (T \ {cb}) \ {cs}
  <2> SUFFICES ASSUME IsProofOfStake(b)
               PROVE  /\ cs \in T \ {cb} /\ net[cs] = StakeReward(b) /\ StakeReward(b) \in Int
                      /\ P = (T \ {cb}) \ {cs}
    OBVIOUS
  <2>1. 2 \in DOMAIN Vtx[b]
    BY RewardAssumption
  <2>2. cs \in T \ {cb}
    BY <1>7, <2>1, TxFacts DEF TxsOf
  <2>3. P = (T \ {cb}) \ {cs}
    BY <1>7, <2>1, TxFacts DEF Paying, TxsOf
  <2> QED BY <1>3, <1>4, <2>2, <2>3 DEF StakeReward
<1>9. ~IsProofOfStake(b) => P = T \ {cb}
  BY <1>7, TxFacts DEF Paying, TxsOf
<1>10. /\ old \in SUBSET OutPoints /\ IsFiniteSet(old) /\ CreatedBy(b) \in SUBSET OutPoints
       /\ UnspentOn(b) = (old \cup CreatedBy(b)) \ InputsOf(b)
       /\ InputsOf(b) \subseteq old \cup CreatedBy(b) /\ old \cap CreatedBy(b) = {}
  BY <1>1, TreeFacts, UnspentFinite, UnspentStep, CoinFacts DEF CreatedBy
<1> HIDE DEF T, P, out, in, net, fee, cb, cs, old
<1>11. Total(net, T) = Total(out, T) - Total(in, T)
  BY <1>1, <1>6, TotalMinus
<1>12. Total(net, P) = Total(out, P) - Total(in, P) /\ Total(fee, P) = Total(in, P) - Total(out, P)
       /\ Total(out, P) \in Int /\ Total(in, P) \in Int
  <2>1. \A t \in P : out[t] \in Int /\ in[t] \in Int /\ net[t] = out[t] - in[t]
    BY <1>5, <1>6
  <2>2. \A t \in P : in[t] \in Int /\ out[t] \in Int /\ fee[t] = in[t] - out[t]
    BY <1>5, <1>6
  <2>3. Total(net, P) = Total(out, P) - Total(in, P)
    BY <1>5, <2>1, TotalMinus
  <2>4. Total(fee, P) = Total(in, P) - Total(out, P)
    BY <1>5, <2>2, TotalMinus
  <2>5. Total(out, P) \in Int /\ Total(in, P) \in Int
    BY <1>5, <2>1, TotalType
  <2> QED BY <2>3, <2>4, <2>5
<1>13. Total(out, T) \in Int /\ Total(in, T) \in Int
  BY <1>1, <1>6, TotalType
<1>14. Total(net, T) = net[cb] + Total(net, T \ {cb})
  BY <1>1, <1>6, <1>7, TotalRemove
<1>15. IsProofOfStake(b) => Total(net, T \ {cb}) = net[cs] + Total(net, P)
  <2>1. IsFiniteSet(T \ {cb}) /\ \A t \in T \ {cb} : net[t] \in Int
    BY <1>1, <1>6, FS_Subset
  <2> QED BY <1>8, <2>1, TotalRemove
<1>16. Total(Coin, UnspentOn(b)) = Total(Coin, old) + Total(out, T) - Total(in, T)
       /\ Total(Coin, old) \in Int
  <2> DEFINE all == old \cup CreatedBy(b)
  <2>1. IsFiniteSet(all) /\ \A o \in all : Coin[o] \in Int
    BY <1>2, <1>10, FS_Union, CoinFacts
  <2>2. Total(Coin, all) = Total(Coin, old) + Total(Coin, CreatedBy(b))
    BY <1>2, <1>10, <2>1, TotalUnion
  <2>3. Total(Coin, old) \in Int
    BY <1>10, <2>1, TotalType
  <2>4. InputsOf(b) \in SUBSET all /\ UnspentOn(b) = all \ InputsOf(b)
    BY <1>10
  <2> HIDE DEF all
  <2>5. Total(Coin, UnspentOn(b)) = Total(Coin, all) - Total(Coin, InputsOf(b))
    BY <2>1, <2>4, TotalDifference
  <2> QED BY <1>2, <1>3, <1>13, <2>2, <2>3, <2>5
<1>17. Money(b) = Total(Coin, UnspentOn(b)) /\ Money(Prev[b]) = Total(Coin, old)
  BY DEF Money, old
<1>18. Fees(b) = Total(in, P) - Total(out, P) /\ Total(net, P) = 0 - Fees(b) /\ Fees(b) \in Int
  BY <1>5, <1>12
<1>19. ValueOut(Vtx[b][1]) = net[cb] /\ net[cb] \in Int
  BY <1>7 DEF cb
<1>20. CASE IsProofOfStake(b)
  <2>1. Minted(b) = net[cb] + net[cs] - Fees(b) /\ net[cs] = StakeReward(b) /\ net[cs] \in Int
    BY <1>8, <1>19, <1>20 DEF Minted
  <2>2. Total(net, T) = net[cb] + net[cs] - Fees(b)
    BY <1>14, <1>15, <1>18, <1>19, <1>20, <2>1
  <2> QED BY <1>11, <1>13, <1>16, <1>17, <1>18, <1>19, <2>1, <2>2
<1>21. CASE ~IsProofOfStake(b)
  <2>1. Minted(b) = net[cb] - Fees(b)
    BY <1>18, <1>19, <1>21 DEF Minted
  <2>2. Total(net, T) = net[cb] - Fees(b)
    <3>1. Total(net, T \ {cb}) = Total(net, P)
      BY <1>9, <1>21
    <3> QED BY <1>14, <1>18, <1>19, <3>1
  <2> QED BY <1>11, <1>13, <1>16, <1>17, <1>18, <1>19, <1>21, <2>1, <2>2
<1> QED BY <1>20, <1>21

====
