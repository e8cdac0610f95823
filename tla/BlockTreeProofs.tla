-------------------------- MODULE BlockTreeProofs ---------------------------
(***************************************************************************)
(* Facts about any tree of blocks.                                         *)
(***************************************************************************)
EXTENDS BlockTree, WellFoundedInduction, TLAPS

LEMMA TreeFacts ==
    /\ Genesis \in Blocks
    /\ None \notin Blocks
    /\ \A b \in Blocks \ {Genesis} :
          /\ Prev[b] \in Blocks
          /\ Height[b] = Height[Prev[b]] + 1
          /\ ChainTrust[b] > ChainTrust[Prev[b]]
    /\ \A b \in Blocks : Height[b] \in Nat /\ ChainTrust[b] \in Nat
BY TreeAssumption

\* A set that holds b and is closed under pprev holds every ancestor of b.
LEMMA AncLeast ==
    ASSUME NEW b \in Blocks, NEW S \in SUBSET Blocks, b \in S, ClosedUnderPrev(S)
    PROVE  Anc[b] \subseteq S
BY DEF Anc

LEMMA AncBasic ==
    ASSUME NEW b \in Blocks
    PROVE  /\ b \in Anc[b]
           /\ Anc[b] \subseteq Blocks
           /\ \A c \in Anc[b] : c # Genesis => Prev[c] \in Anc[b]
<1>1. b \in Anc[b] /\ Anc[b] \subseteq Blocks
  BY DEF Anc
<1>2. ASSUME NEW c \in Anc[b], c # Genesis PROVE Prev[c] \in Anc[b]
  <2>1. Prev[c] \in Blocks
    BY <1>1, <1>2, TreeFacts
  <2>2. ASSUME NEW S \in SUBSET Blocks, b \in S, ClosedUnderPrev(S) PROVE Prev[c] \in S
    BY <1>2, <2>2, AncLeast DEF ClosedUnderPrev
  <2> QED BY <2>1, <2>2 DEF Anc
<1> QED BY <1>1, <1>2

LEMMA AncTransitive ==
    ASSUME NEW b \in Blocks, NEW c \in Anc[b]
    PROVE  Anc[c] \subseteq Anc[b]
<1>1. Anc[b] \in SUBSET Blocks /\ ClosedUnderPrev(Anc[b]) /\ c \in Blocks
  BY AncBasic DEF ClosedUnderPrev
<1> QED BY <1>1, AncLeast

LEMMA AncStep ==
    ASSUME NEW b \in Blocks \ {Genesis}
    PROVE  Anc[b] = {b} \cup Anc[Prev[b]]
<1>1. Prev[b] \in Blocks
  BY TreeFacts
<1>2. Anc[Prev[b]] \subseteq Anc[b] /\ b \in Anc[b]
  BY <1>1, AncBasic, AncTransitive
<1>3. ClosedUnderPrev({b} \cup Anc[Prev[b]])
  BY <1>1, AncBasic DEF ClosedUnderPrev
<1>4. {b} \cup Anc[Prev[b]] \in SUBSET Blocks
  BY <1>1, AncBasic
<1>5. Anc[b] \subseteq {b} \cup Anc[Prev[b]]
  BY <1>3, <1>4, AncLeast
<1> QED BY <1>2, <1>5

LEMMA AncGenesis == Anc[Genesis] = {Genesis}
<1>1. Genesis \in Blocks /\ ClosedUnderPrev({Genesis})
  BY TreeFacts DEF ClosedUnderPrev
<1> QED BY <1>1, AncBasic, AncLeast

\* Ancestors are below, and only a block itself is at its own height.
LEMMA AncBelow ==
    ASSUME NEW b \in Blocks, NEW c \in Anc[b]
    PROVE  /\ Height[c] <= Height[b]
           /\ c # b => Height[c] < Height[b]
<1> DEFINE S == {x \in Blocks : x = b \/ Height[x] < Height[b]}
<1>1. S \in SUBSET Blocks /\ b \in S
  OBVIOUS
<1>2. ClosedUnderPrev(S)
  BY TreeFacts DEF ClosedUnderPrev
<1>3. c \in S
  BY <1>1, <1>2, AncLeast
<1> HIDE DEF S
<1> QED BY <1>3, TreeFacts DEF S

\* The trust of a chain grows from block to block.
LEMMA AncTrust ==
    ASSUME NEW b \in Blocks, NEW c \in Anc[b]
    PROVE  ChainTrust[c] <= ChainTrust[b]
<1> DEFINE S == {x \in Blocks : ChainTrust[x] <= ChainTrust[b]}
<1>1. S \in SUBSET Blocks /\ b \in S
  BY TreeFacts
<1>2. ClosedUnderPrev(S)
  BY TreeFacts DEF ClosedUnderPrev
<1> QED BY <1>1, <1>2, AncLeast

LEMMA NotOwnAncestor ==
    ASSUME NEW b \in Blocks \ {Genesis}
    PROVE  b \notin Anc[Prev[b]]
BY AncBelow, TreeFacts

LEMMA GenesisBelowAll ==
    ASSUME NEW b \in Blocks
    PROVE  Genesis \in Anc[b]
<1> DEFINE heights == {Height[x] : x \in Anc[b]}
<1>1. heights \subseteq Nat /\ heights # {}
  BY AncBasic, TreeFacts
<1>2. PICK h \in heights : \A k \in heights : <<k, h>> \notin OpToRel(<, Nat)
  BY <1>1, WFMin, NatLessThanWellFounded
<1>3. PICK x \in Anc[b] : h = Height[x]
  OBVIOUS
<1>4. SUFFICES ASSUME x # Genesis PROVE FALSE
  BY <1>3
<1>5. Prev[x] \in Anc[b] /\ x \in Blocks \ {Genesis}
  BY <1>3, <1>4, AncBasic
<1>6. Height[Prev[x]] \in heights /\ Height[Prev[x]] < h
  BY <1>3, <1>5, TreeFacts
<1> QED BY <1>1, <1>2, <1>6 DEF OpToRel

\* The ancestors of a block form a chain.
LEMMA AncTotal ==
    ASSUME NEW b \in Blocks, NEW c \in Anc[b], NEW d \in Anc[b]
    PROVE  c \in Anc[d] \/ d \in Anc[c]
<1> DEFINE S == {x \in Anc[b] : \A y \in Anc[b] : x \in Anc[y] \/ y \in Anc[x]}
<1>1. S \in SUBSET Blocks /\ b \in S
  BY AncBasic
<1>2. ClosedUnderPrev(S)
  <2> SUFFICES ASSUME NEW x \in S, x # Genesis PROVE Prev[x] \in S
    BY DEF ClosedUnderPrev
  <2>1. x \in Blocks \ {Genesis} /\ Prev[x] \in Anc[b] /\ Prev[x] \in Blocks
    BY AncBasic, TreeFacts
  <2>2. ASSUME NEW y \in Anc[b] PROVE Prev[x] \in Anc[y] \/ y \in Anc[Prev[x]]
    <3>1. y \in Blocks
      BY AncBasic
    <3>2. CASE x \in Anc[y]
      BY <2>1, <3>1, <3>2, AncBasic
    <3>3. CASE y \in Anc[x]
      <4>1. y = x \/ y \in Anc[Prev[x]]
        BY <2>1, <3>3, AncStep
      <4>2. CASE y = x
        BY <2>1, <4>2, AncBasic
      <4> QED BY <4>1, <4>2
    <3> QED BY <3>2, <3>3
  <2> QED BY <2>1, <2>2
<1>3. c \in S
  BY <1>1, <1>2, AncLeast
<1> QED BY <1>3

\* A chain has at most one block on top of each of its blocks.
LEMMA OneChild ==
    ASSUME NEW b \in Blocks, NEW c \in Anc[b] \ {Genesis}, NEW d \in Anc[b] \ {Genesis},
           Prev[c] = Prev[d]
    PROVE  c = d
<1>1. c \in Blocks \ {Genesis} /\ d \in Blocks \ {Genesis}
  BY AncBasic
<1>2. Height[c] = Height[d]
  BY <1>1, TreeFacts
<1>3. c \in Anc[d] \/ d \in Anc[c]
  BY AncTotal
<1> QED BY <1>1, <1>2, <1>3, AncBelow, TreeFacts

\* A block below another has a child on the way to it.
LEMMA ChildOnChain ==
    ASSUME NEW t \in Blocks, NEW b \in Anc[t], b # t
    PROVE  \E c \in Anc[t] \ {Genesis} : Prev[c] = b /\ c \notin Anc[b]
<1>1. SUFFICES ASSUME \A c \in Anc[t] \ {Genesis} : Prev[c] # b PROVE FALSE
  BY NotOwnAncestor, AncBasic
<1> DEFINE S == Anc[t] \ {b}
<1>2. S \in SUBSET Blocks /\ t \in S /\ ClosedUnderPrev(S)
  BY <1>1, AncBasic DEF ClosedUnderPrev
<1> QED BY <1>2, AncLeast
=============================================================================
