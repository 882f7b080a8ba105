------------------------- MODULE CompactBatchProofs -------------------------
(***************************************************************************)
(* The shared graph of a batch of configurations, for every batch, source  *)
(* tree and truncation of the content IDs.                                 *)
(*                                                                         *)
(* A configuration's variants are a function of the configuration alone    *)
(* (own): the recursion of variantForStack ends because the objects below  *)
(* one get fewer members below them.  The invariant OwnInv says that memo  *)
(* and graph hold just these, SourcesInv that everything in the graph      *)
(* comes from a configuration that has joined it.  By induction on the     *)
(* depth of an object its content ID tells apart what its action does;     *)
(* that gives the three properties of CompactBatch.                        *)
(*                                                                         *)
(* The rules of the BUILD files (ActionGroups) follow: a group is          *)
(* determined by the key of any of its targets (groupFor), so the groups   *)
(* split what is reached, and the plan splits each group.                  *)
(***************************************************************************)
EXTENDS ActionGroups, FiniteSetTheorems, SequenceTheorems, WellFoundedInduction, TLAPS

-----------------------------------------------------------------------------
(* Numbers. *)

(* A set of numbers has a least element. *)
LEMMA LeastElement ==
    ASSUME NEW T, T \subseteq Nat, T # {}
    PROVE \E m \in T : \A n \in T : m <= n
<1> DEFINE upTo(n) == {k \in Nat : k < n}
           C == {upTo(n) : n \in T}
           R == StrictSubsetOrdering(Nat)
<1>1. IsWellFoundedOn(R, FiniteSubsetsOf(Nat))
  BY FS_StrictSubsetOrderingWellFounded
<1>2. \A n \in T : IsFiniteSet(upTo(n))
  <2> SUFFICES ASSUME NEW n \in T PROVE IsFiniteSet(upTo(n))
    OBVIOUS
  <2>1. upTo(n) \in SUBSET Nat /\ n \in Nat /\ \A k \in upTo(n) : k <= n
    OBVIOUS
  <2>2. QED
    BY <2>1, FS_BoundedSetOfNaturals
<1>3. C \subseteq FiniteSubsetsOf(Nat) /\ C # {}
  BY <1>2 DEF FiniteSubsetsOf
<1>4. PICK M \in C : \A N \in C : ~(<<N, M>> \in R)
  <2> HIDE DEF C, R
  <2>1. QED
    BY <1>1, <1>3, WFMin
<1>5. PICK m \in T : M = upTo(m)
  OBVIOUS
<1>6. ASSUME NEW n \in T, n < m PROVE FALSE
  <2>1. upTo(n) \in C /\ upTo(n) \subseteq upTo(m) /\ n \in upTo(m) /\ n \notin upTo(n)
    BY <1>6
  <2>2. <<upTo(n), M>> \in R
    BY <1>5, <2>1 DEF StrictSubsetOrdering
  <2>3. QED
    BY <1>4, <2>1, <2>2
<1>7. QED
  BY <1>6

(* Numbers closed under successor are all of them. *)
LEMMA EveryNumber ==
    ASSUME NEW A, 0 \in A, \A n \in Nat : n \in A => n + 1 \in A
    PROVE Nat \subseteq A
<1>1. SUFFICES ASSUME Nat \ A # {} PROVE FALSE
  OBVIOUS
<1>2. PICK m \in Nat \ A : \A n \in Nat \ A : m <= n
  <2>1. (Nat \ A) \subseteq Nat
    OBVIOUS
  <2>2. QED
    BY <1>1, <2>1, LeastElement
<1>3. m \in Nat /\ m # 0
  OBVIOUS
<1>4. m - 1 \in Nat /\ (m - 1) + 1 = m /\ ~(m <= m - 1)
  BY <1>3
<1>5. m - 1 \in A
  BY <1>2, <1>4
<1>6. QED
  BY <1>4, <1>5

-----------------------------------------------------------------------------
(* Walks along a graph. *)

growth(next, seen) == seen \cup UNION {next[x] : x \in seen \cap DOMAIN next}

(* The walk of visitedFrom, step by step. *)
LEMMA WalkUnfolds ==
  ASSUME NEW next, IsFiniteSet(DOMAIN next), NEW from
  PROVE  \E f : /\ visitedFrom(next, from) = f[Cardinality(DOMAIN next)]
                /\ \A n \in 0..Cardinality(DOMAIN next) :
                      f[n] = IF n = 0 THEN from ELSE growth(next, f[n - 1])
<1>. DEFINE N == Cardinality(DOMAIN next)
            Step(f, n) == IF n = 0 THEN from ELSE growth(next, f[n - 1])
            Solves(f, m) == \A n \in 0..N : n < m => f[n] = Step(f, n)
            IsWalk(f) == f = [n \in 0..N |-> Step(f, n)]
            A == {m \in Nat : \E f : f = [n \in 0..N |-> f[n]] /\ Solves(f, m)}
<1>1. N \in Nat
  BY FS_CardinalityType
<1>. HIDE DEF N
<1>2. 0 \in A
  <2>. DEFINE f == [n \in 0..N |-> {}]
  <2>1. f = [n \in 0..N |-> f[n]] /\ Solves(f, 0)
    BY <1>1
  <2>. QED  BY <2>1
<1>3. ASSUME NEW m \in Nat, m \in A  PROVE m + 1 \in A
  <2>1. PICK f : f = [n \in 0..N |-> f[n]] /\ Solves(f, m)
    BY <1>3
  <2>. DEFINE g == [n \in 0..N |-> Step(f, n)]
  <2>2. ASSUME NEW n \in 0..N, n < m  PROVE g[n] = f[n]
    BY <2>1, <2>2
  <2>3. ASSUME NEW n \in 0..N, n < m + 1  PROVE g[n] = Step(g, n)
    <3>1. CASE n = 0
      BY <3>1
    <3>2. CASE n # 0
      <4>1. n - 1 \in 0..N /\ n - 1 < m
        BY <1>1, <2>3, <3>2
      <4>2. g[n] = growth(next, f[n - 1])
        BY <3>2
      <4>3. f[n - 1] = g[n - 1]
        BY <4>1, <2>2
      <4>. HIDE DEF g
      <4>. QED  BY <3>2, <4>2, <4>3
    <3>. QED  BY <3>1, <3>2
  <2>4. g = [n \in 0..N |-> g[n]]
    OBVIOUS
  <2>5. Solves(g, m + 1)
    BY <2>3
  <2>6. m + 1 \in Nat /\ \E h : h = [n \in 0..N |-> h[n]] /\ Solves(h, m + 1)
    <3>1. m + 1 \in Nat
      OBVIOUS
    <3>. HIDE DEF g, Solves
    <3>2. \E h : h = [n \in 0..N |-> h[n]] /\ Solves(h, m + 1)
      <4>. WITNESS g
      <4>. QED  BY <2>4, <2>5
    <3>. QED  BY <3>1, <3>2
  <2>. HIDE DEF g, Solves
  <2>. QED  BY <2>6
<1>4. N + 1 \in A
  <2>. HIDE DEF A
  <2>. QED  BY <1>1, <1>2, <1>3, EveryNumber
<1>5. PICK f : f = [n \in 0..N |-> f[n]] /\ Solves(f, N + 1)
  BY <1>4
<1>6. IsWalk(f)
  <2>1. \A n \in 0..N : n < N + 1
    BY <1>1
  <2>. QED  BY <1>5, <2>1
<1>. DEFINE w == CHOOSE h : IsWalk(h)
<1>7. IsWalk(w)
  BY <1>6
<1>8. visitedFrom(next, from) = w[N]
  BY DEF visitedFrom, growth, N
<1>9. \A n \in 0..N : w[n] = Step(w, n)
  <2>. HIDE DEF w
  <2>. QED  BY <1>7
<1>. HIDE DEF w
<1>. QED  BY <1>8, <1>9 DEF N

closedUnder(next, S) == \A x \in S \cap DOMAIN next : next[x] \subseteq S

(* What a walk visits is the smallest set around its start that it cannot *)
(* leave: it has as many steps as there are places to go on from.         *)
LEMMA VisitedIsClosure ==
  ASSUME NEW next, IsFiniteSet(DOMAIN next), NEW from
  PROVE  /\ from \subseteq visitedFrom(next, from)
         /\ closedUnder(next, visitedFrom(next, from))
         /\ \A S : from \subseteq S /\ closedUnder(next, S) => visitedFrom(next, from) \subseteq S
<1>. DEFINE D == DOMAIN next
            N == Cardinality(D)
<1>1. PICK f : /\ visitedFrom(next, from) = f[N]
               /\ \A n \in 0..N : f[n] = IF n = 0 THEN from ELSE growth(next, f[n - 1])
  BY WalkUnfolds
<1>2. N \in Nat /\ IsFiniteSet(D)
  BY FS_CardinalityType
<1>. HIDE DEF N, D
<1>3. f[0] = from
  BY <1>1, <1>2
<1>4. \A n \in Nat : n + 1 \in 0..N => f[n + 1] = growth(next, f[n]) /\ n \in 0..N
  <2>. SUFFICES ASSUME NEW n \in Nat, n + 1 \in 0..N
                PROVE  f[n + 1] = growth(next, f[n]) /\ n \in 0..N
    OBVIOUS
  <2>1. n + 1 # 0 /\ (n + 1) - 1 = n /\ n \in 0..N
    BY <1>2
  <2>. QED  BY <1>1, <2>1
<1>5. \A n \in 0..N : from \subseteq f[n]
  <2>. DEFINE A == {n \in Nat : n \in 0..N => from \subseteq f[n]}
  <2>1. 0 \in A
    BY <1>3
  <2>2. ASSUME NEW n \in Nat, n \in A  PROVE n + 1 \in A
    BY <1>4, <2>2 DEF growth
  <2>. HIDE DEF A
  <2>3. Nat \subseteq A
    BY <2>1, <2>2, EveryNumber
  <2>. QED  BY <2>3, <1>2 DEF A
<1>6. ASSUME NEW S, from \subseteq S, closedUnder(next, S)
      PROVE  \A n \in 0..N : f[n] \subseteq S
  <2>. DEFINE A == {n \in Nat : n \in 0..N => f[n] \subseteq S}
  <2>1. 0 \in A
    BY <1>3, <1>6
  <2>2. ASSUME NEW n \in Nat, n \in A  PROVE n + 1 \in A
    <3>1. ASSUME n + 1 \in 0..N  PROVE f[n + 1] \subseteq S
      <4>1. f[n] \subseteq S /\ f[n + 1] = growth(next, f[n])
        BY <2>2, <3>1, <1>4
      <4>. QED  BY <4>1, <1>6 DEF growth, closedUnder
    <3>. QED  BY <3>1
  <2>. HIDE DEF A
  <2>3. Nat \subseteq A
    BY <2>1, <2>2, EveryNumber
  <2>. QED  BY <2>3, <1>2 DEF A
<1>. DEFINE open(n) == ~closedUnder(next, f[n])
<1>7. \A n \in Nat : n \in 0..N /\ open(n) => Cardinality(f[n] \cap D) >= n + 1
  <2>. DEFINE A == {n \in Nat : n \in 0..N /\ open(n) => Cardinality(f[n] \cap D) >= n + 1}
  <2>0. \A n : IsFiniteSet(f[n] \cap D) /\ Cardinality(f[n] \cap D) \in Nat
    BY <1>2, FS_Intersection, FS_CardinalityType
  <2>1. 0 \in A
    <3>1. ASSUME open(0)  PROVE Cardinality(f[0] \cap D) >= 1
      <4>1. f[0] \cap D # {}
        BY <3>1 DEF closedUnder, D
      <4>2. Cardinality(f[0] \cap D) # 0 /\ Cardinality(f[0] \cap D) \in Nat
        BY <4>1, <2>0, FS_EmptySet
      <4>. QED  BY <4>2
    <3>. QED  BY <3>1
  <2>2. ASSUME NEW n \in Nat, n \in A  PROVE n + 1 \in A
    <3>1. ASSUME n + 1 \in 0..N, open(n + 1)  PROVE Cardinality(f[n + 1] \cap D) >= n + 2
      <4>1. f[n + 1] = growth(next, f[n]) /\ n \in 0..N
        BY <3>1, <1>4
      <4>2. PICK x \in f[n + 1] \cap D : ~(next[x] \subseteq f[n + 1])
        BY <3>1 DEF closedUnder, D
      <4>3. x \notin f[n]
        BY <4>1, <4>2 DEF growth, D
      <4>4. open(n)
        BY <4>1, <4>2, <4>3 DEF growth, closedUnder, D
      <4>5. Cardinality(f[n] \cap D) >= n + 1
        BY <4>1, <4>4, <2>2
      <4>6. Cardinality((f[n] \cap D) \cup {x}) = Cardinality(f[n] \cap D) + 1
        <5>1. x \notin f[n] \cap D
          BY <4>3
        <5>. QED  BY <5>1, <2>0, FS_AddElement
      <4>7. (f[n] \cap D) \cup {x} \in SUBSET (f[n + 1] \cap D)
        BY <4>1, <4>2 DEF growth
      <4>8. Cardinality((f[n] \cap D) \cup {x}) <= Cardinality(f[n + 1] \cap D)
        BY <4>7, <2>0, FS_Subset
      <4>9. Cardinality(f[n] \cap D) \in Nat /\ Cardinality(f[n + 1] \cap D) \in Nat
        BY <2>0
      <4>. HIDE DEF D
      <4>. QED  BY <4>5, <4>6, <4>8, <4>9
    <3>. HIDE DEF open
    <3>. QED  BY <3>1
  <2>. HIDE DEF A
  <2>3. Nat \subseteq A
    BY <2>1, <2>2, EveryNumber
  <2>. QED  BY <2>3 DEF A
<1>8. closedUnder(next, f[N])
  <2>1. SUFFICES ASSUME open(N)  PROVE FALSE
    OBVIOUS
  <2>2. N \in 0..N
    BY <1>2
  <2>3. Cardinality(f[N] \cap D) >= N + 1
    BY <1>2, <1>7, <2>1, <2>2
  <2>4. Cardinality(f[N] \cap D) <= N /\ Cardinality(f[N] \cap D) \in Nat
    <3>1. f[N] \cap D \in SUBSET D
      OBVIOUS
    <3>. QED  BY <3>1, <1>2, FS_Subset, FS_CardinalityType DEF N
  <2>. QED  BY <1>2, <2>3, <2>4
<1>9. N \in 0..N
  BY <1>2
<1>. QED  BY <1>1, <1>5, <1>6, <1>8, <1>9

-----------------------------------------------------------------------------
(* Depth of an object in its configuration. *)

(* Objects that variantForStack gets to the end of: a set of the graph that *)
(* nothing leaves and in which no object is a member of itself.             *)
sound(cfg, S) ==
    /\ S \subseteq DOMAIN cfg.objects
    /\ \A x \in S : children(cfg, x) \subseteq S /\ x \notin membersBelow(cfg, x)

depth(cfg, x) == IF children(cfg, x) = {} THEN 0 ELSE Cardinality(membersBelow(cfg, x)) + 1

(* The members below an object: its own, and theirs in turn. *)
LEMMA MembersBelowIsClosure ==
  ASSUME NEW cfg, WellFormedConfig(cfg), NEW x \in DOMAIN cfg.objects
  PROVE  /\ membersOf(cfg, x) \subseteq membersBelow(cfg, x)
         /\ \A d \in membersBelow(cfg, x) \cap DOMAIN cfg.objects :
               membersOf(cfg, d) \subseteq membersBelow(cfg, x)
         /\ \A S : /\ membersOf(cfg, x) \subseteq S
                   /\ \A d \in S \cap DOMAIN cfg.objects : membersOf(cfg, d) \subseteq S
                   => membersBelow(cfg, x) \subseteq S
<1>. DEFINE next == [y \in DOMAIN cfg.objects |-> membersOf(cfg, y)]
<1>1. IsFiniteSet(DOMAIN next) /\ DOMAIN next = DOMAIN cfg.objects
  BY DEF WellFormedConfig
<1>2. \A y \in DOMAIN cfg.objects : next[y] = membersOf(cfg, y)
  OBVIOUS
<1>3. membersBelow(cfg, x) = visitedFrom(next, membersOf(cfg, x))
  BY DEF membersBelow
<1>. HIDE DEF next
<1>. QED  BY <1>1, <1>2, <1>3, VisitedIsClosure DEF closedUnder

(* The objects below an object: itself, and what they are built from in turn. *)
LEMMA BelowIsClosure ==
  ASSUME NEW cfg, WellFormedConfig(cfg), NEW o
  PROVE  /\ o \in below(cfg, o)
         /\ \A x \in below(cfg, o) \cap DOMAIN cfg.objects : children(cfg, x) \subseteq below(cfg, o)
         /\ \A S : /\ o \in S
                   /\ \A x \in S \cap DOMAIN cfg.objects : children(cfg, x) \subseteq S
                   => below(cfg, o) \subseteq S
<1>. DEFINE next == [y \in DOMAIN cfg.objects |-> children(cfg, y)]
<1>1. IsFiniteSet(DOMAIN next) /\ DOMAIN next = DOMAIN cfg.objects
  BY DEF WellFormedConfig
<1>2. \A y \in DOMAIN cfg.objects : next[y] = children(cfg, y)
  OBVIOUS
<1>3. below(cfg, o) = visitedFrom(next, {o})
  BY DEF below
<1>. HIDE DEF next
<1>. QED  BY <1>1, <1>2, <1>3, VisitedIsClosure DEF closedUnder

(* The depth of an object is a number, less than that of the objects it is *)
(* built for.                                                              *)
LEMMA DepthFalls ==
  ASSUME NEW cfg, WellFormedConfig(cfg), NEW S, sound(cfg, S)
  PROVE  /\ \A x \in S : depth(cfg, x) \in Nat /\ depth(cfg, x) <= Cardinality(DOMAIN cfg.objects) + 1
         /\ \A x \in S : \A d \in children(cfg, x) : d \in S /\ depth(cfg, d) < depth(cfg, x)
         /\ Cardinality(DOMAIN cfg.objects) \in Nat
<1>. DEFINE D == DOMAIN cfg.objects
<1>1. IsFiniteSet(D) /\ S \subseteq D /\ Cardinality(D) \in Nat
  BY FS_CardinalityType DEF WellFormedConfig, sound
<1>2. \A x \in S : membersOf(cfg, x) \subseteq S
  BY DEF sound, children
<1>3. \A x \in S : membersBelow(cfg, x) \subseteq S
  BY <1>1, <1>2, MembersBelowIsClosure
<1>4. \A x \in S : /\ IsFiniteSet(membersBelow(cfg, x))
                   /\ Cardinality(membersBelow(cfg, x)) \in Nat
                   /\ Cardinality(membersBelow(cfg, x)) <= Cardinality(D)
  <2>. TAKE x \in S
  <2>1. membersBelow(cfg, x) \in SUBSET D
    BY <1>1, <1>3
  <2>. QED  BY <2>1, <1>1, FS_Subset, FS_CardinalityType
<1>. HIDE DEF D
<1>5. \A x \in S : depth(cfg, x) \in Nat /\ depth(cfg, x) <= Cardinality(D) + 1
  BY <1>1, <1>4 DEF depth
<1>6. ASSUME NEW x \in S, NEW d \in children(cfg, x)
      PROVE  d \in S /\ depth(cfg, d) < depth(cfg, x)
  <2>1. d \in S /\ x \in D /\ d \in D
    BY <1>1, <1>6 DEF sound
  <2>2. depth(cfg, x) = Cardinality(membersBelow(cfg, x)) + 1
    BY <1>6 DEF depth
  <2>3. CASE children(cfg, d) = {}
    <3>1. depth(cfg, d) = 0
      BY <2>3 DEF depth
    <3>. QED  BY <2>1, <2>2, <3>1, <1>4
  <2>4. CASE children(cfg, d) # {}
    <3>1. d \in membersOf(cfg, x)
      BY <2>1, <2>4, <1>6 DEF WellFormedConfig, children, D
    <3>2. membersBelow(cfg, d) \subseteq membersBelow(cfg, x) /\ d \in membersBelow(cfg, x)
      <4>1. d \in membersBelow(cfg, x) /\ membersOf(cfg, d) \subseteq membersBelow(cfg, x)
        BY <2>1, <3>1, MembersBelowIsClosure DEF D
      <4>2. \A e \in membersBelow(cfg, x) \cap DOMAIN cfg.objects :
              membersOf(cfg, e) \subseteq membersBelow(cfg, x)
        BY <2>1, MembersBelowIsClosure DEF D
      <4>. QED  BY <2>1, <4>1, <4>2, MembersBelowIsClosure DEF D
    <3>3. d \notin membersBelow(cfg, d)
      BY <2>1 DEF sound
    <3>4. membersBelow(cfg, d) \in SUBSET membersBelow(cfg, x)
          /\ membersBelow(cfg, d) # membersBelow(cfg, x)
      BY <3>2, <3>3
    <3>5. Cardinality(membersBelow(cfg, d)) <= Cardinality(membersBelow(cfg, x))
          /\ Cardinality(membersBelow(cfg, d)) # Cardinality(membersBelow(cfg, x))
      BY <3>4, <1>4, FS_Subset
    <3>6. depth(cfg, d) = Cardinality(membersBelow(cfg, d)) + 1
      BY <2>4 DEF depth
    <3>. QED  BY <2>1, <2>2, <3>5, <3>6, <1>4
  <2>. QED  BY <2>3, <2>4
<1>. QED  BY <1>1, <1>5, <1>6 DEF D

(* What an object that is not refused needs. *)
LEMMA UnrefusedIsSound ==
  ASSUME NEW cfg, WellFormedConfig(cfg), NEW o, ~variantRefused(cfg, o)
  PROVE  sound(cfg, below(cfg, o))
<1>1. \A x \in below(cfg, o) : x \in DOMAIN cfg.objects /\ x \notin membersBelow(cfg, x)
  BY DEF variantRefused, refusedHere
<1>. QED  BY <1>1, BelowIsClosure DEF sound

(* What is below an object that is below another is below that one. *)
LEMMA BelowIsTransitive ==
  ASSUME NEW cfg, WellFormedConfig(cfg), NEW o, NEW x \in below(cfg, o)
  PROVE  below(cfg, x) \subseteq below(cfg, o)
<1>1. \A y \in below(cfg, o) \cap DOMAIN cfg.objects : children(cfg, y) \subseteq below(cfg, o)
  BY BelowIsClosure
<1>. QED  BY <1>1, BelowIsClosure

(* An object below one that can be compiled can be compiled. *)
LEMMA RefusedBelow ==
  ASSUME NEW cfg, WellFormedConfig(cfg), NEW o, ~variantRefused(cfg, o), NEW x \in below(cfg, o)
  PROVE  ~variantRefused(cfg, x)
BY BelowIsTransitive DEF variantRefused

-----------------------------------------------------------------------------
(* Variants of one configuration. *)

(* The variant of an object, from those of the objects it is built from. *)
builtFrom(cfg, x, v) ==
    variant(cfg, x, {v[d] : d \in asn1Deps(cfg, x)},
            [i \in DOMAIN cfg.objects[x].members |-> v[cfg.objects[x].members[i]]])

own(cfg, o) == variantsBelow(cfg, <<>>, o)[o]

(* What a composite lists is a member of it. *)
LEMMA MemberIsChild ==
  ASSUME NEW cfg, NEW x, NEW i \in DOMAIN cfg.objects[x].members
  PROVE  cfg.objects[x].members[i] \in membersOf(cfg, x)
BY DEF membersOf, ToSet

(* Only the children's variants matter to an object's own. *)
LEMMA BuiltFromChildren ==
  ASSUME NEW cfg, NEW x, NEW v, NEW w, \A d \in children(cfg, x) : v[d] = w[d]
  PROVE  builtFrom(cfg, x, v) = builtFrom(cfg, x, w)
<1>1. {v[d] : d \in asn1Deps(cfg, x)} = {w[d] : d \in asn1Deps(cfg, x)}
  BY DEF children
<1>2. \A i \in DOMAIN cfg.objects[x].members :
        v[cfg.objects[x].members[i]] = w[cfg.objects[x].members[i]]
  BY MemberIsChild DEF children
<1>3. [i \in DOMAIN cfg.objects[x].members |-> v[cfg.objects[x].members[i]]]
        = [i \in DOMAIN cfg.objects[x].members |-> w[cfg.objects[x].members[i]]]
  BY <1>2
<1>. QED  BY <1>1, <1>3 DEF builtFrom

(* variantsBelow is defined on a sound set: every object gets the variant of *)
(* the memo or the one made of its children's.                               *)
LEMMA VariantsUnfold ==
  ASSUME NEW cfg, WellFormedConfig(cfg), NEW seen, NEW o, ~variantRefused(cfg, o)
  PROVE  /\ DOMAIN variantsBelow(cfg, seen, o) = below(cfg, o)
         /\ \A x \in below(cfg, o) :
               variantsBelow(cfg, seen, o)[x] =
                 IF x \in DOMAIN seen THEN seen[x]
                 ELSE builtFrom(cfg, x, variantsBelow(cfg, seen, o))
<1>. DEFINE S == below(cfg, o)
            N == Cardinality(DOMAIN cfg.objects) + 2
            At(f, x) == IF x \in DOMAIN seen THEN seen[x] ELSE builtFrom(cfg, x, f)
            Solves(f, n) == \A x \in S : depth(cfg, x) < n => f[x] = At(f, x)
            IsVariants(f) == f = [x \in S |-> At(f, x)]
            A == {n \in Nat : \E f : f = [x \in S |-> f[x]] /\ Solves(f, n)}
<1>1. /\ N \in Nat
      /\ \A x \in S : depth(cfg, x) \in Nat /\ depth(cfg, x) < N
      /\ \A x \in S : \A d \in children(cfg, x) : d \in S /\ depth(cfg, d) < depth(cfg, x)
  <2>1. sound(cfg, S)
    BY UnrefusedIsSound
  <2>. HIDE DEF S
  <2>2. /\ \A x \in S : depth(cfg, x) \in Nat /\ depth(cfg, x) <= Cardinality(DOMAIN cfg.objects) + 1
        /\ \A x \in S : \A d \in children(cfg, x) : d \in S /\ depth(cfg, d) < depth(cfg, x)
        /\ Cardinality(DOMAIN cfg.objects) \in Nat
    BY <2>1, DepthFalls
  <2>. QED  BY <2>2
<1>. HIDE DEF S, N
<1>2. 0 \in A
  <2>. DEFINE f == [x \in S |-> 0]
  <2>1. f = [x \in S |-> f[x]] /\ Solves(f, 0)
    BY <1>1
  <2>. QED  BY <2>1
<1>3. ASSUME NEW n \in Nat, n \in A  PROVE n + 1 \in A
  <2>1. PICK f : f = [x \in S |-> f[x]] /\ Solves(f, n)
    BY <1>3
  <2>. DEFINE g == [x \in S |-> At(f, x)]
  <2>2. ASSUME NEW x \in S, depth(cfg, x) < n  PROVE g[x] = f[x]
    BY <2>1, <2>2
  <2>3. ASSUME NEW x \in S, depth(cfg, x) < n + 1  PROVE g[x] = At(g, x)
    <3>1. \A d \in children(cfg, x) : f[d] = g[d]
      <4>. SUFFICES ASSUME NEW d \in children(cfg, x)  PROVE f[d] = g[d]
        OBVIOUS
      <4>1. d \in S /\ depth(cfg, d) < depth(cfg, x) /\ depth(cfg, d) \in Nat /\ depth(cfg, x) \in Nat
        BY <1>1
      <4>2. depth(cfg, d) < n
        BY <2>3, <4>1
      <4>. QED  BY <2>2, <4>1, <4>2
    <3>2. g[x] = At(f, x)
      OBVIOUS
    <3>. HIDE DEF g
    <3>. QED  BY <3>1, <3>2, BuiltFromChildren
  <2>4. g = [x \in S |-> g[x]]
    OBVIOUS
  <2>5. Solves(g, n + 1)
    BY <2>3
  <2>. HIDE DEF g, Solves
  <2>. QED  BY <2>4, <2>5
<1>4. N \in A
  <2>. HIDE DEF A
  <2>. QED  BY <1>1, <1>2, <1>3, EveryNumber
<1>5. PICK f : f = [x \in S |-> f[x]] /\ Solves(f, N)
  BY <1>4
<1>6. IsVariants(f)
  BY <1>1, <1>5
<1>7. variantsBelow(cfg, seen, o) = CHOOSE h : IsVariants(h)
  BY DEF variantsBelow, builtFrom, S
<1>8. IsVariants(variantsBelow(cfg, seen, o))
  BY <1>6, <1>7
<1>. QED  BY <1>8 DEF S

(* The variants below two objects agree where both are. *)
LEMMA VariantsAgree ==
  ASSUME NEW cfg, WellFormedConfig(cfg), NEW o, ~variantRefused(cfg, o), NEW x \in below(cfg, o)
  PROVE  variantsBelow(cfg, <<>>, o)[x] = own(cfg, x)
<1>. DEFINE S == below(cfg, o)
            T == below(cfg, x)
            v == variantsBelow(cfg, <<>>, o)
            w == variantsBelow(cfg, <<>>, x)
            differ == {y \in T : v[y] # w[y]}
            D == {depth(cfg, y) : y \in differ}
<1>1. ~variantRefused(cfg, x) /\ T \subseteq S
  BY RefusedBelow, BelowIsTransitive
<1>2. x \in T
  BY BelowIsClosure
<1>3. \A y \in T : v[y] = builtFrom(cfg, y, v)
  BY <1>1, VariantsUnfold
<1>4. \A y \in T : w[y] = builtFrom(cfg, y, w)
  BY <1>1, VariantsUnfold
<1>5. \A y \in T : depth(cfg, y) \in Nat /\ \A d \in children(cfg, y) : d \in T /\ depth(cfg, d) < depth(cfg, y)
  <2>1. sound(cfg, T)
    BY <1>1, UnrefusedIsSound
  <2>. HIDE DEF T
  <2>. QED  BY <2>1, DepthFalls
<1>. HIDE DEF T, v, w
<1>6. differ = {}
  <2>. SUFFICES ASSUME differ # {}  PROVE FALSE
    OBVIOUS
  <2>1. D \subseteq Nat /\ D # {}
    BY <1>5
  <2>2. PICK m \in D : \A n \in D : m <= n
    <3>. HIDE DEF D
    <3>. QED  BY <2>1, LeastElement
  <2>3. PICK y \in differ : m = depth(cfg, y)
    OBVIOUS
  <2>4. \A d \in children(cfg, y) : v[d] = w[d]
    <3>. SUFFICES ASSUME NEW d \in children(cfg, y), v[d] # w[d]  PROVE FALSE
      OBVIOUS
    <3>1. d \in T /\ depth(cfg, d) < depth(cfg, y) /\ depth(cfg, d) \in Nat /\ depth(cfg, y) \in Nat
      BY <1>5, <2>3
    <3>2. depth(cfg, d) \in D
      BY <3>1
    <3>3. depth(cfg, y) <= depth(cfg, d)
      BY <2>2, <2>3, <3>2
    <3>. QED  BY <3>1, <3>3
  <2>5. builtFrom(cfg, y, v) = builtFrom(cfg, y, w)
    BY <2>4, BuiltFromChildren
  <2>. QED  BY <1>3, <1>4, <2>3, <2>5
<1>. QED  BY <1>2, <1>6 DEF own, T, v, w

(* What a configuration makes of an object on its own is made of what it makes *)
(* of the object's children.                                                   *)
LEMMA OwnUnfolds ==
  ASSUME NEW cfg, WellFormedConfig(cfg), NEW o, ~variantRefused(cfg, o), NEW v,
         \A d \in children(cfg, o) : v[d] = own(cfg, d)
  PROVE  own(cfg, o) = builtFrom(cfg, o, v)
<1>1. o \in below(cfg, o) /\ o \in DOMAIN cfg.objects
  BY BelowIsClosure, UnrefusedIsSound DEF sound
<1>2. children(cfg, o) \subseteq below(cfg, o)
  BY <1>1, BelowIsClosure
<1>3. \A d \in children(cfg, o) : variantsBelow(cfg, <<>>, o)[d] = v[d]
  BY <1>2, VariantsAgree
<1>4. own(cfg, o) = builtFrom(cfg, o, variantsBelow(cfg, <<>>, o))
  BY <1>1, VariantsUnfold DEF own
<1>. QED  BY <1>3, <1>4, BuiltFromChildren

(* A memo that holds the configuration's own variants changes nothing. *)
LEMMA MemoAgrees ==
  ASSUME NEW cfg, WellFormedConfig(cfg), NEW o, ~variantRefused(cfg, o), NEW seen,
         \A x \in DOMAIN seen : seen[x] = own(cfg, x)
  PROVE  \A x \in below(cfg, o) : variantsBelow(cfg, seen, o)[x] = own(cfg, x)
<1>. DEFINE S == below(cfg, o)
            v == variantsBelow(cfg, seen, o)
            differ == {y \in S : v[y] # own(cfg, y)}
            D == {depth(cfg, y) : y \in differ}
<1>1. \A y \in S : v[y] = IF y \in DOMAIN seen THEN seen[y] ELSE builtFrom(cfg, y, v)
  BY VariantsUnfold
<1>2. \A y \in S : depth(cfg, y) \in Nat /\ \A d \in children(cfg, y) : d \in S /\ depth(cfg, d) < depth(cfg, y)
  <2>1. sound(cfg, S)
    BY UnrefusedIsSound
  <2>. HIDE DEF S
  <2>. QED  BY <2>1, DepthFalls
<1>3. \A y \in S : ~variantRefused(cfg, y)
  BY RefusedBelow
<1>. HIDE DEF S, v
<1>4. differ = {}
  <2>. SUFFICES ASSUME differ # {}  PROVE FALSE
    OBVIOUS
  <2>1. D \subseteq Nat /\ D # {}
    BY <1>2
  <2>2. PICK m \in D : \A n \in D : m <= n
    <3>. HIDE DEF D
    <3>. QED  BY <2>1, LeastElement
  <2>3. PICK y \in differ : m = depth(cfg, y)
    OBVIOUS
  <2>4. \A d \in children(cfg, y) : v[d] = own(cfg, d)
    <3>. SUFFICES ASSUME NEW d \in children(cfg, y), v[d] # own(cfg, d)  PROVE FALSE
      OBVIOUS
    <3>1. d \in S /\ depth(cfg, d) < depth(cfg, y) /\ depth(cfg, d) \in Nat /\ depth(cfg, y) \in Nat
      BY <1>2, <2>3
    <3>2. depth(cfg, d) \in D
      BY <3>1
    <3>3. depth(cfg, y) <= depth(cfg, d)
      BY <2>2, <2>3, <3>2
    <3>. QED  BY <3>1, <3>3
  <2>5. own(cfg, y) = builtFrom(cfg, y, v)
    BY <1>3, <2>3, <2>4, OwnUnfolds
  <2>. QED  BY <1>1, <2>3, <2>5
<1>. QED  BY <1>4 DEF S, v

-----------------------------------------------------------------------------
(* EachConfigItsOwn: the graph and the memo hold what a configuration makes on its own. *)

(* What out.Configs gets for a configuration on its own. *)
projected(cfg) ==
    [name |-> cfg.name, image |-> cfg.image,
     targets |-> imageTargets(cfg, alone(cfg)), modules |-> moduleTargets(cfg, alone(cfg))]

(* The graph has the configuration's own variant of the object. *)
Holds(cfg, o) ==
    /\ ~variantRefused(cfg, o)
    /\ own(cfg, o).target \in DOMAIN variants
    /\ variants[own(cfg, o).target] = own(cfg, o)

ConfigsOK ==
    /\ batch \in Batches
    /\ Len(configs) \in 0..Len(batch)
    /\ configs = [i \in 1..Len(configs) |-> projected(batch[i])]
    /\ phase = "objects" => Len(configs) < Len(batch)
    /\ phase \in {"metadata", "done"} => Len(configs) = Len(batch)

VariantsOK == \A i \in 1..Len(configs) : \A o \in compiledObjects(batch[i]) : Holds(batch[i], o)

MemoOK ==
    phase = "objects" =>
      /\ todo \subseteq compiledObjects(current)
      /\ memo = [x \in UNION {below(current, o) : o \in compiledObjects(current) \ todo} |->
                   own(current, x)]
      /\ \A o \in compiledObjects(current) \ todo : Holds(current, o)

OwnInv == ConfigsOK /\ VariantsOK /\ MemoOK

(* A batch is a list of well-formed configurations. *)
LEMMA ConfigsOfBatch ==
  ASSUME NEW b \in Batches
  PROVE  /\ Len(b) \in Nat /\ DOMAIN b = 1..Len(b)
         /\ \A i \in 1..Len(b) : WellFormedConfig(b[i])
<1>1. b \in Seq(ToSet(b)) /\ \A i \in DOMAIN b : WellFormedConfig(b[i])
  BY BatchesAssumption
<1>2. Len(b) \in Nat /\ DOMAIN b = 1..Len(b)
  BY <1>1, LenProperties
<1>. QED  BY <1>1, <1>2

(* The invariant holds at the start, *)
LEMMA OwnInit == Init => OwnInv
<1>. SUFFICES ASSUME Init  PROVE OwnInv
  OBVIOUS
<1>1. batch \in Batches /\ configs = <<>> /\ phase = "start"
  BY DEF Init
<1>2. Len(configs) = 0 /\ Len(batch) \in Nat
  BY <1>1, ConfigsOfBatch
<1>3. configs = [i \in 1..Len(configs) |-> projected(batch[i])]
  <2>1. 1..Len(configs) = {}
    BY <1>2
  <2>2. <<>> \in Seq({}) /\ DOMAIN <<>> = {}
    BY EmptySeq
  <2>3. <<>> = [i \in {} |-> projected(batch[i])]
    BY <2>2
  <2>. QED  BY <1>1, <2>1, <2>3
<1>4. ConfigsOK
  BY <1>1, <1>2, <1>3 DEF ConfigsOK
<1>5. VariantsOK
  BY <1>2 DEF VariantsOK
<1>. QED  BY <1>1, <1>4, <1>5 DEF OwnInv, MemoOK

(* The configuration being resolved is the next one of the batch. *)
LEMMA CurrentIsNext ==
  ASSUME ConfigsOK, Len(configs) < Len(batch)
  PROVE  WellFormedConfig(current) /\ Len(configs) + 1 \in 1..Len(batch)
BY ConfigsOfBatch DEF ConfigsOK, current

(* an error changes nothing of the graph, *)
LEMMA OwnRefuse ==
  ASSUME OwnInv, Refuse  PROVE OwnInv'
BY DEF OwnInv, ConfigsOK, VariantsOK, MemoOK, Refuse, Holds, projected

(* a configuration starts with an empty memo, *)
LEMMA OwnResolve ==
  ASSUME OwnInv, ResolveConfig  PROVE OwnInv'
<1>1. CASE Refuse
  BY <1>1, OwnRefuse
<1>2. CASE ~Refuse
  <2>1. /\ Len(configs) < Len(batch)
        /\ todo' = compiledObjects(current) /\ memo' = <<>> /\ phase' = "objects"
        /\ UNCHANGED <<batch, variants, configs>>
    BY <1>2 DEF ResolveConfig
  <2>2. current' = current
    BY <2>1 DEF current
  <2>3. ConfigsOK'
    BY <2>1 DEF OwnInv, ConfigsOK, projected
  <2>4. VariantsOK'
    BY <2>1 DEF OwnInv, VariantsOK, Holds
  <2>5. MemoOK'
    <3>1. <<>> = [x \in {} |-> own(current, x)]
      <4>1. <<>> \in Seq({}) /\ DOMAIN <<>> = {}
        BY EmptySeq
      <4>. QED  BY <4>1
    <3>2. compiledObjects(current) \ todo' = {}
      BY <2>1
    <3>3. UNION {below(current, o) : o \in {}} = {}
      OBVIOUS
    <3>. QED  BY <2>1, <2>2, <3>1, <3>2, <3>3 DEF MemoOK
  <2>. QED  BY <2>3, <2>4, <2>5 DEF OwnInv
<1>. QED  BY <1>1, <1>2

(* What CompileObject stores, when it refuses nothing. *)
LEMMA CompiledStep ==
  ASSUME OwnInv, phase = "objects", NEW o \in todo, ~variantRefused(current, o),
         NEW compiled, compiled = variantsBelow(current, memo, o),
         Store(o, compiled, compiled[o]), ~Refuse
  PROVE  /\ \A x \in below(current, o) : compiled[x] = own(current, x)
         /\ memo' = [x \in DOMAIN memo \cup below(current, o) |-> own(current, x)]
         /\ own(current, o).target \notin DOMAIN variants
              \/ variants[own(current, o).target] = own(current, o)
         /\ variants' = [t \in DOMAIN variants \cup {own(current, o).target} |->
                           IF t = own(current, o).target THEN own(current, o) ELSE variants[t]]
         /\ ~digestsDiffer(own(current, o).fields.inputs)
         /\ files' = files \cup own(current, o).fields.inputs
         /\ todo' = todo \ {o}
         /\ UNCHANGED <<batch, phase, families, configs>>
<1>1. WellFormedConfig(current)
  BY CurrentIsNext DEF OwnInv, ConfigsOK
<1>2. \A x \in DOMAIN memo : memo[x] = own(current, x)
  BY DEF OwnInv, MemoOK
<1>3. \A x \in below(current, o) : compiled[x] = own(current, x)
  BY <1>1, <1>2, MemoAgrees
<1>4. DOMAIN compiled = below(current, o)
  BY <1>1, VariantsUnfold
<1>5. compiled[o] = own(current, o)
  BY <1>1, <1>3, BelowIsClosure
<1>6. /\ ~digestsDiffer(compiled[o].fields.inputs)
      /\ ~(compiled[o].target \in DOMAIN variants /\ variants[compiled[o].target] # compiled[o])
      /\ memo' = [x \in DOMAIN memo \cup DOMAIN compiled |->
                         IF x \in DOMAIN memo THEN memo[x] ELSE compiled[x]]
      /\ variants' = [t \in DOMAIN variants \cup {compiled[o].target} |->
                         IF t = compiled[o].target THEN compiled[o] ELSE variants[t]]
      /\ files' = files \cup compiled[o].fields.inputs
      /\ todo' = todo \ {o}
      /\ UNCHANGED <<batch, phase, families, configs>>
  BY DEF Store
<1>7. memo' = [x \in DOMAIN memo \cup below(current, o) |-> own(current, x)]
  BY <1>2, <1>3, <1>4, <1>6
<1>. QED  BY <1>3, <1>5, <1>6, <1>7

(* an object adds its own variants to the memo and the graph, *)
LEMMA OwnCompile ==
  ASSUME OwnInv, CompileObject  PROVE OwnInv'
<1>1. CASE Refuse
  BY <1>1, OwnRefuse
<1>2. CASE ~Refuse
  <2>1. PICK o \in todo : /\ ~variantRefused(current, o)
                          /\ \E compiled \in {variantsBelow(current, memo, o)} :
                                Store(o, compiled, compiled[o])
    BY <1>2 DEF CompileObject
  <2>2. phase = "objects"
    BY DEF CompileObject
  <2>. DEFINE v == own(current, o)
  <2>3. /\ memo' = [x \in DOMAIN memo \cup below(current, o) |-> own(current, x)]
        /\ v.target \notin DOMAIN variants \/ variants[v.target] = v
        /\ variants' = [t \in DOMAIN variants \cup {v.target} |->
                          IF t = v.target THEN v ELSE variants[t]]
        /\ todo' = todo \ {o}
        /\ UNCHANGED <<batch, phase, configs>>
    BY <1>2, <2>1, <2>2, CompiledStep
  <2>4. current' = current
    BY <2>3 DEF current
  <2>. HIDE DEF v
  <2>5. \A t \in DOMAIN variants : t \in DOMAIN variants' /\ variants'[t] = variants[t]
    BY <2>3
  <2>6. v.target \in DOMAIN variants' /\ variants'[v.target] = v
    BY <2>3
  <2>7. \A cfg, p : Holds(cfg, p) => Holds(cfg, p)'
    BY <2>5 DEF Holds
  <2>8. ConfigsOK'
    BY <2>3 DEF OwnInv, ConfigsOK, projected
  <2>9. VariantsOK'
    BY <2>3, <2>7 DEF OwnInv, VariantsOK
  <2>10. MemoOK'
    <3>. DEFINE before == compiledObjects(current) \ todo
                after == compiledObjects(current) \ todo'
    <3>1. todo \subseteq compiledObjects(current)
          /\ DOMAIN memo = UNION {below(current, p) : p \in before}
          /\ \A p \in before : Holds(current, p)
      BY <2>2 DEF OwnInv, MemoOK
    <3>2. after = before \cup {o}
      BY <2>1, <2>3, <3>1
    <3>3. UNION {below(current, p) : p \in after} = DOMAIN memo \cup below(current, o)
      BY <3>1, <3>2
    <3>4. Holds(current, o)'
      BY <2>1, <2>4, <2>6 DEF Holds, v
    <3>5. \A p \in after : Holds(current, p)'
      <4>1. \A p \in before : Holds(current, p)'
        BY <2>4, <2>5, <3>1 DEF Holds
      <4>. QED  BY <3>2, <3>4, <4>1
    <3>6. memo' = [x \in UNION {below(current, p) : p \in after} |-> own(current, x)]
      BY <2>3, <3>3
    <3>7. todo' \subseteq compiledObjects(current)
      BY <2>3, <3>1
    <3>. QED  BY <2>4, <3>5, <3>6, <3>7 DEF MemoOK
  <2>. QED  BY <2>8, <2>9, <2>10 DEF OwnInv
<1>. QED  BY <1>1, <1>2

(* and an image is projected from the whole memo. *)
LEMMA OwnProject ==
  ASSUME OwnInv, ProjectImage  PROVE OwnInv'
<1>1. phase = "objects" /\ todo = {} /\ UNCHANGED <<batch, variants>>
  BY DEF ProjectImage
<1>2. memo = alone(current) /\ \A o \in compiledObjects(current) : Holds(current, o)
  BY <1>1 DEF OwnInv, MemoOK, alone, visited, own
<1>3. configs' = Append(configs, projected(current))
  BY <1>2 DEF ProjectImage, projected
<1>4. Len(configs) \in Nat /\ Len(batch) \in Nat /\ Len(configs) < Len(batch)
      /\ configs = [i \in 1..Len(configs) |-> projected(batch[i])]
  BY <1>1, ConfigsOfBatch DEF OwnInv, ConfigsOK
<1>. DEFINE n == Len(configs)
<1>5. Len(configs') = n + 1 /\ configs' = [i \in 1..(n + 1) |-> projected(batch[i])]
  <2>. DEFINE P == {projected(batch[i]) : i \in 1..(n + 1)}
  <2>1. configs \in Seq(P) /\ projected(current) \in P
    <3>1. projected(current) = projected(batch[n + 1]) /\ n + 1 \in 1..(n + 1)
      BY <1>4 DEF current
    <3>2. \A i \in 1..n : projected(batch[i]) \in P
      BY <1>4
    <3>3. configs \in [1..n -> P]
      <4>. HIDE DEF P
      <4>. QED  BY <1>4, <3>2
    <3>. QED  BY <1>4, <3>1, <3>3
  <2>. HIDE DEF P
  <2>2. /\ configs' \in Seq(P) /\ Len(configs') = n + 1
        /\ \A i \in 1..n : configs'[i] = configs[i]
        /\ configs'[n + 1] = projected(current)
    BY <1>3, <2>1, AppendProperties
  <2>3. \A i \in 1..(n + 1) : configs'[i] = projected(batch[i])
    <3>. TAKE i \in 1..(n + 1)
    <3>1. CASE i = n + 1
      BY <2>2, <3>1 DEF current
    <3>2. CASE i # n + 1
      <4>1. i \in 1..n
        BY <1>4, <3>2
      <4>. QED  BY <1>4, <2>2, <4>1
    <3>. QED  BY <3>1, <3>2
  <2>4. DOMAIN configs' = 1..(n + 1) /\ configs' = [i \in DOMAIN configs' |-> configs'[i]]
    BY <2>2, LenProperties
  <2>. QED  BY <2>2, <2>3, <2>4
<1>. HIDE DEF n
<1>6. phase' = IF Len(configs') = Len(batch) THEN "metadata" ELSE "start"
  BY DEF ProjectImage
<1>7. ConfigsOK'
  BY <1>1, <1>4, <1>5, <1>6 DEF OwnInv, ConfigsOK, projected, n
<1>8. VariantsOK'
  <2>1. \A cfg, p : Holds(cfg, p) => Holds(cfg, p)'
    BY <1>1 DEF Holds
  <2>2. \A i \in 1..(n + 1) : i \in 1..n \/ batch[i] = current
    BY <1>4 DEF current, n
  <2>. QED  BY <1>1, <1>2, <1>5, <2>1, <2>2 DEF OwnInv, VariantsOK, n
<1>9. MemoOK'
  BY <1>6 DEF MemoOK
<1>. QED  BY <1>7, <1>8, <1>9 DEF OwnInv

(* Every step keeps the invariant. *)
LEMMA OwnNext == OwnInv /\ [Next]_vars => OwnInv'
<1>. SUFFICES ASSUME OwnInv, [Next]_vars  PROVE OwnInv'
  OBVIOUS
<1>1. CASE ResolveConfig
  BY <1>1, OwnResolve
<1>2. CASE CompileObject
  BY <1>2, OwnCompile
<1>3. CASE ProjectImage
  BY <1>3, OwnProject
<1>4. CASE ValidateContentIDs
  <2>1. CASE Refuse
    BY <2>1, OwnRefuse
  <2>2. CASE ~Refuse
    <3>1. phase = "metadata" /\ phase' = "done"
          /\ UNCHANGED <<batch, todo, memo, variants, families, files, configs>>
      BY <1>4, <2>2 DEF ValidateContentIDs
    <3>. QED  BY <3>1 DEF OwnInv, ConfigsOK, VariantsOK, MemoOK, Holds, projected
  <2>. QED  BY <2>1, <2>2
<1>5. CASE UNCHANGED vars
  BY <1>5 DEF vars, OwnInv, ConfigsOK, VariantsOK, MemoOK, Holds, projected, current
<1>. QED  BY <1>1, <1>2, <1>3, <1>4, <1>5 DEF Next, Done

(* No configuration changes what another one builds (EachConfigItsOwn). *)
THEOREM ConfigsKeepTheirOwn == Spec => []EachConfigItsOwn
<1>1. OwnInv => EachConfigItsOwn
  <2>. SUFFICES ASSUME OwnInv, phase = "done", NEW i \in DOMAIN batch
                PROVE  hasItsOwn(i, alone(batch[i]))
    BY DEF EachConfigItsOwn
  <2>1. i \in 1..Len(configs) /\ batch \in Batches
    BY ConfigsOfBatch DEF OwnInv, ConfigsOK
  <2>2. configs[i] = projected(batch[i])
    BY <2>1 DEF OwnInv, ConfigsOK
  <2>3. \A o \in compiledObjects(batch[i]) : alone(batch[i])[o] = own(batch[i], o)
    <3>. TAKE o \in compiledObjects(batch[i])
    <3>1. WellFormedConfig(batch[i])
      BY <2>1, ConfigsOfBatch DEF OwnInv, ConfigsOK
    <3>2. o \in visited(batch[i])
      BY <3>1, BelowIsClosure DEF visited
    <3>. QED  BY <3>2 DEF alone, own
  <2>4. \A o \in compiledObjects(batch[i]) : Holds(batch[i], o)
    BY <2>1 DEF OwnInv, VariantsOK
  <2>. QED  BY <2>2, <2>3, <2>4 DEF hasItsOwn, Holds, projected
<1>2. QED
  BY OwnInit, OwnNext, <1>1, PTL DEF Spec

-----------------------------------------------------------------------------
(* Generated header families. *)

(* The family of a footprint, given those of the earlier ones. *)
familyAt(cfg, i, earlier) ==
    LET h == cfg.headers[i]
        deps == {g.id : g \in {g \in earlier : g.name \in h.deps}}
        pay == payloadID(h.fragment)
    IN  [name |-> h.name, id |-> headerFamilyID(h.name, pay, deps, h.inputs),
         payload |-> pay, deps |-> deps, inputs |-> h.inputs, labels |-> {cfg.label}]

(* familiesUpTo is defined, footprint by footprint. *)
LEMMA FamiliesUnfold ==
  ASSUME NEW cfg, WellFormedConfig(cfg)
  PROVE  /\ Len(cfg.headers) \in Nat /\ DOMAIN cfg.headers = 1..Len(cfg.headers)
         /\ \A n \in 0..Len(cfg.headers) :
               familiesUpTo(cfg)[n] =
                 IF n = 0 THEN {}
                 ELSE familiesUpTo(cfg)[n - 1] \cup {familyAt(cfg, n, familiesUpTo(cfg)[n - 1])}
<1>. DEFINE N == Len(cfg.headers)
            Step(f, n) == IF n = 0 THEN {} ELSE f[n - 1] \cup {familyAt(cfg, n, f[n - 1])}
            Solves(f, m) == \A n \in 0..N : n < m => f[n] = Step(f, n)
            IsFamilies(f) == f = [n \in 0..N |-> Step(f, n)]
            A == {m \in Nat : \E f : f = [n \in 0..N |-> f[n]] /\ Solves(f, m)}
<1>1. N \in Nat /\ DOMAIN cfg.headers = 1..N
  BY LenProperties DEF WellFormedConfig
<1>. HIDE DEF N
<1>2. 0 \in A
  <2>. DEFINE f == [n \in 0..N |-> {}]
  <2>1. f = [n \in 0..N |-> f[n]] /\ Solves(f, 0)
    BY <1>1
  <2>. QED  BY <2>1
<1>3. ASSUME NEW m \in Nat, m \in A  PROVE m + 1 \in A
  <2>1. PICK f : f = [n \in 0..N |-> f[n]] /\ Solves(f, m)
    BY <1>3
  <2>. DEFINE g == [n \in 0..N |-> Step(f, n)]
  <2>2. ASSUME NEW n \in 0..N, n < m  PROVE g[n] = f[n]
    BY <2>1, <2>2
  <2>3. ASSUME NEW n \in 0..N, n < m + 1  PROVE g[n] = Step(g, n)
    <3>1. CASE n = 0
      BY <3>1
    <3>2. CASE n # 0
      <4>1. n - 1 \in 0..N /\ n - 1 < m
        BY <1>1, <2>3, <3>2
      <4>2. g[n] = f[n - 1] \cup {familyAt(cfg, n, f[n - 1])}
        BY <3>2
      <4>3. f[n - 1] = g[n - 1]
        BY <4>1, <2>2
      <4>. HIDE DEF g
      <4>. QED  BY <3>2, <4>2, <4>3
    <3>. QED  BY <3>1, <3>2
  <2>4. g = [n \in 0..N |-> g[n]]
    OBVIOUS
  <2>5. Solves(g, m + 1)
    BY <2>3
  <2>6. m + 1 \in Nat
    OBVIOUS
  <2>. HIDE DEF g, Solves
  <2>7. \E h : h = [n \in 0..N |-> h[n]] /\ Solves(h, m + 1)
    <3>. WITNESS g
    <3>. QED  BY <2>4, <2>5
  <2>. QED  BY <2>6, <2>7
<1>4. N + 1 \in A
  <2>. HIDE DEF A
  <2>. QED  BY <1>1, <1>2, <1>3, EveryNumber
<1>5. PICK f : f = [n \in 0..N |-> f[n]] /\ Solves(f, N + 1)
  BY <1>4
<1>6. IsFamilies(f)
  <2>1. \A n \in 0..N : n < N + 1
    BY <1>1
  <2>. QED  BY <1>5, <2>1
<1>7. familiesUpTo(cfg) = CHOOSE h : IsFamilies(h)
  BY DEF familiesUpTo, familyAt, N
<1>8. IsFamilies(familiesUpTo(cfg))
  BY <1>6, <1>7
<1>9. \A n \in 0..N : familiesUpTo(cfg)[n] = Step(familiesUpTo(cfg), n)
  BY <1>8
<1>. QED  BY <1>1, <1>9 DEF N

(* Every family is the one of a footprint. *)
LEMMA FamilyOfFootprint ==
  ASSUME NEW cfg, WellFormedConfig(cfg)
  PROVE  /\ \A f \in HeaderFamilies(cfg) : \E i \in DOMAIN cfg.headers :
               f = familyAt(cfg, i, familiesUpTo(cfg)[i - 1])
         /\ \A i \in DOMAIN cfg.headers :
               familyAt(cfg, i, familiesUpTo(cfg)[i - 1]) \in HeaderFamilies(cfg)
<1>. DEFINE F == familiesUpTo(cfg)
            N == Len(cfg.headers)
            At(i) == familyAt(cfg, i, F[i - 1])
<1>1. /\ N \in Nat /\ DOMAIN cfg.headers = 1..N
      /\ \A n \in 0..N : F[n] = IF n = 0 THEN {} ELSE F[n - 1] \cup {At(n)}
  BY FamiliesUnfold
<1>. HIDE DEF F, N, At
<1>. DEFINE A == {n \in Nat : n \in 0..N => F[n] = {At(i) : i \in 1..n}}
<1>2. 0 \in A
  <2>1. 0 \in 0..N /\ 1..0 = {}
    BY <1>1
  <2>2. F[0] = {}
    BY <1>1, <2>1
  <2>. QED  BY <2>1, <2>2
<1>3. ASSUME NEW n \in Nat, n \in A  PROVE n + 1 \in A
  <2>1. ASSUME n + 1 \in 0..N  PROVE F[n + 1] = {At(i) : i \in 1..(n + 1)}
    <3>1. n \in 0..N /\ (n + 1) - 1 = n /\ n + 1 # 0
      BY <1>1, <2>1
    <3>2. F[n + 1] = {At(i) : i \in 1..n} \cup {At(n + 1)}
      BY <1>1, <1>3, <2>1, <3>1
    <3>3. 1..(n + 1) = (1..n) \cup {n + 1}
      OBVIOUS
    <3>. QED  BY <3>2, <3>3
  <2>. QED  BY <2>1
<1>4. F[N] = {At(i) : i \in 1..N}
  <2>. HIDE DEF A
  <2>1. N \in A
    BY <1>1, <1>2, <1>3, EveryNumber
  <2>. QED  BY <1>1, <2>1 DEF A
<1>5. HeaderFamilies(cfg) = F[N]
  BY DEF HeaderFamilies, F, N
<1>6. /\ \A f \in HeaderFamilies(cfg) : \E i \in DOMAIN cfg.headers : f = At(i)
      /\ \A i \in DOMAIN cfg.headers : At(i) \in HeaderFamilies(cfg)
  BY <1>1, <1>4, <1>5
<1>. QED  BY <1>6 DEF At, F

(* What the ID of a family says of it. *)
describe(id) == [name |-> id.name, id |-> id, payload |-> id.payload,
                 deps |-> id.deps, inputs |-> id.inputs, labels |-> {}]

described(ids) == {describe(id) : id \in ids}

(* A family is what its ID says, up to its labels. *)
LEMMA FamilyDescribed ==
  ASSUME NEW cfg, WellFormedConfig(cfg), NEW f \in HeaderFamilies(cfg)
  PROVE  /\ [f EXCEPT !.labels = {}] = describe(f.id)
         /\ f.id.name = f.name /\ f.id.payload = f.payload
<1>1. PICK i : f = familyAt(cfg, i, familiesUpTo(cfg)[i - 1])
  BY FamilyOfFootprint
<1>. DEFINE h == cfg.headers[i]
            deps == {g.id : g \in {g \in familiesUpTo(cfg)[i - 1] : g.name \in h.deps}}
            pay == payloadID(h.fragment)
            id == headerFamilyID(h.name, pay, deps, h.inputs)
<1>2. f = [name |-> h.name, id |-> id, payload |-> pay, deps |-> deps, inputs |-> h.inputs,
           labels |-> {cfg.label}]
  BY <1>1 DEF familyAt
<1>3. id.name = h.name /\ id.payload = pay /\ id.deps = deps /\ id.inputs = h.inputs
  BY DEF headerFamilyID
<1>. HIDE DEF id, deps, pay, h
<1>. QED  BY <1>2, <1>3 DEF describe

(* Two families of one configuration have two names. *)
LEMMA FamilyByName ==
  ASSUME NEW cfg, WellFormedConfig(cfg), ~familiesRefused(cfg),
         NEW f \in HeaderFamilies(cfg), NEW g \in HeaderFamilies(cfg), f.name = g.name
  PROVE  f = g
<1>. DEFINE N == Len(cfg.headers)
<1>1. PICK i \in DOMAIN cfg.headers : f = familyAt(cfg, i, familiesUpTo(cfg)[i - 1])
  BY FamilyOfFootprint
<1>2. PICK j \in DOMAIN cfg.headers : g = familyAt(cfg, j, familiesUpTo(cfg)[j - 1])
  BY FamilyOfFootprint
<1>3. cfg.headers[i].name = cfg.headers[j].name
  BY <1>1, <1>2 DEF familyAt
<1>4. N \in Nat /\ DOMAIN cfg.headers = 1..N
  BY FamiliesUnfold
<1>5. \A k, l \in DOMAIN cfg.headers : k < l => cfg.headers[k].name # cfg.headers[l].name
  <2>. SUFFICES ASSUME NEW k \in DOMAIN cfg.headers, NEW l \in DOMAIN cfg.headers, k < l
                PROVE  cfg.headers[k].name # cfg.headers[l].name
    OBVIOUS
  <2>1. k \in 1..(l - 1)
    BY <1>4
  <2>2. cfg.headers[l].name \notin {cfg.headers[m].name : m \in 1..(l - 1)}
    BY DEF familiesRefused
  <2>. QED  BY <2>1, <2>2
<1>6. i = j
  <2>1. i \in Nat /\ j \in Nat
    BY <1>4
  <2>2. i < j \/ j < i \/ i = j
    BY <2>1
  <2>. QED  BY <1>3, <1>5, <2>2
<1>. QED  BY <1>1, <1>2, <1>6

(* An action takes families of its configuration. *)
LEMMA SelectedAreFamilies ==
  ASSUME NEW used, NEW includes, NEW force
  PROVE  selectForAction(used, includes, force) \subseteq {f.id : f \in used}
BY DEF selectForAction, idsOf

-----------------------------------------------------------------------------
(* Actions, and what is hashed of them. *)

(* Every object that is compiled can be. *)
accepted(cfg) == \A o \in compiledObjects(cfg) : ~variantRefused(cfg, o)

(* What an accepted configuration visits is sound. *)
LEMMA VisitedIsSound ==
  ASSUME NEW cfg, WellFormedConfig(cfg), accepted(cfg)
  PROVE  /\ sound(cfg, visited(cfg))
         /\ \A x \in visited(cfg) : ~variantRefused(cfg, x)
<1>1. \A o \in compiledObjects(cfg) : sound(cfg, below(cfg, o))
  BY UnrefusedIsSound DEF accepted
<1>2. sound(cfg, visited(cfg))
  BY <1>1 DEF visited, sound
<1>3. \A x \in visited(cfg) : ~variantRefused(cfg, x)
  BY RefusedBelow DEF visited, accepted
<1>. QED  BY <1>2, <1>3

(* The action of an object, from those of the objects it is built from. *)
actionFrom(cfg, x, a) ==
    [object |-> x,
     own |-> actionHere(cfg, x, cfg.objects[x], scan(cfg, x), HeaderFamilies(cfg)),
     deps |-> {a[d] : d \in asn1Deps(cfg, x)},
     members |-> [i \in DOMAIN cfg.objects[x].members |-> a[cfg.objects[x].members[i]]]]

(* Only the children's actions matter to an object's own. *)
LEMMA ActionFromChildren ==
  ASSUME NEW cfg, NEW x, NEW v, NEW w, \A d \in children(cfg, x) : v[d] = w[d]
  PROVE  actionFrom(cfg, x, v) = actionFrom(cfg, x, w)
<1>1. {v[d] : d \in asn1Deps(cfg, x)} = {w[d] : d \in asn1Deps(cfg, x)}
  BY DEF children
<1>2. \A i \in DOMAIN cfg.objects[x].members :
        v[cfg.objects[x].members[i]] = w[cfg.objects[x].members[i]]
  BY MemberIsChild DEF children
<1>3. [i \in DOMAIN cfg.objects[x].members |-> v[cfg.objects[x].members[i]]]
        = [i \in DOMAIN cfg.objects[x].members |-> w[cfg.objects[x].members[i]]]
  BY <1>2
<1>. QED  BY <1>1, <1>3 DEF actionFrom

(* action is defined: every object gets the action made of its children's. *)
LEMMA ActionUnfolds ==
  ASSUME NEW cfg, WellFormedConfig(cfg), accepted(cfg)
  PROVE  \A x \in visited(cfg) : action(cfg)[x] = actionFrom(cfg, x, action(cfg))
<1>. DEFINE S == visited(cfg)
            N == Cardinality(DOMAIN cfg.objects) + 2
            Solves(f, n) == \A x \in S : depth(cfg, x) < n => f[x] = actionFrom(cfg, x, f)
            IsAction(f) == f = [x \in S |-> actionFrom(cfg, x, f)]
            A == {n \in Nat : \E f : f = [x \in S |-> f[x]] /\ Solves(f, n)}
<1>1. /\ N \in Nat
      /\ \A x \in S : depth(cfg, x) \in Nat /\ depth(cfg, x) < N
      /\ \A x \in S : \A d \in children(cfg, x) : d \in S /\ depth(cfg, d) < depth(cfg, x)
  <2>1. sound(cfg, S)
    BY VisitedIsSound
  <2>. HIDE DEF S
  <2>2. /\ \A x \in S : depth(cfg, x) \in Nat /\ depth(cfg, x) <= Cardinality(DOMAIN cfg.objects) + 1
        /\ \A x \in S : \A d \in children(cfg, x) : d \in S /\ depth(cfg, d) < depth(cfg, x)
        /\ Cardinality(DOMAIN cfg.objects) \in Nat
    BY <2>1, DepthFalls
  <2>. QED  BY <2>2
<1>. HIDE DEF S, N
<1>2. 0 \in A
  <2>. DEFINE f == [x \in S |-> 0]
  <2>1. f = [x \in S |-> f[x]] /\ Solves(f, 0)
    BY <1>1
  <2>. QED  BY <2>1
<1>3. ASSUME NEW n \in Nat, n \in A  PROVE n + 1 \in A
  <2>1. PICK f : f = [x \in S |-> f[x]] /\ Solves(f, n)
    BY <1>3
  <2>. DEFINE g == [x \in S |-> actionFrom(cfg, x, f)]
  <2>2. ASSUME NEW x \in S, depth(cfg, x) < n  PROVE g[x] = f[x]
    BY <2>1, <2>2
  <2>3. ASSUME NEW x \in S, depth(cfg, x) < n + 1  PROVE g[x] = actionFrom(cfg, x, g)
    <3>1. \A d \in children(cfg, x) : f[d] = g[d]
      <4>. SUFFICES ASSUME NEW d \in children(cfg, x)  PROVE f[d] = g[d]
        OBVIOUS
      <4>1. d \in S /\ depth(cfg, d) < depth(cfg, x) /\ depth(cfg, d) \in Nat /\ depth(cfg, x) \in Nat
        BY <1>1
      <4>2. depth(cfg, d) < n
        BY <2>3, <4>1
      <4>. QED  BY <2>2, <4>1, <4>2
    <3>2. g[x] = actionFrom(cfg, x, f)
      OBVIOUS
    <3>. HIDE DEF g
    <3>. QED  BY <3>1, <3>2, ActionFromChildren
  <2>4. g = [x \in S |-> g[x]]
    OBVIOUS
  <2>5. Solves(g, n + 1)
    BY <2>3
  <2>. HIDE DEF g, Solves
  <2>. QED  BY <2>4, <2>5
<1>4. N \in A
  <2>. HIDE DEF A
  <2>. QED  BY <1>1, <1>2, <1>3, EveryNumber
<1>5. PICK f : f = [x \in S |-> f[x]] /\ Solves(f, N)
  BY <1>4
<1>6. IsAction(f)
  BY <1>1, <1>5
<1>7. action(cfg) = CHOOSE h : IsAction(h)
  BY DEF action, actionFrom, S
<1>8. IsAction(action(cfg))
  BY <1>6, <1>7
<1>. QED  BY <1>8 DEF S

(* The fields of an object's variant. *)
fieldsIn(cfg, x) == fieldsOf(cfg, x, cfg.objects[x], scan(cfg, x))

(* What is hashed of them. *)
hashedFields(F) ==
    [mode |-> F.mode, modname |-> F.modname, environment |-> F.environment,
     source |-> F.source, flags |-> F.flags, remove |-> F.remove, inputs |-> F.inputs,
     moduleRoot |-> F.moduleRoot, objtool |-> F.objtool, symversions |-> F.symversions]

seenIn(cfg, x) == actionHere(cfg, x, cfg.objects[x], scan(cfg, x), HeaderFamilies(cfg))

compiles(cfg, x) == isLeaf(cfg, x) \/ Facts[x].nvhe


(* An object that is not compiled is not scanned. *)
LEMMA NothingScanned ==
  ASSUME NEW cfg, NEW x, ~compiles(cfg, x)
  PROVE  scan(cfg, x).inputs = {}
BY DEF compiles, scan, scanned, sourceOf

(* What an action can tell apart, from the fields of the variant. *)
LEMMA SeenIn ==
  ASSUME NEW cfg, WellFormedConfig(cfg), NEW x, NEW a, a = seenIn(cfg, x),
         NEW F, F = fieldsIn(cfg, x), NEW attr, attr = cfg.objects[x]
  PROVE  /\ a.mode = F.mode /\ a.linkedAsModule = F.moduleRoot /\ a.objtool = F.objtool
         /\ a.symbols = F.fragment /\ a.reads = F.inputs
         /\ a.headers = described(F.families)
         /\ isLeaf(cfg, x) => a.command = <<F.modname, F.flags, F.remove>>
         /\ ~isLeaf(cfg, x) => a.command = <<>>
         /\ a.symversions = (IF symversionsEnabled(cfg, x)
                              THEN <<flagTexts(attr.flags, {"any", "c"}),
                                     flagTexts(attr.remove, {"any", "c"})>> ELSE <<>>)
<1>0. /\ F.mode = attr.mode /\ F.moduleRoot = moduleRoot(attr) /\ F.objtool = attr.objtool
      /\ F.fragment = (IF compiles(cfg, x) THEN fragmentOf(cfg, x, scan(cfg, x)) ELSE {})
      /\ F.inputs = (IF compiles(cfg, x) THEN scan(cfg, x).inputs ELSE {})
      /\ isLeaf(cfg, x) => /\ F.modname = attr.modname
                           /\ F.flags = flagsFor(attr.flags, Facts[x].language)
                           /\ F.remove = flagsFor(attr.remove, Facts[x].language)
  BY DEF fieldsIn, fieldsOf, compiles
<1>. DEFINE used == HeaderFamilies(cfg)
            header(id) == [(CHOOSE f \in used : f.id = id) EXCEPT !.labels = {}]
            chosenIDs == selectForAction(used, scan(cfg, x).includes, needsAllHeaders(x))
<1>1. /\ a.mode = attr.mode /\ a.linkedAsModule = moduleRoot(attr) /\ a.objtool = attr.objtool
      /\ a.command = (IF isLeaf(cfg, x)
                        THEN <<attr.modname, flagsFor(attr.flags, Facts[x].language),
                               flagsFor(attr.remove, Facts[x].language)>> ELSE <<>>)
      /\ a.symbols = (IF compiles(cfg, x) THEN fragmentOf(cfg, x, scan(cfg, x)) ELSE {})
      /\ a.reads = scan(cfg, x).inputs
      /\ a.headers = (IF compiles(cfg, x) THEN {header(id) : id \in chosenIDs} ELSE {})
      /\ a.symversions = (IF symversionsEnabled(cfg, x)
                            THEN <<flagTexts(attr.flags, {"any", "c"}),
                                   flagTexts(attr.remove, {"any", "c"})>> ELSE <<>>)
  BY DEF seenIn, actionHere, compiles, fragmentOf
<1>2. \A id \in chosenIDs : header(id) = describe(id)
  <2>. TAKE id \in chosenIDs
  <2>1. \E f \in used : f.id = id
    BY SelectedAreFamilies
  <2>2. (CHOOSE f \in used : f.id = id) \in used /\ (CHOOSE f \in used : f.id = id).id = id
    BY <2>1
  <2>. QED  BY <2>2, FamilyDescribed
<1>3. {header(id) : id \in chosenIDs} = {describe(id) : id \in chosenIDs}
  <2>. HIDE DEF header, chosenIDs
  <2>. QED  BY <1>2
<1>4. a.headers = described(F.families)
  <2>1. F.families = IF compiles(cfg, x) THEN chosenIDs ELSE {}
    BY DEF fieldsIn, fieldsOf, compiles
  <2>. HIDE DEF chosenIDs, header
  <2>2. CASE compiles(cfg, x)
    BY <1>1, <1>3, <2>1, <2>2 DEF described
  <2>3. CASE ~compiles(cfg, x)
    BY <1>1, <2>1, <2>3 DEF described
  <2>. QED  BY <2>2, <2>3
<1>6. a.reads = F.inputs
  BY <1>0, <1>1, NothingScanned
<1>7. /\ a.mode = F.mode /\ a.linkedAsModule = F.moduleRoot /\ a.objtool = F.objtool
      /\ a.symbols = F.fragment
      /\ isLeaf(cfg, x) => a.command = <<F.modname, F.flags, F.remove>>
      /\ ~isLeaf(cfg, x) => a.command = <<>>
  BY <1>0, <1>1
<1>. QED  BY <1>1, <1>4, <1>6, <1>7

-----------------------------------------------------------------------------
(* Content IDs. *)

depIDs(cfg, x) == {own(cfg, d).id : d \in asn1Deps(cfg, x)}
memberIDs(cfg, x) ==
    [i \in DOMAIN cfg.objects[x].members |-> own(cfg, cfg.objects[x].members[i]).id]

(* A variant, field by field. *)
LEMMA OwnVariant ==
  ASSUME NEW cfg, WellFormedConfig(cfg), NEW x, ~variantRefused(cfg, x)
  PROVE  /\ own(cfg, x).fields = fieldsIn(cfg, x)
         /\ own(cfg, x).id = objectVariantContentID(fieldsIn(cfg, x), depIDs(cfg, x), memberIDs(cfg, x))
         /\ own(cfg, x).target = targetOf(x, own(cfg, x).id)
         /\ own(cfg, x).deps = {own(cfg, d).target : d \in asn1Deps(cfg, x)}
         /\ own(cfg, x).members = [i \in DOMAIN cfg.objects[x].members |->
                                     own(cfg, cfg.objects[x].members[i]).target]
         /\ own(cfg, x) = [fields |-> own(cfg, x).fields, id |-> own(cfg, x).id,
                           target |-> own(cfg, x).target, deps |-> own(cfg, x).deps,
                           members |-> own(cfg, x).members]
<1>. DEFINE v == [d \in children(cfg, x) |-> own(cfg, d)]
            F == fieldsIn(cfg, x)
            D == {v[d] : d \in asn1Deps(cfg, x)}
            M == [i \in DOMAIN cfg.objects[x].members |-> v[cfg.objects[x].members[i]]]
            dids == {d.id : d \in D}
            mids == [i \in DOMAIN M |-> M[i].id]
            id == objectVariantContentID(F, dids, mids)
<1>1. \A d \in children(cfg, x) : v[d] = own(cfg, d)
  OBVIOUS
<1>2. own(cfg, x) = builtFrom(cfg, x, v)
  <2>. HIDE DEF v
  <2>. QED  BY <1>1, OwnUnfolds
<1>. HIDE DEF v
<1>3. own(cfg, x) = identified(F, id, D, M)
  BY <1>2 DEF builtFrom, variant, withID, fieldsIn
<1>4. own(cfg, x) = [fields |-> F, id |-> id, target |-> targetOf(F.object, id),
                     deps |-> {d.target : d \in D}, members |-> [i \in DOMAIN M |-> M[i].target]]
  BY <1>3 DEF identified
<1>5. D = {own(cfg, d) : d \in asn1Deps(cfg, x)}
  BY <1>1 DEF children
<1>6. \A i \in DOMAIN cfg.objects[x].members :
        v[cfg.objects[x].members[i]] = own(cfg, cfg.objects[x].members[i])
  BY <1>1, MemberIsChild DEF children
<1>7. dids = depIDs(cfg, x) /\ {d.target : d \in D} = {own(cfg, d).target : d \in asn1Deps(cfg, x)}
  BY <1>5 DEF depIDs
<1>8. /\ mids = memberIDs(cfg, x)
      /\ [i \in DOMAIN M |-> M[i].target] = [i \in DOMAIN cfg.objects[x].members |->
                                               own(cfg, cfg.objects[x].members[i]).target]
  BY <1>6 DEF memberIDs
<1>9. F.object = x
  BY DEF fieldsIn, fieldsOf
<1>. HIDE DEF D, M, F, dids, mids, id
<1>10. /\ own(cfg, x).fields = F /\ own(cfg, x).id = id /\ own(cfg, x).target = targetOf(F.object, id)
       /\ own(cfg, x).deps = {d.target : d \in D}
       /\ own(cfg, x).members = [i \in DOMAIN M |-> M[i].target]
  BY <1>4
<1>11. id = objectVariantContentID(F, dids, mids)
  BY DEF id
<1>. QED  BY <1>4, <1>7, <1>8, <1>9, <1>10, <1>11 DEF F

(* Two IDs are the same when the hashed fields, the dependencies and the *)
(* members are.                                                          *)
LEMMA SameID ==
  ASSUME NEW v, NEW w, NEW d, NEW e, NEW m, NEW n
  PROVE  objectVariantContentID(v, d, m) = objectVariantContentID(w, e, n)
           <=> /\ v.object = w.object /\ hashedFields(v) = hashedFields(w)
               /\ d = e /\ m = n
<1>1. ASSUME objectVariantContentID(v, d, m) = objectVariantContentID(w, e, n)
      PROVE  v.object = w.object /\ hashedFields(v) = hashedFields(w) /\ d = e /\ m = n
  BY <1>1 DEF objectVariantContentID, hashedFields
<1>2. ASSUME v.object = w.object, hashedFields(v) = hashedFields(w), d = e, m = n
      PROVE  objectVariantContentID(v, d, m) = objectVariantContentID(w, e, n)
  BY <1>2 DEF objectVariantContentID, hashedFields
<1>. QED  BY <1>1, <1>2

(* Two symversions records are the same when their command lines are. *)
LEMMA SymversionsSame ==
  ASSUME NEW on1, NEW on2, NEW f1, NEW f2, NEW r1, NEW r2,
         NEW s1, s1 = [on |-> on1, flags |-> IF on1 THEN f1 ELSE <<>>, remove |-> IF on1 THEN r1 ELSE <<>>],
         NEW s2, s2 = [on |-> on2, flags |-> IF on2 THEN f2 ELSE <<>>, remove |-> IF on2 THEN r2 ELSE <<>>],
         on1 \in BOOLEAN, on2 \in BOOLEAN
  PROVE  s1 = s2 <=> (IF on1 THEN <<f1, r1>> ELSE <<>>) = (IF on2 THEN <<f2, r2>> ELSE <<>>)
<1>1. CASE on1 = on2
  BY <1>1
<1>2. CASE on1 # on2
  <2>1. s1.on = on1 /\ s2.on = on2
    OBVIOUS
  <2>2. s1 # s2
    BY <1>2, <2>1
  <2>3. \A f, r : <<f, r>> # <<>>
    OBVIOUS
  <2>4. CASE on1
    <3>1. ~on2
      BY <1>2, <2>4
    <3>. QED  BY <2>2, <2>3, <2>4, <3>1
  <2>5. CASE ~on1
    <3>1. on2
      BY <1>2, <2>5
    <3>. QED  BY <2>2, <2>3, <2>5, <3>1
  <2>. QED  BY <2>4, <2>5
<1>. QED  BY <1>1, <1>2

(* Two environments are the same when their symbols and families are. *)
LEMMA EnvironmentSame ==
  ASSUME NEW p, NEW q, NEW ids1, NEW ids2
  PROVE  {environmentID(payloadID(p), ids1)} = {environmentID(payloadID(q), ids2)}
           <=> p = q /\ ids1 = ids2
<1>1. ASSUME {environmentID(payloadID(p), ids1)} = {environmentID(payloadID(q), ids2)}
      PROVE  p = q /\ ids1 = ids2
  <2>1. environmentID(payloadID(p), ids1) = environmentID(payloadID(q), ids2)
    BY <1>1
  <2>2. payloadID(p) = payloadID(q) /\ ids1 = ids2
    BY <2>1 DEF environmentID
  <2>. QED  BY <2>2 DEF payloadID
<1>. QED  BY <1>1

(* Two sets of family IDs are the same when their families are. *)
LEMMA DescribedSame ==
  ASSUME NEW ids1, NEW ids2
  PROVE  described(ids1) = described(ids2) <=> ids1 = ids2
<1>1. ASSUME NEW A, NEW B, described(A) \subseteq described(B)
      PROVE  A \subseteq B
  <2>. SUFFICES ASSUME NEW a \in A  PROVE a \in B
    OBVIOUS
  <2>1. PICK b \in B : describe(a) = describe(b)
    BY <1>1 DEF described
  <2>2. describe(a).id = a /\ describe(b).id = b
    BY DEF describe
  <2>. QED  BY <2>1, <2>2
<1>. QED  BY <1>1

(* What is hashed of an object is what its action can tell apart. *)
LEMMA HashedIsSeen ==
  ASSUME NEW c, WellFormedConfig(c), NEW e, WellFormedConfig(e), NEW x,
         isLeaf(c, x) <=> isLeaf(e, x)
  PROVE  hashedFields(fieldsIn(c, x)) = hashedFields(fieldsIn(e, x)) <=> seenIn(c, x) = seenIn(e, x)
<1>. DEFINE F == fieldsIn(c, x)
            G == fieldsIn(e, x)
            a == seenIn(c, x)
            b == seenIn(e, x)
            ca == c.objects[x]
            ea == e.objects[x]
<1>1. hashedFields(F) = hashedFields(G)
        <=> /\ F.mode = G.mode /\ F.modname = G.modname /\ F.environment = G.environment
            /\ F.source = G.source /\ F.flags = G.flags /\ F.remove = G.remove
            /\ F.inputs = G.inputs /\ F.moduleRoot = G.moduleRoot /\ F.objtool = G.objtool
            /\ F.symversions = G.symversions
  <2>. HIDE DEF F, G
  <2>. QED  BY DEF hashedFields
<1>2. a = b
        <=> /\ a.mode = b.mode /\ a.linkedAsModule = b.linkedAsModule /\ a.objtool = b.objtool
            /\ a.command = b.command /\ a.symbols = b.symbols /\ a.reads = b.reads
            /\ a.headers = b.headers /\ a.symversions = b.symversions
  <2>1. /\ a = [mode |-> a.mode, linkedAsModule |-> a.linkedAsModule, objtool |-> a.objtool,
                command |-> a.command, symbols |-> a.symbols, reads |-> a.reads,
                headers |-> a.headers, symversions |-> a.symversions]
        /\ b = [mode |-> b.mode, linkedAsModule |-> b.linkedAsModule, objtool |-> b.objtool,
                command |-> b.command, symbols |-> b.symbols, reads |-> b.reads,
                headers |-> b.headers, symversions |-> b.symversions]
    BY DEF seenIn, actionHere
  <2>. HIDE DEF a, b
  <2>. QED  BY <2>1
<1>3. /\ a.mode = F.mode /\ a.linkedAsModule = F.moduleRoot /\ a.objtool = F.objtool
      /\ a.symbols = F.fragment /\ a.reads = F.inputs
      /\ a.headers = described(F.families)
      /\ isLeaf(c, x) => a.command = <<F.modname, F.flags, F.remove>>
      /\ ~isLeaf(c, x) => a.command = <<>>
      /\ a.symversions = (IF symversionsEnabled(c, x)
                            THEN <<flagTexts(ca.flags, {"any", "c"}),
                                   flagTexts(ca.remove, {"any", "c"})>> ELSE <<>>)
  BY SeenIn
<1>4. /\ b.mode = G.mode /\ b.linkedAsModule = G.moduleRoot /\ b.objtool = G.objtool
      /\ b.symbols = G.fragment /\ b.reads = G.inputs
      /\ b.headers = described(G.families)
      /\ isLeaf(e, x) => b.command = <<G.modname, G.flags, G.remove>>
      /\ ~isLeaf(e, x) => b.command = <<>>
      /\ b.symversions = (IF symversionsEnabled(e, x)
                            THEN <<flagTexts(ea.flags, {"any", "c"}),
                                   flagTexts(ea.remove, {"any", "c"})>> ELSE <<>>)
  BY SeenIn
<1>5. /\ F.source = G.source
      /\ ~isLeaf(c, x) => F.modname = G.modname /\ F.flags = G.flags /\ F.remove = G.remove
      /\ compiles(c, x) <=> compiles(e, x)
  BY DEF fieldsIn, fieldsOf, sourceOf, compiles
<1>6. F.environment = G.environment <=> F.fragment = G.fragment /\ F.families = G.families
  <2>1. CASE compiles(c, x)
    <3>1. /\ F.environment = {environmentID(payloadID(F.fragment), F.families)}
          /\ G.environment = {environmentID(payloadID(G.fragment), G.families)}
      BY <1>5, <2>1 DEF fieldsIn, fieldsOf, compiles
    <3>. HIDE DEF F, G
    <3>. QED  BY <3>1, EnvironmentSame
  <2>2. CASE ~compiles(c, x)
    <3>1. /\ F.environment = {} /\ F.fragment = {} /\ F.families = {}
          /\ G.environment = {} /\ G.fragment = {} /\ G.families = {}
      BY <1>5, <2>2 DEF fieldsIn, fieldsOf, compiles
    <3>. HIDE DEF F, G
    <3>. QED  BY <3>1
  <2>. QED  BY <2>1, <2>2
<1>7. F.symversions = G.symversions <=> a.symversions = b.symversions
  <2>. DEFINE on1 == symversionsEnabled(c, x)
              on2 == symversionsEnabled(e, x)
              f1 == flagTexts(ca.flags, {"any", "c"})
              f2 == flagTexts(ea.flags, {"any", "c"})
              r1 == flagTexts(ca.remove, {"any", "c"})
              r2 == flagTexts(ea.remove, {"any", "c"})
  <2>1. /\ F.symversions = [on |-> on1, flags |-> IF on1 THEN f1 ELSE <<>>,
                            remove |-> IF on1 THEN r1 ELSE <<>>]
        /\ G.symversions = [on |-> on2, flags |-> IF on2 THEN f2 ELSE <<>>,
                            remove |-> IF on2 THEN r2 ELSE <<>>]
    BY DEF fieldsIn, fieldsOf
  <2>2. on1 \in BOOLEAN /\ on2 \in BOOLEAN
    BY DEF symversionsEnabled
  <2>3. /\ a.symversions = (IF on1 THEN <<f1, r1>> ELSE <<>>)
        /\ b.symversions = (IF on2 THEN <<f2, r2>> ELSE <<>>)
    BY <1>3, <1>4
  <2>. HIDE DEF on1, on2, f1, f2, r1, r2, F, G, a, b
  <2>. QED  BY <2>1, <2>2, <2>3, SymversionsSame
<1>. HIDE DEF F, G, a, b, ca, ea
<1>8. a.headers = b.headers <=> F.families = G.families
  BY <1>3, <1>4, DescribedSame
<1>9. F.modname = G.modname /\ F.flags = G.flags /\ F.remove = G.remove <=> a.command = b.command
  <2>1. CASE isLeaf(c, x)
    <3>1. a.command = <<F.modname, F.flags, F.remove>> /\ b.command = <<G.modname, G.flags, G.remove>>
      BY <1>3, <1>4, <2>1
    <3>. QED  BY <3>1
  <2>2. CASE ~isLeaf(c, x)
    <3>1. a.command = <<>> /\ b.command = <<>>
      BY <1>3, <1>4, <2>2
    <3>. QED  BY <3>1, <1>5, <2>2
  <2>. QED  BY <2>1, <2>2
<1>10. /\ a.mode = b.mode <=> F.mode = G.mode
       /\ a.linkedAsModule = b.linkedAsModule <=> F.moduleRoot = G.moduleRoot
       /\ a.objtool = b.objtool <=> F.objtool = G.objtool
       /\ a.symbols = b.symbols <=> F.fragment = G.fragment
       /\ a.reads = b.reads <=> F.inputs = G.inputs
  BY <1>3, <1>4
<1>. QED  BY <1>1, <1>2, <1>5, <1>6, <1>7, <1>8, <1>9, <1>10 DEF F, G, a, b

-----------------------------------------------------------------------------
(* An ID is shared exactly when the action is. *)

(* What actions say of the objects an object is built from. *)
depActions(cfg, x) == {action(cfg)[d] : d \in asn1Deps(cfg, x)}
memberActions(cfg, x) ==
    [i \in DOMAIN cfg.objects[x].members |-> action(cfg)[cfg.objects[x].members[i]]]

(* One ID of an object is the other when one action is the other. *)
sameThing(c, x, e, y) == own(c, x).id = own(e, y).id <=> action(c)[x] = action(e)[y]

(* Dependencies: the same IDs exactly when the same actions. *)
LEMMA SameDeps ==
  ASSUME NEW c, NEW e, NEW x,
         \A d \in asn1Deps(c, x) : \A b \in asn1Deps(e, x) : sameThing(c, d, e, b)
  PROVE  depIDs(c, x) = depIDs(e, x) <=> depActions(c, x) = depActions(e, x)
<1>1. ASSUME depIDs(c, x) = depIDs(e, x)  PROVE depActions(c, x) = depActions(e, x)
  <2>1. \A d \in asn1Deps(c, x) : \E b \in asn1Deps(e, x) : own(c, d).id = own(e, b).id
    BY <1>1 DEF depIDs
  <2>2. \A b \in asn1Deps(e, x) : \E d \in asn1Deps(c, x) : own(c, d).id = own(e, b).id
    BY <1>1 DEF depIDs
  <2>3. \A d \in asn1Deps(c, x) : \E b \in asn1Deps(e, x) : action(c)[d] = action(e)[b]
    BY <2>1 DEF sameThing
  <2>4. \A b \in asn1Deps(e, x) : \E d \in asn1Deps(c, x) : action(c)[d] = action(e)[b]
    BY <2>2 DEF sameThing
  <2>. QED  BY <2>3, <2>4 DEF depActions
<1>2. ASSUME depActions(c, x) = depActions(e, x)  PROVE depIDs(c, x) = depIDs(e, x)
  <2>1. \A d \in asn1Deps(c, x) : \E b \in asn1Deps(e, x) : action(c)[d] = action(e)[b]
    BY <1>2 DEF depActions
  <2>2. \A b \in asn1Deps(e, x) : \E d \in asn1Deps(c, x) : action(c)[d] = action(e)[b]
    BY <1>2 DEF depActions
  <2>3. \A d \in asn1Deps(c, x) : \E b \in asn1Deps(e, x) : own(c, d).id = own(e, b).id
    BY <2>1 DEF sameThing
  <2>4. \A b \in asn1Deps(e, x) : \E d \in asn1Deps(c, x) : own(c, d).id = own(e, b).id
    BY <2>2 DEF sameThing
  <2>. QED  BY <2>3, <2>4 DEF depIDs
<1>. QED  BY <1>1, <1>2

(* Members: the same IDs exactly when the same actions. *)
LEMMA SameMembers ==
  ASSUME NEW c, NEW e, NEW x,
         \A d \in membersOf(c, x) : \A b \in membersOf(e, x) : sameThing(c, d, e, b)
  PROVE  memberIDs(c, x) = memberIDs(e, x) <=> memberActions(c, x) = memberActions(e, x)
<1>. DEFINE C == c.objects[x].members
            E == e.objects[x].members
<1>1. DOMAIN memberIDs(c, x) = DOMAIN C /\ DOMAIN memberIDs(e, x) = DOMAIN E
      /\ DOMAIN memberActions(c, x) = DOMAIN C /\ DOMAIN memberActions(e, x) = DOMAIN E
  BY DEF memberIDs, memberActions
<1>2. \A i \in DOMAIN C : \A j \in DOMAIN E : sameThing(c, C[i], e, E[j])
  BY MemberIsChild
<1>3. /\ \A i \in DOMAIN C : memberIDs(c, x)[i] = own(c, C[i]).id
                             /\ memberActions(c, x)[i] = action(c)[C[i]]
      /\ \A i \in DOMAIN E : memberIDs(e, x)[i] = own(e, E[i]).id
                             /\ memberActions(e, x)[i] = action(e)[E[i]]
  BY DEF memberIDs, memberActions
<1>4. /\ memberIDs(c, x) = [i \in DOMAIN C |-> memberIDs(c, x)[i]]
      /\ memberIDs(e, x) = [i \in DOMAIN E |-> memberIDs(e, x)[i]]
      /\ memberActions(c, x) = [i \in DOMAIN C |-> memberActions(c, x)[i]]
      /\ memberActions(e, x) = [i \in DOMAIN E |-> memberActions(e, x)[i]]
  BY DEF memberIDs, memberActions
<1>. HIDE DEF C, E
<1>5. ASSUME DOMAIN C = DOMAIN E, NEW i \in DOMAIN C
      PROVE  memberIDs(c, x)[i] = memberIDs(e, x)[i] <=> memberActions(c, x)[i] = memberActions(e, x)[i]
  BY <1>2, <1>3, <1>5 DEF sameThing
<1>6. ASSUME memberIDs(c, x) = memberIDs(e, x)  PROVE memberActions(c, x) = memberActions(e, x)
  <2>1. DOMAIN C = DOMAIN E
    BY <1>1, <1>6
  <2>2. \A i \in DOMAIN C : memberActions(c, x)[i] = memberActions(e, x)[i]
    BY <1>5, <1>6, <2>1
  <2>. QED  BY <1>4, <2>1, <2>2
<1>7. ASSUME memberActions(c, x) = memberActions(e, x)  PROVE memberIDs(c, x) = memberIDs(e, x)
  <2>1. DOMAIN C = DOMAIN E
    BY <1>1, <1>7
  <2>2. \A i \in DOMAIN C : memberIDs(c, x)[i] = memberIDs(e, x)[i]
    BY <1>5, <1>7, <2>1
  <2>. QED  BY <1>4, <2>1, <2>2
<1>. QED  BY <1>6, <1>7

(* A leaf is an object that lists no member. *)
LEMMA LeafByMembers ==
  ASSUME NEW c, WellFormedConfig(c), NEW e, WellFormedConfig(e),
         NEW x \in DOMAIN c.objects, x \in DOMAIN e.objects,
         DOMAIN c.objects[x].members = DOMAIN e.objects[x].members
  PROVE  isLeaf(c, x) <=> isLeaf(e, x)
<1>1. c.objects[x].members \in Seq(membersOf(c, x)) /\ e.objects[x].members \in Seq(membersOf(e, x))
  BY DEF WellFormedConfig
<1>2. \A S, s : s \in Seq(S) => (s = <<>> <=> DOMAIN s = {})
  <2>. SUFFICES ASSUME NEW S, NEW s \in Seq(S)  PROVE s = <<>> <=> DOMAIN s = {}
    OBVIOUS
  <2>1. s \in Seq(S) /\ Len(s) \in Nat /\ DOMAIN s = 1..Len(s)
    BY LenProperties
  <2>2. (s = <<>>) <=> (Len(s) = 0)
    BY <2>1, EmptySeq
  <2>3. 1..Len(s) = {} <=> Len(s) = 0
    <3>. DEFINE n == Len(s)
    <3>1. n \in Nat
      BY <2>1
    <3>. HIDE DEF n
    <3>2. 1..n = {} <=> n = 0
      <4>1. n # 0 => 1 \in 1..n
        BY <3>1
      <4>2. n = 0 => 1..n = {}
        OBVIOUS
      <4>. QED  BY <4>1, <4>2
    <3>. QED  BY <3>2 DEF n
  <2>. QED  BY <2>1, <2>2, <2>3
<1>3. (c.objects[x].members = <<>>) <=> (e.objects[x].members = <<>>)
  BY <1>1, <1>2
<1>. QED  BY <1>3 DEF isLeaf

(* The step: one object of two configurations. *)
LEMMA SameHere ==
  ASSUME NEW c, WellFormedConfig(c), accepted(c), NEW e, WellFormedConfig(e), accepted(e),
         NEW x \in visited(c), x \in visited(e),
         \A d \in children(c, x) : \A b \in children(e, x) : sameThing(c, d, e, b)
  PROVE  sameThing(c, x, e, x)
<1>1. /\ ~variantRefused(c, x) /\ ~variantRefused(e, x)
      /\ x \in DOMAIN c.objects /\ x \in DOMAIN e.objects
  BY VisitedIsSound DEF sound
<1>. DEFINE F == fieldsIn(c, x)
            G == fieldsIn(e, x)
<1>2. own(c, x).id = own(e, x).id
        <=> /\ hashedFields(F) = hashedFields(G)
            /\ depIDs(c, x) = depIDs(e, x) /\ memberIDs(c, x) = memberIDs(e, x)
  <2>1. own(c, x).id = objectVariantContentID(F, depIDs(c, x), memberIDs(c, x))
        /\ own(e, x).id = objectVariantContentID(G, depIDs(e, x), memberIDs(e, x))
    BY <1>1, OwnVariant
  <2>2. F.object = G.object
    BY DEF fieldsIn, fieldsOf
  <2>. HIDE DEF F, G
  <2>. QED  BY <2>1, <2>2, SameID
<1>3. action(c)[x] = action(e)[x]
        <=> /\ seenIn(c, x) = seenIn(e, x)
            /\ depActions(c, x) = depActions(e, x) /\ memberActions(c, x) = memberActions(e, x)
  <2>1. action(c)[x] = [object |-> x, own |-> seenIn(c, x), deps |-> depActions(c, x),
                        members |-> memberActions(c, x)]
    <3>1. action(c)[x] = actionFrom(c, x, action(c))
      BY ActionUnfolds
    <3>. QED  BY <3>1 DEF actionFrom, seenIn, depActions, memberActions
  <2>2. action(e)[x] = [object |-> x, own |-> seenIn(e, x), deps |-> depActions(e, x),
                        members |-> memberActions(e, x)]
    <3>1. action(e)[x] = actionFrom(e, x, action(e))
      BY ActionUnfolds
    <3>. QED  BY <3>1 DEF actionFrom, seenIn, depActions, memberActions
  <2>. QED  BY <2>1, <2>2
<1>4. depIDs(c, x) = depIDs(e, x) <=> depActions(c, x) = depActions(e, x)
  BY SameDeps DEF children
<1>5. memberIDs(c, x) = memberIDs(e, x) <=> memberActions(c, x) = memberActions(e, x)
  BY SameMembers DEF children
<1>6. ASSUME memberIDs(c, x) = memberIDs(e, x)
      PROVE  hashedFields(F) = hashedFields(G) <=> seenIn(c, x) = seenIn(e, x)
  <2>1. DOMAIN c.objects[x].members = DOMAIN e.objects[x].members
    <3>1. DOMAIN memberIDs(c, x) = DOMAIN c.objects[x].members
          /\ DOMAIN memberIDs(e, x) = DOMAIN e.objects[x].members
      BY DEF memberIDs
    <3>. QED  BY <1>6, <3>1
  <2>2. isLeaf(c, x) <=> isLeaf(e, x)
    BY <1>1, <2>1, LeafByMembers
  <2>. QED  BY <2>2, HashedIsSeen
<1>. HIDE DEF F, G
<1>. QED  BY <1>2, <1>3, <1>4, <1>5, <1>6 DEF sameThing

(* An ID and an action both say which object they are of. *)
LEMMA OfOneObject ==
  ASSUME NEW c, WellFormedConfig(c), accepted(c), NEW x \in visited(c)
  PROVE  own(c, x).id.object = x /\ action(c)[x].object = x
<1>1. ~variantRefused(c, x)
  BY VisitedIsSound
<1>. DEFINE F == fieldsIn(c, x)
<1>2. own(c, x).id = objectVariantContentID(F, depIDs(c, x), memberIDs(c, x))
  BY <1>1, OwnVariant
<1>3. F.object = x
  BY DEF fieldsIn, fieldsOf
<1>4. own(c, x).id.object = x
  <2>. HIDE DEF F
  <2>1. \A d, m : objectVariantContentID(F, d, m).object = F.object
    BY DEF objectVariantContentID
  <2>. QED  BY <1>2, <1>3, <2>1
<1>5. action(c)[x] = actionFrom(c, x, action(c))
  BY ActionUnfolds
<1>6. action(c)[x].object = x
  BY <1>5 DEF actionFrom
<1>. QED  BY <1>4, <1>6

(* By induction on the depth of the object: its ID and its action tell the same apart. *)
LEMMA SameThroughout ==
  ASSUME NEW c, WellFormedConfig(c), accepted(c), NEW e, WellFormedConfig(e), accepted(e)
  PROVE  \A x \in visited(c) : \A y \in visited(e) : sameThing(c, x, e, y)
<1>. DEFINE S == visited(c)
            T == visited(e)
            differ == {x \in S : \E y \in T : ~sameThing(c, x, e, y)}
            D == {depth(c, x) : x \in differ}
<1>1. /\ \A x \in S : depth(c, x) \in Nat
      /\ \A x \in S : \A d \in children(c, x) : d \in S /\ depth(c, d) < depth(c, x)
  <2>1. sound(c, S)
    BY VisitedIsSound
  <2>. HIDE DEF S
  <2>. QED  BY <2>1, DepthFalls
<1>2. \A y \in T : \A d \in children(e, y) : d \in T
  <2>1. sound(e, T)
    BY VisitedIsSound
  <2>. HIDE DEF T
  <2>. QED  BY <2>1, DepthFalls
<1>3. \A x \in S : own(c, x).id.object = x /\ action(c)[x].object = x
  BY OfOneObject
<1>4. \A y \in T : own(e, y).id.object = y /\ action(e)[y].object = y
  BY OfOneObject
<1>5. ASSUME NEW x \in S, x \in T,
             \A d \in children(c, x) : \A b \in children(e, x) : sameThing(c, d, e, b)
      PROVE  sameThing(c, x, e, x)
  BY <1>5, SameHere
<1>. HIDE DEF S, T
<1>6. differ = {}
  <2>. SUFFICES ASSUME differ # {}  PROVE FALSE
    OBVIOUS
  <2>1. D \subseteq Nat /\ D # {}
    BY <1>1
  <2>2. PICK m \in D : \A n \in D : m <= n
    <3>. HIDE DEF D
    <3>. QED  BY <2>1, LeastElement
  <2>3. PICK x \in differ : m = depth(c, x)
    OBVIOUS
  <2>4. PICK y \in T : ~sameThing(c, x, e, y)
    BY <2>3
  <2>5. x = y
    BY <1>3, <1>4, <2>3, <2>4 DEF sameThing
  <2>6. \A d \in children(c, x) : \A b \in children(e, x) : sameThing(c, d, e, b)
    <3>. SUFFICES ASSUME NEW d \in children(c, x), NEW b \in children(e, x), ~sameThing(c, d, e, b)
                  PROVE  FALSE
      OBVIOUS
    <3>1. d \in S /\ depth(c, d) < depth(c, x) /\ depth(c, d) \in Nat /\ depth(c, x) \in Nat
      BY <1>1, <2>3
    <3>2. b \in T
      BY <1>2, <2>4, <2>5
    <3>3. depth(c, d) \in D
      BY <3>1, <3>2
    <3>4. depth(c, x) <= depth(c, d)
      BY <2>2, <2>3, <3>3
    <3>. QED  BY <3>1, <3>4
  <2>. QED  BY <1>5, <2>3, <2>4, <2>5, <2>6
<1>. QED  BY <1>6 DEF S, T

-----------------------------------------------------------------------------
(* SharedWhenSame. *)

(* What is done has been checked. *)
CheckedInv == phase = "done" => ~contentIDsRefused

(* Every step keeps what was checked. *)
LEMMA CheckedNext == CheckedInv /\ [Next]_vars => CheckedInv'
<1>. SUFFICES ASSUME CheckedInv, [Next]_vars, phase' = "done"  PROVE ~contentIDsRefused'
  BY DEF CheckedInv
<1>1. UNCHANGED <<batch, families, variants>> /\ ~contentIDsRefused
  <2>1. CASE Refuse
    BY <2>1 DEF Refuse
  <2>2. CASE ~Refuse /\ ResolveConfig
    BY <2>2 DEF ResolveConfig
  <2>3. CASE ~Refuse /\ CompileObject
    <3>1. phase = "objects" /\ phase' = phase
      BY <2>3 DEF CompileObject, Store
    <3>. QED  BY <3>1
  <2>4. CASE ProjectImage
    BY <2>4 DEF ProjectImage
  <2>5. CASE ~Refuse /\ ValidateContentIDs
    BY <2>5 DEF ValidateContentIDs
  <2>6. CASE UNCHANGED vars
    BY <2>6 DEF vars, CheckedInv
  <2>. QED  BY <2>1, <2>2, <2>3, <2>4, <2>5, <2>6 DEF Next, Done
<1>2. contentIDsRefused' = contentIDsRefused
  <2>1. allVariants' = allVariants
    BY <1>1 DEF allVariants
  <2>2. environments' = environments
    BY <2>1 DEF environments
  <2>3. contentIDs' = contentIDs
    BY <1>1, <2>1, <2>2 DEF contentIDs, payloads
  <2>4. \A e : environmentRefused(e)' <=> environmentRefused(e)
    BY <1>1 DEF environmentRefused, familyOf
  <2>5. \A v : expectedID(v)' = expectedID(v)
    BY <1>1 DEF expectedID
  <2>. QED  BY <1>1, <2>1, <2>2, <2>3, <2>4, <2>5 DEF contentIDsRefused
<1>. QED  BY <1>1, <1>2

(* The objects that are compiled get their own variants. *)
LEMMA VisitedHasCompiled ==
  ASSUME NEW cfg, WellFormedConfig(cfg)
  PROVE  \A o \in compiledObjects(cfg) : o \in visited(cfg) /\ alone(cfg)[o] = own(cfg, o)
<1>. TAKE o \in compiledObjects(cfg)
<1>1. o \in visited(cfg)
  BY BelowIsClosure DEF visited
<1>. QED  BY <1>1 DEF alone, own

(* Two configurations share a target exactly when the actions are the same *)
(* (SharedWhenSame).                                                       *)
THEOREM SharedExactlyWhenSame == Spec => []SharedWhenSame
<1>1. Init => CheckedInv
  BY DEF Init, CheckedInv
<1>2. OwnInv /\ CheckedInv => SharedWhenSame
  <2>. SUFFICES ASSUME OwnInv, CheckedInv, phase = "done", NEW i \in DOMAIN batch, NEW j \in DOMAIN batch,
                       NEW o \in compiledObjects(batch[i]), o \in compiledObjects(batch[j])
                PROVE  (alone(batch[i])[o].target = alone(batch[j])[o].target)
                         <=> (action(batch[i])[o] = action(batch[j])[o])
    BY DEF SharedWhenSame, sharesWhatIsSame
  <2>. DEFINE c == batch[i]
              e == batch[j]
              m == own(c, o)
              n == own(e, o)
  <2>1. /\ WellFormedConfig(c) /\ WellFormedConfig(e)
        /\ i \in 1..Len(configs) /\ j \in 1..Len(configs)
    BY ConfigsOfBatch DEF OwnInv, ConfigsOK
  <2>2. /\ \A p \in compiledObjects(c) : Holds(c, p)
        /\ \A p \in compiledObjects(e) : Holds(e, p)
    BY <2>1 DEF OwnInv, VariantsOK
  <2>3. accepted(c) /\ accepted(e)
    BY <2>2 DEF accepted, Holds
  <2>4. o \in visited(c) /\ o \in visited(e) /\ alone(c)[o] = m /\ alone(e)[o] = n
    BY <2>1, VisitedHasCompiled
  <2>5. m.id \in contentIDs /\ n.id \in contentIDs
    <3>1. m \in allVariants /\ n \in allVariants
      BY <2>2 DEF Holds, allVariants
    <3>. HIDE DEF m, n
    <3>. QED  BY <3>1 DEF contentIDs
  <2>6. m.target = targetOf(o, m.id) /\ n.target = targetOf(o, n.id)
    BY <2>1, <2>2, OwnVariant DEF Holds
  <2>7. sameThing(c, o, e, o)
    BY <2>1, <2>3, <2>4, SameThroughout
  <2>8. Short(m.id) = Short(n.id) <=> m.id = n.id
    <3>1. ~shortIDsCollide(contentIDs)
      BY DEF CheckedInv, contentIDsRefused
    <3>. HIDE DEF m, n
    <3>. QED  BY <2>5, <3>1 DEF shortIDsCollide
  <2>9. m.target = n.target <=> m.id = n.id
    <3>. HIDE DEF m, n
    <3>. QED  BY <2>6, <2>8 DEF targetOf
  <2>10. m.id = n.id <=> action(c)[o] = action(e)[o]
    BY <2>7 DEF sameThing
  <2>. QED  BY <2>4, <2>9, <2>10
<1>. QED  BY OwnInit, OwnNext, CheckedNext, <1>1, <1>2, PTL DEF Spec

-----------------------------------------------------------------------------
(* Where everything in the graph comes from. *)

(* The configurations whose header families have joined the graph. *)
resolved == {batch[i] : i \in 1..Len(configs)} \cup (IF phase = "objects" THEN {current} ELSE {})

FamiliesJoined(cfg) ==
    /\ ~familiesRefused(cfg)
    /\ \A f \in HeaderFamilies(cfg) : \E g \in families : g.id = f.id

FilesFrom == \A f \in files : \E cfg \in resolved : f \in inputsOf(cfg)

FamilyFrom(g, cfg) ==
    \E f \in HeaderFamilies(cfg) : g.id = f.id /\ g.payload = f.payload /\ g.name = f.name

VariantFrom(t, cfg) ==
    \E o \in compiledObjects(cfg) :
       ~variantRefused(cfg, o) /\ variants[t] = own(cfg, o) /\ t = own(cfg, o).target

(* Everything in the graph comes from a configuration that has joined it. *)
SourcesInv ==
    phase # "refused" =>
      /\ \A cfg \in resolved : FamiliesJoined(cfg)
      /\ FilesFrom
      /\ \A g \in families : \E cfg \in resolved : FamilyFrom(g, cfg)
      /\ \A t \in DOMAIN variants : \E cfg \in resolved : VariantFrom(t, cfg)

(* It holds at the start, *)
LEMMA SourcesInit == Init => SourcesInv
<1>. SUFFICES ASSUME Init  PROVE SourcesInv
  OBVIOUS
<1>1. phase = "start" /\ configs = <<>> /\ families = {} /\ files = {} /\ variants = <<>>
  BY DEF Init
<1>2. Len(configs) = 0 /\ DOMAIN variants = {}
  BY <1>1, EmptySeq
<1>3. resolved = {}
  BY <1>1, <1>2 DEF resolved
<1>. QED  BY <1>1, <1>2, <1>3 DEF SourcesInv, FilesFrom

(* Merging the families loses none and invents none. *)
LEMMA MergedFamilies ==
  ASSUME NEW cfg, WellFormedConfig(cfg), NEW all, all = mergeFamilies(HeaderFamilies(cfg))
  PROVE  /\ \A g \in families \cup HeaderFamilies(cfg) : \E h \in all : h.id = g.id
         /\ \A h \in all : \E g \in families \cup HeaderFamilies(cfg) :
               h.id = g.id /\ h.payload = g.payload /\ h.name = g.name
<1>. DEFINE new == HeaderFamilies(cfg)
            labelled(f) == [f EXCEPT !.labels = f.labels \cup UNION {g.labels : g \in {g \in families : g.id = f.id}}]
<1>1. all = {g \in families : \A f \in new : f.id # g.id} \cup {labelled(f) : f \in new}
  BY DEF mergeFamilies
<1>2. \A f \in new : labelled(f).id = f.id /\ labelled(f).payload = f.payload /\ labelled(f).name = f.name
  <2>. TAKE f \in new
  <2>1. PICK i : f = familyAt(cfg, i, familiesUpTo(cfg)[i - 1])
    BY FamilyOfFootprint
  <2>2. f = [name |-> f.name, id |-> f.id, payload |-> f.payload, deps |-> f.deps,
             inputs |-> f.inputs, labels |-> f.labels]
    BY <2>1 DEF familyAt
  <2>3. \A X : [f EXCEPT !.labels = X].id = f.id /\ [f EXCEPT !.labels = X].payload = f.payload
               /\ [f EXCEPT !.labels = X].name = f.name
    BY <2>2
  <2>. QED  BY <2>3
<1>. HIDE DEF new, labelled
<1>3. \A g \in families \cup new : \E h \in all : h.id = g.id
  BY <1>1, <1>2
<1>4. \A h \in all : \E g \in families \cup new : h.id = g.id /\ h.payload = g.payload /\ h.name = g.name
  BY <1>1, <1>2
<1>. QED  BY <1>3, <1>4 DEF new

(* a configuration that joins brings its families and their files, *)
LEMMA SourcesResolve ==
  ASSUME OwnInv, SourcesInv, ResolveConfig  PROVE SourcesInv'
<1>. SUFFICES ASSUME phase' # "refused"  PROVE SourcesInv'
  BY DEF SourcesInv
<1>. DEFINE new == HeaderFamilies(current)
<1>1. /\ phase = "start" /\ Len(configs) < Len(batch) /\ phase' = "objects"
      /\ ~familiesRefused(current)
      /\ families' = mergeFamilies(new)
      /\ files' = files \cup UNION {f.inputs : f \in new}
      /\ UNCHANGED <<batch, variants, configs>>
  BY DEF ResolveConfig, Refuse
<1>2. WellFormedConfig(current) /\ current' = current
  BY <1>1, CurrentIsNext DEF OwnInv, current
<1>3. resolved' = resolved \cup {current}
  BY <1>1, <1>2 DEF resolved
<1>4. /\ \A g \in families \cup new : \E h \in families' : h.id = g.id
      /\ \A h \in families' : \E g \in families \cup new :
            h.id = g.id /\ h.payload = g.payload /\ h.name = g.name
  BY <1>1, <1>2, MergedFamilies
<1>5. /\ \A cfg \in resolved : FamiliesJoined(cfg)
      /\ FilesFrom
      /\ \A g \in families : \E cfg \in resolved : FamilyFrom(g, cfg)
      /\ \A t \in DOMAIN variants : \E cfg \in resolved : VariantFrom(t, cfg)
  BY <1>1 DEF SourcesInv
<1>6. \A cfg \in resolved' : FamiliesJoined(cfg)'
  BY <1>1, <1>3, <1>4, <1>5 DEF FamiliesJoined
<1>7. FilesFrom'
  <2>1. \A f \in UNION {f.inputs : f \in new} : f \in inputsOf(current)
    BY DEF inputsOf
  <2>. QED  BY <1>1, <1>3, <1>5, <2>1 DEF FilesFrom
<1>8. \A h \in families' : \E cfg \in resolved' : FamilyFrom(h, cfg)
  <2>. TAKE h \in families'
  <2>1. PICK g \in families \cup new : h.id = g.id /\ h.payload = g.payload /\ h.name = g.name
    BY <1>4
  <2>2. CASE g \in new
    BY <1>3, <2>1, <2>2 DEF FamilyFrom
  <2>3. CASE g \in families
    <3>1. PICK cfg \in resolved : FamilyFrom(g, cfg)
      BY <1>5, <2>3
    <3>. QED  BY <1>3, <2>1, <3>1 DEF FamilyFrom
  <2>. QED  BY <2>1, <2>2, <2>3
<1>9. \A t \in DOMAIN variants' : \E cfg \in resolved' : VariantFrom(t, cfg)'
  BY <1>1, <1>3, <1>5 DEF VariantFrom
<1>. QED  BY <1>6, <1>7, <1>8, <1>9 DEF SourcesInv

(* A compiled object reads files of its configuration. *)
LEMMA ReadsInputs ==
  ASSUME NEW cfg, WellFormedConfig(cfg), NEW o \in compiledObjects(cfg), ~variantRefused(cfg, o)
  PROVE  own(cfg, o).fields.inputs \subseteq inputsOf(cfg)
<1>1. own(cfg, o).fields = fieldsIn(cfg, o)
  BY OwnVariant
<1>2. fieldsIn(cfg, o).inputs \subseteq scan(cfg, o).inputs
  BY DEF fieldsIn, fieldsOf
<1>. QED  BY <1>1, <1>2 DEF inputsOf

(* an object brings its variant and the files it reads, *)
LEMMA SourcesCompile ==
  ASSUME OwnInv, SourcesInv, CompileObject  PROVE SourcesInv'
<1>. SUFFICES ASSUME phase' # "refused"  PROVE SourcesInv'
  BY DEF SourcesInv
<1>1. ~Refuse /\ phase = "objects"
  BY DEF Refuse, CompileObject
<1>2. PICK o \in todo : /\ ~variantRefused(current, o)
                        /\ \E compiled \in {variantsBelow(current, memo, o)} :
                              Store(o, compiled, compiled[o])
  BY <1>1 DEF CompileObject
<1>. DEFINE v == own(current, o)
<1>3. /\ variants' = [t \in DOMAIN variants \cup {v.target} |-> IF t = v.target THEN v ELSE variants[t]]
      /\ files' = files \cup v.fields.inputs
      /\ UNCHANGED <<batch, phase, families, configs>>
  BY <1>1, <1>2, CompiledStep
<1>4. WellFormedConfig(current) /\ current' = current /\ o \in compiledObjects(current)
  BY <1>1, <1>3, CurrentIsNext DEF OwnInv, ConfigsOK, MemoOK, current
<1>5. resolved' = resolved /\ current \in resolved
  BY <1>1, <1>3, <1>4 DEF resolved
<1>6. /\ \A cfg \in resolved : FamiliesJoined(cfg)
      /\ FilesFrom
      /\ \A g \in families : \E cfg \in resolved : FamilyFrom(g, cfg)
      /\ \A t \in DOMAIN variants : \E cfg \in resolved : VariantFrom(t, cfg)
  BY <1>1 DEF SourcesInv
<1>7. \A cfg \in resolved' : FamiliesJoined(cfg)'
  BY <1>3, <1>5, <1>6 DEF FamiliesJoined
<1>8. FilesFrom'
  <2>1. v.fields.inputs \subseteq inputsOf(current)
    BY <1>2, <1>4, ReadsInputs
  <2>. QED  BY <1>3, <1>5, <1>6, <2>1 DEF FilesFrom
<1>9. \A t \in DOMAIN variants' : \E cfg \in resolved' : VariantFrom(t, cfg)'
  <2>. SUFFICES ASSUME NEW t \in DOMAIN variants'  PROVE \E cfg \in resolved : VariantFrom(t, cfg)'
    BY <1>5
  <2>1. CASE t = v.target
    BY <1>2, <1>3, <1>4, <1>5, <2>1 DEF VariantFrom
  <2>2. CASE t # v.target
    <3>1. t \in DOMAIN variants /\ variants'[t] = variants[t]
      BY <1>3, <2>2
    <3>. QED  BY <1>6, <3>1 DEF VariantFrom
  <2>. QED  BY <2>1, <2>2
<1>. QED  BY <1>3, <1>5, <1>6, <1>7, <1>8, <1>9 DEF SourcesInv

(* and a configuration that is done has joined. *)
LEMMA SourcesProject ==
  ASSUME OwnInv, SourcesInv, ProjectImage  PROVE SourcesInv'
<1>1. /\ phase = "objects" /\ phase' # "refused" /\ phase' # "objects"
      /\ UNCHANGED <<batch, variants, families, files>>
  BY DEF ProjectImage
<1>2. Len(configs') = Len(configs) + 1 /\ Len(configs) \in Nat
  <2>1. PICK p : configs' = Append(configs, p)
    BY DEF ProjectImage
  <2>2. configs = [i \in 1..Len(configs) |-> projected(batch[i])] /\ Len(configs) \in Nat
    BY <1>1, ConfigsOfBatch DEF OwnInv, ConfigsOK
  <2>. DEFINE P == {projected(batch[i]) : i \in 1..Len(configs)} \cup {p}
  <2>3. configs \in Seq(P) /\ p \in P
    <3>. DEFINE n == Len(configs)
    <3>1. configs \in [1..n -> P]
      <4>1. \A i \in 1..n : projected(batch[i]) \in P
        OBVIOUS
      <4>. HIDE DEF P, n
      <4>. QED  BY <2>2, <4>1 DEF n
    <3>. QED  BY <2>2, <3>1
  <2>. HIDE DEF P
  <2>. QED  BY <2>1, <2>2, <2>3, AppendProperties
<1>3. resolved' = resolved
  <2>1. 1..(Len(configs) + 1) = (1..Len(configs)) \cup {Len(configs) + 1}
    BY <1>2
  <2>. QED  BY <1>1, <1>2, <2>1 DEF resolved, current
<1>4. /\ \A cfg : FamiliesJoined(cfg)' <=> FamiliesJoined(cfg)
      /\ \A cfg, t : VariantFrom(t, cfg)' <=> VariantFrom(t, cfg)
  BY <1>1 DEF FamiliesJoined, VariantFrom
<1>. QED  BY <1>1, <1>3, <1>4 DEF SourcesInv, FilesFrom

(* Every step keeps it. *)
LEMMA SourcesNext == OwnInv /\ SourcesInv /\ [Next]_vars => SourcesInv'
<1>. SUFFICES ASSUME OwnInv, SourcesInv, [Next]_vars  PROVE SourcesInv'
  OBVIOUS
<1>1. CASE ValidateContentIDs \/ UNCHANGED vars
  <2>. SUFFICES ASSUME phase' # "refused"  PROVE SourcesInv'
    BY DEF SourcesInv
  <2>1. /\ phase # "refused"
        /\ phase = "objects" <=> phase' = "objects"
        /\ UNCHANGED <<batch, families, variants, files, configs>>
    BY <1>1 DEF ValidateContentIDs, Refuse, vars
  <2>2. current' = current
    BY <2>1 DEF current
  <2>3. resolved' = resolved
    BY <2>1, <2>2 DEF resolved
  <2>4. /\ \A cfg : FamiliesJoined(cfg)' <=> FamiliesJoined(cfg)
        /\ \A cfg, t : VariantFrom(t, cfg)' <=> VariantFrom(t, cfg)
    BY <2>1 DEF FamiliesJoined, VariantFrom
  <2>. QED  BY <2>1, <2>3, <2>4 DEF SourcesInv, FilesFrom
<1>. QED  BY <1>1, SourcesResolve, SourcesCompile, SourcesProject DEF Next, Done

-----------------------------------------------------------------------------
(* RefusedForCause. *)

(* The reasons for a refusal that a user can see. *)
namedTwice ==
    \E i, j \in DOMAIN batch : i # j /\ (\/ batch[i].name = batch[j].name
                                         \/ batch[i].image = batch[j].image)
oneRefused == \E i \in DOMAIN batch : batch[i].name = "" \/ refusedAlone(batch[i])
filesChanged == twoDigests(UNION {inputsOf(batch[i]) : i \in DOMAIN batch})
idsCollide == shortIDsCollide(UNION {contentIDsOf(batch[i]) : i \in DOMAIN batch})

cause == namedTwice \/ oneRefused \/ filesChanged \/ idsCollide

(* RefusedForCause, by the names of its causes. *)
LEMMA CauseIsCause == RefusedForCause <=> (phase = "refused" => cause)
BY DEF RefusedForCause, cause, namedTwice, oneRefused, filesChanged, idsCollide

(* The configurations that have joined are configurations of the batch. *)
LEMMA ResolvedOfBatch ==
  ASSUME OwnInv
  PROVE  /\ \A cfg \in resolved : WellFormedConfig(cfg) /\ \E i \in DOMAIN batch : cfg = batch[i]
         /\ phase = "metadata" => \A i \in DOMAIN batch : batch[i] \in resolved
<1>1. /\ Len(batch) \in Nat /\ DOMAIN batch = 1..Len(batch)
      /\ \A i \in 1..Len(batch) : WellFormedConfig(batch[i])
      /\ Len(configs) \in 0..Len(batch)
  BY ConfigsOfBatch DEF OwnInv, ConfigsOK
<1>2. \A i \in 1..Len(configs) : i \in DOMAIN batch
  BY <1>1
<1>3. phase = "objects" => Len(configs) + 1 \in DOMAIN batch
  BY <1>1 DEF OwnInv, ConfigsOK
<1>4. phase = "metadata" => Len(configs) = Len(batch)
  BY DEF OwnInv, ConfigsOK
<1>. QED  BY <1>1, <1>2, <1>3, <1>4 DEF resolved, current

(* A file of the batch with another digest than one already there. *)
LEMMA DigestsHaveCause ==
  ASSUME OwnInv, SourcesInv, phase # "refused", NEW i \in DOMAIN batch,
         NEW read, read \subseteq inputsOf(batch[i]), digestsDiffer(read)
  PROVE  filesChanged
<1>. DEFINE U == UNION {inputsOf(batch[k]) : k \in DOMAIN batch}
<1>1. files \subseteq U
  <2>. SUFFICES ASSUME NEW f \in files  PROVE f \in U
    OBVIOUS
  <2>1. PICK cfg \in resolved : f \in inputsOf(cfg)
    BY DEF SourcesInv, FilesFrom
  <2>2. PICK k \in DOMAIN batch : cfg = batch[k]
    BY <2>1, ResolvedOfBatch
  <2>. QED  BY <2>1, <2>2
<1>2. read \subseteq U
  OBVIOUS
<1>. HIDE DEF U
<1>3. \E f, g \in U : f[1] = g[1] /\ f[2] # g[2]
  BY <1>1, <1>2 DEF digestsDiffer
<1>. QED  BY <1>3 DEF filesChanged, twoDigests, U

(* An error of the header families or the names has a cause. *)
LEMMA ResolveHasCause ==
  ASSUME OwnInv, SourcesInv, ResolveConfig, phase' = "refused"  PROVE cause
<1>. DEFINE n == Len(configs) + 1
            inputs == UNION {f.inputs : f \in HeaderFamilies(current)}
<1>1. /\ phase = "start" /\ Len(configs) < Len(batch)
      /\ namesRefused \/ familiesRefused(current) \/ digestsDiffer(inputs)
  BY DEF ResolveConfig
<1>2. /\ n \in DOMAIN batch /\ current = batch[n]
      /\ \A i \in DOMAIN configs : /\ i \in DOMAIN batch /\ i # n
                                   /\ configs[i].name = batch[i].name
                                   /\ configs[i].image = batch[i].image
  BY <1>1, ConfigsOfBatch DEF OwnInv, ConfigsOK, current, projected
<1>. HIDE DEF n
<1>3. CASE current.name = ""
  BY <1>2, <1>3 DEF cause, oneRefused
<1>4. CASE \E i \in DOMAIN configs : configs[i].name = current.name \/ configs[i].image = current.image
  BY <1>2, <1>4 DEF cause, namedTwice
<1>5. CASE familiesRefused(current)
  BY <1>2, <1>5 DEF cause, oneRefused, refusedAlone
<1>6. CASE digestsDiffer(inputs)
  <2>1. inputs \subseteq inputsOf(current)
    BY DEF inputsOf
  <2>. HIDE DEF inputs
  <2>. QED  BY <1>1, <1>2, <1>6, <2>1, DigestsHaveCause DEF cause
<1>. QED  BY <1>1, <1>3, <1>4, <1>5, <1>6 DEF namesRefused

(* The targets of a variant's dependencies and members, from their IDs. *)
depTargets(ids) == {targetOf(id.object, id) : id \in ids}
targetList(ids) == [i \in DOMAIN ids |-> targetOf(ids[i].object, ids[i])]

(* A variant names the targets of the IDs that are hashed into its own. *)
LEMMA TargetsFromIDs ==
  ASSUME NEW c, WellFormedConfig(c), NEW x, ~variantRefused(c, x)
  PROVE  own(c, x).deps = depTargets(depIDs(c, x)) /\ own(c, x).members = targetList(memberIDs(c, x))
<1>1. \A d \in children(c, x) : ~variantRefused(c, d)
  <2>1. x \in below(c, x) /\ x \in DOMAIN c.objects
    BY BelowIsClosure, UnrefusedIsSound DEF sound
  <2>. QED  BY <2>1, BelowIsClosure, RefusedBelow
<1>2. \A d \in children(c, x) : own(c, d).target = targetOf(own(c, d).id.object, own(c, d).id)
  <2>. TAKE d \in children(c, x)
  <2>1. /\ own(c, d).target = targetOf(d, own(c, d).id)
        /\ own(c, d).id = objectVariantContentID(fieldsIn(c, d), depIDs(c, d), memberIDs(c, d))
    BY <1>1, OwnVariant
  <2>2. own(c, d).id.object = d
    <3>1. fieldsIn(c, d).object = d
      BY DEF fieldsIn, fieldsOf
    <3>2. \A F, a, m : objectVariantContentID(F, a, m).object = F.object
      BY DEF objectVariantContentID
    <3>. QED  BY <2>1, <3>1, <3>2
  <2>. QED  BY <2>1, <2>2
<1>3. /\ own(c, x).deps = {own(c, d).target : d \in asn1Deps(c, x)}
      /\ own(c, x).members = [i \in DOMAIN c.objects[x].members |-> own(c, c.objects[x].members[i]).target]
  BY OwnVariant
<1>4. {own(c, d).target : d \in asn1Deps(c, x)} = depTargets(depIDs(c, x))
  BY <1>2 DEF depTargets, depIDs, children
<1>5. \A i \in DOMAIN c.objects[x].members : c.objects[x].members[i] \in children(c, x)
  BY MemberIsChild DEF children
<1>6. targetList(memberIDs(c, x))
        = [i \in DOMAIN c.objects[x].members |-> own(c, c.objects[x].members[i]).target]
  BY <1>2, <1>5 DEF targetList, memberIDs
<1>. QED  BY <1>3, <1>4, <1>6

fieldsAsRead(F) ==
    [object |-> F.object, mode |-> F.mode, moduleRoot |-> F.moduleRoot, source |-> F.source,
     language |-> F.language, fragment |-> F.fragment, families |-> F.families,
     modname |-> F.modname, flags |-> F.flags, remove |-> F.remove,
     environment |-> F.environment, inputs |-> F.inputs, objtool |-> F.objtool,
     symversions |-> F.symversions]

(* The fields of a variant, one by one. *)
LEMMA FieldsAsRead ==
  ASSUME NEW cfg, NEW x  PROVE fieldsIn(cfg, x) = fieldsAsRead(fieldsIn(cfg, x))
BY DEF fieldsIn, fieldsOf, fieldsAsRead

(* A content ID decides the whole variant. *)
LEMMA IDDecidesVariant ==
  ASSUME NEW c, WellFormedConfig(c), NEW e, WellFormedConfig(e), NEW x,
         ~variantRefused(c, x), ~variantRefused(e, x), own(c, x).id = own(e, x).id
  PROVE  own(c, x) = own(e, x)
<1>. DEFINE F == fieldsIn(c, x)
            G == fieldsIn(e, x)
<1>1. /\ own(c, x).fields = F /\ own(e, x).fields = G
      /\ own(c, x).id = objectVariantContentID(F, depIDs(c, x), memberIDs(c, x))
      /\ own(e, x).id = objectVariantContentID(G, depIDs(e, x), memberIDs(e, x))
      /\ own(c, x).target = targetOf(x, own(c, x).id)
      /\ own(e, x).target = targetOf(x, own(e, x).id)
  BY OwnVariant
<1>2. /\ hashedFields(F) = hashedFields(G)
      /\ depIDs(c, x) = depIDs(e, x) /\ memberIDs(c, x) = memberIDs(e, x)
  <2>. HIDE DEF F, G
  <2>1. objectVariantContentID(F, depIDs(c, x), memberIDs(c, x))
          = objectVariantContentID(G, depIDs(e, x), memberIDs(e, x))
    BY <1>1
  <2>. QED  BY <2>1, SameID
<1>3. own(c, x).deps = own(e, x).deps /\ own(c, x).members = own(e, x).members
  BY <1>2, TargetsFromIDs
<1>4. isLeaf(c, x) <=> isLeaf(e, x)
  <2>1. x \in DOMAIN c.objects /\ x \in DOMAIN e.objects
    BY BelowIsClosure, UnrefusedIsSound DEF sound
  <2>2. DOMAIN memberIDs(c, x) = DOMAIN c.objects[x].members
        /\ DOMAIN memberIDs(e, x) = DOMAIN e.objects[x].members
    BY DEF memberIDs
  <2>. QED  BY <1>2, <2>1, <2>2, LeafByMembers
<1>5. F = G
  <2>1. /\ F.mode = G.mode /\ F.modname = G.modname /\ F.environment = G.environment
        /\ F.source = G.source /\ F.flags = G.flags /\ F.remove = G.remove
        /\ F.inputs = G.inputs /\ F.moduleRoot = G.moduleRoot /\ F.objtool = G.objtool
        /\ F.symversions = G.symversions
    <3>. HIDE DEF F, G
    <3>. QED  BY <1>2 DEF hashedFields
  <2>2. F.language = G.language /\ F.object = G.object
    BY <1>4 DEF fieldsIn, fieldsOf
  <2>3. F.fragment = G.fragment /\ F.families = G.families
    <3>1. CASE compiles(c, x)
      <4>1. /\ F.environment = {environmentID(payloadID(F.fragment), F.families)}
            /\ G.environment = {environmentID(payloadID(G.fragment), G.families)}
        BY <1>4, <3>1 DEF fieldsIn, fieldsOf, compiles
      <4>. HIDE DEF F, G
      <4>2. {environmentID(payloadID(F.fragment), F.families)}
              = {environmentID(payloadID(G.fragment), G.families)}
        BY <2>1, <4>1
      <4>3. environmentID(payloadID(F.fragment), F.families)
              = environmentID(payloadID(G.fragment), G.families)
        BY <4>2
      <4>4. payloadID(F.fragment) = payloadID(G.fragment) /\ F.families = G.families
        BY <4>3 DEF environmentID
      <4>. QED  BY <4>4 DEF payloadID
    <3>2. CASE ~compiles(c, x)
      <4>1. /\ F.fragment = {} /\ F.families = {} /\ G.fragment = {} /\ G.families = {}
        BY <1>4, <3>2 DEF fieldsIn, fieldsOf, compiles
      <4>. HIDE DEF F, G
      <4>. QED  BY <4>1
    <3>. QED  BY <3>1, <3>2
  <2>4. F = fieldsAsRead(F) /\ G = fieldsAsRead(G)
    BY FieldsAsRead
  <2>. HIDE DEF F, G
  <2>. QED  BY <2>1, <2>2, <2>3, <2>4 DEF fieldsAsRead
<1>6. /\ own(c, x) = [fields |-> own(c, x).fields, id |-> own(c, x).id,
                      target |-> own(c, x).target, deps |-> own(c, x).deps,
                      members |-> own(c, x).members]
      /\ own(e, x) = [fields |-> own(e, x).fields, id |-> own(e, x).id,
                      target |-> own(e, x).target, deps |-> own(e, x).deps,
                      members |-> own(e, x).members]
  BY OwnVariant
<1>. HIDE DEF F, G
<1>. QED  BY <1>1, <1>3, <1>5, <1>6

(* The IDs that a compiled object brings to the batch. *)
LEMMA OwnIDs ==
  ASSUME NEW cfg, WellFormedConfig(cfg), NEW o \in compiledObjects(cfg)
  PROVE  /\ own(cfg, o).id \in contentIDsOf(cfg)
         /\ \A e \in own(cfg, o).fields.environment : e \in contentIDsOf(cfg) /\ e.payload \in contentIDsOf(cfg)
<1>. DEFINE alone_ == {alone(cfg)[p] : p \in compiledObjects(cfg)}
<1>1. own(cfg, o) \in alone_
  BY VisitedHasCompiled
<1>2. variantIDs(alone_) \subseteq contentIDsOf(cfg)
  BY DEF contentIDsOf
<1>. HIDE DEF alone_
<1>. QED  BY <1>1, <1>2 DEF variantIDs, environmentIDs

(* An error of an object has a cause: no two variants clash but by their short IDs. *)
LEMMA CompileHasCause ==
  ASSUME OwnInv, SourcesInv, CompileObject, phase' = "refused"  PROVE cause
<1>. DEFINE n == Len(configs) + 1
<1>1. phase = "objects"
  BY DEF CompileObject
<1>2. /\ n \in DOMAIN batch /\ current = batch[n] /\ WellFormedConfig(current)
      /\ todo \subseteq compiledObjects(current)
      /\ \A x \in DOMAIN memo : memo[x] = own(current, x)
  BY <1>1, ConfigsOfBatch DEF OwnInv, ConfigsOK, MemoOK, current
<1>. HIDE DEF n
<1>3. PICK o \in todo :
        IF variantRefused(current, o) THEN Refuse
        ELSE \E compiled \in {variantsBelow(current, memo, o)} : Store(o, compiled, compiled[o])
  BY DEF CompileObject
<1>4. o \in compiledObjects(current)
  BY <1>2
<1>5. CASE variantRefused(current, o)
  BY <1>2, <1>4, <1>5 DEF cause, oneRefused, refusedAlone
<1>6. CASE ~variantRefused(current, o)
  <2>. DEFINE v == own(current, o)
  <2>1. variantsBelow(current, memo, o)[o] = v
    BY <1>2, <1>6, MemoAgrees, BelowIsClosure
  <2>2. \/ digestsDiffer(v.fields.inputs)
        \/ v.target \in DOMAIN variants /\ variants[v.target] # v
    BY <1>1, <1>3, <1>6, <2>1 DEF Store
  <2>3. CASE digestsDiffer(v.fields.inputs)
    <3>1. v.fields.inputs \subseteq inputsOf(batch[n])
      BY <1>2, <1>4, <1>6, ReadsInputs
    <3>. HIDE DEF v
    <3>. QED  BY <1>1, <1>2, <2>3, <3>1, DigestsHaveCause DEF cause
  <2>4. CASE v.target \in DOMAIN variants /\ variants[v.target] # v
    <3>1. PICK cfg \in resolved : VariantFrom(v.target, cfg)
      BY <1>1, <2>4 DEF SourcesInv
    <3>2. PICK p \in compiledObjects(cfg) :
             ~variantRefused(cfg, p) /\ variants[v.target] = own(cfg, p) /\ v.target = own(cfg, p).target
      BY <3>1 DEF VariantFrom
    <3>3. WellFormedConfig(cfg)
      BY <3>1, ResolvedOfBatch
    <3>4. PICK i \in DOMAIN batch : cfg = batch[i]
      BY <3>1, ResolvedOfBatch
    <3>5. v.target = targetOf(o, v.id) /\ v.target = targetOf(p, own(cfg, p).id)
      <4>1. own(current, o).target = targetOf(o, own(current, o).id)
        BY <1>2, <1>6, OwnVariant
      <4>2. own(cfg, p).target = targetOf(p, own(cfg, p).id)
        BY <3>2, <3>3, OwnVariant
      <4>. QED  BY <3>2, <4>1, <4>2
    <3>6. o = p /\ Short(v.id) = Short(own(cfg, p).id)
      BY <3>5 DEF targetOf
    <3>7. v.id # own(cfg, p).id
      BY <1>2, <1>6, <2>4, <3>2, <3>3, <3>6, IDDecidesVariant
    <3>8. v.id \in contentIDsOf(batch[n]) /\ own(cfg, p).id \in contentIDsOf(batch[i])
      BY <1>2, <1>4, <3>2, <3>3, <3>4, OwnIDs
    <3>. DEFINE U == UNION {contentIDsOf(batch[k]) : k \in DOMAIN batch}
    <3>9. v.id \in U /\ own(cfg, p).id \in U
      BY <1>2, <3>4, <3>8
    <3>10. shortIDsCollide(U)
      <4>. HIDE DEF U, v
      <4>. QED  BY <3>6, <3>7, <3>9 DEF shortIDsCollide
    <3>. QED  BY <3>10 DEF cause, idsCollide
  <2>. QED  BY <2>2, <2>3, <2>4
<1>. QED  BY <1>5, <1>6

(* The environment of a variant. *)
LEMMA OwnEnvironment ==
  ASSUME NEW cfg, WellFormedConfig(cfg), NEW o, ~variantRefused(cfg, o),
         NEW e \in own(cfg, o).fields.environment
  PROVE  e.families = selectForAction(HeaderFamilies(cfg), scan(cfg, o).includes, needsAllHeaders(o))
<1>1. own(cfg, o).fields = fieldsIn(cfg, o)
  BY OwnVariant
<1>. DEFINE chosenIDs == selectForAction(HeaderFamilies(cfg), scan(cfg, o).includes, needsAllHeaders(o))
            p == payloadID(fragmentOf(cfg, o, scan(cfg, o)))
<1>2. fieldsIn(cfg, o).environment = IF compiles(cfg, o) THEN {environmentID(p, chosenIDs)} ELSE {}
  BY DEF fieldsIn, fieldsOf, compiles
<1>. HIDE DEF chosenIDs, p
<1>3. e = environmentID(p, chosenIDs)
  BY <1>1, <1>2
<1>. QED  BY <1>3 DEF environmentID, chosenIDs

(* The families of an environment are there, one of each name, and the all *)
(* family is alone unless the object's includes mix it with another.       *)
LEMMA EnvironmentHasCause ==
  ASSUME OwnInv, SourcesInv, phase = "metadata",
         NEW cfg \in resolved, NEW o \in compiledObjects(cfg), ~variantRefused(cfg, o),
         NEW e \in own(cfg, o).fields.environment, environmentRefused(e)
  PROVE  mixesFamilies(cfg, o)
<1>. DEFINE used == HeaderFamilies(cfg)
            includes == scan(cfg, o).includes
            ids == selectForAction(used, includes, needsAllHeaders(o))
<1>1. WellFormedConfig(cfg) /\ FamiliesJoined(cfg)
  BY ResolvedOfBatch DEF SourcesInv
<1>2. e.families = ids
  BY <1>1, OwnEnvironment
<1>3. \A x \in ids : \E f \in used : f.id = x
  BY SelectedAreFamilies
<1>4. ids \subseteq {g.id : g \in families}
  BY <1>1, <1>3 DEF FamiliesJoined
<1>5. \A x \in ids : familyOf(x).name = x.name
  <2>. TAKE x \in ids
  <2>1. familyOf(x) \in families /\ familyOf(x).id = x
    BY <1>4 DEF familyOf
  <2>2. PICK c \in resolved : FamilyFrom(familyOf(x), c)
    BY <2>1 DEF SourcesInv
  <2>3. PICK f \in HeaderFamilies(c) : familyOf(x).id = f.id /\ familyOf(x).name = f.name
    BY <2>2 DEF FamilyFrom
  <2>4. WellFormedConfig(c)
    BY ResolvedOfBatch
  <2>5. f.id.name = f.name
    BY <2>4, FamilyDescribed
  <2>. QED  BY <2>1, <2>3, <2>5
<1>6. \A x, y \in ids : x.name = y.name => x = y
  <2>. SUFFICES ASSUME NEW x \in ids, NEW y \in ids, x.name = y.name  PROVE x = y
    OBVIOUS
  <2>1. PICK f \in used : f.id = x
    BY <1>3
  <2>2. PICK g \in used : g.id = y
    BY <1>3
  <2>3. f.id.name = f.name /\ g.id.name = g.name
    BY <1>1, FamilyDescribed
  <2>4. f = g
    BY <1>1, <2>1, <2>2, <2>3, FamilyByName DEF FamiliesJoined
  <2>. QED  BY <2>1, <2>2, <2>4
<1>7. PICK a \in ids : a.name = All /\ Cardinality(ids) > 1
  BY <1>2, <1>4, <1>5, <1>6 DEF environmentRefused
<1>8. PICK b \in ids : b.name # All
  <2>1. ASSUME \A b \in ids : b.name = All  PROVE FALSE
    <3>1. ids = {a}
      BY <1>6, <1>7, <2>1
    <3>2. Cardinality({a}) = 1
      BY FS_Singleton
    <3>. QED  BY <1>7, <3>1, <3>2
  <2>. QED  BY <2>1
<1>9. \A x \in ids : \A names : ids = idsOf(used, names) => x.name \in names
  <2>. SUFFICES ASSUME NEW x \in ids, NEW names, ids = idsOf(used, names)  PROVE x.name \in names
    OBVIOUS
  <2>1. PICK f \in used : f.id = x /\ f.name \in names
    BY DEF idsOf
  <2>2. f.id.name = f.name
    BY <1>1, FamilyDescribed
  <2>. QED  BY <2>1, <2>2
<1>10. ids # idsOf(used, {All})
  BY <1>8, <1>9
<1>11. /\ ~needsAllHeaders(o) /\ ids = idsOf(used, includes)
       /\ ~(monolithic(used) /\ includes # {})
  <2>1. ids # {}
    BY <1>7
  <2>. QED  BY <1>10, <2>1 DEF selectForAction
<1>12. All \in includes /\ b.name \in includes
  BY <1>7, <1>8, <1>9, <1>11
<1>. QED  BY <1>8, <1>11, <1>12 DEF mixesFamilies

(* The objects a variant names are there, unless one is of the Rust SDK. *)
LEMMA NamedAreThere ==
  ASSUME OwnInv, SourcesInv, phase = "metadata",
         NEW i \in DOMAIN batch, NEW o \in compiledObjects(batch[i]), ~refusedAlone(batch[i])
  PROVE  \A d \in children(batch[i], o) : Holds(batch[i], d)
<1>. DEFINE c == batch[i]
<1>1. WellFormedConfig(c) /\ \A p \in compiledObjects(c) : Holds(c, p)
  BY ConfigsOfBatch DEF OwnInv, ConfigsOK, VariantsOK
<1>2. accepted(c)
  BY <1>1 DEF accepted, Holds
<1>3. o \in visited(c) /\ sound(c, visited(c))
  BY <1>1, <1>2, VisitedIsSound, VisitedHasCompiled
<1>4. \A d \in children(c, o) : d \in visited(c) /\ d \in DOMAIN c.objects
  BY <1>3 DEF sound
<1>5. \A d \in visited(c) : ~rustSDKOwnsObject(d)
  BY DEF refusedAlone
<1>. QED  BY <1>1, <1>4, <1>5 DEF compiledObjects

(* Every content ID that is checked is one that a configuration brings. *)
LEMMA IDsFromBatch ==
  ASSUME OwnInv, SourcesInv, phase = "metadata"
  PROVE  contentIDs \subseteq UNION {contentIDsOf(batch[i]) : i \in DOMAIN batch}
<1>. DEFINE U == UNION {contentIDsOf(batch[i]) : i \in DOMAIN batch}
<1>1. \A cfg \in resolved : WellFormedConfig(cfg) /\ contentIDsOf(cfg) \subseteq U
  <2>. TAKE cfg \in resolved
  <2>1. PICK i \in DOMAIN batch : cfg = batch[i]
    BY ResolvedOfBatch
  <2>. QED  BY <2>1, ResolvedOfBatch
<1>2. \A i \in DOMAIN batch : payloadID(fullConfigFragment(batch[i])) \in contentIDsOf(batch[i])
  BY DEF contentIDsOf
<1>3. \A cfg, f : f \in HeaderFamilies(cfg) => f.id \in contentIDsOf(cfg) /\ f.payload \in contentIDsOf(cfg)
  BY DEF contentIDsOf
<1>4. {payloadID(fullConfigFragment(batch[i])) : i \in DOMAIN batch} \subseteq U
  BY <1>2
<1>. HIDE DEF U
<1>5. \A g \in families : g.id \in U /\ g.payload \in U
  <2>. TAKE g \in families
  <2>1. PICK cfg \in resolved : FamilyFrom(g, cfg)
    BY DEF SourcesInv
  <2>. QED  BY <1>1, <1>3, <2>1 DEF FamilyFrom
<1>6. \A v \in allVariants : /\ v.id \in U
                             /\ \A e \in v.fields.environment : e \in U /\ e.payload \in U
  <2>. TAKE v \in allVariants
  <2>1. PICK t \in DOMAIN variants : v = variants[t]
    BY DEF allVariants
  <2>2. PICK cfg \in resolved : VariantFrom(t, cfg)
    BY <2>1 DEF SourcesInv
  <2>3. PICK o \in compiledObjects(cfg) : v = own(cfg, o)
    BY <2>1, <2>2 DEF VariantFrom
  <2>. QED  BY <1>1, <2>3, OwnIDs
<1>7. \A e \in environments : e \in U /\ e.payload \in U
  BY <1>6 DEF environments
<1>8. payloads \subseteq U
  BY <1>4, <1>5, <1>7 DEF payloads
<1>9. contentIDs \subseteq U
  BY <1>5, <1>6, <1>7, <1>8 DEF contentIDs
<1>. QED  BY <1>9 DEF U

(* What validateContentIDs finds of the variants. *)
LEMMA VariantChecks ==
  ASSUME OwnInv, SourcesInv, phase = "metadata",
         NEW i \in DOMAIN batch, NEW o \in compiledObjects(batch[i]), ~refusedAlone(batch[i]),
         NEW v, v = own(batch[i], o)
  PROVE  referenced(v) \subseteq DOMAIN variants /\ expectedID(v) = v.id /\ ~primaryMissing(v)
<1>. DEFINE c == batch[i]
<1>1. WellFormedConfig(c) /\ Holds(c, o)
  BY ConfigsOfBatch DEF OwnInv, ConfigsOK, VariantsOK
<1>2. \A d \in children(c, o) : Holds(c, d)
  BY NamedAreThere
<1>. DEFINE F == fieldsIn(c, o)
            M == c.objects[o].members
<1>3. /\ v.fields = F
      /\ v.id = objectVariantContentID(F, depIDs(c, o), memberIDs(c, o))
      /\ v.deps = {own(c, d).target : d \in asn1Deps(c, o)}
      /\ v.members = [k \in DOMAIN M |-> own(c, M[k]).target]
  BY <1>1, OwnVariant DEF Holds
<1>4. \A k \in DOMAIN M : Holds(c, M[k])
  BY <1>2, MemberIsChild DEF children
<1>5. \A d \in asn1Deps(c, o) : Holds(c, d)
  BY <1>2 DEF children
<1>6. ~primaryMissing(v)
  <2>1. F.source = sourceOf(c, o)
    BY DEF fieldsIn, fieldsOf
  <2>2. sourceOf(c, o) # "" => F.inputs = scan(c, o).inputs
    BY DEF fieldsIn, fieldsOf, sourceOf
  <2>3. o \in DOMAIN c.objects
    BY DEF compiledObjects
  <2>4. sourceOf(c, o) # "" => sourceOf(c, o) \in {f[1] : f \in scan(c, o).inputs}
    BY <1>1, <2>3 DEF WellFormedConfig
  <2>. HIDE DEF F, c
  <2>. QED  BY <1>3, <2>1, <2>2, <2>4 DEF primaryMissing
<1>. HIDE DEF F, M
<1>7. referenced(v) \subseteq DOMAIN variants
  <2>1. ToSet(v.members) \subseteq DOMAIN variants
    BY <1>3, <1>4 DEF Holds, ToSet
  <2>2. v.deps \subseteq DOMAIN variants
    BY <1>3, <1>5 DEF Holds
  <2>. QED  BY <2>1, <2>2 DEF referenced
<1>8. {variants[t].id : t \in v.deps} = depIDs(c, o)
  <2>1. \A d \in asn1Deps(c, o) : variants[own(c, d).target].id = own(c, d).id
    BY <1>5 DEF Holds
  <2>. QED  BY <1>3, <2>1 DEF depIDs
<1>9. [k \in DOMAIN v.members |-> variants[v.members[k]].id] = memberIDs(c, o)
  <2>1. DOMAIN v.members = DOMAIN M /\ \A k \in DOMAIN M : v.members[k] = own(c, M[k]).target
    BY <1>3
  <2>2. \A k \in DOMAIN M : variants[v.members[k]].id = own(c, M[k]).id
    BY <1>4, <2>1 DEF Holds
  <2>3. memberIDs(c, o) = [k \in DOMAIN M |-> own(c, M[k]).id]
    BY DEF memberIDs, M
  <2>. QED  BY <2>1, <2>2, <2>3
<1>10. objectVariantContentID(v.fields, depIDs(c, o), memberIDs(c, o)) = v.id
  BY <1>3
<1>. QED  BY <1>6, <1>7, <1>8, <1>9, <1>10 DEF expectedID

(* An error of validateContentIDs has a cause. *)
LEMMA ValidateHasCause ==
  ASSUME OwnInv, SourcesInv, ValidateContentIDs, phase' = "refused"  PROVE cause
<1>1. phase = "metadata" /\ contentIDsRefused
  BY DEF ValidateContentIDs
<1>2. CASE shortIDsCollide(contentIDs)
  <2>. DEFINE U == UNION {contentIDsOf(batch[i]) : i \in DOMAIN batch}
  <2>1. contentIDs \subseteq U
    BY <1>1, IDsFromBatch
  <2>2. shortIDsCollide(U)
    <3>. HIDE DEF U
    <3>. QED  BY <1>2, <2>1 DEF shortIDsCollide
  <2>. QED  BY <2>2 DEF cause, idsCollide
<1>3. \A v \in allVariants : \E i \in DOMAIN batch : batch[i] \in resolved /\ \E o \in compiledObjects(batch[i]) :
        ~variantRefused(batch[i], o) /\ v = own(batch[i], o)
  <2>. TAKE v \in allVariants
  <2>1. PICK t \in DOMAIN variants : v = variants[t]
    BY DEF allVariants
  <2>2. PICK cfg \in resolved : VariantFrom(t, cfg)
    BY <1>1, <2>1 DEF SourcesInv
  <2>3. PICK i \in DOMAIN batch : cfg = batch[i]
    BY ResolvedOfBatch
  <2>. QED  BY <2>1, <2>2, <2>3 DEF VariantFrom
<1>4. CASE \E e \in environments : environmentRefused(e)
  <2>1. PICK e \in environments : environmentRefused(e)
    BY <1>4
  <2>2. PICK v \in allVariants : e \in v.fields.environment
    BY DEF environments
  <2>3. PICK i \in DOMAIN batch : batch[i] \in resolved /\ \E o \in compiledObjects(batch[i]) :
           ~variantRefused(batch[i], o) /\ v = own(batch[i], o)
    BY <1>3
  <2>4. PICK o \in compiledObjects(batch[i]) : ~variantRefused(batch[i], o) /\ v = own(batch[i], o)
    BY <2>3
  <2>5. mixesFamilies(batch[i], o)
    BY <1>1, <2>1, <2>2, <2>3, <2>4, EnvironmentHasCause
  <2>. QED  BY <2>4, <2>5 DEF cause, oneRefused, refusedAlone
<1>5. CASE \E v \in allVariants : \/ ~(referenced(v) \subseteq DOMAIN variants)
                                  \/ expectedID(v) # v.id
                                  \/ primaryMissing(v)
  <2>1. PICK v \in allVariants : \/ ~(referenced(v) \subseteq DOMAIN variants)
                                 \/ expectedID(v) # v.id
                                 \/ primaryMissing(v)
    BY <1>5
  <2>2. PICK i \in DOMAIN batch : \E o \in compiledObjects(batch[i]) :
           ~variantRefused(batch[i], o) /\ v = own(batch[i], o)
    BY <1>3
  <2>3. refusedAlone(batch[i])
    BY <1>1, <2>1, <2>2, VariantChecks
  <2>. QED  BY <2>3 DEF cause, oneRefused
<1>. QED  BY <1>1, <1>2, <1>4, <1>5 DEF contentIDsRefused

(* Every step that refuses has a cause. *)
LEMMA CauseNext ==
  ASSUME OwnInv, SourcesInv, RefusedForCause, [Next]_vars  PROVE RefusedForCause'
<1>1. batch' = batch
  BY DEF Next, ResolveConfig, CompileObject, Store, ProjectImage, ValidateContentIDs, Done, Refuse, vars
<1>2. cause' <=> cause
  BY <1>1 DEF cause, namedTwice, oneRefused, filesChanged, idsCollide
<1>3. phase = "refused" => cause
  BY CauseIsCause
<1>4. phase' = "refused" => cause
  <2>. SUFFICES ASSUME phase' = "refused"  PROVE cause
    OBVIOUS
  <2>1. CASE phase = "refused"
    BY <1>3, <2>1
  <2>2. CASE ResolveConfig
    BY <2>2, ResolveHasCause
  <2>3. CASE CompileObject
    BY <2>3, CompileHasCause
  <2>4. CASE ProjectImage
    BY <2>4 DEF ProjectImage
  <2>5. CASE ValidateContentIDs
    BY <2>5, ValidateHasCause
  <2>6. CASE UNCHANGED vars
    BY <1>3, <2>6 DEF vars
  <2>. QED  BY <2>1, <2>2, <2>3, <2>4, <2>5, <2>6 DEF Next, Done
<1>5. RefusedForCause' <=> (phase' = "refused" => cause')
  BY DEF RefusedForCause, cause, namedTwice, oneRefused, filesChanged, idsCollide
<1>. QED  BY <1>2, <1>4, <1>5

(* A batch is refused for a reason the user can see (RefusedForCause). *)
THEOREM RefusalHasCause == Spec => []RefusedForCause
<1>1. Init => RefusedForCause
  BY DEF Init, RefusedForCause
<1>. QED  BY OwnInit, OwnNext, SourcesInit, SourcesNext, CauseNext, <1>1, PTL DEF Spec

-----------------------------------------------------------------------------
(* The graph. *)

GraphFinite == IsFiniteSet(DOMAIN variants)

(* The graph has finitely many variants. *)
LEMMA FiniteInit == Init => GraphFinite
<1>. SUFFICES ASSUME Init  PROVE GraphFinite
  OBVIOUS
<1>1. DOMAIN variants = {}
  BY EmptySeq DEF Init
<1>. QED  BY <1>1, FS_EmptySet DEF GraphFinite

LEMMA FiniteNext == GraphFinite /\ [Next]_vars => GraphFinite'
<1>. SUFFICES ASSUME GraphFinite, [Next]_vars  PROVE GraphFinite'
  OBVIOUS
<1>1. CASE UNCHANGED variants
  BY <1>1 DEF GraphFinite
<1>2. CASE ~UNCHANGED variants
  <2>1. CompileObject /\ ~Refuse
    BY <1>2 DEF Next, Done, vars, Refuse, ResolveConfig, ProjectImage, ValidateContentIDs
  <2>2. PICK o, compiled : Store(o, compiled, compiled[o])
    BY <2>1 DEF CompileObject
  <2>3. variants' = [t \in DOMAIN variants \cup {compiled[o].target} |->
                       IF t = compiled[o].target THEN compiled[o] ELSE variants[t]]
    BY <2>1, <2>2 DEF Store
  <2>4. DOMAIN variants' = DOMAIN variants \cup {compiled[o].target}
    BY <2>3
  <2>. QED  BY <2>4, FS_AddElement DEF GraphFinite
<1>. QED  BY <1>1, <1>2

(* No two configurations of the graph have one name. *)
NamesOK ==
    /\ \A i, j \in 1..Len(configs) : configs[i].name = configs[j].name => i = j
    /\ phase = "objects" => \A i \in 1..Len(configs) : configs[i].name # current.name

LEMMA NamesInit == Init => NamesOK
<1>. SUFFICES ASSUME Init  PROVE NamesOK
  OBVIOUS
<1>1. configs = <<>> /\ phase = "start" /\ Len(configs) = 0
  BY DEF Init
<1>. QED  BY <1>1 DEF NamesOK

LEMMA NamesNext == OwnInv /\ NamesOK /\ [Next]_vars => NamesOK'
<1>. SUFFICES ASSUME OwnInv, NamesOK, [Next]_vars  PROVE NamesOK'
  OBVIOUS
<1>1. Len(configs) \in Nat /\ configs = [i \in 1..Len(configs) |-> projected(batch[i])]
  BY ConfigsOfBatch DEF OwnInv, ConfigsOK
<1>2. CASE Refuse
  BY <1>2 DEF Refuse, NamesOK
<1>3. CASE ~Refuse /\ ResolveConfig
  <2>1. ~namesRefused /\ UNCHANGED <<batch, configs>>
    BY <1>3 DEF ResolveConfig
  <2>2. current' = current /\ DOMAIN configs = 1..Len(configs)
    BY <1>1, <2>1 DEF current
  <2>. QED  BY <2>1, <2>2 DEF NamesOK, namesRefused
<1>4. CASE ~Refuse /\ CompileObject
  <2>1. UNCHANGED <<batch, phase, configs>>
    BY <1>4 DEF CompileObject, Store
  <2>. QED  BY <2>1 DEF NamesOK, current
<1>5. CASE ProjectImage
  <2>. DEFINE new == [name |-> current.name, image |-> current.image,
                      targets |-> imageTargets(current, memo), modules |-> moduleTargets(current, memo)]
  <2>1. phase = "objects" /\ phase' # "objects" /\ configs' = Append(configs, new)
    BY <1>5 DEF ProjectImage
  <2>2. new.name = current.name
    OBVIOUS
  <2>. HIDE DEF new
  <2>3. /\ Len(configs') = Len(configs) + 1 /\ configs'[Len(configs) + 1] = new
        /\ \A i \in 1..Len(configs) : configs'[i] = configs[i]
    <3>1. configs \in Seq({configs[i] : i \in 1..Len(configs)} \cup {new})
      BY <1>1
    <3>. QED  BY <2>1, <3>1, AppendProperties
  <2>4. ASSUME NEW i \in 1..Len(configs'), NEW j \in 1..Len(configs'), configs'[i].name = configs'[j].name
        PROVE  i = j
    <3>1. \A k \in 1..Len(configs) : configs[k].name # current.name
      BY <2>1 DEF NamesOK
    <3>2. i \in 1..Len(configs) \/ i = Len(configs) + 1
      BY <1>1, <2>3
    <3>3. j \in 1..Len(configs) \/ j = Len(configs) + 1
      BY <1>1, <2>3
    <3>. QED  BY <2>2, <2>3, <2>4, <3>1, <3>2, <3>3 DEF NamesOK
  <2>. QED  BY <2>1, <2>4 DEF NamesOK
<1>6. CASE ~Refuse /\ ValidateContentIDs
  <2>1. phase' = "done" /\ UNCHANGED configs
    BY <1>6 DEF ValidateContentIDs
  <2>. QED  BY <2>1 DEF NamesOK
<1>7. CASE UNCHANGED vars
  BY <1>7 DEF vars, NamesOK, current
<1>. QED  BY <1>2, <1>3, <1>4, <1>5, <1>6, <1>7 DEF Next, Done

(* What is reached from some targets is closed. *)
LEMMA ReachedIsClosed ==
  ASSUME GraphFinite, NEW S
  PROVE  /\ S \subseteq closureOf(S)
         /\ \A t \in closureOf(S) \cap DOMAIN variants : referenced(variants[t]) \subseteq closureOf(S)
<1>. DEFINE next == [t \in DOMAIN variants |-> referenced(variants[t])]
<1>1. IsFiniteSet(DOMAIN next) /\ DOMAIN next = DOMAIN variants
  BY DEF GraphFinite
<1>2. \A t \in DOMAIN variants : next[t] = referenced(variants[t])
  OBVIOUS
<1>3. closureOf(S) = visitedFrom(next, S)
  BY DEF closureOf
<1>. HIDE DEF next
<1>. QED  BY <1>1, <1>2, <1>3, VisitedIsClosure DEF closedUnder

-----------------------------------------------------------------------------
(* The groups and the plan. *)

needed == UNION {reachable(configs[i]) : i \in DOMAIN configs}

namesOf(t) == {configs[i].name : i \in {i \in DOMAIN configs : t \in reachable(configs[i])}}

keyOf(t) == <<compactConcreteRecipe(variants[t]), namesOf(t)>>

groupFor(t) ==
    [recipe |-> keyOf(t)[1], configs |-> keyOf(t)[2], targets |-> {u \in needed : keyOf(u) = keyOf(t)}]

(* The groups are those of what is reached. *)
LEMMA GroupsAreKeyed == deriveActionGroups = {groupFor(t) : t \in needed}
<1>. DEFINE reach == [i \in DOMAIN configs |-> reachable(configs[i])]
            names(t) == {configs[i].name : i \in {i \in DOMAIN configs : t \in reach[i]}}
            keys == [t \in UNION {reach[i] : i \in DOMAIN configs} |->
                       <<compactConcreteRecipe(variants[t]), names(t)>>]
<1>1. deriveActionGroups = groupsOf(keys)
  BY DEF deriveActionGroups
<1>2. \A i \in DOMAIN configs : reach[i] = reachable(configs[i])
  OBVIOUS
<1>3. UNION {reach[i] : i \in DOMAIN configs} = needed
  BY <1>2 DEF needed
<1>4. \A t : names(t) = namesOf(t)
  BY <1>2 DEF namesOf
<1>5. DOMAIN keys = needed /\ \A t \in needed : keys[t] = keyOf(t)
  BY <1>3, <1>4 DEF keyOf
<1>. HIDE DEF keys
<1>. DEFINE of(k, T) == [recipe |-> k[1], configs |-> k[2], targets |-> T]
            with(k) == {t \in DOMAIN keys : keys[t] = k}
            sharing(k) == {u \in needed : keyOf(u) = k}
            values == {keys[t] : t \in DOMAIN keys}
<1>6. \A k : with(k) = sharing(k)
  BY <1>5
<1>7. values = {keyOf(t) : t \in needed}
  BY <1>5
<1>8. groupsOf(keys) = {of(k, with(k)) : k \in values}
  BY DEF groupsOf
<1>9. \A t : groupFor(t) = of(keyOf(t), sharing(keyOf(t)))
  BY DEF groupFor
<1>. HIDE DEF of, with, sharing, values
<1>10. groupsOf(keys) = {of(k, sharing(k)) : k \in values}
  BY <1>6, <1>8
<1>. QED  BY <1>1, <1>7, <1>9, <1>10

legacy == legacyTargets(deriveActionGroups)

emissionFor(t) ==
    [group |-> groupFor(t), grouped |-> groupFor(t).targets \ legacy, legacy |-> groupFor(t).targets \cap legacy]

(* The plan has one emission for each key, *)
LEMMA PlanIsKeyed == emissions = {emissionFor(t) : t \in needed}
BY GroupsAreKeyed DEF emissions, plannedFor, split, legacy, emissionFor

(* and an emission is that of each of its targets. *)
LEMMA EmissionOfTarget ==
  ASSUME NEW e \in emissions
  PROVE  /\ e.grouped \cap e.legacy = {}
         /\ e.grouped = {t \in needed : e = emissionFor(t) /\ t \notin legacy}
         /\ e.legacy = {t \in needed : e = emissionFor(t) /\ t \in legacy}
         /\ \A t \in e.grouped \cup e.legacy : e.group.configs = namesOf(t)
<1>1. PICK u \in needed : e = emissionFor(u)
  BY PlanIsKeyed
<1>2. /\ e.group = groupFor(u) /\ e.grouped = groupFor(u).targets \ legacy
      /\ e.legacy = groupFor(u).targets \cap legacy
  BY <1>1 DEF emissionFor
<1>3. /\ groupFor(u).targets = {t \in needed : keyOf(t) = keyOf(u)}
      /\ groupFor(u).configs = keyOf(u)[2] /\ keyOf(u)[2] = namesOf(u)
  BY DEF groupFor, keyOf
<1>4. \A t \in needed : keyOf(t) = keyOf(u) <=> e = emissionFor(t)
  <2>. TAKE t \in needed
  <2>1. ASSUME keyOf(t) = keyOf(u)  PROVE e = emissionFor(t)
    <3>1. groupFor(t) = groupFor(u)
      BY <2>1 DEF groupFor
    <3>. QED  BY <1>1, <3>1 DEF emissionFor
  <2>2. ASSUME e = emissionFor(t)  PROVE keyOf(t) = keyOf(u)
    <3>1. e.group = groupFor(t)
      BY <2>2 DEF emissionFor
    <3>2. groupFor(t).targets = groupFor(u).targets
      BY <1>2, <3>1
    <3>3. t \in groupFor(t).targets
      BY DEF groupFor
    <3>. QED  BY <1>3, <3>2, <3>3
  <2>. QED  BY <2>1, <2>2
<1>5. \A t \in needed : keyOf(t) = keyOf(u) => namesOf(t) = namesOf(u)
  BY DEF keyOf
<1>. QED  BY <1>2, <1>3, <1>4, <1>5

(* What is built is the plan. *)
LEMMA BuiltIsPlan ==
  ASSUME NEW plan \in built
  PROVE  plan = emissions /\ phase = "done" /\ ~reachesUnknown
BY DEF built

(* Only variants of the graph are emitted. *)
LEMMA NeededAreVariants ==
  ASSUME ~reachesUnknown  PROVE needed \subseteq DOMAIN variants
BY DEF reachesUnknown, needed

-----------------------------------------------------------------------------
(* BuiltOnceAsItself. *)

(* Each variant that is reached is built by one rule, and no other by any. *)
LEMMA EachByOneRule == OneRuleEach
<1>. SUFFICES ASSUME NEW plan \in built, NEW t \in DOMAIN variants
              PROVE  Cardinality({b \in plan \X {"grouped", "legacy"} : t \in b[1][b[2]]})
                       = IF t \in needed THEN 1 ELSE 0
  BY DEF OneRuleEach, needed
<1>. DEFINE D == {b \in plan \X {"grouped", "legacy"} : t \in b[1][b[2]]}
            kind == IF t \in legacy THEN "legacy" ELSE "grouped"
<1>1. plan = emissions
  BY BuiltIsPlan
<1>2. \A e \in emissions : \A k \in {"grouped", "legacy"} :
         t \in e[k] <=> t \in needed /\ e = emissionFor(t) /\ k = kind
  <2>. TAKE e \in emissions
  <2>1. t \in e["grouped"] <=> t \in needed /\ e = emissionFor(t) /\ t \notin legacy
    BY EmissionOfTarget
  <2>2. t \in e["legacy"] <=> t \in needed /\ e = emissionFor(t) /\ t \in legacy
    BY EmissionOfTarget
  <2>. QED  BY <2>1, <2>2
<1>3. kind \in {"grouped", "legacy"}
  OBVIOUS
<1>. HIDE DEF kind
<1>4. CASE t \in needed
  <2>1. emissionFor(t) \in emissions
    BY <1>4, PlanIsKeyed
  <2>2. \A x : x \in D <=> x = <<emissionFor(t), kind>>
    <3>. TAKE x
    <3>1. ASSUME x \in D  PROVE x = <<emissionFor(t), kind>>
      <4>1. PICK e \in plan, k \in {"grouped", "legacy"} : x = <<e, k>> /\ t \in e[k]
        BY <3>1
      <4>. QED  BY <1>1, <1>2, <4>1
    <3>2. <<emissionFor(t), kind>> \in D
      <4>1. t \in emissionFor(t)[kind]
        BY <1>2, <1>3, <1>4, <2>1
      <4>. QED  BY <1>1, <1>3, <2>1, <4>1
    <3>. QED  BY <3>1, <3>2
  <2>3. D = {<<emissionFor(t), kind>>}
    <3>. HIDE DEF D
    <3>. QED  BY <2>2
  <2>4. Cardinality(D) = 1
    BY <2>3, FS_Singleton
  <2>. QED  BY <1>4, <2>4
<1>5. CASE t \notin needed
  <2>1. D = {}
    <3>1. \A e \in plan : \A k \in {"grouped", "legacy"} : t \notin e[k]
      BY <1>1, <1>2, <1>5
    <3>. QED  BY <3>1
  <2>2. Cardinality(D) = 0
    BY <2>1, FS_EmptySet
  <2>. QED  BY <1>5, <2>2
<1>. QED  BY <1>4, <1>5

(* A composite names its members only. *)
LEMMA CompositeHasMembersOnly ==
  ASSUME OwnInv, SourcesInv, phase # "refused", NEW t \in DOMAIN variants, variants[t].members # <<>>
  PROVE  variants[t].deps = {} /\ variants[t].fields.remove = <<>>
<1>1. PICK cfg \in resolved : VariantFrom(t, cfg)
  BY DEF SourcesInv
<1>2. WellFormedConfig(cfg)
  BY <1>1, ResolvedOfBatch
<1>3. PICK o \in compiledObjects(cfg) : ~variantRefused(cfg, o) /\ variants[t] = own(cfg, o)
  BY <1>1 DEF VariantFrom
<1>4. /\ own(cfg, o).fields = fieldsIn(cfg, o)
      /\ own(cfg, o).deps = {own(cfg, d).target : d \in asn1Deps(cfg, o)}
      /\ own(cfg, o).members = [i \in DOMAIN cfg.objects[o].members |->
                                  own(cfg, cfg.objects[o].members[i]).target]
  BY <1>2, <1>3, OwnVariant
<1>5. ~isLeaf(cfg, o)
  <2>. SUFFICES ASSUME isLeaf(cfg, o)  PROVE FALSE
    OBVIOUS
  <2>1. DOMAIN cfg.objects[o].members = {}
    BY EmptySeq DEF isLeaf
  <2>2. DOMAIN own(cfg, o).members = {} /\ own(cfg, o).members = [i \in {} |-> i]
    BY <1>4, <2>1
  <2>3. own(cfg, o).members = <<>>
    <3>1. <<>> \in Seq({}) /\ DOMAIN <<>> = {}
      BY EmptySeq
    <3>2. <<>> = [i \in {} |-> i]
      BY <3>1
    <3>. QED  BY <2>2, <3>2
  <2>. QED  BY <1>3, <2>3
<1>6. asn1Deps(cfg, o) = {}
  BY <1>5 DEF asn1Deps, sourceOf
<1>7. fieldsIn(cfg, o).remove = <<>>
  BY <1>5 DEF fieldsIn, fieldsOf
<1>. QED  BY <1>3, <1>4, <1>6, <1>7

(* A grouped rule has the attributes of all of its objects, and none needs more. *)
LEMMA GroupedAsItself ==
  ASSUME OwnInv, SourcesInv, GraphFinite  PROVE GroupedBuildsTheSame
<1>. SUFFICES ASSUME NEW plan \in built, NEW r \in groupedRules(plan), NEW t \in r.objects
              PROVE  LET v == variants[t]
                     IN /\ r.kind = compactActionKind(v) /\ r.mode = v.fields.mode
                        /\ r.attrs = [language |-> v.fields.language, flags |-> v.fields.flags,
                                      moduleRoot |-> v.fields.moduleRoot, modname |-> v.fields.modname,
                                      objtool |-> v.fields.objtool, symversions |-> v.fields.symversions]
                        /\ v.fields.remove = <<>> /\ v.deps = {}
                        /\ r.kind = "compile" => \A f \in Preincludes(v.fields.language) :
                                                    f \in {g[1] : g \in v.fields.inputs}
  BY DEF GroupedBuildsTheSame
<1>. DEFINE v == variants[t]
<1>1. plan = emissions /\ phase = "done" /\ ~reachesUnknown
  BY BuiltIsPlan
<1>2. PICK e \in emissions : e.grouped # {} /\ r = groupedRule(plan, e, someTarget(e.grouped))
  BY <1>1 DEF groupedRules
<1>. DEFINE first == someTarget(e.grouped)
            w == variants[first]
<1>3. first \in e.grouped
  BY <1>2 DEF someTarget
<1>. HIDE DEF first
<1>4. /\ r.objects = e.grouped /\ r.kind = compactActionKind(w) /\ r.mode = w.fields.mode
      /\ r.attrs = [language |-> w.fields.language, flags |-> w.fields.flags,
                    moduleRoot |-> w.fields.moduleRoot, modname |-> w.fields.modname,
                    objtool |-> w.fields.objtool, symversions |-> w.fields.symversions]
  BY <1>2 DEF groupedRule, first
<1>5. /\ t \in needed /\ t \notin legacy /\ e = emissionFor(t)
      /\ first \in needed /\ e = emissionFor(first)
  BY <1>3, <1>4, EmissionOfTarget
<1>6. compactConcreteRecipe(v) = compactConcreteRecipe(w)
  <2>1. e.group.recipe = compactConcreteRecipe(v)
    BY <1>5 DEF emissionFor, groupFor, keyOf
  <2>2. e.group.recipe = compactConcreteRecipe(w)
    BY <1>5 DEF emissionFor, groupFor, keyOf
  <2>. QED  BY <2>1, <2>2
<1>. HIDE DEF w
<1>7. /\ compactActionKind(v) = compactActionKind(w) /\ v.fields.mode = w.fields.mode
      /\ v.fields.language = w.fields.language /\ v.fields.flags = w.fields.flags
      /\ v.fields.moduleRoot = w.fields.moduleRoot /\ v.fields.modname = w.fields.modname
      /\ v.fields.objtool = w.fields.objtool /\ v.fields.symversions = w.fields.symversions
  BY <1>6 DEF compactConcreteRecipe
<1>8. t \in DOMAIN variants
  BY <1>1, <1>5, NeededAreVariants
<1>. DEFINE active == UNION {g.targets : g \in deriveActionGroups}
            islands == {u \in active : \/ compactActionKind(variants[u]) = "compile"
                                            /\ groupedCompileFallback(variants[u])
                                       \/ compactActionKind(variants[u]) = "arm64_nvhe"}
<1>9. t \in active
  <2>1. groupFor(t) \in deriveActionGroups /\ t \in groupFor(t).targets
    BY <1>5, GroupsAreKeyed DEF groupFor
  <2>. QED  BY <2>1
<1>10. islands \subseteq legacy
  <2>1. legacy = closureOf(islands)
    BY DEF legacy, legacyTargets
  <2>. HIDE DEF islands
  <2>. QED  BY <2>1, ReachedIsClosed
<1>11. t \notin islands
  BY <1>5, <1>10
<1>12. CASE compactActionKind(v) = "compile"
  <2>1. ~groupedCompileFallback(v)
    BY <1>9, <1>11, <1>12
  <2>2. /\ v.deps = {} /\ v.fields.remove = <<>>
        /\ Preincludes(v.fields.language) \subseteq {f[1] : f \in v.fields.inputs}
    BY <2>1 DEF groupedCompileFallback
  <2>. HIDE DEF v
  <2>. QED  BY <1>4, <1>7, <2>2 DEF v
<1>13. CASE compactActionKind(v) # "compile"
  <2>1. v.members # <<>>
    BY <1>13 DEF compactActionKind
  <2>2. v.deps = {} /\ v.fields.remove = <<>>
    BY <1>1, <1>8, <2>1, CompositeHasMembersOnly
  <2>. HIDE DEF v
  <2>. QED  BY <1>4, <1>7, <1>13, <2>2 DEF v
<1>. QED  BY <1>12, <1>13

GroupsInv == OwnInv /\ SourcesInv /\ GraphFinite /\ NamesOK

(* What the emitted rules rest on. *)
LEMMA GroupsInvariant == Spec => []GroupsInv
<1>. QED
  BY OwnInit, OwnNext, SourcesInit, SourcesNext, FiniteInit, FiniteNext, NamesInit, NamesNext, PTL
     DEF Spec, GroupsInv

(* Every variant that an image or a module reaches is built by exactly one  *)
(* rule, grouped or legacy, and a grouped rule builds it as a rule of its   *)
(* own would (deriveActionGroups, actionGraphPlan).                         *)
THEOREM EveryVariantBuiltOnce == Spec => []BuiltOnceAsItself
<1>1. GroupsInv => BuiltOnceAsItself
  BY EachByOneRule, GroupedAsItself DEF GroupsInv, BuiltOnceAsItself
<1>. QED  BY GroupsInvariant, <1>1, PTL

-----------------------------------------------------------------------------
(* Labels and aliases. *)

(* A legacy rule finds each rule it names. *)
LEMMA LegacyIsClosed ==
  ASSUME GraphFinite  PROVE LegacyLabelsExist
<1>. SUFFICES ASSUME NEW plan \in built, NEW t \in legacyIn(plan), NEW d \in referenced(variants[t])
              PROVE  d \in legacyIn(plan)
  BY DEF LegacyLabelsExist
<1>1. plan = emissions /\ ~reachesUnknown
  BY BuiltIsPlan
<1>2. \A u : u \in legacyIn(plan) <=> u \in needed /\ u \in legacy
  <2>. TAKE u
  <2>1. ASSUME u \in legacyIn(plan)  PROVE u \in needed /\ u \in legacy
    <3>1. PICK e \in emissions : u \in e.legacy
      BY <1>1, <2>1 DEF legacyIn
    <3>. QED  BY <3>1, EmissionOfTarget
  <2>2. ASSUME u \in needed, u \in legacy  PROVE u \in legacyIn(plan)
    <3>1. emissionFor(u) \in emissions
      BY <2>2, PlanIsKeyed
    <3>2. u \in emissionFor(u).legacy
      BY <2>2, <3>1, EmissionOfTarget
    <3>. QED  BY <1>1, <3>1, <3>2 DEF legacyIn
  <2>. QED  BY <2>1, <2>2
<1>3. t \in needed /\ t \in legacy /\ t \in DOMAIN variants
  BY <1>1, <1>2, NeededAreVariants
<1>4. d \in needed
  <2>1. PICK i \in DOMAIN configs : t \in reachable(configs[i])
    BY <1>3 DEF needed
  <2>2. d \in reachable(configs[i])
    BY <1>3, <2>1, ReachedIsClosed DEF reachable
  <2>. QED  BY <2>1, <2>2 DEF needed
<1>5. d \in legacy
  BY <1>3, ReachedIsClosed DEF legacy, legacyTargets
<1>. QED  BY <1>2, <1>4, <1>5

(* The labels a legacy rule uses exist (actionGraphPlan, objectBuildFile). *)
THEOREM LegacyRulesFindTheirs == Spec => []LegacyLabelsExist
<1>1. GroupsInv => LegacyLabelsExist
  BY LegacyIsClosed DEF GroupsInv
<1>. QED  BY GroupsInvariant, <1>1, PTL

(* The image of a configuration is the first of its shape. *)
LEMMA ImageHasShape ==
  ASSUME OwnInv, NEW i \in DOMAIN configs
  PROVE  imageOf(i) \in DOMAIN configs /\ sameShape(i, imageOf(i))
<1>. DEFINE T == {j \in DOMAIN configs : sameShape(i, j)}
<1>1. DOMAIN configs \subseteq Nat
  BY ConfigsOfBatch DEF OwnInv, ConfigsOK
<1>2. T \subseteq Nat /\ T # {}
  BY <1>1 DEF sameShape
<1>3. PICK j \in T : \A k \in T : j <= k
  <2>. HIDE DEF T
  <2>. QED  BY <1>2, LeastElement
<1>4. \E m \in DOMAIN configs : sameShape(i, m) /\ \A k \in DOMAIN configs : sameShape(i, k) => m <= k
  BY <1>3
<1>. QED  BY <1>4 DEF imageOf

(* What an alias stands for is built for the configuration that uses it. *)
LEMMA AliasesFit ==
  ASSUME OwnInv, NamesOK  PROVE AliasesAreTheSame
<1>. SUFFICES ASSUME NEW plan \in built, NEW i \in DOMAIN configs, NEW g \in imageGroups(plan, imageOf(i))
              PROVE  configs[i].name \in g.configs
  BY DEF AliasesAreTheSame
<1>. DEFINE j == imageOf(i)
<1>1. plan = emissions
  BY BuiltIsPlan
<1>2. j \in DOMAIN configs /\ configs[i].targets = configs[j].targets /\ configs[i].modules = configs[j].modules
  BY ImageHasShape DEF sameShape
<1>. HIDE DEF j
<1>3. reachable(configs[i]) = reachable(configs[j])
  BY <1>2 DEF reachable, targetsOf
<1>4. PICK e \in emissions : /\ configs[j].name \in e.group.configs
                             /\ e.grouped \cup e.legacy # {}
                             /\ g = ruleName(e.group) \/ g = legacyName(e.group)
  BY <1>1 DEF imageGroups, j
<1>5. g.configs = e.group.configs
  BY <1>4 DEF ruleName, legacyName
<1>6. PICK t \in e.grouped \cup e.legacy : e.group.configs = namesOf(t)
  BY <1>4, EmissionOfTarget
<1>7. PICK k \in DOMAIN configs : configs[k].name = configs[j].name /\ t \in reachable(configs[k])
  BY <1>4, <1>6 DEF namesOf
<1>8. k = j
  <2>1. DOMAIN configs = 1..Len(configs)
    BY ConfigsOfBatch DEF OwnInv, ConfigsOK
  <2>. QED  BY <1>2, <1>7, <2>1 DEF NamesOK
<1>9. configs[i].name \in namesOf(t)
  BY <1>3, <1>7, <1>8 DEF namesOf
<1>. QED  BY <1>5, <1>6, <1>9

(* An image shared by configurations has only rules that each of them *)
(* reaches (imageBuildFile).                                          *)
THEOREM AliasesShareImages == Spec => []AliasesAreTheSame
<1>1. GroupsInv => AliasesAreTheSame
  BY AliasesFit DEF GroupsInv
<1>. QED  BY GroupsInvariant, <1>1, PTL
=============================================================================
