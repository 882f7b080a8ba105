------------------------ MODULE SourceClosureProofs ------------------------
(***************************************************************************)
(* The caches of the source scanner never give a stale answer, for every   *)
(* tree, every set of requests and every order they arrive in.             *)
(***************************************************************************)
EXTENDS SourceClosure, FiniteSetTheorems, SequenceTheorems, WellFoundedInduction, TLAPS

-----------------------------------------------------------------------------
(* Numbers. *)

(* A set of numbers has a least element. *)
LEMMA LeastElement ==
    ASSUME NEW T, T \subseteq Nat, T # {}
    PROVE \E m \in T : \A n \in T : m <= n
<1> DEFINE upTo(n) == {k \in Nat : k < n}
           C == {upTo(n) : n \in T}
           R == StrictSubsetOrdering(Nat)
<1>1. IsWellFoundedOn(R, FiniteSubsetsOf(Nat))
  BY FS_StrictSubsetOrderingWellFounded
<1>2. \A n \in T : IsFiniteSet(upTo(n))
  <2> SUFFICES ASSUME NEW n \in T PROVE IsFiniteSet(upTo(n))
    OBVIOUS
  <2>1. upTo(n) \in SUBSET Nat /\ n \in Nat /\ \A k \in upTo(n) : k <= n
    OBVIOUS
  <2>2. QED
    BY <2>1, FS_BoundedSetOfNaturals
<1>3. C \subseteq FiniteSubsetsOf(Nat) /\ C # {}
  BY <1>2 DEF FiniteSubsetsOf
<1>4. PICK M \in C : \A N \in C : ~(<<N, M>> \in R)
  <2> HIDE DEF C, R
  <2>1. QED
    BY <1>1, <1>3, WFMin
<1>5. PICK m \in T : M = upTo(m)
  OBVIOUS
<1>6. ASSUME NEW n \in T, n < m PROVE FALSE
  <2>1. upTo(n) \in C /\ upTo(n) \subseteq upTo(m) /\ n \in upTo(m) /\ n \notin upTo(n)
    BY <1>6
  <2>2. <<upTo(n), M>> \in R
    BY <1>5, <2>1 DEF StrictSubsetOrdering
  <2>3. QED
    BY <1>4, <2>1, <2>2
<1>7. QED
  BY <1>6

(* Numbers closed under successor are all of them. *)
LEMMA EveryNumber ==
    ASSUME NEW A, 0 \in A, \A n \in Nat : n \in A => n + 1 \in A
    PROVE Nat \subseteq A
<1>1. SUFFICES ASSUME Nat \ A # {} PROVE FALSE
  OBVIOUS
<1>2. PICK m \in Nat \ A : \A n \in Nat \ A : m <= n
  <2>1. (Nat \ A) \subseteq Nat
    OBVIOUS
  <2>2. QED
    BY <1>1, <2>1, LeastElement
<1>3. m \in Nat /\ m # 0
  OBVIOUS
<1>4. m - 1 \in Nat /\ (m - 1) + 1 = m /\ ~(m <= m - 1)
  BY <1>3
<1>5. m - 1 \in A
  BY <1>2, <1>4
<1>6. QED
  BY <1>4, <1>5

-----------------------------------------------------------------------------
(* What a key tells. *)

\* Two configurations that a scan cannot tell apart.
sameConfig(c, d) ==
    /\ c.written = d.written
    /\ \A x \in c.written : configValue(c, x) = configValue(d, x)
    /\ \A x : configValue(c, x) \in {"y", "m"} \/ configValue(d, x) \in {"y", "m"} =>
                configValue(c, x) = configValue(d, x)
    /\ \A symbol : configIncludePath(symbol, c) = configIncludePath(symbol, d)

(* The hash of the written values tells everything of a configuration that *)
(* a scan asks for.                                                        *)
LEMMA ConfigIDTellsConfig ==
  ASSUME NEW configs, resolvedConfigs(configs),
         NEW c \in configs, NEW d \in configs, configID(c) = configID(d)
  PROVE  sameConfig(c, d)
<1>1. ASSUME NEW x \in c.written
      PROVE  x \in d.written /\ configValue(c, x) = configValue(d, x)
  <2>1. <<x, configValue(c, x)>> \in configID(d)
    BY <1>1 DEF configID
  <2>2. PICK y \in d.written : <<x, configValue(c, x)>> = <<y, configValue(d, y)>>
    BY <2>1 DEF configID
  <2>. QED  BY <2>2
<1>2. ASSUME NEW x \in d.written
      PROVE  x \in c.written
  <2>1. <<x, configValue(d, x)>> \in configID(c)
    BY <1>2 DEF configID
  <2>2. PICK y \in c.written : <<x, configValue(d, x)>> = <<y, configValue(c, y)>>
    BY <2>1 DEF configID
  <2>. QED  BY <2>2
<1>3. c.written = d.written
  BY <1>1, <1>2
<1>4. ASSUME NEW x, x \notin c.written
      PROVE  configValue(c, x) \notin {"y", "m"} /\ configValue(d, x) \notin {"y", "m"}
  <2>1. x \notin d.written
    BY <1>3, <1>4
  <2>. QED  BY <1>4, <2>1 DEF resolvedConfigs, configValue
<1>5. ASSUME NEW symbol
      PROVE  configIncludePath(symbol, c) = configIncludePath(symbol, d)
  <2>1. CASE symbol[2] \in c.written
    <3>1. symbol[2] \in c.written \cap d.written
      BY <1>3, <2>1
    <3>2. configValue(c, symbol[2]) = configValue(d, symbol[2])
      BY <1>1, <2>1
    <3>. DEFINE x == symbol[2]
    <3>3. x \in DOMAIN c.value /\ x \in DOMAIN d.value
      BY <3>1 DEF resolvedConfigs
    <3>4. c.value[x] = d.value[x]
      BY <3>2, <3>3 DEF configValue
    <3>5. /\ x \in DOMAIN c.path <=> x \in DOMAIN d.path
          /\ x \in DOMAIN c.path => c.path[x] = d.path[x]
      BY <3>1, <3>4 DEF resolvedConfigs
    <3>. QED  BY <3>1, <3>5 DEF configIncludePath
  <2>2. CASE symbol[2] \notin c.written
    BY <1>3, <2>2 DEF configIncludePath
  <2>. QED  BY <2>1, <2>2
<1>. QED  BY <1>1, <1>3, <1>4, <1>5 DEF sameConfig

\* The context of a scan.
contextOf(t, path, search, q) ==
    [tree |-> t, path |-> path, search |-> search, config |-> q.config,
     assembly |-> q.assembly,
     predefined |-> predefinedSymbols(search, q.config, q.assembly, q.profile)]

(* A condition without operands comes to the same. *)
LEMMA SameAtom ==
  ASSUME NEW c, NEW d, NEW cond, sameConfig(c.config, d.config),
         c.tree = d.tree, c.path = d.path, c.search = d.search,
         c.predefined = d.predefined
  PROVE  atomValue(cond, c) = atomValue(cond, d)
<1>1. hasInclude(cond[2], cond[3], c) = hasInclude(cond[2], cond[3], d)
  BY DEF hasInclude
<1>2. preprocessorSymbolDefined(cond[2], c) = preprocessorSymbolDefined(cond[2], d)
  <2>. DEFINE x == cond[2][2]
  <2>1. /\ (x \in c.config.written /\ configValue(c.config, x) = "m")
           <=> (x \in d.config.written /\ configValue(d.config, x) = "m")
        /\ (x \in c.config.written /\ configValue(c.config, x) \notin {"n", "m"})
           <=> (x \in d.config.written /\ configValue(d.config, x) \notin {"n", "m"})
    BY DEF sameConfig
  <2>2. truth(x \in c.config.written /\ configValue(c.config, x) = "m")
          = truth(x \in d.config.written /\ configValue(d.config, x) = "m")
    BY <2>1 DEF truth
  <2>3. truth(x \in c.config.written /\ configValue(c.config, x) \notin {"n", "m"})
          = truth(x \in d.config.written /\ configValue(d.config, x) \notin {"n", "m"})
    BY <2>1 DEF truth
  <2>. QED  BY <2>2, <2>3 DEF preprocessorSymbolDefined
<1>3. evaluateKernelConfigPredicate(cond[1], cond[2], c)
        = evaluateKernelConfigPredicate(cond[1], cond[2], d)
  <2>. DEFINE x == cond[2][2]
              v == configValue(c.config, x)
              w == configValue(d.config, x)
  <2>1. (v = "y" <=> w = "y") /\ (v = "m" <=> w = "m")
    BY DEF sameConfig
  <2>. HIDE DEF v, w
  <2>2. truth(v = "y") = truth(w = "y") /\ truth(v = "m") = truth(w = "m")
        /\ truth(v \in {"y", "m"}) = truth(w \in {"y", "m"})
    BY <2>1 DEF truth
  <2>3. truth(v = "y" \/ (v = "m" /\ c.predefined[<<"macro", "MODULE">>]))
          = truth(w = "y" \/ (w = "m" /\ d.predefined[<<"macro", "MODULE">>]))
    BY <2>1 DEF truth
  <2>. QED  BY <2>2, <2>3 DEF evaluateKernelConfigPredicate, v, w
<1>. QED  BY <1>1, <1>2, <1>3 DEF atomValue

(* A line comes to the same. *)
LEMMA SameLine ==
  ASSUME NEW c, NEW d, NEW line, sameConfig(c.config, d.config),
         c.tree = d.tree, c.path = d.path, c.search = d.search,
         c.predefined = d.predefined, c.assembly = d.assembly
  PROVE  lineIn(line, c) = lineIn(line, d)
<1>1. [e \in Terms |-> atomValue(e, c)] = [e \in Terms |-> atomValue(e, d)]
  BY SameAtom
<1>2. evaluatePreprocessorBoolean(line.cond, c) = evaluatePreprocessorBoolean(line.cond, d)
  BY <1>1 DEF evaluatePreprocessorBoolean
<1>3. includeDirective(line, c.config) = includeDirective(line, d.config)
  BY DEF includeDirective, sameConfig
<1>. QED  BY <1>2, <1>3 DEF lineIn

(* Scans of a path that agree in what the key of a file holds give the     *)
(* same.                                                                   *)
LEMMA SameScan ==
  ASSUME NEW t, NEW path, NEW search, NEW p, NEW q,
         sameConfig(p.config, q.config), p.assembly = q.assembly, p.profile = q.profile
  PROVE  scan(t, path, search, p) = scan(t, path, search, q)
<1>. DEFINE c == contextOf(t, path, search, p)
            d == contextOf(t, path, search, q)
            lines == t.text[t.tree[path]]
<1>1. predefinedSymbols(search, p.config, p.assembly, p.profile)
        = predefinedSymbols(search, q.config, q.assembly, q.profile)
  <2>1. "RANDSTRUCT" \in p.config.written /\ configValue(p.config, "RANDSTRUCT") = "y"
          <=> "RANDSTRUCT" \in q.config.written /\ configValue(q.config, "RANDSTRUCT") = "y"
    BY DEF sameConfig
  <2>. QED  BY <2>1 DEF predefinedSymbols
<1>2. /\ sameConfig(c.config, d.config) /\ c.assembly = d.assembly
      /\ c.tree = d.tree /\ c.path = d.path /\ c.search = d.search
      /\ c.predefined = d.predefined
  BY <1>1 DEF contextOf
<1>. HIDE DEF c, d
<1>3. [i \in 1..Len(lines) |-> lineIn(lines[i], c)] = [i \in 1..Len(lines) |-> lineIn(lines[i], d)]
  BY <1>2, SameLine
<1>4. scan(t, path, search, p) = result(scanLines([i \in 1..Len(lines) |-> lineIn(lines[i], c)]))
  BY DEF scan, c, contextOf
<1>5. scan(t, path, search, q) = result(scanLines([i \in 1..Len(lines) |-> lineIn(lines[i], d)]))
  BY DEF scan, d, contextOf
<1>. QED  BY <1>3, <1>4, <1>5

(* What an entry adds depends on the source and the provided headers of a  *)
(* request, and on nothing else of it.                                     *)
LEMMA SameVisit ==
  ASSUME NEW t, NEW search, NEW entry, NEW file, NEW p, NEW q,
         p.source = q.source, p.provided = q.provided
  PROVE  visit(t, p, search, entry, file) = visit(t, q, search, entry, file)
<1>1. ASSUME NEW inc
      PROVE  included(t, p, search, entry.path, inc) = included(t, q, search, entry.path, inc)
  BY DEF included, classified
<1>2. ASSUME NEW inc
      PROVE  incbin(t, p, search, entry.path, inc) = incbin(t, q, search, entry.path, inc)
  BY DEF incbin, embedded, modeledProvidedNonliteralBinaryInclude
<1>3. [i \in DOMAIN file.includes |-> included(t, p, search, entry.path, file.includes[i])]
        = [i \in DOMAIN file.includes |-> included(t, q, search, entry.path, file.includes[i])]
  BY <1>1
<1>4. [i \in DOMAIN file.incbins |-> incbin(t, p, search, entry.path, file.incbins[i])]
        = [i \in DOMAIN file.incbins |-> incbin(t, q, search, entry.path, file.incbins[i])]
  BY <1>2
<1>. QED  BY <1>3, <1>4 DEF visit

(* Closures of a source that agree in what their key holds are the same.   *)
LEMMA SameClosure ==
  ASSUME NEW t, NEW search, NEW source, NEW p, NEW q,
         sameConfig(p.config, q.config), p.assembly = q.assembly, p.profile = q.profile,
         p.source = q.source, p.provided = q.provided
  PROVE  closureOf(t, p, search, source) = closureOf(t, q, search, source)
<1>1. ASSUME NEW e
      PROVE  visitOf(t, p, search, e) = visitOf(t, q, search, e)
  <2>1. scan(t, e.path, search, p) = scan(t, e.path, search, q)
    BY SameScan
  <2>. QED  BY <2>1, SameVisit DEF visitOf
<1>2. [e \in entriesOf(t) |-> visitOf(t, p, search, e)]
        = [e \in entriesOf(t) |-> visitOf(t, q, search, e)]
  BY <1>1
<1>. QED  BY <1>2 DEF closureOf

-----------------------------------------------------------------------------
(* Sequences. *)

(* The places of a sequence, in order, are all of a finite set of them.    *)
LEMMA EveryPlace ==
  ASSUME NEW P \in SUBSET Nat, IsFiniteSet(P)
  PROVE  /\ Cardinality(P) \in Nat
         /\ \A k \in 1..Cardinality(P) : nth(P, k) \in P
         /\ \A i \in P : \E k \in 1..Cardinality(P) : nth(P, k) = i
<1>. DEFINE upTo(i) == {j \in P : j <= i}
            N == Cardinality(P)
            count == [i \in P |-> Cardinality(upTo(i))]
<1>1. N \in Nat
  BY FS_CardinalityType
<1>2. ASSUME NEW i \in P
      PROVE  IsFiniteSet(upTo(i)) /\ count[i] \in 1..N
  <2>1. upTo(i) \in SUBSET P /\ i \in upTo(i)
    OBVIOUS
  <2>2. IsFiniteSet(upTo(i)) /\ Cardinality(upTo(i)) <= N
    BY <2>1, FS_Subset
  <2>3. Cardinality(upTo(i)) \in Nat /\ Cardinality(upTo(i)) # 0
    BY <2>1, <2>2, FS_CardinalityType, FS_EmptySet
  <2>. HIDE DEF upTo, N
  <2>. QED  BY <1>1, <2>2, <2>3
<1>3. ASSUME NEW i \in P, NEW j \in P, i < j
      PROVE  count[i] # count[j]
  <2>1. upTo(i) \in SUBSET upTo(j) /\ j \in upTo(j) /\ j \notin upTo(i)
    <3>1. i \in Nat /\ j \in Nat /\ \A k \in P : k \in Nat /\ (k <= i => k <= j)
      BY <1>3
    <3>2. j <= j /\ ~(j <= i)
      BY <1>3, <3>1
    <3>. QED  BY <3>1, <3>2
  <2>2. IsFiniteSet(upTo(j))
    BY <1>2
  <2>. HIDE DEF upTo
  <2>3. Cardinality(upTo(i)) # Cardinality(upTo(j))
    BY <2>1, <2>2, FS_Subset
  <2>. QED  BY <2>3
<1>4. count \in Injection(P, 1..N)
  <2>1. count \in [P -> 1..N]
    BY <1>2
  <2>2. \A i, j \in P : count[i] = count[j] => i = j
    <3>. SUFFICES ASSUME NEW i \in P, NEW j \in P, count[i] = count[j], i # j  PROVE FALSE
      OBVIOUS
    <3>1. i < j \/ j < i
      OBVIOUS
    <3>. HIDE DEF count
    <3>. QED  BY <1>3, <3>1
  <2>. HIDE DEF count, N
  <2>. QED  BY <2>1, <2>2 DEF Injection, IsInjective
<1>5. count \in Surjection(P, 1..N)
  <2>1. IsFiniteSet(1..N) /\ Cardinality(1..N) = N
    <3>1. 1 \in Int /\ N \in Int /\ (1 > N => N = 0) /\ N - 1 + 1 = N
      BY <1>1
    <3>. HIDE DEF N
    <3>. QED  BY <3>1, FS_Interval
  <2>. HIDE DEF count
  <2>. QED  BY <1>4, <2>1, FS_Injection
<1>6. ASSUME NEW k \in 1..N  PROVE nth(P, k) \in P /\ count[nth(P, k)] = k
  <2>1. PICK i \in P : count[i] = k
    BY <1>5 DEF Surjection
  <2>2. Cardinality({j \in P : j <= i}) = k
    BY <2>1
  <2>3. nth(P, k) \in P /\ Cardinality({j \in P : j <= nth(P, k)}) = k
    BY <2>2 DEF nth
  <2>. QED  BY <2>3
<1>7. ASSUME NEW i \in P  PROVE \E k \in 1..N : nth(P, k) = i
  <2>1. count[i] \in 1..N
    BY <1>2
  <2>2. nth(P, count[i]) \in P /\ count[nth(P, count[i])] = count[i]
    BY <1>6, <2>1
  <2>. HIDE DEF count, N
  <2>3. nth(P, count[i]) = i
    BY <1>4, <2>2 DEF Injection, IsInjective
  <2>. QED  BY <2>1, <2>3
<1>. QED  BY <1>1, <1>6, <1>7

(* The elements of a sequence at some of its places are a sequence of just *)
(* these.                                                                  *)
LEMMA ElementsAtPlaces ==
  ASSUME NEW s, NEW P \in SUBSET Nat, IsFiniteSet(P)
  PROVE  /\ elementsAt(s, P) \in Seq({s[i] : i \in P})
         /\ ToSet(elementsAt(s, P)) = {s[i] : i \in P}
<1>. DEFINE N == Cardinality(P)
            r == elementsAt(s, P)
<1>1. /\ N \in Nat
      /\ \A k \in 1..N : nth(P, k) \in P
      /\ \A i \in P : \E k \in 1..N : nth(P, k) = i
  BY EveryPlace
<1>2. r = [k \in 1..N |-> s[nth(P, k)]]
  BY DEF elementsAt
<1>. HIDE DEF N, r
<1>3. \A k \in 1..N : r[k] \in {s[i] : i \in P}
  BY <1>1, <1>2
<1>4. r \in Seq({s[i] : i \in P})
  BY <1>1, <1>2, <1>3
<1>5. DOMAIN r = 1..N
  BY <1>2
<1>6. ToSet(r) = {s[i] : i \in P}
  BY <1>1, <1>2, <1>5 DEF ToSet
<1>. QED  BY <1>4, <1>6 DEF r

(* What is in a sequence, and in the parts an action makes of it.          *)
LEMMA SequenceParts ==
  ASSUME NEW X, NEW s \in Seq(X)
  PROVE  /\ ToSet(s) \subseteq X
         /\ s = <<>> <=> ToSet(s) = {}
         /\ s # <<>> => /\ Tail(s) \in Seq(X) /\ Head(s) \in X
                        /\ ToSet(s) = {Head(s)} \cup ToSet(Tail(s))
                        /\ Front(s) \in Seq(X) /\ Last(s) \in X
                        /\ ToSet(s) = {Last(s)} \cup ToSet(Front(s))
<1>1. DOMAIN s = 1..Len(s) /\ Len(s) \in Nat
  OBVIOUS
<1>2. ToSet(s) = {s[i] : i \in 1..Len(s)} /\ \A i \in 1..Len(s) : s[i] \in X
  BY <1>1 DEF ToSet
<1>3. s = <<>> <=> ToSet(s) = {}
  BY <1>1, <1>2
<1>. SUFFICES ASSUME s # <<>>
              PROVE  /\ Tail(s) \in Seq(X) /\ Head(s) \in X
                     /\ ToSet(s) = {Head(s)} \cup ToSet(Tail(s))
                     /\ Front(s) \in Seq(X) /\ Last(s) \in X
                     /\ ToSet(s) = {Last(s)} \cup ToSet(Front(s))
  BY <1>2, <1>3
<1>. DEFINE n == Len(s)
<1>4. n \in Nat \ {0} /\ Head(s) = s[1] /\ Last(s) = s[n] /\ Head(s) \in X /\ Last(s) \in X
  BY <1>1, <1>2 DEF Last
<1>5. /\ Tail(s) \in Seq(X) /\ Len(Tail(s)) = n - 1 /\ DOMAIN Tail(s) = 1..(n - 1)
      /\ \A i \in 1..(n - 1) : Tail(s)[i] = s[i + 1]
  BY <1>1
<1>6. /\ Front(s) \in Seq(X) /\ DOMAIN Front(s) = 1..(n - 1)
      /\ \A i \in 1..(n - 1) : Front(s)[i] = s[i]
  <2>1. Front(s) = [i \in 1..(n - 1) |-> s[i]]
    BY <1>4 DEF Front
  <2>2. n - 1 \in Nat /\ \A i \in 1..(n - 1) : i \in 1..n
    BY <1>4
  <2>3. \A i \in 1..(n - 1) : s[i] \in X
    BY <1>2, <2>2
  <2>. QED  BY <2>1, <2>2, <2>3
<1>7. 1..n = {1} \cup {i + 1 : i \in 1..(n - 1)} /\ 1..n = {n} \cup 1..(n - 1)
  <2>1. \A i \in 1..n : i = 1 \/ (i - 1 \in 1..(n - 1) /\ (i - 1) + 1 = i)
    BY <1>4
  <2>2. 1 \in 1..n /\ n \in 1..n /\ \A i \in 1..(n - 1) : i + 1 \in 1..n /\ i \in 1..n
    BY <1>4
  <2>3. \A i \in 1..n : i = n \/ i \in 1..(n - 1)
    BY <1>4
  <2>. HIDE DEF n
  <2>. QED  BY <2>1, <2>2, <2>3
<1>8. ToSet(Tail(s)) = {s[i + 1] : i \in 1..(n - 1)}
  BY <1>5 DEF ToSet
<1>9. ToSet(Front(s)) = {s[i] : i \in 1..(n - 1)}
  BY <1>6 DEF ToSet
<1>. HIDE DEF n
<1>10. ToSet(s) = {s[1]} \cup {s[i + 1] : i \in 1..(n - 1)}
  BY <1>2, <1>7 DEF n
<1>11. ToSet(s) = {s[n]} \cup {s[i] : i \in 1..(n - 1)}
  BY <1>2, <1>7 DEF n
<1>. QED  BY <1>4, <1>5, <1>6, <1>8, <1>9, <1>10, <1>11

(* What is in two sequences one after the other.                           *)
LEMMA ConcatenationHasBoth ==
  ASSUME NEW X, NEW s \in Seq(X), NEW r \in Seq(X)
  PROVE  /\ s \o r \in Seq(X)
         /\ ToSet(s \o r) = ToSet(s) \cup ToSet(r)
<1>1. /\ Len(s) \in Nat /\ Len(r) \in Nat /\ DOMAIN s = 1..Len(s) /\ DOMAIN r = 1..Len(r)
      /\ s \o r \in Seq(X) /\ DOMAIN (s \o r) = 1..(Len(s) + Len(r))
  OBVIOUS
<1>2. \A i \in 1..(Len(s) + Len(r)) :
         (s \o r)[i] = IF i <= Len(s) THEN s[i] ELSE r[i - Len(s)]
  OBVIOUS
<1>3. ASSUME NEW x \in ToSet(s \o r)  PROVE x \in ToSet(s) \cup ToSet(r)
  <2>1. PICK i \in 1..(Len(s) + Len(r)) : x = (s \o r)[i]
    BY <1>1 DEF ToSet
  <2>2. CASE i <= Len(s)
    <3>1. i \in DOMAIN s /\ x = s[i]
      BY <1>1, <1>2, <2>1, <2>2
    <3>. QED  BY <3>1 DEF ToSet
  <2>3. CASE ~(i <= Len(s))
    <3>1. i - Len(s) \in DOMAIN r /\ x = r[i - Len(s)]
      BY <1>1, <1>2, <2>1, <2>3
    <3>. QED  BY <3>1 DEF ToSet
  <2>. QED  BY <2>2, <2>3
<1>4. ASSUME NEW x \in ToSet(s)  PROVE x \in ToSet(s \o r)
  <2>1. PICK i \in 1..Len(s) : x = s[i]
    BY <1>1 DEF ToSet
  <2>2. i \in DOMAIN (s \o r) /\ (s \o r)[i] = x
    BY <1>1, <1>2, <2>1
  <2>. QED  BY <2>2 DEF ToSet
<1>5. ASSUME NEW x \in ToSet(r)  PROVE x \in ToSet(s \o r)
  <2>1. PICK i \in 1..Len(r) : x = r[i]
    BY <1>1 DEF ToSet
  <2>2. i + Len(s) \in 1..(Len(s) + Len(r)) /\ ~(i + Len(s) <= Len(s)) /\ (i + Len(s)) - Len(s) = i
    BY <1>1
  <2>3. i + Len(s) \in DOMAIN (s \o r) /\ (s \o r)[i + Len(s)] = x
    BY <1>1, <1>2, <2>1, <2>2
  <2>. QED  BY <2>3 DEF ToSet
<1>. QED  BY <1>1, <1>3, <1>4, <1>5

-----------------------------------------------------------------------------
(* The lines of a file. *)

FirstState == [active |-> TRUE, frames |-> <<>>, refs |-> {}, includes |-> <<>>, incbins |-> <<>>]

(* The scan of scanLines, line by line. *)
LEMMA ScanUnfolds ==
  ASSUME NEW lines, Len(lines) \in Nat
  PROVE  \E f : /\ scanLines(lines) = f[Len(lines)]
                /\ \A n \in 0..Len(lines) :
                      f[n] = IF n = 0 THEN FirstState ELSE scanLine(f[n - 1], lines[n])
<1>. DEFINE N == Len(lines)
            Step(f, n) == IF n = 0 THEN FirstState ELSE scanLine(f[n - 1], lines[n])
            Solves(f, m) == \A n \in 0..N : n < m => f[n] = Step(f, n)
            IsScan(f) == f = [n \in 0..N |-> Step(f, n)]
            A == {m \in Nat : \E f : f = [n \in 0..N |-> f[n]] /\ Solves(f, m)}
<1>1. N \in Nat
  OBVIOUS
<1>. HIDE DEF N
<1>2. 0 \in A
  <2>. DEFINE f == [n \in 0..N |-> {}]
  <2>1. f = [n \in 0..N |-> f[n]] /\ Solves(f, 0)
    BY <1>1
  <2>. QED  BY <2>1
<1>3. ASSUME NEW m \in Nat, m \in A  PROVE m + 1 \in A
  <2>1. PICK f : f = [n \in 0..N |-> f[n]] /\ Solves(f, m)
    BY <1>3
  <2>. DEFINE g == [n \in 0..N |-> Step(f, n)]
  <2>2. ASSUME NEW n \in 0..N, n < m  PROVE g[n] = f[n]
    BY <2>1, <2>2
  <2>3. ASSUME NEW n \in 0..N, n < m + 1  PROVE g[n] = Step(g, n)
    <3>1. CASE n = 0
      BY <3>1
    <3>2. CASE n # 0
      <4>1. n - 1 \in 0..N /\ n - 1 < m
        BY <1>1, <2>3, <3>2
      <4>2. g[n] = scanLine(f[n - 1], lines[n])
        BY <3>2
      <4>3. f[n - 1] = g[n - 1]
        BY <4>1, <2>2
      <4>. HIDE DEF g
      <4>. QED  BY <3>2, <4>2, <4>3
    <3>. QED  BY <3>1, <3>2
  <2>4. g = [n \in 0..N |-> g[n]]
    OBVIOUS
  <2>5. Solves(g, m + 1)
    BY <2>3
  <2>6. m + 1 \in Nat /\ \E h : h = [n \in 0..N |-> h[n]] /\ Solves(h, m + 1)
    <3>1. m + 1 \in Nat
      OBVIOUS
    <3>. HIDE DEF g, Solves
    <3>2. \E h : h = [n \in 0..N |-> h[n]] /\ Solves(h, m + 1)
      <4>. WITNESS g
      <4>. QED  BY <2>4, <2>5
    <3>. QED  BY <3>1, <3>2
  <2>. HIDE DEF g, Solves
  <2>. QED  BY <2>6
<1>4. N + 1 \in A
  <2>. HIDE DEF A
  <2>. QED  BY <1>1, <1>2, <1>3, EveryNumber
<1>5. PICK f : f = [n \in 0..N |-> f[n]] /\ Solves(f, N + 1)
  BY <1>4
<1>6. IsScan(f)
  <2>1. \A n \in 0..N : n < N + 1
    BY <1>1
  <2>. QED  BY <1>5, <2>1
<1>. DEFINE w == CHOOSE h : IsScan(h)
<1>7. IsScan(w)
  BY <1>6
<1>8. scanLines(lines) = w[N]
  BY DEF scanLines, FirstState, N
<1>9. \A n \in 0..N : w[n] = Step(w, n)
  <2>. HIDE DEF w
  <2>. QED  BY <1>7
<1>. HIDE DEF w
<1>. QED  BY <1>8, <1>9 DEF N

\* A scan holds its includes and its payloads in the order of their lines.
scanned(st, X, Y) ==
    /\ DOMAIN st = {"active", "frames", "refs", "includes", "incbins"}
    /\ st.includes \in Seq(X) /\ st.incbins \in Seq(Y)

(* One line adds its include, or its payload, at the end. *)
LEMMA LineScanned ==
  ASSUME NEW st, NEW l, NEW X, NEW Y, scanned(st, X, Y),
         l.includes \in Seq(X), l.incbins \in Seq(Y)
  PROVE  scanned(scanLine(st, l), X, Y)
<1>1. ASSUME NEW line, NEW value  PROVE scanned(openConditional(st, line, value), X, Y)
  BY DEF scanned, openConditional
<1>2. ASSUME NEW line, NEW value  PROVE scanned(elseIf(st, line, value), X, Y)
  BY DEF scanned, elseIf
<1>3. scanned(otherwise(st), X, Y)
  BY DEF scanned, otherwise
<1>4. scanned(closeConditional(st), X, Y)
  BY DEF scanned, closeConditional
<1>5. scanned(activeLine(st, l), X, Y)
  BY DEF scanned, activeLine
<1>. QED  BY <1>1, <1>2, <1>3, <1>4, <1>5 DEF scanLine

(* What a scan finds are sequences. *)
LEMMA LinesScanned ==
  ASSUME NEW lines, Len(lines) \in Nat, NEW X, NEW Y,
         \A i \in 1..Len(lines) : lines[i].includes \in Seq(X) /\ lines[i].incbins \in Seq(Y)
  PROVE  /\ result(scanLines(lines)).includes \in Seq(X)
         /\ result(scanLines(lines)).incbins \in Seq(Y)
<1>. DEFINE N == Len(lines)
<1>1. PICK f : /\ scanLines(lines) = f[N]
               /\ \A n \in 0..N : f[n] = IF n = 0 THEN FirstState ELSE scanLine(f[n - 1], lines[n])
  BY ScanUnfolds
<1>. HIDE DEF N
<1>. DEFINE A == {n \in Nat : n <= N => scanned(f[n], X, Y)}
<1>2. N \in Nat
  BY DEF N
<1>3. 0 \in A
  <2>1. f[0] = FirstState
    BY <1>1, <1>2
  <2>2. scanned(FirstState, X, Y)
    BY DEF scanned, FirstState
  <2>. QED  BY <2>1, <2>2
<1>4. ASSUME NEW n \in Nat, n \in A  PROVE n + 1 \in A
  <2>1. ASSUME n + 1 <= N  PROVE scanned(f[n + 1], X, Y)
    <3>1. n <= N /\ n + 1 \in 0..N /\ n + 1 \in 1..N /\ (n + 1) - 1 = n /\ n + 1 # 0
      BY <1>2, <2>1
    <3>2. f[n + 1] = scanLine(f[n], lines[n + 1])
      BY <1>1, <3>1
    <3>3. scanned(f[n], X, Y)
      BY <1>4, <3>1
    <3>4. lines[n + 1].includes \in Seq(X) /\ lines[n + 1].incbins \in Seq(Y)
      BY <3>1 DEF N
    <3>. QED  BY <3>2, <3>3, <3>4, LineScanned
  <2>. QED  BY <2>1
<1>5. N \in A
  <2>. HIDE DEF A
  <2>. QED  BY <1>2, <1>3, <1>4, EveryNumber
<1>6. scanned(scanLines(lines), X, Y)
  BY <1>1, <1>2, <1>5
<1>. QED  BY <1>6 DEF result, scanned

(* The includes and the payloads of a file are sequences. *)
LEMMA FileScanned ==
  ASSUME NEW t, NEW path, NEW search, NEW q, isSequence(t.text[t.tree[path]])
  PROVE  /\ \E X : scan(t, path, search, q).includes \in Seq(X)
         /\ \E Y : scan(t, path, search, q).incbins \in Seq(Y)
<1>. DEFINE c == contextOf(t, path, search, q)
            texts == t.text[t.tree[path]]
            N == Len(texts)
            lines == [i \in 1..N |-> lineIn(texts[i], c)]
            X == {includeDirective(texts[i], c.config) : i \in 1..N}
            Y == {incbinDirective(texts[i]) : i \in 1..N}
<1>1. N \in Nat
  BY DEF isSequence
<1>2. scan(t, path, search, q) = result(scanLines(lines))
  BY DEF scan, contextOf
<1>3. ASSUME NEW i \in 1..N
      PROVE  lineIn(texts[i], c).includes \in Seq(X) /\ lineIn(texts[i], c).incbins \in Seq(Y)
  <2>1. includeDirective(texts[i], c.config) \in X /\ incbinDirective(texts[i]) \in Y
    OBVIOUS
  <2>. HIDE DEF X, Y, c, texts
  <2>. QED  BY <2>1 DEF lineIn
<1>4. Len(lines) = N /\ \A i \in 1..N : lines[i] = lineIn(texts[i], c)
  <2>. HIDE DEF c, texts, N
  <2>. QED  BY <1>1
<1>. HIDE DEF lines, N, X, Y, texts, c
<1>5. \A i \in 1..Len(lines) : lines[i].includes \in Seq(X) /\ lines[i].incbins \in Seq(Y)
  BY <1>3, <1>4
<1>6. Len(lines) \in Nat
  BY <1>1, <1>4
<1>7. /\ result(scanLines(lines)).includes \in Seq(X)
      /\ result(scanLines(lines)).incbins \in Seq(Y)
  BY <1>5, <1>6, LinesScanned
<1>. QED  BY <1>2, <1>7

-----------------------------------------------------------------------------
(* The closure without caches. *)

\* The children of entries.
below(visits, entries) == childrenOf(added(visits, entries))

(* The levels of walked, one by one. *)
LEMMA WalkUnfolds ==
  ASSUME NEW visits, IsFiniteSet(DOMAIN visits), NEW root
  PROVE  \E f : /\ walked(visits, root) = f[Cardinality(DOMAIN visits)].adds
                /\ \A n \in 0..Cardinality(DOMAIN visits) :
                      f[n] = IF n = 0 THEN firstLevel(root) ELSE nextLevel(visits, f[n - 1])
<1>. DEFINE N == Cardinality(DOMAIN visits)
            Step(f, n) == IF n = 0 THEN firstLevel(root) ELSE nextLevel(visits, f[n - 1])
            Solves(f, m) == \A n \in 0..N : n < m => f[n] = Step(f, n)
            IsWalk(f) == f = [n \in 0..N |-> Step(f, n)]
            A == {m \in Nat : \E f : f = [n \in 0..N |-> f[n]] /\ Solves(f, m)}
<1>1. N \in Nat
  BY FS_CardinalityType
<1>. HIDE DEF N
<1>2. 0 \in A
  <2>. DEFINE f == [n \in 0..N |-> {}]
  <2>1. f = [n \in 0..N |-> f[n]] /\ Solves(f, 0)
    BY <1>1
  <2>. QED  BY <2>1
<1>3. ASSUME NEW m \in Nat, m \in A  PROVE m + 1 \in A
  <2>1. PICK f : f = [n \in 0..N |-> f[n]] /\ Solves(f, m)
    BY <1>3
  <2>. DEFINE g == [n \in 0..N |-> Step(f, n)]
  <2>2. ASSUME NEW n \in 0..N, n < m  PROVE g[n] = f[n]
    BY <2>1, <2>2
  <2>3. ASSUME NEW n \in 0..N, n < m + 1  PROVE g[n] = Step(g, n)
    <3>1. CASE n = 0
      BY <3>1
    <3>2. CASE n # 0
      <4>1. n - 1 \in 0..N /\ n - 1 < m
        BY <1>1, <2>3, <3>2
      <4>2. g[n] = nextLevel(visits, f[n - 1])
        BY <3>2
      <4>3. f[n - 1] = g[n - 1]
        BY <4>1, <2>2
      <4>. HIDE DEF g
      <4>. QED  BY <3>2, <4>2, <4>3
    <3>. QED  BY <3>1, <3>2
  <2>4. g = [n \in 0..N |-> g[n]]
    OBVIOUS
  <2>5. Solves(g, m + 1)
    BY <2>3
  <2>6. m + 1 \in Nat /\ \E h : h = [n \in 0..N |-> h[n]] /\ Solves(h, m + 1)
    <3>1. m + 1 \in Nat
      OBVIOUS
    <3>. HIDE DEF g, Solves
    <3>2. \E h : h = [n \in 0..N |-> h[n]] /\ Solves(h, m + 1)
      <4>. WITNESS g
      <4>. QED  BY <2>4, <2>5
    <3>. QED  BY <3>1, <3>2
  <2>. HIDE DEF g, Solves
  <2>. QED  BY <2>6
<1>4. N + 1 \in A
  <2>. HIDE DEF A
  <2>. QED  BY <1>1, <1>2, <1>3, EveryNumber
<1>5. PICK f : f = [n \in 0..N |-> f[n]] /\ Solves(f, N + 1)
  BY <1>4
<1>6. IsWalk(f)
  <2>1. \A n \in 0..N : n < N + 1
    BY <1>1
  <2>. QED  BY <1>5, <2>1
<1>. DEFINE w == CHOOSE h : IsWalk(h)
<1>7. IsWalk(w)
  BY <1>6
<1>8. walked(visits, root) = w[N].adds
  BY DEF walked, N
<1>9. \A n \in 0..N : w[n] = Step(w, n)
  <2>. HIDE DEF w
  <2>. QED  BY <1>7
<1>. HIDE DEF w
<1>. QED  BY <1>8, <1>9 DEF N

\* The entries a scan can get to from a root.
reaches(visits, root, R) ==
    /\ R \subseteq DOMAIN visits /\ root \in R
    /\ below(visits, R) \subseteq R
    /\ \A S : root \in S /\ below(visits, S \cap DOMAIN visits) \subseteq S => R \subseteq S

(* What walked adds is what the entries add that can be got to: it has as  *)
(* many levels as there are entries.                                       *)
LEMMA WalkedIsReach ==
  ASSUME NEW visits, IsFiniteSet(DOMAIN visits), NEW root \in DOMAIN visits,
         below(visits, DOMAIN visits) \subseteq DOMAIN visits
  PROVE  \E R : reaches(visits, root, R) /\ walked(visits, root) = added(visits, R)
<1>. DEFINE D == DOMAIN visits
            N == Cardinality(D)
<1>1. PICK f : /\ walked(visits, root) = f[N].adds
               /\ \A n \in 0..N : f[n] = IF n = 0 THEN firstLevel(root) ELSE nextLevel(visits, f[n - 1])
  BY WalkUnfolds
<1>2. N \in Nat /\ IsFiniteSet(D) /\ root \in D /\ below(visits, D) \subseteq D
  BY FS_CardinalityType
<1>. HIDE DEF N, D
<1>3. f[0] = firstLevel(root)
  BY <1>1, <1>2
<1>4. \A n \in Nat : n + 1 <= N => f[n + 1] = nextLevel(visits, f[n]) /\ n <= N
  <2>. SUFFICES ASSUME NEW n \in Nat, n + 1 <= N
                PROVE  f[n + 1] = nextLevel(visits, f[n]) /\ n <= N
    OBVIOUS
  <2>1. n + 1 # 0 /\ (n + 1) - 1 = n /\ n <= N /\ n + 1 \in 0..N
    BY <1>2
  <2>. QED  BY <1>1, <2>1
<1>. DEFINE known(n) == f[n].entries \cup f[n].new
<1>5. /\ f[0].entries = {} /\ f[0].new = {root} /\ f[0].adds = {}
      /\ \A n \in Nat : n + 1 <= N => /\ f[n + 1].entries = known(n)
                                      /\ f[n + 1].new = below(visits, f[n].new) \ known(n)
                                      /\ f[n + 1].adds = f[n].adds \cup added(visits, f[n].new)
  <2>1. f[0].entries = {} /\ f[0].new = {root} /\ f[0].adds = {}
    BY <1>3 DEF firstLevel
  <2>2. ASSUME NEW n \in Nat, n + 1 <= N
        PROVE  /\ f[n + 1].entries = known(n)
               /\ f[n + 1].new = below(visits, f[n].new) \ known(n)
               /\ f[n + 1].adds = f[n].adds \cup added(visits, f[n].new)
    <3>1. f[n + 1] = nextLevel(visits, f[n])
      BY <1>4, <2>2
    <3>. DEFINE level == f[n]
    <3>2. nextLevel(visits, level).entries = level.entries \cup level.new
      BY DEF nextLevel
    <3>3. nextLevel(visits, level).adds = level.adds \cup added(visits, level.new)
      BY DEF nextLevel
    <3>4. nextLevel(visits, level).new
            = below(visits, level.new) \ (level.entries \cup level.new)
      BY DEF nextLevel, below
    <3>. QED  BY <3>1, <3>2, <3>3, <3>4
  <2>. QED  BY <2>1, <2>2
<1>. DEFINE leveled(n) == /\ known(n) \subseteq D
                          /\ f[n].entries \cap f[n].new = {}
                          /\ f[n].adds = added(visits, f[n].entries)
                          /\ below(visits, f[n].entries) \subseteq known(n)
                          /\ root \in known(n)
                          /\ Cardinality(known(n)) > n \/ f[n].new = {}
            A == {n \in Nat : n <= N => leveled(n)}
<1>6. 0 \in A
  <2>1. known(0) = {root}
    BY <1>5
  <2>2. Cardinality({root}) = 1
    BY FS_Singleton
  <2>3. below(visits, {}) = {}
    BY DEF below, added, childrenOf
  <2>4. f[0].entries = {} /\ f[0].new = {root} /\ f[0].adds = {}
    BY <1>5
  <2>5. added(visits, {}) = {}
    BY DEF added
  <2>6. leveled(0)
    BY <1>2, <2>1, <2>2, <2>3, <2>4, <2>5
  <2>. HIDE DEF leveled
  <2>. QED  BY <2>6
<1>7. ASSUME NEW n \in Nat, n \in A  PROVE n + 1 \in A
  <2>1. ASSUME n + 1 <= N  PROVE leveled(n + 1)
    <3>1. /\ f[n + 1].entries = known(n)
          /\ f[n + 1].new = below(visits, f[n].new) \ known(n)
          /\ f[n + 1].adds = f[n].adds \cup added(visits, f[n].new)
      BY <1>5, <2>1
    <3>2. leveled(n)
      BY <1>4, <1>7, <2>1
    <3>3. below(visits, known(n)) = below(visits, f[n].entries) \cup below(visits, f[n].new)
      BY DEF below, added, childrenOf
    <3>4. known(n + 1) = known(n) \cup below(visits, f[n].new)
      BY <3>1
    <3>5. below(visits, f[n].new) \subseteq D
      <4>1. f[n].new \subseteq D
        BY <3>2
      <4>. QED  BY <4>1, <1>2 DEF below, added, childrenOf
    <3>6. below(visits, f[n + 1].entries) \subseteq known(n + 1)
      BY <3>1, <3>2, <3>3, <3>4
    <3>7. f[n + 1].adds = added(visits, f[n + 1].entries)
      BY <3>1, <3>2 DEF added
    <3>8. Cardinality(known(n + 1)) > n + 1 \/ f[n + 1].new = {}
      <4>1. SUFFICES ASSUME NEW x \in f[n + 1].new  PROVE Cardinality(known(n + 1)) > n + 1
        BY Zenon
      <4>2. f[n].new # {}
        BY <4>1, <3>1 DEF below, added, childrenOf
      <4>3. Cardinality(known(n)) > n
        BY <4>2, <3>2
      <4>4. IsFiniteSet(known(n)) /\ IsFiniteSet(known(n + 1))
        <5>1. known(n) \in SUBSET D /\ known(n + 1) \in SUBSET D
          BY <3>2, <3>4, <3>5
        <5>. HIDE DEF known
        <5>. QED  BY <5>1, <1>2, FS_Subset
      <4>5. x \notin known(n) /\ known(n) \cup {x} \in SUBSET known(n + 1)
        BY <3>1, <3>4
      <4>. HIDE DEF known
      <4>6. Cardinality(known(n) \cup {x}) = Cardinality(known(n)) + 1
        BY <4>4, <4>5, FS_AddElement
      <4>7. Cardinality(known(n) \cup {x}) <= Cardinality(known(n + 1))
        BY <4>4, <4>5, FS_Subset
      <4>8. Cardinality(known(n)) \in Nat /\ Cardinality(known(n + 1)) \in Nat
        BY <4>4, FS_CardinalityType
      <4>. QED  BY <4>3, <4>6, <4>7, <4>8
    <3>9. /\ known(n + 1) \subseteq D /\ root \in known(n + 1)
          /\ f[n + 1].entries \cap f[n + 1].new = {}
      BY <3>1, <3>2, <3>4, <3>5
    <3>. QED  BY <3>6, <3>7, <3>8, <3>9
  <2>. HIDE DEF leveled
  <2>. QED  BY <2>1
<1>8. Nat \subseteq A
  <2>. HIDE DEF A
  <2>. QED  BY <1>6, <1>7, EveryNumber
<1>9. leveled(N)
  <2>1. N \in A /\ N <= N
    <3>. HIDE DEF A
    <3>. QED  BY <1>2, <1>8
  <2>. HIDE DEF leveled
  <2>. QED  BY <2>1
<1>10. f[N].new = {}
  <2>1. SUFFICES ASSUME Cardinality(known(N)) > N  PROVE FALSE
    BY <1>9
  <2>2. known(N) \in SUBSET D
    BY <1>9
  <2>. HIDE DEF known
  <2>3. Cardinality(known(N)) <= N /\ Cardinality(known(N)) \in Nat
    BY <1>2, <2>2, FS_Subset, FS_CardinalityType DEF N
  <2>. QED  BY <1>2, <2>1, <2>3
<1>. DEFINE R == f[N].entries
<1>11. R \subseteq D /\ root \in R /\ below(visits, R) \subseteq R
  BY <1>9, <1>10
<1>12. f[N].adds = added(visits, R)
  BY <1>9
<1>13. ASSUME NEW S, root \in S, below(visits, S \cap D) \subseteq S  PROVE R \subseteq S
  <2>. DEFINE B == {n \in Nat : n <= N => known(n) \subseteq S \cap D}
  <2>1. 0 \in B
    BY <1>2, <1>5, <1>13
  <2>2. ASSUME NEW n \in Nat, n \in B  PROVE n + 1 \in B
    <3>1. ASSUME n + 1 <= N  PROVE known(n + 1) \subseteq S \cap D
      <4>1. known(n) \subseteq S \cap D /\ known(n + 1) \subseteq known(n) \cup below(visits, f[n].new)
        BY <1>4, <1>5, <2>2, <3>1
      <4>2. below(visits, f[n].new) \subseteq below(visits, S \cap D)
        BY <4>1 DEF below, added, childrenOf
      <4>3. below(visits, S \cap D) \subseteq below(visits, D)
        BY DEF below, added, childrenOf
      <4>. HIDE DEF known
      <4>. QED  BY <1>2, <1>13, <4>1, <4>2, <4>3
    <3>. HIDE DEF known
    <3>. QED  BY <3>1
  <2>3. Nat \subseteq B
    <3>. HIDE DEF B
    <3>. QED  BY <2>1, <2>2, EveryNumber
  <2>. QED  BY <1>2, <2>3
<1>14. reaches(visits, root, R)
  BY <1>11, <1>13 DEF reaches, D
<1>. HIDE DEF R
<1>. QED  BY <1>1, <1>12, <1>14

(* The entries of a finite tree are finite. *)
LEMMA EntriesFinite ==
  ASSUME NEW t, IsFiniteSet(DOMAIN t.tree)
  PROVE  IsFiniteSet(entriesOf(t))
<1>. DEFINE P == (DOMAIN t.tree) \X BOOLEAN
            E == entriesOf(t)
            g == [x \in P |-> [path |-> x[1], guarded |-> x[2]]]
<1>1. IsFiniteSet(BOOLEAN)
  <2>1. IsFiniteSet({TRUE}) /\ BOOLEAN = {TRUE} \cup {FALSE}
    BY FS_Singleton
  <2>. QED  BY <2>1, FS_AddElement
<1>2. IsFiniteSet(P)
  BY <1>1, FS_Product
<1>3. g \in Surjection(P, E)
  <2>1. g \in [P -> E]
    BY DEF entriesOf
  <2>2. ASSUME NEW e \in E  PROVE \E x \in P : g[x] = e
    <3>1. <<e.path, e.guarded>> \in P /\ e = [path |-> e.path, guarded |-> e.guarded]
      BY DEF entriesOf
    <3>2. g[<<e.path, e.guarded>>] = e
      BY <3>1
    <3>. QED  BY <3>1, <3>2
  <2>. HIDE DEF g, P, E
  <2>. QED  BY <2>1, <2>2 DEF Surjection
<1>. HIDE DEF g, P
<1>. QED  BY <1>2, <1>3, FS_Surjection

(* What an include is found as is a file of the tree. *)
LEMMA FoundInTree ==
  ASSUME NEW t, NEW q, NEW search, NEW path, NEW inc,
         included(t, q, search, path, inc).class = "file"
  PROVE  included(t, q, search, path, inc).path \in DOMAIN t.tree
<1>. DEFINE at == resolveInclude(t, path, inc.path, inc.kind, search)
<1>1. ASSUME NEW tried, firstFile(t, tried) # <<>>  PROVE firstFile(t, tried) \in DOMAIN t.tree
  BY <1>1 DEF firstFile, fileAt, absForTreePath
<1>2. at # <<>> => at \in DOMAIN t.tree
  BY <1>1 DEF resolveInclude
<1>. HIDE DEF at
<1>3. classified(q, path, inc, at).class = "file" => classified(q, path, inc, at).path = at /\ at # <<>>
  BY DEF classified
<1>. QED  BY <1>2, <1>3 DEF included, at

(* The children of an entry are entries. *)
LEMMA ChildrenAreEntries ==
  ASSUME NEW t, NEW entry, NEW file, NEW bins, NEW found,
         DOMAIN found \in SUBSET Nat, IsFiniteSet(DOMAIN found),
         \A i \in DOMAIN found : found[i].class = "file" => found[i].path \in DOMAIN t.tree
  PROVE  contribution(entry, file, found, bins).children \in Seq(entriesOf(t))
<1>. DEFINE files_ == {i \in DOMAIN found : found[i].class = "file"}
            read == {i \in files_ : ~guardedEnvironment(entry, file.includes[i])}
            child(i) == [path |-> found[i].path,
                         guarded |-> /\ IsPrefix(FdtDir, found[i].path)
                                     /\ entry.guarded \/ environmentBy(entry, found, i)]
            all == [i \in DOMAIN found |-> child(i)]
<1>1. contribution(entry, file, found, bins).children = elementsAt(all, read)
  BY DEF contribution
<1>2. read \in SUBSET (DOMAIN found)
  OBVIOUS
<1>3. read \in SUBSET Nat /\ IsFiniteSet(read)
  <2>. HIDE DEF read
  <2>. QED  BY <1>2, FS_Subset
<1>4. \A i \in read : child(i) \in entriesOf(t)
  BY DEF entriesOf
<1>5. \A i \in read : all[i] \in entriesOf(t)
  <2>. HIDE DEF child, read
  <2>. QED  BY <1>2, <1>4
<1>. HIDE DEF read, all
<1>6. elementsAt(all, read) \in Seq({all[i] : i \in read})
  BY <1>3, ElementsAtPlaces
<1>7. {all[i] : i \in read} \subseteq entriesOf(t)
  BY <1>5
<1>. QED  BY <1>1, <1>6, <1>7

(* An entry has entries of the tree below it. *)
LEMMA VisitChildren ==
  ASSUME NEW t, NEW q, NEW search, NEW e \in entriesOf(t),
         \A path \in DOMAIN t.tree : isSequence(t.text[t.tree[path]])
  PROVE  visitOf(t, q, search, e).children \in Seq(entriesOf(t))
<1>. DEFINE file == scan(t, e.path, search, q)
            found == [i \in DOMAIN file.includes |-> included(t, q, search, e.path, file.includes[i])]
            bins == [i \in DOMAIN file.incbins |-> incbin(t, q, search, e.path, file.incbins[i])]
<1>1. e.path \in DOMAIN t.tree
  BY DEF entriesOf
<1>2. PICK X : file.includes \in Seq(X)
  BY <1>1, FileScanned
<1>3. DOMAIN file.includes \in SUBSET Nat /\ IsFiniteSet(DOMAIN file.includes)
  <2>1. DOMAIN file.includes = 1..Len(file.includes) /\ Len(file.includes) \in Nat
    BY <1>2
  <2>. HIDE DEF file
  <2>. QED  BY <2>1, FS_Interval
<1>4. visitOf(t, q, search, e) = contribution(e, file, found, bins)
  BY DEF visitOf, visit
<1>5. \A i \in DOMAIN found : found[i].class = "file" => found[i].path \in DOMAIN t.tree
  BY FoundInTree
<1>6. DOMAIN found = DOMAIN file.includes
  OBVIOUS
<1>. HIDE DEF found, bins, file
<1>. QED  BY <1>3, <1>4, <1>5, <1>6, ChildrenAreEntries

\* What each entry of a tree adds, and where a scan of a source starts.
visitsOf(t, q, search) == [e \in entriesOf(t) |-> visitOf(t, q, search, e)]

rootOf(source) == [path |-> clean(source), guarded |-> FALSE]

(* A closure is what the entries add that can be got to. *)
LEMMA ClosureIsReach ==
  ASSUME NEW t, NEW q, NEW search, NEW source,
         IsFiniteSet(DOMAIN t.tree),
         \A path \in DOMAIN t.tree : isSequence(t.text[t.tree[path]]),
         search # Failed, absForTreePath(t, source)
  PROVE  /\ rootOf(source) \in entriesOf(t)
         /\ \E R : /\ reaches(visitsOf(t, q, search), rootOf(source), R)
                   /\ closureOf(t, q, search, source)
                        = combined(added(visitsOf(t, q, search), R), clean(source))
<1>. DEFINE V == visitsOf(t, q, search)
<1>1. rootOf(source) \in entriesOf(t)
  BY DEF rootOf, entriesOf, absForTreePath
<1>2. DOMAIN V = entriesOf(t) /\ IsFiniteSet(DOMAIN V)
  BY EntriesFinite DEF visitsOf
<1>3. \A e \in entriesOf(t) : V[e].children \in Seq(entriesOf(t))
  BY VisitChildren DEF visitsOf
<1>4. below(V, DOMAIN V) \subseteq DOMAIN V
  <2>1. ASSUME NEW e \in DOMAIN V  PROVE ToSet(V[e].children) \subseteq DOMAIN V
    <3>. HIDE DEF V
    <3>1. V[e].children \in Seq(entriesOf(t))
      BY <1>2, <1>3
    <3>. QED  BY <1>2, <3>1, SequenceParts
  <2>. HIDE DEF V
  <2>. QED  BY <2>1 DEF below, added, childrenOf
<1>5. closureOf(t, q, search, source) = combined(walked(V, rootOf(source)), clean(source))
  BY DEF closureOf, visitsOf, rootOf
<1>. HIDE DEF V
<1>6. \E R : reaches(V, rootOf(source), R) /\ walked(V, rootOf(source)) = added(V, R)
  BY <1>1, <1>2, <1>4, WalkedIsReach
<1>. QED  BY <1>1, <1>5, <1>6 DEF V

-----------------------------------------------------------------------------
(* The invariant. *)

fileKeyOf(q, source, path) ==
    fileKey(scanner, path, searchOf(scanner, q), scanRequest(q, source))

scanOf(q, source, path) ==
    scan(scanner, path, searchOf(scanner, q), scanRequest(q, source))

closureKeyOf(q, source) == closureKey(scanner, q, searchOf(scanner, q), source)

freshClosure(q, source) ==
    closureOf(scanner, scanRequest(q, source), searchOf(scanner, q), source)

\* The file that a request finds under its key is what it would scan.
FilesFresh ==
    \A q \in scanner.requests : \A source \in ToSet(sourcesOf(scanner, q)) :
      \A path \in DOMAIN scanner.tree :
        fileKeyOf(q, source, path) \in DOMAIN files =>
          files[fileKeyOf(q, source, path)] = scanOf(q, source, path)

\* The closure that a request finds under its key is its own.
ClosuresFresh ==
    \A q \in scanner.requests : \A source \in ToSet(sourcesOf(scanner, q)) :
      closureKeyOf(q, source) \in DOMAIN closures =>
        closures[closureKeyOf(q, source)] = freshClosure(q, source)

CurrentFields ==
    {"request", "search", "rest", "sum", "stack", "visited", "found", "open"}

\* The sum of a request is that of its sources that are done.
Answering ==
    /\ DOMAIN current = CurrentFields
    /\ current.request \in scanner.requests
    /\ current.search = searchOf(scanner, current.request) /\ current.search # Failed
    /\ current.rest \in Seq(ToSet(sourcesOf(scanner, current.request)))
    /\ \E done : /\ ToSet(sourcesOf(scanner, current.request)) = done \cup ToSet(current.rest)
                 /\ Failed \notin closuresOf(scanner, current.request, done)
                 /\ current.sum = together(closuresOf(scanner, current.request, done))

\* What the entries of the open source add, one by one.
OpenVisits ==
    visitsOf(scanner, scanRequest(current.request, Head(current.rest)), current.search)

\* A scan has visited entries that can be got to, and what is below a visited
\* one is visited or on the stack.
Scanning ==
    LET source == Head(current.rest)
        before == current.visited \cup ToSet(current.stack)
    IN /\ current.rest # <<>> /\ absForTreePath(scanner, source)
       /\ current.visited \subseteq entriesOf(scanner)
       /\ current.stack \in Seq(entriesOf(scanner))
       /\ \A R : reaches(OpenVisits, rootOf(source), R) => before \subseteq R
       /\ rootOf(source) \in before
       /\ below(OpenVisits, current.visited) \subseteq before
       /\ \A v \in added(OpenVisits, current.visited) : ~v.fails
       /\ current.found = combined(added(OpenVisits, current.visited), clean(source))

FreshAnswers == {[request |-> q, answer |-> closureOfAll(q)] : q \in scanner.requests}

FreshInv ==
    /\ scanner \in Scanners
    /\ FilesFresh
    /\ ClosuresFresh
    /\ current # Idle => Answering
    /\ current # Idle /\ current.open => Scanning
    /\ answers \in Seq(FreshAnswers)

(* The fields of a request that a scan looks at. *)
LEMMA ScanRequestFields ==
  ASSUME NEW q, DOMAIN q = RequestFields, NEW source
  PROVE  /\ scanRequest(q, source).source = source
         /\ scanRequest(q, source).assembly = assemblyOf(q, source)
         /\ scanRequest(q, source).config = q.config
         /\ scanRequest(q, source).profile = q.profile
         /\ scanRequest(q, source).provided = q.provided
BY DEF scanRequest, RequestFields

(* A key of the cache of files decides the scan. *)
LEMMA FileKeyDecides ==
  ASSUME scanner \in Scanners, NEW p \in scanner.requests, NEW q \in scanner.requests,
         NEW source, NEW origin, NEW path, NEW place,
         fileKeyOf(p, source, path) = fileKeyOf(q, origin, place)
  PROVE  scanOf(p, source, path) = scanOf(q, origin, place)
<1>. DEFINE r == scanRequest(p, source)
            s == scanRequest(q, origin)
<1>1. DOMAIN p = RequestFields /\ DOMAIN q = RequestFields
  BY ScannersAssumption
<1>2. r.config = p.config /\ s.config = q.config
  BY <1>1, ScanRequestFields
<1>. HIDE DEF r, s
<1>3. /\ path = place /\ searchOf(scanner, p) = searchOf(scanner, q)
      /\ configID(r.config) = configID(s.config)
      /\ r.assembly = s.assembly /\ r.profile = s.profile
  BY DEF fileKeyOf, fileKey, r, s
<1>4. resolvedConfigs({x.config : x \in scanner.requests})
  BY ScannersAssumption
<1>5. sameConfig(r.config, s.config)
  <2>1. p.config \in {x.config : x \in scanner.requests} /\ q.config \in {x.config : x \in scanner.requests}
    OBVIOUS
  <2>2. configID(p.config) = configID(q.config)
    BY <1>2, <1>3
  <2>3. sameConfig(p.config, q.config)
    BY <1>4, <2>1, <2>2, ConfigIDTellsConfig
  <2>. QED  BY <1>2, <2>3
<1>6. scan(scanner, path, searchOf(scanner, p), r) = scan(scanner, path, searchOf(scanner, p), s)
  BY <1>3, <1>5, SameScan
<1>. QED  BY <1>3, <1>6 DEF scanOf, r, s

(* A key of the cache of closures decides the closure. *)
LEMMA ClosureKeyDecides ==
  ASSUME scanner \in Scanners, NEW p \in scanner.requests, NEW q \in scanner.requests,
         NEW source, NEW origin,
         closureKeyOf(p, source) = closureKeyOf(q, origin)
  PROVE  freshClosure(p, source) = freshClosure(q, origin)
<1>. DEFINE r == scanRequest(p, source)
            s == scanRequest(q, origin)
<1>1. DOMAIN p = RequestFields /\ DOMAIN q = RequestFields
  BY ScannersAssumption
<1>2. /\ source = origin /\ searchOf(scanner, p) = searchOf(scanner, q)
      /\ configID(p.config) = configID(q.config)
      /\ assemblyOf(p, source) = assemblyOf(q, origin)
      /\ p.profile = q.profile /\ p.provided = q.provided
  BY DEF closureKeyOf, closureKey
<1>3. /\ r.config = p.config /\ s.config = q.config
      /\ r.assembly = s.assembly /\ r.profile = s.profile
      /\ r.source = s.source /\ r.provided = s.provided
  BY <1>1, <1>2, ScanRequestFields
<1>. HIDE DEF r, s
<1>4. resolvedConfigs({x.config : x \in scanner.requests})
  BY ScannersAssumption
<1>5. sameConfig(r.config, s.config)
  <2>1. p.config \in {x.config : x \in scanner.requests} /\ q.config \in {x.config : x \in scanner.requests}
    OBVIOUS
  <2>2. sameConfig(p.config, q.config)
    BY <1>2, <1>4, <2>1, ConfigIDTellsConfig
  <2>. QED  BY <1>3, <2>2
<1>6. closureOf(scanner, r, searchOf(scanner, p), source) = closureOf(scanner, s, searchOf(scanner, p), source)
  BY <1>3, <1>5, SameClosure
<1>. QED  BY <1>2, <1>6 DEF freshClosure, r, s

(* One more scanned file leaves the cache fresh. *)
LEMMA FileStored ==
  ASSUME FreshInv, UNCHANGED scanner,
         NEW p \in scanner.requests, NEW source, NEW path,
         files' = stored(files, fileKeyOf(p, source, path), scanOf(p, source, path))
  PROVE  FilesFresh'
<1>1. SUFFICES ASSUME NEW q \in scanner.requests, NEW origin \in ToSet(sourcesOf(scanner, q)),
                      NEW place \in DOMAIN scanner.tree,
                      fileKeyOf(q, origin, place) \in DOMAIN files'
               PROVE  files'[fileKeyOf(q, origin, place)] = scanOf(q, origin, place)
  BY DEF FilesFresh, fileKeyOf, scanOf
<1>. DEFINE key == fileKeyOf(p, source, path)
            other == fileKeyOf(q, origin, place)
<1>2. CASE other = key
  <2>1. scanOf(p, source, path) = scanOf(q, origin, place)
    BY <1>2, FileKeyDecides DEF FreshInv
  <2>2. files'[key] = scanOf(p, source, path)
    BY DEF stored
  <2>. HIDE DEF key, other
  <2>. QED  BY <1>2, <2>1, <2>2 DEF key, other
<1>3. CASE other # key
  <2>1. other \in DOMAIN files /\ files'[other] = files[other]
    BY <1>1, <1>3 DEF stored
  <2>. QED  BY <2>1 DEF FreshInv, FilesFresh
<1>. QED  BY <1>2, <1>3

(* One more closure leaves the cache fresh. *)
LEMMA ClosureStored ==
  ASSUME FreshInv, UNCHANGED scanner,
         NEW p \in scanner.requests, NEW source,
         closures' = stored(closures, closureKeyOf(p, source), freshClosure(p, source))
  PROVE  ClosuresFresh'
<1>1. SUFFICES ASSUME NEW q \in scanner.requests, NEW origin \in ToSet(sourcesOf(scanner, q)),
                      closureKeyOf(q, origin) \in DOMAIN closures'
               PROVE  closures'[closureKeyOf(q, origin)] = freshClosure(q, origin)
  BY DEF ClosuresFresh, closureKeyOf, freshClosure
<1>. DEFINE key == closureKeyOf(p, source)
            other == closureKeyOf(q, origin)
<1>2. CASE other = key
  <2>1. freshClosure(p, source) = freshClosure(q, origin)
    BY <1>2, ClosureKeyDecides DEF FreshInv
  <2>2. closures'[key] = freshClosure(p, source)
    BY DEF stored
  <2>. HIDE DEF key, other
  <2>. QED  BY <1>2, <2>1, <2>2 DEF key, other
<1>3. CASE other # key
  <2>1. other \in DOMAIN closures /\ closures'[other] = closures[other]
    BY <1>1, <1>3 DEF stored
  <2>. QED  BY <2>1 DEF FreshInv, ClosuresFresh
<1>. QED  BY <1>2, <1>3

-----------------------------------------------------------------------------
(* Requests. *)

(* The sources of a request are a sequence. *)
LEMMA SourcesAreSequence ==
  ASSUME NEW t, isSequence(t.order), NEW q
  PROVE  sourcesOf(t, q) \in Seq(ToSet(sourcesOf(t, q)))
<1>1. CASE q.dir = <<>>
  <2>1. sourcesOf(t, q) = <<q.source>>
    BY <1>1 DEF sourcesOf
  <2>2. ToSet(<<q.source>>) = {q.source}
    BY DEF ToSet
  <2>. QED  BY <2>1, <2>2
<1>2. CASE q.dir # <<>>
  <2>. DEFINE P == {i \in DOMAIN t.order : /\ IsPrefix(q.dir, t.order[i])
                                           /\ Last(t.order[i]) \in CompiledNames}
  <2>1. DOMAIN t.order = 1..Len(t.order) /\ Len(t.order) \in Nat
    BY DEF isSequence
  <2>2. IsFiniteSet(DOMAIN t.order) /\ P \in SUBSET (DOMAIN t.order) /\ DOMAIN t.order \in SUBSET Nat
    BY <2>1, FS_Interval
  <2>3. sourcesOf(t, q) = elementsAt(t.order, P)
    BY <1>2 DEF sourcesOf
  <2>. HIDE DEF P
  <2>4. IsFiniteSet(P) /\ P \in SUBSET Nat
    BY <2>2, FS_Subset
  <2>. QED  BY <2>3, <2>4, ElementsAtPlaces
<1>. QED  BY <1>1, <1>2

(* Closures of more sources. *)
LEMMA ClosuresOfMore ==
  ASSUME NEW t, NEW q, NEW S, NEW source
  PROVE  closuresOf(t, q, S \cup {source})
           = closuresOf(t, q, S) \cup {closureOf(t, scanRequest(q, source), searchOf(t, q), source)}
BY DEF closuresOf

(* A closure more adds to what is together. *)
LEMMA TogetherMore ==
  ASSUME NEW parts, Failed \notin parts, NEW part, part # Failed
  PROVE  union(together(parts), part) = together(parts \cup {part})
<1>1. together(parts) =
        [refs      |-> UNION {p.refs : p \in parts},
         generated |-> UNION {p.generated : p \in parts},
         inputs    |-> UNION {p.inputs : p \in parts},
         sourceIncludes |-> UNION {p.sourceIncludes : p \in parts}]
  BY DEF together
<1>. DEFINE all == parts \cup {part}
<1>2. together(all) =
        [refs      |-> UNION {p.refs : p \in all},
         generated |-> UNION {p.generated : p \in all},
         inputs    |-> UNION {p.inputs : p \in all},
         sourceIncludes |-> UNION {p.sourceIncludes : p \in all}]
  BY DEF together
<1>3. /\ UNION {p.refs : p \in all} = (UNION {p.refs : p \in parts}) \cup part.refs
      /\ UNION {p.generated : p \in all} = (UNION {p.generated : p \in parts}) \cup part.generated
      /\ UNION {p.inputs : p \in all} = (UNION {p.inputs : p \in parts}) \cup part.inputs
      /\ UNION {p.sourceIncludes : p \in all}
           = (UNION {p.sourceIncludes : p \in parts}) \cup part.sourceIncludes
  OBVIOUS
<1>. HIDE DEF all
<1>4. union(together(parts), part) =
        [refs           |-> together(parts).refs \cup part.refs,
         sourceIncludes |-> together(parts).sourceIncludes \cup part.sourceIncludes,
         generated      |-> together(parts).generated \cup part.generated,
         inputs         |-> together(parts).inputs \cup part.inputs]
  BY DEF union
<1>5. /\ together(parts).refs = UNION {p.refs : p \in parts}
      /\ together(parts).generated = UNION {p.generated : p \in parts}
      /\ together(parts).inputs = UNION {p.inputs : p \in parts}
      /\ together(parts).sourceIncludes = UNION {p.sourceIncludes : p \in parts}
  BY <1>1
<1>6. union(together(parts), part) = together(all)
  BY <1>2, <1>3, <1>4, <1>5
<1>. QED  BY <1>6 DEF all

(* Nothing together. *)
LEMMA TogetherNothing == ASSUME NEW t, NEW q  PROVE together(closuresOf(t, q, {})) = NoClosure
<1>1. closuresOf(t, q, {}) = {}
  BY DEF closuresOf
<1>. QED  BY <1>1 DEF together, NoClosure

(* The next source of a request is one of its sources. *)
LEMMA NextIsSource ==
  ASSUME Answering, current.rest # <<>>
  PROVE  /\ Head(current.rest) \in ToSet(sourcesOf(scanner, current.request))
         /\ Tail(current.rest) \in Seq(ToSet(sourcesOf(scanner, current.request)))
         /\ ToSet(current.rest) = {Head(current.rest)} \cup ToSet(Tail(current.rest))
<1>. DEFINE X == ToSet(sourcesOf(scanner, current.request))
            rest == current.rest
<1>1. rest \in Seq(X) /\ rest # <<>>
  BY DEF Answering
<1>. HIDE DEF X, rest
<1>2. Head(rest) \in ToSet(rest) /\ Head(rest) \in X /\ Tail(rest) \in Seq(X)
      /\ ToSet(rest) = {Head(rest)} \cup ToSet(Tail(rest))
  BY <1>1, SequenceParts
<1>. QED  BY <1>2 DEF X, rest

(* A source that fails is the end of its request. *)
LEMMA SourceFails ==
  ASSUME Answering, current.rest # <<>>,
         freshClosure(current.request, Head(current.rest)) = Failed
  PROVE  closureOfAll(current.request) = Failed
<1>. DEFINE q == current.request
            source == Head(current.rest)
<1>1. source \in ToSet(sourcesOf(scanner, q))
  BY NextIsSource
<1>2. Failed \in closuresOf(scanner, q, ToSet(sourcesOf(scanner, q)))
  BY <1>1 DEF closuresOf, freshClosure
<1>. QED  BY <1>2 DEF closureOfAll, together

(* A source that does not is added to what the request has so far. *)
LEMMA SourceDone ==
  ASSUME Answering, current.rest # <<>>, UNCHANGED scanner,
         freshClosure(current.request, Head(current.rest)) # Failed,
         DOMAIN current' = CurrentFields,
         current'.request = current.request, current'.search = current.search,
         current'.rest = Tail(current.rest),
         current'.sum = union(current.sum, freshClosure(current.request, Head(current.rest)))
  PROVE  Answering'
<1>. DEFINE q == current.request
            source == Head(current.rest)
            all == ToSet(sourcesOf(scanner, q))
<1>1. /\ Tail(current.rest) \in Seq(all)
      /\ ToSet(current.rest) = {source} \cup ToSet(Tail(current.rest))
  BY NextIsSource
<1>2. PICK done : /\ all = done \cup ToSet(current.rest)
                  /\ Failed \notin closuresOf(scanner, q, done)
                  /\ current.sum = together(closuresOf(scanner, q, done))
  BY DEF Answering
<1>. DEFINE more == done \cup {source}
<1>3. closuresOf(scanner, q, more) = closuresOf(scanner, q, done) \cup {freshClosure(q, source)}
  BY ClosuresOfMore DEF freshClosure
<1>. HIDE DEF source, q
<1>4. /\ Failed \notin closuresOf(scanner, q, more)
      /\ union(current.sum, freshClosure(q, source)) = together(closuresOf(scanner, q, more))
  <2>1. freshClosure(q, source) # Failed
    BY DEF q, source
  <2>. HIDE DEF more
  <2>. QED  BY <1>2, <1>3, <2>1, TogetherMore
<1>5. all = more \cup ToSet(Tail(current.rest))
  BY <1>1, <1>2
<1>. HIDE DEF more, all
<1>6. \E d : /\ all = d \cup ToSet(current'.rest)
             /\ Failed \notin closuresOf(scanner, q, d)
             /\ current'.sum = together(closuresOf(scanner, q, d))
  <2>1. current'.sum = union(current.sum, freshClosure(q, source)) /\ current'.rest = Tail(current.rest)
    BY DEF q, source
  <2>. QED  BY <1>4, <1>5, <2>1
<1>. QED  BY <1>1, <1>6 DEF Answering, q, all

(* An answer that is the closure of its request is a fresh one. *)
LEMMA AnswerGiven ==
  ASSUME answers \in Seq(FreshAnswers), UNCHANGED scanner,
         NEW q \in scanner.requests, NEW what, what = closureOfAll(q),
         answers' = Append(answers, [request |-> q, answer |-> what])
  PROVE  answers' \in Seq(FreshAnswers')
<1>1. FreshAnswers' = FreshAnswers
  BY DEF FreshAnswers, closureOfAll
<1>2. [request |-> q, answer |-> what] \in FreshAnswers
  BY DEF FreshAnswers
<1>. HIDE DEF FreshAnswers
<1>. QED  BY <1>1, <1>2

-----------------------------------------------------------------------------
(* Steps. *)

LEMMA RequestKeepsFresh == ASSUME FreshInv, NEW q \in scanner.requests, Request(q)  PROVE FreshInv'
<1>1. UNCHANGED <<scanner, files, closures>> /\ current = Idle /\ Start(q, searchOf(scanner, q))
  BY DEF Request
<1>2. scanner' \in Scanners /\ FilesFresh' /\ ClosuresFresh'
  BY <1>1 DEF FreshInv, FilesFresh, ClosuresFresh, fileKeyOf, scanOf, closureKeyOf, freshClosure
<1>3. CASE searchOf(scanner, q) = Failed
  <2>1. /\ answers' = Append(answers, [request |-> q, answer |-> Failed])
        /\ current' = Idle
    BY <1>1, <1>3 DEF Start
  <2>2. closureOfAll(q) = Failed
    BY <1>3 DEF closureOfAll
  <2>3. answers' \in Seq(FreshAnswers')
    BY <1>1, <2>1, <2>2, AnswerGiven DEF FreshInv
  <2>. QED  BY <1>2, <2>1, <2>3 DEF FreshInv
<1>4. CASE searchOf(scanner, q) # Failed
  <2>1. /\ current' = [request |-> q, search |-> searchOf(scanner, q),
                       rest |-> sourcesOf(scanner, q), sum |-> NoClosure,
                       stack |-> <<>>, visited |-> {}, found |-> NoClosure, open |-> FALSE]
        /\ answers' = answers
    BY <1>1, <1>4 DEF Start
  <2>2. /\ DOMAIN current' = CurrentFields /\ current'.request = q /\ ~current'.open
        /\ current'.search = searchOf(scanner, q) /\ current'.rest = sourcesOf(scanner, q)
        /\ current'.sum = NoClosure
    BY <2>1 DEF CurrentFields
  <2>3. sourcesOf(scanner, q) \in Seq(ToSet(sourcesOf(scanner, q)))
    BY SourcesAreSequence, ScannersAssumption DEF FreshInv
  <2>4. \E done : /\ ToSet(sourcesOf(scanner, q)) = done \cup ToSet(sourcesOf(scanner, q))
                  /\ Failed \notin closuresOf(scanner, q, done)
                  /\ NoClosure = together(closuresOf(scanner, q, done))
    <3>1. Failed \notin closuresOf(scanner, q, {})
      BY DEF closuresOf
    <3>2. NoClosure = together(closuresOf(scanner, q, {}))
      BY TogetherNothing
    <3>3. ToSet(sourcesOf(scanner, q)) = {} \cup ToSet(sourcesOf(scanner, q))
      OBVIOUS
    <3>. QED  BY <3>1, <3>2, <3>3
  <2>5. Answering'
    BY <1>1, <1>4, <2>2, <2>3, <2>4 DEF Answering
  <2>6. FreshAnswers' = FreshAnswers
    BY <1>1 DEF FreshAnswers, closureOfAll
  <2>. QED  BY <1>2, <2>1, <2>2, <2>5, <2>6 DEF FreshInv
<1>. QED  BY <1>3, <1>4

(* The request in progress is answered with its closure. *)
LEMMA AnswerKeepsFresh ==
  ASSUME FreshInv, Answering, UNCHANGED scanner, FilesFresh', ClosuresFresh',
         NEW what, answer(what), what = closureOfAll(current.request)
  PROVE  FreshInv'
<1>1. /\ answers' = Append(answers, [request |-> current.request, answer |-> what])
      /\ current' = Idle /\ current.request \in scanner.requests
  BY DEF answer, Answering
<1>2. answers' \in Seq(FreshAnswers')
  BY <1>1, AnswerGiven DEF FreshInv
<1>. QED  BY <1>1, <1>2 DEF FreshInv

LEMMA NextSourceKeepsFresh == ASSUME FreshInv, NextSource  PROVE FreshInv'
<1>. DEFINE q == current.request
            source == Head(current.rest)
            key == closureKey(scanner, q, current.search, source)
<1>1. /\ current # Idle /\ ~current.open /\ UNCHANGED <<scanner, files>>
      /\ Answering
  BY DEF NextSource, FreshInv
<1>2. FilesFresh' /\ (closures' = closures => ClosuresFresh')
  BY <1>1 DEF FreshInv, FilesFresh, ClosuresFresh, fileKeyOf, scanOf, closureKeyOf, freshClosure
<1>3. /\ q \in scanner.requests /\ DOMAIN current = CurrentFields
      /\ current.search = searchOf(scanner, q) /\ current.search # Failed
      /\ key = closureKeyOf(q, source)
  BY <1>1 DEF Answering, closureKeyOf
<1>4. CASE current.rest = <<>>
  <2>1. answer(current.sum) /\ closures' = closures
    BY <1>4 DEF NextSource
  <2>2. PICK done : /\ ToSet(sourcesOf(scanner, q)) = done \cup ToSet(<<>>)
                    /\ current.sum = together(closuresOf(scanner, q, done))
    BY <1>1, <1>4 DEF Answering
  <2>3. done = ToSet(sourcesOf(scanner, q))
    BY <2>2 DEF ToSet
  <2>4. current.sum = closureOfAll(q)
    BY <1>3, <2>2, <2>3 DEF closureOfAll
  <2>. QED  BY <1>1, <1>2, <2>1, <2>4, AnswerKeepsFresh
<1>5. CASE current.rest # <<>>
  <2>0. source \in ToSet(sourcesOf(scanner, q))
    BY <1>1, <1>5, NextIsSource
  <2>1. CASE key \in DOMAIN closures /\ closures' = closures /\ closures[key] = Failed /\ answer(Failed)
    <3>1. freshClosure(q, source) = Failed
      BY <1>3, <2>0, <2>1 DEF FreshInv, ClosuresFresh
    <3>2. closureOfAll(q) = Failed
      BY <1>1, <1>5, <3>1, SourceFails
    <3>. QED  BY <1>1, <1>2, <2>1, <3>2, AnswerKeepsFresh
  <2>2. CASE /\ key \in DOMAIN closures /\ closures' = closures /\ closures[key] # Failed
             /\ current' = [current EXCEPT !.rest = Tail(@), !.sum = union(@, closures[key])]
             /\ answers' = answers
    <3>1. freshClosure(q, source) = closures[key]
      BY <1>3, <2>0, <2>2 DEF FreshInv, ClosuresFresh
    <3>2. /\ DOMAIN current' = CurrentFields
          /\ current'.request = current.request /\ current'.search = current.search
          /\ current'.rest = Tail(current.rest) /\ current'.open = current.open
          /\ current'.sum = union(current.sum, closures[key])
      BY <1>3, <2>2 DEF CurrentFields
    <3>. HIDE DEF key
    <3>3. Answering'
      BY <1>1, <1>5, <2>2, <3>1, <3>2, SourceDone
    <3>4. FreshAnswers' = FreshAnswers
      BY <1>1 DEF FreshAnswers, closureOfAll
    <3>. QED  BY <1>1, <1>2, <2>2, <3>2, <3>3, <3>4 DEF FreshInv
  <2>3. CASE /\ ~absForTreePath(scanner, source)
             /\ closures' = stored(closures, key, Failed) /\ answer(Failed)
    <3>1. freshClosure(q, source) = Failed
      BY <2>3 DEF freshClosure, closureOf
    <3>2. closures' = stored(closures, closureKeyOf(q, source), freshClosure(q, source))
      BY <1>3, <2>3, <3>1
    <3>3. ClosuresFresh'
      BY <1>1, <1>3, <3>2, ClosureStored
    <3>4. closureOfAll(q) = Failed
      BY <1>1, <1>5, <3>1, SourceFails
    <3>. QED  BY <1>1, <1>2, <2>3, <3>3, <3>4, AnswerKeepsFresh
  <2>4. CASE /\ absForTreePath(scanner, source) /\ closures' = closures /\ answers' = answers
             /\ current' = [current EXCEPT
                              !.open = TRUE, !.visited = {}, !.found = NoClosure,
                              !.stack = <<[path |-> clean(source), guarded |-> FALSE]>>]
    <3>1. /\ DOMAIN current' = CurrentFields /\ current'.open
          /\ current'.request = q /\ current'.search = current.search
          /\ current'.rest = current.rest /\ current'.sum = current.sum
          /\ current'.visited = {} /\ current'.found = NoClosure
          /\ current'.stack = <<rootOf(source)>>
      BY <1>3, <2>4 DEF CurrentFields, rootOf
    <3>2. Answering'
      BY <1>1, <3>1 DEF Answering
    <3>3. FreshAnswers' = FreshAnswers
      BY <1>1 DEF FreshAnswers, closureOfAll
    <3>4. rootOf(source) \in entriesOf(scanner)
      BY <2>4 DEF rootOf, entriesOf, absForTreePath
    <3>5. ToSet(<<rootOf(source)>>) = {rootOf(source)} /\ <<rootOf(source)>> \in Seq(entriesOf(scanner))
      BY <3>4 DEF ToSet
    <3>6. \A V : added(V, {}) = {} /\ below(V, {}) = {}
      BY DEF below, added, childrenOf
    <3>7. combined({}, clean(source)) = NoClosure
      BY DEF combined, NoClosure
    <3>8. Scanning'
      <4>1. Head(current.rest)' = source
        BY <3>1
      <4>2. (current.visited \cup ToSet(current.stack))' = {rootOf(source)}
        BY <3>1, <3>5
      <4>3. \A R : reaches(OpenVisits', rootOf(source), R) => {rootOf(source)} \subseteq R
        BY DEF reaches
      <4>. HIDE DEF source
      <4>. QED  BY <1>1, <1>5, <2>4, <3>1, <3>5, <3>6, <3>7, <4>1, <4>2, <4>3 DEF Scanning
    <3>. QED  BY <1>1, <1>2, <2>4, <3>2, <3>3, <3>8 DEF FreshInv
  <2>. QED  BY <1>5, <2>1, <2>2, <2>3, <2>4 DEF NextSource
<1>. QED  BY <1>4, <1>5

(* One more entry adds to what is combined. *)
LEMMA CombinedMore ==
  ASSUME NEW adds, \A a \in adds : ~a.fails, NEW v, ~v.fails, NEW source
  PROVE  combined(adds \cup {v}, source)
           = union(combined(adds, source),
                   [refs |-> v.refs, generated |-> v.generated, inputs |-> v.inputs,
                    sourceIncludes |-> v.sourceIncludes \ {source}])
<1>. DEFINE all == adds \cup {v}
            one == [refs |-> v.refs, generated |-> v.generated, inputs |-> v.inputs,
                    sourceIncludes |-> v.sourceIncludes \ {source}]
            c == combined(adds, source)
<1>1. /\ c.refs = UNION {a.refs : a \in adds}
      /\ c.generated = UNION {a.generated : a \in adds}
      /\ c.inputs = UNION {a.inputs : a \in adds}
      /\ c.sourceIncludes = (UNION {a.sourceIncludes : a \in adds}) \ {source}
  BY DEF combined
<1>2. combined(all, source)
        = [refs      |-> UNION {a.refs : a \in all},
           generated |-> UNION {a.generated : a \in all},
           inputs    |-> UNION {a.inputs : a \in all},
           sourceIncludes |-> (UNION {a.sourceIncludes : a \in all}) \ {source}]
  <2>1. \A a \in all : ~a.fails
    OBVIOUS
  <2>. HIDE DEF all
  <2>. QED  BY <2>1 DEF combined
<1>3. /\ UNION {a.refs : a \in all} = (UNION {a.refs : a \in adds}) \cup v.refs
      /\ UNION {a.generated : a \in all} = (UNION {a.generated : a \in adds}) \cup v.generated
      /\ UNION {a.inputs : a \in all} = (UNION {a.inputs : a \in adds}) \cup v.inputs
      /\ UNION {a.sourceIncludes : a \in all}
           = (UNION {a.sourceIncludes : a \in adds}) \cup v.sourceIncludes
  OBVIOUS
<1>4. /\ one.refs = v.refs /\ one.generated = v.generated /\ one.inputs = v.inputs
      /\ one.sourceIncludes = v.sourceIncludes \ {source}
  OBVIOUS
<1>. HIDE DEF all, c, one
<1>5. union(c, one) = [refs           |-> c.refs \cup one.refs,
                       sourceIncludes |-> c.sourceIncludes \cup one.sourceIncludes,
                       generated      |-> c.generated \cup one.generated,
                       inputs         |-> c.inputs \cup one.inputs]
  BY DEF union
<1>6. (UNION {a.sourceIncludes : a \in all}) \ {source}
        = c.sourceIncludes \cup one.sourceIncludes
  BY <1>1, <1>3, <1>4
<1>7. combined(all, source) = union(c, one)
  BY <1>1, <1>2, <1>3, <1>4, <1>5, <1>6
<1>. QED  BY <1>7 DEF all, c, one

(* What the open source has left to visit can be got to, and its closure is *)
(* what can be got to adds.                                                 *)
LEMMA OpenReach ==
  ASSUME FreshInv, current # Idle, current.open
  PROVE  \E R : /\ reaches(OpenVisits, rootOf(Head(current.rest)), R)
                /\ current.visited \cup ToSet(current.stack) \subseteq R
                /\ freshClosure(current.request, Head(current.rest))
                     = combined(added(OpenVisits, R), clean(Head(current.rest)))
<1>. DEFINE source == Head(current.rest)
            q == scanRequest(current.request, source)
<1>1. Answering /\ Scanning /\ scanner \in Scanners
  BY DEF FreshInv
<1>2. /\ IsFiniteSet(DOMAIN scanner.tree)
      /\ \A path \in DOMAIN scanner.tree : isSequence(scanner.text[scanner.tree[path]])
  BY <1>1, ScannersAssumption
<1>3. current.search # Failed /\ current.search = searchOf(scanner, current.request)
  BY <1>1 DEF Answering
<1>4. absForTreePath(scanner, source)
  BY <1>1 DEF Scanning
<1>. HIDE DEF source, q
<1>5. PICK R : /\ reaches(visitsOf(scanner, q, current.search), rootOf(source), R)
               /\ closureOf(scanner, q, current.search, source)
                    = combined(added(visitsOf(scanner, q, current.search), R), clean(source))
  BY <1>2, <1>3, <1>4, ClosureIsReach
<1>6. OpenVisits = visitsOf(scanner, q, current.search)
  BY DEF OpenVisits, q, source
<1>7. freshClosure(current.request, source) = closureOf(scanner, q, current.search, source)
  BY <1>3 DEF freshClosure, q
<1>8. current.visited \cup ToSet(current.stack) \subseteq R
  BY <1>1, <1>5, <1>6 DEF Scanning, source
<1>. QED  BY <1>5, <1>6, <1>7, <1>8 DEF source

LEMMA CloseSourceKeepsFresh == ASSUME FreshInv, CloseSource  PROVE FreshInv'
<1>. DEFINE q == current.request
            source == Head(current.rest)
<1>1. /\ current # Idle /\ current.open /\ current.stack = <<>>
      /\ UNCHANGED <<scanner, files, answers>>
      /\ closures' = stored(closures, closureKey(scanner, q, current.search, source), current.found)
      /\ current' = [current EXCEPT !.open = FALSE, !.rest = Tail(@), !.sum = union(@, current.found)]
  BY DEF CloseSource
<1>2. Answering /\ Scanning
  BY <1>1 DEF FreshInv
<1>3. /\ DOMAIN current = CurrentFields /\ q \in scanner.requests
      /\ current.search = searchOf(scanner, q) /\ current.rest # <<>>
  BY <1>2 DEF Answering, Scanning
<1>4. PICK R : /\ reaches(OpenVisits, rootOf(source), R)
               /\ current.visited \cup ToSet(current.stack) \subseteq R
               /\ freshClosure(q, source) = combined(added(OpenVisits, R), clean(source))
  BY <1>1, OpenReach
<1>5. ToSet(current.stack) = {}
  BY <1>1 DEF ToSet
<1>6. /\ current.visited \subseteq entriesOf(scanner) /\ rootOf(source) \in current.visited
      /\ below(OpenVisits, current.visited) \subseteq current.visited
      /\ \A v \in added(OpenVisits, current.visited) : ~v.fails
      /\ current.found = combined(added(OpenVisits, current.visited), clean(source))
  BY <1>2, <1>5 DEF Scanning
<1>7. current.visited = R
  <2>1. current.visited \cap DOMAIN OpenVisits = current.visited
    BY <1>6 DEF OpenVisits, visitsOf
  <2>2. R \subseteq current.visited
    BY <1>4, <1>6, <2>1 DEF reaches
  <2>. QED  BY <1>4, <2>2
<1>8. current.found = freshClosure(q, source)
  BY <1>4, <1>6, <1>7
<1>9. freshClosure(q, source) # Failed
  <2>. DEFINE adds == added(OpenVisits, current.visited)
  <2>1. "refs" \in DOMAIN combined(adds, clean(source))
    BY <1>6 DEF combined
  <2>2. "refs" \notin DOMAIN Failed
    BY DEF Failed
  <2>. QED  BY <1>6, <1>8, <2>1, <2>2
<1>10. ClosuresFresh'
  <2>1. closures' = stored(closures, closureKeyOf(q, source), freshClosure(q, source))
    BY <1>1, <1>3, <1>8 DEF closureKeyOf
  <2>. QED  BY <1>1, <1>3, <2>1, ClosureStored
<1>11. /\ DOMAIN current' = CurrentFields
       /\ current'.request = current.request /\ current'.search = current.search
       /\ current'.rest = Tail(current.rest) /\ ~current'.open
       /\ current'.sum = union(current.sum, freshClosure(q, source))
  BY <1>1, <1>3, <1>8 DEF CurrentFields
<1>12. Answering'
  BY <1>1, <1>2, <1>3, <1>9, <1>11, SourceDone
<1>13. FilesFresh' /\ FreshAnswers' = FreshAnswers
  BY <1>1 DEF FreshInv, FilesFresh, fileKeyOf, scanOf, FreshAnswers, closureOfAll
<1>. QED  BY <1>1, <1>10, <1>11, <1>12, <1>13 DEF FreshInv

(* An entry was visited before. *)
LEMMA SeenKeepsFresh ==
  ASSUME FreshInv, current # Idle, current.open, current.stack # <<>>,
         Last(current.stack) \in current.visited,
         current' = [current EXCEPT !.stack = Front(@)],
         UNCHANGED <<scanner, files, closures, answers>>
  PROVE  FreshInv'
<1>. DEFINE E == entriesOf(scanner)
            stack == current.stack
<1>1. Answering /\ Scanning
  BY DEF FreshInv
<1>2. /\ DOMAIN current' = CurrentFields /\ current'.open
      /\ current'.request = current.request /\ current'.search = current.search
      /\ current'.rest = current.rest /\ current'.sum = current.sum
      /\ current'.visited = current.visited /\ current'.found = current.found
      /\ current'.stack = Front(stack)
  BY <1>1 DEF Answering, CurrentFields
<1>3. stack \in Seq(E) /\ stack # <<>>
  BY <1>1 DEF Scanning
<1>4. Front(stack) \in Seq(E) /\ ToSet(stack) = {Last(stack)} \cup ToSet(Front(stack))
  <2>. HIDE DEF stack, E
  <2>. QED  BY <1>3, SequenceParts
<1>5. (current.visited \cup ToSet(current.stack))' = current.visited \cup ToSet(current.stack)
  BY <1>2, <1>4
<1>6. OpenVisits' = OpenVisits
  BY <1>2 DEF OpenVisits
<1>7. Scanning'
  BY <1>1, <1>2, <1>4, <1>5, <1>6 DEF Scanning
<1>8. Answering'
  BY <1>1, <1>2 DEF Answering
<1>9. FilesFresh' /\ ClosuresFresh' /\ FreshAnswers' = FreshAnswers
  BY DEF FreshInv, FilesFresh, ClosuresFresh, fileKeyOf, scanOf, closureKeyOf, freshClosure,
         FreshAnswers, closureOfAll
<1>. QED  BY <1>2, <1>7, <1>8, <1>9 DEF FreshInv

(* The children of an entry that were not visited, pushed on a stack. *)
unseenOf(s, visited) == {i \in DOMAIN s : s[i] \notin visited}

pushedOn(s, visited, stack) == stack \o elementsAt(s, unseenOf(s, visited))

LEMMA ChildrenPushed ==
  ASSUME NEW E, NEW stack \in Seq(E), NEW s \in Seq(E), NEW visited
  PROVE  /\ pushedOn(s, visited, stack) \in Seq(E)
         /\ ToSet(pushedOn(s, visited, stack)) = ToSet(stack) \cup (ToSet(s) \ visited)
<1>. DEFINE unseen == unseenOf(s, visited)
            pushed == elementsAt(s, unseen)
<1>1. DOMAIN s = 1..Len(s) /\ Len(s) \in Nat
  OBVIOUS
<1>2. unseen \in SUBSET (DOMAIN s) /\ IsFiniteSet(DOMAIN s) /\ DOMAIN s \in SUBSET Nat
  <2>1. unseen \in SUBSET (DOMAIN s)
    BY DEF unseenOf
  <2>2. 1 \in Int /\ Len(s) \in Int
    BY <1>1
  <2>3. IsFiniteSet(1..Len(s))
    BY <2>2, FS_Interval
  <2>. QED  BY <1>1, <2>1, <2>3
<1>3. {s[i] : i \in unseen} = ToSet(s) \ visited
  BY DEF ToSet, unseenOf
<1>. HIDE DEF unseen
<1>4. unseen \in SUBSET Nat /\ IsFiniteSet(unseen)
  BY <1>2, FS_Subset
<1>5. pushed \in Seq({s[i] : i \in unseen}) /\ ToSet(pushed) = {s[i] : i \in unseen}
  <2>. DEFINE P == unseen
  <2>1. P \in SUBSET Nat /\ IsFiniteSet(P)
    BY <1>4
  <2>. HIDE DEF P, pushed
  <2>2. /\ elementsAt(s, P) \in Seq({s[i] : i \in P})
        /\ ToSet(elementsAt(s, P)) = {s[i] : i \in P}
    BY <2>1, ElementsAtPlaces
  <2>. QED  BY <2>2 DEF P, pushed
<1>6. ToSet(s) \subseteq E
  BY SequenceParts
<1>. HIDE DEF pushed
<1>7. pushed \in Seq(E) /\ ToSet(pushed) = ToSet(s) \ visited
  BY <1>3, <1>5, <1>6
<1>8. stack \o pushed \in Seq(E) /\ ToSet(stack \o pushed) = ToSet(stack) \cup ToSet(pushed)
  BY <1>7, ConcatenationHasBoth
<1>. QED  BY <1>7, <1>8 DEF pushed, unseen, pushedOn

LEMMA VisitKeepsFresh ==
  ASSUME FreshInv, ScanFile, Last(current.stack) \notin current.visited
  PROVE  FreshInv'
<1>. DEFINE request == current.request
            source == Head(current.rest)
            q == scanRequest(request, source)
            E == entriesOf(scanner)
            stack == current.stack
            entry == Last(stack)
            key == fileKey(scanner, entry.path, current.search, q)
            v == OpenVisits[entry]
            R_(S) == reaches(OpenVisits, rootOf(source), S)
<1>1. /\ current # Idle /\ current.open /\ stack # <<>> /\ UNCHANGED scanner
      /\ files' = IF key \in DOMAIN files THEN files
                  ELSE stored(files, key, scan(scanner, entry.path, current.search, q))
      /\ Visited(source, entry, visit(scanner, q, current.search, entry, files'[key]))
  BY DEF ScanFile
<1>2. Answering /\ Scanning /\ scanner \in Scanners
  BY <1>1 DEF FreshInv
<1>3. /\ DOMAIN current = CurrentFields /\ request \in scanner.requests
      /\ current.search = searchOf(scanner, request) /\ current.rest # <<>>
      /\ stack \in Seq(E)
  BY <1>2 DEF Answering, Scanning
<1>4. /\ Front(stack) \in Seq(E) /\ entry \in E
      /\ ToSet(stack) = {entry} \cup ToSet(Front(stack))
  <2>. HIDE DEF stack, E
  <2>. QED  BY <1>1, <1>3, SequenceParts
<1>5. source \in ToSet(sourcesOf(scanner, request)) /\ entry.path \in DOMAIN scanner.tree
  BY <1>2, <1>3, <1>4, NextIsSource DEF entriesOf
<1>6. /\ key = fileKeyOf(request, source, entry.path)
      /\ scan(scanner, entry.path, current.search, q) = scanOf(request, source, entry.path)
  BY <1>3 DEF fileKeyOf, scanOf
<1>7. files'[key] = scan(scanner, entry.path, current.search, q)
  <2>1. CASE key \in DOMAIN files
    <3>1. files' = files
      BY <1>1, <2>1
    <3>2. files[fileKeyOf(request, source, entry.path)] = scanOf(request, source, entry.path)
      BY <1>3, <1>5, <1>6, <2>1 DEF FreshInv, FilesFresh
    <3>. QED  BY <1>6, <3>1, <3>2
  <2>2. CASE key \notin DOMAIN files
    <3>. HIDE DEF key
    <3>. QED  BY <1>1, <2>2 DEF stored
  <2>. QED  BY <2>1, <2>2
<1>8. FilesFresh'
  <2>1. CASE key \in DOMAIN files
    <3>1. files' = files
      BY <1>1, <2>1
    <3>. QED  BY <1>1, <3>1 DEF FreshInv, FilesFresh, fileKeyOf, scanOf
  <2>2. CASE key \notin DOMAIN files
    <3>1. files' = stored(files, fileKeyOf(request, source, entry.path),
                          scanOf(request, source, entry.path))
      BY <1>1, <1>6, <2>2
    <3>. QED  BY <1>1, <1>3, <3>1, FileStored
  <2>. QED  BY <2>1, <2>2
<1>9. visit(scanner, q, current.search, entry, files'[key]) = v
  BY <1>4, <1>7 DEF OpenVisits, visitsOf, visitOf
<1>10. Visited(source, entry, v)
  BY <1>1, <1>9
<1>11. PICK R : /\ R_(R) /\ current.visited \cup ToSet(stack) \subseteq R
                /\ freshClosure(request, source) = combined(added(OpenVisits, R), clean(source))
  BY <1>1, OpenReach
<1>12. CASE v.fails
  <2>1. /\ closures' = stored(closures, closureKey(scanner, request, current.search, source), Failed)
        /\ answer(Failed)
    BY <1>10, <1>12 DEF Visited
  <2>2. v \in added(OpenVisits, R)
    BY <1>4, <1>11 DEF added
  <2>. HIDE DEF v
  <2>3. freshClosure(request, source) = Failed
    BY <1>11, <1>12, <2>2 DEF combined
  <2>4. ClosuresFresh'
    <3>1. closures' = stored(closures, closureKeyOf(request, source), freshClosure(request, source))
      BY <1>3, <2>1, <2>3 DEF closureKeyOf
    <3>. QED  BY <1>1, <1>3, <3>1, ClosureStored
  <2>5. closureOfAll(request) = Failed
    BY <1>2, <1>3, <2>3, SourceFails
  <2>. QED  BY <1>1, <1>2, <1>8, <2>1, <2>4, <2>5, AnswerKeepsFresh
<1>13. CASE ~v.fails
  <2>. DEFINE visited == current.visited \cup {entry}
              unseen == {i \in DOMAIN v.children : v.children[i] \notin visited}
              adds == [refs |-> v.refs, generated |-> v.generated, inputs |-> v.inputs,
                       sourceIncludes |-> v.sourceIncludes \ {clean(source)}]
  <2>1. /\ current' = [current EXCEPT !.visited = visited,
                         !.stack = Front(@) \o elementsAt(v.children, unseen),
                         !.found = union(@, adds)]
        /\ UNCHANGED <<closures, answers>>
    BY <1>10, <1>13 DEF Visited, seen
  <2>2. /\ DOMAIN current' = CurrentFields /\ current'.open
        /\ current'.request = request /\ current'.search = current.search
        /\ current'.rest = current.rest /\ current'.sum = current.sum
        /\ current'.visited = visited
        /\ current'.stack = Front(stack) \o elementsAt(v.children, unseen)
        /\ current'.found = union(current.found, adds)
    <3>. HIDE DEF visited, unseen, adds, v
    <3>. QED  BY <1>1, <1>3, <2>1 DEF CurrentFields
  <2>3. v.children \in Seq(E)
    <3>1. \A path \in DOMAIN scanner.tree : isSequence(scanner.text[scanner.tree[path]])
      BY <1>2, ScannersAssumption
    <3>2. v = visitOf(scanner, q, current.search, entry)
      BY <1>4 DEF OpenVisits, visitsOf
    <3>. HIDE DEF v, E, entry, q
    <3>. QED  BY <1>4, <3>1, <3>2, VisitChildren DEF E
  <2>4. /\ current'.stack \in Seq(E)
        /\ ToSet(current'.stack) = ToSet(Front(stack)) \cup (ToSet(v.children) \ visited)
    <3>1. Front(stack) \in Seq(E)
      BY <1>4
    <3>. DEFINE s == v.children
                front == Front(stack)
    <3>. HIDE DEF v, E, entry, stack, visited, s, front, unseen
    <3>2. s \in Seq(E) /\ front \in Seq(E)
      BY <2>3, <3>1 DEF s, front
    <3>3. current'.stack = pushedOn(s, visited, front)
      BY <2>2 DEF unseen, s, front, unseenOf, pushedOn
    <3>4. /\ pushedOn(s, visited, front) \in Seq(E)
          /\ ToSet(pushedOn(s, visited, front)) = ToSet(front) \cup (ToSet(s) \ visited)
      BY <3>2, ChildrenPushed
    <3>. QED  BY <3>3, <3>4 DEF s, front
  <2>. HIDE DEF unseen
  <2>5. OpenVisits' = OpenVisits
    BY <1>1, <2>2 DEF OpenVisits
  <2>6. below(OpenVisits, visited) = below(OpenVisits, current.visited) \cup ToSet(v.children)
    BY DEF below, added, childrenOf
  <2>7. added(OpenVisits, visited) = added(OpenVisits, current.visited) \cup {v}
    BY DEF added
  <2>8. ToSet(v.children) \subseteq below(OpenVisits, R)
    BY <1>4, <1>11 DEF below, added, childrenOf
  <2>. DEFINE before == current.visited \cup ToSet(stack)
              after == visited \cup ToSet(current'.stack)
  <2>9. after = before \cup ToSet(v.children)
    BY <1>4, <2>4
  <2>10. \A S : R_(S) => after \subseteq S
    <3>1. SUFFICES ASSUME NEW S, R_(S)  PROVE after \subseteq S
      OBVIOUS
    <3>2. before \subseteq S
      BY <1>2, <3>1 DEF Scanning
    <3>3. entry \in S
      BY <1>4, <3>2
    <3>4. ToSet(v.children) \subseteq below(OpenVisits, S)
      BY <3>3 DEF below, added, childrenOf
    <3>5. below(OpenVisits, S) \subseteq S
      BY <3>1 DEF reaches
    <3>. HIDE DEF after, before
    <3>. QED  BY <2>9, <3>2, <3>4, <3>5
  <2>11. /\ rootOf(source) \in before
         /\ below(OpenVisits, current.visited) \subseteq before
         /\ \A a \in added(OpenVisits, current.visited) : ~a.fails
         /\ current.found = combined(added(OpenVisits, current.visited), clean(source))
         /\ current.visited \subseteq E /\ absForTreePath(scanner, source)
    BY <1>2 DEF Scanning
  <2>12. current'.found = combined(added(OpenVisits, visited), clean(source))
    <3>. HIDE DEF v, visited
    <3>. QED  BY <1>13, <2>2, <2>7, <2>11, CombinedMore
  <2>13. Scanning'
    <3>1. rootOf(source) \in after /\ below(OpenVisits, visited) \subseteq after
      BY <2>6, <2>9, <2>11
    <3>2. \A a \in added(OpenVisits, visited) : ~a.fails
      BY <1>13, <2>7, <2>11
    <3>3. visited \subseteq E
      BY <1>4, <2>11
    <3>4. /\ Head(current.rest)' = source /\ (current.visited)' = visited
          /\ (current.visited \cup ToSet(current.stack))' = after
          /\ entriesOf(scanner)' = E
      BY <1>1, <2>2
    <3>. HIDE DEF source, visited, after, E, v, entry
    <3>. QED  BY <1>1, <1>3, <2>2, <2>4, <2>5, <2>10, <2>11, <2>12, <3>1, <3>2, <3>3, <3>4 DEF Scanning
  <2>14. Answering'
    BY <1>1, <1>2, <2>2 DEF Answering
  <2>15. ClosuresFresh' /\ FreshAnswers' = FreshAnswers
    BY <1>1, <2>1 DEF FreshInv, ClosuresFresh, closureKeyOf, freshClosure, FreshAnswers, closureOfAll
  <2>. QED  BY <1>1, <1>8, <2>1, <2>13, <2>14, <2>15 DEF FreshInv
<1>. QED  BY <1>12, <1>13

LEMMA ScanFileKeepsFresh == ASSUME FreshInv, ScanFile  PROVE FreshInv'
<1>1. CASE Last(current.stack) \in current.visited
  BY <1>1, SeenKeepsFresh DEF ScanFile
<1>2. CASE Last(current.stack) \notin current.visited
  BY <1>2, VisitKeepsFresh
<1>. QED  BY <1>1, <1>2

LEMMA FreshStep == ASSUME FreshInv, [Next]_vars  PROVE FreshInv'
<1>1. CASE UNCHANGED vars
  <2>1. /\ FilesFresh' /\ ClosuresFresh' /\ FreshAnswers' = FreshAnswers
    BY <1>1 DEF vars, FreshInv, FilesFresh, ClosuresFresh, fileKeyOf, scanOf, closureKeyOf,
                freshClosure, FreshAnswers, closureOfAll
  <2>2. Answering' <=> Answering
    BY <1>1 DEF vars, Answering
  <2>3. Scanning' <=> Scanning
    BY <1>1 DEF vars, Scanning, OpenVisits
  <2>. QED  BY <1>1, <2>1, <2>2, <2>3 DEF vars, FreshInv
<1>2. CASE Next
  <2>1. CASE \E q \in scanner.requests : Request(q)
    BY <2>1, RequestKeepsFresh
  <2>. QED  BY <1>2, <2>1, NextSourceKeepsFresh, ScanFileKeepsFresh, CloseSourceKeepsFresh DEF Next
<1>. QED  BY <1>1, <1>2

\* Whatever was asked of a scanner before, and in whatever order, a request is
\* answered with the closure that a scanner without caches would compute: for
\* every tree, configurations, profiles, search paths and provided headers.
\* (closureForSourceConfigInputsSearchProfile, config_footprint.go:575-791;
\* scanFile, config_footprint.go:927-937)
THEOREM CachesNeverStale == Spec => []CacheIsFresh
<1>1. Init => FreshInv
  <2>. SUFFICES ASSUME Init  PROVE FreshInv
    OBVIOUS
  <2>1. scanner \in Scanners /\ files = <<>> /\ closures = <<>> /\ current = Idle /\ answers = <<>>
    BY DEF Init
  <2>2. DOMAIN files = {} /\ DOMAIN closures = {} /\ answers \in Seq(FreshAnswers)
    BY <2>1
  <2>. QED  BY <2>1, <2>2 DEF FreshInv, FilesFresh, ClosuresFresh
<1>2. FreshInv => CacheIsFresh
  <2>. SUFFICES ASSUME FreshInv, answers # <<>>
                PROVE  answers[Len(answers)].answer = closureOfAll(answers[Len(answers)].request)
    BY DEF CacheIsFresh
  <2>1. answers[Len(answers)] \in FreshAnswers
    <3>1. answers \in Seq(FreshAnswers)
      BY DEF FreshInv
    <3>. HIDE DEF FreshAnswers
    <3>. QED  BY <3>1
  <2>. QED  BY <2>1 DEF FreshAnswers
<1>. QED  BY <1>1, <1>2, FreshStep, PTL DEF Spec

=============================================================================
