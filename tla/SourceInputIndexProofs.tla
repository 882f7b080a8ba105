----------------------- MODULE SourceInputIndexProofs -----------------------
(***************************************************************************)
(* The source input index keeps what the store of inputs promises, for     *)
(* every set of owners, input lists and orders of groups.  The inductive   *)
(* invariant says that the numbers always stand for what the owners        *)
(* brought; interning extends the numbering, sorting permutes it.  What    *)
(* validation lets through, built here or loaded, has one form only.       *)
(***************************************************************************)
EXTENDS LoadedIndex, FiniteSetTheorems, SequenceTheorems, TLAPS

TypeOK ==
  /\ files \in Seq(Inputs)
  /\ groups \in Seq(SUBSET Nat)
  /\ DOMAIN ref \subseteq Owners
  /\ ref \in [DOMAIN ref -> Nat]
  /\ phase \in {"collecting", "published", "refused"}

\* Every owner has what it brought.
Faithful == \A o \in DOMAIN ref : expanded(o) = broughtBy(o) /\ acceptable(o)

PublishedComplete == phase = "published" => \A o \in DOMAIN ref : complete(o)

IInv == TypeOK /\ IndexOK /\ Faithful /\ PublishedComplete

-----------------------------------------------------------------------------
\* Nothing is lost in a listing: it names every element of the set, once.
LEMMA ListingFacts ==
  ASSUME NEW S, IsFiniteSet(S), NEW s \in [1 .. Cardinality(S) -> S], Elements(s) = S,
         \A i, j \in DOMAIN s : i < j => s[i] # s[j]
  PROVE  /\ s \in Seq(S) /\ DOMAIN s = 1 .. Len(s)
         /\ \A x \in S : numberOf(x, s) \in DOMAIN s /\ s[numberOf(x, s)] = x
         /\ \A i, j \in DOMAIN s : i # j => s[i] # s[j]
         /\ \A i \in DOMAIN s : numberOf(s[i], s) = i
<1>1. Cardinality(S) \in Nat
  BY FS_CardinalityType
<1>3. s \in Seq(S) /\ Len(s) = Cardinality(S) /\ DOMAIN s = 1 .. Len(s)
  BY <1>1
<1>4. \A x \in S : \E i \in DOMAIN s : s[i] = x
  BY DEF Elements
<1>5. \A i, j \in DOMAIN s : i # j => s[i] # s[j]
  <2>1. \A i, j \in DOMAIN s : i # j => i < j \/ j < i
    BY <1>1, <1>3
  <2>. QED  BY <2>1
<1>6. \A x \in S : numberOf(x, s) \in DOMAIN s /\ s[numberOf(x, s)] = x
  BY <1>4 DEF numberOf
<1>7. \A i \in DOMAIN s : numberOf(s[i], s) = i
  BY <1>3, <1>5, <1>6
<1>. QED  BY <1>3, <1>5, <1>6, <1>7

\* The elements of a sequence are finitely many.
LEMMA ElementsFinite ==
  ASSUME NEW T, NEW s \in Seq(T)
  PROVE  IsFiniteSet(Elements(s))
<1>1. DOMAIN s = 1 .. Len(s) /\ Len(s) \in Nat
  OBVIOUS
<1>2. IsFiniteSet(1 .. Len(s))
  BY <1>1, FS_Interval
<1>3. s \in Surjection(1 .. Len(s), Elements(s))
  BY <1>1 DEF Surjection, Elements
<1>. QED  BY <1>2, <1>3, FS_Surjection

-----------------------------------------------------------------------------
Numbered(list, numbered) ==
  /\ numbered \in Seq(Inputs)
  /\ \A i \in DOMAIN files : i \in DOMAIN numbered /\ numbered[i] = files[i]
  /\ \A i, j \in DOMAIN numbered : i # j => numbered[i][1] # numbered[j][1]
  /\ {numbered[i] : i \in indices(list, numbered)} = Elements(list)
  /\ \A i \in DOMAIN numbered : i \in DOMAIN files \/ i \in indices(list, numbered)
  /\ newInputs(list) = {} => numbered = files

\* What interning the list of an owner does to files: the list's inputs are all
\* there, old numbers stay, paths stay distinct.
LEMMA InternFiles ==
  ASSUME TypeOK, IndexOK, NEW list \in Seq(Paths \X (Digests \cup {"malformed"})),
         canonical(list), ~ conflicts(list),
         NEW added \in Listings(newInputs(list), byPath)
  PROVE  Numbered(list, files \o added)
<1>. DEFINE N == newInputs(list)
            numbered == files \o added
<1>1. IsFiniteSet(N)
  <2>1. N \subseteq Elements(list)
    BY DEF newInputs
  <2>. QED  BY <2>1, ElementsFinite, FS_Subset
<1>2. added \in [1 .. Cardinality(N) -> N] /\ Elements(added) = N
      /\ \A i, j \in DOMAIN added : i < j => added[i] # added[j]
  BY DEF Listings
<1>3. added \in Seq(N) /\ DOMAIN added = 1 .. Len(added)
      /\ \A i, j \in DOMAIN added : i # j => added[i] # added[j]
  <2>. HIDE DEF N
  <2>. QED  BY <1>1, <1>2, ListingFacts
<1>4. N \subseteq Elements(list) /\ N \subseteq Inputs
      /\ \A f \in N : \A i \in DOMAIN files : files[i][1] # f[1]
  BY DEF newInputs, canonical
<1>. HIDE DEF N
<1>5. files \in Seq(Inputs) /\ DOMAIN files = 1 .. Len(files) /\ Len(files) \in Nat
  BY DEF TypeOK
<1>6. added \in Seq(Inputs) /\ Len(added) \in Nat
  BY <1>3, <1>4
<1>7. /\ numbered \in Seq(Inputs) /\ Len(numbered) = Len(files) + Len(added)
      /\ DOMAIN numbered = 1 .. (Len(files) + Len(added))
      /\ \A i \in 1 .. Len(files) : numbered[i] = files[i]
      /\ \A i \in 1 .. Len(added) : numbered[Len(files) + i] = added[i]
  BY <1>5, <1>6
<1>. HIDE DEF numbered
<1>8. \A i \in DOMAIN numbered : \/ i \in DOMAIN files /\ numbered[i] = files[i]
                                 \/ \E k \in DOMAIN added : i = Len(files) + k /\ numbered[i] = added[k]
  <2>1. TAKE i \in DOMAIN numbered
  <2>2. CASE i \in 1 .. Len(files)
    BY <2>2, <1>5, <1>7
  <2>3. CASE i \notin 1 .. Len(files)
    <3>1. i - Len(files) \in 1 .. Len(added) /\ i = Len(files) + (i - Len(files))
      BY <2>1, <2>3, <1>5, <1>6, <1>7
    <3>. QED  BY <3>1, <1>3, <1>7
  <2>. QED  BY <2>2, <2>3
<1>9. \A k \in DOMAIN added : added[k] \in N
  BY <1>2 DEF Elements
<1>10. \A a, b \in Elements(list) : a[1] = b[1] => a = b
  <2>1. \A i, j \in DOMAIN list : list[i][1] = list[j][1] => list[i] = list[j]
    BY DEF canonical
  <2>. QED  BY <2>1 DEF Elements
<1>11. \A i, j \in DOMAIN numbered : i # j => numbered[i][1] # numbered[j][1]
  <2>1. TAKE i, j \in DOMAIN numbered
  <2>2. HAVE i # j
  <2>3. CASE i \in DOMAIN files /\ j \in DOMAIN files
    BY <2>2, <2>3, <1>5, <1>7 DEF IndexOK
  <2>4. ASSUME NEW a \in DOMAIN files, NEW k \in DOMAIN added
        PROVE  files[a][1] # added[k][1]
    BY <1>4, <1>9
  <2>5. ASSUME NEW a \in DOMAIN added, NEW b \in DOMAIN added, a # b
        PROVE  added[a][1] # added[b][1]
    BY <2>5, <1>3, <1>4, <1>9, <1>10
  <2>. QED  BY <2>1, <2>2, <2>3, <2>4, <2>5, <1>8
<1>12. \A i \in DOMAIN files : i \in DOMAIN numbered /\ numbered[i] = files[i]
  BY <1>5, <1>6, <1>7
<1>13. \A i \in indices(list, numbered) : numbered[i] \in Elements(list)
  <2>1. TAKE i \in indices(list, numbered)
  <2>2. PICK k \in DOMAIN list : i \in DOMAIN numbered /\ numbered[i][1] = list[k][1]
    BY DEF indices
  <2>3. CASE i \in DOMAIN files
    <3>1. files[i][1] = list[k][1] /\ files[i][2] = list[k][2]
      BY <2>2, <2>3, <1>12 DEF conflicts
    <3>2. files[i] \in Paths \X Digests /\ list[k] \in Paths \X (Digests \cup {"malformed"})
      BY <2>2, <2>3, <1>5 DEF Inputs
    <3>3. files[i] = list[k]
      BY <3>1, <3>2
    <3>. QED  BY <3>3, <2>2, <2>3, <1>12 DEF Elements
  <2>4. CASE i \notin DOMAIN files
    BY <2>2, <2>4, <1>4, <1>8, <1>9
  <2>. QED  BY <2>3, <2>4
<1>14. \A f \in Elements(list) : \E i \in DOMAIN numbered : numbered[i][1] = f[1]
  <2>1. TAKE f \in Elements(list)
  <2>2. CASE f \in N
    <3>1. PICK k \in DOMAIN added : added[k] = f
      BY <2>2, <1>2 DEF Elements
    <3>2. Len(files) + k \in DOMAIN numbered /\ numbered[Len(files) + k] = f
      BY <3>1, <1>3, <1>5, <1>6, <1>7
    <3>. QED  BY <3>2
  <2>3. CASE f \notin N
    <3>1. PICK i \in DOMAIN files : files[i][1] = f[1]
      BY <2>1, <2>3 DEF N, newInputs
    <3>. QED  BY <3>1, <1>12
  <2>. QED  BY <2>2, <2>3
<1>15. Elements(list) \subseteq {numbered[i] : i \in indices(list, numbered)}
  <2>1. SUFFICES ASSUME NEW f \in Elements(list)
                 PROVE  \E i \in indices(list, numbered) : numbered[i] = f
    OBVIOUS
  <2>2. PICK i \in DOMAIN numbered : numbered[i][1] = f[1]
    BY <1>14
  <2>3. i \in indices(list, numbered)
    BY <2>2 DEF indices, Elements
  <2>. QED  BY <2>2, <2>3, <1>10, <1>13
<1>16. \A i \in DOMAIN numbered : i \in DOMAIN files \/ i \in indices(list, numbered)
  <2>1. TAKE i \in DOMAIN numbered
  <2>2. SUFFICES ASSUME i \notin DOMAIN files  PROVE i \in indices(list, numbered)
    OBVIOUS
  <2>3. PICK k \in DOMAIN added : numbered[i] = added[k]
    BY <2>1, <2>2, <1>8
  <2>4. numbered[i] \in Elements(list)
    BY <2>3, <1>4, <1>9
  <2>. QED  BY <2>4 DEF indices, Elements
<1>17. N = {} => numbered = files
  <2>1. SUFFICES ASSUME N = {}  PROVE numbered = files
    OBVIOUS
  <2>2. DOMAIN added = {}
    BY <2>1, <1>9
  <2>3. Len(added) = 0
    BY <2>2, <1>3, <1>6
  <2>4. added = <<>>
    BY <2>3, <1>6
  <2>5. files \o <<>> = files
    BY <1>5
  <2>. QED  BY <2>4, <2>5 DEF numbered
<1>18. {numbered[i] : i \in indices(list, numbered)} = Elements(list)
  BY <1>13, <1>15
<1>20. newInputs(list) = {} => numbered = files
  BY <1>17 DEF N
<1>21. Numbered(list, numbered)
  BY <1>7, <1>11, <1>12, <1>16, <1>18, <1>20 DEF Numbered
<1>. QED  BY <1>21 DEF numbered

\* Interning keeps every owner's inputs and the index in order: the new owner has
\* what it brought, the others what they had.
LEMMA InternStep ==
  ASSUME IInv, NEW owner \in Owners, Intern(owner, List(owner))
  PROVE  IInv' /\ expanded(owner)' = Elements(List(owner))
<1>. DEFINE list == List(owner)
            group == indices(list, files')
<1>1. /\ phase = "collecting" /\ phase' = phase /\ list # <<>> /\ canonical(list)
      /\ ~ conflicts(list) /\ list \in Seq(Paths \X (Digests \cup {"malformed"}))
      /\ internGroup(owner, group)
  BY ListAssumption DEF Intern
<1>2. PICK added \in Listings(newInputs(list), byPath) : files' = files \o added
  BY DEF Intern
<1>2a. Numbered(list, files')
  BY <1>1, <1>2, InternFiles DEF IInv
<1>3. /\ files' \in Seq(Inputs)
      /\ \A i \in DOMAIN files : i \in DOMAIN files' /\ files'[i] = files[i]
      /\ \A i, j \in DOMAIN files' : i # j => files'[i][1] # files'[j][1]
      /\ {files'[i] : i \in group} = Elements(list)
      /\ \A i \in DOMAIN files' : i \in DOMAIN files \/ i \in group
      /\ newInputs(list) = {} => files' = files
  BY <1>2a DEF Numbered
<1>4. group \subseteq DOMAIN files' /\ group \subseteq Nat /\ group # {} /\ Elements(list) # {}
  <2>1. group \subseteq DOMAIN files' /\ DOMAIN files' \subseteq Nat
    BY <1>3 DEF indices
  <2>2. Elements(list) # {}
    <3>1. list \in Seq(Paths \X (Digests \cup {"malformed"})) /\ list # <<>>
      BY <1>1
    <3>2. 1 \in DOMAIN list
      BY <3>1
    <3>. QED  BY <3>2 DEF Elements
  <2>. QED  BY <2>1, <2>2, <1>3
<1>. HIDE DEF list, group
<1>5. /\ groups \in Seq(SUBSET Nat) /\ DOMAIN ref \subseteq Owners /\ ref \in [DOMAIN ref -> Nat]
      /\ \A i \in DOMAIN groups : groups[i] # {} /\ groups[i] \subseteq DOMAIN files
      /\ \A o \in DOMAIN ref : ref[o] \in 0 .. Len(groups)
      /\ \A i, j \in DOMAIN groups : i # j => groups[i] # groups[j]
      /\ DOMAIN groups = 1 .. Len(groups) /\ Len(groups) \in Nat
  BY DEF IInv, TypeOK, IndexOK, decodes
<1>6. PICK g : /\ g \in 1 .. Len(groups') /\ groups'[g] = group
               /\ ref' = [o \in DOMAIN ref \cup {owner} |-> IF o = owner THEN g ELSE ref[o]]
               /\ \/ groups' = groups /\ g \in DOMAIN groups
                  \/ groups' = Append(groups, group) /\ g = Len(groups) + 1 /\ group \notin Elements(groups)
  <2>1. CASE group \in Elements(groups)
    <3>1. groups' = groups /\ referTo(owner, numberOf(group, groups))
      BY <1>1, <2>1 DEF internGroup
    <3>2. numberOf(group, groups) \in DOMAIN groups /\ groups[numberOf(group, groups)] = group
      BY <2>1 DEF Elements, numberOf
    <3>. QED  BY <3>1, <3>2, <1>5 DEF referTo
  <2>2. CASE group \notin Elements(groups)
    <3>1. groups' = Append(groups, group) /\ referTo(owner, Len(groups) + 1)
      BY <1>1, <2>2 DEF internGroup
    <3>2. Len(groups') = Len(groups) + 1 /\ groups'[Len(groups) + 1] = group
      BY <3>1, <1>4, <1>5
    <3>3. Len(groups) + 1 \in 1 .. Len(groups')
      BY <3>2, <1>5
    <3>. QED  BY <3>1, <3>2, <3>3, <2>2 DEF referTo
  <2>. QED  BY <2>1, <2>2
<1>7. /\ groups' \in Seq(SUBSET Nat) /\ DOMAIN groups' = 1 .. Len(groups') /\ Len(groups') \in Nat
      /\ \A i \in DOMAIN groups : i \in DOMAIN groups' /\ groups'[i] = groups[i]
      /\ \A i \in DOMAIN groups' : i \in DOMAIN groups \/ (i = g /\ group \notin Elements(groups))
      /\ g \in DOMAIN groups'
  <2>1. CASE groups' = groups
    BY <2>1, <1>5, <1>6
  <2>2. CASE groups' = Append(groups, group) /\ g = Len(groups) + 1 /\ group \notin Elements(groups)
    BY <2>2, <1>4, <1>5
  <2>. QED  BY <2>1, <2>2, <1>6
<1>8. \A o \in DOMAIN ref' : ref'[o] \in 0 .. Len(groups')
  <2>1. Len(groups) <= Len(groups')
    BY <1>5, <1>6, <1>4
  <2>2. \A o \in DOMAIN ref : ref[o] \in 0 .. Len(groups')
    BY <2>1, <1>5, <1>7
  <2>3. g \in 0 .. Len(groups')
    BY <1>7
  <2>. QED  BY <2>2, <2>3, <1>6
<1>9. \A o \in DOMAIN ref : o # owner => expanded(o)' = expanded(o)
  <2>1. SUFFICES ASSUME NEW o \in DOMAIN ref, o # owner  PROVE expanded(o)' = expanded(o)
    OBVIOUS
  <2>2. ref'[o] = ref[o]
    BY <2>1, <1>6
  <2>3. CASE ref[o] = 0
    BY <2>2, <2>3 DEF expanded
  <2>4. CASE ref[o] # 0
    <3>1. ref[o] \in DOMAIN groups
      BY <2>1, <2>4, <1>5
    <3>2. groups'[ref[o]] = groups[ref[o]] /\ \A i \in groups[ref[o]] : files'[i] = files[i]
      BY <3>1, <1>3, <1>5, <1>7
    <3>. QED  BY <2>2, <2>4, <3>2 DEF expanded
  <2>. QED  BY <2>3, <2>4
<1>10. expanded(owner)' = Elements(list)
  <2>1. ref'[owner] = g
    BY <1>6
  <2>2. g # 0
    BY <1>7
  <2>. QED  BY <2>1, <2>2, <1>3, <1>6 DEF expanded
\* An owner that is met again is in the group it was in.
<1>11. owner \in DOMAIN ref => groups' = groups /\ g = ref[owner] /\ files' = files
  <2>1. SUFFICES ASSUME owner \in DOMAIN ref  PROVE groups' = groups /\ g = ref[owner] /\ files' = files
    OBVIOUS
  <2>2. expanded(owner) = Elements(list)
    BY <2>1 DEF IInv, Faithful, broughtBy, list
  <2>3. ref[owner] # 0
    BY <2>2, <1>4 DEF expanded
  <2>4. ref[owner] \in DOMAIN groups /\ {files[i] : i \in groups[ref[owner]]} = Elements(list)
    BY <2>1, <2>2, <2>3, <1>5 DEF expanded
  <2>5. newInputs(list) = {}
    <3>1. SUFFICES ASSUME NEW f \in newInputs(list)  PROVE FALSE
      OBVIOUS
    <3>2. f \in Elements(list) /\ \A i \in DOMAIN files : files[i][1] # f[1]
      BY DEF newInputs
    <3>3. PICK i \in groups[ref[owner]] : files[i] = f
      BY <2>4, <3>2
    <3>. QED  BY <2>4, <3>2, <3>3, <1>5
  <2>6. files' = files
    BY <2>5, <1>3
  <2>7. groups[ref[owner]] = group
    <3>. DEFINE old == groups[ref[owner]]
    <3>1. \A i, j \in DOMAIN files : files[i] = files[j] => i = j
      BY <2>6, <1>3
    <3>2. old \subseteq DOMAIN files /\ group \subseteq DOMAIN files
      BY <2>4, <2>6, <1>4, <1>5
    <3>3. {files[i] : i \in group} = Elements(list)
      BY <2>6, <1>3
    <3>4. {files[i] : i \in old} = Elements(list)
      BY <2>4
    <3>. HIDE DEF old
    <3>5. \A i \in group : \E j \in old : files[i] = files[j]
      BY <3>3, <3>4
    <3>6. \A i \in old : \E j \in group : files[i] = files[j]
      BY <3>3, <3>4
    <3>7. old = group
      BY <3>1, <3>2, <3>5, <3>6
    <3>. QED  BY <3>7 DEF old
  <2>8. group \in Elements(groups)
    BY <2>4, <2>7 DEF Elements
  <2>9. groups' = groups /\ g \in DOMAIN groups
    BY <2>8, <1>6
  <2>. QED  BY <2>4, <2>6, <2>7, <2>9, <1>5, <1>6
<1>12. TypeOK'
  <2>1. DOMAIN ref' \subseteq Owners /\ ref' \in [DOMAIN ref' -> Nat]
    <3>1. DOMAIN ref' = DOMAIN ref \cup {owner} /\ ref' = [o \in DOMAIN ref' |-> ref'[o]]
      BY <1>6
    <3>2. \A o \in DOMAIN ref' : ref'[o] \in Nat
      BY <1>7, <1>8
    <3>. QED  BY <3>1, <3>2, <1>5
  <2>. QED  BY <2>1, <1>1, <1>3, <1>7 DEF TypeOK, IInv
<1>13. \A i, j \in DOMAIN groups' : i # j => groups'[i] # groups'[j]
  <2>1. TAKE i, j \in DOMAIN groups'
  <2>2. HAVE i # j
  <2>3. CASE i \in DOMAIN groups /\ j \in DOMAIN groups
    BY <2>2, <2>3, <1>5, <1>7
  <2>4. ASSUME NEW a \in DOMAIN groups, group \notin Elements(groups)  PROVE groups'[a] # groups'[g]
    BY <2>4, <1>6, <1>7 DEF Elements
  <2>. QED  BY <2>2, <2>3, <2>4, <1>7
<1>14. \A i \in DOMAIN groups' : groups'[i] # {} /\ groups'[i] \subseteq DOMAIN files'
  BY <1>3, <1>4, <1>5, <1>6, <1>7
<1>15. allReferenced'
  <2>1. {ref[o] : o \in DOMAIN ref} \ {0} = DOMAIN groups /\ UNION Elements(groups) = DOMAIN files
    BY DEF IInv, IndexOK, allReferenced
  <2>2. {ref'[o] : o \in DOMAIN ref'} \ {0} \subseteq DOMAIN groups'
    BY <1>7, <1>8
  <2>3. ASSUME NEW n \in DOMAIN groups'  PROVE n \in {ref'[o] : o \in DOMAIN ref'} \ {0}
    <3>1. n # 0
      BY <1>7
    <3>2. CASE n = g
      BY <3>1, <3>2, <1>6
    <3>3. CASE n # g
      <4>1. PICK o \in DOMAIN ref : ref[o] = n
        BY <3>3, <2>1, <1>7
      <4>2. o # owner
        BY <4>1, <3>3, <1>11
      <4>. QED  BY <3>1, <4>1, <4>2, <1>6
    <3>. QED  BY <3>2, <3>3
  <2>4. UNION Elements(groups') \subseteq DOMAIN files'
    BY <1>14 DEF Elements
  <2>5. ASSUME NEW i \in DOMAIN files'  PROVE i \in UNION Elements(groups')
    <3>1. CASE i \in group
      BY <3>1, <1>6, <1>7 DEF Elements
    <3>2. CASE i \in DOMAIN files
      <4>1. PICK n \in DOMAIN groups : i \in groups[n]
        BY <3>2, <2>1 DEF Elements
      <4>. QED  BY <4>1, <1>7 DEF Elements
    <3>. QED  BY <3>1, <3>2, <1>3
  <2>. QED  BY <2>2, <2>3, <2>4, <2>5 DEF allReferenced
<1>16. IndexOK'
  BY <1>3, <1>8, <1>13, <1>14, <1>15 DEF IndexOK, decodes
<1>17. Faithful'
  <2>1. SUFFICES ASSUME NEW o \in DOMAIN ref'  PROVE expanded(o)' = broughtBy(o) /\ acceptable(o)
    BY DEF Faithful, acceptable, broughtBy, canonical
  <2>2. CASE o = owner
    BY <2>2, <1>1, <1>10 DEF broughtBy, acceptable, list
  <2>3. CASE o # owner
    BY <2>1, <2>3, <1>6, <1>9 DEF IInv, Faithful
  <2>. QED  BY <2>2, <2>3
<1>18. PublishedComplete'
  BY <1>1 DEF PublishedComplete
<1>. QED  BY <1>10, <1>12, <1>16, <1>17, <1>18 DEF IInv, list

\* An owner without inputs gets no group, nobody else loses one.
LEMMA InternNothingStep ==
  ASSUME IInv, NEW owner \in Owners, InternNothing(owner, List(owner))
  PROVE  IInv' /\ expanded(owner)' = {} /\ Elements(List(owner)) = {}
<1>1. /\ phase' = phase /\ files' = files /\ groups' = groups /\ List(owner) = <<>>
      /\ ref' = [o \in DOMAIN ref \cup {owner} |-> IF o = owner THEN 0 ELSE ref[o]]
  BY DEF InternNothing, referTo
<1>2. Elements(List(owner)) = {}
  BY <1>1 DEF Elements
<1>3. owner \in DOMAIN ref => ref[owner] = 0
  <2>1. SUFFICES ASSUME owner \in DOMAIN ref, ref[owner] # 0  PROVE FALSE
    OBVIOUS
  <2>2. ref[owner] \in DOMAIN groups
    BY <2>1 DEF IInv, TypeOK, IndexOK
  <2>3. PICK i \in groups[ref[owner]] : TRUE
    BY <2>2 DEF IInv, IndexOK, decodes
  <2>4. files[i] \in expanded(owner)
    BY <2>1 DEF expanded
  <2>. QED  BY <2>1, <2>4, <1>2 DEF IInv, Faithful, broughtBy
<1>4. DOMAIN ref' = DOMAIN ref \cup {owner} /\ ref'[owner] = 0
      /\ \A o \in DOMAIN ref : ref'[o] = ref[o]
  BY <1>1, <1>3
<1>5. TypeOK'
  BY <1>1 DEF TypeOK, IInv
<1>6. {ref[o] : o \in DOMAIN ref} \ {0} = {ref'[o] : o \in DOMAIN ref'} \ {0}
  BY <1>4
<1>7. IndexOK'
  <2>1. \A o \in DOMAIN ref' : ref'[o] \in 0 .. Len(groups)
    BY <1>4 DEF IInv, IndexOK, TypeOK
  <2>2. allReferenced'
    BY <1>1, <1>6 DEF IInv, IndexOK, allReferenced
  <2>. QED  BY <1>1, <2>1, <2>2 DEF IInv, IndexOK, decodes
<1>8. \A o \in DOMAIN ref : expanded(o)' = expanded(o)
  BY <1>1, <1>4 DEF expanded
<1>9. expanded(owner)' = {}
  BY <1>4 DEF expanded
<1>10. Faithful'
  <2>1. SUFFICES ASSUME NEW o \in DOMAIN ref'  PROVE expanded(o)' = broughtBy(o) /\ acceptable(o)
    BY DEF Faithful, acceptable, broughtBy, canonical
  <2>2. CASE o = owner
    BY <2>2, <1>1, <1>2, <1>9 DEF broughtBy, acceptable, canonical, Elements
  <2>3. CASE o # owner
    BY <2>1, <2>3, <1>4, <1>8 DEF IInv, Faithful
  <2>. QED  BY <2>2, <2>3
<1>11. PublishedComplete'
  BY <1>1 DEF PublishedComplete, InternNothing
<1>. QED  BY <1>2, <1>5, <1>7, <1>9, <1>10, <1>11 DEF IInv

\* Sorting and renumbering change no owner's inputs, and the result is published
\* exactly when every owner has what it needs.
LEMMA CanonicalizeStep ==
  ASSUME IInv, canonicalizeSourceInputIndex
  PROVE  /\ IInv'
         /\ DOMAIN ref' = DOMAIN ref /\ \A o \in DOMAIN ref : expanded(o)' = expanded(o)
         /\ phase' = IF \A o \in DOMAIN ref : complete(o) THEN "published" ELSE "refused"
<1>1. PICK sorted \in Listings(Elements(files), byPath) :
        \E new \in Listings({renumbered(g, sorted) : g \in Elements(groups)}, Before) :
          files' = sorted /\ groups' = new /\ ref' = remapGroup(sorted, new)
  BY DEF canonicalizeSourceInputIndex
<1>2. PICK new \in Listings({renumbered(g, sorted) : g \in Elements(groups)}, Before) :
          files' = sorted /\ groups' = new /\ ref' = remapGroup(sorted, new)
  BY <1>1
<1>. DEFINE F == Elements(files)
            G == {renumbered(g, sorted) : g \in Elements(groups)}
<1>3. /\ sorted \in Seq(F) /\ DOMAIN sorted = 1 .. Len(sorted)
      /\ \A x \in F : numberOf(x, sorted) \in DOMAIN sorted /\ sorted[numberOf(x, sorted)] = x
      /\ \A i, j \in DOMAIN sorted : i # j => sorted[i] # sorted[j]
      /\ \A i \in DOMAIN sorted : numberOf(sorted[i], sorted) = i
  <2>1. IsFiniteSet(F)
    BY ElementsFinite DEF IInv, TypeOK
  <2>2. sorted \in [1 .. Cardinality(F) -> F] /\ Elements(sorted) = F
        /\ \A i, j \in DOMAIN sorted : i < j => sorted[i] # sorted[j]
    BY DEF Listings
  <2>. HIDE DEF F
  <2>. QED  BY <2>1, <2>2, ListingFacts
<1>4. /\ files \in Seq(Inputs) /\ DOMAIN files = 1 .. Len(files)
      /\ groups \in Seq(SUBSET Nat) /\ DOMAIN groups = 1 .. Len(groups)
      /\ \A i \in DOMAIN groups : groups[i] # {} /\ groups[i] \subseteq DOMAIN files
      /\ ref \in [DOMAIN ref -> Nat] /\ \A o \in DOMAIN ref : ref[o] # 0 => ref[o] \in DOMAIN groups
      /\ \A i, j \in DOMAIN files : i # j => files[i][1] # files[j][1]
  BY DEF IInv, TypeOK, IndexOK, decodes
<1>5. /\ new \in Seq(G) /\ DOMAIN new = 1 .. Len(new) /\ Elements(new) = G
      /\ \A x \in G : numberOf(x, new) \in DOMAIN new /\ new[numberOf(x, new)] = x
      /\ \A i, j \in DOMAIN new : i # j => new[i] # new[j]
  <2>1. IsFiniteSet(Elements(groups))
    BY <1>4, ElementsFinite
  <2>2. IsFiniteSet(G)
    <3>. DEFINE S == Elements(groups)
                f == [g \in S |-> renumbered(g, sorted)]
    <3>1. f \in Surjection(S, G)
      BY DEF Surjection
    <3>. QED  BY <2>1, <3>1, FS_Surjection
  <2>3. new \in [1 .. Cardinality(G) -> G] /\ Elements(new) = G
        /\ \A i, j \in DOMAIN new : i < j => new[i] # new[j]
    BY DEF Listings
  <2>. HIDE DEF G
  <2>. QED  BY <2>2, <2>3, ListingFacts
<1>6. \A i \in DOMAIN files : /\ numberOf(files[i], sorted) \in DOMAIN sorted
                              /\ sorted[numberOf(files[i], sorted)] = files[i]
  BY <1>3 DEF Elements
\* A renumbered group is a group of the same files.
<1>7. \A n \in DOMAIN groups :
        /\ renumbered(groups[n], sorted) # {}
        /\ renumbered(groups[n], sorted) \subseteq DOMAIN sorted
        /\ renumbered(groups[n], sorted) \in G
        /\ {sorted[j] : j \in renumbered(groups[n], sorted)} = {files[i] : i \in groups[n]}
  <2>1. TAKE n \in DOMAIN groups
  <2>2. groups[n] # {} /\ groups[n] \subseteq DOMAIN files /\ groups[n] \in Elements(groups)
    BY <2>1, <1>4 DEF Elements
  <2>3. renumbered(groups[n], sorted) # {} /\ renumbered(groups[n], sorted) \subseteq DOMAIN sorted
    BY <2>2, <1>6 DEF renumbered
  <2>4. renumbered(groups[n], sorted) \in G
    BY <2>2
  <2>5. {sorted[j] : j \in renumbered(groups[n], sorted)} = {files[i] : i \in groups[n]}
    BY <2>2, <1>6 DEF renumbered
  <2>. QED  BY <2>3, <2>4, <2>5
<1>8. DOMAIN ref' = DOMAIN ref
      /\ \A o \in DOMAIN ref :
           /\ ref[o] = 0 => ref'[o] = 0
           /\ ref[o] # 0 => /\ ref'[o] \in DOMAIN new
                            /\ new[ref'[o]] = renumbered(groups[ref[o]], sorted)
  BY <1>2, <1>4, <1>5, <1>7 DEF remapGroup
<1>9. 0 \notin DOMAIN new /\ DOMAIN new \subseteq Nat /\ DOMAIN new = 1 .. Len(new)
  BY <1>5
<1>. HIDE DEF F, G
<1>10. \A o \in DOMAIN ref : expanded(o)' = expanded(o)
  <2>1. TAKE o \in DOMAIN ref
  <2>2. CASE ref[o] = 0
    BY <2>2, <1>8 DEF expanded
  <2>3. CASE ref[o] # 0
    <3>1. expanded(o) = {files[i] : i \in groups[ref[o]]}
      BY <2>3 DEF expanded
    <3>2. ref'[o] # 0
      BY <2>3, <1>8, <1>9
    <3>3. expanded(o)' = {sorted[j] : j \in new[ref'[o]]}
      BY <3>2, <1>2 DEF expanded
    <3>4. ref[o] \in DOMAIN groups /\ new[ref'[o]] = renumbered(groups[ref[o]], sorted)
      BY <2>3, <1>4, <1>8
    <3>. QED  BY <3>1, <3>3, <3>4, <1>7
  <2>. QED  BY <2>2, <2>3
<1>11. \A n \in DOMAIN new : \E k \in DOMAIN groups : new[n] = renumbered(groups[k], sorted)
  BY <1>5 DEF G, Elements
<1>12. IndexOK'
  <2>1. \A i, j \in DOMAIN sorted : i # j => sorted[i][1] # sorted[j][1]
    <3>1. \A i \in DOMAIN sorted : \E k \in DOMAIN files : sorted[i] = files[k]
      BY <1>3 DEF F, Elements
    <3>. QED  BY <3>1, <1>3, <1>4
  <2>2. \A n \in DOMAIN new : new[n] # {} /\ new[n] \subseteq DOMAIN sorted
    BY <1>7, <1>11
  <2>3. \A o \in DOMAIN ref' : ref'[o] \in 0 .. Len(new)
    <3>1. \A o \in DOMAIN ref : ref'[o] = 0 \/ ref'[o] \in DOMAIN new
      BY <1>8
    <3>. QED  BY <3>1, <1>5, <1>8
  <2>4. {ref'[o] : o \in DOMAIN ref'} \ {0} = DOMAIN new
    <3>1. ASSUME NEW n \in DOMAIN new  PROVE \E o \in DOMAIN ref' : ref'[o] = n /\ n # 0
      <4>1. PICK k \in DOMAIN groups : new[n] = renumbered(groups[k], sorted)
        BY <3>1, <1>11
      <4>2. PICK o \in DOMAIN ref : ref[o] = k /\ k # 0
        BY <4>1 DEF IInv, IndexOK, allReferenced
      <4>3. new[ref'[o]] = new[n] /\ ref'[o] \in DOMAIN new
        BY <4>1, <4>2, <1>8
      <4>. QED  BY <3>1, <4>2, <4>3, <1>5, <1>8, <1>9
    <3>2. \A o \in DOMAIN ref' : ref'[o] # 0 => ref'[o] \in DOMAIN new
      BY <1>8
    <3>. QED  BY <3>1, <3>2
  <2>5. UNION Elements(new) = DOMAIN sorted
    <3>1. UNION Elements(new) \subseteq DOMAIN sorted
      BY <2>2 DEF Elements
    <3>2. ASSUME NEW j \in DOMAIN sorted  PROVE j \in UNION Elements(new)
      <4>1. PICK i \in DOMAIN files : sorted[j] = files[i]
        BY <3>2, <1>3 DEF F, Elements
      <4>2. PICK n \in DOMAIN groups : i \in groups[n]
        <5>1. i \in UNION Elements(groups)
          BY <4>1 DEF IInv, IndexOK, allReferenced
        <5>. QED  BY <5>1 DEF Elements
      <4>3. j = numberOf(files[i], sorted)
        BY <3>2, <4>1, <1>3
      <4>4. j \in renumbered(groups[n], sorted)
        BY <4>2, <4>3 DEF renumbered
      <4>5. renumbered(groups[n], sorted) \in Elements(new)
        BY <4>2, <1>5, <1>7
      <4>. QED  BY <4>4, <4>5
    <3>. QED  BY <3>1, <3>2
  <2>. QED  BY <2>1, <2>2, <2>3, <2>4, <2>5, <1>2, <1>5 DEF IndexOK, decodes, allReferenced
<1>13. TypeOK' /\ Elements(files') \subseteq Inputs
  <2>1. F \subseteq Inputs
    BY <1>4 DEF F, Elements
  <2>2. sorted \in Seq(Inputs) /\ Elements(sorted) \subseteq Inputs
    BY <2>1, <1>3 DEF Elements
  <2>3. G \subseteq SUBSET Nat
    <3>1. DOMAIN sorted \subseteq Nat
      BY <1>3
    <3>2. \A S \in Elements(groups) : \E n \in DOMAIN groups : S = groups[n]
      BY DEF Elements
    <3>. QED  BY <3>1, <3>2, <1>7 DEF G
  <2>4. new \in Seq(SUBSET Nat)
    <3>. DEFINE T == SUBSET Nat
    <3>1. G \subseteq T
      BY <2>3
    <3>. HIDE DEF T
    <3>2. new \in Seq(T)
      BY <3>1, <1>5
    <3>. QED  BY <3>2 DEF T
  <2>5. ref' \in [DOMAIN ref' -> Nat]
    <3>1. ref' = [o \in DOMAIN ref' |-> ref'[o]]
      BY <1>2 DEF remapGroup
    <3>2. \A o \in DOMAIN ref' : ref'[o] \in Nat
      BY <1>8, <1>9
    <3>. QED  BY <3>1, <3>2
  <2>6. phase' \in {"collecting", "published", "refused"}
    BY DEF canonicalizeSourceInputIndex
  <2>7. DOMAIN ref' \subseteq Owners
    BY <1>8 DEF IInv, TypeOK
  <2>. QED  BY <2>2, <2>4, <2>5, <2>6, <2>7, <1>2 DEF TypeOK
<1>14. Faithful'
  BY <1>8, <1>10 DEF IInv, Faithful, broughtBy, acceptable, canonical
<1>15. strictlyOrdered'
  <2>1. \A i, j \in DOMAIN sorted : i < j => sorted[i][1] < sorted[j][1]
    BY DEF Listings, byPath
  <2>2. \A i, j \in DOMAIN new : i < j => Before(new[i], new[j])
    BY DEF Listings
  <2>. QED  BY <2>1, <2>2, <1>2 DEF strictlyOrdered
<1>16. \A o \in DOMAIN ref : validOwner(o)' <=> complete(o)
  <2>1. TAKE o \in DOMAIN ref
  <2>2. expanded(o)' = broughtBy(o)
    BY <1>10 DEF IInv, Faithful
  <2>3. CASE ref'[o] = 0
    <3>1. broughtBy(o) = {} /\ ref'[o] \notin DOMAIN new
      BY <2>2, <2>3, <1>9 DEF expanded
    <3>. QED  BY <2>3, <3>1, <1>2 DEF validOwner, complete, validateReference
  <2>4. CASE ref'[o] # 0
    <3>1. ref'[o] \in DOMAIN new
      BY <2>4, <1>8
    <3>2. broughtBy(o) = {sorted[i] : i \in new[ref'[o]]}
      BY <2>2, <2>4, <1>2 DEF expanded
    <3>3. new[ref'[o]] # {}
      BY <3>1, <1>7, <1>11
    <3>4. broughtBy(o) # {}
      BY <3>2, <3>3
    <3>5. {f[1] : f \in broughtBy(o)} = {sorted[i][1] : i \in new[ref'[o]]}
      BY <3>2
    <3>. QED  BY <2>4, <3>1, <3>4, <3>5, <1>2 DEF validOwner, complete, validateReference
  <2>. QED  BY <2>3, <2>4
<1>17. validateSourceInputIndex' <=> \A o \in DOMAIN ref : complete(o)
  <2>1. (\A i \in DOMAIN groups : decodes(groups[i]))' /\ allReferenced'
    BY <1>12 DEF IndexOK
  <2>. QED  BY <2>1, <1>8, <1>13, <1>15, <1>16 DEF validateSourceInputIndex
<1>18. phase' = IF \A o \in DOMAIN ref : complete(o) THEN "published" ELSE "refused"
  BY <1>17 DEF canonicalizeSourceInputIndex
<1>19. PublishedComplete'
  BY <1>8, <1>18 DEF PublishedComplete, complete, broughtBy
<1>. QED  BY <1>8, <1>10, <1>12, <1>13, <1>14, <1>18, <1>19 DEF IInv

-----------------------------------------------------------------------------
\* The invariant holds when the interner is empty.
LEMMA InitIInv == Init => IInv
<1>1. SUFFICES ASSUME Init  PROVE IInv
  OBVIOUS
<1>2. files = <<>> /\ groups = <<>> /\ phase = "collecting" /\ ref = [o \in {} |-> 0]
  BY <1>1 DEF Init
<1>3. DOMAIN ref = {} /\ ref \in [DOMAIN ref -> Nat]
  BY <1>2
<1>4. TypeOK
  BY <1>2, <1>3 DEF TypeOK
<1>5. DOMAIN files = {} /\ DOMAIN groups = {}
  BY <1>2
<1>6. allReferenced
  BY <1>3, <1>5 DEF allReferenced, Elements
<1>7. IndexOK
  BY <1>3, <1>5, <1>6 DEF IndexOK
<1>8. Faithful /\ PublishedComplete
  BY <1>2, <1>3 DEF Faithful, PublishedComplete
<1>. QED  BY <1>4, <1>7, <1>8 DEF IInv

\* A refused list changes nothing but the phase.
LEMMA InternFailsStep ==
  ASSUME IInv, NEW owner \in Owners, InternFails(List(owner))
  PROVE  IInv' /\ [o \in DOMAIN ref |-> expanded(o)]' = [o \in DOMAIN ref |-> expanded(o)]
<1>1. UNCHANGED <<files, groups, ref>> /\ phase' = "refused"
  BY DEF InternFails
<1>2. TypeOK' /\ IndexOK' /\ Faithful' /\ PublishedComplete'
  BY <1>1 DEF IInv, TypeOK, IndexOK, Faithful, PublishedComplete, decodes, allReferenced,
              expanded, broughtBy, acceptable, canonical
<1>3. [o \in DOMAIN ref |-> expanded(o)]' = [o \in DOMAIN ref |-> expanded(o)]
  BY <1>1 DEF expanded
<1>. QED  BY <1>2, <1>3 DEF IInv

\* Every step preserves the invariant.
LEMMA NextIInv == IInv /\ [Next]_vars => IInv'
<1>. SUFFICES ASSUME IInv, [Next]_vars  PROVE IInv'
  OBVIOUS
<1>1. CASE UNCHANGED vars
  BY <1>1 DEF vars, IInv, TypeOK, IndexOK, Faithful, PublishedComplete, decodes, allReferenced,
              expanded, broughtBy, acceptable, canonical, complete
<1>2. ASSUME NEW owner \in Owners, Intern(owner, List(owner))  PROVE IInv'
  BY <1>2, InternStep
<1>3. ASSUME NEW owner \in Owners, InternNothing(owner, List(owner))  PROVE IInv'
  BY <1>3, InternNothingStep
<1>4. ASSUME NEW owner \in Owners, InternFails(List(owner))  PROVE IInv'
  BY <1>4, InternFailsStep
<1>5. CASE CompactMetadataBatch
  BY <1>5, CanonicalizeStep DEF CompactMetadataBatch
<1>6. CASE JSON
  BY <1>6, CanonicalizeStep DEF JSON
<1>. QED  BY <1>1, <1>2, <1>3, <1>4, <1>5, <1>6 DEF Next

\* The index is consistent in every reachable state: distinct paths, distinct
\* groups of existing files, nothing unreferenced (compact_content.go intern,
\* canonicalizeSourceInputIndex).
THEOREM IndexOKAlways == Spec => []IndexOK
<1>1. IInv => IndexOK
  BY DEF IInv
<1>. QED  BY <1>1, InitIInv, NextIInv, PTL DEF Spec

-----------------------------------------------------------------------------
\* All inputs of all owners are the files of the index.
LEMMA AllInputs ==
  ASSUME IInv
  PROVE  Store!allInputs = Elements(files)
<1>1. \A i \in DOMAIN files : \E o \in DOMAIN ref : ref[o] # 0 /\ i \in groups[ref[o]]
  <2>1. TAKE i \in DOMAIN files
  <2>2. PICK n \in DOMAIN groups : i \in groups[n]
    BY <2>1 DEF IInv, IndexOK, allReferenced, Elements
  <2>3. PICK o \in DOMAIN ref : ref[o] = n /\ n # 0
    BY <2>2 DEF IInv, IndexOK, allReferenced
  <2>. QED  BY <2>2, <2>3
<1>2. \A o \in DOMAIN ref : expanded(o) \subseteq Elements(files)
  <2>1. TAKE o \in DOMAIN ref
  <2>2. ref[o] # 0 => groups[ref[o]] \subseteq DOMAIN files
    BY <2>1 DEF IInv, TypeOK, IndexOK, decodes
  <2>. QED  BY <2>2 DEF expanded, Elements
<1>3. UNION {expanded(o) : o \in DOMAIN ref} = Elements(files)
  <2>1. \A f \in Elements(files) : \E o \in DOMAIN ref : f \in expanded(o)
    BY <1>1 DEF Elements, expanded
  <2>. QED  BY <2>1, <1>2
<1>. QED  BY <1>3 DEF Store!allInputs

\* An owner's inputs conflict with the index exactly when the store would know
\* two digests of one path.
LEMMA ConflictIsTwoDigests ==
  ASSUME IInv, NEW owner \in Owners, acceptable(owner)
  PROVE  conflicts(List(owner)) <=> ~ Store!OneDigest(Store!allInputs \cup broughtBy(owner))
<1>. DEFINE list == List(owner)
            B == Elements(list)
<1>1. Store!allInputs = Elements(files) /\ broughtBy(owner) = B
  BY AllInputs DEF broughtBy
<1>2. \A a, b \in Elements(files) : a[1] = b[1] => a = b
  BY DEF IInv, IndexOK, Elements
<1>3. \A a, b \in B : a[1] = b[1] => a = b
  BY DEF acceptable, canonical, Elements
<1>4. conflicts(list) <=> \E b \in B, f \in Elements(files) : b[1] = f[1] /\ b[2] # f[2]
  BY DEF conflicts, Elements
<1>. HIDE DEF B
<1>5. ASSUME NEW b \in B, NEW f \in Elements(files), b[1] = f[1], b[2] # f[2]
      PROVE  ~ Store!OneDigest(Elements(files) \cup B)
  BY <1>5 DEF Store!OneDigest
<1>6. ASSUME \A b \in B, f \in Elements(files) : b[1] = f[1] => b[2] = f[2]
      PROVE  Store!OneDigest(Elements(files) \cup B)
  BY <1>2, <1>3, <1>6 DEF Store!OneDigest
<1>. QED  BY <1>1, <1>4, <1>5, <1>6

\* Interning an owner records what it brought, or changes nothing when it is
\* known already.
LEMMA RecordStep ==
  ASSUME IInv, IInv', NEW owner \in Owners, phase = "collecting", phase' = phase,
         acceptable(owner), ~ conflicts(List(owner)),
         DOMAIN ref' = DOMAIN ref \cup {owner}
  PROVE  Store!Record(owner) \/ UNCHANGED Store!storeVars
<1>. DEFINE before == [o \in DOMAIN ref |-> expanded(o)]
            after == [o \in DOMAIN ref |-> expanded(o)]'
<1>1. before = [o \in DOMAIN ref |-> broughtBy(o)]
  BY DEF IInv, Faithful
<1>2. after = [o \in DOMAIN ref' |-> broughtBy(o)]
  BY DEF IInv, Faithful, broughtBy
<1>3. CASE owner \in DOMAIN ref
  <2>1. DOMAIN ref' = DOMAIN ref
    BY <1>3
  <2>2. after = before
    BY <2>1, <1>1, <1>2
  <2>. QED  BY <2>2 DEF Store!storeVars
<1>4. CASE owner \notin DOMAIN ref
  <2>1. Store!OneDigest(Store!allInputs \cup broughtBy(owner))
    BY ConflictIsTwoDigests
  <2>2. DOMAIN before = DOMAIN ref
    OBVIOUS
  <2>3. after = [o \in DOMAIN before \cup {owner} |->
                   IF o = owner THEN broughtBy(owner) ELSE before[o]]
    BY <1>1, <1>2, <2>2
  <2>. QED  BY <2>1, <2>2, <2>3, <1>4 DEF Store!Record
<1>. QED  BY <1>3, <1>4

\* The index implements the store of inputs: it keeps for every owner what the
\* owner brought, whatever was numbered, sorted, renumbered and written in
\* between, and publishes exactly complete metadata without a path of two digests
\* (compact_content.go intern, canonicalizeSourceInputIndex,
\* validateSourceInputIndex).
THEOREM IndexImplementsStore == Spec => StoreRefined
<1>1. Init => Store!StoreInit
  BY DEF Init, Store!StoreInit
<1>2. IInv /\ IInv' /\ [Next]_vars => [Store!StoreNext]_(Store!storeVars)
  <2>. SUFFICES ASSUME IInv, IInv', [Next]_vars
                PROVE  Store!StoreNext \/ UNCHANGED Store!storeVars
    OBVIOUS
  <2>1. CASE UNCHANGED vars
    BY <2>1 DEF vars, Store!storeVars, expanded
  <2>2. ASSUME NEW owner \in Owners, Intern(owner, List(owner))
        PROVE  Store!Record(owner) \/ UNCHANGED Store!storeVars
    <3>1. DOMAIN ref' = DOMAIN ref \cup {owner}
      BY <2>2 DEF Intern, internGroup, referTo
    <3>. QED  BY <2>2, <3>1, RecordStep DEF Intern, acceptable
  <2>3. ASSUME NEW owner \in Owners, InternNothing(owner, List(owner))
        PROVE  Store!Record(owner) \/ UNCHANGED Store!storeVars
    <3>1. DOMAIN ref' = DOMAIN ref \cup {owner} /\ phase' = phase /\ List(owner) = <<>>
      BY <2>3 DEF InternNothing, referTo
    <3>2. acceptable(owner) /\ ~ conflicts(List(owner))
      BY <3>1 DEF acceptable, canonical, conflicts, Elements
    <3>. QED  BY <2>3, <3>1, <3>2, RecordStep DEF InternNothing
  <2>4. ASSUME NEW owner \in Owners, InternFails(List(owner))
        PROVE  Store!Refuse(owner)
    <3>1. ~ (acceptable(owner) /\ Store!OneDigest(Store!allInputs \cup broughtBy(owner)))
      BY <2>4, ConflictIsTwoDigests DEF InternFails, acceptable
    <3>. QED  BY <2>4, <3>1, InternFailsStep DEF InternFails, Store!Refuse
  <2>5. ASSUME canonicalizeSourceInputIndex
        PROVE  /\ [o \in DOMAIN ref |-> expanded(o)]' = [o \in DOMAIN ref |-> expanded(o)]
               /\ phase' = IF \A o \in DOMAIN ref : complete(o) THEN "published" ELSE "refused"
    BY <2>5, CanonicalizeStep
  <2>6. CASE CompactMetadataBatch
    BY <2>5, <2>6 DEF CompactMetadataBatch, Store!Publish, Store!StoreNext
  <2>7. CASE JSON
    BY <2>5, <2>7 DEF JSON, Store!storeVars, IInv, PublishedComplete
  <2>. QED  BY <2>1, <2>2, <2>3, <2>4, <2>6, <2>7 DEF Next, Store!StoreNext
<1>. QED  BY <1>1, <1>2, InitIInv, NextIInv, PTL DEF Spec, StoreRefined, Store!StoreSpec

-----------------------------------------------------------------------------
\* A sequence that repeats nothing lists its elements.
LEMMA ListsItsElements ==
  ASSUME NEW T, NEW s \in Seq(T), \A i, j \in DOMAIN s : i < j => s[i] # s[j]
  PROVE  s \in [1 .. Cardinality(Elements(s)) -> Elements(s)]
<1>. DEFINE E == Elements(s)
            n == Len(s)
<1>1. n \in Nat /\ DOMAIN s = 1 .. n /\ s \in [1 .. n -> E]
  BY DEF Elements
<1>2. \A i, j \in 1 .. n : s[i] = s[j] => i = j
  <2>1. \A i, j \in 1 .. n : i # j => i < j \/ j < i
    BY <1>1
  <2>. QED  BY <1>1, <2>1
<1>3. \A x \in E : \E i \in 1 .. n : s[i] = x
  BY <1>1 DEF Elements
<1>. HIDE DEF E, n
<1>4. s \in Bijection(1 .. n, E)
  BY <1>1, <1>2, <1>3 DEF Bijection, Injection, Surjection, IsInjective
<1>5. Cardinality(E) = n
  BY <1>1, <1>4, FS_CountingElements DEF ExistsBijection
<1>. QED  BY <1>1, <1>5 DEF E

\* What validation demands of files, groups and references
Validated(fs, gs, rf) ==
  /\ fs \in Seq(Inputs) /\ gs \in Seq(SUBSET Nat)
  /\ \A i, j \in DOMAIN fs : i < j => fs[i][1] < fs[j][1]
  /\ \A i, j \in DOMAIN gs : i < j => Before(gs[i], gs[j])
  /\ \A n \in DOMAIN gs : gs[n] # {} /\ gs[n] \subseteq DOMAIN fs
  /\ {rf[o] : o \in DOMAIN rf} \ {0} = DOMAIN gs
  /\ UNION Elements(gs) = DOMAIN fs

\* The input sets of the owners
InputSets(fs, gs, rf) == {IF rf[o] = 0 THEN {} ELSE {fs[i] : i \in gs[rf[o]]} : o \in DOMAIN rf}

\* The groups those sets stand for
GroupsOf(owned, fs) == {{numberOf(f, fs) : f \in S} : S \in owned \ {{}}}

\* A sequence lists a set in the order of paths, or of groups.
ListsByPath(s, S) ==
  /\ s \in [1 .. Cardinality(S) -> S] /\ Elements(s) = S
  /\ \A i, j \in DOMAIN s : i < j => byPath(s[i], s[j]) /\ s[i] # s[j]

ListsBefore(s, S) ==
  /\ s \in [1 .. Cardinality(S) -> S] /\ Elements(s) = S
  /\ \A i, j \in DOMAIN s : i < j => Before(s[i], s[j]) /\ s[i] # s[j]

\* Validated files and groups are the only ones that say what they say: they list
\* the inputs in use, and the groups in use, in order.
LEMMA ValidIsCanonical ==
  ASSUME NEW fs, NEW gs, NEW rf, Validated(fs, gs, rf)
  PROVE  /\ ListsByPath(fs, UNION InputSets(fs, gs, rf))
         /\ ListsBefore(gs, GroupsOf(InputSets(fs, gs, rf), fs))
<1>. USE DEF Validated
<1>. DEFINE input(o) == IF rf[o] = 0 THEN {} ELSE {fs[i] : i \in gs[rf[o]]}
            used == UNION {input(o) : o \in DOMAIN rf}
            sets == {input(o) : o \in DOMAIN rf} \ {{}}
            numbers(S) == {numberOf(f, fs) : f \in S}
<1>1. Len(fs) \in Nat /\ DOMAIN fs = 1 .. Len(fs) /\ \A i \in 1 .. Len(fs) : fs[i][1] \in Paths
  BY DEF Inputs
<1>2. \A i, j \in DOMAIN fs : i < j => byPath(fs[i], fs[j]) /\ fs[i] # fs[j]
  <2>1. \A i \in DOMAIN fs : fs[i][1] \in Nat
    BY <1>1, PathsAssumption
  <2>2. \A i, j \in DOMAIN fs : i < j => fs[i][1] # fs[j][1]
    BY <2>1
  <2>. QED  BY <2>2 DEF byPath
<1>3. \A i, j \in DOMAIN fs : i # j => fs[i] # fs[j]
  <2>1. \A i, j \in DOMAIN fs : i # j => i < j \/ j < i
    BY <1>1
  <2>. QED  BY <1>2, <2>1
<1>4. DOMAIN fs \subseteq 1 .. Cardinality(Paths)
  <2>. DEFINE path == [i \in 1 .. Len(fs) |-> fs[i][1]]
  <2>1. path \in Injection(1 .. Len(fs), Paths)
    <3>1. path \in [1 .. Len(fs) -> Paths]
      BY <1>1
    <3>2. \A i, j \in 1 .. Len(fs) : path[i] = path[j] => i = j
      <4>1. \A i \in 1 .. Len(fs) : fs[i][1] \in Nat
        BY <1>1, PathsAssumption
      <4>2. \A i, j \in 1 .. Len(fs) : i < j => fs[i][1] # fs[j][1]
        BY <1>1, <4>1
      <4>3. \A i, j \in 1 .. Len(fs) : i # j => i < j \/ j < i
        BY <1>1
      <4>. QED  BY <4>2, <4>3
    <3>. HIDE DEF path
    <3>. QED  BY <3>1, <3>2 DEF Injection, IsInjective
  <2>2. IsFiniteSet(Paths)
    BY OrderAssumption
  <2>3. IsFiniteSet(1 .. Len(fs)) /\ Cardinality(1 .. Len(fs)) = Len(fs)
    <3>. DEFINE n == Len(fs)
    <3>1. n \in Nat
      BY <1>1
    <3>. HIDE DEF n
    <3>2. IsFiniteSet(1 .. n) /\ Cardinality(1 .. n) = n
      BY <3>1, FS_Interval
    <3>. QED  BY <3>2 DEF n
  <2>4. Len(fs) <= Cardinality(Paths) /\ Cardinality(Paths) \in Nat
    <3>. HIDE DEF path
    <3>. QED  BY <2>1, <2>2, <2>3, FS_Injection, FS_CardinalityType DEF ExistsInjection
  <2>. QED  BY <1>1, <2>4
<1>5. \A i, j \in DOMAIN gs : i < j => Before(gs[i], gs[j]) /\ gs[i] # gs[j]
  <2>1. \A n \in DOMAIN gs : ~ Before(gs[n], gs[n])
    <3>1. \A n \in DOMAIN gs : gs[n] \in SUBSET (1 .. Cardinality(Paths))
      BY <1>4
    <3>. QED  BY <3>1, OrderAssumption
  <2>. QED  BY <2>1
<1>6. used = Elements(fs)
  <2>1. \A o \in DOMAIN rf : input(o) \subseteq Elements(fs)
    <3>1. TAKE o \in DOMAIN rf
    <3>2. CASE rf[o] = 0
      BY <3>2
    <3>3. CASE rf[o] # 0
      <4>1. rf[o] \in DOMAIN gs
        BY <3>1, <3>3
      <4>2. gs[rf[o]] \subseteq DOMAIN fs
        BY <4>1
      <4>. QED  BY <3>3, <4>2 DEF Elements
    <3>. QED  BY <3>2, <3>3
  <2>2. ASSUME NEW f \in Elements(fs)  PROVE f \in used
    <3>1. PICK i \in DOMAIN fs : f = fs[i]
      BY <2>2 DEF Elements
    <3>2. PICK n \in DOMAIN gs : i \in gs[n]
      BY <3>1 DEF Elements
    <3>3. PICK o \in DOMAIN rf : rf[o] = n /\ n # 0
      BY <3>2
    <3>4. f \in input(o)
      BY <3>1, <3>2, <3>3
    <3>. QED  BY <3>4
  <2>. QED  BY <2>1, <2>2
<1>7. \A n \in DOMAIN gs : numbers({fs[i] : i \in gs[n]}) = gs[n]
  <2>1. \A i \in DOMAIN fs : numberOf(fs[i], fs) = i
    BY <1>3 DEF numberOf
  <2>. QED  BY <2>1
<1>8. {numbers(S) : S \in sets} = Elements(gs)
  <2>1. ASSUME NEW S \in sets  PROVE numbers(S) \in Elements(gs)
    <3>1. PICK o \in DOMAIN rf : S = input(o) /\ S # {}
      BY <2>1
    <3>2. rf[o] # 0 /\ rf[o] \in DOMAIN gs /\ S = {fs[i] : i \in gs[rf[o]]}
      BY <3>1
    <3>3. numbers(S) = gs[rf[o]]
      BY <3>2, <1>7
    <3>. QED  BY <3>2, <3>3 DEF Elements
  <2>2. ASSUME NEW g \in Elements(gs)  PROVE \E S \in sets : g = numbers(S)
    <3>1. PICK n \in DOMAIN gs : g = gs[n]
      BY <2>2 DEF Elements
    <3>2. PICK o \in DOMAIN rf : rf[o] = n /\ n # 0
      BY <3>1
    <3>3. input(o) = {fs[i] : i \in gs[n]} /\ gs[n] # {}
      BY <3>1, <3>2
    <3>4. input(o) \in sets
      <4>1. \E i \in gs[n] : fs[i] \in input(o)
        BY <3>1, <3>3
      <4>. HIDE DEF input
      <4>. QED  BY <3>2, <4>1
    <3>. QED  BY <3>1, <3>3, <3>4, <1>7
  <2>3. \A T \in {numbers(S) : S \in sets} : T \in Elements(gs)
    BY <2>1
  <2>4. \A g \in Elements(gs) : g \in {numbers(S) : S \in sets}
    BY <2>2
  <2>. QED  BY <2>3, <2>4
<1>9. fs \in [1 .. Cardinality(Elements(fs)) -> Elements(fs)]
  BY <1>2, ListsItsElements
<1>10. gs \in [1 .. Cardinality(Elements(gs)) -> Elements(gs)]
  BY <1>5, ListsItsElements
<1>11. used = UNION InputSets(fs, gs, rf) /\ {numbers(S) : S \in sets} = GroupsOf(InputSets(fs, gs, rf), fs)
  BY DEF InputSets, GroupsOf
<1>12. ListsByPath(fs, Elements(fs))
  BY <1>2, <1>9 DEF ListsByPath
<1>13. ListsBefore(gs, Elements(gs))
  BY <1>5, <1>10 DEF ListsBefore
<1>. HIDE DEF used, sets, numbers
<1>. QED  BY <1>6, <1>8, <1>11, <1>12, <1>13

\* What a loaded index is: numbers of inputs, well formed or not.
LoadedTypeOK ==
  /\ loadedPhase \in {"absent", "loaded", "published", "refused"}
  /\ loadedPhase # "absent" =>
       /\ loadedIndex.files \in Seq(Paths \X (Digests \cup {"malformed"}))
       /\ loadedIndex.groups \in Seq(SUBSET Nat)

\* Published is what passed the validation, either way.
BothIInv ==
  /\ IInv
  /\ phase = "published" => validateSourceInputIndex
  /\ LoadedTypeOK
  /\ loadedPhase = "published" => Loaded!validateSourceInputIndex

\* Validated inputs are well formed.
LEMMA WellFormedSeq ==
  ASSUME NEW D, NEW fs \in Seq(D), Elements(fs) \subseteq Inputs
  PROVE  fs \in Seq(Inputs)
<1>1. fs \in [1 .. Len(fs) -> Inputs] /\ Len(fs) \in Nat
  BY DEF Elements
<1>. HIDE DEF Inputs
<1>. QED  BY <1>1, IsASeq

\* An index that is built here is published in canonical form.
LEMMA BuiltIsCanonical ==
  ASSUME IInv, phase = "published" => validateSourceInputIndex
  PROVE  CanonicalForm
<1>. DEFINE owned == InputSets(files, groups, ref)
<1>1. SUFFICES ASSUME phase = "published"
               PROVE  ListsByPath(files, UNION owned) /\ ListsBefore(groups, GroupsOf(owned, files))
  BY DEF CanonicalForm, Listings, ListsByPath, ListsBefore, InputSets, GroupsOf, expanded
<1>2. Validated(files, groups, ref)
  BY <1>1 DEF IInv, TypeOK, validateSourceInputIndex, decodes, strictlyOrdered, allReferenced, Validated
<1>. QED  BY <1>2, ValidIsCanonical

\* An index that is loaded is published in canonical form.
LEMMA LoadedIsCanonical ==
  ASSUME LoadedTypeOK, loadedPhase = "published" => Loaded!validateSourceInputIndex
  PROVE  Loaded!CanonicalForm
<1>. DEFINE fs == loadedIndex.files
            gs == loadedIndex.groups
            rf == loadedIndex.ref
            owned == InputSets(fs, gs, rf)
<1>1. ListsByPath(fs, UNION owned) /\ ListsBefore(gs, GroupsOf(owned, fs)) => Loaded!CanonicalForm
  <2>. DEFINE all == {Loaded!expanded(o) : o \in DOMAIN rf}
              sets == {{Loaded!numberOf(f, fs) : f \in S} : S \in all \ {{}}}
  <2>1. all = owned /\ sets = GroupsOf(owned, fs)
    BY DEF InputSets, GroupsOf, Loaded!expanded, Loaded!numberOf, numberOf
  <2>5. \A S : Loaded!Cardinality(S) = Cardinality(S)
    BY DEF Loaded!Cardinality, Cardinality
  <2>2. ListsByPath(fs, UNION all) => fs \in Loaded!Listings(UNION all, Loaded!byPath)
    <3>. HIDE DEF all, fs
    <3>. QED  BY <2>5 DEF ListsByPath, Loaded!Listings, Loaded!byPath, byPath, Loaded!Elements, Elements
  <2>3. ListsBefore(gs, sets) => gs \in Loaded!Listings(sets, Before)
    <3>. HIDE DEF sets, gs
    <3>. QED  BY <2>5 DEF ListsBefore, Loaded!Listings, Loaded!Elements, Elements
  <2>4. fs \in Loaded!Listings(UNION all, Loaded!byPath) /\ gs \in Loaded!Listings(sets, Before)
        => Loaded!CanonicalForm
    BY DEF Loaded!CanonicalForm
  <2>. QED  BY <2>1, <2>2, <2>3, <2>4
<1>. SUFFICES ASSUME loadedPhase = "published"
              PROVE  ListsByPath(fs, UNION owned) /\ ListsBefore(gs, GroupsOf(owned, fs))
  BY <1>1 DEF Loaded!CanonicalForm
<1>2. Loaded!validateSourceInputIndex /\ LoadedTypeOK
  OBVIOUS
<1>3. fs \in Seq(Inputs)
  <2>1. fs \in Seq(Paths \X (Digests \cup {"malformed"})) /\ Elements(fs) \subseteq Inputs
    BY <1>2 DEF LoadedTypeOK, Loaded!validateSourceInputIndex, Loaded!Elements, Elements,
                      Loaded!Inputs, Inputs
  <2>. QED  BY <2>1, WellFormedSeq
<1>4. Validated(fs, gs, rf)
  BY <1>2, <1>3 DEF LoadedTypeOK, Loaded!validateSourceInputIndex, Loaded!decodes,
     Loaded!strictlyOrdered, Loaded!allReferenced, Loaded!Elements, Elements, Validated
<1>. QED  BY <1>4, ValidIsCanonical

\* However an index comes about, what is published has the one canonical form of
\* what its owners use, so it tells nothing of the order of the configurations
\* or of who wrote it (compact_content.go validateSourceInputIndex,
\* canonicalizeSourceInputIndex).
THEOREM PublishedAlwaysCanonical == BothSpec => []PublishedIsCanonical
<1>1. BothInit => BothIInv
  <2>. SUFFICES ASSUME BothInit  PROVE BothIInv
    OBVIOUS
  <2>1. IInv /\ phase = "collecting"
    BY InitIInv DEF BothInit, Init
  <2>2. LoadedTypeOK /\ loadedPhase # "published"
    BY LoadedAssumption DEF BothInit, LoadedTypeOK
  <2>. QED  BY <2>1, <2>2 DEF BothIInv
<1>2. BothIInv /\ [BothNext]_allVars => BothIInv'
  <2>. SUFFICES ASSUME BothIInv, [BothNext]_allVars  PROVE BothIInv'
    OBVIOUS
  <2>1. UNCHANGED loadedVars => (LoadedTypeOK /\ (loadedPhase = "published" => Loaded!validateSourceInputIndex))'
    BY DEF BothIInv, loadedVars, LoadedTypeOK, Loaded!validateSourceInputIndex, Loaded!strictlyOrdered,
           Loaded!allReferenced, Loaded!decodes, Loaded!validOwner, Loaded!validateReference, Loaded!Elements
  <2>2. UNCHANGED vars => (IInv /\ (phase = "published" => validateSourceInputIndex))'
    <3>1. UNCHANGED vars => IInv'
      BY NextIInv DEF BothIInv
    <3>2. UNCHANGED vars => (phase = "published" => validateSourceInputIndex)'
      BY DEF BothIInv, vars, validateSourceInputIndex, strictlyOrdered, allReferenced, decodes, validOwner,
             validateReference
    <3>. QED  BY <3>1, <3>2
  <2>3. CASE UNCHANGED allVars
    BY <2>1, <2>2, <2>3 DEF allVars, BothIInv
  <2>4. CASE loadedPhase = "absent" /\ Next /\ UNCHANGED loadedVars
    <3>1. IInv'
      BY <2>4, NextIInv DEF BothIInv
    <3>2. (phase = "published" => validateSourceInputIndex)'
      <4>1. ASSUME NEW owner \in Owners, Intern(owner, List(owner)) \/ InternNothing(owner, List(owner))
                                           \/ InternFails(List(owner))
            PROVE  phase' # "published"
        BY <4>1 DEF Intern, InternNothing, InternFails
      <4>2. canonicalizeSourceInputIndex => (phase' = "published" => validateSourceInputIndex')
        BY DEF canonicalizeSourceInputIndex
      <4>. QED  BY <2>4, <4>1, <4>2 DEF Next, CompactMetadataBatch, JSON
    <3>. QED  BY <2>1, <2>4, <3>1, <3>2 DEF BothIInv
  <2>5. CASE UNCHANGED <<vars, loadedIndex>> /\ Loaded!validateContentIDs
    <3>1. loadedIndex' = loadedIndex /\ loadedPhase = "loaded" /\ loadedPhase' \in {"published", "refused"}
          /\ (loadedPhase' = "published" => Loaded!validateSourceInputIndex)
      BY <2>5 DEF Loaded!validateContentIDs
    <3>2. Loaded!validateSourceInputIndex => Loaded!validateSourceInputIndex'
      BY <3>1 DEF Loaded!validateSourceInputIndex, Loaded!strictlyOrdered,
           Loaded!allReferenced, Loaded!decodes, Loaded!validOwner, Loaded!validateReference, Loaded!Elements
    <3>3. LoadedTypeOK'
      BY <3>1 DEF BothIInv, LoadedTypeOK
    <3>. QED  BY <2>2, <2>5, <3>1, <3>2, <3>3 DEF BothIInv
  <2>. QED  BY <2>3, <2>4, <2>5 DEF BothNext
<1>3. BothIInv => PublishedIsCanonical
  BY BuiltIsCanonical, LoadedIsCanonical DEF BothIInv, PublishedIsCanonical
<1>. QED  BY <1>1, <1>2, <1>3, PTL DEF BothSpec
=============================================================================
