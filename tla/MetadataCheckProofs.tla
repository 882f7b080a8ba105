------------------------ MODULE MetadataCheckProofs ------------------------
(***************************************************************************)
(* The checker of compact metadata lets nothing pass that its IDs do not   *)
(* cover, whatever the generator wrote and whatever edits were made since. *)
(* An accepted document has IDs of what it says, as a written one has; so  *)
(* two documents that have an ID in common say the same under it, and, ID  *)
(* by ID, the same of all that is below.                                   *)
(***************************************************************************)
EXTENDS MetadataCheck, SequenceTheorems, TLAPS

\* Two relations that agree on a closed set reach the same from it.
LEMMA ReachedAgree ==
  ASSUME NEW E, NEW F, NEW from, NEW C, from \subseteq C,
         \A e \in E : e[1] \in C => e \in F /\ e[2] \in C,
         \A e \in F : e[1] \in C => e \in E /\ e[2] \in C
  PROVE  reached(E, from) = reached(F, from) /\ reached(E, from) \subseteq C
<1>1. ASSUME NEW A, NEW B, \A e \in A : e[1] \in C => e \in B /\ e[2] \in C,
             \A e \in B : e[1] \in C => e \in A /\ e[2] \in C
      PROVE  reached(A, from) \subseteq reached(B, from) /\ reached(A, from) \subseteq C
  <2>. DEFINE ends == {e[2] : e \in A}
              S == reached(B, from) \cap C \cap ends
  <2>1. \A e \in B : e[1] \in from \cup (reached(B, from)) => e[2] \in reached(B, from)
    BY DEF reached
  <2>2. \A e \in A : e[1] \in from \cup S => e[2] \in S
    <3>1. SUFFICES ASSUME NEW e \in A, e[1] \in from \cup S  PROVE e[2] \in S
      OBVIOUS
    <3>2. e[1] \in C
      BY <3>1
    <3>3. e \in B /\ e[2] \in C
      BY <3>1, <3>2, <1>1
    <3>4. e[2] \in reached(B, from)
      BY <3>1, <3>3, <2>1
    <3>. QED  BY <3>1, <3>3, <3>4
  <2>3. S \in SUBSET ends
    OBVIOUS
  <2>4. \A x \in reached(A, from) : x \in S
    <3>. HIDE DEF S
    <3>. QED  BY <2>2, <2>3 DEF reached
  <2>. QED  BY <2>4
<1>2. reached(E, from) \subseteq reached(F, from) /\ reached(E, from) \subseteq C
  BY <1>1
<1>3. reached(F, from) \subseteq reached(E, from)
  BY <1>1
<1>. QED  BY <1>2, <1>3

\* IDs and targets are those of the entries.
LEMMA Entries ==
  ASSUME NEW s
  PROVE  idsIn(s) = {x.id : x \in ToSet(s)}
BY DEF idsIn, project, ToSet

LEMMA TargetsOf ==
  ASSUME NEW d
  PROVE  targets(d) = {v.target : v \in ToSet(d.variants)}
BY DEF targets, project, ToSet

\* A target has a variant.
LEMMA VariantOfTarget ==
  ASSUME NEW d, NEW t \in targets(d)
  PROVE  variantOf(d, t) \in ToSet(d.variants) /\ variantOf(d, t).target = t
<1>1. \E i \in DOMAIN d.variants : d.variants[i].target = t
  BY DEF targets, project, ToSet
<1>. QED  BY <1>1 DEF variantOf, ToSet

\* Where IDs are distinct, an ID has one variant.
LEMMA VariantOfID ==
  ASSUME NEW d, distinct(project(d.variants, LAMBDA v : v.id)), NEW v \in ToSet(d.variants)
  PROVE  variantWith(d, v.id) = v
<1>1. \A x, y \in ToSet(d.variants) : x.id = y.id => x = y
  BY DEF distinct, project, ToSet
<1>. QED  BY <1>1 DEF variantWith

\* Dependencies and members of a variant in one
LEMMA DepsAndMembers ==
  ASSUME NEW v, isArray(v.deps), isArray(v.members)
  PROVE  ToSet(v.deps \o v.members) = ToSet(v.deps) \cup ToSet(v.members)
<1>. DEFINE D == ToSet(v.deps) \cup ToSet(v.members)
            a == v.deps
            b == v.members
<1>1. a \in Seq(D) /\ b \in Seq(D)
  BY DEF isArray
<1>2. /\ DOMAIN a = 1 .. Len(a) /\ DOMAIN b = 1 .. Len(b) /\ Len(a) \in Nat /\ Len(b) \in Nat
      /\ DOMAIN (a \o b) = 1 .. (Len(a) + Len(b))
      /\ \A i \in 1 .. (Len(a) + Len(b)) : (a \o b)[i] = IF i <= Len(a) THEN a[i] ELSE b[i - Len(a)]
  <2>. HIDE DEF a, b, D
  <2>. QED  BY <1>1, ConcatProperties, LenProperties
<1>. HIDE DEF a, b, D
<1>3. ASSUME NEW i \in DOMAIN (a \o b)  PROVE (a \o b)[i] \in ToSet(a) \cup ToSet(b)
  <2>1. CASE i <= Len(a)
    BY <2>1, <1>2, <1>3 DEF ToSet
  <2>2. CASE ~ (i <= Len(a))
    <3>1. i - Len(a) \in 1 .. Len(b) /\ (a \o b)[i] = b[i - Len(a)]
      BY <2>2, <1>2, <1>3
    <3>. QED  BY <3>1, <1>2 DEF ToSet
  <2>. QED  BY <2>1, <2>2
<1>4. ASSUME NEW i \in DOMAIN a  PROVE a[i] \in ToSet(a \o b)
  <2>1. i \in DOMAIN (a \o b) /\ (a \o b)[i] = a[i]
    BY <1>2, <1>4
  <2>. QED  BY <2>1 DEF ToSet
<1>5. ASSUME NEW i \in DOMAIN b  PROVE b[i] \in ToSet(a \o b)
  <2>1. Len(a) + i \in DOMAIN (a \o b) /\ (a \o b)[Len(a) + i] = b[i]
    <3>1. Len(a) + i \in 1 .. (Len(a) + Len(b)) /\ ~ (Len(a) + i <= Len(a)) /\ (Len(a) + i) - Len(a) = i
      BY <1>2, <1>5
    <3>. QED  BY <3>1, <1>2
  <2>. QED  BY <2>1 DEF ToSet
<1>6. ToSet(a \o b) = ToSet(a) \cup ToSet(b)
  BY <1>3, <1>4, <1>5 DEF ToSet
<1>. QED  BY <1>6 DEF a, b

-----------------------------------------------------------------------------
\* What the checker accepts could have been generated.
LEMMA AcceptedCouldBeGenerated ==
  ASSUME NEW d, accepts(d)
  PROVE  generated(d)
<1>1. validateJSONShape(d) /\ \A v \in ToSet(d.variants) : v.symversions = FALSE
  BY DEF accepts, decodeMetadata
<1>2. distinct(project(d.variants, LAMBDA v : v.target)) /\ distinct(project(d.variants, LAMBDA v : v.id))
  BY DEF accepts, validateMetadata, variantsNamed
<1>3. \A p \in ToSet(d.payloads) : p.id = payloadID(p)
  BY DEF accepts, validateMetadata, payloadsValid, ToSet
<1>4. \A f \in ToSet(d.families) :
        /\ f.id = familyID(d, f)
        /\ f.payload \in idsIn(d.payloads) /\ ToSet(f.deps) \subseteq idsIn(d.families)
  <2>1. \A i \in DOMAIN d.families : familyValid(d, d.families[i])
    BY DEF accepts, validateMetadata
  <2>. QED  BY <2>1 DEF familyValid, ToSet
<1>5. \A e \in ToSet(d.environments) :
        /\ e.id = environmentID(e)
        /\ e.payload \in idsIn(d.payloads) /\ ToSet(e.families) \subseteq idsIn(d.families)
  <2>1. \A i \in DOMAIN d.environments : environmentValid(d, d.environments[i])
    BY DEF accepts, validateMetadata
  <2>. QED  BY <2>1 DEF environmentValid, ToSet
<1>6. \A v \in ToSet(d.variants) :
        /\ ToSet(v.deps \o v.members) \subseteq targets(d)
        /\ v.id = expectedObjectID(d, v)
        /\ isExactAction(v) => v.environment \in idsIn(d.environments)
  <2>1. \A i \in DOMAIN d.variants : variantValid(d, d.variants[i])
                                     /\ ToSet(d.variants[i].deps \o d.variants[i].members) \subseteq targets(d)
    BY DEF accepts, validateMetadata, hashesValid, variantsNamed
  <2>2. \A v \in ToSet(d.variants) : \E i \in DOMAIN d.variants : v = d.variants[i]
    BY DEF ToSet
  <2>. QED  BY <2>1, <2>2 DEF variantValid
<1>7. \A v \in ToSet(d.variants) : v.id = writtenObjectID(d, v) /\ v.symversions \in BOOLEAN
  BY <1>1, <1>6 DEF writtenObjectID, expectedObjectID
<1>. QED  BY <1>1, <1>2, <1>3, <1>4, <1>5, <1>6, <1>7 DEF generated

-----------------------------------------------------------------------------
\* One ID of two payloads is one content.
LEMMA SamePayload ==
  ASSUME NEW a, NEW b, generated(a), generated(b), NEW id \in idsIn(a.payloads) \cap idsIn(b.payloads)
  PROVE  payloadOf(a, id) = payloadOf(b, id) /\ payloadOf(a, id) # {}
<1>1. ASSUME NEW d, generated(d), id \in idsIn(d.payloads)
      PROVE  payloadOf(d, id) = {id.payload}
  <2>1. \A p \in ToSet(d.payloads) : p.id = id => p.content = id.payload
    <3>1. \A p \in ToSet(d.payloads) : p.id = payloadID(p) /\ payloadID(p).payload = p.content
      BY <1>1 DEF generated, payloadID
    <3>. QED  BY <3>1
  <2>2. \E p \in ToSet(d.payloads) : p.id = id
    BY <1>1, Entries
  <2>. QED  BY <2>1, <2>2 DEF payloadOf
<1>. QED  BY <1>1

\* One ID of two header families is one family, and so below it.
LEMMA SameFamilies ==
  ASSUME NEW a, NEW b, generated(a), generated(b),
         NEW ids, ids \subseteq idsIn(a.families), ids \subseteq idsIn(b.families)
  PROVE  familiesOf(a, ids) = familiesOf(b, ids)
<1>. DEFINE C == idsIn(a.families) \cap idsIn(b.families)
            edges(d) == UNION {{f.id} \X ToSet(f.deps) : f \in ToSet(d.families)}
            what(d, f) == [name |-> f.name, deps |-> f.deps, payload |-> payloadOf(d, f.payload),
                           inputs |-> inputsOf(d, f.group)]
<1>1. ASSUME NEW c, NEW d, generated(c), generated(d),
             NEW f \in ToSet(c.families), NEW g \in ToSet(d.families), f.id = g.id
      PROVE  f.deps = g.deps /\ what(c, f) = what(d, g)
  <2>1. familyID(c, f) = familyID(d, g)
    BY <1>1 DEF generated
  <2>2. f.name = g.name /\ f.payload = g.payload /\ f.deps = g.deps
        /\ inputsOf(c, f.group) = inputsOf(d, g.group)
    BY <2>1 DEF familyID
  <2>3. payloadOf(c, f.payload) = payloadOf(d, g.payload)
    <3>1. f.payload \in idsIn(c.payloads) \cap idsIn(d.payloads)
      BY <1>1, <2>2 DEF generated
    <3>. QED  BY <1>1, <2>2, <3>1, SamePayload
  <2>. QED  BY <2>2, <2>3
<1>2. ASSUME NEW c, NEW d, generated(c), generated(d), C = idsIn(c.families) \cap idsIn(d.families)
      PROVE  \A e \in edges(c) : e[1] \in C => e \in edges(d) /\ e[2] \in C
  <2>1. SUFFICES ASSUME NEW e \in edges(c), e[1] \in C  PROVE e \in edges(d) /\ e[2] \in C
    OBVIOUS
  <2>2. PICK f \in ToSet(c.families) : e \in {f.id} \X ToSet(f.deps)
    OBVIOUS
  <2>3. e = <<e[1], e[2]>> /\ e[1] = f.id /\ e[2] \in ToSet(f.deps)
    BY <2>2
  <2>4. PICK g \in ToSet(d.families) : g.id = f.id
    BY <2>1, <2>3, <1>2, Entries
  <2>5. g.deps = f.deps
    <3>. HIDE DEF what
    <3>. QED  BY <2>2, <2>4, <1>1, <1>2
  <2>6. e \in {g.id} \X ToSet(g.deps)
    BY <2>3, <2>4, <2>5
  <2>7. e[2] \in idsIn(c.families) /\ e[2] \in idsIn(d.families)
    BY <2>3, <2>5, <1>2 DEF generated
  <2>. QED  BY <2>6, <2>7, <1>2
<1>3. familiesBelow(a, ids) = familiesBelow(b, ids) /\ familiesBelow(a, ids) \subseteq C
  <2>1. \A e \in edges(a) : e[1] \in C => e \in edges(b) /\ e[2] \in C
    BY <1>2
  <2>2. \A e \in edges(b) : e[1] \in C => e \in edges(a) /\ e[2] \in C
    BY <1>2
  <2>3. ids \subseteq C
    OBVIOUS
  <2>4. familiesBelow(a, ids) = reached(edges(a), ids) /\ familiesBelow(b, ids) = reached(edges(b), ids)
    BY DEF familiesBelow
  <2>. HIDE DEF C, edges
  <2>. QED  BY <2>1, <2>2, <2>3, <2>4, ReachedAgree
<1>. DEFINE all(d) == ids \cup familiesBelow(d, ids)
            chosen(d) == {f \in ToSet(d.families) : f.id \in all(d)}
<1>4. all(a) = all(b) /\ all(a) \subseteq C
  BY <1>3
<1>5. ASSUME NEW c, NEW d, generated(c), generated(d), C = idsIn(c.families) \cap idsIn(d.families),
             all(c) = all(d), all(c) \subseteq C
      PROVE  \A f \in chosen(c) : \E g \in chosen(d) : what(c, f) = what(d, g)
  <2>1. SUFFICES ASSUME NEW f \in chosen(c)  PROVE \E g \in chosen(d) : what(c, f) = what(d, g)
    OBVIOUS
  <2>2. f.id \in idsIn(d.families) /\ f.id \in all(d)
    BY <1>5
  <2>3. PICK g \in ToSet(d.families) : g.id = f.id
    BY <2>2, Entries
  <2>4. g \in chosen(d)
    BY <2>2, <2>3
  <2>5. what(c, f) = what(d, g)
    <3>. HIDE DEF what
    <3>. QED  BY <2>3, <1>1, <1>5
  <2>. QED  BY <2>4, <2>5
<1>6. familiesOf(a, ids) = {what(a, f) : f \in chosen(a)} /\ familiesOf(b, ids) = {what(b, f) : f \in chosen(b)}
  BY DEF familiesOf
<1>7. /\ \A f \in chosen(a) : \E g \in chosen(b) : what(a, f) = what(b, g)
      /\ \A f \in chosen(b) : \E g \in chosen(a) : what(b, f) = what(a, g)
  <2>. HIDE DEF what, chosen, all, C
  <2>1. C = idsIn(b.families) \cap idsIn(a.families)
    BY DEF C
  <2>2. C = idsIn(a.families) \cap idsIn(b.families)
    BY DEF C
  <2>. QED  BY <2>1, <2>2, <1>4, <1>5
<1>. HIDE DEF what, chosen, all, C
<1>. QED  BY <1>6, <1>7

-----------------------------------------------------------------------------
usesIDs(d, v) == {variantOf(d, t).id : t \in ToSet(v.deps \o v.members)}

\* One ID of two objects is one object: the same fields, and the same IDs of what
\* it is made from.
LEMMA SameObject ==
  ASSUME NEW a, NEW b, generated(a), generated(b),
         NEW v \in ToSet(a.variants), NEW w \in ToSet(b.variants), v.id = w.id
  PROVE  /\ objectFields(a, v) = objectFields(b, w)
         /\ v.symversions = w.symversions
         /\ usesIDs(a, v) = usesIDs(b, w)
<1>1. writtenObjectID(a, v) = writtenObjectID(b, w)
      /\ v.symversions \in BOOLEAN /\ w.symversions \in BOOLEAN
  BY DEF generated
<1>2. ASSUME NEW F, NEW G  PROVE [objectFields |-> F] # [objectFields |-> G, symversions |-> TRUE]
  <2>1. DOMAIN [objectFields |-> F] # DOMAIN [objectFields |-> G, symversions |-> TRUE]
    BY "symversions" \in DOMAIN [objectFields |-> G, symversions |-> TRUE],
       "symversions" \notin DOMAIN [objectFields |-> F]
  <2>. QED  BY <2>1
<1>3. v.symversions = w.symversions
  <2>. DEFINE F == objectFields(a, v)
              G == objectFields(b, w)
  <2>1. writtenObjectID(a, v) = IF v.symversions THEN [objectFields |-> F, symversions |-> TRUE]
                                ELSE [objectFields |-> F]
    BY DEF writtenObjectID
  <2>2. writtenObjectID(b, w) = IF w.symversions THEN [objectFields |-> G, symversions |-> TRUE]
                                ELSE [objectFields |-> G]
    BY DEF writtenObjectID
  <2>. HIDE DEF F, G
  <2>. QED  BY <1>1, <1>2, <2>1, <2>2
<1>4. objectFields(a, v) = objectFields(b, w)
  <2>1. writtenObjectID(a, v).objectFields = objectFields(a, v)
    BY DEF writtenObjectID
  <2>2. writtenObjectID(b, w).objectFields = objectFields(b, w)
    BY DEF writtenObjectID
  <2>. QED  BY <1>1, <2>1, <2>2
<1>5. ASSUME NEW d, generated(d), NEW u \in ToSet(d.variants)
      PROVE  usesIDs(d, u) = objectFields(d, u).deps \cup ToSet(objectFields(d, u).members)
  <2>. DEFINE idOf(t) == variantOf(d, t).id
  <2>1. ToSet(u.deps \o u.members) = ToSet(u.deps) \cup ToSet(u.members)
    BY <1>5, DepsAndMembers DEF generated, validateJSONShape
  <2>2. objectFields(d, u).deps = {idOf(t) : t \in ToSet(u.deps)}
    BY DEF objectFields
  <2>3. ToSet(objectFields(d, u).members) = {idOf(t) : t \in ToSet(u.members)}
    <3>1. objectFields(d, u).members = [i \in DOMAIN u.members |-> idOf(u.members[i])]
      BY DEF objectFields
    <3>. HIDE DEF idOf
    <3>. QED  BY <3>1 DEF ToSet
  <2>. HIDE DEF idOf
  <2>4. usesIDs(d, u) = {idOf(t) : t \in ToSet(u.deps \o u.members)}
    BY DEF usesIDs, idOf
  <2>. QED  BY <2>1, <2>2, <2>3, <2>4
<1>6. usesIDs(a, v) = usesIDs(b, w)
  BY <1>4, <1>5
<1>. QED  BY <1>3, <1>4, <1>6

\* What two documents say under one ID is the same.
LEMMA SaidTheSame ==
  ASSUME NEW a, NEW b, generated(a), generated(b),
         NEW id \in idsIn(a.variants) \cap idsIn(b.variants)
  PROVE  said(a, id) = said(b, id)
<1>1. PICK v \in ToSet(a.variants) : v.id = id
  BY Entries
<1>2. PICK w \in ToSet(b.variants) : w.id = id
  BY Entries
<1>3. variantWith(a, id) = v /\ variantWith(b, id) = w
  BY <1>1, <1>2, VariantOfID DEF generated
<1>4. objectFields(a, v) = objectFields(b, w) /\ v.symversions = w.symversions
  BY <1>1, <1>2, SameObject
<1>5. /\ v.object = w.object /\ v.mode = w.mode /\ v.modname = w.modname /\ v.environment = w.environment
      /\ v.source = w.source /\ v.command = w.command /\ v.moduleRoot = w.moduleRoot
      /\ inputsOf(a, v.group) = inputsOf(b, w.group)
      /\ {variantOf(a, t).id : t \in ToSet(v.deps)} = {variantOf(b, t).id : t \in ToSet(w.deps)}
      /\ [i \in DOMAIN v.members |-> variantOf(a, v.members[i]).id]
           = [i \in DOMAIN w.members |-> variantOf(b, w.members[i]).id]
  BY <1>4 DEF objectFields
<1>6. isExactAction(v) <=> isExactAction(w)
  <2>1. isArray(v.members) /\ isArray(w.members)
    BY <1>1, <1>2 DEF generated, validateJSONShape
  <2>2. DOMAIN v.members = DOMAIN w.members
    <3>1. DOMAIN [i \in DOMAIN v.members |-> variantOf(a, v.members[i]).id] = DOMAIN v.members
          /\ DOMAIN [i \in DOMAIN w.members |-> variantOf(b, w.members[i]).id] = DOMAIN w.members
      OBVIOUS
    <3>. QED  BY <3>1, <1>5
  <2>3. ASSUME NEW s, isArray(s)  PROVE s = <<>> <=> DOMAIN s = {}
    <3>. DEFINE T == ToSet(s)
    <3>1. s \in Seq(T)
      BY <2>3 DEF isArray
    <3>. HIDE DEF T
    <3>2. DOMAIN s = 1 .. Len(s) /\ Len(s) \in Nat
      BY <3>1
    <3>3. DOMAIN s = {} => Len(s) = 0
      BY <3>2
    <3>. QED  BY <3>1, <3>2, <3>3, EmptySeq
  <2>. QED  BY <2>1, <2>2, <2>3, <1>5 DEF isExactAction
<1>. DEFINE envs(d, u) == {e \in ToSet(d.environments) : isExactAction(u) /\ e.id = u.environment}
<1>7. ASSUME NEW e \in ToSet(a.environments), NEW g \in ToSet(b.environments), e.id = g.id
      PROVE  /\ payloadOf(a, e.payload) = payloadOf(b, g.payload)
             /\ familiesOf(a, ToSet(e.families)) = familiesOf(b, ToSet(g.families))
  <2>1. environmentID(e) = environmentID(g)
    BY <1>7 DEF generated
  <2>2. e.payload = g.payload /\ e.families = g.families
    BY <2>1 DEF environmentID
  <2>3. e.payload \in idsIn(a.payloads) \cap idsIn(b.payloads)
        /\ ToSet(e.families) \subseteq idsIn(a.families) /\ ToSet(e.families) \subseteq idsIn(b.families)
    BY <2>2, <1>7 DEF generated
  <2>. QED  BY <2>2, <2>3, SamePayload, SameFamilies
<1>8. \A e \in envs(a, v) : \E g \in envs(b, w) : e.id = g.id
  <2>1. SUFFICES ASSUME NEW e \in envs(a, v)  PROVE \E g \in envs(b, w) : e.id = g.id
    OBVIOUS
  <2>2. isExactAction(w) /\ w.environment \in idsIn(b.environments)
    BY <1>2, <1>6 DEF generated
  <2>3. PICK g \in ToSet(b.environments) : g.id = w.environment
    BY <2>2, Entries
  <2>. QED  BY <2>2, <2>3, <1>5
<1>9. \A g \in envs(b, w) : \E e \in envs(a, v) : e.id = g.id
  <2>1. SUFFICES ASSUME NEW g \in envs(b, w)  PROVE \E e \in envs(a, v) : e.id = g.id
    OBVIOUS
  <2>2. isExactAction(v) /\ v.environment \in idsIn(a.environments)
    BY <1>1, <1>6 DEF generated
  <2>3. PICK e \in ToSet(a.environments) : e.id = v.environment
    BY <2>2, Entries
  <2>. QED  BY <2>2, <2>3, <1>5
<1>10. UNION {payloadOf(a, x.payload) : x \in envs(a, v)} = UNION {payloadOf(b, x.payload) : x \in envs(b, w)}
  BY <1>7, <1>8, <1>9
<1>11. UNION {familiesOf(a, ToSet(x.families)) : x \in envs(a, v)}
         = UNION {familiesOf(b, ToSet(x.families)) : x \in envs(b, w)}
  BY <1>7, <1>8, <1>9
<1>. QED  BY <1>3, <1>4, <1>5, <1>10, <1>11 DEF said

\* Below one ID, two documents have the same.
LEMMA BelowTheSame ==
  ASSUME NEW a, NEW b, generated(a), generated(b),
         NEW id \in idsIn(a.variants) \cap idsIn(b.variants)
  PROVE  /\ below(a, {id}) = below(b, {id})
         /\ below(a, {id}) \subseteq idsIn(a.variants) \cap idsIn(b.variants)
<1>. DEFINE C == idsIn(a.variants) \cap idsIn(b.variants)
            edges(d) == UNION {{v.id} \X usesIDs(d, v) : v \in ToSet(d.variants)}
<1>1. ASSUME NEW d, generated(d), NEW v \in ToSet(d.variants)
      PROVE  usesIDs(d, v) \subseteq idsIn(d.variants)
  <2>1. \A t \in ToSet(v.deps \o v.members) : t \in targets(d)
    BY <1>1 DEF generated
  <2>2. \A t \in ToSet(v.deps \o v.members) : variantOf(d, t) \in ToSet(d.variants)
    BY <2>1, VariantOfTarget
  <2>. QED  BY <2>2, Entries DEF usesIDs
<1>2. ASSUME NEW c, NEW d, generated(c), generated(d), C = idsIn(c.variants) \cap idsIn(d.variants)
      PROVE  \A e \in edges(c) : e[1] \in C => e \in edges(d) /\ e[2] \in C
  <2>1. SUFFICES ASSUME NEW e \in edges(c), e[1] \in C  PROVE e \in edges(d) /\ e[2] \in C
    OBVIOUS
  <2>2. PICK v \in ToSet(c.variants) : e \in {v.id} \X usesIDs(c, v)
    OBVIOUS
  <2>3. e = <<e[1], e[2]>> /\ e[1] = v.id /\ e[2] \in usesIDs(c, v)
    BY <2>2
  <2>4. PICK w \in ToSet(d.variants) : w.id = v.id
    BY <2>1, <2>3, <1>2, Entries
  <2>5. usesIDs(c, v) = usesIDs(d, w)
    BY <2>4, <1>2, SameObject
  <2>6. e \in {w.id} \X usesIDs(d, w)
    BY <2>3, <2>4, <2>5
  <2>7. e[2] \in idsIn(c.variants) /\ e[2] \in idsIn(d.variants)
    BY <2>3, <2>5, <1>1, <1>2
  <2>. QED  BY <2>6, <2>7, <1>2
<1>3. \A e \in edges(a) : e[1] \in C => e \in edges(b) /\ e[2] \in C
  BY <1>2
<1>4. \A e \in edges(b) : e[1] \in C => e \in edges(a) /\ e[2] \in C
  BY <1>2
<1>5. {id} \subseteq C
  OBVIOUS
<1>6. \A d : below(d, {id}) = {id} \cup reached(edges(d), {id})
  BY DEF below, usesIDs
<1>7. reached(edges(a), {id}) = reached(edges(b), {id}) /\ reached(edges(a), {id}) \subseteq C
  <2>. HIDE DEF C, edges
  <2>. QED  BY <1>3, <1>4, <1>5, ReachedAgree
<1>. QED  BY <1>5, <1>6, <1>7

-----------------------------------------------------------------------------
\* Every file is an input, every reference below a configuration resolves.
LEMMA AcceptedDanglesNothing ==
  ASSUME accepts(doc)
  PROVE  NothingDangles
<1>1. generated(doc)
  BY AcceptedCouldBeGenerated
<1>2. ASSUME NEW i \in DOMAIN doc.files
      PROVE  \E x \in ToSet(doc.families) \cup ToSet(doc.variants) : doc.files[i] \in inputsOf(doc, x.group)
  <2>1. indexUsed(doc) /\ indexDecodes(doc)
    BY DEF accepts, validateMetadata
  <2>2. PICK n \in DOMAIN doc.groups : i \in doc.groups[n]
    BY <2>1 DEF indexUsed, ToSet
  <2>3. PICK x \in ToSet(doc.families) \cup ToSet(doc.variants) : x.group = n /\ n # 0
    BY <2>1, <2>2 DEF indexUsed, ToSet
  <2>4. doc.files[i] \in inputsOf(doc, x.group)
    BY <2>2, <2>3 DEF inputsOf
  <2>. QED  BY <2>4
<1>3. ASSUME NEW c \in ToSet(doc.configs), NEW t \in reachable(doc, rootsOf(c))
      PROVE  t \in targets(doc)
  <2>. DEFINE edges == UNION {{v.target} \X ToSet(v.deps \o v.members) : v \in ToSet(doc.variants)}
  <2>1. rootsOf(c) \subseteq targets(doc)
    BY <1>3 DEF accepts, validateMetadata, configsValid, rootsOf, ToSet
  <2>2. \A e \in edges : e[2] \in targets(doc)
    BY <1>1 DEF generated
  <2>3. reached(edges, rootsOf(c)) \subseteq targets(doc)
    <3>. HIDE DEF edges
    <3>. QED  BY <2>2 DEF reached
  <2>. QED  BY <1>3, <2>1, <2>3 DEF reachable
<1>4. ASSUME NEW t \in targets(doc), isExactAction(variantOf(doc, t))
      PROVE  said(doc, variantOf(doc, t).id).environment # {}
  <2>. DEFINE v == variantOf(doc, t)
              envs == {e \in ToSet(doc.environments) : isExactAction(v) /\ e.id = v.environment}
  <2>1. v \in ToSet(doc.variants)
    BY <1>4, VariantOfTarget
  <2>2. variantWith(doc, v.id) = v
    BY <1>1, <2>1, VariantOfID DEF generated
  <2>3. v.environment \in idsIn(doc.environments)
    BY <1>1, <1>4, <2>1 DEF generated
  <2>4. PICK e \in ToSet(doc.environments) : e.id = v.environment
    BY <2>3, Entries
  <2>5. e.payload \in idsIn(doc.payloads)
    BY <1>1, <2>4 DEF generated
  <2>6. payloadOf(doc, e.payload) # {}
    BY <1>1, <2>5, SamePayload
  <2>7. e \in envs
    BY <1>4, <2>4
  <2>8. said(doc, v.id).environment = UNION {payloadOf(doc, x.payload) : x \in envs}
    BY <2>2 DEF said
  <2>. HIDE DEF envs, v
  <2>9. said(doc, v.id).environment # {}
    BY <2>6, <2>7, <2>8
  <2>. QED  BY <2>9 DEF v
<1>. QED  BY <1>2, <1>3, <1>4 DEF NothingDangles

\* Whatever was written, and whatever edits were made since: what the checker
\* accepts says, under every ID that was written, what was written, at every
\* depth, and has nothing to spare or to seek
\* (compact_metadata_check/main.go validateContentAddressedMetadata).
THEOREM AcceptedIsAlwaysSound == Spec => []AcceptedIsSound
<1>. DEFINE Inv == written \in Written
<1>1. Init => Inv
  BY DEF Init
<1>2. Inv /\ [Next]_vars => Inv'
  BY DEF Next, Edit, vars
<1>3. Inv => AcceptedIsSound
  <2>. SUFFICES ASSUME Inv, accepts(doc)  PROVE TamperEvident /\ NothingDangles
    BY DEF AcceptedIsSound
  <2>1. generated(doc) /\ generated(written)
    BY AcceptedCouldBeGenerated, WrittenAssumption
  <2>2. ASSUME NEW id \in idsIn(doc.variants) \cap idsIn(written.variants)
        PROVE  /\ below(doc, {id}) = below(written, {id})
               /\ \A x \in below(doc, {id}) : said(doc, x) = said(written, x)
    BY <2>1, <2>2, BelowTheSame, SaidTheSame
  <2>. QED  BY <2>2, AcceptedDanglesNothing DEF TamperEvident
<1>. QED  BY <1>1, <1>2, <1>3, PTL DEF Spec
=============================================================================
