--------------------------- MODULE MetadataCheck ---------------------------
(***************************************************************************)
(* compact_metadata_check (internal/cmd/compact_metadata_check/main.go):   *)
(* the tool that reads the metadata a generator wrote, on its own          *)
(* understanding of the content IDs, and refuses documents that are not    *)
(* what their IDs say.  A document may have been edited by other hands     *)
(* since it was written.                                                   *)
(*                                                                         *)
(* SHA-256 is taken to be injective: a content ID is the record of what is *)
(* hashed, and "short" stands for its first digits.  JSON arrays are       *)
(* sequences, an encoded group is the set of its file numbers, and the     *)
(* flags of all kinds are one command.  Paths and labels are numbers.      *)
(***************************************************************************)
EXTENDS Naturals, Sequences, FiniteSets, SequencesExt

CONSTANTS
    Written,        \* the documents of the generator
    Edits(_),       \* what one edit can make of a document
    MaxEdits,       \* bound on the edits
    IDPlace(_),     \* the place of an ID in the order of all IDs
    TargetPlace(_), \* the same for targets, paths and labels being numbers,
    GroupPlace(_),  \* and for the texts of groups
    WellFormed(_),  \* isContentID
    KvmNvhe,        \* arch/arm64/kvm/hyp/nvhe/kvm_nvhe.o
    HypLds          \* arch/arm64/kvm/hyp/nvhe/hyp.lds.S

VARIABLES
    written,        \* the document as the generator wrote it
    doc,            \* the document that is checked
    edits

vars == <<written, doc, edits>>

strictlyOrdered(places) == \A i, j \in DOMAIN places : i < j => places[i] < places[j]

distinct(s) == \A i, j \in DOMAIN s : i # j => s[i] # s[j]

project(s, field(_)) == [i \in DOMAIN s |-> field(s[i])]

idsIn(s) == ToSet(project(s, LAMBDA e : e.id))

targets(d) == ToSet(project(d.variants, LAMBDA v : v.target))

\* What following edges reaches: the smallest set that holds the end of every edge
\* from a place in it or in from.
reached(edges, from) ==
    LET ends == {e[2] : e \in edges}
    IN  {x \in ends : \A S \in SUBSET ends :
           (\A e \in edges : e[1] \in from \cup S => e[2] \in S) => x \in S}

(***************************************************************************)
(* Content IDs.                                                            *)
(***************************************************************************)
inputsOf(d, group) == IF group = 0 THEN {} ELSE {d.files[i] : i \in d.groups[group]}

payloadID(p) == [payload |-> p.content]

familyID(d, f) ==
    [family |-> f.name, payload |-> f.payload, deps |-> f.deps, inputs |-> inputsOf(d, f.group)]

environmentID(e) == [abi |-> e.abi, payload |-> e.payload, families |-> e.families]

variantOf(d, target) ==
    LET i == CHOOSE i \in DOMAIN d.variants : d.variants[i].target = target
    IN  d.variants[i]

\* Dependencies are hashed in the order of their IDs, members in link order.
objectFields(d, v) ==
    [object |-> v.object, mode |-> v.mode, modname |-> v.modname,
     environment |-> v.environment, source |-> v.source, command |-> v.command,
     inputs |-> inputsOf(d, v.group), moduleRoot |-> v.moduleRoot,
     deps |-> {variantOf(d, t).id : t \in ToSet(v.deps)},
     members |-> [i \in DOMAIN v.members |-> variantOf(d, v.members[i]).id]]

\* What the generator hashes (objectVariantContentID): no value for no
\* symversions.
writtenObjectID(d, v) ==
    IF v.symversions THEN [objectFields |-> objectFields(d, v), symversions |-> TRUE]
    ELSE [objectFields |-> objectFields(d, v)]


expectedObjectID(d, v) == [objectFields |-> objectFields(d, v)]

(***************************************************************************)
(* The checks.                                                             *)
(***************************************************************************)
isArray(s) == s \in Seq(ToSet(s))

validateJSONShape(d) ==
    /\ isArray(d.files) /\ isArray(d.groups) /\ isArray(d.payloads) /\ isArray(d.families)
    /\ isArray(d.environments) /\ isArray(d.variants) /\ isArray(d.configs)
    /\ \A f \in ToSet(d.families) : isArray(f.labels) /\ isArray(f.deps)
    /\ \A e \in ToSet(d.environments) : isArray(e.families)
    /\ \A v \in ToSet(d.variants) : isArray(v.deps) /\ isArray(v.members)
    /\ \A c \in ToSet(d.configs) : isArray(c.objects) /\ isArray(c.modules)

\* decodeMetadata: the fields of the tool's own types, and no others.
decodeMetadata(d) ==
    /\ ~d.schema /\ \A v \in ToSet(d.variants) : v.symversions = FALSE
    /\ validateJSONShape(d)

isExactAction(v) == v.members = <<>> \/ v.object = KvmNvhe

groupExists(d, group) == group \in DOMAIN d.groups

requiredSource(v) == IF v.object = KvmNvhe THEN HypLds ELSE v.source

indexDecodes(d) ==
    /\ \A i \in DOMAIN d.files : WellFormed(d.files[i].digest)
    /\ strictlyOrdered(project(d.files, LAMBDA f : f.path))
    /\ strictlyOrdered(project(d.groups, GroupPlace))
    /\ \A i \in DOMAIN d.groups : d.groups[i] # {} /\ d.groups[i] \subseteq DOMAIN d.files

\* The files and groups that are referred to are all there are.
indexUsed(d) ==
    LET referenced == {d.families[i].group : i \in DOMAIN d.families}
                        \cup {d.variants[i].group : i \in DOMAIN d.variants}
    IN  /\ referenced \ {0} = DOMAIN d.groups
        /\ UNION ToSet(d.groups) = DOMAIN d.files

payloadsValid(d) ==
    /\ d.payloads # <<>> /\ d.environments # <<>>
    /\ distinct(project(d.payloads, LAMBDA p : p.id))
    /\ \A i \in DOMAIN d.payloads : d.payloads[i].id = payloadID(d.payloads[i])

\* The families below some, dependencies followed.
familiesBelow(d, ids) ==
    reached(UNION {{f.id} \X ToSet(f.deps) : f \in ToSet(d.families)}, ids)

familyValid(d, f) ==
    /\ f.payload \in idsIn(d.payloads)
    /\ f.labels # <<>> /\ strictlyOrdered(f.labels)
    /\ \A dep \in ToSet(f.deps) : WellFormed(dep) /\ dep # f.id
    /\ strictlyOrdered(project(f.deps, IDPlace))
    /\ f.group = 0 \/ groupExists(d, f.group)
    /\ f.id = familyID(d, f)
    /\ ToSet(f.deps) \subseteq idsIn(d.families)
    /\ f.id \notin familiesBelow(d, {f.id})

familyNames(d, e) == [i \in DOMAIN e.families |->
                        LET k == CHOOSE k \in DOMAIN d.families : d.families[k].id = e.families[i]
                        IN  d.families[k].name]

environmentValid(d, e) ==
    /\ e.abi = d.environments[1].abi
    /\ e.payload \in idsIn(d.payloads)
    /\ ToSet(e.families) \subseteq idsIn(d.families)
    /\ strictlyOrdered(project(e.families, IDPlace))
    /\ distinct(familyNames(d, e))
    /\ "all" \in ToSet(familyNames(d, e)) => Len(e.families) = 1
    /\ e.id = environmentID(e)

variantValid(d, v) ==
    /\ v.mode \in {"y", "m"}
    /\ v.target.short = v.id
    /\ IF isExactAction(v)
         THEN /\ groupExists(d, v.group)
              /\ requiredSource(v) \in {f.path : f \in inputsOf(d, v.group)}
              /\ v.environment \in idsIn(d.environments)
         ELSE v.group = 0
    /\ strictlyOrdered(project(v.deps, TargetPlace))
    /\ v.id = expectedObjectID(d, v)

\* validateMetadata looks at the names of things before it hashes them.
variantsNamed(d) ==
    /\ distinct(project(d.variants, LAMBDA v : v.target))
    /\ distinct(project(d.variants, LAMBDA v : v.id))
    /\ \A i \in DOMAIN d.variants :
         /\ WellFormed(d.variants[i].id)
         /\ ToSet(d.variants[i].deps \o d.variants[i].members) \subseteq targets(d)

configsValid(d) ==
    /\ distinct(project(d.configs, LAMBDA c : c.name))
    /\ \A i \in DOMAIN d.configs :
         /\ d.configs[i].payload \in idsIn(d.payloads)
         /\ ToSet(d.configs[i].objects \o d.configs[i].modules) \subseteq targets(d)

\* Fault: composites are taken to have been checked with their members.
hashesOfLeaves(d) ==
    \A i \in DOMAIN d.variants :
      IF isExactAction(d.variants[i]) THEN variantValid(d, d.variants[i]) ELSE TRUE

hashesValid(d) == \A i \in DOMAIN d.variants : variantValid(d, d.variants[i])

validateMetadata(d) ==
    /\ variantsNamed(d)
    /\ indexDecodes(d)
    /\ payloadsValid(d)
    /\ distinct(project(d.families, LAMBDA f : f.id))
    /\ \A i \in DOMAIN d.families : familyValid(d, d.families[i])
    /\ distinct(project(d.environments, LAMBDA e : e.id))
    /\ \A i \in DOMAIN d.environments : environmentValid(d, d.environments[i])
    /\ hashesValid(d)
    /\ indexUsed(d)
    /\ configsValid(d)

accepts(d) == decodeMetadata(d) /\ validateMetadata(d)

(***************************************************************************)
(* Assertions: newIndex and objectTarget look an object up in the image of *)
(* a configuration; the last target of an object counts.                   *)
(***************************************************************************)
imageTargetsOf(d, c, object) ==
    {i \in DOMAIN c.objects : variantOf(d, c.objects[i]).object = object}

objectTarget(d, c, object) ==
    {c.objects[i] : i \in {i \in imageTargetsOf(d, c, object) :
                             \A k \in imageTargetsOf(d, c, object) : k <= i}}

present(d, c, object) == objectTarget(d, c, object) # {}

share(d, c1, c2, object) ==
    objectTarget(d, c1, object) # {} /\ objectTarget(d, c1, object) = objectTarget(d, c2, object)

\* The closure that the statistics count, from the roots of a configuration.
reachable(d, roots) ==
    roots \cup reached(UNION {{v.target} \X ToSet(v.deps \o v.members) : v \in ToSet(d.variants)},
                      roots)

rootsOf(c) == ToSet(c.objects \o c.modules)

(***************************************************************************)
(* A document on its way from the generator to the tool.                   *)
(***************************************************************************)
\* The IDs in a document that the generator wrote are those of what it says, and
\* what it refers to is there (its own validateContentIDs).
generated(d) ==
    /\ validateJSONShape(d)
    /\ distinct(project(d.variants, LAMBDA v : v.target)) /\ distinct(project(d.variants, LAMBDA v : v.id))
    /\ \A p \in ToSet(d.payloads) : p.id = payloadID(p)
    /\ \A f \in ToSet(d.families) :
         /\ f.id = familyID(d, f)
         /\ f.payload \in idsIn(d.payloads) /\ ToSet(f.deps) \subseteq idsIn(d.families)
    /\ \A e \in ToSet(d.environments) :
         /\ e.id = environmentID(e)
         /\ e.payload \in idsIn(d.payloads) /\ ToSet(e.families) \subseteq idsIn(d.families)
    /\ \A v \in ToSet(d.variants) :
         /\ v.id = writtenObjectID(d, v) /\ v.symversions \in BOOLEAN
         /\ ToSet(v.deps \o v.members) \subseteq targets(d)
         /\ isExactAction(v) => v.environment \in idsIn(d.environments)

ASSUME WrittenAssumption == \A d \in Written : generated(d)

Init == written \in Written /\ doc = written /\ edits = 0

Edit ==
    /\ edits < MaxEdits
    /\ \E d \in Edits(doc) : doc' = d
    /\ edits' = edits + 1
    /\ UNCHANGED written

Next == Edit

Spec == Init /\ [][Next]_vars

(***************************************************************************)
(* Properties.                                                             *)
(***************************************************************************)
\* What a document says of the object with an ID, references resolved.
variantWith(d, id) == CHOOSE v \in ToSet(d.variants) : v.id = id

payloadOf(d, id) == {p.content : p \in {p \in ToSet(d.payloads) : p.id = id}}

familiesOf(d, ids) ==
    {[name |-> f.name, deps |-> f.deps, payload |-> payloadOf(d, f.payload),
      inputs |-> inputsOf(d, f.group)] :
       f \in {f \in ToSet(d.families) : f.id \in ids \cup familiesBelow(d, ids)}}

said(d, id) ==
    LET v == variantWith(d, id)
        e == {e \in ToSet(d.environments) : isExactAction(v) /\ e.id = v.environment}
    IN  [fields |-> [object |-> v.object, mode |-> v.mode, modname |-> v.modname,
                     source |-> v.source, command |-> v.command, moduleRoot |-> v.moduleRoot,
                     symversions |-> v.symversions],
         deps |-> {variantOf(d, t).id : t \in ToSet(v.deps)},
         members |-> [i \in DOMAIN v.members |-> variantOf(d, v.members[i]).id],
         inputs |-> inputsOf(d, v.group),
         environment |-> UNION {payloadOf(d, x.payload) : x \in e},
         headers |-> UNION {familiesOf(d, ToSet(x.families)) : x \in e}]

below(d, ids) ==
    ids \cup reached(UNION {{v.id} \X {variantOf(d, t).id : t \in ToSet(v.deps \o v.members)} :
                             v \in ToSet(d.variants)}, ids)

\* An object under an ID that the generator wrote is the object it wrote, and so
\* is everything below it: fields, sources with their digests, configuration,
\* headers, members in their order.  What the targets are called is not hashed.
TamperEvident ==
    \A id \in idsIn(doc.variants) \cap idsIn(written.variants) :
      /\ below(doc, {id}) = below(written, {id})
      /\ \A x \in below(doc, {id}) : said(doc, x) = said(written, x)

\* The document has nothing to spare and nothing to seek: what it lists in its
\* index it uses, and nothing it names is missing.
NothingDangles ==
    /\ \A i \in DOMAIN doc.files :
         \E x \in ToSet(doc.families) \cup ToSet(doc.variants) : doc.files[i] \in inputsOf(doc, x.group)
    /\ \A c \in ToSet(doc.configs) : \A t \in reachable(doc, rootsOf(c)) :
         /\ t \in targets(doc)
         /\ isExactAction(variantOf(doc, t)) => said(doc, variantOf(doc, t).id).environment # {}

\* Edits that keep a name must keep its content, at any depth, and leave nothing
\* unused or missing, or the tool does not let the document pass
\* (validateContentAddressedMetadata).
AcceptedIsSound == accepts(doc) => TamperEvident /\ NothingDangles

=============================================================================
