--------------------------- MODULE CompactObjects ---------------------------
(***************************************************************************)
(* The compact object variants of one configuration: what variantForStack  *)
(* and resolvedKbuildObject.variant (compact.go) make of an object of the  *)
(* resolved Kbuild graph, and the content IDs (compact_content.go) that    *)
(* decide which configurations share it.                                   *)
(*                                                                         *)
(* SHA-256 is taken to be injective: a content ID is the record of the     *)
(* fields that are hashed, tagged with its domain.  The short ID that the  *)
(* target names carry is not: Short is a parameter.                        *)
(*                                                                         *)
(* A configuration is a record                                             *)
(*   name, image   its name and its sanitized image target                 *)
(*   values        the value of every symbol, written or not               *)
(*   written       the symbols ShouldWrite accepts                         *)
(*   objects       the resolved Kbuild graph: object |-> attributes        *)
(*   roots         the linked objects, libRoots the ones of lib.a          *)
(*   headers       the generated header families in derivation order       *)
(*   label         the label of its generated headers                      *)
(***************************************************************************)
EXTENDS Integers, Sequences, FiniteSets, SequencesExt

CONSTANTS
    Facts,             \* object |-> what the source tree says of it
    Closure(_, _),     \* what a scan of an object's sources under given values finds
    KernelFlagSymbols, \* KernelFlagsConfigSymbols(srcarch)
    ObjtoolSymbols,    \* ObjtoolConfigSymbols() on x86, nothing elsewhere
    LtoSymbol,         \* CONFIG_LTO_CLANG
    Modversions,       \* CONFIG_MODVERSIONS
    AsmModversions,    \* CONFIG_ASM_MODVERSIONS
    Unclassified,      \* a generated include of no precise family
    ABI,               \* opts.CompileEnvironmentABI
    Short(_),          \* the first 24 digits of a content ID
    NameOrder,         \* the object names in textual order
    LibraryDirs        \* opts.LibraryDirs

All == "all"

shouldWrite(cfg, symbol) == symbol \in cfg.written

\* canonicalConfigContent: the pairs of a fragment, sorted; a set is as good.
payloadID(fragment) == [domain |-> "payload", content |-> fragment]

fullConfigFragment(cfg) == {<<s, cfg.values[s]>> : s \in cfg.written}

(***************************************************************************)
(* Generated header families.                                              *)
(***************************************************************************)
headerFamilyID(name, payload, deps, inputs) ==
    [domain |-> "family", name |-> name, payload |-> payload,
     deps |-> deps, inputs |-> inputs]

\* The families of the first i footprints, each with the IDs of the earlier
\* families it depends on.
familiesUpTo(cfg) ==
    LET f[i \in 0..Len(cfg.headers)] ==
          IF i = 0 THEN {}
          ELSE LET h == cfg.headers[i]
                   deps == {g.id : g \in {g \in f[i - 1] : g.name \in h.deps}}
                   pay == payloadID(h.fragment)
               IN  f[i - 1] \cup
                     {[name |-> h.name, id |-> headerFamilyID(h.name, pay, deps, h.inputs),
                       payload |-> pay, deps |-> deps, inputs |-> h.inputs,
                       labels |-> {cfg.label}]}
    IN  f

HeaderFamilies(cfg) == familiesUpTo(cfg)[Len(cfg.headers)]

\* "duplicate family" and "depends on unknown or later family".
familiesRefused(cfg) ==
    \E i \in DOMAIN cfg.headers :
        LET earlier == {cfg.headers[j].name : j \in 1..(i - 1)}
        IN  \/ cfg.headers[i].name \in earlier
            \/ ~(cfg.headers[i].deps \subseteq earlier)

familyNames(families) == {f.name : f \in families}

idsOf(families, names) == {f.id : f \in {g \in families : g.name \in names}}

monolithic(families) == familyNames(families) = {All}

\* selectForAction: an action takes the families of its generated includes, or
\* the all family when it needs every header or there is no other.
selectForAction(families, includes, forceAll) ==
    IF families = {} THEN {}
    ELSE IF forceAll THEN idsOf(families, {All})
    ELSE IF monolithic(families) /\ includes # {} THEN idsOf(families, {All})
    ELSE idsOf(families, includes)

selectRefused(families, includes, forceAll) ==
    /\ families # {}
    /\ IF forceAll THEN All \notin familyNames(families)
       ELSE /\ ~monolithic(families)
            /\ \E name \in includes :
                   name = Unclassified \/ name \notin familyNames(families)

(***************************************************************************)
(* The object graph that a variant is derived from.                        *)
(***************************************************************************)
isLeaf(cfg, o) == cfg.objects[o].members = <<>>

\* Composites have no source of their own.
sourceOf(cfg, o) == IF isLeaf(cfg, o) THEN Facts[o].source ELSE ""

\* The generated ASN.1 headers a source includes, when their objects exist.
asn1Deps(cfg, o) ==
    IF sourceOf(cfg, o) = "" THEN {}
    ELSE (Facts[o].asn1 \cap DOMAIN cfg.objects) \ {o}

membersOf(cfg, o) == ToSet(cfg.objects[o].members)

children(cfg, o) == membersOf(cfg, o) \cup asn1Deps(cfg, o)

\* The objects that a walk along next visits from some.
visitedFrom(next, from) ==
    LET f[n \in 0..Cardinality(DOMAIN next)] ==
          IF n = 0 THEN from
          ELSE LET seen == f[n - 1]
               IN  seen \cup UNION {next[x] : x \in seen \cap DOMAIN next}
    IN  f[Cardinality(DOMAIN next)]

\* The objects variantForStack visits below o.
below(cfg, o) == visitedFrom([x \in DOMAIN cfg.objects |-> children(cfg, x)], {o})

membersBelow(cfg, o) ==
    visitedFrom([x \in DOMAIN cfg.objects |-> membersOf(cfg, x)], membersOf(cfg, o))

needsAllHeaders(o) == Facts[o].allHeaders \/ Facts[o].nvhe

\* The scan happens for a source, and for the nVHE link script.
scanned(cfg, o) == sourceOf(cfg, o) # "" \/ Facts[o].nvhe

scan(cfg, o) ==
    IF scanned(cfg, o) THEN Closure(o, cfg.values)
    ELSE [refs |-> {}, includes |-> {}, inputs |-> {}]

\* An object whose own step of variantForStack returns an error.
refusedHere(cfg, families, o) ==
    \/ o \notin DOMAIN cfg.objects
    \/ o \in membersBelow(cfg, o)
    \/ isLeaf(cfg, o) /\ Facts[o].source = ""
    \/ selectRefused(families, scan(cfg, o).includes, scanned(cfg, o) /\ needsAllHeaders(o))

variantRefused(cfg, o) ==
    \E x \in below(cfg, o) : refusedHere(cfg, HeaderFamilies(cfg), x)

(***************************************************************************)
(* The variant.                                                            *)
(***************************************************************************)
enabled(cfg, symbol) == shouldWrite(cfg, symbol) /\ cfg.values[symbol] = "y"

symversionsEnabled(cfg, o) ==
    /\ enabled(cfg, Modversions)
    /\ sourceOf(cfg, o) # ""
    /\ \/ Facts[o].language = "c"
       \/ Facts[o].language = "asm" /\ enabled(cfg, AsmModversions)

flagTexts(groups, languages) ==
    LET chosen == SelectSeq(groups, LAMBDA g : g.language \in languages)
    IN  [i \in DOMAIN chosen |-> chosen[i].text]

\* kbuildFlagLanguageMatchesSource: an unknown language takes every flag.
flagsFor(groups, language) ==
    flagTexts(groups, IF language = "" THEN {"any", "c", "asm"} ELSE {"any", language})

moduleRoot(attr) == attr.root /\ attr.mode = "m"

\* The symbols the action itself adds to the ones its sources mention.
actionSymbols(cfg, o) ==
    IF sourceOf(cfg, o) = "" THEN {}
    ELSE {Modversions, AsmModversions}
         \cup (IF cfg.objects[o].objtool.disabled THEN {} ELSE ObjtoolSymbols)
         \cup (IF moduleRoot(cfg.objects[o]) THEN {LtoSymbol} ELSE {})

configSymbols(cfg, o, found) ==
    (IF isLeaf(cfg, o) THEN cfg.objects[o].footprint ELSE {})
    \cup found.refs \cup actionSymbols(cfg, o)
    \cup (IF scanned(cfg, o) THEN KernelFlagSymbols ELSE {})
    \cup (IF Facts[o].fullConfig THEN cfg.written ELSE {})

\* Fault: a symbol that is not written is recorded with its value.
fragmentOfValues(cfg, o, found) == {<<s, cfg.values[s]>> : s \in configSymbols(cfg, o, found)}

\* A symbol that is not written is recorded as n, whatever its value.
fragmentOf(cfg, o, found) ==
    {<<s, IF shouldWrite(cfg, s) THEN cfg.values[s] ELSE "n">> : s \in configSymbols(cfg, o, found)}

environmentID(payload, families) ==
    [domain |-> "environment", abi |-> ABI, payload |-> payload, families |-> families]

\* Fault: the flags are not hashed.
contentIDWithoutFlags(v, depIDs, memberIDs) ==
    [domain |-> "object", object |-> v.object, mode |-> v.mode, modname |-> v.modname,
     environment |-> v.environment, abi |-> ABI, source |-> v.source,
     remove |-> v.remove, inputs |-> v.inputs,
     deps |-> depIDs, members |-> memberIDs, moduleRoot |-> v.moduleRoot,
     objtool |-> v.objtool, symversions |-> v.symversions]

objectVariantContentID(v, depIDs, memberIDs) ==
    [domain |-> "object", object |-> v.object, mode |-> v.mode, modname |-> v.modname,
     environment |-> v.environment, abi |-> ABI, source |-> v.source,
     flags |-> v.flags, remove |-> v.remove, inputs |-> v.inputs,
     deps |-> depIDs, members |-> memberIDs, moduleRoot |-> v.moduleRoot,
     objtool |-> v.objtool, symversions |-> v.symversions]

targetOf(object, id) == <<object, Short(id)>>

\* Composites keep nothing that only a compile action uses; the nVHE object is
\* a composite with an action of its own.
fieldsOf(cfg, o, attr, found) ==
    LET leaf == isLeaf(cfg, o)
        compiles == leaf \/ Facts[o].nvhe
        language == IF leaf THEN Facts[o].language ELSE ""
        on == symversionsEnabled(cfg, o)
        fragment == IF compiles THEN fragmentOf(cfg, o, found) ELSE {}
        families == IF compiles
                      THEN selectForAction(HeaderFamilies(cfg), found.includes, needsAllHeaders(o))
                      ELSE {}
    IN  [object |-> o, mode |-> attr.mode, moduleRoot |-> moduleRoot(attr),
         source |-> sourceOf(cfg, o), language |-> language, fragment |-> fragment,
         families |-> families,
         modname |-> IF leaf THEN attr.modname ELSE "",
         flags |-> IF leaf THEN flagsFor(attr.flags, language) ELSE <<>>,
         remove |-> IF leaf THEN flagsFor(attr.remove, language) ELSE <<>>,
         environment |-> IF compiles THEN {environmentID(payloadID(fragment), families)} ELSE {},
         inputs |-> IF compiles THEN found.inputs ELSE {},
         objtool |-> attr.objtool,
         symversions |-> [on |-> on,
                          flags |-> IF on THEN flagTexts(attr.flags, {"any", "c"}) ELSE <<>>,
                          remove |-> IF on THEN flagTexts(attr.remove, {"any", "c"}) ELSE <<>>]]

identified(fields, id, deps, members) ==
    [fields |-> fields, id |-> id, target |-> targetOf(fields.object, id),
     deps |-> {d.target : d \in deps},
     members |-> [i \in DOMAIN members |-> members[i].target]]

withID(fields, deps, members) ==
    identified(fields, objectVariantContentID(fields, {d.id : d \in deps},
                                              [i \in DOMAIN members |-> members[i].id]),
               deps, members)

variant(cfg, o, deps, members) ==
    withID(fieldsOf(cfg, o, cfg.objects[o], scan(cfg, o)), deps, members)

\* variantFor: the variants of the objects below o, given the memo of the
\* configuration.
variantsBelow(cfg, memo, o) ==
    LET v[x \in below(cfg, o)] ==
          IF x \in DOMAIN memo THEN memo[x]
          ELSE variant(cfg, x, {v[d] : d \in asn1Deps(cfg, x)},
                       [i \in DOMAIN cfg.objects[x].members |-> v[cfg.objects[x].members[i]]])
    IN  v

(***************************************************************************)
(* What an image projects.                                                 *)
(***************************************************************************)
\* imageObjectTargetsForVariant: a built-in composite is linked by its leaves,
\* in member order, except the one that stays linked.
imageObjectTargets(memo, o) ==
    LET objectOf(t) == CHOOSE x \in DOMAIN memo : memo[x].target = t
        f[x \in DOMAIN memo] ==
          IF memo[x].members = <<>> \/ Facts[x].nvhe THEN <<memo[x].target>>
          ELSE FlattenSeq([i \in DOMAIN memo[x].members |-> f[objectOf(memo[x].members[i])]])
    IN  f[o]

position(name) == CHOOSE i \in DOMAIN NameOrder : NameOrder[i] = name

byName(roots) == SortSeq(roots, LAMBDA r, s : position(r.object) < position(s.object))

\* orderedLibRoots: the named directories first, the others as they appear.
orderedLibRoots(roots) ==
    LET dirs == FoldLeft(LAMBDA seen, d : IF Contains(seen, d) THEN seen ELSE Append(seen, d),
                         <<>>, LibraryDirs \o [i \in DOMAIN roots |-> roots[i].directory])
        inDir(d) == byName(SelectSeq(roots, LAMBDA r : r.directory = d))
    IN  IF LibraryDirs = <<>> THEN byName(roots)
        ELSE FlattenSeq([i \in DOMAIN dirs |-> inDir(dirs[i])])

rustSDKOwnsObject(o) == Facts[o].rust

linkedRoots(cfg) ==
    LET lib == orderedLibRoots(cfg.libRoots)
        all == cfg.roots \o [i \in DOMAIN lib |-> lib[i].object]
    IN  SelectSeq(all, LAMBDA o : ~rustSDKOwnsObject(o))

imageTargets(cfg, memo) ==
    LET roots == SelectSeq(linkedRoots(cfg), LAMBDA o : memo[o].fields.mode = "y")
    IN  FlattenSeq([i \in DOMAIN roots |-> imageObjectTargets(memo, roots[i])])

moduleTargets(cfg, memo) ==
    LET roots == SelectSeq(linkedRoots(cfg), LAMBDA o : memo[o].fields.mode = "m")
    IN  [i \in DOMAIN roots |-> memo[roots[i]].target]
=============================================================================
