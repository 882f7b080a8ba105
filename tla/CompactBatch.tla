---------------------------- MODULE CompactBatch ----------------------------
(***************************************************************************)
(* CompactMetadataBatchWithOptions (compact.go): the configurations of one *)
(* invocation are resolved one after the other into a single graph of      *)
(* object variants, in which two configurations share a variant when its   *)
(* content ID is the same.  The metadata is then checked by                *)
(* validateContentIDs (compact_content.go).  Each refusal is an error that *)
(* ends the invocation.                                                    *)
(*                                                                         *)
(* The grouping of the source inputs is SourceInputIndex's; here they are  *)
(* the sets of files themselves, and a path with two digests is refused.   *)
(***************************************************************************)
EXTENDS CompactObjects

CONSTANTS Batches      \* the lists of configurations of an invocation

\* A batch is a list, and each of its configurations has a finite object graph in
\* which a generated ASN.1 header object is a leaf that includes no other.  The
\* scan of a source reads the source.
WellFormedConfig(cfg) ==
    /\ IsFiniteSet(DOMAIN cfg.objects)
    /\ cfg.headers \in Seq(ToSet(cfg.headers))
    /\ \A o \in DOMAIN cfg.objects :
          /\ cfg.objects[o].members \in Seq(membersOf(cfg, o))
          /\ \A d \in asn1Deps(cfg, o) : children(cfg, d) = {}
          /\ sourceOf(cfg, o) # "" => sourceOf(cfg, o) \in {f[1] : f \in scan(cfg, o).inputs}

ASSUME BatchesAssumption ==
    \A b \in Batches : b \in Seq(ToSet(b)) /\ \A i \in DOMAIN b : WellFormedConfig(b[i])

VARIABLES
    batch,       \* the configurations, in order
    phase,       \* "start", "objects", "metadata", "done" or "refused"
    todo,        \* the objects the current configuration has still to compile
    memo,        \* resolvedVariants: its variants so far, by object
    variants,    \* the variants of every configuration, by target
    families,    \* the generated header families, by ID
    files,       \* the source files interned so far
    configs      \* out.Configs

vars == <<batch, phase, todo, memo, variants, families, files, configs>>

Init ==
    /\ batch \in Batches
    /\ phase = "start"
    /\ todo = {}
    /\ memo = <<>>
    /\ variants = <<>>
    /\ families = {}
    /\ files = {}
    /\ configs = <<>>

current == batch[Len(configs) + 1]

Refuse ==
    /\ phase' = "refused"
    /\ UNCHANGED <<batch, todo, memo, variants, families, files, configs>>

\* The interner refuses a path that has two digests.
digestsDiffer(inputs) ==
    \E f \in inputs, g \in files \cup inputs : f[1] = g[1] /\ f[2] # g[2]

namesRefused ==
    \/ current.name = ""
    \/ \E i \in DOMAIN configs : configs[i].name = current.name
    \/ \E i \in DOMAIN configs : configs[i].image = current.image

compiledObjects(cfg) == {o \in DOMAIN cfg.objects : ~rustSDKOwnsObject(o)}

\* A family that is already known gets the labels of the new one as well.
mergeFamilies(new) ==
    LET same(f) == {g \in families : g.id = f.id}
    IN  {g \in families : \A f \in new : f.id # g.id}
          \cup {[f EXCEPT !.labels = f.labels \cup UNION {g.labels : g \in same(f)}] : f \in new}

\* Fault: the memo outlives its configuration.
ResolveKeepingMemo ==
    /\ phase = "start"
    /\ Len(configs) < Len(batch)
    /\ LET new == HeaderFamilies(current)
       IN  IF namesRefused \/ familiesRefused(current) THEN Refuse
           ELSE /\ families' = mergeFamilies(new)
                /\ files' = files \cup UNION {f.inputs : f \in new}
                /\ todo' = compiledObjects(current)
                /\ phase' = "objects"
                /\ UNCHANGED <<batch, memo, variants, configs>>

ResolveConfig ==
    /\ phase = "start"
    /\ Len(configs) < Len(batch)
    /\ LET new == HeaderFamilies(current)
           inputs == UNION {f.inputs : f \in new}
       IN  IF namesRefused \/ familiesRefused(current) \/ digestsDiffer(inputs)
             THEN Refuse
             ELSE /\ families' = mergeFamilies(new)
                  /\ files' = files \cup inputs
                  /\ todo' = compiledObjects(current)
                  /\ memo' = <<>>
                  /\ phase' = "objects"
                  /\ UNCHANGED <<batch, variants, configs>>

\* Variant v of object o joins the graph, the ones below it the memo.
Store(o, compiled, v) ==
    IF \/ digestsDiffer(v.fields.inputs)
       \/ v.target \in DOMAIN variants /\ variants[v.target] # v
      THEN Refuse
      ELSE /\ memo' = [x \in DOMAIN memo \cup DOMAIN compiled |->
                         IF x \in DOMAIN memo THEN memo[x] ELSE compiled[x]]
           /\ variants' = [t \in DOMAIN variants \cup {v.target} |->
                             IF t = v.target THEN v ELSE variants[t]]
           /\ files' = files \cup v.fields.inputs
           /\ todo' = todo \ {o}
           /\ UNCHANGED <<batch, phase, families, configs>>

\* The objects are compiled in the order of their names.
CompileObject ==
    /\ phase = "objects"
    /\ \E o \in todo :
         /\ \A p \in todo : position(o) <= position(p)
         /\ IF variantRefused(current, o) THEN Refuse
            ELSE \E compiled \in {variantsBelow(current, memo, o)} :
                   Store(o, compiled, compiled[o])

ProjectImage ==
    /\ phase = "objects"
    /\ todo = {}
    /\ configs' = Append(configs, [name |-> current.name, image |-> current.image,
                                   targets |-> imageTargets(current, memo),
                                   modules |-> moduleTargets(current, memo)])
    /\ phase' = IF Len(configs') = Len(batch) THEN "metadata" ELSE "start"
    /\ UNCHANGED <<batch, todo, memo, variants, families, files>>

(***************************************************************************)
(* validateContentIDs.                                                     *)
(***************************************************************************)
allVariants == {variants[t] : t \in DOMAIN variants}
environments == UNION {v.fields.environment : v \in allVariants}
payloads == {f.payload : f \in families} \cup {e.payload : e \in environments}
              \cup {payloadID(fullConfigFragment(batch[i])) : i \in DOMAIN batch}
contentIDs == payloads \cup {f.id : f \in families} \cup environments
                \cup {v.id : v \in allVariants}

shortIDsCollide(ids) == \E x, y \in ids : x # y /\ Short(x) = Short(y)

referenced(v) == v.deps \cup ToSet(v.members)

\* The ID a variant's fields and the variants it names hash to.
expectedID(v) ==
    objectVariantContentID(v.fields, {variants[t].id : t \in v.deps},
                           [i \in DOMAIN v.members |-> variants[v.members[i]].id])

familyOf(id) == CHOOSE f \in families : f.id = id

environmentRefused(e) ==
    \/ ~(e.families \subseteq {f.id : f \in families})
    \/ \E x, y \in e.families : x # y /\ familyOf(x).name = familyOf(y).name
    \/ \E x \in e.families : familyOf(x).name = All /\ Cardinality(e.families) > 1

\* A file of variants retains the file its source names.
primaryMissing(v) ==
    v.fields.source # "" /\ v.fields.source \notin {f[1] : f \in v.fields.inputs}

contentIDsRefused ==
    \/ shortIDsCollide(contentIDs)
    \/ \E e \in environments : environmentRefused(e)
    \/ \E v \in allVariants :
          \/ ~(referenced(v) \subseteq DOMAIN variants)
          \/ expectedID(v) # v.id
          \/ primaryMissing(v)

ValidateContentIDs ==
    /\ phase = "metadata"
    /\ IF contentIDsRefused
         THEN Refuse
         ELSE /\ phase' = "done"
              /\ UNCHANGED <<batch, todo, memo, variants, families, files, configs>>

Done == phase \in {"done", "refused"} /\ UNCHANGED vars

Next == ResolveConfig \/ CompileObject \/ ProjectImage \/ ValidateContentIDs \/ Done

Spec == Init /\ [][Next]_vars

(***************************************************************************)
(* Properties.                                                             *)
(***************************************************************************)
\* What the memo of a configuration holds in the end.
visited(cfg) == UNION {below(cfg, o) : o \in compiledObjects(cfg)}

\* The variants a configuration gets when it is the only one of the batch.
alone(cfg) == [o \in visited(cfg) |-> variantsBelow(cfg, <<>>, o)[o]]

\* The i-th configuration of the batch has the variants mine.
hasItsOwn(i, mine) ==
    /\ \A o \in compiledObjects(batch[i]) :
          /\ mine[o].target \in DOMAIN variants
          /\ variants[mine[o].target] = mine[o]
    /\ configs[i].targets = imageTargets(batch[i], mine)
    /\ configs[i].modules = moduleTargets(batch[i], mine)

\* No configuration changes what another one builds: the shared graph holds for
\* every object of a configuration the variant that the configuration gets on
\* its own, and its image and modules are the ones of its own graph (the memo
\* is per configuration, the variants are not).
EachConfigItsOwn ==
    phase = "done" => \A i \in DOMAIN batch : hasItsOwn(i, alone(batch[i]))

\* What the action of an object can tell apart, said without content IDs: the
\* files it reads, the value it sees of each symbol it consults, the headers it
\* includes, its command line, and the same of the objects it is built from.
actionHere(cfg, o, attr, found, used) ==
    LET seen(s) == IF shouldWrite(cfg, s) THEN cfg.values[s] ELSE "n"
        header(id) == [(CHOOSE f \in used : f.id = id) EXCEPT !.labels = {}]
        compiles == isLeaf(cfg, o) \/ Facts[o].nvhe
    IN  [mode |-> attr.mode, linkedAsModule |-> moduleRoot(attr), objtool |-> attr.objtool,
         command |-> IF isLeaf(cfg, o)
                       THEN <<attr.modname, flagsFor(attr.flags, Facts[o].language),
                              flagsFor(attr.remove, Facts[o].language)>>
                       ELSE <<>>,
         symbols |-> IF compiles THEN {<<s, seen(s)>> : s \in configSymbols(cfg, o, found)} ELSE {},
         reads |-> found.inputs,
         headers |-> IF compiles
                       THEN {header(id) : id \in selectForAction(used, found.includes, needsAllHeaders(o))}
                       ELSE {},
         symversions |-> IF symversionsEnabled(cfg, o)
                           THEN <<flagTexts(attr.flags, {"any", "c"}),
                                  flagTexts(attr.remove, {"any", "c"})>> ELSE <<>>]

action(cfg) ==
    LET a[o \in visited(cfg)] ==
          [object |-> o,
           own |-> actionHere(cfg, o, cfg.objects[o], scan(cfg, o), HeaderFamilies(cfg)),
           deps |-> {a[d] : d \in asn1Deps(cfg, o)},
           members |-> [i \in DOMAIN cfg.objects[o].members |-> a[cfg.objects[o].members[i]]]]
    IN  a

sharesWhatIsSame(objects, mine, theirs, a, b) ==
    \A o \in objects : (mine[o].target = theirs[o].target) <=> (a[o] = b[o])

\* Two configurations share the target of an object exactly when nothing that
\* the object or an object below it is built from tells them apart: sharing is
\* sound, and no configuration is given a build of its own for nothing.
SharedWhenSame ==
    phase = "done" => \A i, j \in DOMAIN batch :
      sharesWhatIsSame(compiledObjects(batch[i]) \cap compiledObjects(batch[j]),
                       alone(batch[i]), alone(batch[j]), action(batch[i]), action(batch[j]))

\* An object that includes headers of the all family and of another.
mixesFamilies(cfg, o) ==
    LET includes == scan(cfg, o).includes
    IN  /\ All \in includes /\ includes # {All}
        /\ ~needsAllHeaders(o) /\ ~monolithic(HeaderFamilies(cfg))

\* A configuration that a batch of its own refuses.
refusedAlone(cfg) ==
    \/ familiesRefused(cfg)
    \/ \E o \in compiledObjects(cfg) : variantRefused(cfg, o) \/ mixesFamilies(cfg, o)
    \/ \E o \in visited(cfg) : rustSDKOwnsObject(o)

inputsOf(cfg) ==
    UNION ({f.inputs : f \in HeaderFamilies(cfg)}
             \cup {scan(cfg, o).inputs : o \in compiledObjects(cfg)})

\* The content IDs a configuration brings to the batch.
environmentIDs(used) == used \cup {e.payload : e \in used}
variantIDs(built) == {v.id : v \in built} \cup environmentIDs(UNION {v.fields.environment : v \in built})
contentIDsOf(cfg) ==
    variantIDs({alone(cfg)[o] : o \in compiledObjects(cfg)})
      \cup {payloadID(fullConfigFragment(cfg))}
      \cup UNION {{f.id, f.payload} : f \in HeaderFamilies(cfg)}

twoDigests(read) == \E f, g \in read : f[1] = g[1] /\ f[2] # g[2]

\* A batch is refused for a reason the user can see: a name given twice, a
\* configuration that is refused on its own, a source file that changed while it
\* was scanned, or two content IDs whose short forms are the same.  Sharing by
\* itself never makes two good configurations clash ("produce duplicate target",
\* or the content IDs' own check).
RefusedForCause ==
    phase = "refused" =>
      \/ \E i, j \in DOMAIN batch : i # j /\ (\/ batch[i].name = batch[j].name
                                              \/ batch[i].image = batch[j].image)
      \/ \E i \in DOMAIN batch : batch[i].name = "" \/ refusedAlone(batch[i])
      \/ twoDigests(UNION {inputsOf(batch[i]) : i \in DOMAIN batch})
      \/ shortIDsCollide(UNION {contentIDsOf(batch[i]) : i \in DOMAIN batch})
=============================================================================
