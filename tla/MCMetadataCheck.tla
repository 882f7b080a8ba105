-------------------------- MODULE MCMetadataCheck --------------------------
(***************************************************************************)
(* Instances of MetadataCheck: two configurations share a.o; one links it  *)
(* into the composite k.o, the other has the module b.o, which depends on  *)
(* a.o.  Paths, labels and digests are numbers.                            *)
(***************************************************************************)
EXTENDS MetadataCheck

bogus == [malformed |-> TRUE]
digest(n) == [digits |-> n]

MCWellFormed(id) == id # bogus

rank(x) == CASE x = "a.o" -> 1 [] x = "b.o" -> 2 [] x = "k.o" -> 3 [] x = "d.o" -> 4
             [] x = "n.o" -> 5
             [] x = "asm" -> 1 [] x = "bounds" -> 2 [] x = "all" -> 3

\* Targets are ordered by object, families by name, groups by their first file.
MCTargetPlace(t) == rank(t.object)
MCIDPlace(id) == IF id = bogus THEN 0 ELSE rank(id.family)
MCGroupPlace(g) == IF g = {} THEN 0 ELSE CHOOSE i \in g : \A k \in g : i <= k

targetOf(object, id) == [object |-> object, short |-> id]

variant(object, id) ==
    [target |-> targetOf(object, id), object |-> object, id |-> id, mode |-> "y",
     modname |-> "", source |-> 0, command |-> "cc", group |-> 0, moduleRoot |-> FALSE,
     environment |-> bogus, symversions |-> FALSE, deps |-> <<>>, members |-> <<>>]

\* Give the variant of an object another ID and label, everywhere.
rename(d, i, label, id) ==
    LET old == d.variants[i].target
        new == targetOf(label, id)
        swap(s) == [k \in DOMAIN s |-> IF s[k] = old THEN new ELSE s[k]]
    IN  [d EXCEPT
           !.variants = [k \in DOMAIN @ |->
              [@[k] EXCEPT !.deps = swap(@), !.members = swap(@),
                           !.id = IF k = i THEN id ELSE @,
                           !.target = IF k = i THEN new ELSE @]],
           !.configs = [k \in DOMAIN @ |->
              [@[k] EXCEPT !.objects = swap(@), !.modules = swap(@)]]]

\* The ID its fields hash to
rehash(d, i) == rename(d, i, d.variants[i].target.object, writtenObjectID(d, d.variants[i]))
relabel(d, i) == rename(d, i, "n.o", d.variants[i].id)

base(sym, content) ==
    LET p == [id |-> payloadID([content |-> content]), content |-> content]
        files == <<[path |-> 1, digest |-> digest(1)], [path |-> 2, digest |-> digest(1)]>>
        empty == [schema |-> FALSE, files |-> files, groups |-> <<{1}, {2}>>, payloads |-> <<p>>,
                  families |-> <<>>, environments |-> <<>>, variants |-> <<>>, configs |-> <<>>]
        asm == [name |-> "asm", payload |-> p.id, labels |-> <<1>>, deps |-> <<>>, group |-> 1,
                id |-> bogus]
        asmDone == [asm EXCEPT !.id = familyID(empty, asm)]
        bounds == [asmDone EXCEPT !.name = "bounds", !.deps = <<asmDone.id>>, !.group = 0]
        boundsDone == [bounds EXCEPT !.id = familyID(empty, bounds)]
        env == [abi |-> "x", payload |-> p.id, families |-> <<asmDone.id, boundsDone.id>>]
        e == [abi |-> env.abi, payload |-> env.payload, families |-> env.families,
              id |-> environmentID(env)]
        leaf(o, src) == [variant(o, bogus) EXCEPT !.source = src, !.group = src,
                                                  !.environment = e.id, !.symversions = sym]
        t(o) == targetOf(o, bogus)
        raw == [empty EXCEPT
                  !.families = <<asmDone, boundsDone>>, !.environments = <<e>>,
                  !.variants = <<leaf("a.o", 1), leaf("d.o", 2),
                                 [leaf("b.o", 2) EXCEPT !.deps = <<t("a.o")>>, !.mode = "m"],
                                 [variant("k.o", bogus) EXCEPT !.members = <<t("a.o"), t("d.o")>>]>>,
                  !.configs = <<[name |-> "c1", payload |-> p.id, objects |-> <<t("k.o")>>,
                                 modules |-> <<>>],
                                [name |-> "c2", payload |-> p.id, objects |-> <<t("a.o"), t("d.o")>>,
                                 modules |-> <<t("b.o")>>]>>]
    IN  rehash(rehash(rehash(rehash(raw, 1), 2), 3), 4)

swapped(s) == [i \in DOMAIN s |-> s[Len(s) + 1 - i]]
without(s, i) == SubSeq(s, 1, i - 1) \o SubSeq(s, i + 1, Len(s))

hashable(d, group) ==
    group # 0 => group \in DOMAIN d.groups /\ d.groups[group] \subseteq DOMAIN d.files
resolved(d, v) == ToSet(v.deps \o v.members) \subseteq targets(d) /\ hashable(d, v.group)

changedVariants(d) ==
    UNION {LET v == d.variants[i]
           IN  {[d EXCEPT !.variants[i] = x] :
                  x \in {[v EXCEPT !.mode = "m"], [v EXCEPT !.command = "ld"],
                         [v EXCEPT !.moduleRoot = TRUE], [v EXCEPT !.environment = bogus],
                         [v EXCEPT !.members = swapped(@)], [v EXCEPT !.deps = <<>>],
                         [v EXCEPT !.symversions = TRUE], [v EXCEPT !.source = 1]}
                       \cup {[v EXCEPT !.group = g] : g \in 0..3}}
             \cup {[d EXCEPT !.variants = without(@, i)], relabel(d, i)}
             \cup (IF resolved(d, d.variants[i]) THEN {rehash(d, i)} ELSE {}) : i \in DOMAIN d.variants}

rehashFamily(d, i) == [d EXCEPT !.families[i].id = familyID(d, d.families[i])]
rehashEnvironment(d) ==
    LET id == environmentID(d.environments[1])
    IN  [d EXCEPT !.environments[1].id = id,
                  !.variants = [k \in DOMAIN @ |->
                     [@[k] EXCEPT !.environment = IF @ = d.environments[1].id THEN id ELSE @]]]

changedHeaders(d) ==
    UNION {{[d EXCEPT !.families[i].deps = <<>>], [d EXCEPT !.families[i].labels = <<1, 2>>],
            [d EXCEPT !.families[i].labels = <<>>], [d EXCEPT !.families[i].name = "all"],
            [d EXCEPT !.families = without(@, i)], 
            [d EXCEPT !.families[i].deps = <<d.families[Len(d.families)].id>>]}
             \cup {[d EXCEPT !.families[i].group = g] : g \in 0..2}
             \cup (IF hashable(d, d.families[i].group) THEN {rehashFamily(d, i)} ELSE {}) : i \in DOMAIN d.families}
      \cup (IF d.environments = <<>> THEN {}
            ELSE {[d EXCEPT !.environments[1].families = swapped(@)],
                  [d EXCEPT !.environments[1].families = SubSeq(@, 1, 1)],
                  [d EXCEPT !.environments[1].families =
                     [i \in DOMAIN @ |-> d.families[IF i \in DOMAIN d.families THEN i ELSE 1].id]],
                  [d EXCEPT !.environments = <<>>], rehashEnvironment(d)})
      \cup {[d EXCEPT !.payloads[1].content = "other"],
            [d EXCEPT !.payloads[1] = [id |-> payloadID([content |-> "other"]), content |-> "other"]],
            [d EXCEPT !.payloads = Append(@, d.payloads[1])]}

changedIndex(d) ==
    {[d EXCEPT !.files[i].digest = x] : i \in DOMAIN d.files, x \in {bogus, digest(2)}}
      \cup {[d EXCEPT !.files = swapped(@)], [d EXCEPT !.groups = swapped(@)],
            [d EXCEPT !.files = Append(@, [path |-> 3, digest |-> digest(1)])],
            [d EXCEPT !.groups = Append(@, {3})], [d EXCEPT !.groups[1] = {1, 2}]}

changedConfigs(d) ==
    {[d EXCEPT !.configs[1].name = "c2"], [d EXCEPT !.configs[1].objects = d.configs[2].objects],
     [d EXCEPT !.configs[2].modules = <<>>], [d EXCEPT !.schema = TRUE]}

MCEdits(d) == IF d.families = <<>> THEN {} ELSE
    changedVariants(d) \cup changedHeaders(d) \cup changedIndex(d) \cup changedConfigs(d)

MCWritten == {base(FALSE, "x")}
=============================================================================
