---------------------------- MODULE ActionGroups ----------------------------
(***************************************************************************)
(* What the BUILD files make of a batch's metadata (compact.go):           *)
(* deriveActionGroups groups the variants that share a recipe and the set  *)
(* of configurations that reach them, actionGraphPlan splits each group    *)
(* into a grouped rule and a legacy island, objectBuildFile and            *)
(* imageBuildFile emit the rules, and linux_object_groups.bzl links and    *)
(* projects them, failing where they do not fit together.                  *)
(*                                                                         *)
(* The content IDs that order the groups and name the rules are left out:  *)
(* a group is named by its recipe and its set of configurations.           *)
(***************************************************************************)
EXTENDS CompactBatch

CONSTANTS Preincludes(_)   \* the files every action of a language must read

(***************************************************************************)
(* Action groups.                                                          *)
(***************************************************************************)
compactActionKind(v) ==
    IF v.members = <<>> THEN "compile"
    ELSE IF Facts[v.fields.object].nvhe THEN "arm64_nvhe" ELSE "composite"

\* Fault: the recipe says nothing of the flags.
recipeWithoutFlags(v) ==
    [kind |-> compactActionKind(v), language |-> v.fields.language, mode |-> v.fields.mode,
     modname |-> v.fields.modname, moduleRoot |-> v.fields.moduleRoot,
     objtool |-> v.fields.objtool, symversions |-> v.fields.symversions]

compactConcreteRecipe(v) ==
    [kind |-> compactActionKind(v), language |-> v.fields.language, mode |-> v.fields.mode,
     modname |-> v.fields.modname, moduleRoot |-> v.fields.moduleRoot,
     flags |-> v.fields.flags, remove |-> v.fields.remove,
     objtool |-> v.fields.objtool, symversions |-> v.fields.symversions]

targetsOf(config) == ToSet(config.targets) \cup ToSet(config.modules)

\* Everything below a set of targets, through dependencies and members.
closureOf(targets) ==
    visitedFrom([t \in DOMAIN variants |-> referenced(variants[t])], targets)

reachable(config) == closureOf(targetsOf(config))

\* "reaches unknown object target"
reachesUnknown == \E i \in DOMAIN configs : ~(reachable(configs[i]) \subseteq DOMAIN variants)

groupsOf(keys) ==
    {[recipe |-> key[1], configs |-> key[2], targets |-> {t \in DOMAIN keys : keys[t] = key}] :
       key \in {keys[t] : t \in DOMAIN keys}}

\* A variant no configuration reaches belongs to no group.
deriveActionGroups ==
    LET reach == [i \in DOMAIN configs |-> reachable(configs[i])]
        names(t) == {configs[i].name : i \in {i \in DOMAIN configs : t \in reach[i]}}
    IN  groupsOf([t \in UNION {reach[i] : i \in DOMAIN configs} |->
                    <<compactConcreteRecipe(variants[t]), names(t)>>])

(***************************************************************************)
(* The plan.                                                               *)
(***************************************************************************)
LtoOn(v) == <<LtoSymbol, "y">> \in v.fields.fragment

\* groupedCompileFallbackReason: why a grouped rule cannot compile an object.
groupedCompileFallback(v) ==
    \/ v.deps # {}
    \/ Facts[v.fields.object].special
    \/ v.fields.remove # <<>>
    \/ v.fields.language = ""
    \/ /\ v.fields.mode = "m" /\ v.fields.language = "c"
       /\ v.fields.moduleRoot \/ v.fields.objtool.force
       /\ LtoOn(v)
    \/ ~(Preincludes(v.fields.language) \subseteq {f[1] : f \in v.fields.inputs})

\* Legacy rules name each other by target, so the islands are closed.
legacyTargets(groups) ==
    LET active == UNION {g.targets : g \in groups}
        own(v) == \/ compactActionKind(v) = "compile" /\ groupedCompileFallback(v)
                  \/ compactActionKind(v) = "arm64_nvhe"
    IN  closureOf({t \in active : own(variants[t])})

ruleName(g) == [recipe |-> g.recipe, configs |-> g.configs, legacy |-> FALSE]
legacyName(g) == [ruleName(g) EXCEPT !.legacy = TRUE]

\* actionGraphPlan: each group is emitted as a grouped rule, an import of its
\* legacy targets, or both.
split(groups, legacy) ==
    {[group |-> g, grouped |-> g.targets \ legacy, legacy |-> g.targets \cap legacy] : g \in groups}
plannedFor(groups) == split(groups, legacyTargets(groups))
emissions == plannedFor(deriveActionGroups)

legacyIn(plan) == UNION {e.legacy : e \in plan}

\* groupNameByTarget; an unowned member is an error of objectBuildFile.
groupNames(plan, target) ==
    {ruleName(e.group) : e \in {e \in plan : target \in e.grouped}}
      \cup {legacyName(e.group) : e \in {e \in plan : target \in e.legacy}}

(***************************************************************************)
(* The rules.                                                              *)
(***************************************************************************)
\* "cannot emit source-backed linux_object", "references unowned member".
objectBuildFileRefused(plan) ==
    \/ \E t \in legacyIn(plan) : variants[t].members = <<>> /\ variants[t].fields.source = ""
    \/ \E e \in plan : \E t \in e.grouped : \E m \in ToSet(variants[t].members) :
          groupNames(plan, m) = {}

\* The attributes of a grouped rule are those of the first of its targets.
groupedRule(plan, e, first) ==
    [name |-> ruleName(e.group), mode |-> variants[first].fields.mode,
     configs |-> e.group.configs, kind |-> compactActionKind(variants[first]),
     attrs |-> [language |-> variants[first].fields.language,
                flags |-> variants[first].fields.flags,
                moduleRoot |-> variants[first].fields.moduleRoot,
                modname |-> variants[first].fields.modname,
                objtool |-> variants[first].fields.objtool,
                symversions |-> variants[first].fields.symversions],
     objects |-> e.grouped,
     groups |-> IF compactActionKind(variants[first]) = "compile" THEN {}
                ELSE UNION {groupNames(plan, m) :
                              m \in UNION {ToSet(variants[t].members) : t \in e.grouped}}
                       \ {ruleName(e.group)}]

importRule(e, first) ==
    [name |-> legacyName(e.group), mode |-> variants[first].fields.mode,
     configs |-> e.group.configs, objects |-> e.legacy]

\* Only targets of a group with something to emit are asked for.
someTarget(targets) == CHOOSE t \in targets : TRUE

groupedRules(plan) ==
    {groupedRule(plan, e, someTarget(e.grouped)) : e \in {e \in plan : e.grouped # {}}}
importRules(plan) ==
    {importRule(e, someTarget(e.legacy)) : e \in {e \in plan : e.legacy # {}}}

\* imageBuildFile, with the base configuration the first of the batch: a
\* configuration with the targets of an earlier one is an alias of its image.
sameShape(i, j) ==
    configs[i].targets = configs[j].targets /\ configs[i].modules = configs[j].modules

imageOf(i) == CHOOSE j \in DOMAIN configs :
                 sameShape(i, j) /\ \A k \in DOMAIN configs : sameShape(i, k) => j <= k

\* Fault: the imports of legacy objects are forgotten.
imageGroupedOnly(plan, i) ==
    {ruleName(e.group) : e \in {e \in plan : e.grouped # {} /\ configs[i].name \in e.group.configs}}

imageGroups(plan, i) ==
    LET mine == {e \in plan : configs[i].name \in e.group.configs}
    IN  {ruleName(e.group) : e \in {e \in mine : e.grouped # {}}}
          \cup {legacyName(e.group) : e \in {e \in mine : e.legacy # {}}}

(***************************************************************************)
(* linux_object_groups.bzl.                                                *)
(***************************************************************************)
\* _dependency_objects of a composite group.
memberGroupsFit(rules, r) ==
    /\ \A name \in r.groups :
         \E g \in rules :
           /\ g.name = name
           /\ r.configs \subseteq g.configs
           /\ g.mode = r.mode
    /\ \A g, h \in {g \in rules : g.name \in r.groups} : g.objects \cap h.objects # {} => g = h

\* The composites of a group are linked in rounds, each of what is available.
compositesLink(rules, r) ==
    LET given == UNION {g.objects : g \in {g \in rules : g.name \in r.groups}}
        f[n \in 0..Cardinality(r.objects)] ==
          IF n = 0 THEN given
          ELSE LET seen == f[n - 1]
               IN  seen \cup {t \in r.objects : ToSet(variants[t].members) \subseteq seen}
    IN  r.kind = "composite" => r.objects \subseteq f[Cardinality(r.objects)]

\* linux_grouped_compact_image.
imageFits(rules, names, i) ==
    LET groups == {g \in rules : g.name \in names}
        of(t) == {g \in groups : t \in g.objects}
    IN  /\ \A g \in groups : configs[i].name \in g.configs
        /\ \A g, h \in groups : g.objects \cap h.objects # {} => g.name = h.name
        /\ \A t \in ToSet(configs[i].targets) : \E g \in of(t) : g.mode = "y"
        /\ \A t \in ToSet(configs[i].modules) : \E g \in of(t) : g.mode = "m"
        /\ configs[i].targets # <<>>

(***************************************************************************)
(* Properties.                                                             *)
(***************************************************************************)
\* What is emitted when nothing is refused.
built ==
    IF phase = "done" /\ ~reachesUnknown THEN {plan \in {emissions} : ~objectBuildFileRefused(plan)}
    ELSE {}

\* Every variant an image or a module reaches is built by one rule exactly, and
\* what nothing reaches by none: no action is duplicated for a configuration and
\* none is missing from the BUILD file.
OneRuleEach ==
    \A plan \in built : \A needed \in {UNION {reachable(configs[i]) : i \in DOMAIN configs}} :
      \A t \in DOMAIN variants :
        Cardinality({b \in plan \X {"grouped", "legacy"} : t \in b[1][b[2]]})
          = IF t \in needed THEN 1 ELSE 0

\* A legacy rule names its dependencies and members by their targets, which only
\* legacy rules provide; the labels it would otherwise use do not exist.
LegacyLabelsExist ==
    \A plan \in built : \A t \in legacyIn(plan) : referenced(variants[t]) \subseteq legacyIn(plan)

\* A grouped rule compiles each of its objects as the object's own rule would:
\* it has one recipe for all of them, and none that needs what a grouped rule
\* has no attribute for.
GroupedBuildsTheSame ==
    \A plan \in built : \A r \in groupedRules(plan) : \A t \in r.objects :
      LET v == variants[t]
      IN  /\ r.kind = compactActionKind(v) /\ r.mode = v.fields.mode
          /\ r.attrs = [language |-> v.fields.language, flags |-> v.fields.flags,
                        moduleRoot |-> v.fields.moduleRoot, modname |-> v.fields.modname,
                        objtool |-> v.fields.objtool, symversions |-> v.fields.symversions]
          /\ v.fields.remove = <<>> /\ v.deps = {}
          /\ r.kind = "compile" => \A f \in Preincludes(v.fields.language) :
                                      f \in {g[1] : g \in v.fields.inputs}

\* Bazel can load what is emitted: no rule of the action groups or of an image
\* fails, whatever the configurations share.
provided(rules) ==
    {[name |-> r.name, mode |-> r.mode, configs |-> r.configs, objects |-> r.objects] : r \in rules}

loads(plan, grouped, imported, all) ==
    /\ \A r \in grouped : memberGroupsFit(all, r) /\ compositesLink(all, r)
    /\ \A r \in imported : \A t \in r.objects : variants[t].fields.mode = r.mode
    /\ \A i \in DOMAIN configs : imageOf(i) = i => imageFits(all, imageGroups(plan, i), i)

BazelAccepts ==
    \A plan \in built :
      loads(plan, groupedRules(plan), importRules(plan),
            provided(groupedRules(plan) \cup importRules(plan)))

\* An image that is an alias of another is the image its configuration would
\* have had: the same objects in the same order, each built by a rule that the
\* configuration reaches.
AliasesAreTheSame ==
    \A plan \in built : \A i \in DOMAIN configs : \A g \in imageGroups(plan, imageOf(i)) :
      configs[i].name \in g.configs

\* Every variant is built once, and as it would be on its own.
BuiltOnceAsItself == OneRuleEach /\ GroupedBuildsTheSame

\* What is emitted loads, refers only to what exists, and gives every
\* configuration its own image; a batch that was accepted reaches only what it has.
RulesFitTogether ==
    /\ phase = "done" => ~reachesUnknown
    /\ LegacyLabelsExist /\ BazelAccepts /\ AliasesAreTheSame
=============================================================================
