-------------------------- MODULE KconfigSnapshot --------------------------
(***************************************************************************)
(* The life of a configuration between the repository rule and the build   *)
(* actions (internal/linux_image_repository.bzl, internal/linux_objects.bzl *)
(* and writeResolvedConfig of internal/cmd/kconfig_parse/main.go).         *)
(*                                                                         *)
(*   repository  the user's fragment is resolved, and the result is kept   *)
(*               as a snapshot, with the user's deliberate unsets;         *)
(*   graph       the content graph is generated from the snapshot, which   *)
(*               is resolved again;                                        *)
(*   action      a build action resolves the snapshot once more, in a tree *)
(*               whose Rust toolchain facts come from the rustc that Bazel *)
(*               selected, and, for a Rust kernel, insists that nothing    *)
(*               else changed.                                             *)
(*                                                                         *)
(* Each phase is a complete run of the resolver.                           *)
(***************************************************************************)
EXTENDS KconfigResolver

CONSTANT ActionTrees(_)   \* ActionTrees(id): the trees an action may see

VARIABLES
    stage,             \* "repository", "graph", "action" or "finished"
    userConfig,        \* the configuration the user gave
    repoResolver,      \* the resolver as the repository rule left it
    generatedConfig,   \* the generated configs/NAME.config
    graphResolver,     \* the resolver as the content graph was generated
    actionVerdict      \* "none", "error", "unchecked", "accepted" or "rejected"

snapVars == <<stage, userConfig, repoResolver, generatedConfig, graphResolver, actionVerdict>>
allVars == <<vars, snapVars>>

(* The lines of the resolved .config: what is written and not off or empty. *)
writeResolvedConfigOutputs(r) ==
    LET tris == {s \in DOMAIN r.effective : r.written[s] /\ r.effective[s] # triN}
        scalars == {s \in DOMAIN r.values : r.written[s] /\ (Tree(r).type[s] = "string" \/ r.values[s] # Str(""))}
    IN [s \in tris \cup scalars |-> IF s \in tris THEN triName(r.effective[s]) ELSE r.values[s]]

(* What the repository rule keeps: the lines, then the unsets of the user's  *)
(* fragment, without the values that belong to the Rust toolchain.           *)
resolveConfig(r, c) ==
    LET lines == writeResolvedConfigOutputs(r)
        unset == {s \in DOMAIN c : c[s] = Str("n")}
    IN [s \in (DOMAIN lines \cup unset) \ Tree(r).rust |-> IF s \in unset THEN Str("n") ELSE lines[s]]

(* A symbol's value as the snapshot check reads it. *)
Value(r, s) == IF s \in DOMAIN r.effective THEN triName(r.effective[s]) ELSE r.values[s]

(* Fault: symbols that are new to the snapshot go unnoticed. *)
validateExpectedOnly(expected, r) == \A s \in DOMAIN expected \ Tree(r).rust : Value(r, s) = expected[s]

ValidateRustToolchainEquivalence(expected, r) ==
    /\ \A s \in DOMAIN expected \ Tree(r).rust : Value(r, s) = expected[s]
    /\ \A s \in Tree(r).symbols \ Tree(r).rust :
          r.written[s] /\ Value(r, s) \notin {Str(""), Str("n")} => s \in DOMAIN expected

(* Start the resolver on a configuration. *)
Start(id, c) ==
    /\ resolver' = NewResolver(id, c, resolver.allNoConfig)
    /\ sweep' = 0 /\ cursor' = 1 /\ changed' = FALSE /\ status' = "resolving"

SnapInit ==
    /\ \E id \in DOMAIN Trees, allNo \in AllNoModes : \E c \in RawConfigs(Trees[id]) :
          userConfig = c /\ resolver = NewResolver(id, c, allNo)
    /\ sweep = 0 /\ cursor = 1 /\ changed = FALSE /\ status = "resolving"
    /\ stage = "repository"
    /\ repoResolver = <<>>
    /\ generatedConfig = <<>>
    /\ graphResolver = <<>>
    /\ actionVerdict = "none"

Resolve == stage # "finished" /\ Next /\ UNCHANGED snapVars

(* A resolution that does not converge fails the repository rule or action. *)
Abort ==
    /\ stage # "finished" /\ status = "failed"
    /\ stage' = "finished" /\ actionVerdict' = "error"
    /\ UNCHANGED <<vars, userConfig, repoResolver, generatedConfig, graphResolver>>

WriteSnapshot ==
    /\ stage = "repository" /\ status = "done"
    /\ repoResolver' = resolver
    /\ generatedConfig' = resolveConfig(resolver, userConfig)
    /\ Start(resolver.tree, generatedConfig')
    /\ stage' = "graph"
    /\ UNCHANGED <<userConfig, graphResolver, actionVerdict>>

GenerateGraph ==
    /\ stage = "graph" /\ status = "done"
    /\ graphResolver' = resolver
    /\ \E id \in ActionTrees(resolver.tree) : Start(id, generatedConfig)
    /\ stage' = "action"
    /\ UNCHANGED <<userConfig, repoResolver, generatedConfig, actionVerdict>>

(* The check runs only for a kernel with CONFIG_RUST=y in its snapshot. *)
RustEnabled == "RUST" \in DOMAIN generatedConfig /\ generatedConfig["RUST"] = Str("y")

FinishAction ==
    /\ stage = "action" /\ status = "done"
    /\ stage' = "finished"
    /\ actionVerdict' =
          IF ~RustEnabled THEN "unchecked"
          ELSE IF ValidateRustToolchainEquivalence(generatedConfig, resolver) THEN "accepted"
          ELSE "rejected"
    /\ UNCHANGED <<vars, userConfig, repoResolver, generatedConfig, graphResolver>>

SnapNext == Resolve \/ Abort \/ WriteSnapshot \/ GenerateGraph \/ FinishAction

SnapSpec == SnapInit /\ [][SnapNext]_allVars

(* Each phase is a program that runs until it is finished. *)
FairSnapSpec == SnapSpec /\ ([]<>(stage = "finished") \/ []<><<SnapNext>>_allVars)

-----------------------------------------------------------------------------
(***************************************************************************)
(* Correctness.                                                            *)
(***************************************************************************)
(* Two resolvers agree on everything but the Rust toolchain's own values.    *)
SameStructure(p, q) ==
    \A s \in Tree(p).symbols \ Tree(p).rust :
        Value(p, s) = Value(q, s) /\ p.written[s] = q.written[s]

(* The unsets of the user's fragment that did not take effect, because the    *)
(* symbol is selected or its prompt is hidden.                               *)
OverriddenUnsets ==
    {s \in DOMAIN userConfig \cap DOMAIN repoResolver.effective :
        userConfig[s] = Str("n") /\ repoResolver.effective[s] # triN}

(* Symbols that a default or an imply raised to y although their prompt is    *)
(* visible only as m: read back as a user's value, the y is capped to m.     *)
AbovePrompt ==
    {s \in DOMAIN repoResolver.effective :
        LET visible == promptVisibility(repoResolver, s)
        IN /\ visible # triN
           /\ repoResolver.effective[s] > maxResolvedTri(visible,
                 evalDepExprDefault(repoResolver, Tree(repoResolver).revdep[s], triN))}

(* The content graph is generated from what the repository rule resolved:    *)
(* resolving the snapshot reproduces every value, deliberate unsets of       *)
(* default-y symbols included, unless an unset was overridden or a value     *)
(* exceeds its prompt.                                                       *)
SnapshotReproduces ==
    stage = "action" /\ OverriddenUnsets = {} /\ AbovePrompt = {} => SameStructure(graphResolver, repoResolver)

(* An accepted action builds the configuration the graph was generated from: *)
(* a rustc that changes any structural value is rejected.                    *)
AcceptedMeansSame == actionVerdict = "accepted" => SameStructure(resolver, graphResolver)

(* From phase to phase the configuration stays what it was.                  *)
PhasesAgree == SnapshotReproduces /\ AcceptedMeansSame

(* Every phase ends: the sweeps of the resolver are bounded, so even a source *)
(* that contradicts itself gives a result or an error, and never a build that *)
(* hangs.                                                                    *)
PipelineEnds == <>(stage = "finished")
=============================================================================
