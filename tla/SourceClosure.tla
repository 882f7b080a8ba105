---------------------------- MODULE SourceClosure ----------------------------
(***************************************************************************)
(* The source scanner of config_footprint.go: what one compile action may  *)
(* read.  The scanner follows the includes of a source through the files   *)
(* that may be active under a configuration, without running a             *)
(* preprocessor: a condition is true, false or unknown, and the branches   *)
(* of an unknown one are all followed.                                     *)
(*                                                                         *)
(* A path is a sequence of names.  A symbol is a pair: <<"config", X>> is  *)
(* CONFIG_X, <<"module", X>> is CONFIG_X_MODULE and <<"macro", X>> is any  *)
(* other.  A condition is a tuple that starts with its operator; one that  *)
(* the scanner does not understand is <<"other">>.  A line is a record     *)
(*   k     "text", "define", "undef", "if", "elif", "else", "endif",       *)
(*         "include" or "incbin"; #ifdef X is #if defined(X)               *)
(*   refs  the CONFIG symbols of a text, a definition or an undefinition   *)
(*   sym   the symbol a definition, an undefinition or an include names    *)
(*   cond  the condition of an if or elif                                  *)
(*   kind  "quoted", "angled", "next" or "macro", path what it includes    *)
(* and the comments and the continuations of lines are gone.               *)
(***************************************************************************)
EXTENDS Integers, Sequences, FiniteSets, SequencesExt, TLC

CONSTANTS
    Scanners,      \* what a scanner is created for: tree, text, roots, requests
    MaxRequests,   \* bound: the closures asked of one scanner
    SourceNames,   \* the names that end in .c, .S, .s or .inc
    Assembly,      \* the names that end in .S or .s
    CompiledNames, \* the names that end in .c, .S or .s
    CompilerNames, \* the headers of compilerProvidedInclude
    SpecialGenerated, \* the paths generatedHeaderInclude lists one by one
    FdtSources,    \* the paths lib/fdt*.c
    Terms          \* the conditions of the files, with their operands

isSequence(s) == s \in Seq(ToSet(s))

RequestFields ==
    {"source", "dir", "flags", "config", "assembly", "profile", "provided"}

\* What the resolver of configurations guarantees: every symbol that is y or m
\* is written (config.go:189, 371), and what a value quotes is read off the
\* value (configIncludePath).
resolvedConfigs(configs) ==
    /\ \A c \in configs : \A x \in DOMAIN c.value \ c.written : c.value[x] \notin {"y", "m"}
    /\ \A c, d \in configs : \A x \in c.written \cap d.written :
         /\ x \in DOMAIN c.value /\ x \in DOMAIN d.value
         /\ c.value[x] = d.value[x] =>
              /\ x \in DOMAIN c.path <=> x \in DOMAIN d.path
              /\ x \in DOMAIN c.path => c.path[x] = d.path[x]

ASSUME ScannersAssumption ==
    \A t \in Scanners :
      /\ IsFiniteSet(DOMAIN t.tree) /\ isSequence(t.order)
      /\ \A path \in DOMAIN t.tree : isSequence(t.text[t.tree[path]])
      /\ \A q \in t.requests : DOMAIN q = RequestFields
      /\ resolvedConfigs({q.config : q \in t.requests})

VARIABLES
    scanner,  \* the scanner: its tree, its roots, the requests it may get
    files,    \* s.files: scanned files
    closures, \* s.closure and s.closureErrs
    current,  \* the request in progress
    answers   \* the requests answered so far, with their answers

vars == <<scanner, files, closures, current, answers>>

Failed == [failed |-> TRUE]
Idle   == [idle |-> TRUE]

(***************************************************************************)
(* Paths and include search.                                               *)
(***************************************************************************)
\* filepath.Clean.
clean(path) ==
    FoldLeft(LAMBDA acc, name :
               IF name = ".." /\ acc # <<>> /\ Last(acc) # ".." THEN Front(acc)
               ELSE Append(acc, name), <<>>, path)

inTree(path) == path # <<>> /\ Head(path) # ".."

absForTreePath(t, path) == \E file \in {clean(path)} : inTree(file) /\ file \in DOMAIN t.tree

addRoot(roots, root) == IF root \in ToSet(roots) THEN roots ELSE Append(roots, root)

flagPath(base, path) ==
    CASE base = "absolute"   -> [class |-> "external", root |-> <<>>]
      [] base = "unresolved" -> [class |-> "failed", root |-> <<>>]
      [] path # <<>> /\ Head(path) = ".." -> [class |-> "failed", root |-> <<>>]
      [] OTHER -> [class |-> IF base = "obj" THEN "object" ELSE "tree", root |-> path]

\* The source tree directory a flag names; the object tree and absolute paths
\* are not searched, and a directory that cannot be told is refused.
resolveSourceFlagPath(flag, source) ==
    flagPath(flag.base, clean((IF flag.base \in {"src", "obj"} THEN Front(source) ELSE <<>>)
                                \o flag.path))

Searched == [iquote |-> "quote", isystem |-> "system", idirafter |-> "after",
             I |-> "include"]

\* The directories and the symbols of a command line, later flags after or
\* instead of earlier ones.
sourceIncludeSearchFromFlags(flags, source) ==
    LET under(search, opt, at) ==
          CASE at.class = "failed" -> Failed
            [] at.class = "tree" -> [search EXCEPT ![Searched[opt]] = addRoot(@, at.root)]
            [] OTHER -> search
        step(search, flag) ==
          IF search = Failed THEN Failed
          ELSE CASE flag.opt \in {"D", "U"} ->
                      [search EXCEPT !.predefined = (flag.sym :> (flag.opt = "D")) @@ @]
                 [] flag.opt = "unsupported" -> Failed
                 [] flag.opt \in {"include", "imacros"} \/ flag.base = "compiler" -> search
                 [] OTHER -> under(search, flag.opt, resolveSourceFlagPath(flag, source))
    IN FoldLeft(step, [quote |-> <<>>, include |-> <<>>, system |-> <<>>,
                       after |-> <<>>, predefined |-> <<>>], flags)

\* The directory of the source and the architecture's
\* roots come before the directories of the flags.
beforeRoots(search, first) ==
    IF search = Failed THEN Failed ELSE [search EXCEPT !.include = FoldLeft(addRoot, <<>>, first \o @)]

actionIncludeSearch(t, source, flags) ==
    beforeRoots(sourceIncludeSearchFromFlags(flags, source), <<Front(source)>> \o t.roots)

searchRoots(search, kind) ==
    (IF kind \in {"quoted", "next"} THEN search.quote ELSE <<>>)
      \o search.include \o search.system \o search.after

\* The first root that include_next searches: the one after the longest root
\* the including file is in.
includeNextRootIndex(from, roots) ==
    LET inside == {i \in 1..Len(roots) : IsPrefix(roots[i], from)}
    IN IF inside = {} THEN 1
       ELSE 1 + CHOOSE i \in inside : \A j \in inside :
                  \/ Len(roots[j]) < Len(roots[i])
                  \/ Len(roots[j]) = Len(roots[i]) /\ i <= j

\* The source of a generated asm wrapper, <<>> of another header.
asmGeneric(inc) ==
    CASE Len(inc) > 1 /\ inc[1] = "asm" -> <<"asm-generic">> \o Tail(inc)
      [] Len(inc) > 2 /\ inc[1] = "uapi" /\ inc[2] = "asm" ->
           <<"uapi", "asm-generic">> \o Tail(Tail(inc))
      [] OTHER -> <<>>

includeCandidates(inc) ==
    IF asmGeneric(inc) = <<>> THEN <<inc>> ELSE <<inc, asmGeneric(inc)>>

\* The file that a path names, <<>> when there is none.
fileAt(t, path) == IF absForTreePath(t, path) THEN clean(path) ELSE <<>>

firstFile(t, tried) ==
    LET present == {i \in DOMAIN tried : absForTreePath(t, tried[i])}
    IN IF present = {} THEN <<>>
       ELSE fileAt(t, tried[CHOOSE i \in present : \A j \in present : i <= j])

\* The first file in compiler search order, <<>> when there is none.
resolveInclude(t, from, inc, kind, search) ==
    LET used(roots) == IF kind = "next"
                       THEN SubSeq(roots, includeNextRootIndex(from, roots), Len(roots))
                       ELSE roots
        local == IF kind = "quoted" THEN <<Front(from) \o inc>> ELSE <<>>
        under(roots, candidate) == [i \in DOMAIN roots |-> roots[i] \o candidate]
        tried(roots) == FoldLeft(LAMBDA acc, c : acc \o under(roots, c), local,
                                 includeCandidates(inc))
    IN firstFile(t, tried(used(searchRoots(search, kind))))

includeUsesGeneratedAsmWrapper(inc, resolved) ==
    asmGeneric(inc) # <<>> /\ IsSuffix(asmGeneric(inc), resolved)

generatedHeaderInclude(inc) ==
    \/ Len(inc) > 1 /\ inc[1] \in {"generated", "asm"}
    \/ Len(inc) > 2 /\ inc[1] = "uapi" /\ inc[2] \in {"generated", "asm"}
    \/ inc \in SpecialGenerated

compilerProvidedInclude(inc) == Len(inc) = 1 /\ inc[1] \in CompilerNames

(***************************************************************************)
(* Conditions.  A configuration is a record of the values of its symbols,  *)
(* the symbols that are written, and the paths that quoted values spell.   *)
(***************************************************************************)
not3(a) == CASE a = "true" -> "false" [] a = "false" -> "true" [] OTHER -> "unknown"
or3(a, b) == IF "true" \in {a, b} THEN "true"
             ELSE IF "unknown" \in {a, b} THEN "unknown" ELSE "false"
and3(a, b) == not3(or3(not3(a), not3(b)))
truth(b) == IF b THEN "true" ELSE "false"

configValue(config, x) == IF x \in DOMAIN config.value THEN config.value[x] ELSE "n"

\* Is the symbol defined?  Nothing is known of a macro of no list.
preprocessorSymbolDefined(symbol, c) ==
    LET x == symbol[2]
        value == configValue(c.config, x)
    IN CASE symbol \in DOMAIN c.predefined -> truth(c.predefined[symbol])
         [] symbol[1] = "module" -> truth(x \in c.config.written /\ value = "m")
         [] symbol[1] = "config" ->
              truth(x \in c.config.written /\ value \notin {"n", "m"})
         [] OTHER -> "unknown"

evaluateKernelConfigPredicate(predicate, symbol, c) ==
    LET value == configValue(c.config, symbol[2])
        MODULE_ == <<"macro", "MODULE">>
    IN CASE symbol[1] # "config" -> "unknown"
         [] predicate = "IS_BUILTIN" -> truth(value = "y")
         [] predicate = "IS_MODULE"  -> truth(value = "m")
         [] predicate = "IS_ENABLED" -> truth(value \in {"y", "m"})
         [] predicate = "IS_REACHABLE" ->
              IF MODULE_ \notin DOMAIN c.predefined THEN "unknown"
              ELSE truth(value = "y" \/ (value = "m" /\ c.predefined[MODULE_]))

\* __has_include: a header that is not in the tree may still be generated.
hasInclude(inc, kind, c) ==
    CASE resolveInclude(c.tree, c.path, inc, kind, c.search) # <<>> -> "true"
      [] inc = <<"cet.h">> -> "true"
      [] generatedHeaderInclude(inc) \/ compilerProvidedInclude(inc) -> "unknown"
      [] OTHER -> "false"

\* What a condition without operands comes to.
atomValue(cond, c) ==
    CASE cond[1] = "int" -> truth(cond[2] # 0)
      [] cond[1] = "has" -> hasInclude(cond[2], cond[3], c)
      [] cond[1] \in {"IS_BUILTIN", "IS_MODULE", "IS_ENABLED", "IS_REACHABLE"} ->
           evaluateKernelConfigPredicate(cond[1], cond[2], c)
      [] cond[1] \in {"defined", "value"} -> preprocessorSymbolDefined(cond[2], c)
      [] OTHER -> "unknown"

conditionValue(cond, atoms) ==
    LET value[e \in Terms] ==
          CASE e[1] = "or"  -> or3(value[e[2]], value[e[3]])
            [] e[1] = "and" -> and3(value[e[2]], value[e[3]])
            [] e[1] = "not" -> not3(value[e[2]])
            [] OTHER -> atoms[e]
    IN value[cond]

evaluatePreprocessorBoolean(cond, c) == conditionValue(cond, [e \in Terms |-> atomValue(e, c)])

\* Fault: the operand of IS_ENABLED and the like is not taken for a reference.
condRefsPlain(cond) ==
    LET refs[e \in Terms] ==
          CASE e[1] \in {"or", "and"} -> refs[e[2]] \cup refs[e[3]]
            [] e[1] = "not" -> refs[e[2]]
            [] e[1] \in {"defined", "value"} -> {x \in {e[2]} : x[1] # "macro"}
            [] OTHER -> {}
    IN refs[cond]

\* The CONFIG symbols a condition spells.
condRefs(cond) ==
    LET refs[e \in Terms] ==
          CASE e[1] \in {"or", "and"} -> refs[e[2]] \cup refs[e[3]]
            [] e[1] = "not" -> refs[e[2]]
            [] e[1] \in {"int", "has", "other"} -> {}
            [] OTHER -> {x \in {e[2]} : x[1] # "macro"}
    IN refs[cond]

\* What the compiler is sure to define, and what it is sure not to.
sourcePredefinedSymbols ==
    (<<"macro", "__KERNEL__">> :> TRUE) @@ (<<"macro", "MODULE">> :> FALSE)
      @@ (<<"macro", "__GENKSYMS__">> :> FALSE)

sourceProfilePredefinedSymbols(profile) ==
    CASE profile = "kernel-module" -> <<"macro", "MODULE">> :> TRUE
      [] profile = "kernel-genksyms" -> <<"macro", "__GENKSYMS__">> :> TRUE
      [] profile = "kernel-module-genksyms" ->
           (<<"macro", "MODULE">> :> TRUE) @@ (<<"macro", "__GENKSYMS__">> :> TRUE)
      [] profile = "arm64-vdso" -> <<"macro", "BUILD_VDSO">> :> TRUE
      [] OTHER -> <<>>

\* Later lists replace earlier ones.
predefinedSymbols(search, config, assembly, profile) ==
    LET fromConfig(x) == x \in config.written /\ configValue(config, x) = "y"
    IN (<<"macro", "__ASSEMBLY__">> :> assembly)
         @@ (<<"macro", "RANDSTRUCT">> :> fromConfig("RANDSTRUCT"))
         @@ search.predefined
         @@ sourceProfilePredefinedSymbols(profile)
         @@ sourcePredefinedSymbols

(***************************************************************************)
(* One file.                                                               *)
(***************************************************************************)
\* CONFIG_X as an include operand: the path its value quotes.
configIncludePath(symbol, config) ==
    IF symbol[1] = "config" /\ symbol[2] \in config.written
         /\ symbol[2] \in DOMAIN config.path
    THEN config.path[symbol[2]] ELSE <<>>

includeDirective(line, config) ==
    LET path == IF line.kind = "macro" THEN configIncludePath(line.sym, config)
                ELSE line.path
    IN [kind |-> IF line.kind = "macro" THEN "quoted" ELSE line.kind,
        path |-> path, literal |-> path # <<>>,
        spelling |-> IF line.kind = "macro" THEN line.sym ELSE <<>>]

lineRefs(line) ==
    CASE line.k \in {"text", "define", "undef"} -> line.refs
      [] line.k \in {"if", "elif"} -> condRefs(line.cond)
      [] line.k = "include" /\ line.kind = "macro" -> {s \in {line.sym} : s[1] # "macro"}
      [] OTHER -> {}

\* The conditional at the top of the stack, replaced.
topFrame(st, frame) == [st.frames EXCEPT ![Len(st.frames)] = frame]

openConditional(st, line, value) ==
    [st EXCEPT !.frames = Append(@, [parent |-> st.active,
                                     taken |-> st.active /\ value = "true"]),
               !.refs = IF st.active THEN @ \cup lineRefs(line) ELSE @,
               !.active = @ /\ value # "false"]

elseIf(st, line, value) ==
    LET frame == Last(st.frames)
        reached == frame.parent /\ ~frame.taken
    IN [st EXCEPT !.refs = IF reached THEN @ \cup lineRefs(line) ELSE @,
                  !.active = reached /\ value # "false",
                  !.frames = topFrame(st, [frame EXCEPT
                               !.taken = @ \/ (reached /\ value = "true")])]

otherwise(st) ==
    LET frame == Last(st.frames)
    IN [st EXCEPT !.active = frame.parent /\ ~frame.taken,
                  !.frames = topFrame(st, [frame EXCEPT !.taken = frame.parent])]

closeConditional(st) ==
    [st EXCEPT !.active = Last(st.frames).parent, !.frames = Front(@)]

\* The macro that names an image the action is given: not a literal path.
VdsoPath == <<"__VDSO_PATH">>

incbinDirective(line) == [path |-> line.path, literal |-> line.path \notin {<<>>, VdsoPath}]

\* A line with what it comes to where it is active: the value of its condition,
\* and what it includes.  Only an assembly scan knows .incbin.
lineIn(line, c) ==
    [line     |-> line,
     value    |-> IF line.k \in {"if", "elif"} THEN evaluatePreprocessorBoolean(line.cond, c) ELSE "",
     includes |-> IF line.k = "include" THEN <<includeDirective(line, c.config)>> ELSE <<>>,
     incbins  |-> IF line.k = "incbin" /\ c.assembly THEN <<incbinDirective(line)>> ELSE <<>>]

activeLine(st, l) ==
    [st EXCEPT !.refs = @ \cup lineRefs(l.line),
               !.includes = @ \o l.includes, !.incbins = @ \o l.incbins]

scanLine(st, l) ==
    LET k == l.line.k
    IN CASE k \in {"elif", "else", "endif"} /\ st.frames = <<>> -> st
         [] k = "if"    -> openConditional(st, l.line, l.value)
         [] k = "elif"  -> elseIf(st, l.line, l.value)
         [] k = "else"  -> otherwise(st)
         [] k = "endif" -> closeConditional(st)
         [] OTHER -> IF st.active THEN activeLine(st, l) ELSE st

scanLines(lines) ==
    LET st[n \in 0..Len(lines)] ==
          IF n = 0
          THEN [active |-> TRUE, frames |-> <<>>, refs |-> {}, includes |-> <<>>, incbins |-> <<>>]
          ELSE scanLine(st[n - 1], lines[n])
    IN st[Len(lines)]

result(st) == [refs |-> st.refs, includes |-> st.includes, incbins |-> st.incbins]

\* scanFile, without its cache: what a file under a path of the tree may
\* include and which symbols it mentions where it may be active.
scan(t, path, search, q) ==
    LET c == [tree |-> t, path |-> path, search |-> search, config |-> q.config,
              assembly |-> q.assembly,
              predefined |-> predefinedSymbols(search, q.config, q.assembly, q.profile)]
        lines == t.text[t.tree[path]]
    IN result(scanLines([i \in 1..Len(lines) |-> lineIn(lines[i], c)]))

\* configID hashes the written values.
configID(config) == {<<x, configValue(config, x)>> : x \in config.written}

\* Fault: the file is looked up without the profile of the action.
fileKeyShared(t, path, search, q) ==
    <<t.tree[path], path, configID(q.config), q.assembly, search>>

fileKey(t, path, search, q) ==
    <<t.tree[path], path, configID(q.config), q.assembly, q.profile, search>>

(***************************************************************************)
(* One closure.  An entry of the stack is a path and whether it is below   *)
(* a wrapper that defined LIBFDT_ENV_H.                                    *)
(***************************************************************************)
FdtDir == <<"scripts", "dtc", "libfdt">>

linuxLibfdtEnvironmentWrapper(path) ==
    path = <<"include", "linux", "libfdt.h">> \/ path \in FdtSources

modeledRecursiveTemplateInclude(path, inc) ==
    IsPrefix(<<"include", "trace">>, path) /\ inc.spelling = <<"macro", "TRACE_INCLUDE">>

\* What an include of a scanned file comes to: a file, a generated header,
\* something that needs no input, or nothing that is known.
classified(q, path, inc, at) ==
    CASE ~inc.literal /\ modeledRecursiveTemplateInclude(path, inc) ->
           [class |-> "skipped", path |-> <<>>]
      [] ~inc.literal -> [class |-> "missing", path |-> <<>>]
      [] at # <<>>    -> [class |-> "file", path |-> at]
      [] inc.path \in q.provided -> [class |-> "skipped", path |-> <<>>]
      [] generatedHeaderInclude(inc.path) -> [class |-> "generated", path |-> inc.path]
      [] compilerProvidedInclude(inc.path) -> [class |-> "skipped", path |-> <<>>]
      [] OTHER -> [class |-> "missing", path |-> <<>>]

included(t, q, search, path, inc) ==
    classified(q, path, inc, resolveInclude(t, path, inc.path, inc.kind, search))

\* The source that includes __VDSO_PATH, and the image of each source it is
\* compiled for.
VdsoSource == <<"arch", "riscv", "kernel", "vdso", "vdso.S">>
VdsoImages ==
    (VdsoSource :> <<"arch", "riscv", "kernel", "vdso", "vdso.so">>)
    @@ (<<"arch", "riscv", "kernel", "compat_vdso", "compat_vdso.S">> :>
          <<"arch", "riscv", "kernel", "compat_vdso", "compat_vdso.so">>)

\* Fault: only the image for programs of the same width is known.
providedForOneImage(q, path, inc) ==
    /\ inc.path = VdsoPath /\ path = VdsoSource /\ q.source = VdsoSource
    /\ VdsoImages[q.source] \in q.provided

modeledProvidedNonliteralBinaryInclude(q, path, inc) ==
    /\ inc.path = VdsoPath
    /\ path = VdsoSource
    /\ q.source \in DOMAIN VdsoImages
    /\ VdsoImages[q.source] \in q.provided

\* What the operand of an .incbin comes to, found or not.
embedded(q, path, inc, at) ==
    CASE modeledProvidedNonliteralBinaryInclude(q, path, inc) ->
           [class |-> "skipped", path |-> <<>>]
      [] ~inc.literal -> [class |-> "missing", path |-> <<>>]
      [] at # <<>>    -> [class |-> "file", path |-> at]
      [] inc.path \in q.provided -> [class |-> "skipped", path |-> <<>>]
      [] OTHER -> [class |-> "missing", path |-> <<>>]

incbin(t, q, search, path, inc) ==
    embedded(q, path, inc, resolveInclude(t, path, inc.path, "quoted", search))

\* Is the include the environment header, whose body a wrapper above the entry
\* has made empty?
guardedEnvironment(entry, inc) ==
    /\ entry.guarded
    /\ IsPrefix(FdtDir, entry.path)
    /\ inc.path = <<"libfdt_env.h">>

\* The wrapper has included its own environment header by the i-th include.
environmentBy(entry, results, i) ==
    /\ linuxLibfdtEnvironmentWrapper(entry.path)
    /\ \E j \in 1..i : results[j].path = <<"include", "linux", "libfdt_env.h">>

\* The elements of a sequence at some of its positions.
nth(positions, k) == CHOOSE i \in positions : Cardinality({j \in positions : j <= i}) = k

elementsAt(s, positions) == [k \in 1..Cardinality(positions) |-> s[nth(positions, k)]]

\* What an entry adds to a closure, or that it fails: the files found of its
\* includes and its payloads bins.
contribution(entry, file, found, bins) ==
    LET of(class) == {i \in DOMAIN found : found[i].class = class}
        read == {i \in of("file") : ~guardedEnvironment(entry, file.includes[i])}
        wrapped(i) == includeUsesGeneratedAsmWrapper(file.includes[i].path, found[i].path)
        child(i) == [path |-> found[i].path,
                     guarded |-> /\ IsPrefix(FdtDir, found[i].path)
                                 /\ entry.guarded \/ environmentBy(entry, found, i)]
        paths(set) == {found[i].path : i \in set}
    IN [fails     |-> \E r \in ToSet(found) \cup ToSet(bins) : r.class = "missing",
        refs      |-> file.refs,
        generated |-> paths(of("generated"))
                        \cup {file.includes[i].path : i \in {i \in of("file") : wrapped(i)}},
        inputs    |-> {entry.path} \cup paths(of("file") \ read)
                        \cup {r.path : r \in {r \in ToSet(bins) : r.class = "file"}},
        sourceIncludes |-> {path \in paths(read) : Last(path) \in SourceNames},
        children  |-> elementsAt([i \in DOMAIN found |-> child(i)], read)]

visit(t, q, search, entry, file) ==
    contribution(entry, file,
                 [i \in DOMAIN file.includes |->
                    included(t, q, search, entry.path, file.includes[i])],
                 [i \in DOMAIN file.incbins |->
                    incbin(t, q, search, entry.path, file.incbins[i])])

\* Fault: an entry is forgotten once it was visited.
seenNothing(visited, entry) == visited

seen(visited, entry) == visited \cup {entry}

NoClosure == [refs |-> {}, sourceIncludes |-> {}, generated |-> {}, inputs |-> {}]

union(a, b) == [refs |-> a.refs \cup b.refs,
                sourceIncludes |-> a.sourceIncludes \cup b.sourceIncludes,
                generated |-> a.generated \cup b.generated,
                inputs |-> a.inputs \cup b.inputs]

\* The closure of one source, without caches and without an order.
visitOf(t, q, search, e) == visit(t, q, search, e, scan(t, e.path, search, q))

entriesOf(t) == [path : DOMAIN t.tree, guarded : BOOLEAN]

\* What an entry and those below it add, when visits holds what each adds: level
\* by level, until nothing is new.
firstLevel(root) == [entries |-> {}, adds |-> {}, new |-> {root}]

added(visits, entries) == {visits[e] : e \in entries}

childrenOf(adds) == UNION {ToSet(v.children) : v \in adds}

nextLevel(visits, level) ==
    LET known   == level.entries \cup level.new
        reached == added(visits, level.new)
    IN [entries |-> known, adds |-> level.adds \cup reached, new |-> childrenOf(reached) \ known]

walked(visits, root) ==
    LET level[n \in 0..Cardinality(DOMAIN visits)] ==
          IF n = 0 THEN firstLevel(root) ELSE nextLevel(visits, level[n - 1])
    IN level[Cardinality(DOMAIN visits)].adds

combined(visits, source) ==
    IF \E v \in visits : v.fails THEN Failed
    ELSE [refs      |-> UNION {v.refs : v \in visits},
          generated |-> UNION {v.generated : v \in visits},
          inputs    |-> UNION {v.inputs : v \in visits},
          sourceIncludes |-> (UNION {v.sourceIncludes : v \in visits}) \ {source}]

closureOf(t, q, search, source) ==
    IF search = Failed \/ ~absForTreePath(t, source) THEN Failed
    ELSE combined(walked([e \in entriesOf(t) |-> visitOf(t, q, search, e)],
                         [path |-> clean(source), guarded |-> FALSE]),
                  clean(source))

(***************************************************************************)
(* The scanner answers requests one at a time.  A request names a source,  *)
(* or a directory all of whose sources it stands for.                      *)
(***************************************************************************)
\* closureForSourceDirConfigProfile: the sources under a directory, in
\* textual order (t.order), searched in the architecture's roots only.
sourcesOf(t, q) ==
    IF q.dir = <<>> THEN <<q.source>>
    ELSE elementsAt(t.order, {i \in DOMAIN t.order : IsPrefix(q.dir, t.order[i])
                                               /\ Last(t.order[i]) \in CompiledNames})

searchOf(t, q) ==
    IF q.dir = <<>> THEN actionIncludeSearch(t, q.source, q.flags)
    ELSE [quote |-> <<>>, include |-> t.roots, system |-> <<>>, after |-> <<>>,
          predefined |-> <<>>]

assemblyOf(q, source) == IF q.dir = <<>> THEN q.assembly ELSE Last(source) \in Assembly

closureKey(t, q, search, source) ==
    <<source, search, configID(q.config), assemblyOf(q, source), q.profile, q.provided>>

Init ==
    /\ scanner \in Scanners
    /\ files = <<>>
    /\ closures = <<>>
    /\ current = Idle
    /\ answers = <<>>

\* A request starts; one whose flags cannot be searched is refused.
Start(q, search) ==
    IF search = Failed
    THEN /\ answers' = Append(answers, [request |-> q, answer |-> Failed])
         /\ UNCHANGED current
    ELSE /\ current' = [request |-> q, search |-> search,
                        rest |-> sourcesOf(scanner, q), sum |-> NoClosure,
                        stack |-> <<>>, visited |-> {}, found |-> NoClosure,
                        open |-> FALSE]
         /\ UNCHANGED answers

Request(q) ==
    /\ current = Idle
    /\ Len(answers) < MaxRequests
    /\ Start(q, searchOf(scanner, q))
    /\ UNCHANGED <<scanner, files, closures>>

answer(what) ==
    /\ answers' = Append(answers, [request |-> current.request, answer |-> what])
    /\ current' = Idle

stored(cache, key, v) == [k \in DOMAIN cache \cup {key} |-> IF k = key THEN v ELSE cache[k]]

\* The next source of the request: known already, absent, or to be scanned.
NextSource ==
    /\ current # Idle /\ ~current.open
    /\ LET t == scanner
           q == current.request
       IN IF current.rest = <<>>
          THEN answer(current.sum) /\ UNCHANGED closures
          ELSE LET source == Head(current.rest)
                   key == closureKey(t, q, current.search, source)
               IN \/ /\ key \in DOMAIN closures
                     /\ IF closures[key] = Failed THEN answer(Failed)
                        ELSE /\ current' = [current EXCEPT
                                              !.rest = Tail(@),
                                              !.sum = union(@, closures[key])]
                             /\ UNCHANGED answers
                     /\ UNCHANGED closures
                  \/ /\ key \notin DOMAIN closures
                     /\ ~absForTreePath(t, source)
                     /\ closures' = stored(closures, key, Failed)
                     /\ answer(Failed)
                  \/ /\ key \notin DOMAIN closures
                     /\ absForTreePath(t, source)
                     /\ current' = [current EXCEPT
                          !.open = TRUE, !.visited = {}, !.found = NoClosure,
                          !.stack = <<[path |-> clean(source), guarded |-> FALSE]>>]
                     /\ UNCHANGED <<answers, closures>>
    /\ UNCHANGED <<scanner, files>>

\* The scan of the source at the head of the request, under its own mode.
scanRequest(q, source) == [q EXCEPT !.source = source, !.assembly = assemblyOf(q, source)]

\* An entry that failed ends the request; another one's includes are next.
Visited(source, entry, v) ==
    LET visited == seen(current.visited, entry)
        adds == [refs |-> v.refs, generated |-> v.generated, inputs |-> v.inputs,
                 sourceIncludes |-> v.sourceIncludes \ {clean(source)}]
    IN IF v.fails
       THEN /\ closures' = stored(closures,
                            closureKey(scanner, current.request, current.search, source), Failed)
            /\ answer(Failed)
       ELSE /\ current' = [current EXCEPT
                 !.visited = visited,
                 !.stack = Front(@) \o elementsAt(v.children, {i \in DOMAIN v.children :
                                                          v.children[i] \notin visited}),
                 !.found = union(@, adds)]
            /\ UNCHANGED <<closures, answers>>

\* One entry is taken from the stack and its file is scanned, once per key.
ScanFile ==
    /\ current # Idle /\ current.open /\ current.stack # <<>>
    /\ LET source == Head(current.rest)
           q == scanRequest(current.request, source)
           entry == Last(current.stack)
           key == fileKey(scanner, entry.path, current.search, q)
       IN IF entry \in current.visited
          THEN /\ current' = [current EXCEPT !.stack = Front(@)]
               /\ UNCHANGED <<files, closures, answers>>
          ELSE /\ files' = IF key \in DOMAIN files THEN files
                          ELSE stored(files, key, scan(scanner, entry.path, current.search, q))
               /\ Visited(source, entry, visit(scanner, q, current.search, entry, files'[key]))
    /\ UNCHANGED scanner

\* The stack is empty: the closure of the source is kept.
CloseSource ==
    /\ current # Idle /\ current.open /\ current.stack = <<>>
    /\ closures' = stored(closures, closureKey(scanner, current.request, current.search,
                                              Head(current.rest)), current.found)
    /\ current' = [current EXCEPT !.open = FALSE, !.rest = Tail(@),
                                  !.sum = union(@, current.found)]
    /\ UNCHANGED <<scanner, files, answers>>

Next == \/ \E q \in scanner.requests : Request(q)
        \/ NextSource
        \/ ScanFile
        \/ CloseSource

Spec == Init /\ [][Next]_vars

\* The scanner is a loop: it goes on while a request is open.  One of its steps
\* is then enabled, so this is their weak fairness.
FairSpec ==
    Spec /\ \/ []<>(current = Idle)
            \/ []<><<NextSource \/ ScanFile \/ CloseSource>>_vars

(***************************************************************************)
(* The closure of a request, whatever was asked before.                    *)
(***************************************************************************)
together(parts) ==
    IF Failed \in parts THEN Failed
    ELSE [refs      |-> UNION {p.refs : p \in parts},
          generated |-> UNION {p.generated : p \in parts},
          inputs    |-> UNION {p.inputs : p \in parts},
          sourceIncludes |-> UNION {p.sourceIncludes : p \in parts}]

closuresOf(t, q, sources) ==
    {closureOf(t, scanRequest(q, source), searchOf(t, q), source) : source \in sources}

closureOfAll(q) ==
    IF searchOf(scanner, q) = Failed THEN Failed
    ELSE together(closuresOf(scanner, q, ToSet(sourcesOf(scanner, q))))

\* Whatever was scanned before for other requests, an answer is the closure
\* of its own request: the files, and the closures, that one configuration,
\* profile, mode, search path or provided header produced are not given to
\* another, and the order in which files are visited does not show.
\* (closureForSourceConfigInputsSearchProfile, config_footprint.go:575-588;
\* scanFile, config_footprint.go:927-937)
CacheIsFresh ==
    current = Idle /\ answers # <<>> =>
      LET last == answers[Len(answers)] IN last.answer = closureOfAll(last.request)
=============================================================================
