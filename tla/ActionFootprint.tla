---------------------------- MODULE ActionFootprint ----------------------------
(***************************************************************************)
(* What the content of an action is made of: the footprints of the         *)
(* generated header families (generated_header_footprint.go) and of the    *)
(* compile actions (compact.go), put together from closures of the         *)
(* scanner.  An action may run a compiler several times, on several        *)
(* sources, each with flags, roots and a profile of its own.               *)
(*                                                                         *)
(* A plan is a source tree, one configuration of an architecture and the   *)
(* objects it compiles.  The tables of the code are here with one or two   *)
(* of each kind of row, their paths cut short.  Composites and what they   *)
(* take from their members are in CompactObjects.                          *)
(***************************************************************************)
EXTENDS Preprocessor

CONSTANTS
    Plans,          \* plans: scanner, arch, config, abi, version, objects
    KernelFlags,    \* the symbols the flags of every action depend on
    ObjtoolSymbols  \* the symbols objtool depends on

VARIABLES
    plan,    \* the plan that is resolved
    stage,   \* "families", "objects", "done", "refused"
    headers, \* the footprints of the families, once they are known
    actions  \* the footprints of the objects so far, in the order of the plan

footprintVars == <<plan, stage, headers, actions>>

config_(x) == <<"config", x>>
isAssembly(path) == path # <<>> /\ Last(path) \in Assembly
NoPlan == [noPlan |-> TRUE]

(***************************************************************************)
(* A scan is a file together with the source, the flags, the roots and the *)
(* profile it is read for.                                                 *)
(***************************************************************************)
scanFor(file, source, flags, roots, profile) ==
    [file |-> file, source |-> source, flags |-> flags, roots |-> roots,
     assembly |-> isAssembly(source), profile |-> profile, bare |-> FALSE]

\* A file that is searched for in the roots of the architecture only.
bareScan(file, assembly, profile) ==
    [file |-> file, source |-> file, flags |-> <<>>, roots |-> <<>>,
     assembly |-> assembly, profile |-> profile, bare |-> TRUE]

andRoots(search, roots) ==
    IF search = Failed THEN Failed ELSE [search EXCEPT !.include = FoldLeft(addRoot, @, roots)]

compactSourceActionIncludeSearch(t, s) ==
    IF s.bare
    THEN [quote |-> <<>>, include |-> t.roots, system |-> <<>>, after |-> <<>>, predefined |-> <<>>]
    ELSE andRoots(actionIncludeSearch(t, s.source, s.flags), s.roots)

requestOf(s, config, provided) ==
    [source |-> s.file, dir |-> <<>>, flags |-> s.flags, config |-> config,
     assembly |-> s.assembly, profile |-> s.profile, provided |-> provided]

closureFor(t, s, config, provided) ==
    closureOf(t, requestOf(s, config, provided), compactSourceActionIncludeSearch(t, s),
              s.file)

\* A file that is an input whatever it contains.
inputForTreePath(t, path) ==
    IF absForTreePath(t, path) THEN {clean(path)} ELSE {}

(***************************************************************************)
(* Families of generated headers.                                          *)
(***************************************************************************)
Classified ==
    (<<"generated", "timeconst.h">> :> "timeconst")
    @@ (<<"generated", "compile.h">> :> "compile")
    @@ (<<"linux", "version.h">> :> "version")
    @@ (<<"linux", "utsrelease.h">> :> "utsrelease")
    @@ (<<"generated", "utsrelease.h">> :> "utsrelease")
    @@ (<<"generated", "utsversion.h">> :> "utsversion")
    @@ (<<"asm", "cpufeaturemasks.h">> :> "cpufeatures")
    @@ (<<"generated", "bounds.h">> :> "bounds")
    @@ (<<"generated", "asm-offsets.h">> :> "asm_offsets")
    @@ (<<"generated", "rq-offsets.h">> :> "rq_offsets")
    @@ (<<"kvm-asm-offsets.h">> :> "kvm_offsets")
    @@ (<<"hyp_constants.h">> :> "all")

\* Headers that are generated but belong to no family.
OwnedByTheAction == {<<"generated", "autoconf.h">>, <<"generated", "rustc_cfg">>}

\* The family a generated include needs, "" for none, and whether that is the
\* family that makes it.
generatedHeaderFamilyNameForInclude(path) ==
    LET asm == \/ Len(path) > 1 /\ path[1] = "asm"
               \/ Len(path) > 2 /\ path[1] = "uapi" /\ path[2] = "asm"
        classed(families) ==
          IF path \in DOMAIN families THEN [name |-> families[path], precise |-> TRUE]
          ELSE IF asm THEN [name |-> "static", precise |-> TRUE]
          ELSE [name |-> IF generatedHeaderInclude(path) THEN "all" ELSE "", precise |-> FALSE]
    IN classed([owned \in OwnedByTheAction |-> ""] @@ Classified)

familyOf(path) == generatedHeaderFamilyNameForInclude(path).name
precise(path)  == generatedHeaderFamilyNameForInclude(path).precise

generatedHeaderFamilyGenerationOrder(name) ==
    CASE name = "static"      -> 0
      [] name = "timeconst"   -> 1
      [] name \in {"compile", "version", "utsrelease", "utsversion"} -> 2
      [] name = "cpufeatures" -> 3
      [] name = "bounds"      -> 4
      [] name = "asm_offsets" -> 5
      [] name = "rq_offsets"  -> 6
      [] name = "kvm_offsets" -> 7
      [] name = "all"         -> -1

\* The values of the references; what is not written counts as n.
generatedHeaderConfigFragment(config, refs) ==
    {<<r, IF r[1] = "config" /\ r[2] \in config.written
          THEN configValue(config, r[2]) ELSE "n">> : r \in refs}

producer(path)             == scanFor(path, path, <<>>, <<>>, "")
producerIn(path, root)     == scanFor(path, path, <<>>, <<root>>, "")
producerFor(path, profile) == scanFor(path, path, <<>>, <<>>, profile)

generatedHeaderOffsetsForcedSources ==
    <<producer(<<"include", "compiler-version.h">>), producer(<<"include", "kconfig.h">>),
      producer(<<"include", "compiler_types.h">>)>>

generatedHeaderOffsetsSources(sources) == generatedHeaderOffsetsForcedSources \o sources

generatedHeaderConfigSymbols ==
    {config_(x) : x \in {"GCC_PLUGINS", "HZ", "LOCALVERSION", "PREEMPT_BUILD",
                         "PREEMPT_DYNAMIC", "PREEMPT_RT", "RANDSTRUCT", "SMP",
                         "STACKPROTECTOR_PER_TASK"}}

present(t, scans) == {s \in ToSet(scans) : absForTreePath(t, s.file)}

table(name, symbols, sources, digests, build) ==
    [name |-> name, symbols |-> symbols, sources |-> sources, digests |-> digests,
     build |-> build]

\* Families that scripts make of symbols and of tables.
scriptFamilies(p) ==
    <<table("static", {}, <<>>, {<<"x86", "asm", "Kbuild">>, <<"x86", "syscall_64.tbl">>}, {}),
      table("timeconst", {config_("HZ")}, <<>>, {}, {}),
      table("compile", {}, <<>>, {}, {}),
      table("version", {}, <<>>, {}, {<<<<"build", "KERNEL_VERSION">>, p.version>>}),
      table("utsrelease", {config_("LOCALVERSION")}, <<>>, {}, {<<<<"build", "KERNEL_VERSION">>, p.version>>}),
      table("utsversion", {config_(x) : x \in {"PREEMPT_BUILD", "PREEMPT_DYNAMIC",
                                               "PREEMPT_RT", "SMP"}},
            <<>>, {}, {<<<<"build", "KBUILD_BUILD_VERSION">>, "1">>}),
      table("cpufeatures", {config_(x) : x \in {x \in DOMAIN p.config.value :
                                                  x = "X86_REQUIRED_FEATURE"}},
            <<>>, {<<"x86", "cpufeatures.h">>}, {})>>

\* Families that a compiler makes of a source.
offsetsFamilies ==
    LET family(name, source) ==
          table(name, KernelFlags, generatedHeaderOffsetsSources(<<source>>), {}, {})
    IN <<family("bounds", producer(<<"kernel", "bounds.c">>)),
         family("asm_offsets", producer(<<"x86", "asm-offsets.c">>)),
         family("rq_offsets", producer(<<"kernel", "rq-offsets.c">>)),
         family("kvm_offsets", producerIn(<<"x86", "kvm-asm-offsets.c">>, <<"x86", "kvm">>))>>

\* Fault: a family does not know the families it reads.
dependenciesUnknown(name, includes) == {}

\* The families a family needs; those made later are not there for it to read.
dependencies(name, includes) ==
    {d \in {familyOf(i) : i \in includes} \ {""} :
       generatedHeaderFamilyGenerationOrder(d) < generatedHeaderFamilyGenerationOrder(name)}

sums(closed) == [refs      |-> UNION {c.refs : c \in closed},
                 generated |-> UNION {c.generated : c \in closed},
                 inputs    |-> UNION {c.inputs : c \in closed}]

\* The footprint of a family whose producers have the closures in sum.
familyFootprint(p, f, sum) ==
    IF \E i \in sum.generated : familyOf(i) # "" /\ (~precise(i) \/ familyOf(i) = "all")
    THEN Failed
    ELSE [name |-> f.name,
          fragment |-> generatedHeaderConfigFragment(p.config, f.symbols \cup sum.refs) \cup f.build,
          dependencies |-> dependencies(f.name, sum.generated),
          inputs |-> sum.inputs \cup UNION {inputForTreePath(p.scanner, d) : d \in f.digests}]

generatedHeaderFamilyFootprint(p, f) ==
    LET closed == {closureFor(p.scanner, s, p.config, {}) : s \in present(p.scanner, f.sources)}
        of(closures_) == IF Failed \in closures_ THEN Failed
                         ELSE familyFootprint(p, f, sums(closures_))
    IN of(closed)

define_(macro) == [opt |-> "D", sym |-> <<"macro", macro>>, val |-> "one"]

(***************************************************************************)
(* Images that are linked into the kernel from several sources.            *)
(***************************************************************************)
compiled(path, flags, profile) ==
    [scan |-> scanFor(path, path, flags, <<>>, profile), compiled |-> TRUE]
mentioned(path, profile) ==
    [scan |-> scanFor(path, path, <<>>, <<>>, profile), compiled |-> FALSE]

\* One C file, one shared C file and one assembly file of each architecture.
compactPurgatorySourceActions(arch) ==
    LET common == <<define_("DISABLE_BRANCH_PROFILING")>>
        shared == compiled(<<"lib", "sha256.c">>, common \o <<define_("__DISABLE_EXPORTS")>>, "")
        main   == compiled(<<arch, "purgatory.c">>, common, "")
        entry(flags) == compiled(<<arch, "entry.S">>, flags, "")
    IN CASE arch = "x86"     -> <<main, entry(common), shared>>
         [] arch = "riscv"   -> <<main, entry(<<>>), shared>>
         [] arch = "powerpc" -> <<compiled(<<arch, "trampoline.S">>, <<>>, "")>>
         [] arch \in {"arm", "arm64"} -> <<>>

(***************************************************************************)
(* The family of all generated headers.                                    *)
(***************************************************************************)
\* What each architecture adds: sources that are scanned, files that are
\* inputs, symbols that choose among the images, directories of images, and
\* shared files that these include.
producersOf(arch) ==
    LET here(name) == <<arch, name>>
        vdso(names, profile) == [i \in DOMAIN names |-> producerFor(names[i], profile)]
        scans(actions_) == [i \in DOMAIN actions_ |-> actions_[i].scan]
        shared == <<"lib", "gettimeofday.c">>
        none == [sources |-> <<>>, digests |-> {}, symbols |-> {}, dirs |-> {}, forced |-> {}]
        purgatory == scans(compactPurgatorySourceActions(arch))
    IN CASE arch = "x86" ->
              [none EXCEPT !.sources = <<producer(here("asm-offsets.c")),
                                         producerIn(here("kvm-asm-offsets.c"), here("kvm"))>>,
                           !.digests = {<<"x86", "asm", "Kbuild">>, here("syscall_64.tbl"),
                                        here("cpufeatures.h"), here("Makefile")}]
         [] arch = "arm64" ->
              [none EXCEPT !.sources = <<producer(here("asm-offsets.c")),
                                         producerIn(here("hyp-constants.c"), here("hyp"))>>,
                           !.digests = {here("cpucaps"), here("cfi.h")},
                           !.dirs    = {[dir |-> here("vdso"), profile |-> "arm64-vdso"]},
                           !.forced  = {[file |-> shared, profile |-> "arm64-vdso"]}]
         [] arch = "arm" ->
              [none EXCEPT !.sources = vdso(<<here("note.c"), shared>>, "arm-vdso"),
                           !.digests = {here("vdsomunge.c"), here("syscall.tbl")}]
         [] arch = "riscv" ->
              [none EXCEPT !.symbols = {config_("KASAN_GENERIC"), config_("KASAN_SW_TAGS")},
                           !.sources = vdso(<<here("getcpu.S"), here("hwprobe.c"), shared>>,
                                            "riscv-vdso")
                                         \o vdso(<<here("compat_note.S")>>, "riscv-compat-vdso")
                                         \o purgatory]
         [] arch = "powerpc" ->
              [none EXCEPT !.symbols = {config_("PPC64"), config_("VDSO32")},
                           !.sources = vdso(<<here("note.S"), shared>>, "ppc64-vdso")
                                         \o vdso(<<here("note.S"), shared>>, "ppc32-vdso")
                                         \o purgatory
                                         \o vdso(<<here("vdso64.lds.S")>>, "ppc64-vdso")
                                         \o vdso(<<here("vdso32.lds.S")>>, "ppc32-vdso")]

\* The compiled sources of a directory, each scanned for itself.
directoryScans(t, d) ==
    {bareScan(file, isAssembly(file), d.profile) : file \in
       ToSet(sourcesOf(t, [dir |-> d.dir, source |-> <<>>]))}

\* The scans of the family: of the producers, of the directories of images
\* and of the files shared by these.
allScans(t, own) ==
    present(t, generatedHeaderOffsetsSources(
                 <<producer(<<"kernel", "bounds.c">>), producer(<<"kernel", "rq-offsets.c">>)>>)
               \o own.sources)
      \cup UNION {directoryScans(t, d) : d \in own.dirs}
      \cup {bareScan(f.file, isAssembly(f.file), f.profile) :
              f \in {f \in own.forced : absForTreePath(t, f.file)}}

allFootprint(p, own, sum) ==
    [name |-> "all",
     fragment |-> generatedHeaderConfigFragment(p.config,
                    generatedHeaderConfigSymbols \cup KernelFlags \cup own.symbols \cup sum.refs
                      \cup {config_(x) : x \in {x \in DOMAIN p.config.value :
                                                  p.arch = "x86" /\ x = "X86_REQUIRED_FEATURE"}})
                    \cup {<<<<"build", "KBUILD_BUILD_VERSION">>, "1">>,
                            <<<<"build", "KERNEL_VERSION">>, p.version>>},
     dependencies |-> {},
     inputs |-> sum.inputs \cup UNION {inputForTreePath(p.scanner, d) : d \in own.digests}]

\* A producer may read only headers that some family is known to make.
generatedHeaderAllFootprint(p) ==
    LET stray(c) == c.closure = Failed \/ (~c.bare /\ \E i \in c.closure.generated : ~precise(i))
        of(own, results) == IF \E c \in results : stray(c) THEN Failed
                            ELSE allFootprint(p, own, sums({c.closure : c \in results}))
        by(own) == of(own, {[bare |-> s.bare, closure |-> closureFor(p.scanner, s, p.config, {})] :
                              s \in allScans(p.scanner, own)})
    IN by(producersOf(p.arch))

bindGeneratedHeaderProducerABI(families, abi) ==
    {[f EXCEPT !.fragment = @ \cup {<<<<"build", "ABI">>, abi>>}] : f \in families}

\* x86 has a family for each kind of header besides the one of all, the other
\* architectures only the latter; a failure is one of the footprints.
allOrNothing(families, abi) ==
    IF Failed \in families THEN {Failed} ELSE bindGeneratedHeaderProducerABI(families, abi)

generatedHeaderFamilyFootprints(p) ==
    allOrNothing({generatedHeaderAllFootprint(p)} \cup
                   (IF p.arch = "x86"
                    THEN {generatedHeaderFamilyFootprint(p, f) :
                            f \in ToSet(scriptFamilies(p) \o offsetsFamilies)}
                    ELSE {}), p.abi)

Refused == {"refused"}

\* The families an action is given: all of them when it needs them all, or
\* when there is no other family; a header that no family is known to make is
\* refused.
selectForAction(families, includes, forceAll) ==
    LET names == {f.name : f \in families}
        chosen(needed) ==
          CASE forceAll -> IF "all" \in names THEN {"all"} ELSE Refused
            [] ~forceAll /\ names = {"all"} -> IF needed = {} THEN {} ELSE {"all"}
            [] ~forceAll /\ names # {"all"} ->
                 IF \A n \in needed : n.precise /\ n.name \in names
                 THEN {n.name : n \in needed} ELSE Refused
    IN chosen({n \in {generatedHeaderFamilyNameForInclude(i) : i \in includes} : n.name # ""})

(***************************************************************************)
(* Objects.  An object of a plan is a record of its name, its source, the  *)
(* directory its name is in, its members, its flags by language, its mode, *)
(* whether it is a root, whether objtool is off, the symbols of its own    *)
(* conditions, and the headers its ASN.1 dependencies provide.             *)
(***************************************************************************)
row(inputs, closures_, provided, symbols) ==
    [sourceInputs |-> inputs, closureInputs |-> closures_, provided |-> provided,
     symbols |-> {config_(x) : x \in symbols}]

\* A table that is copied, tables that are computed, a file that is made of
\* others, and images that are included.
ObjectTable ==
    [ucs      |-> row({<<"tty", "ucs_table.h_shipped">>}, {}, {<<"ucs_table.h">>}, {}),
     crc32    |-> row({}, {}, {<<"crc32table.h">>}, {"CRC32_BIT", "CRC32_SARWATE"}),
     capflags |-> row({}, {<<"include", "vmxfeatures.h">>}, {}, {}),
     rmpiggy  |-> row({}, {}, {<<"rm", "realmode.bin">>}, {}),
     purgatory |-> row({}, {}, {<<"purgatory.ro">>}, {}),
     vdso32_wrap |-> row({}, {}, {<<"vdso32", "vdso.so">>}, {}),
     vdso_image  |-> row({}, {}, {}, {}),
     version  |-> row({<<"init", "version-timestamp.c">>}, {}, {}, {}),
     asn1     |-> row({<<"scripts", "asn1_compiler.c">>}, {<<"include", "asn1_decoder.h">>}, {}, {})]

isMultiSourceImageObject(name) == name \in {"vdso_image", "rmpiggy", "purgatory"}
isArm64NvheObject(name)        == name = "nvhe"
objectNeedsFullConfig(name)    == name = "purgatory"

utsversionTmp == "utsversion-tmp.h"

flagsNeedUTSVersionTmp(flags) ==
    \E f \in ToSet(flags) : f.opt \in {"include", "imacros"} /\ Last(f.path) = utsversionTmp

compactObjectActionFootprintForObject(name, flags) ==
    LET listed == IF name \in DOMAIN ObjectTable THEN ObjectTable[name] ELSE row({}, {}, {}, {})
        uts == {config_(x) : x \in {"LOCALVERSION", "PREEMPT_BUILD", "PREEMPT_DYNAMIC",
                                    "PREEMPT_RT", "SMP"}}
    IN [listed EXCEPT !.symbols = IF flagsNeedUTSVersionTmp(flags) THEN @ \cup uts ELSE @]

fullGeneratedHeaders(name) == isMultiSourceImageObject(name) \/ name = "vdso32_wrap"

compactSpecialSourcesForObject(name, arch) ==
    CASE name = "vdso_image" ->
           [primary |-> <<arch, "vdso", "note.S">>, roots |-> <<<<arch, "vdso">>>>,
            inputs |-> <<compiled(<<arch, "vdso", "note.S">>, <<>>, ""),
                         compiled(<<arch, "vdso", "vclock.c">>, <<>>, ""),
                         mentioned(<<arch, "vdso", "vdso.h">>, "")>>]
      [] name = "rmpiggy" ->
           [primary |-> <<>>, roots |-> <<<<arch, "boot">>, <<arch, "rm">>>>,
            inputs |-> <<compiled(<<arch, "rm", "stack.S">>, <<>>, ""),
                         compiled(<<arch, "rm", "wakemain.c">>, <<>>, "")>>]
      [] name = "purgatory" ->
           [primary |-> <<>>, roots |-> <<>>, inputs |-> compactPurgatorySourceActions(arch)]
      [] name = "vdso32_wrap" ->
           [primary |-> <<>>, roots |-> <<<<arch, "vdso32">>, <<"lib">>>>,
            inputs |-> <<compiled(<<arch, "vdso32", "note.c">>, <<>>, "arm64-vdso"),
                         mentioned(<<"lib", "gettimeofday.c">>, "arm64-vdso")>>]
      [] name \notin {"vdso_image", "rmpiggy", "purgatory", "vdso32_wrap"} ->
           [primary |-> <<>>, roots |-> <<>>, inputs |-> <<>>]

compactIntrinsicIncludeRoots(source) ==
    IF source \in FdtSources THEN <<FdtDir>> ELSE <<>>

\* The flags of a language; a group without one is for every language.
flagsOf(o, language) ==
    FlattenSeq([i \in DOMAIN o.flags |->
                  IF o.flags[i].language \in {"any", language} THEN o.flags[i].values ELSE <<>>])
languageOf(source) == IF isAssembly(source) THEN "asm" ELSE "c"
filterResolvedKbuildFlags(o, source) == flagsOf(o, languageOf(source))

defaultForcedSourceInputs(source) ==
    <<<<"include", "compiler-version.h">>, <<"include", "kconfig.h">>>>
      \o IF isAssembly(source) THEN <<>> ELSE <<<<"include", "compiler_types.h">>>>

\* A path that no file has: its closure fails.
Unfollowed == <<"..">>

\* The file of the tree that a flag includes, at the place the flag names; none
\* when the action makes it.
forcedInput(at, directory) ==
    LET made == {<<utsversionTmp>>, directory \o <<utsversionTmp>>}
    IN CASE at.class # "failed" /\ at.root \in made -> <<>>
         [] at.class = "object" /\ Last(at.root) = utsversionTmp -> <<>>
         [] at.class = "tree" /\ at.root # <<>> /\ at.root \notin made -> <<at.root>>
         [] OTHER -> <<Unfollowed>>

\* The files that the compiler reads before the source.
forcedSourceInputs(flags, source, directory) ==
    LET includes == SelectSeq(flags, LAMBDA f : f.opt \in {"include", "imacros"} /\ f.base # "compiler")
        found == [i \in DOMAIN includes |->
                    forcedInput(resolveSourceFlagPath(includes[i], source), directory)]
    IN defaultForcedSourceInputs(source) \o FlattenSeq(found)

(***************************************************************************)
(* The footprint of an object.                                             *)
(***************************************************************************)
sourceOf(o, special) ==
    IF o.members # <<>> THEN <<>>
    ELSE IF special.primary # <<>> THEN special.primary ELSE o.source

isSet(config, x) == x \in config.written /\ configValue(config, x) = "y"

compactSymversionsEnabled(p, source) ==
    /\ source # <<>> /\ isSet(p.config, "MODVERSIONS")
    /\ isAssembly(source) => isSet(p.config, "ASM_MODVERSIONS")

compactSymversionConfigSymbols ==
    {config_(x) : x \in {"ASM_MODVERSIONS", "BASIC_MODVERSIONS", "GENKSYMS", "MODVERSIONS"}}

\* Fault: the run is the one of the compiler.
profileOfCompiler(o) == IF o.mode = "m" THEN "kernel-module" ELSE ""

compactGenksymsProfile(o) ==
    IF o.mode = "m" THEN "kernel-module-genksyms" ELSE "kernel-genksyms"

\* A version is a pair of numbers.
compactGenksymsAssemblyHeaders(version) ==
    LET recent == version[1] > 6 \/ (version[1] = 6 /\ version[2] >= 18)
    IN <<<<"linux", "kernel.h">>>>
         \o (IF recent THEN <<<<"linux", "string.h">>>> ELSE <<>>)
         \o <<<<"asm", "asm-prototypes.h">>>>

\* What the row of an object says, and what the action adds to it.
actionFootprint(p, o, listed) ==
    [listed EXCEPT
       !.closureInputs = @ \cup o.asn1.closures,
       !.provided = @ \cup o.asn1.provided,
       !.symbols = @ \cup compactSymversionConfigSymbols
         \cup (IF p.arch = "x86" /\ ~o.objtoolDisabled THEN ObjtoolSymbols ELSE {})
         \cup (IF o.root /\ o.mode = "m" THEN {config_("LTO_CLANG")} ELSE {})]

\* The action of an object: its source and flags, its footprint, its profile,
\* and the other sources of an image.
actionWith(p, o, special, source, flags) ==
    [object |-> o, special |-> special, source |-> source, flags |-> flags,
     profile |-> IF o.mode = "m" THEN "kernel-module" ELSE "",
     footprint |-> actionFootprint(p, o, compactObjectActionFootprintForObject(o.name, flags))]

actionOf(p, o) ==
    LET on(special, source) == actionWith(p, o, special, source,
                                          filterResolvedKbuildFlags(o, source))
        with_(special) == on(special, sourceOf(o, special))
    IN with_(compactSpecialSourcesForObject(o.name, p.arch))

\* The files, and the context they are all scanned in.
filesIn(context, files_) == {[context EXCEPT !.file = f] : f \in files_}

\* The source, what is included before it, and what generated sources include.
sourceScans(a) ==
    filesIn(scanFor(a.source, a.source, a.flags, compactIntrinsicIncludeRoots(a.source), a.profile),
            {a.source} \cup a.footprint.closureInputs
              \cup ToSet(forcedSourceInputs(a.flags, a.source, a.object.directory)))

specialProfile(own, profile) == IF own # "" THEN own ELSE profile

\* One more source of an image, with its own flags, roots and profile.
specialScans(a, input) ==
    LET path == input.scan.file
        roots == a.special.roots \o input.scan.roots \o compactIntrinsicIncludeRoots(path)
        under(flags) ==
          filesIn(scanFor(path, path, flags, roots, specialProfile(input.scan.profile, a.profile)),
                  {path} \cup IF input.compiled
                             THEN ToSet(forcedSourceInputs(flags, path, a.object.directory))
                             ELSE {})
    IN IF path = a.source THEN {}
       ELSE under(filterResolvedKbuildFlags(a.object, path) \o input.scan.flags)

\* The run of the preprocessor that the checksums of exported symbols are
\* made from, in C whatever the language of the source.
symversionScans(p, a) ==
    LET exports(search) == {resolveInclude(p.scanner, a.source, h, "angled", search) :
                              h \in ToSet(compactGenksymsAssemblyHeaders(p.version))}
        files_(flags, search) ==
          ToSet(forcedSourceInputs(flags, a.source, a.object.directory))
            \cup {<<"include", "compiler_types.h">>}
            \cup IF isAssembly(a.source) THEN exports(search)
                 ELSE {a.source} \cup a.footprint.closureInputs
        under(flags, context, search) ==
          IF search = Failed THEN {context} ELSE filesIn(context, files_(flags, search))
        in(flags, context) ==
          under(flags, context, compactSourceActionIncludeSearch(p.scanner, context))
        with_(flags) ==
          in(flags, [scanFor(a.source, a.source, flags, <<>>, compactGenksymsProfile(a.object))
                       EXCEPT !.assembly = FALSE])
    IN with_(flagsOf(a.object, "c"))

\* The linker script of the nVHE image and what is included before it.
nvheScans ==
    {bareScan(file, TRUE, "") : file \in {<<"arm64", "hyp.lds.S">>,
                                          <<"include", "compiler-version.h">>,
                                          <<"include", "kconfig.h">>}}

objectScans(p, a) ==
    (IF a.source = <<>> THEN {}
     ELSE sourceScans(a)
            \cup UNION {specialScans(a, input) : input \in ToSet(a.special.inputs)}
            \cup IF compactSymversionsEnabled(p, a.source) THEN symversionScans(p, a) ELSE {})
      \cup IF isArm64NvheObject(a.object.name) THEN nvheScans ELSE {}

needsAllHeaders(a) ==
    \/ fullGeneratedHeaders(a.object.name)
    \/ a.special.inputs # <<>>
    \/ isArm64NvheObject(a.object.name)

\* The references of a variant: of its own conditions, of its closures, of its
\* action and of the flags, or all there are.
references(p, a, refs) ==
    refs
      \cup (IF a.object.members = <<>> THEN a.object.footprint ELSE {})
      \cup (IF a.source # <<>> THEN a.footprint.symbols ELSE {})
      \cup (IF a.source # <<>> \/ isArm64NvheObject(a.object.name) THEN KernelFlags ELSE {})
      \cup IF objectNeedsFullConfig(a.object.name) THEN {config_(x) : x \in p.config.written} ELSE {}

\* What an object is known by, Failed when something cannot be accounted for:
\* a source, a header of no family, or a file that is copied.
complete(p, a, sum, chosen, copied) ==
    IF chosen = Refused \/ \E f \in copied : ~absForTreePath(p.scanner, f) THEN Failed
    ELSE [object |-> a.object,
          fragment |-> generatedHeaderConfigFragment(p.config, references(p, a, sum.refs)),
          inputs |-> sum.inputs \cup copied,
          headers |-> chosen]

footprintOf(p, a, families) ==
    LET under(sum) == complete(p, a, sum, selectForAction(families, sum.generated, needsAllHeaders(a)),
                               IF a.source = <<>> THEN {} ELSE a.footprint.sourceInputs)
        of(closed) == IF Failed \in closed THEN Failed ELSE under(sums(closed))
    IN IF a.object.members = <<>> /\ a.source = <<>> THEN Failed
       ELSE of({closureFor(p.scanner, s, p.config, IF s.bare THEN {} ELSE a.footprint.provided) :
                  s \in objectScans(p, a)})

(***************************************************************************)
(* The families first, then the objects one by one; the first failure ends *)
(* the resolution.                                                         *)
(***************************************************************************)
FootprintInit == stage = "families" /\ headers = {} /\ actions = <<>>

ResolveFamilies ==
    /\ stage = "families"
    /\ \E families \in {generatedHeaderFamilyFootprints(plan)} :
         IF Failed \in families THEN stage' = "refused" /\ UNCHANGED headers
         ELSE stage' = "objects" /\ headers' = families
    /\ UNCHANGED <<plan, actions>>

ResolveObject ==
    /\ stage = "objects"
    /\ IF Len(actions) = Len(plan.objects)
       THEN stage' = "done" /\ UNCHANGED actions
       ELSE \E footprint \in
                 {footprintOf(plan, actionOf(plan, plan.objects[Len(actions) + 1]), headers)} :
              IF footprint = Failed THEN stage' = "refused" /\ UNCHANGED actions
              ELSE actions' = Append(actions, footprint) /\ UNCHANGED stage
    /\ UNCHANGED <<plan, headers>>

FootprintNext == ResolveFamilies \/ ResolveObject
=============================================================================
