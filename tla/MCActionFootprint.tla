--------------------------- MODULE MCActionFootprint ---------------------------
(***************************************************************************)
(* Small trees for ActionFootprint, next to those of SourceClosure, and    *)
(* what a footprint is worth: held against every compiler run of the       *)
(* action, in every world of Preprocessor.                                 *)
(***************************************************************************)
EXTENDS MCSourceClosure, ActionFootprint

MCKernelFlags    == {C("FRAME_POINTER")}
MCObjtoolSymbols == {C("UNWINDER_ORC")}

MCFootprintAssembly == {"entry.S", "piggy.S", "note.S", "stack.S", "getcpu.S", "compat_note.S",
                        "trampoline.S", "vdso64.lds.S", "vdso32.lds.S", "hyp.lds.S"}
MCFootprintCompiled == MCFootprintAssembly \cup MCCompiledNames
                       \cup {"note.c", "vclock.c", "gettimeofday.c"}
MCFootprintGenerated == MCSpecialGenerated
    \cup {<<"linux", "utsrelease.h">>, <<"kvm-asm-offsets.h">>, <<"hyp_constants.h">>,
          <<"generated", "bounds.h">>}

(***************************************************************************)
(* The tree that every plan starts from.                                   *)
(***************************************************************************)
\* A header family that is made of a header which reads it, but for the guard
\* of its producer.
H2(x) == <<"include", "linux", x>>
Page  == H2("page.h")

BaseTree ==
    At(H("compiler-version.h"), <<text({C("CC_VERSION")})>>)
    @@ At(H("kconfig.h"), <<inc(<<"generated", "autoconf.h">>)>>)
    @@ At(H("compiler_types.h"), <<if(def(C("GCC_PLUGINS"))), inc(<<"plugins.h">>), endif>>)
    @@ At(H("plugins.h"), <<text({C("PLUGINS")})>>)
    @@ At(Page, <<if(not(def(M("GENERATING_BOUNDS")))), inc(<<"generated", "bounds.h">>), endif,
                  inc(<<"asm", "w.h">>), text({C("HZ")})>>)
    @@ At(<<"include", "asm-generic", "w.h">>, <<text({C("A")})>>)
    @@ At(<<"kernel", "bounds.c">>,
          <<define(M("GENERATING_BOUNDS"), "one"), inc(<<"linux", "page.h">>)>>)
    @@ At(<<"kernel", "rq-offsets.c">>,
          <<inc(<<"linux", "page.h">>), inc(<<"generated", "asm-offsets.h">>)>>)

X86Tree ==
    At(<<"x86", "asm-offsets.c">>, <<inc(<<"linux", "page.h">>), text({C("XEN")})>>)
    @@ At(<<"x86", "kvm-asm-offsets.c">>, <<inc(<<"only.h">>), inc(<<"generated", "bounds.h">>)>>)
    @@ At(<<"x86", "kvm", "only.h">>, <<if(def(C("KVM"))), inc(<<"linux", "page.h">>), endif>>)
    @@ At(<<"x86", "Makefile">>, <<>>)

\* The compiler runs that make headers: the family, the source, the directories
\* added for it and its profile.
make(family, source, roots, profile) ==
    [family |-> family, source |-> source, roots |-> roots, profile |-> profile]

MakesOf(arch) ==
    LET common == {make("all", <<"kernel", "bounds.c">>, <<>>, ""),
                   make("all", <<"kernel", "rq-offsets.c">>, <<>>, "")}
        x86 == {make("bounds", <<"kernel", "bounds.c">>, <<>>, ""),
                make("rq_offsets", <<"kernel", "rq-offsets.c">>, <<>>, ""),
                make("asm_offsets", <<"x86", "asm-offsets.c">>, <<>>, ""),
                make("kvm_offsets", <<"x86", "kvm-asm-offsets.c">>, <<<<"x86", "kvm">>>>, "")}
    IN common \cup
       CASE arch = "x86" -> x86 \cup {[m EXCEPT !.family = "all"] : m \in x86}
         [] arch = "arm64" ->
              {make("all", <<"arm64", "hyp-constants.c">>, <<<<"arm64", "hyp">>>>, ""),
               make("all", <<"arm64", "vdso", "note.S">>, <<>>, "arm64-vdso"),
               make("all", <<"arm64", "vdso", "vclock.c">>, <<>>, "arm64-vdso")}
         [] arch = "riscv" -> {make("all", <<"riscv", "getcpu.S">>, <<>>, "riscv-vdso"),
                               make("all", <<"riscv", "entry.S">>, <<>>, "")}
         [] arch = "powerpc" -> {make("all", <<"powerpc", "trampoline.S">>, <<>>, "")}
         [] arch = "arm" -> {make("all", <<"arm", "note.c">>, <<>>, "arm-vdso")}

ArchTree(arch) ==
    CASE arch = "x86" -> X86Tree
      [] arch = "arm64" ->
           At(<<"arm64", "hyp-constants.c">>, <<inc(<<"hyp.h">>)>>)
           @@ At(<<"arm64", "hyp", "hyp.h">>, <<text({C("NVHE")})>>)
           @@ At(<<"arm64", "vdso", "note.S">>, <<inc(<<"linux", "page.h">>)>>)
           @@ At(<<"arm64", "vdso", "vclock.c">>, <<incq(<<"..", "..", "lib", "gettimeofday.c">>)>>)
           @@ At(<<"lib", "gettimeofday.c">>,
                 <<if(def(M("BUILD_VDSO"))), inc(<<"vdso.h">>), endif, text({C("TIME")})>>)
           @@ At(H("vdso.h"), <<text({C("VDSO")})>>)
      [] arch = "riscv" ->
           At(<<"riscv", "getcpu.S">>, <<if(def(M("__ASSEMBLY__"))), inc(<<"linux", "page.h">>), endif>>)
           @@ At(<<"riscv", "entry.S">>, <<text({C("KEXEC")})>>)
      [] arch = "powerpc" -> At(<<"powerpc", "trampoline.S">>, <<inc(<<"linux", "page.h">>)>>)
      [] arch = "arm" -> At(<<"arm", "note.c">>, <<inc(<<"linux", "page.h">>)>>)

(***************************************************************************)
(* Objects.                                                                *)
(***************************************************************************)
NoAsn1 == [provided |-> {}, closures |-> {}]

object(name, source) ==
    [name |-> name, source |-> source, directory |-> <<"drv">>, members |-> <<>>, flags |-> <<>>,
     mode |-> "y", root |-> FALSE, objtoolDisabled |-> FALSE, footprint |-> {C("OWN")},
     asn1 |-> NoAsn1]

flagsFor(language, values) == [language |-> language, values |-> values]

Drv(x) == <<"drv", x>>
Entry == object("entry", Drv("entry.S"))
Plain == object("main", Main)

\* A source with a branch for the run that makes checksums and one for modules.
DriverLines ==
    <<inc(<<"linux", "page.h">>), inc(<<"generated", "utsrelease.h">>),
      if(def(M("__GENKSYMS__"))), inc(<<"sums.h">>), endif,
      if(def(M("MODULE"))), inc(<<"mod.h">>), elif(def(C("A"))), inc(<<"plugins.h">>), endif>>

DriverTree ==
    At(Main, DriverLines)
    @@ At(H("sums.h"), <<text({C("SUMS")})>>)
    @@ At(H("mod.h"), <<text({C("MOD")})>>)
    @@ At(Drv("part.c"), <<incq(<<"made.h">>), text({C("D")})>>)
    @@ At(Drv("forced.h"), <<if(def(C("SMP"))), inc(<<"linux", "version.h">>), endif>>)
    @@ At(Drv("entry.S"), <<if(def(M("__ASSEMBLY__"))), inc(<<"generated", "asm-offsets.h">>), endif>>)
    @@ At(H2("kernel.h"), <<if(not(def(M("__ASSEMBLY__")))), text({C("B")}), endif>>)
    @@ At(H2("string.h"), <<if(def(M("__GENKSYMS__"))), inc(<<"sums.h">>), endif>>)
    @@ At(<<"arch", "include", "asm", "asm-prototypes.h">>, <<text({C("E")})>>)

include(base, path) == iflag("include", base, path)

\* A driver in its modes, with flags for one language or for all, with a forced
\* file, and with one that the action makes.
DriverObjects ==
    {<<[Plain EXCEPT !.mode = m, !.root = r, !.flags = f], Entry>> :
       m \in {"y", "m"}, r \in BOOLEAN,
       f \in {<<>>,
              <<flagsFor("c", <<dflag(M("F"))>>), flagsFor("any", <<include("tree", Drv("forced.h"))>>)>>,
              <<flagsFor("asm", <<include("tree", Drv("gone.h"))>>)>>,
              <<flagsFor("c", <<include("obj", <<utsversionTmp>>)>>)>>,
              <<flagsFor("any", <<include("obj", <<"other.h">>)>>)>>,
              <<flagsFor("c", <<include("absolute", <<"usr.h">>)>>)>>}}

\* The forms a row of the table can have.
TableTree ==
    At(<<"tty", "ucs_table.h_shipped">>, <<>>)
    @@ At(Drv("ucs.c"), <<incq(<<"ucs_table.h">>)>>)
    @@ At(Drv("crc.c"), <<incq(<<"crc32table.h">>), if(def(C("CRC32_BIT"))), text({C("A")}), endif>>)
    @@ At(Drv("capflags.c"), <<text({})>>)
    @@ At(H("vmxfeatures.h"), <<if(def(C("VMX"))), inc(<<"linux", "page.h">>), endif>>)
    @@ At(<<"init", "version.c">>, <<incq(<<"..", "drv", "part.c">>)>>)
    @@ At(<<"init", "version-timestamp.c">>, <<>>)
    @@ At(H("asn1_decoder.h"), <<if(def(C("ASN1"))), inc(<<"generated", "timeconst.h">>), endif>>)
    @@ At(<<"scripts", "asn1_compiler.c">>, <<>>)

Asn1 == [provided |-> {<<"made.h">>}, closures |-> {H("asn1_decoder.h")}]

TableObjects ==
    {<<object("ucs", Drv("ucs.c"))>>, <<object("crc32", Drv("crc.c"))>>,
     <<object("capflags", Drv("capflags.c")), object("asn1", Drv("capflags.c"))>>,
     <<object("version", <<"init", "version.c">>)>>, <<object("lost", <<>>)>>,
     <<[object("version", <<"init", "version.c">>) EXCEPT !.asn1 = Asn1]>>,
     <<[object("made", Drv("part.c")) EXCEPT !.asn1 = Asn1], object("made", Drv("part.c"))>>}

\* Images made of several sources.
ImageTree ==
    At(<<"x86", "vdso", "note.S">>, <<incq(<<"vdso.h">>)>>)
    @@ At(<<"x86", "vdso", "vclock.c">>, <<inc(<<"vdso.h">>), inc(<<"asm", "w.h">>)>>)
    @@ At(<<"x86", "vdso", "vdso.h">>, <<text({C("VDSO")})>>)
    @@ At(<<"x86", "rm", "stack.S">>, <<inc(<<"boot.h">>), if(def(M("F"))), text({C("D")}), endif>>)
    @@ At(<<"x86", "rm", "wakemain.c">>, <<inc(<<"wake.h">>)>>)
    @@ At(<<"x86", "rm", "wake.h">>, <<inc(<<"generated", "asm-offsets.h">>)>>)
    @@ At(<<"x86", "boot", "boot.h">>, <<text({C("BOOT")})>>)
    @@ At(<<"x86", "purgatory.c">>, <<if(def(M("DISABLE_BRANCH_PROFILING"))), inc(<<"asm", "w.h">>), endif>>)
    @@ At(<<"x86", "entry.S">>, <<bin(<<"blob">>)>>)
    @@ At(<<"x86", "blob">>, <<>>)
    @@ At(<<"lib", "sha256.c">>, <<if(not(def(M("__DISABLE_EXPORTS")))), inc(<<"sums.h">>), endif,
                                   text({C("SHA")})>>)
    @@ At(Drv("image.c"), <<text({C("IMAGE")})>>)
    @@ At(Drv("piggy.S"), <<bin(<<"rm", "realmode.bin">>)>>)

ImageObjects ==
    {<<[object(name, Drv("image.c")) EXCEPT !.mode = m]>> :
       name \in {"vdso_image", "purgatory"}, m \in {"y", "m"}}
    \cup {<<[object("rmpiggy", Drv("piggy.S")) EXCEPT
              !.flags = <<flagsFor("any", <<dflag(M("F"))>>)>>]>>}

\* The compatibility image of arm64 and its hypervisor object.
ArmTree ==
    At(<<"arm64", "vdso32", "note.c">>, <<incq(<<"..", "..", "lib", "gettimeofday.c">>),
                                          inc(<<"asm", "w.h">>)>>)
    @@ At(Drv("image.c"), <<text({C("IMAGE")})>>)
    @@ At(<<"arm64", "hyp.lds.S">>, <<inc(<<"linux", "page.h">>), if(def(M("__ASSEMBLY__"))),
                                     text({C("HYP")}), endif>>)

ArmObjects ==
    {<<object("vdso32_wrap", Drv("image.c"))>>,
     <<[object("vdso32_wrap", Drv("image.c")) EXCEPT !.mode = "m"]>>,
     <<[object("nvhe", <<>>) EXCEPT !.members = <<"a", "b">>]>>, <<Plain, Entry>>}

\* A generated header that some family makes, or only all of them, or none.
StrayTree(path) == At(Main, <<if(def(C("A"))), inc(path), endif>>)
Strays == {<<"hyp_constants.h">>, <<"generated", "unknown.h">>, <<"generated", "autoconf.h">>,
           <<"linux", "version.h">>, <<"nowhere.h">>, <<"asm", "static.h">>}

(***************************************************************************)
(* Plans.                                                                  *)
(***************************************************************************)
planOf(arch, tree, conf, objects) ==
    [scanner |-> project(tree @@ ArchTree(arch) @@ BaseTree, {}, {}),
     arch |-> arch, config |-> config(conf), abi |-> "abi", version |-> <<6, 12>>,
     objects |-> objects]

ordered(p) ==
    [p EXCEPT !.scanner.order = <<<<"arm64", "vdso", "note.S">>, <<"arm64", "vdso", "vclock.c">>>>]

\* One text of the tree, replaced.
with(p, path, lines) == [p EXCEPT !.scanner.text = (path :> lines) @@ @]

Confs == {[A |-> "y", SMP |-> "y", MODVERSIONS |-> "y", GCC_PLUGINS |-> "n"],
          [A |-> "n", GCC_PLUGINS |-> "y", MODVERSIONS |-> "y", ASM_MODVERSIONS |-> "y"],
          [A |-> "m", SMP |-> "n", KVM |-> "y"]}
Rich == [A |-> "y", KVM |-> "y", VMX |-> "y", ASN1 |-> "y", CRC32_BIT |-> "y", HZ |-> "y"]

Drivers == {planOf("x86", DriverTree, conf, objects) : conf \in Confs, objects \in DriverObjects}

MCPlans ==
    Drivers
    \cup {[p EXCEPT !.version = <<6, 18>>] : p \in {p \in Drivers : p.objects[1].flags = <<>>}}
    \cup {planOf("x86", TableTree @@ DriverTree, Rich, objects) : objects \in TableObjects}
    \cup {planOf("x86", ImageTree @@ DriverTree, Rich, objects) : objects \in ImageObjects}
    \cup {ordered(planOf("arm64", ArmTree @@ DriverTree, Rich, objects)) : objects \in ArmObjects}
    \cup {planOf(arch, StrayTree(path), Rich, <<Plain>>) : arch \in {"x86", "riscv"}, path \in Strays}
    \cup {planOf(arch, DriverTree, conf, <<Plain>>) :
            arch \in {"riscv", "powerpc", "arm"}, conf \in Confs}
    \cup {with(planOf("x86", DriverTree, Rich, <<Plain>>), source, <<inc(path)>>) :
            source \in {<<"kernel", "bounds.c">>, <<"x86", "asm-offsets.c">>}, path \in Strays}

(***************************************************************************)
(* A scanner is asked, or a plan is resolved.                              *)
(***************************************************************************)
IdleScanner ==
    files = <<>> /\ closures = <<>> /\ current = Idle /\ answers = <<>>

MCInit ==
    \/ Init /\ plan = NoPlan /\ stage = "done" /\ headers = {} /\ actions = <<>>
    \/ plan \in Plans /\ FootprintInit /\ scanner = plan.scanner /\ IdleScanner

MCNext ==
    \/ Next /\ UNCHANGED footprintVars
    \/ FootprintNext /\ UNCHANGED vars

\* The fairness of SourceClosure.
MCSpec ==
    /\ MCInit /\ [][MCNext]_<<vars, footprintVars>>
    /\ \/ []<>(current = Idle)
       \/ []<><<NextSource \/ ScanFile \/ CloseSource>>_vars

(***************************************************************************)
(* The compiler runs of an action: the sources that one run reads one      *)
(* after the other, in the context of a scan.                              *)
(***************************************************************************)
compilerRun(sources, context) == [sources |-> sources, context |-> context]

\* A source after the files that every compilation, or its flags, include.
compileRun(o, file, extra, roots, profile) ==
    LET flags == filterResolvedKbuildFlags(o, file) \o extra
    IN compilerRun(Append(forcedSourceInputs(flags, file, o.directory), file),
                   scanFor(file, file, flags, roots, profile))

\* The sources of an image: what its Makefile adds to their flags, the
\* directories it adds and the profile of the compiler.
part(file, extra, roots, profile) ==
    [file |-> file, extra |-> extra, roots |-> roots, profile |-> profile]

PartsOf(name, arch) ==
    LET rm == <<<<"x86", "boot">>, <<"x86", "rm">>>>
        quiet == <<define_("DISABLE_BRANCH_PROFILING")>>
    IN CASE name = "vdso_image" ->
              {part(<<"x86", "vdso", "vclock.c">>, <<>>, <<<<"x86", "vdso">>>>, "")}
         [] name = "rmpiggy" ->
              {part(<<"x86", "rm", "stack.S">>, <<>>, rm, ""),
               part(<<"x86", "rm", "wakemain.c">>, <<>>, rm, "")}
         [] name = "purgatory" ->
              {part(<<arch, "purgatory.c">>, quiet, <<>>, ""),
               part(<<arch, "entry.S">>, quiet, <<>>, ""),
               part(<<"lib", "sha256.c">>, Append(quiet, define_("__DISABLE_EXPORTS")), <<>>, "")}
         [] name = "vdso32_wrap" ->
              {part(<<"arm64", "vdso32", "note.c">>, <<>>, <<<<"arm64", "vdso32">>, <<"lib">>>>,
                    "arm64-vdso")}
         [] name \notin {"vdso_image", "rmpiggy", "purgatory", "vdso32_wrap"} -> {}

ScriptRuns(o) ==
    IF o.name # "nvhe" THEN {}
    ELSE {compilerRun(<<H("compiler-version.h"), H("kconfig.h"), <<"arm64", "hyp.lds.S">>>>,
                      bareScan(<<"arm64", "hyp.lds.S">>, TRUE, ""))}

\* The run behind the checksums of exported symbols: the source again, or the
\* prototypes of an assembly source.
ChecksumRuns(p, o, source) ==
    LET on(x) == x \in p.config.written /\ configValue(p.config, x) = "y"
        assembly == Last(source) \in MCFootprintAssembly
        flags == flagsOf(o, "c")
        context == [scanFor(source, source, flags, <<>>,
                            IF o.mode = "m" THEN "kernel-module-genksyms" ELSE "kernel-genksyms")
                      EXCEPT !.assembly = FALSE]
        exports == <<H2("kernel.h")>>
                     \o (IF p.version = <<6, 18>> THEN <<H2("string.h")>> ELSE <<>>)
                     \o <<<<"arch", "include", "asm", "asm-prototypes.h">>>>
    IN IF ~on("MODVERSIONS") \/ (assembly /\ ~on("ASM_MODVERSIONS")) THEN {}
       ELSE {compilerRun(forcedSourceInputs(flags, source, o.directory) \o
                         IF assembly THEN <<H("compiler_types.h")>> \o exports ELSE <<source>>,
                         context)}

\* Every run of the action a of an object.
RunsOf(p, o, a) ==
    LET source == IF o.name = "vdso_image" THEN <<"x86", "vdso", "note.S">> ELSE o.source
        own == part(source, <<>>, <<>>, IF o.mode = "m" THEN "kernel-module" ELSE "")
        parts == PartsOf(o.name, p.arch) \cup IF o.members = <<>> THEN {own} ELSE {}
        runOf(x) == compileRun(o, x.file, x.extra, x.roots, x.profile)
        after(x, run) == IF x # own THEN run
                         ELSE [run EXCEPT !.sources = SetToSeq(a.footprint.closureInputs) \o @]
    IN {after(x, runOf(x)) : x \in parts} \cup ScriptRuns(o)
         \cup IF o.members = <<>> THEN ChecksumRuns(p, o, source) ELSE {}

PlanWorlds == [vals : {<<>>}, generated : BOOLEAN, other : BOOLEAN]

Symbols(p) == DOMAIN p.config.value

\* A run under the whole configuration, and under these symbols only.
ranWith(p, asked, search, r, w, symbols) ==
    [run   |-> r, searched |-> TRUE,
     whole |-> compileAll(p.scanner, asked, search, r.sources, w, Symbols(p)),
     own   |-> compileAll(p.scanner, asked, search, r.sources, w, symbols)]

resultOf(p, r, provided, w, symbols) ==
    LET with_(asked, search) ==
          IF search = Failed THEN [run |-> r, searched |-> FALSE]
          ELSE ranWith(p, asked, search, r, w, symbols)
    IN with_(requestOf(r.context, p.config, provided),
             compactSourceActionIncludeSearch(p.scanner, r.context))

\* A run reads nothing but the inputs, and the symbols of the fragment decide
\* all of it.
Accounted(x, footprint) ==
    /\ x.searched /\ x.whole.opened \cup x.whole.bins \subseteq footprint.inputs
    /\ sameRun(x.whole, x.own)

symbolsOf(footprint) == fragmentSymbols({e[1] : e \in footprint.fragment})

familiesRead(run) == {familyOf(g) : g \in run.generated} \ {""}

(***************************************************************************)
(* Headers.                                                                *)
(***************************************************************************)
MakeRun(m) ==
    compilerRun(Append(defaultForcedSourceInputs(m.source), m.source),
                scanFor(m.source, m.source, <<>>, m.roots, m.profile))

\* The compiler runs that make a header of a family read only what the family
\* has as inputs, are decided by the symbols of its fragment, and read no
\* header of an earlier family that it does not depend on; what is refused
\* cannot be made or reads a header that no family makes.  A run that reads a
\* header which is made later is left out: it fails.
\* (generatedHeaderFamilyFootprint, generated_header_footprint.go:275-378;
\* generatedHeaderAllFootprint, generated_header_footprint.go:380-671)
HeadersAreCovered ==
    LET makes == {m \in MakesOf(plan.arch) : absForTreePath(plan.scanner, m.source)}
        refused == stage = "refused"
        order(d) == generatedHeaderFamilyGenerationOrder(d)
        footprintFor(m) == IF refused THEN [fragment |-> {}]
                           ELSE CHOOSE f \in headers : f.name = m.family
        try(m, f) == {[make |-> m, footprint |-> f,
                       result |-> resultOf(plan, MakeRun(m), {}, w, symbolsOf(f))] : w \in PlanWorlds}
        covered(x, families) ==
          (\A d \in families : x.make.family # "all" => order(d) < order(x.make.family)) =>
            /\ Accounted(x.result, x.footprint)
            /\ x.make.family # "all" => families \subseteq x.footprint.dependencies
        cannotBeMade(run) == run.stopped \/ \E g \in run.generated : ~precise(g) \/ familyOf(g) = "all"
    IN (refused /\ headers = {}) \/ (stage = "objects" /\ actions = <<>>) =>
          \A tried \in {UNION {try(m, footprintFor(m)) : m \in makes}} :
            IF refused THEN \E x \in tried : cannotBeMade(x.result.whole)
            ELSE \A x \in tried : covered(x, familiesRead(x.result.whole))

(***************************************************************************)
(* Actions.                                                                *)
(***************************************************************************)
\* Every compiler run of an action, those of the parts of an image and the one
\* behind the checksums too, reads only source files that are inputs of the
\* action and headers of families it is given, and is decided by the symbols
\* of its fragment; an action is refused only when one of its runs cannot be
\* followed or reads a header that is not made.
\* (compactVariantMemo.variantForStack, compact.go:1589-1992;
\* compactGeneratedHeaderFamilySet.selectForAction, compact.go:1423-1466)
ActionsAreCovered ==
    LET given(footprint, families) == "all" \in footprint.headers \/ families \subseteq footprint.headers
        made(families) == families \subseteq {f.name : f \in headers} \cup
                            (IF plan.arch = "x86" THEN {} ELSE {"static", "utsrelease", "version",
                               "timeconst", "bounds", "asm_offsets", "rq_offsets"})
        covered(footprint, x) ==
          /\ Accounted(x, footprint)
          /\ given(footprint, familiesRead(x.whole))
        cannotFollow(whole) ==
          whole.stopped \/ ~made(familiesRead(whole)) \/ \E g \in whole.generated : ~precise(g)
        cause(x) == ~x.searched \/ cannotFollow(x.whole)
        results(o, a, symbols) == {resultOf(plan, r, a.footprint.provided, w, symbols) :
                                     r \in RunsOf(plan, o, a), w \in PlanWorlds}
        missing(a) == \E f \in a.footprint.sourceInputs : ~absForTreePath(plan.scanner, f)
        judged(o, a, footprints) ==
          IF o.source = <<>> /\ footprints = <<>> THEN TRUE
          ELSE \A xs \in {results(o, a, IF footprints = <<>> THEN {} ELSE symbolsOf(footprints[1]))} :
                 IF footprints = <<>> THEN missing(a) \/ \E x \in xs : cause(x)
                 ELSE \A x \in xs : covered(footprints[1], x)
        examined == IF stage = "refused" THEN <<>> ELSE <<Last(actions)>>
        latest == plan.objects[IF stage = "refused" THEN Len(actions) + 1 ELSE Len(actions)]
    IN (stage = "objects" /\ actions # <<>>) \/ (stage = "refused" /\ headers # {}) =>
         \A o \in {latest} : \A a \in {actionOf(plan, o)} : judged(o, a, examined)
=============================================================================
