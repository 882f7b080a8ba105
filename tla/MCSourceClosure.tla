---------------------------- MODULE MCSourceClosure ----------------------------
(***************************************************************************)
(* Small trees for SourceClosure, and what its answers are worth: held     *)
(* against the compiler of Preprocessor in every world, and against the    *)
(* closure computed without any cache.                                     *)
(***************************************************************************)
EXTENDS Preprocessor

MCSourceNames   == {"main.c", "part.c", "entry.S"}
MCAssembly      == {"entry.S"}
MCCompiledNames == {"main.c", "part.c", "entry.S"}
MCCompilerNames == {"stddef.h", "cet.h"}
MCSpecialGenerated == {<<"linux", "version.h">>}
MCFdtSources    == {<<"lib", "fdt.c">>}

(***************************************************************************)
(* Lines.                                                                  *)
(***************************************************************************)
C(x) == <<"config", x>>
M(x) == <<"macro", x>>
text(refs)    == [k |-> "text", refs |-> refs]
if(c)         == [k |-> "if", cond |-> c]
elif(c)       == [k |-> "elif", cond |-> c]
else          == [k |-> "else"]
endif         == [k |-> "endif"]
inc(path)     == [k |-> "include", kind |-> "angled", path |-> path, sym |-> M("none")]
incq(path)    == [k |-> "include", kind |-> "quoted", path |-> path, sym |-> M("none")]
incn(path)    == [k |-> "include", kind |-> "next", path |-> path, sym |-> M("none")]
incm(symbol)  == [k |-> "include", kind |-> "macro", path |-> <<>>, sym |-> symbol]
bin(path)     == [k |-> "incbin", path |-> path]
define(symbol, val) == [k |-> "define", sym |-> symbol, val |-> val, refs |-> {}]
undef(symbol)       == [k |-> "undef", sym |-> symbol, refs |-> {}]
def(symbol)   == <<"defined", symbol>>
val(symbol)   == <<"value", symbol>>
not(c)        == <<"not", c>>
guard(macro, lines) == <<if(not(def(macro))), define(macro, "one")>> \o lines \o <<endif>>
dflag(symbol) == [opt |-> "D", sym |-> symbol, val |-> "one"]
uflag(symbol) == [opt |-> "U", sym |-> symbol]
iflag(opt, base, path) == [opt |-> opt, base |-> base, path |-> path]

Main   == <<"drv", "main.c">>
H(x)   == <<"include", x>>
Roots  == <<<<"arch", "include">>, <<"include">>, <<"include", "uapi">>>>

config(f) == [value |-> f, written |-> {x \in DOMAIN f : f[x] # "n"}, path |-> <<>>]

request(conf) == [source |-> Main, dir |-> <<>>, flags |-> <<>>, config |-> conf,
                  assembly |-> FALSE, profile |-> "", provided |-> {}]

\* A tree in which every path has a file of its own.
project(textOf, requests, macros) ==
    [tree |-> [p \in DOMAIN textOf |-> p], text |-> textOf, roots |-> Roots,
     order |-> <<>>, template |-> <<>>, requests |-> requests, macros |-> macros]

At(path, lines) == path :> lines

(***************************************************************************)
(* Two conditions, three headers, one symbol in its three states, an       *)
(* action of the kernel and one of a module.                               *)
(***************************************************************************)
Conditions == {
    def(C("A")), val(C("A")), not(def(C("A"))),
    <<"or", def(C("A")), def(<<"module", "A">>)>>,
    <<"IS_ENABLED", C("A")>>, <<"IS_MODULE", C("A")>>, <<"IS_REACHABLE", C("A")>>,
    def(M("U")), <<"and", not(val(M("U"))), <<"IS_BUILTIN", C("A")>>>>,
    <<"or", val(M("U")), not(<<"IS_ENABLED", C("A")>>)>>,
    <<"int", 0>>, <<"other">>, <<"has", <<"generated", "g.h">>, "angled">>,
    def(M("MODULE"))}

Headers == At(H("a.h"), guard(M("A_H"), <<text({C("A")})>>))
           @@ At(H("b.h"), guard(M("B_H"), <<inc(<<"a.h">>), text({C("B")})>>))
           @@ At(H("c.h"), <<text({C("D")}), inc(<<"generated", "g.h">>)>>)

Branches(c1, c2) ==
    At(Main, <<if(c1), inc(<<"c.h">>), elif(c2), inc(<<"b.h">>), else, inc(<<"a.h">>),
               endif, text({C("E")})>>) @@ Headers

Requests(confs) ==
    {[request(c) EXCEPT !.profile = p] : c \in confs, p \in {"", "kernel-module"}}

FewConditions == {
    val(C("A")), not(def(C("A"))), <<"IS_MODULE", C("A")>>, <<"IS_REACHABLE", C("A")>>,
    def(M("U")), <<"and", not(val(M("U"))), <<"IS_BUILTIN", C("A")>>>>,
    <<"has", <<"generated", "g.h">>, "angled">>}

TwoConditions ==
    {project(Branches(c1, c2), Requests({config([A |-> v, E |-> "y"])}), {M("U")})
       : c1 \in Conditions, c2 \in FewConditions, v \in {"y", "m", "n"}}

\* One condition inside a group of another.
Nested(c1, c2) ==
    At(Main, <<if(c1), if(c2), inc(<<"a.h">>), else, inc(<<"b.h">>), endif,
               text({C("E")}), endif, inc(<<"c.h">>)>>) @@ Headers

NestedConditions ==
    {project(Nested(c1, c2), Requests({config([A |-> v])}), {M("U")})
       : c1 \in FewConditions, c2 \in Conditions, v \in {"y", "m"}}

(***************************************************************************)
(* Searches.                                                               *)
(***************************************************************************)
Y == config([A |-> "y"])

\* A header beside the source, one of the same name in every root, and
\* include_next from each to the next.
SearchTree ==
    At(Main, <<incq(<<"x.h">>), inc(<<"x.h">>), incq(<<"..", "lib", "p.h">>)>>)
    @@ At(<<"drv", "y.h">>, <<text({})>>)
    @@ At(<<"quote", "x.h">>, <<text({C("A")}), incn(<<"x.h">>)>>)
    @@ At(<<"arch", "include", "x.h">>, <<incn(<<"x.h">>)>>)
    @@ At(H("x.h"), <<if(<<"has", <<"y.h">>, "quoted">>), text({C("B")}), endif,
                      incn(<<"x.h">>)>>)
    @@ At(<<"include", "uapi", "x.h">>, <<text({C("D")})>>)
    @@ At(<<"lib", "p.h">>, <<incq(<<"x.h">>)>>)

SearchFlags == {
    <<iflag("iquote", "tree", <<"quote">>)>>,
    <<iflag("I", "tree", <<"quote">>)>>,
    <<iflag("isystem", "tree", <<"quote">>), iflag("I", "src", <<"..", "lib">>)>>,
    <<iflag("idirafter", "tree", <<"quote">>), iflag("iquote", "obj", <<>>)>>,
    <<iflag("I", "absolute", <<"usr">>), iflag("isystem", "compiler", <<>>)>>,
    <<iflag("I", "unresolved", <<>>)>>,
    <<iflag("I", "tree", <<"..", "quote">>)>>,
    <<iflag("include", "tree", <<"quote", "x.h">>), [opt |-> "unsupported"]>>}

Searches ==
    {project(SearchTree, {[request(Y) EXCEPT !.flags = f] : f \in SearchFlags}, {})}

\* Generated asm wrappers, a provided header, headers of the compiler, one
\* that is nowhere.
WrapperTree(last) ==
    At(Main, <<inc(<<"asm", "w.h">>), inc(<<"asm", "own.h">>), inc(<<"uapi", "asm", "v.h">>),
               inc(<<"linux", "version.h">>), inc(<<"stddef.h">>), last>>)
    @@ At(<<"include", "asm-generic", "w.h">>, <<text({C("A")})>>)
    @@ At(<<"include", "uapi", "asm-generic", "v.h">>, <<text({C("B")})>>)
    @@ At(<<"arch", "include", "asm", "own.h">>, <<inc(<<"asm-generic", "own.h">>)>>)
    @@ At(<<"include", "asm-generic", "own.h">>, <<text({C("D")})>>)

Wrappers ==
    {project(WrapperTree(last),
             {[request(Y) EXCEPT !.provided = p] : p \in {{}, {<<"made.asn1.h">>}}}, {})
       : last \in {text({C("E")}), incq(<<"made.asn1.h">>), inc(<<"nowhere.h">>),
                   incm(M("EXPAND"))}}

(***************************************************************************)
(* Special includes.                                                       *)
(***************************************************************************)
FdtEnv == FdtDir \o <<"libfdt_env.h">>

FdtTree(first) ==
    At(<<"lib", "fdt.c">>, first \o <<incq(<<"..", "scripts", "dtc", "libfdt", "fdt.c">>)>>)
    @@ At(<<"include", "linux", "libfdt_env.h">>,
          guard(M("LIBFDT_ENV_H"), <<text({C("A")})>>))
    @@ At(FdtDir \o <<"fdt.c">>, <<incq(<<"libfdt_env.h">>), incq(<<"fdt.h">>)>>)
    @@ At(FdtDir \o <<"fdt.h">>, <<text({C("B")}), incq(<<"libfdt_env.h">>)>>)
    @@ At(FdtEnv, guard(M("LIBFDT_ENV_H"), <<inc(<<"stdlib.h">>)>>))

Fdt == {project(FdtTree(first), {[request(Y) EXCEPT !.source = <<"lib", "fdt.c">>]}, {})
          : first \in {<<>>, <<inc(<<"linux", "libfdt_env.h">>)>>}}

\* A trace header that the template includes again.
TraceTree ==
    At(Main, <<define(M("CREATE"), "one"), inc(<<"trace", "ev.h">>)>>)
    @@ At(<<"include", "trace", "ev.h">>,
          <<if(<<"or", not(def(M("EV_H"))), def(M("MULTI"))>>), define(M("EV_H"), "one"),
            text({C("A")}), endif, if(def(M("CREATE"))), undef(M("CREATE")),
            inc(<<"trace", "define.h">>), endif>>)
    @@ At(<<"include", "trace", "define.h">>,
          <<define(M("MULTI"), "one"), incm(M("TRACE_INCLUDE")), undef(M("MULTI"))>>)

Trace == {[project(TraceTree, {request(Y)}, {})
             EXCEPT !.template = <<"include", "trace", "ev.h">>]}

\* An include that a configuration string names, and a configuration without.
StringTree ==
    At(Main, <<if(def(C("S"))), incm(C("S")), endif, text({C("A")})>>)
    @@ At(H("s.h"), <<text({C("B")})>>)

Named(set) == [value |-> [S |-> "string", A |-> "y"], path |-> [S |-> <<"s.h">>],
               written |-> set]

Strings == {project(StringTree, {request(Named({"A"})), request(Named({"A", "S"}))}, {})}

\* Payloads of assembly, included under a condition, by a C file too.
BinTree ==
    At(<<"drv", "entry.S">>,
       <<if(def(M("__ASSEMBLY__"))), bin(<<"blob">>), else, bin(<<"nowhere">>), endif,
         if(not(def(C("A")))), bin(<<>>), endif, bin(<<"drv", "image">>)>>)
    @@ At(<<"drv", "blob">>, <<>>)

Bins == {project(BinTree,
           {[request(conf) EXCEPT !.source = <<"drv", "entry.S">>, !.assembly = a,
                                  !.provided = p] :
              conf \in {Y, config([A |-> "n"])}, a \in BOOLEAN,
              p \in {{}, {<<"drv", "image">>}}}, {})}

\* The image that a source of the RISC-V vDSO embeds, for itself or for the
\* compatibility source that includes it.
VdsoTree ==
    At(VdsoSource, <<text({C("A")}), bin(VdsoPath)>>)
    @@ At(<<"arch", "riscv", "kernel", "compat_vdso", "compat_vdso.S">>,
          <<incq(<<"..", "vdso", "vdso.S">>)>>)
    @@ At(<<"drv", "entry.S">>, <<incq(<<"..">> \o VdsoSource)>>)

Vdsos == {project(VdsoTree,
            {[request(Y) EXCEPT !.source = source, !.assembly = TRUE, !.provided = {image}] :
               source \in DOMAIN VdsoTree, image \in {VdsoImages[s] : s \in DOMAIN VdsoImages}},
            {})}

\* Symbols of the command line, of the profile and of a plugin.
FlagTree ==
    At(Main, <<if(def(M("F"))), inc(<<"a.h">>), elif(def(M("RANDSTRUCT"))), inc(<<"b.h">>),
               elif(def(M("BUILD_VDSO"))), inc(<<"c.h">>), endif,
               if(def(M("__GENKSYMS__"))), text({C("G")}), endif>>) @@ Headers

Flags == {project(FlagTree,
            {[request(conf) EXCEPT !.flags = f, !.profile = p] :
               conf \in {Y, config([RANDSTRUCT |-> "y"])},
               f \in {<<>>, <<dflag(M("F"))>>, <<dflag(M("F")), uflag(M("F"))>>},
               p \in {"", "arm64-vdso", "kernel-module-genksyms"}}, {M("F")})}

(***************************************************************************)
(* Requests that share files.                                              *)
(***************************************************************************)
\* One file under two paths of the tree, and what is beside each.
MappedTree ==
    [(project(At(Main, <<incq(<<"..", "one", "m.h">>), incq(<<"..", "two", "m.h">>)>>)
       @@ At(<<"one", "m.h">>, <<if(<<"has", <<"n.h">>, "quoted">>), text({C("A")}), else,
                                 text({C("B")}), endif, incq(<<"n.h">>)>>)
       @@ At(<<"one", "n.h">>, <<text({C("D")})>>)
       @@ At(H("n.h"), <<text({C("E")})>>),
       {request(Y)}, {})) EXCEPT
         !.tree = (<<"two", "m.h">> :> <<"one", "m.h">>) @@ @]

\* A directory of payload sources, an assembly file that a C file includes
\* too, and files the compiler does not compile.
DirTree ==
    At(<<"pay", "entry.S">>, <<if(def(M("__ASSEMBLY__"))), inc(<<"a.h">>), else,
                               inc(<<"c.h">>), endif>>)
    @@ At(<<"pay", "notes.h">>, <<inc(<<"nowhere.h">>)>>)
    @@ At(<<"pay", "sub", "part.c">>, <<incq(<<"..", "entry.S">>),
                                        if(def(C("A"))), inc(<<"b.h">>), endif>>)
    @@ At(Main, <<incq(<<"..", "pay", "sub", "part.c">>)>>)
    @@ Headers

DirRequests ==
    {[request(conf) EXCEPT !.dir = <<"pay">>, !.profile = p] :
       conf \in {Y, config([A |-> "n"])}, p \in {"", "arm64-vdso"}}
    \cup {request(Y), [request(Y) EXCEPT !.source = <<"pay", "entry.S">>, !.assembly = TRUE],
          [request(Y) EXCEPT !.source = <<"pay", "gone.c">>]}

Directories ==
    {[project(DirTree, DirRequests, {})
        EXCEPT !.order = <<<<"pay", "entry.S">>, <<"pay", "notes.h">>,
                           <<"pay", "sub", "part.c">>>>]}

\* Files that include each other, or themselves, under conditions.
CycleTree(c1, c2) ==
    At(Main, <<inc(<<"a.h">>)>>)
    @@ At(H("a.h"), <<if(c1), inc(<<"b.h">>), endif>>)
    @@ At(H("b.h"), <<if(c2), inc(<<"a.h">>), else, incq(<<"b.h">>), endif, text({C("B")})>>)

Cycles == {project(CycleTree(c1, c2), Requests({config([A |-> "m"])}), {})
             : c1 \in Conditions, c2 \in Conditions}

(***************************************************************************)
(* A source that asks for the module's name of a symbol and never for its  *)
(* own: the scanner is wrong here, and the other trees avoid it.           *)
(***************************************************************************)
ModuleNameScanners ==
    {project(At(Main, <<if(def(<<"module", "A">>)), inc(<<"c.h">>), else, inc(<<"b.h">>), endif>>)
             @@ Headers,
       {request(config([A |-> "m"]))}, {})}

MCScanners == TwoConditions \cup NestedConditions \cup Searches \cup Wrappers \cup Fdt
              \cup Trace \cup Vdsos \cup Strings \cup Bins \cup Flags \cup {MappedTree} \cup Directories
              \cup Cycles

(***************************************************************************)
(* The conditions of these trees, of those of MCActionFootprint too.       *)
(***************************************************************************)
Tested ==
    {C(x) : x \in {"A", "S", "SMP", "GCC_PLUGINS", "KVM", "VMX", "ASN1", "CRC32_BIT"}}
      \cup {M(x) : x \in {"U", "F", "A_H", "B_H", "EV_H", "LIBFDT_ENV_H", "CREATE", "MULTI",
                          "RANDSTRUCT", "MODULE", "BUILD_VDSO", "__GENKSYMS__", "__ASSEMBLY__",
                          "DISABLE_BRANCH_PROFILING", "__DISABLE_EXPORTS", "GENERATING_BOUNDS"}}
      \cup {<<"module", "A">>}

Single ==
    ({"defined", "value", "IS_BUILTIN", "IS_MODULE", "IS_ENABLED", "IS_REACHABLE"} \X Tested)
      \cup {<<"has", path, "quoted">> : path \in {<<"y.h">>, <<"n.h">>}}
      \cup {<<"has", <<"generated", "g.h">>, "angled">>, <<"int", 0>>, <<"other">>}

Joined ==
    {<<"or", val(M("U")), not(<<"IS_ENABLED", C("A")>>)>>,
     <<"and", not(val(M("U"))), <<"IS_BUILTIN", C("A")>>>>,
     <<"or", def(C("A")), def(<<"module", "A">>)>>,
     <<"or", not(def(M("EV_H"))), def(M("MULTI"))>>}

AllTerms == Single \cup {not(c) : c \in Single} \cup Joined

MCTerms == AllTerms

(***************************************************************************)
(* What an answer is worth.                                                *)
(***************************************************************************)
Worlds == [vals : [scanner.macros -> {"undefined", "zero", "one"}],
           generated : BOOLEAN, other : BOOLEAN]

Everything == {"A", "B", "D", "E", "G", "S", "RANDSTRUCT"}

Answered(n) == answers[n].answer # Failed

\* The sources of a request with the mode each is compiled in.
Compiled(q) == {[source |-> source, q |-> scanRequest(q, source)] :
                  source \in ToSet(sourcesOf(scanner, q))}

Latest == Len(answers)

sameRun(whole, own) ==
    /\ own.opened = whole.opened /\ own.bins = whole.bins
    /\ own.generated = whole.generated
    /\ own.lines = whole.lines /\ own.stopped = whole.stopped

\* Whatever the unknown macros turn out to be, the compiler opens only source
\* files that the scan recorded as inputs, only generated headers that it
\* recorded or was told of, and it evaluates or compiles no line with a CONFIG
\* symbol that is missing from its references.
\* (closureForSourceConfigInputsSearchProfile, config_footprint.go:561-792)
CoversCompiler ==
    current = Idle /\ answers # <<>> /\ Answered(Latest) =>
      \A s \in Compiled(answers[Latest].request), w \in Worlds :
        \A run \in {compile(scanner, s.q, s.source, w, Everything)} :
          /\ run.opened \cup run.bins \subseteq answers[Latest].answer.inputs
          /\ run.generated \subseteq answers[Latest].answer.generated
          /\ run.mentions \subseteq answers[Latest].answer.refs

\* An action that is given only the configuration symbols of its references
\* compiles the same lines with the same values, and opens the same files, as
\* one that is given the whole configuration: two configurations with one
\* fragment may share the object.
\* (resolvedKbuildObject.variant, compact.go:2440-2485; scanFile,
\* config_footprint.go:919-1099)
FragmentSuffices ==
    current = Idle /\ answers # <<>> /\ Answered(Latest) =>
      \A s \in Compiled(answers[Latest].request), w \in Worlds :
        sameRun(compile(scanner, s.q, s.source, w, Everything),
                compile(scanner, s.q, s.source, w, fragmentSymbols(answers[Latest].answer.refs)))

\* The scanner refuses a source only when there is something it cannot
\* account for: in some world the compiler does not get through, or the
\* source or a directory of its flags does not exist.
\* (closureForSourceConfigInputsSearchProfile, config_footprint.go:594-792;
\* resolveSourceFlagPath, config_footprint.go:382-427)
RefusedForCause ==
    current = Idle /\ answers # <<>> =>
      LET q == answers[Latest].request
      IN ~Answered(Latest) =>
           \/ searchOf(scanner, q) = Failed
           \/ \E s \in Compiled(q) :
                \/ ~absForTreePath(scanner, s.source)
                \/ \E w \in Worlds :
                     compile(scanner, s.q, s.source, w, Everything).stopped

\* What the scanner answers is right for the compiler, and so is its refusal.
AnswersAreRight == CoversCompiler /\ RefusedForCause

\* Every request is answered: files that include each other, or one that
\* includes itself, do not keep the scanner busy for ever.
\* (closureForSourceConfigInputsSearchProfile, config_footprint.go:620-627)
ScanEnds == current # Idle ~> current = Idle
=============================================================================
