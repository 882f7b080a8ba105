--------------------------- MODULE MCCompactBatch ---------------------------
(***************************************************************************)
(* Instances of CompactBatch.  A configuration is a choice of knobs, each  *)
(* of which changes one thing the content IDs must notice:                 *)
(*   S  a symbol that only the source of a.o mentions (a.o and the member  *)
(*      of the nVHE object read another file under it)                     *)
(*   U  a symbol in the Kbuild footprint of b.o, y but unwritten without it *)
(*   M  k.o (members a.o and b.o) is a module                              *)
(*   F  b.o has one more C flag                                            *)
(*   G  d.o has one more flag                                              *)
(*   C  another symbol in the footprint of b.o, and P another flag of it,  *)
(*      that the short content IDs do not show                             *)
(*   V  symbol versions                                                    *)
(*   H  the header family gen, which d.o includes, has another content     *)
(*   A  d.o includes a header of the all family as well                    *)
(***************************************************************************)
EXTENDS CompactBatch

MCNameOrder == <<"a.o", "b.o", "d.o", "e.o", "k.o", "l.o", "m.nvhe.o", "nvhe.o", "rust/r.o", "x.asn1.o">>
MCLibraryDirs == <<"lib">>
MCKernelFlagSymbols == {"K"}
MCObjtoolSymbols == {"O"}
Symbols == {"S", "U", "C", "V", "W", "H", "K", "O", "L", "A"}

plain == [source |-> "", language |-> "", asn1 |-> {}, special |-> FALSE, nvhe |-> FALSE,
          fullConfig |-> FALSE, allHeaders |-> FALSE, rust |-> FALSE]
cFile(path) == [plain EXCEPT !.source = path, !.language = "c"]

MCFacts ==
    [o \in ToSet(MCNameOrder) |->
       CASE o = "a.o" -> cFile("a.c")
         [] o = "b.o" -> [cFile("b.c") EXCEPT !.asn1 = {"x.asn1.o", "absent.o"}]
         [] o = "d.o" -> [plain EXCEPT !.source = "d.S", !.language = "asm"]
         [] o = "e.o" -> [cFile("e.c") EXCEPT !.allHeaders = TRUE]
         [] o = "l.o" -> [cFile("l.c") EXCEPT !.fullConfig = TRUE]
         [] o = "m.nvhe.o" -> cFile("m.c")
         [] o = "nvhe.o" -> [plain EXCEPT !.nvhe = TRUE]
         [] o = "rust/r.o" -> [plain EXCEPT !.rust = TRUE, !.source = "rust/r.rs"]
         [] o = "x.asn1.o" -> [cFile("x.asn1") EXCEPT !.special = TRUE]
         [] OTHER -> plain]

on(values, s) == values[s] = "y"
file(path) == <<path, "d0">>
preincludes == {file("compiler-version.h"), file("kconfig.h"), file("compiler_types.h")}

MCClosure(o, values) ==
    LET src == MCFacts[o].source
        own == preincludes \cup (IF src = "" THEN {} ELSE {file(src)})
    IN  CASE o \in {"a.o", "m.nvhe.o"} ->
               [refs |-> {"S"}, includes |-> {},
                inputs |-> own \cup (IF on(values, "S") THEN {file("s.h")} ELSE {})]
          [] o = "d.o" ->
               [refs |-> {"A"}, inputs |-> own,
                includes |-> {"gen"} \cup (IF on(values, "A") THEN {All} ELSE {})]
          [] o = "nvhe.o" -> [refs |-> {}, includes |-> {}, inputs |-> {file("hyp.lds.S")}]
          [] OTHER -> [refs |-> {}, includes |-> {}, inputs |-> own]

\* A short ID in which one flag of a compile action does not show, nor one symbol
\* that is set: objects and environments that differ in nothing else collide.
MCShort(id) ==
    LET shown(flags) == SelectSeq(flags, LAMBDA f : f # "-DC")
    IN  CASE id.domain = "object" -> [id EXCEPT !.flags = shown(@)]
          [] id.domain = "payload" /\ <<"C", "y">> \in id.content ->
               [id EXCEPT !.content = (@ \ {<<"C", "y">>}) \cup {<<"C", "n">>}]
          [] OTHER -> id

leaf == [mode |-> "y", root |-> FALSE, members |-> <<>>, flags |-> <<>>, remove |-> <<>>,
         modname |-> "", footprint |-> {},
         objtool |-> [disabled |-> FALSE, force |-> FALSE, args |-> <<>>]]
flag(language, text) == [language |-> language, text |-> text]

chosen(knobs, texts) ==
    LET given == SetToSeq(DOMAIN texts \cap knobs) IN [i \in DOMAIN given |-> flag("c", texts[given[i]])]

graph(knobs) ==
    LET mode == IF "M" \in knobs THEN "m" ELSE "y"
    IN  [o \in {"a.o", "b.o", "d.o", "e.o", "k.o", "l.o", "m.nvhe.o", "nvhe.o", "x.asn1.o"} |->
           CASE o = "a.o" -> [leaf EXCEPT !.mode = mode, !.modname = "k",
                                          !.flags = <<flag("asm", "-DASM"), flag("any", "-O2")>>]
             [] o = "b.o" -> [leaf EXCEPT !.mode = mode, !.modname = "k", !.footprint = {"U", "C"},
                                          !.flags = chosen(knobs, [F |-> "-DF", P |-> "-DC"])]
             [] o = "d.o" -> [leaf EXCEPT !.root = TRUE, !.remove = <<flag("asm", "-pg")>>,
                                          !.flags = IF "G" \in knobs
                                                      THEN <<flag("any", "-DG")>> ELSE <<>>]
             [] o = "e.o" -> [leaf EXCEPT !.mode = "m", !.root = TRUE, !.modname = "e"]
             [] o = "k.o" -> [leaf EXCEPT !.mode = mode, !.root = TRUE, !.members = <<"b.o", "a.o">>,
                                          !.objtool = [@ EXCEPT !.force = TRUE]]
             [] o = "l.o" -> [leaf EXCEPT !.objtool = [@ EXCEPT !.disabled = TRUE]]
             [] o = "nvhe.o" -> [leaf EXCEPT !.root = TRUE, !.members = <<"m.nvhe.o">>]
             [] OTHER -> leaf]

header(name, fragment, deps) ==
    [name |-> name, fragment |-> fragment, deps |-> deps, inputs |-> {file("gen.sh")}]

configOf(name, knobs) ==
    [name |-> name, image |-> name, label |-> name,
     values |-> [s \in Symbols |-> IF s \in knobs \cup {"U"} THEN "y" ELSE "n"],
     written |-> Symbols \ ({"U"} \ knobs),
     objects |-> graph(knobs),
     roots |-> <<"k.o", "d.o", "e.o", "nvhe.o">>,
     libRoots |-> <<[object |-> "x.asn1.o", directory |-> "other"],
                    [object |-> "l.o", directory |-> "lib"]>>,
     headers |-> <<header("gen", {<<"H", IF "H" \in knobs THEN "y" ELSE "n">>}, {}),
                   header("all", {}, {"gen"})>>]

Knobs == {"S", "U", "M", "F", "V", "H"}

MCBatches ==
    {<<configOf("c1", k1), configOf("c2", k2)>> : k1 \in SUBSET {"M", "H", "U"},
                                                  k2 \in SUBSET Knobs}

SmallBatches ==
    {<<configOf("c1", {}), configOf("c2", k2), configOf("c3", k3)>> :
        k2 \in SUBSET {"S", "P", "G"}, k3 \in SUBSET {"S", "M", "C"}}

\* Configurations that the batch must refuse, next to one that is good.
good == configOf("c1", {"S"})
with(o, attr) == [configOf("c2", {}) EXCEPT !.objects =
                    [x \in DOMAIN @ \cup {o} |-> IF x = o THEN attr ELSE @[x]]]
broken ==
    {with("k.o", [leaf EXCEPT !.members = <<"missing.o">>]),
     with("k.o", [leaf EXCEPT !.members = <<"nvhe.o">>]),
     with("nvhe.o", [leaf EXCEPT !.members = <<"k.o">>]),
     with("k.o", [leaf EXCEPT !.members = <<"rust/r.o">>]),
     [with("rust/r.o", leaf) EXCEPT !.objects["k.o"] = [leaf EXCEPT !.root = TRUE,
                                                          !.members = <<"rust/r.o", "a.o">>]],
     with("k.o", leaf),
     with("rust/r.o", leaf),
     [with("nvhe.o", [leaf EXCEPT !.members = <<"k.o">>])
        EXCEPT !.objects["k.o"] = [leaf EXCEPT !.members = <<"nvhe.o">>]],
     configOf("c2", {"A"}),
     [configOf("c2", {"A"}) EXCEPT !.headers = <<header("all", {}, {})>>],
     [configOf("c2", {}) EXCEPT !.name = "c1"],
     [configOf("c2", {}) EXCEPT !.name = ""],
     [configOf("c2", {}) EXCEPT !.image = "c1"],
     [configOf("c2", {}) EXCEPT !.headers = Tail(@)],
     [configOf("c2", {}) EXCEPT !.headers = @ \o @],
     [configOf("c2", {}) EXCEPT !.headers = <<header("all", {}, {})>>],
     [configOf("c2", {}) EXCEPT !.headers = <<header("gen", {}, {})>>],
     [configOf("c2", {}) EXCEPT !.headers = <<>>],
     [configOf("c2", {}) EXCEPT !.headers[1].inputs = {<<"gen.sh", "d1">>}],
     [configOf("c2", {}) EXCEPT !.headers[1].inputs = {<<"a.c", "d1">>}]}

BrokenBatches == {<<good, c>> : c \in broken} \cup {<<c, good>> : c \in broken}
=============================================================================
