------------------------- MODULE MCKconfigResolver -------------------------
(***************************************************************************)
(* Small Kconfig sources for the resolver: every combination of prompt,    *)
(* default, dependency, select and imply between two symbols and the       *)
(* modules symbol, a choice behind a gate, integers with ranges, and       *)
(* sources that contradict themselves.                                     *)
(***************************************************************************)
EXTENDS KconfigResolver, KconfigTree

Sym(s) == SymbolExpr(s)
C(x) == ConstExpr(Str(x))
CN(k) == ConstExpr(Num(k))
Not(e) == <<"!", e>>

Prompt(vis) == [type |-> "prompt", expr |-> Nil, visible |-> vis]
Default(e, vis) == [type |-> "default", expr |-> e, visible |-> vis]
Select(s, vis) == [type |-> "select", expr |-> Sym(s), visible |-> vis]
Imply(s, vis) == [type |-> "imply", expr |-> Sym(s), visible |-> vis]
RangeProp(lo, hi, vis) == [type |-> "range", expr |-> <<"..", lo, hi>>, visible |-> vis]

Entry(kind, parent, s, type, dep, props) ==
    [kind |-> kind, parent |-> parent, symbol |-> s, type |-> type, dep |-> dep,
     visibility |-> Nil, props |-> props]
Config(s, type, dep, props) == Entry("config", 0, s, type, dep, props)
ConfigIn(parent, s, type, dep, props) == Entry("config", parent, s, type, dep, props)

ModulesEntry == Config("MODULES", "bool", Nil, <<Prompt(Nil)>>)

(* Two symbols: A may depend on, default to, select or imply B. *)
Visibilities == << [dep |-> Nil, prompt |-> <<>>], [dep |-> Nil, prompt |-> <<Prompt(Nil)>>],
                   [dep |-> Nil, prompt |-> <<Prompt(Sym("B"))>>], [dep |-> Sym("B"), prompt |-> <<Prompt(Nil)>>] >>
Defaults == << <<>>, <<Default(C("y"), Nil)>>, <<Default(C("m"), Sym("B"))>> >>
Relations == << <<>>, <<Select("B", Nil)>>, <<Imply("B", Nil)>> >>
OtherSymbol == << Config("B", "bool", Nil, <<Prompt(Nil)>>),
                  Config("B", "tristate", Nil, <<Prompt(Nil), Default(C("m"), Nil)>>) >>
PairTree(vis, def, rel, b) ==
    finalize(<< Config("A", "tristate", vis.dep, vis.prompt \o def \o rel), b, ModulesEntry >>,
             <<"A", "B", "MODULES">>, "MODULES", {})
PairTrees == [k \in 1 .. 36 |->
                PairTree(Visibilities[1 + (k % 4)], Defaults[1 + ((k \div 4) % 3)],
                         Relations[1 + ((k \div 12) % 3)], OtherSymbol[1 + ((k \div 4) % 2)])]

(* A tristate that is on selects a symbol whose own dependency is not met,  *)
(* defined a second time in a dead if block.                                *)
RedefinedSource ==
    << Entry("if", 0, "", "unknown", Sym("GONE"), <<>>),
       ConfigIn(1, "B", "bool", Nil, <<Default(C("y"), Nil)>>),
       Config("A", "tristate", Nil, <<Prompt(Nil), Select("B", Sym("MODULES")), Imply("D", Nil)>>),
       Config("B", "bool", Nil, <<Prompt(Nil)>>),
       Config("D", "tristate", Not(Sym("B")), <<Prompt(Not(Sym("A")))>>),
       ModulesEntry >>
RedefinedTree == finalize(RedefinedSource, <<"A", "B", "D", "MODULES">>, "MODULES", {})

(* A choice of three members: all behind a gate, one hidden by it. *)
ChoiceTree(dep, mid, def) ==
    finalize(<< Config("G", "bool", Nil, <<Prompt(Nil)>>),
                Entry("choice", 0, "<choice>", "bool", <<Nil, Sym("G")>>[dep], <<Prompt(Nil)>> \o
                      << <<>>, <<Default(Sym("CB"), Sym("G")), Default(Sym("CC"), Nil)>> >>[def]),
                ConfigIn(2, "CA", "bool", Nil, <<Prompt(Nil), Select("Z", Nil)>>),
                ConfigIn(2, "CB", "bool", <<Nil, Not(Sym("G"))>>[mid], <<Prompt(Nil)>>),
                ConfigIn(2, "CC", "bool", Nil, <<Prompt(Nil)>>),
                Config("Z", "bool", Nil, <<Default(Sym("CB"), Nil)>>) >>,
             <<"CA", "CB", "CC", "G", "Z">>, "", {})
ChoiceTrees == [k \in 1 .. 4 |-> ChoiceTree(1 + (k % 2), 1 + (k \div 3), 1 + ((k \div 2) % 2))]

(* Integers: L bounds P from below, and P decides a bool. *)
ScalarTree(prompt) ==
    finalize(<< Config("B", "bool", <<">", Sym("P"), CN(2)>>, <<Prompt(Nil)>>),
                Config("L", "int", Nil, <<Default(CN(1), Sym("G")), Default(CN(4), Nil)>> \o prompt),
                Config("P", "int", Nil, <<Prompt(Sym("G")), RangeProp(Sym("L"), CN(3), Sym("G")),
                                          RangeProp(CN(2), Sym("Q"), Nil)>>),
                Config("Q", "hex", Nil, <<Default(CN(9), Nil)>>),
                Config("G", "bool", Nil, <<Prompt(Nil)>>),
                Config("T", "string", Nil, <<Prompt(Sym("P")), Default(C("txt"), Sym("B"))>>) >>,
             <<"B", "G", "L", "P", "Q", "T">>, "", {})
ScalarTrees == <<ScalarTree(<<>>), ScalarTree(<<Prompt(Nil)>>)>>

(* A symbol that defaults to its own negation, and two that chase each      *)
(* other through a select.                                                  *)
CyclicTree(a, b) == finalize(<<Config("A", "bool", a.dep, a.props), Config("B", "bool", Nil, <<b>>)>>, <<"A", "B">>, "", {})
CyclicTrees ==
    << CyclicTree([dep |-> Nil, props |-> <<Default(Not(Sym("A")), Nil)>>], Prompt(Nil)),
       CyclicTree([dep |-> Nil, props |-> <<Default(Not(Sym("B")), Nil)>>], Default(Sym("A"), Nil)),
       CyclicTree([dep |-> Sym("B"), props |-> <<Prompt(Nil), Select("B", Nil)>>], Prompt(Nil)) >>

(* Sources whose bool and tristate symbols read nothing else, then all.      *)
SmallTrees == <<RedefinedTree>> \o PairTrees \o ChoiceTrees \o CyclicTrees
ResolverTrees == SmallTrees \o ScalarTrees
MCTextLess(a, b) == FALSE

(* The values a .config may give to a symbol. *)
RawValues(t, s) ==
    CASE s \in {"MODULES", "G"} -> {Str("y")}
      [] s = "RUST" -> {Str("y")}
      [] s = "N" -> {Num(4)}
      [] s = "L" -> {Num(0)}
      [] s = "P" -> {Num(0), Num(3), Num(12), Str("bad")}
      [] s \in {"Q", "T", "X", "Z", "RV"} -> {}
      [] s \in {"CA", "CB", "CC"} -> {Str("n"), Str("y")}
      [] t.type[s] = "tristate" -> {Str("n"), Str("m"), Str("y")}
      [] OTHER -> {Str("n"), Str("y")}

(* Every .config over those values: each symbol set to one of them or left  *)
(* out.                                                                     *)
MCRawConfigs(t) ==
    LET With(s, configs) == configs \cup {c @@ (s :> x) : c \in configs, x \in RawValues(t, s)}
    IN FoldSet(With, {<<>>}, t.symbols)

-----------------------------------------------------------------------------
(* The symbols whose value the value of s is computed from. *)
Reads(t, s) ==
    LET Peers == {s} \cup UNION {Members(t.choices[k]) : k \in {j \in DOMAIN t.choices : s \in Members(t.choices[j])}}
        Conditions(props) == {props[k].visible : k \in {j \in DOMAIN props : props[j].type \in {"prompt", "default", "range"}}}
                             \cup {props[k].expr : k \in {j \in DOMAIN props : props[j].type \in {"default", "range"}}}
        Used == IF s \in t.inChoice
                THEN {t.dirdep[x] : x \in Peers}
                     \cup UNION {{t.choices[k].props[j].visible : j \in DOMAIN t.choices[k].props} : k \in DOMAIN t.choices}
                ELSE Conditions(t.props[s]) \cup {t.dirdep[s], t.revdep[s], t.implied[s]}
    IN {x \in t.symbols : SymbolExpr(x) \in subExprs(Used)}
       \cup IF t.type[s] = "tristate" /\ t.modules # "" THEN {t.modules} ELSE {}

(* No set of symbols feeds itself. *)
Acyclic(t) == \A S \in SUBSET t.symbols \ {{}} : \E s \in S : Reads(t, s) \cap S = {}

AcyclicTrees == {k \in DOMAIN SmallTrees : Acyclic(SmallTrees[k])}

(* On a source without circular dependencies the resolver never gives up: a *)
(* sweep settles at least one more symbol, so far fewer sweeps are needed   *)
(* than ResolveConfigWithOptions allows.                                    *)
Converges ==
    resolver.tree \in AcyclicTrees => status # "failed" /\ sweep <= Cardinality(Tree(resolver).symbols) + 2

Assignments(t) == {e \in [TriSymbols(t) -> Tri] : \A s \in TriSymbols(t) : t.type[s] = "bool" => e[s] # triM}

(* On a source without circular dependencies the result does not depend on  *)
(* the order of the sweep: no other assignment of bool and tristate values  *)
(* satisfies all the rules.                                                 *)
UniqueFixpoint ==
    Resolved /\ resolver.tree \in AcyclicTrees => \A e \in Assignments(Tree(resolver)) :
        Stable([resolver EXCEPT !.effective = e,
                                !.written = [s \in DOMAIN @ |-> IF s \in DOMAIN e THEN e[s] # triN ELSE @[s]]])
        => e = resolver.effective

=============================================================================
