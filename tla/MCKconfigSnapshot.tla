------------------------- MODULE MCKconfigSnapshot -------------------------
(***************************************************************************)
(* Small Kconfig sources for the snapshot pipeline.  RV is the version of  *)
(* the selected rustc: the repository rule sees one value of it, an action *)
(* may see another.                                                        *)
(***************************************************************************)
EXTENDS KconfigSnapshot, MCKconfigResolver

AtLeast(k) == <<">=", Sym("RV"), CN(k)>>

(* A: a driver that may select B; B: on by default; N: a number that a newer *)
(* rustc may change; X: hidden, on with a newer rustc, and then contradicting *)
(* itself when A is a module.                                                *)
RustSource(version, select, b) ==
    << Config("A", "tristate", Nil, <<Prompt(Nil)>> \o select),
       Config("B", "tristate", Nil, b),
       Config("MODULES", "bool", Nil, <<Prompt(Nil)>>),
       Config("N", "int", Nil, <<Prompt(Sym("B")), Default(CN(5), AtLeast(2)), Default(CN(4), Nil)>>),
       Config("RUST", "bool", AtLeast(1), <<Prompt(Nil)>>),
       Config("RV", "int", Nil, <<Default(CN(version), Nil)>>),
       Config("X", "bool", Nil, <<Default(<<"!", Sym("X")>>, <<"&&", AtLeast(2), <<"=", Sym("A"), C("m")>>>>),
                                  Default(C("y"), AtLeast(2))>>) >>

Selects == << <<>>, <<Select("B", Nil)>> >>
RustOther == << <<Prompt(Nil), Default(C("y"), Nil)>>,
                <<Prompt(Nil), Default(Sym("A"), Nil)>>,
                <<Prompt(Sym("A")), Default(C("y"), Nil)>> >>

(* Three variants with rustc version 1, then the same with version 2. *)
RustNames == <<"A", "B", "MODULES", "N", "RUST", "RV", "X">>
TreeAt(k) ==
    finalize(RustSource(1 + (k \div 4), Selects[1 + ((k % 3) % 2)], RustOther[1 + (k % 3)]), RustNames, "MODULES", {"RV"})
RustTrees == [k \in 1 .. 6 |-> TreeAt(k)]
MCTrees == LET trees == ResolverTrees \o RustTrees IN trees

(* The tree of an action has the source of the repository rule; for a Rust   *)
(* kernel either version of rustc.                                           *)
MCActionTrees(id) ==
    LET rust == Len(ResolverTrees) IN
    IF id <= rust THEN {id} ELSE {k \in rust + 1 .. rust + 6 : k % 3 = id % 3}

(* On a source without circular dependencies the sweeps settle, soon, on the  *)
(* only configuration there is, for a .config and for a snapshot of it.      *)
Settles == Converges /\ (stage \in {"repository", "graph"} => UniqueFixpoint)
=============================================================================
