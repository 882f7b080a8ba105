---------------------------- MODULE KconfigTree ----------------------------
(***************************************************************************)
(* The last phase of the Kconfig parser: finalize() of                     *)
(* internal/kconfig/parser.go, with the expression constructors of         *)
(* internal/kconfig/expr.go.  It pushes the dependencies of enclosing      *)
(* menus, if blocks and choices down into every entry and property, and    *)
(* collects reverse dependencies (select) and implied values (imply) on    *)
(* their targets.                                                          *)
(*                                                                         *)
(* Its input is the menu tree the parser built, as the sequence of its     *)
(* entries in source order, each with the position of its parent (0 is     *)
(* the root):                                                              *)
(*   [kind, parent, symbol, type, dep, visibility, props]                  *)
(* where kind is "config", "choice", "menu", "if" or "comment", and a      *)
(* property is [type, expr, visible].                                      *)
(***************************************************************************)
EXTENDS KconfigTerms, FiniteSets, SequencesExt

(***************************************************************************)
(* Constructors.  The nil expression is neutral in both: as a dependency   *)
(* it stands for y, but orExpr(nil, d) is d.                               *)
(***************************************************************************)
isConst(e, x) == e = ConstExpr(Str(x))

andExpr(left, right) ==
    IF left = Nil THEN right
    ELSE IF right = Nil THEN left
    ELSE IF isConst(left, "y") THEN right
    ELSE IF isConst(right, "y") THEN left
    ELSE IF isConst(left, "n") \/ isConst(right, "n") THEN ConstExpr(Str("n"))
    ELSE <<"&&", left, right>>

orExpr(left, right) ==
    IF left = Nil THEN right
    ELSE IF right = Nil THEN left
    ELSE IF isConst(left, "n") THEN right
    ELSE IF isConst(right, "n") THEN left
    ELSE IF isConst(left, "y") \/ isConst(right, "y") THEN ConstExpr(Str("y"))
    ELSE <<"||", left, right>>

(* The subexpressions of a set of expressions, which nest no deeper than     *)
(* ExprDepth.                                                               *)
ExprDepth == 12
subExprs(E) ==
    LET below[d \in 0 .. ExprDepth] == IF d = 0 THEN E ELSE UNION {children(e) : e \in below[d - 1]}
    IN UNION {below[d] : d \in 0 .. ExprDepth}

(* The constant m outside a comparison is m && MODULES. *)
rewriteMExpr(e, modules) ==
    LET rewrite[x \in subExprs({e})] ==
            CASE x[1] = "const" -> IF isConst(x, "m") THEN andExpr(x, modules) ELSE x
              [] x[1] = "!" -> <<"!", rewrite[x[2]]>>
              [] x[1] \in {"&&", "||"} -> <<x[1], rewrite[x[2]], rewrite[x[3]]>>
              [] OTHER -> x
    IN rewrite[e]

-----------------------------------------------------------------------------
(* finalizeMenu, entry by entry in source order: a parent comes before its   *)
(* children.                                                                 *)

(* The expression standing for the modules option: its symbol, or n. *)
modulesExpr(modules) == IF modules = "" THEN ConstExpr(Str("n")) ELSE SymbolExpr(modules)

(* The dependency an entry ends up with: its own and its parents'. *)
menuDep(src, modules) ==
    LET dep[k \in 0 .. Len(src)] ==
            IF k = 0 THEN Nil
            ELSE andExpr(dep[src[k].parent], rewriteMExpr(src[k].dep, modulesExpr(modules)))
    IN dep

(* The "visible if" conditions of the menus around the children of an entry. *)
childVisibility(src, modules) ==
    LET vis[k \in 0 .. Len(src)] ==
            IF k = 0 THEN Nil
            ELSE IF src[k].kind = "menu"
            THEN andExpr(vis[src[k].parent], rewriteMExpr(src[k].visibility, modulesExpr(modules)))
            ELSE vis[src[k].parent]
    IN vis

(* A property's final condition. *)
finalProp(prop, dep, visibility, modules) ==
    LET own == rewriteMExpr(prop.visible, modulesExpr(modules))
    IN [prop EXCEPT !.visible = andExpr(dep, IF prop.type = "prompt" THEN andExpr(visibility, own) ELSE own)]

(* The choice whose members the children of an entry are: the innermost one, *)
(* or 0.                                                                     *)
currentChoice(src) ==
    LET choice[k \in 0 .. Len(src)] ==
            IF k = 0 THEN 0 ELSE IF src[k].kind = "choice" THEN k ELSE choice[src[k].parent]
    IN choice

(***************************************************************************)
(* The finalized tree of a source.  names lists the symbols in the order   *)
(* of their names; rust are those that belong to the Rust toolchain.       *)
(***************************************************************************)
finalize(src, names, modules, rust) ==
    LET dep == menuDep(src, modules)
        vis == childVisibility(src, modules)
        choiceOf == currentChoice(src)
        configs == SelectSeq([k \in DOMAIN src |-> k], LAMBDA k : src[k].kind = "config")
        choices == SelectSeq([k \in DOMAIN src |-> k], LAMBDA k : src[k].kind = "choice")
        symbols == {src[configs[j]].symbol : j \in DOMAIN configs}
        final == [k \in DOMAIN src |->
                    [j \in DOMAIN src[k].props |-> finalProp(src[k].props[j], dep[k], vis[src[k].parent], modules)]]
        definitions == [s \in symbols |-> SelectSeq(configs, LAMBDA k : src[k].symbol = s)]
        (* setType: the first type given to a symbol stays *)
        typed(s) == SelectSeq(definitions[s], LAMBDA k : src[k].type # "unknown")
        type == [s \in symbols |-> IF typed(s) = <<>> THEN "unknown" ELSE src[typed(s)[1]].type]
        (* every select or imply of s: the selecting symbol under the property's condition *)
        reverse(s, kind) ==
            FoldLeft(orExpr, Nil, FlattenSeq([j \in DOMAIN configs |->
                LET k == configs[j]
                    hits == SelectSeq(final[k], LAMBDA p : p.type = kind /\ p.expr = SymbolExpr(s))
                IN [h \in DOMAIN hits |-> andExpr(SymbolExpr(src[k].symbol), hits[h].visible)]]))
        members(c) == SelectSeq(configs, LAMBDA k : choiceOf[src[k].parent] = c)
        inChoice == {src[configs[j]].symbol : j \in {h \in DOMAIN configs : choiceOf[src[configs[h]].parent] # 0}}
        properties == UNION {{final[k][j] : j \in DOMAIN final[k]} : k \in DOMAIN src}
        dirDep == [s \in symbols |->
                     FoldLeft(orExpr, Nil, [j \in DOMAIN definitions[s] |-> dep[definitions[s][j]]])]
        revDep == [s \in symbols |-> reverse(s, "select")]
        implied == [s \in symbols |-> reverse(s, "imply")]
        deps == [s \in symbols |-> {dep[definitions[s][j]] : j \in DOMAIN definitions[s]}]
    IN [symbols |-> symbols, type |-> type,
        props |-> [s \in symbols |-> FlattenSeq([j \in DOMAIN definitions[s] |-> final[definitions[s][j]]])],
        dirdep |-> dirDep, revdep |-> revDep, implied |-> implied, deps |-> deps,
        scalars |-> SelectSeq(names, LAMBDA s : type[s] \in ScalarTypes),
        tristates |-> SelectSeq(names, LAMBDA s : type[s] \in TriTypes /\ s \notin inChoice),
        inChoice |-> inChoice,
        choices |-> [j \in DOMAIN choices |->
                       [members |-> [m \in DOMAIN members(choices[j]) |-> src[members(choices[j])[m]].symbol],
                        props |-> final[choices[j]]]],
        modules |-> modules, rust |-> rust, properties |-> properties,
        exprs |-> subExprs({dirDep[s] : s \in symbols} \cup {revDep[s] : s \in symbols}
                           \cup {implied[s] : s \in symbols} \cup UNION {deps[s] : s \in symbols}
                           \cup {p.expr : p \in properties} \cup {p.visible : p \in properties})]
=============================================================================
