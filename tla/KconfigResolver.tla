-------------------------- MODULE KconfigResolver --------------------------
(***************************************************************************)
(* The Kconfig value resolver, Tree.ResolveConfigWithOptions of            *)
(* internal/kconfig/config.go: effective values of one imported .config    *)
(* are computed by sweeping over every symbol, in place, until a whole     *)
(* sweep changes nothing, or until a fixed number of sweeps has been used  *)
(* up, which is an error.                                                  *)
(*                                                                         *)
(* The variable resolver is the configResolver of the code; the operators  *)
(* below that take r first are its methods.  A tree is what the parser     *)
(* leaves behind once finalize() has run (module KconfigTree builds one).  *)
(*                                                                         *)
(* The operators whose comment begins with "Fault" are not used: they are  *)
(* plausible wrong versions of the definition that follows, kept to see    *)
(* which property notices them.                                            *)
(***************************************************************************)
EXTENDS KconfigTerms, FiniteSets

CONSTANTS
    Trees,           \* the finalized Kconfig trees to resolve in, a function
    RawConfigs(_),   \* RawConfigs(t): the imported .config files for tree t
    AllNoModes,      \* subset of BOOLEAN: the -config_mode values in use
    TextLess(_, _)   \* lexicographic order of Go strings that are not numbers

Steps(t) == Len(t.scalars) + Len(t.tristates) + Len(t.choices)

(***************************************************************************)
(* What a tree is: each step of the sweep names a symbol of the right      *)
(* kind, the members of a choice carry tristate values, and a bool or      *)
(* tristate symbol is either swept on its own or belongs to a choice.      *)
(***************************************************************************)
Free(t) == {t.tristates[k] : k \in DOMAIN t.tristates}
Members(c) == {c.members[k] : k \in DOMAIN c.members}

(* Expressions are finite terms. *)
WellFormedExprs(t) ==
    LET depth == nesting(t.exprs)
    IN /\ IsFiniteSet(t.exprs)
       /\ \A x \in t.exprs : depth[x] \in Nat /\ \A y \in children(x) : y \in t.exprs /\ depth[y] < depth[x]

(* e is dependency d with further conditions, as andExpr(d, ...) leaves it.  *)
Restricts(e, d) ==
    \/ d \in {Nil, ConstExpr(Str("y"))}
    \/ e \in {d, ConstExpr(Str("n"))}
    \/ e[1] = "&&" /\ e[2] = d

(* e is what a select by s under a condition leaves in the reverse           *)
(* dependency of its target.                                                 *)
SelectedBy(e, s, condition) ==
    \/ condition = ConstExpr(Str("n"))
    \/ e \in {ConstExpr(Str("y")), SymbolExpr(s), <<"&&", SymbolExpr(s), condition>>}

(* What finalize() collects of the definitions of a symbol: each prompt and  *)
(* default is under the dependencies of its definition, the symbol's own     *)
(* dependencies are those of any definition, and every select counts.        *)
Finalized(t) ==
    LET parts == disjuncts(t.exprs)
    IN /\ t.props \in [t.symbols -> Seq(t.properties)]
       /\ \A s \in TriSymbols(t) :
             /\ {t.dirdep[s], t.revdep[s]} \cup t.deps[s] \subseteq t.exprs
             /\ \A k \in DOMAIN t.props[s] : t.props[s][k].visible \in t.exprs
       /\ \A s \in Free(t) :
             /\ \A k \in DOMAIN t.props[s] : t.props[s][k].type \in {"prompt", "default"} =>
                  \E d \in t.deps[s] : Restricts(t.props[s][k].visible, d)
             /\ \A e \in parts[t.dirdep[s]] : \E d \in t.deps[s] : e \in parts[d]
       /\ \A s \in TriSymbols(t) : \A k \in DOMAIN t.props[s] :
             t.props[s][k].type = "select" /\ t.props[s][k].expr[2] \in Free(t) =>
               \E e \in parts[t.revdep[t.props[s][k].expr[2]]] : SelectedBy(e, s, t.props[s][k].visible)

WellFormedTree(t) ==
    /\ IsFiniteSet(t.symbols)
    /\ t.scalars \in Seq(ScalarSymbols(t))
    /\ \A s \in ScalarSymbols(t) : \E k \in DOMAIN t.scalars : t.scalars[k] = s
    /\ t.tristates \in Seq(TriSymbols(t))
    /\ t.choices \in Seq([members : Seq(TriSymbols(t)), props : Seq(t.properties)])
    /\ \A s \in TriSymbols(t) : IF s \in t.inChoice THEN \E k \in DOMAIN t.choices : s \in Members(t.choices[k])
                                ELSE s \in Free(t)
    /\ Free(t) \cap t.inChoice = {}
    /\ "" \notin t.symbols
    /\ WellFormedExprs(t)
    /\ Finalized(t)

ASSUME TreesAssumption == \A id \in DOMAIN Trees : WellFormedTree(Trees[id])

ASSUME RawAssumption ==
    \A id \in DOMAIN Trees : \A c \in RawConfigs(Trees[id]) :
        DOMAIN c \subseteq Trees[id].symbols /\ \A s \in DOMAIN c : c[s] \in Text

ASSUME ModeAssumption == AllNoModes \subseteq BOOLEAN

(* The tree of a resolver, which holds its name. *)
Tree(r) == Trees[r.tree]

(* A resolver whose three maps have been replaced. *)
update(r, effective, values, written) ==
    [tree |-> r.tree, raw |-> r.raw, allNoConfig |-> r.allNoConfig,
     effective |-> effective, values |-> values, written |-> written]

-----------------------------------------------------------------------------
(* What the .config says of a symbol. *)

configTriValue(type, x) ==
    CASE x = Str("y") -> triY
      [] x = Str("m") -> IF type = "tristate" THEN triM ELSE triY
      [] OTHER -> triN

rawSet(r, s) == s \in DOMAIN r.raw
rawTri(r, s) == IF rawSet(r, s) THEN configTriValue(Tree(r).type[s], r.raw[s]) ELSE triN

(* Values that belong to the selected rustc are never imported. *)
WithoutRustToolchainValues(t, c) == [s \in DOMAIN c \ t.rust |-> c[s]]

-----------------------------------------------------------------------------
(* Evaluation of expressions in the current state of the resolver. *)

modulesTri(r) ==
    IF Tree(r).modules \in DOMAIN r.effective THEN r.effective[Tree(r).modules] ELSE triN

defaultScalarValue(type) == IF type \in {"int", "hex"} THEN Num(0) ELSE Str("")

(* The text of a symbol; one that is never declared reads as "n". *)
symbolText(r, s) ==
    IF s \in DOMAIN r.effective THEN triName(r.effective[s])
    ELSE IF s \in DOMAIN r.values
    THEN IF r.values[s] = Str("") THEN defaultScalarValue(Tree(r).type[s]) ELSE r.values[s]
    ELSE Str("n")

(* The tristate a symbol stands for in an expression. *)
evalSymbol(r, s) ==
    IF s \in DOMAIN r.effective THEN r.effective[s]
    ELSE IF s \in DOMAIN r.values
    THEN boolTri(IF Tree(r).type[s] = "string" THEN r.values[s] # Str("")
                 ELSE IsNum(r.values[s]) /\ r.values[s] # Num(0))
    ELSE triN

triConsts == {Str("n"), Str("m"), Str("y")}
triFromConst(x) == CASE x = Str("n") -> triN [] x = Str("m") -> triM [] OTHER -> triY

(* A constant: "m" is worth at most the modules symbol where dependencies   *)
(* are evaluated, the empty string is n and any other string is y.          *)
evalConst(r, x, gateModConst) ==
    IF x \in triConsts
    THEN IF gateModConst /\ x = Str("m") THEN minResolvedTri(triM, modulesTri(r)) ELSE triFromConst(x)
    ELSE boolTri(x # Str(""))

(* The expressions whose comparison is one of tristates, not of texts. *)
isTriExpression(t) ==
    LET IsTriSymbol(x) == \/ x[1] = "const" /\ x[2] \in triConsts
                          \/ x[1] = "symbol" /\ x[2] \notin ScalarSymbols(t)
        IsText(x) == x[1] \in {"const", "symbol"} /\ ~IsTriSymbol(x)
        tri[x \in t.exprs] ==
            CASE x[1] = "nil" -> TRUE
              [] x[1] \in {"const", "symbol"} -> IsTriSymbol(x)
              [] x[1] = "!" -> tri[x[2]]
              [] x[1] \in {"&&", "||"} -> tri[x[2]] /\ tri[x[3]]
              [] x[1] \in compareOps -> (IsText(x[2]) /\ IsText(x[3])) \/ (tri[x[2]] /\ tri[x[3]])
              [] OTHER -> FALSE
    IN {x \in t.exprs : tri[x]}

ordered(op, less, equal) ==
    CASE op = "=" -> equal
      [] op = "!=" -> ~equal
      [] op = "<" -> less
      [] op = "<=" -> less \/ equal
      [] op = ">" -> ~less /\ ~equal
      [] OTHER -> ~less

compareTri(a, b, op) == ordered(op, a < b, a = b)

compareText(a, b, op) ==
    IF IsNum(a) /\ IsNum(b) THEN ordered(op, a[2] < b[2], a = b)
    ELSE ordered(op, TextLess(a, b), a = b)

(* The value of x, given those of its operands: where the constant m is      *)
(* gated by the modules symbol, and where it is not.                         *)
evalNode(r, x, left, right) ==
    LET Both(v) == [gated |-> v, plain |-> v]
        text(y, v) == CASE y[1] = "symbol" -> symbolText(r, y[2])
                        [] y[1] = "const" -> y[2]
                        [] OTHER -> triName(v.plain)
    IN CASE x[1] = "nil" -> Both(triY)
         [] x[1] = "symbol" -> Both(evalSymbol(r, x[2]))
         [] x[1] = "const" -> [gated |-> evalConst(r, x[2], TRUE), plain |-> evalConst(r, x[2], FALSE)]
         [] x[1] = "!" -> [gated |-> triY - left.gated, plain |-> triY - left.plain]
         [] x[1] = "&&" -> [gated |-> minResolvedTri(left.gated, right.gated),
                            plain |-> minResolvedTri(left.plain, right.plain)]
         [] x[1] = "||" -> [gated |-> maxResolvedTri(left.gated, right.gated),
                            plain |-> maxResolvedTri(left.plain, right.plain)]
         [] x[1] \in compareOps ->
              Both(boolTri(IF {x[2], x[3]} \subseteq isTriExpression(Tree(r))
                           THEN compareTri(left.plain, right.plain, x[1])
                           ELSE compareText(text(x[2], left), text(x[3], right), x[1])))
         [] OTHER -> Both(triN)

(* evalExprMode for every subexpression of the tree. *)
evalExprMode(r) ==
    LET eval[x \in Tree(r).exprs] == evalNode(r, x, eval[x[2]], eval[x[3]])
    IN eval

(* A value that could not be computed counts as n. *)
orN(v) == IF v \in Tri THEN v ELSE triN
evalExprDefaultMode(r, e, def, gateModConst) ==
    IF e = Nil THEN def ELSE orN(evalExprMode(r)[e][IF gateModConst THEN "gated" ELSE "plain"])

evalExprDefault(r, e, def) == evalExprDefaultMode(r, e, def, FALSE)
evalDepExprDefault(r, e, def) == evalExprDefaultMode(r, e, def, TRUE)

exprValue(r, e) ==
    CASE e[1] = "symbol" -> symbolText(r, e[2])
      [] e[1] = "const" -> IF e[2] \in Text THEN e[2] ELSE Str("")
      [] OTHER -> triName(evalExprDefault(r, e, triY))

-----------------------------------------------------------------------------
(* Bool and tristate symbols. *)

(* Fault: the modules symbol is not looked at. *)
clampBoolOnly(r, s, v) == IF v = triM /\ Tree(r).type[s] = "bool" THEN triY ELSE v

(* m becomes y for a bool, and for a tristate when modules are off. *)
clampSymbolTri(r, s, v) ==
    IF v # triM THEN v
    ELSE IF Tree(r).type[s] = "bool" THEN triY
    ELSE IF s \notin Tree(r).inChoice /\ modulesTri(r) = triN THEN triY
    ELSE v

(* The indices of the properties of one kind whose condition is not n. *)
visibleProps(r, props, kind) ==
    {k \in DOMAIN props : props[k].type = kind /\ evalDepExprDefault(r, props[k].visible, triY) # triN}
FirstOf(K) == CHOOSE k \in K : \A j \in K : k <= j

highest(V) == IF triY \in V THEN triY ELSE IF triM \in V THEN triM ELSE triN

promptVisibility(r, s) ==
    LET props == Tree(r).props[s]
        prompts == {k \in DOMAIN props : props[k].type = "prompt"}
    IN clampSymbolTri(r, s, highest({evalDepExprDefault(r, props[k].visible, triY) : k \in prompts}))

(* The value of the first property of K. *)
firstTri(r, props, K) ==
    LET p == props[FirstOf(K)]
    IN IF K = {} THEN triN
       ELSE minResolvedTri(evalExprDefault(r, p.expr, triN), evalDepExprDefault(r, p.visible, triY))

defaultTri(r, s) ==
    clampSymbolTri(r, s, firstTri(r, Tree(r).props[s], visibleProps(r, Tree(r).props[s], "default")))

visibleUserValue(r, s) == rawSet(r, s) /\ promptVisibility(r, s) # triN

(* Fault: the user's value is read back from the effective value. *)
baseTriEffective(r, s) ==
    IF visibleUserValue(r, s) THEN minResolvedTri(r.effective[s], promptVisibility(r, s))
    ELSE IF r.allNoConfig /\ promptVisibility(r, s) # triN THEN triN
    ELSE defaultTri(r, s)

baseTri(r, s) ==
    IF visibleUserValue(r, s) THEN minResolvedTri(rawTri(r, s), promptVisibility(r, s))
    ELSE IF r.allNoConfig /\ promptVisibility(r, s) # triN THEN triN
    ELSE defaultTri(r, s)

(* Fault: an imply overrides the user. *)
impliedAlways(r, s) ==
    minResolvedTri(evalDepExprDefault(r, Tree(r).implied[s], triN), evalDepExprDefault(r, Tree(r).dirdep[s], triY))

(* An implied value counts only where the user has no say, and no further   *)
(* than the symbol's own dependencies.                                      *)
impliedTri(r, s) ==
    IF visibleUserValue(r, s) THEN triN
    ELSE minResolvedTri(evalDepExprDefault(r, Tree(r).implied[s], triN),
                        evalDepExprDefault(r, Tree(r).dirdep[s], triY))

(* Fault: the user's value overrides a select. *)
nextTriUserFirst(r, s) ==
    clampSymbolTri(r, s, IF visibleUserValue(r, s) THEN baseTri(r, s)
                         ELSE maxResolvedTri(maxResolvedTri(baseTri(r, s), impliedTri(r, s)),
                                             evalDepExprDefault(r, Tree(r).revdep[s], triN)))

nextTri(r, s) ==
    clampSymbolTri(r, s, maxResolvedTri(maxResolvedTri(baseTri(r, s), impliedTri(r, s)),
                                        evalDepExprDefault(r, Tree(r).revdep[s], triN)))

storeTri(r, s, v) == update(r, [r.effective EXCEPT ![s] = v], r.values, [r.written EXCEPT ![s] = (v # triN)])

-----------------------------------------------------------------------------
(* Int, hex and string symbols. *)

(* The first visible range whose two bounds are numbers. *)
visibleScalarRange(r, s) ==
    LET props == Tree(r).props[s]
    IN {k \in visibleProps(r, props, "range") : \A bound \in {2, 3} : IsNum(exprValue(r, props[k].expr[bound]))}

within(x, lo, hi) == IF x[2] < lo[2] THEN lo ELSE IF x[2] > hi[2] THEN hi ELSE x

(* x, limited by the first of the ranges K. *)
clampTo(r, props, K, x) ==
    LET range == props[FirstOf(K)].expr
    IN IF K = {} THEN x ELSE within(x, exprValue(r, range[2]), exprValue(r, range[3]))

clampScalarRange(r, s, x) ==
    IF Tree(r).type[s] \notin {"int", "hex"} THEN x
    ELSE clampTo(r, Tree(r).props[s], visibleScalarRange(r, s),
                 IF IsNum(x) THEN x ELSE defaultScalarValue(Tree(r).type[s]))

(* The first of the defaults K, as a text. *)
defaultText(r, props, K) == IF K = {} THEN Str("") ELSE exprValue(r, props[FirstOf(K)].expr)

orDefault(r, s, x) == IF x = Str("") THEN defaultScalarValue(Tree(r).type[s]) ELSE x

(* The value and whether it is to be written to the .config. *)
scalarValue(r, s) ==
    LET K == visibleProps(r, Tree(r).props[s], "default")
    IN [value |-> clampScalarRange(r, s, orDefault(r, s,
                      IF visibleUserValue(r, s) THEN r.raw[s] ELSE defaultText(r, Tree(r).props[s], K))),
        write |-> K # {} \/ promptVisibility(r, s) # triN]

storeScalar(r, s, n) == update(r, r.effective, [r.values EXCEPT ![s] = n.value], [r.written EXCEPT ![s] = n.write])

-----------------------------------------------------------------------------
(* Choices. *)

choiceMemberVisible(r, s) == evalDepExprDefault(r, Tree(r).dirdep[s], triY) # triN

(* The members of a choice that satisfy P, as positions. *)
visibleMembers(r, c) == {k \in DOMAIN c.members : choiceMemberVisible(r, c.members[k])}

(* The first applicable default that names a visible member the user did   *)
(* not switch off.                                                         *)
choiceDefault(r, c) ==
    {k \in visibleProps(r, c.props, "default") :
       /\ c.props[k].expr[1] = "symbol"
       /\ \E j \in visibleMembers(r, c) : c.members[j] = c.props[k].expr[2]
       /\ ~(rawSet(r, c.props[k].expr[2]) /\ rawTri(r, c.props[k].expr[2]) = triN)}

NoMember == ""

(* The winner among the visible members: the first the user switched on,    *)
(* then the first applicable default, then the first the user left open.    *)
winner(r, c, visible, defaults) ==
    LET explicit == {k \in visible : rawSet(r, c.members[k]) /\ rawTri(r, c.members[k]) = triY}
        unset == {k \in visible : ~rawSet(r, c.members[k])}
    IN CASE visible = {} -> NoMember
         [] explicit # {} -> c.members[FirstOf(explicit)]
         [] explicit = {} /\ defaults # {} -> c.props[FirstOf(defaults)].expr[2]
         [] explicit = {} /\ defaults = {} /\ unset # {} -> c.members[FirstOf(unset)]
         [] OTHER -> c.members[CHOOSE k \in visible : \A j \in visible : j <= k]

choiceSelection(r, c) == winner(r, c, visibleMembers(r, c), choiceDefault(r, c))

(* One choice: the selected member is y, every other member is n. *)
applyChoice(r, c) ==
    LET selected == choiceSelection(r, c)
        value(s) == boolTri(s = selected)
    IN update(r, [s \in DOMAIN r.effective |-> IF s \in Members(c) THEN value(s) ELSE r.effective[s]],
              r.values, [s \in DOMAIN r.written |-> IF s \in Members(c) THEN value(s) # triN ELSE r.written[s]])

-----------------------------------------------------------------------------
(* The loop. *)

VARIABLES
    resolver,   \* the configResolver
    sweep,      \* sweeps used up so far
    cursor,     \* the next step of the current sweep
    changed,    \* has this sweep changed anything
    status      \* "resolving", "done" or "failed"

vars == <<resolver, sweep, cursor, changed, status>>

(* len(symbols)*8 + 8 *)
MaxSweeps(t) == Cardinality(t.symbols) * 8 + 8

(* The resolver before its first sweep: tristates start from the .config,  *)
(* and nothing is written yet.                                             *)
NewResolver(id, c, allNo) ==
    LET t == Trees[id]
        raw == WithoutRustToolchainValues(t, c)
    IN [tree |-> id, raw |-> raw, allNoConfig |-> allNo,
        effective |-> [s \in TriSymbols(t) |->
                         IF s \in DOMAIN raw THEN configTriValue(t.type[s], raw[s]) ELSE triN],
        values |-> [s \in ScalarSymbols(t) |-> IF s \in DOMAIN raw THEN raw[s] ELSE Str("")],
        written |-> [s \in t.symbols |-> FALSE]]

Init ==
    /\ \E id \in DOMAIN Trees, allNo \in AllNoModes : \E c \in RawConfigs(Trees[id]) : resolver = NewResolver(id, c, allNo)
    /\ sweep = 0
    /\ cursor = 1
    /\ changed = FALSE
    /\ status = "resolving"

(* The k-th step of a sweep: every scalar, then every bool and tristate     *)
(* outside a choice, then every choice.                                     *)
ScalarAt(t, k) == t.scalars[k]
TristateAt(t, k) == t.tristates[k - Len(t.scalars)]
ChoiceAt(t, k) == t.choices[k - Len(t.scalars) - Len(t.tristates)]

IsScalarStep(t, k) == k \in 1 .. Len(t.scalars)
IsTristateStep(t, k) == k \in Len(t.scalars) + 1 .. Len(t.scalars) + Len(t.tristates)
IsChoiceStep(t, k) == k \in Len(t.scalars) + Len(t.tristates) + 1 .. Steps(t)

(* Fault: only the last step of a sweep counts. *)
AdvanceForgetful ==
    /\ changed' = (resolver' # resolver)
    /\ cursor' = cursor + 1
    /\ UNCHANGED <<sweep, status>>

(* Go on with the sweep; the sweep remembers whether anything changed. *)
Advance ==
    /\ changed' = (changed \/ resolver' # resolver)
    /\ cursor' = cursor + 1
    /\ UNCHANGED <<sweep, status>>

ResolveScalar ==
    /\ status = "resolving" /\ IsScalarStep(Tree(resolver), cursor)
    /\ LET s == ScalarAt(Tree(resolver), cursor) IN resolver' = storeScalar(resolver, s, scalarValue(resolver, s))
    /\ Advance

ResolveTristate ==
    /\ status = "resolving" /\ IsTristateStep(Tree(resolver), cursor)
    /\ LET s == TristateAt(Tree(resolver), cursor) IN resolver' = storeTri(resolver, s, nextTri(resolver, s))
    /\ Advance

ApplyChoiceSemantics ==
    /\ status = "resolving" /\ IsChoiceStep(Tree(resolver), cursor)
    /\ resolver' = applyChoice(resolver, ChoiceAt(Tree(resolver), cursor))
    /\ Advance

(* Fault: sweeps are not counted. *)
EndSweepUncounted ==
    /\ status = "resolving" /\ cursor = Steps(Tree(resolver)) + 1
    /\ cursor' = 1
    /\ changed' = FALSE
    /\ status' = IF ~changed THEN "done" ELSE "resolving"
    /\ UNCHANGED <<resolver, sweep>>

(* The end of a sweep: stop, sweep again, or give up. *)
EndSweep ==
    /\ status = "resolving" /\ cursor = Steps(Tree(resolver)) + 1
    /\ cursor' = 1
    /\ sweep' = sweep + 1
    /\ changed' = FALSE
    /\ status' = IF ~changed THEN "done"
                 ELSE IF sweep + 1 < MaxSweeps(Tree(resolver)) THEN "resolving" ELSE "failed"
    /\ UNCHANGED resolver

Next == ResolveScalar \/ ResolveTristate \/ ApplyChoiceSemantics \/ EndSweep

Spec == Init /\ [][Next]_vars

-----------------------------------------------------------------------------
(* The whole step k as a function of the resolver. *)
SweepStep(q, k) ==
    CASE IsScalarStep(Tree(q), k) -> storeScalar(q, ScalarAt(Tree(q), k), scalarValue(q, ScalarAt(Tree(q), k)))
      [] IsTristateStep(Tree(q), k) -> storeTri(q, TristateAt(Tree(q), k), nextTri(q, TristateAt(Tree(q), k)))
      [] OTHER -> applyChoice(q, ChoiceAt(Tree(q), k))

Stable(q) == \A k \in 1 .. Steps(Tree(q)) : SweepStep(q, k) = q
-----------------------------------------------------------------------------
(***************************************************************************)
(* Correctness.                                                            *)
(***************************************************************************)
Resolved == status = "done"

(* The resolver's maps are total and well typed, and the loop counters of   *)
(* ResolveConfigWithOptions stay within their bounds.                       *)
TypeOK ==
    /\ resolver.tree \in DOMAIN Trees
    /\ resolver.allNoConfig \in BOOLEAN
    /\ DOMAIN resolver.raw \subseteq Tree(resolver).symbols
    /\ \A s \in DOMAIN resolver.raw : resolver.raw[s] \in Text
    /\ resolver.effective \in [TriSymbols(Tree(resolver)) -> Tri]
    /\ DOMAIN resolver.values = ScalarSymbols(Tree(resolver))
    /\ \A s \in ScalarSymbols(Tree(resolver)) : resolver.values[s] \in Text
    /\ resolver.written \in [Tree(resolver).symbols -> BOOLEAN]
    /\ sweep \in 0 .. MaxSweeps(Tree(resolver))
    /\ cursor \in 1 .. Steps(Tree(resolver)) + 1
    /\ changed \in BOOLEAN
    /\ status \in {"resolving", "done", "failed"}

(* A configuration is returned only when it is a fixed point of every rule:  *)
(* although values are updated in place and later rules of a sweep read what *)
(* earlier ones wrote, no rule would change anything in the result.          *)
DoneIsStable == Resolved => Stable(resolver)

(* In a result, a selected symbol is at least as enabled as the symbol that  *)
(* selects it, under the condition of the select, whatever the user, the     *)
(* symbol's own dependencies and its prompt say.                             *)
SelectHonoured ==
    Resolved => \A x \in TriSymbols(Tree(resolver)) : \A k \in DOMAIN Tree(resolver).props[x] :
        LET p == Tree(resolver).props[x][k]
        IN p.type = "select" /\ p.expr[2] \in Free(Tree(resolver))
           => resolver.effective[p.expr[2]] >= minResolvedTri(resolver.effective[x], evalDepExprDefault(resolver, p.visible, triY))

(* In a result, a symbol outside a choice is on only if some definition of   *)
(* it has its dependencies met, or something selects it.                     *)
DependenciesHold ==
    Resolved => \A s \in Free(Tree(resolver)) : resolver.effective[s] # triN =>
        \/ \E d \in Tree(resolver).deps[s] : evalDepExprDefault(resolver, d, triY) # triN
        \/ evalDepExprDefault(resolver, Tree(resolver).revdep[s], triN) # triN

(* In a result, nothing is built as a module unless modules are enabled, no  *)
(* bool is m, and no member of a choice is m.                                *)
NoStrayModule ==
    Resolved => \A s \in TriSymbols(Tree(resolver)) : resolver.effective[s] = triM =>
        /\ Tree(resolver).type[s] = "tristate"
        /\ s \notin Tree(resolver).inChoice
        /\ modulesTri(resolver) # triN

(* In a result, a choice with a visible member has exactly one member on,    *)
(* and it is a visible one; a choice without has none.                       *)
ChoiceExclusive ==
    Resolved => \A k \in DOMAIN Tree(resolver).choices :
        LET c == Tree(resolver).choices[k]
            on == {s \in Members(c) : resolver.effective[s] = triY}
            visible == {s \in Members(c) : choiceMemberVisible(resolver, s)}
        IN /\ on \subseteq visible
           /\ Cardinality(on) = IF visible = {} THEN 0 ELSE 1
           /\ \A s \in Members(c) \ on : resolver.effective[s] = triN

(* In a result, a value the user gave for a symbol with a visible prompt is  *)
(* the symbol's value, capped by the prompt's visibility, unless the symbol  *)
(* is selected: neither a default nor an imply overrides it.                 *)
UserDecides ==
    Resolved => \A s \in Free(Tree(resolver)) :
        visibleUserValue(resolver, s) /\ evalDepExprDefault(resolver, Tree(resolver).revdep[s], triN) = triN
        => resolver.effective[s] = clampSymbolTri(resolver, s, minResolvedTri(rawTri(resolver, s), promptVisibility(resolver, s)))

(* In a result, an int or hex value lies in its first visible range, whose   *)
(* bounds may themselves be symbols that were resolved in the same loop.     *)
RangeHolds ==
    Resolved => \A s \in ScalarSymbols(Tree(resolver)) :
        LET K == visibleScalarRange(resolver, s)
            lo == exprValue(resolver, Tree(resolver).props[s][FirstOf(K)].expr[2])
            hi == exprValue(resolver, Tree(resolver).props[s][FirstOf(K)].expr[3])
        IN Tree(resolver).type[s] \in {"int", "hex"} /\ K # {} =>
             /\ IsNum(resolver.values[s])
             /\ lo[2] <= hi[2] => lo[2] <= resolver.values[s][2] /\ resolver.values[s][2] <= hi[2]

(* A result obeys the rules of Kconfig that tie symbols to one another, though *)
(* the sweep computes each of them from values that later steps still change. *)
KconfigRules == SelectHonoured /\ DependenciesHold /\ ChoiceExclusive /\ RangeHolds
=============================================================================
