---------------------------- MODULE KconfigTerms ----------------------------
(***************************************************************************)
(* The values and the expressions of Kconfig, shared by the modules about  *)
(* internal/kconfig: types.go, expr.go and the tristate helpers.           *)
(***************************************************************************)
EXTENDS Integers, Sequences

(***************************************************************************)
(* Tristate values are ordered n < m < y.                                  *)
(***************************************************************************)
triN == 0
triM == 1
triY == 2
Tri == 0 .. 2

minResolvedTri(a, b) == IF a < b THEN a ELSE b
maxResolvedTri(a, b) == IF a > b THEN a ELSE b
boolTri(b) == IF b THEN triY ELSE triN

(***************************************************************************)
(* The text of a value: a number (decimal or hexadecimal digits) or any    *)
(* other string; quotes are dropped.                                       *)
(***************************************************************************)
CONSTANT Strings
ASSUME StringsAssumption == {"", "n", "m", "y"} \subseteq Strings

Text == ({"num"} \X Int) \cup ({"str"} \X Strings)
Num(k) == <<"num", k>>
Str(s) == <<"str", s>>
IsNum(x) == x[1] = "num"
triName(v) == Str(CASE v = triN -> "n" [] v = triM -> "m" [] OTHER -> "y")

(***************************************************************************)
(* Expressions: the nil expression, a constant, a symbol, a negation, a    *)
(* conjunction, a disjunction, or a comparison (".." is a range).          *)
(***************************************************************************)
Nil == <<"nil">>
ConstExpr(x) == <<"const", x>>
SymbolExpr(s) == <<"symbol", s>>
compareOps == {"=", "!=", "<", "<=", ">", ">="}

children(e) ==
    CASE e[1] = "!" -> {e[2]}
      [] e[1] \in compareOps \cup {"&&", "||", ".."} -> {e[2], e[3]}
      [] OTHER -> {}

(* How deep each expression of E nests. *)
nesting(E) ==
    LET depth[x \in E] ==
            IF children(x) = {} THEN 0
            ELSE 1 + CHOOSE d \in {depth[y] : y \in children(x)} : \A y \in children(x) : depth[y] <= d
    IN depth

(* The expressions that each expression of E is the disjunction of. *)
disjuncts(E) ==
    LET parts[x \in E] == IF x[1] = "||" THEN parts[x[2]] \cup parts[x[3]] ELSE {x}
    IN parts

TriTypes == {"bool", "tristate"}
ScalarTypes == {"int", "hex", "string", "unknown"}
TriSymbols(t) == {s \in t.symbols : t.type[s] \in TriTypes}
ScalarSymbols(t) == {s \in t.symbols : t.type[s] \in ScalarTypes}
=============================================================================
