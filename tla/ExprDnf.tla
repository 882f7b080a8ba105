------------------------------ MODULE ExprDnf ------------------------------
(***************************************************************************)
(* Kconfig expressions as disjunctions of conjunctions of condition labels *)
(* (internal/kconfig/expr_dnf.go).                                         *)
(*                                                                         *)
(* A clause is a set of terms (the code keeps them sorted by label), a DNF *)
(* is the sequence of its clauses.  A compound expression is not expanded: *)
(* it becomes a term of its own, whose definition is encodeStateBody.  A   *)
(* result is <<dnf>> or, where the code returns nil, <<>>.                 *)
(*                                                                         *)
(* One behaviour encodes one expression; evaluation in every valuation of  *)
(* the symbols is the reference.                                           *)
(***************************************************************************)
EXTENDS Integers, FiniteSets, Sequences, SequencesExt, FiniteSetsExt

CONSTANTS
  TreeSymbols,   \* symbols of the tree
  Type,          \* their types; "undefined": mentioned, but in no menu
  Numbers,       \* the values of scalar symbols, and the other constants
  Expressions,   \* the expressions to encode
  ClauseLimits   \* values of dnfClauseLimit

triN == 0
triM == 1
triY == 2
triStates == <<triN, triM, triY>>

TriTypes == {"bool", "tristate"}
Defined == {s \in TreeSymbols : Type[s] # "undefined"}

ASSUME DnfAssumption ==
  /\ Type \in [TreeSymbols -> TriTypes \cup {"int", "undefined"}]
  /\ Numbers \cap (0 .. 2) = {} /\ Numbers \subseteq Int
  /\ ClauseLimits \subseteq Nat \ {0}

VARIABLES
  expr,    \* the expression
  limit,   \* dnfClauseLimit
  result   \* what the encoders return for it, or "" before

dnfVars == <<expr, limit, result>>

(***************************************************************************)
(* Expressions: <<"const", v>> with a tristate or a number, <<"symbol",    *)
(* s>>, <<"!", x>>, <<"&&", x, y>>, <<"||", x, y>>, <<"=", x, y>>, ...     *)
(***************************************************************************)
CompareOps == {"=", "!=", "<"}
IsSymbol(e) == e[1] \in {"const", "symbol"}
IsTriConst(e) == e[1] = "const" /\ e[2] \in 0 .. 2
MinTri(a, b) == IF a < b THEN a ELSE b
MaxTri(a, b) == IF a > b THEN a ELSE b
boolTri(b) == IF b THEN triY ELSE triN

compareTri(l, r, op) ==
  CASE op = "=" -> l = r [] op = "!=" -> l # r [] op = "<" -> l < r

operandsOf(e) ==
  CASE IsSymbol(e) -> {} [] e[1] = "!" -> {e[2]} [] OTHER -> {e[2], e[3]}

nesting[e \in Expressions] ==
  IF IsSymbol(e) THEN 0 ELSE 1 + Max({nesting[x] : x \in operandsOf(e)})

\* Expressions are trees over the symbols and the constants.
ASSUME ExpressionsAssumption ==
  \A e \in Expressions :
    /\ e[1] \in {"const", "symbol", "!", "&&", "||"} \cup CompareOps
    /\ e[1] = "const" => e[2] \in (0 .. 2) \cup Numbers
    /\ e[1] = "symbol" => e[2] \in TreeSymbols
    /\ nesting[e] \in Nat
    /\ \A x \in operandsOf(e) : x \in Expressions /\ nesting[x] < nesting[e]

-----------------------------------------------------------------------------
(***************************************************************************)
(* Which expressions have states.                                          *)
(***************************************************************************)
derivedOperandFor(e) ==
  CASE e[1] = "const" -> "unknown"
    [] e[1] = "symbol" /\ e[2] \in Defined -> Type[e[2]]
    [] OTHER -> "tristate"

\* A comparison of scalars is a flag of its own; its mode is not kept.
derivedComparisonFor(e) ==
  /\ IsSymbol(e[2]) /\ IsSymbol(e[3])
  /\ {derivedOperandFor(e[2]), derivedOperandFor(e[3])} \cap TriTypes = {}

isTriExpression[e \in Expressions] ==
  CASE e[1] = "const" -> IsTriConst(e)
    [] e[1] = "symbol" -> Type[e[2]] # "int"
    [] e[1] = "!" -> isTriExpression[e[2]]
    [] e[1] \in {"&&", "||"} -> isTriExpression[e[2]] /\ isTriExpression[e[3]]
    [] OTHER ->
         derivedComparisonFor(e) \/ (isTriExpression[e[2]] /\ isTriExpression[e[3]])

needsConditionTerm[e \in Expressions] ==
  CASE e[1] \in {"&&", "||"} -> TRUE
    [] e[1] = "!" -> needsConditionTerm[e[2]]
    [] e[1] \in CompareOps -> needsConditionTerm[e[2]] \/ needsConditionTerm[e[3]]
    [] OTHER -> FALSE

-----------------------------------------------------------------------------
(***************************************************************************)
(* The algebra of DNFs.                                                    *)
(***************************************************************************)
alwaysTrue == <<{}>>
alwaysFalse == <<>>
IsAlwaysTrue(d) == \E i \in DOMAIN d : d[i] = {}
Term(t) == << << {t} >> >>

\* The elements of s that are in S, in their order.
elementsIn(s, S) ==
  LET kept[k \in 0 .. Len(s)] ==
        IF k = 0 THEN <<>>
        ELSE IF s[k] \in S THEN Append(kept[k - 1], s[k]) ELSE kept[k - 1]
  IN kept[Len(s)]

\* Subsumed clauses are removed in place: when an existing clause subsumes the
\* new one, those after it stay where they were.
appendDNFClause(out, clause) ==
  LET subsuming == {i \in DOMAIN out : out[i] \subseteq clause}
      staying == {c \in ToSet(out) : ~ clause \subseteq c}
  IN IF subsuming = {} THEN Append(elementsIn(out, staying), clause)
     ELSE LET front == elementsIn(SubSeq(out, 1, Min(subsuming) - 1), staying)
          IN front \o SubSeq(out, Len(front) + 1, Len(out))

\* A loop over clauses, <<c>>, and nil, <<>>: nothing once the DNF has more
\* than cap of them.
appendClauses(out, clauses, cap) ==
  LET appended[k \in 0 .. Len(clauses)] ==
        IF k = 0 THEN <<out>>
        ELSE IF appended[k - 1] = <<>> \/ clauses[k] = <<>> THEN appended[k - 1]
        ELSE LET d == appendDNFClause(appended[k - 1][1], clauses[k][1])
             IN IF Len(d) > cap THEN <<>> ELSE <<d>>
  IN appended[Len(clauses)]

\* mergeTerm: pairs of terms that make a clause contradictory.  The states of
\* a condition are remembered under a name that holds the state already, so two
\* states of one condition never count as a contradiction.
contradicts(t, u) ==
  \/ t[1] \in {"effective", "derived"} /\ u[1] = t[1] /\ t[2] = u[2] /\ t[3] # u[3]
  \/ t[1] = "effective" /\ u[1] = "enabled" /\ t[2] = u[2] /\ t[3] = triN
  \/ t[1] = "effective" /\ u[1] = "disabled" /\ t[2] = u[2] /\ t[3] # triN
  \/ t[1] = "enabled" /\ u[1] = "disabled" /\ t[2] = u[2]

mergeClauses(a, b) ==
  IF \E t, u \in a \cup b : contradicts(t, u) THEN <<>> ELSE << a \cup b >>

andDNF(a, b) ==
  LET anded[i \in 0 .. Len(a)] ==
        IF i = 0 THEN <<alwaysFalse>>
        ELSE IF anded[i - 1] = <<>> THEN <<>>
        ELSE appendClauses(anded[i - 1][1],
                           [j \in 1 .. Len(b) |-> mergeClauses(a[i], b[j])], limit)
  IN anded[Len(a)]

clausesOf(d) == [i \in 1 .. Len(d) |-> <<d[i]>>]

orDNF(a, b) ==
  IF IsAlwaysTrue(a) \/ IsAlwaysTrue(b) THEN <<alwaysTrue>>
  ELSE appendClauses(appendClauses(alwaysFalse, clausesOf(a), Len(a))[1],
                     clausesOf(b), limit)

\* Combinations of results: nothing when an operand is nothing.
andOf(r, s) == IF r = <<>> \/ s = <<>> THEN <<>> ELSE andDNF(r[1], s[1])
orOf(r, s) == IF r = <<>> \/ s = <<>> THEN <<>> ELSE orDNF(r[1], s[1])

anyOf(results) ==
  LET ored[k \in 0 .. Len(results)] ==
        IF k = 0 THEN <<alwaysFalse>> ELSE orOf(ored[k - 1], results[k])
  IN ored[Len(results)]

effectiveStates(s) == IF Type[s] = "bool" THEN {triN, triY} ELSE {triN, triM, triY}

\* Its negation: the other states, one clause each.
notTerm(t) ==
  LET inOneOf(S) == [i \in 1 .. Len(S) |-> {<<t[1], t[2], S[i]>>}]
      others(S) == inOneOf(elementsIn(triStates, S \ {t[3]}))
  IN CASE t[1] = "effective" -> others(effectiveStates(t[2]))
       [] t[1] = "condition" -> others(0 .. 2)
       [] t[1] = "derived" -> << {<<"derived", t[2], triY - t[3]>>} >>
       [] t[1] = "enabled" -> << {<<"disabled", t[2]>>} >>
       [] t[1] = "disabled" -> << {<<"enabled", t[2]>>} >>

notClause(clause) ==
  LET terms == SetToSeq(clause)
  IN anyOf([i \in 1 .. Len(terms) |-> <<notTerm(terms[i])>>])

notDNF(d) ==
  LET negated[k \in 0 .. Len(d)] ==
        IF k = 0 THEN <<alwaysTrue>> ELSE andOf(negated[k - 1], notClause(d[k]))
  IN IF IsAlwaysTrue(d) THEN <<alwaysFalse>> ELSE negated[Len(d)]

-----------------------------------------------------------------------------
(***************************************************************************)
(* The encoders.                                                           *)
(***************************************************************************)
always(b) == IF b THEN <<alwaysTrue>> ELSE <<alwaysFalse>>

symbolState(e, state) ==
  CASE e[1] = "const" -> IF IsTriConst(e) THEN always(e[2] = state) ELSE <<>>
    [] e[1] = "symbol" /\ Type[e[2]] \in {"undefined", "int"} -> always(state = triN)
    [] e[1] = "symbol" /\ Type[e[2]] = "bool" /\ state = triM -> <<alwaysFalse>>
    [] OTHER -> Term(<<"effective", e[2], state>>)

\* The encoders of an expression take what refs returns for its operands.
anyStateRef(r, s, t) == orOf(orOf(<<alwaysFalse>>, r[s]), r[t])

encodeAndStateBody(l, r, want) ==
  CASE want = triN -> orOf(l[triN], r[triN])
    [] want = triM -> orOf(andOf(anyStateRef(r, triM, triY), l[triM]),
                           andOf(l[triY], r[triM]))
    [] want = triY -> andOf(l[triY], r[triY])

\* Fault: m needs both sides to be m.
encodeOrBothM(l, r, want) ==
  CASE want = triN -> andOf(l[triN], r[triN])
    [] want = triM -> andOf(l[triM], r[triM])
    [] want = triY -> orOf(l[triY], r[triY])

encodeOrStateBody(l, r, want) ==
  CASE want = triN -> andOf(l[triN], r[triN])
    [] want = triM -> orOf(andOf(anyStateRef(r, triN, triM), l[triM]),
                           andOf(l[triN], r[triM]))
    [] want = triY -> orOf(l[triY], r[triY])

StatePairs == [k \in 1 .. 9 |-> <<(k - 1) \div 3, (k - 1) % 3>>]

encodeTriCompareState(op, l, r, want) ==
  LET matching == elementsIn(StatePairs,
                    {p \in (0 .. 2) \X (0 .. 2) : compareTri(p[1], p[2], op) = want})
  IN anyOf([k \in 1 .. Len(matching) |-> andOf(l[matching[k][1]], r[matching[k][2]])])

encodeCompareState(e, l, r, state) ==
  CASE state = triM -> <<alwaysFalse>>
    [] state # triM /\ isTriExpression[e[2]] /\ isTriExpression[e[3]] ->
         encodeTriCompareState(e[1], l, r, state = triY)
    [] OTHER -> IF derivedComparisonFor(e) THEN Term(<<"derived", e, state>>) ELSE <<>>

\* encodeStateRef, for every state: a compound operand becomes a term.
refs(bodies, e) ==
  [s \in 0 .. 2 |-> IF needsConditionTerm[e] THEN Term(<<"condition", e, s>>) ELSE bodies[e][s]]

\* encodeState and encodeStateBody, for every state
encodeStateBody[e \in Expressions] ==
  [state \in 0 .. 2 |->
     CASE IsSymbol(e) -> symbolState(e, state)
       [] e[1] = "!" -> refs(encodeStateBody, e[2])[triY - state]
       [] e[1] = "&&" ->
            encodeAndStateBody(refs(encodeStateBody, e[2]), refs(encodeStateBody, e[3]), state)
       [] e[1] = "||" ->
            encodeOrStateBody(refs(encodeStateBody, e[2]), refs(encodeStateBody, e[3]), state)
       [] OTHER ->
            encodeCompareState(e, refs(encodeStateBody, e[2]), refs(encodeStateBody, e[3]), state)]

encodeStateRef(e, state) == refs(encodeStateBody, e)[state]

collectEvalSymbols[e \in Expressions] ==
  CASE e[1] = "const" -> IF IsTriConst(e) THEN <<{}>> ELSE <<>>
    [] e[1] = "symbol" -> <<{e[2]}>>
    [] e[1] = "!" -> collectEvalSymbols[e[2]]
    [] OTHER ->
         IF \/ e[1] \notin {"&&", "||", "=", "!="}
            \/ collectEvalSymbols[e[2]] = <<>> \/ collectEvalSymbols[e[3]] = <<>>
         THEN <<>>
         ELSE <<collectEvalSymbols[e[2]][1] \cup collectEvalSymbols[e[3]][1]>>

\* evalTri with every symbol in the same state (there is at most one).
evalTri(state) ==
  LET value[e \in Expressions] ==
        CASE e[1] = "const" -> e[2]
          [] e[1] = "symbol" -> state
          [] e[1] = "!" -> triY - value[e[2]]
          [] e[1] = "&&" -> MinTri(value[e[2]], value[e[3]])
          [] e[1] = "||" -> MaxTri(value[e[2]], value[e[3]])
          [] OTHER -> boolTri(compareTri(value[e[2]], value[e[3]], e[1]))
  IN value

\* The states the only symbol can be in; a scalar gives the attempt up.
statesOf(S) ==
  CASE S = {} \/ \E s \in S : Type[s] = "undefined" -> <<{triN}>>
    [] \E s \in S : Type[s] = "bool" -> <<{triN, triY}>>
    [] \E s \in S : Type[s] = "tristate" -> <<{triN, triM, triY}>>
    [] OTHER -> <<>>

encodeInvariantEnabled(e) ==
  LET symbols == collectEvalSymbols[e]
      states == statesOf(symbols[1])
      enabled == {evalTri(s)[e] # triN : s \in states[1]}
  IN IF symbols = <<>> \/ Cardinality(symbols[1]) > 1 \/ states = <<>> THEN <<>>
     ELSE IF Cardinality(enabled) = 1 THEN always(TRUE \in enabled) ELSE <<>>

enabledTermOfSymbol(e) ==
  CASE e[1] = "const" -> IF IsTriConst(e) THEN always(e[2] # triN) ELSE <<>>
    [] e[1] = "symbol" /\ Type[e[2]] = "undefined" -> <<alwaysFalse>>
    [] e[1] = "symbol" /\ Type[e[2]] \in TriTypes -> Term(<<"enabled", e[2]>>)
    [] OTHER -> <<>>

encodeDisabled(e) ==
  CASE ~ IsSymbol(e) -> encodeStateRef(e, triN)
    [] e[1] = "const" -> IF IsTriConst(e) THEN always(e[2] = triN) ELSE <<>>
    [] e[1] = "symbol" /\ Type[e[2]] = "undefined" -> <<alwaysTrue>>
    [] e[1] = "symbol" /\ Type[e[2]] \in TriTypes -> Term(<<"disabled", e[2]>>)
    [] OTHER -> encodeStateRef(e, triN)

encodeEnabled(e) ==
  CASE encodeInvariantEnabled(e) # <<>> -> encodeInvariantEnabled(e)
    [] encodeInvariantEnabled(e) = <<>> /\ IsSymbol(e) -> enabledTermOfSymbol(e)
    [] encodeInvariantEnabled(e) = <<>> /\ e[1] = "!" /\ e[2][1] = "symbol"
         /\ Type[e[2][2]] = "bool" -> encodeDisabled(e[2])
    [] OTHER -> orOf(encodeStateRef(e, triY), encodeStateRef(e, triM))

-----------------------------------------------------------------------------
(***************************************************************************)
(* The reference: the value of an expression, and of a DNF, in a           *)
(* valuation of the symbols.                                               *)
(***************************************************************************)
Valuations ==
  {v \in [TreeSymbols -> (0 .. 2) \cup Numbers] :
     \A s \in TreeSymbols :
       v[s] \in CASE Type[s] = "bool" -> {triN, triY} [] Type[s] = "tristate" -> 0 .. 2
                  [] Type[s] = "int" -> Numbers [] Type[s] = "undefined" -> {triN}}

\* A number or a tristate where it is compared; elsewhere a number counts as n.
operand(e, v) == IF e[1] = "const" THEN e[2] ELSE v[e[2]]

valueOf(v) ==
  LET value[e \in Expressions] ==
        CASE IsSymbol(e) -> IF operand(e, v) \in 0 .. 2 THEN operand(e, v) ELSE triN
          [] e[1] = "!" -> triY - value[e[2]]
          [] e[1] = "&&" -> MinTri(value[e[2]], value[e[3]])
          [] e[1] = "||" -> MaxTri(value[e[2]], value[e[3]])
          [] OTHER ->
               IF derivedComparisonFor(e)
               THEN boolTri(compareTri(operand(e[2], v), operand(e[3], v), e[1]))
               ELSE boolTri(compareTri(value[e[2]], value[e[3]], e[1]))
  IN value

termHolds(t, v) ==
  CASE t[1] = "effective" -> v[t[2]] = t[3]
    [] t[1] = "enabled" -> v[t[2]] # triN
    [] t[1] = "disabled" -> v[t[2]] = triN
    [] OTHER -> valueOf(v)[t[2]] = t[3]

clauseHolds(c, v) == \A t \in c : termHolds(t, v)

satisfied(d, v) == \E i \in DOMAIN d : clauseHolds(d[i], v)

-----------------------------------------------------------------------------
DnfInit ==
  /\ expr \in Expressions
  /\ limit \in ClauseLimits
  /\ result = [done |-> FALSE]

Encode ==
  /\ ~ result.done
  /\ result' =
       LET bodies == encodeStateBody[expr]
       IN [done |-> TRUE,
           enabled |-> encodeEnabled(expr),
           states |-> bodies,
           negated |-> [s \in 0 .. 2 |-> IF bodies[s] = <<>> THEN <<>> ELSE notDNF(bodies[s][1])]]
  /\ UNCHANGED <<expr, limit>>

DnfSpec == DnfInit /\ [][Encode]_dnfVars

-----------------------------------------------------------------------------
(***************************************************************************)
(* Properties.                                                             *)
(***************************************************************************)
\* encodeEnabled: an expression that is encoded at all is enabled exactly where
\* its DNF holds, the shortcuts for constant expressions included, and whatever
\* the clause limit: a DNF over the limit is refused, never cut or taken for
\* the empty one, which means "never".
EnabledExact ==
  result.done /\ result.enabled # <<>> =>
    \A v \in Valuations :
      satisfied(result.enabled[1], v) <=> valueOf(v)[expr] # triN

\* encodeStateBody: the definition of each condition term is exact, so in every
\* valuation exactly one of the three states holds.
StatesExact ==
  result.done =>
    \A s \in 0 .. 2 : result.states[s] # <<>> =>
      \A v \in Valuations :
        satisfied(result.states[s][1], v) <=> valueOf(v)[expr] = s

\* notDNF is the complement, although terms are negated one by one.
NegationExact ==
  result.done =>
    \A s \in 0 .. 2 : result.negated[s] # <<>> =>
      \A v \in Valuations :
        satisfied(result.negated[s][1], v) <=> valueOf(v)[expr] # s

\* Whatever an expression is encoded as means what the expression means.
EncodingExact == EnabledExact /\ StatesExact /\ NegationExact
=============================================================================
