----------------------- MODULE KconfigResolverProofs -----------------------
(***************************************************************************)
(* Proofs about the Kconfig value resolver, for every set of trees, every  *)
(* .config and every mode: its state is well typed, the configuration it   *)
(* returns is a fixed point of all its rules, and obeys those of Kconfig.  *)
(***************************************************************************)
EXTENDS KconfigResolver, FiniteSetTheorems, WellFoundedInduction, TLAPS

(* TypeOK, as far as it is about the resolver. *)
ResolverOK(q) ==
    /\ q.tree \in DOMAIN Trees
    /\ q.allNoConfig \in BOOLEAN
    /\ DOMAIN q.raw \subseteq Tree(q).symbols
    /\ \A s \in DOMAIN q.raw : q.raw[s] \in Text
    /\ q.effective \in [TriSymbols(Tree(q)) -> Tri]
    /\ DOMAIN q.values = ScalarSymbols(Tree(q))
    /\ \A s \in ScalarSymbols(Tree(q)) : q.values[s] \in Text
    /\ q.written \in [Tree(q).symbols -> BOOLEAN]

(* The counters of the loop. *)
LoopOK ==
    /\ sweep \in 0 .. MaxSweeps(Tree(resolver))
    /\ status = "resolving" => sweep < MaxSweeps(Tree(resolver))
    /\ cursor \in 1 .. Steps(Tree(resolver)) + 1
    /\ changed \in BOOLEAN
    /\ status \in {"resolving", "done", "failed"}

(***************************************************************************)
(* The inductive invariant behind DoneIsStable: as long as a sweep has     *)
(* changed nothing, every step it has taken would still change nothing.    *)
(***************************************************************************)
SweepInv ==
    /\ status = "resolving" /\ ~changed => \A k \in 1 .. cursor - 1 : SweepStep(resolver, k) = resolver
    /\ status = "done" => Stable(resolver)

IInv == ResolverOK(resolver) /\ LoopOK /\ SweepInv

-----------------------------------------------------------------------------
(* Values of expressions and of the helpers on tristates. *)

LEMMA TriTypes1 ==
    ASSUME NEW a \in Tri, NEW b \in Tri
    PROVE /\ minResolvedTri(a, b) \in Tri
          /\ maxResolvedTri(a, b) \in Tri
BY DEF minResolvedTri, maxResolvedTri, Tri

LEMMA ConstantsTyped ==
    /\ triN \in Tri /\ triM \in Tri /\ triY \in Tri
    /\ \A b : boolTri(b) \in Tri
    /\ \A v : triName(v) \in Text
    /\ Str("") \in Text /\ Str("n") \in Text /\ Num(0) \in Text
<1>1. triN \in Tri /\ triM \in Tri /\ triY \in Tri
  BY DEF triN, triM, triY, Tri
<1>2. \A b : boolTri(b) \in Tri
  BY <1>1 DEF boolTri
<1>3. \A x \in {"", "n", "m", "y"} : Str(x) \in Text
  BY StringsAssumption DEF Str, Text
<1>4. \A v : triName(v) \in Text
  BY <1>3 DEF triName
<1>5. Str("") \in Text /\ Str("n") \in Text
  BY <1>3
<1>6. Num(0) \in Text
  BY DEF Num, Text
<1>7. QED
  BY <1>1, <1>2, <1>4, <1>5, <1>6, Zenon

(* evalExprDefaultMode returns a tristate, whatever the expression. *)
LEMMA EvalTyped ==
    ASSUME NEW r, NEW e, NEW def \in Tri
    PROVE /\ evalExprDefault(r, e, def) \in Tri
          /\ evalDepExprDefault(r, e, def) \in Tri
BY ConstantsTyped DEF evalExprDefault, evalDepExprDefault, evalExprDefaultMode, orN

LEMMA ClampTyped ==
    ASSUME NEW r, NEW s, NEW v \in Tri
    PROVE clampSymbolTri(r, s, v) \in Tri
BY ConstantsTyped DEF clampSymbolTri

LEMMA ScalarDefaultTyped == \A type : defaultScalarValue(type) \in Text
BY ConstantsTyped DEF defaultScalarValue

(* exprValue returns a text. *)
LEMMA ExprValueTyped ==
    ASSUME NEW r, NEW e, ResolverOK(r)
    PROVE exprValue(r, e) \in Text
<1>1. \A s : symbolText(r, s) \in Text
  BY ConstantsTyped, ScalarDefaultTyped DEF symbolText, ResolverOK
<1>2. QED
  BY <1>1, ConstantsTyped DEF exprValue

LEMMA PromptTyped ==
    ASSUME NEW r, NEW s
    PROVE promptVisibility(r, s) \in Tri
<1>1. \A V : highest(V) \in Tri
  BY ConstantsTyped DEF highest
<1>2. QED
  BY <1>1, ClampTyped DEF promptVisibility

LEMMA DefaultTyped ==
    ASSUME NEW r, NEW s
    PROVE defaultTri(r, s) \in Tri
<1>1. \A props, K : firstTri(r, props, K) \in Tri
  BY ConstantsTyped, EvalTyped, TriTypes1 DEF firstTri
<1>2. QED
  BY <1>1, ClampTyped DEF defaultTri

LEMMA RawTriTyped ==
    ASSUME NEW r, NEW s
    PROVE rawTri(r, s) \in Tri
BY ConstantsTyped DEF rawTri, configTriValue

LEMMA NextTriTyped ==
    ASSUME NEW r, NEW s
    PROVE nextTri(r, s) \in Tri
<1>1. baseTri(r, s) \in Tri
  BY ConstantsTyped, PromptTyped, DefaultTyped, RawTriTyped, TriTypes1 DEF baseTri
<1>2. impliedTri(r, s) \in Tri
  BY ConstantsTyped, EvalTyped, TriTypes1 DEF impliedTri
<1>3. QED
  BY <1>1, <1>2, ConstantsTyped, EvalTyped, ClampTyped, TriTypes1 DEF nextTri

LEMMA ClampRangeTyped ==
    ASSUME NEW r, NEW s, NEW x \in Text, ResolverOK(r)
    PROVE clampScalarRange(r, s, x) \in Text
<1>1. ASSUME NEW props, NEW K, NEW y \in Text PROVE clampTo(r, props, K, y) \in Text
  BY ExprValueTyped DEF clampTo, within
<1>2. (IF IsNum(x) THEN x ELSE defaultScalarValue(Tree(r).type[s])) \in Text
  BY ScalarDefaultTyped
<1>3. QED
  BY <1>1, <1>2 DEF clampScalarRange

LEMMA ScalarValueTyped ==
    ASSUME NEW r, NEW s, ResolverOK(r)
    PROVE scalarValue(r, s).value \in Text /\ scalarValue(r, s).write \in BOOLEAN
<1> DEFINE K == visibleProps(r, Tree(r).props[s], "default")
           value == IF visibleUserValue(r, s) THEN r.raw[s] ELSE defaultText(r, Tree(r).props[s], K)
<1>1. value \in Text
  BY ConstantsTyped, ExprValueTyped DEF visibleUserValue, rawSet, ResolverOK, defaultText
<1>2. orDefault(r, s, value) \in Text
  BY <1>1, ScalarDefaultTyped DEF orDefault
<1>3. clampScalarRange(r, s, orDefault(r, s, value)) \in Text
  BY <1>2, ClampRangeTyped
<1>4. scalarValue(r, s) = [value |-> clampScalarRange(r, s, orDefault(r, s, value)),
                           write |-> K # {} \/ promptVisibility(r, s) # triN]
  BY DEF scalarValue
<1>5. (K # {} \/ promptVisibility(r, s) # triN) \in BOOLEAN
  OBVIOUS
<1> HIDE DEF K, value
<1>6. scalarValue(r, s).value = clampScalarRange(r, s, orDefault(r, s, value))
  BY <1>4
<1>7. scalarValue(r, s).write = (K # {} \/ promptVisibility(r, s) # triN)
  BY <1>4
<1>8. QED
  BY <1>3, <1>5, <1>6, <1>7, Zenon

-----------------------------------------------------------------------------
(* The steps of a sweep keep the resolver well typed. *)

(* What TreesAssumption says of the tree of a resolver. *)
LEMMA TreeFacts ==
    ASSUME NEW q, q.tree \in DOMAIN Trees
    PROVE /\ Tree(q).scalars \in Seq(ScalarSymbols(Tree(q)))
          /\ Tree(q).tristates \in Seq(TriSymbols(Tree(q)))
          /\ Len(Tree(q).scalars) \in Nat /\ Len(Tree(q).tristates) \in Nat /\ Len(Tree(q).choices) \in Nat
          /\ MaxSweeps(Tree(q)) \in Nat \ {0}
          /\ Steps(Tree(q)) \in Nat
<1> DEFINE t == Tree(q)
<1>1. WellFormedTree(t)
  BY TreesAssumption DEF Tree
<1> HIDE DEF t
<1>2. IsFiniteSet(t.symbols) /\ t.scalars \in Seq(ScalarSymbols(t)) /\ t.tristates \in Seq(TriSymbols(t))
  BY <1>1 DEF WellFormedTree
<1>3. Len(t.choices) \in Nat
  <2>1. t.choices \in Seq([members : Seq(TriSymbols(t)), props : Seq(t.properties)])
    BY <1>1, Zenon DEF WellFormedTree
  <2>2. QED
    BY <2>1
<1>4. Len(t.scalars) \in Nat /\ Len(t.tristates) \in Nat
  BY <1>2
<1>5. Steps(t) \in Nat
  <2>1. \A a, b, c \in Nat : a + b + c \in Nat
    OBVIOUS
  <2>2. QED
    BY <1>3, <1>4, <2>1, Zenon DEF Steps
<1>6. Cardinality(t.symbols) \in Nat
  BY <1>2, FS_CardinalityType
<1>7. MaxSweeps(t) \in Nat \ {0}
  BY <1>6 DEF MaxSweeps
<1>8. QED
  BY <1>2, <1>3, <1>4, <1>5, <1>7 DEF t

(* Replacing the maps by well typed ones keeps the resolver well typed. *)
LEMMA UpdateTyped ==
    ASSUME NEW q, ResolverOK(q),
           NEW effective \in [TriSymbols(Tree(q)) -> Tri],
           NEW values, DOMAIN values = ScalarSymbols(Tree(q)),
           \A s \in ScalarSymbols(Tree(q)) : values[s] \in Text,
           NEW written \in [Tree(q).symbols -> BOOLEAN]
    PROVE /\ ResolverOK(update(q, effective, values, written))
          /\ update(q, effective, values, written).tree = q.tree
<1> DEFINE p == update(q, effective, values, written)
<1>1. /\ p.tree = q.tree /\ p.raw = q.raw /\ p.allNoConfig = q.allNoConfig
      /\ p.effective = effective /\ p.values = values /\ p.written = written
  BY DEF update
<1> HIDE DEF p
<1>2. Tree(p) = Tree(q)
  BY <1>1 DEF Tree
<1>3. ResolverOK(p) /\ p.tree = q.tree
  BY <1>1, <1>2 DEF ResolverOK
<1>4. QED
  BY <1>3 DEF p

LEMMA StoreScalarTyped ==
    ASSUME NEW q, ResolverOK(q), NEW s \in ScalarSymbols(Tree(q)),
           NEW n, n.value \in Text, n.write \in BOOLEAN
    PROVE ResolverOK(storeScalar(q, s, n)) /\ storeScalar(q, s, n).tree = q.tree
<1> DEFINE values == [q.values EXCEPT ![s] = n.value]
           written == [q.written EXCEPT ![s] = n.write]
<1>1. written \in [Tree(q).symbols -> BOOLEAN]
  BY DEF ResolverOK, ScalarSymbols
<1>2. DOMAIN values = ScalarSymbols(Tree(q)) /\ \A x \in ScalarSymbols(Tree(q)) : values[x] \in Text
  BY DEF ResolverOK
<1>3. q.effective \in [TriSymbols(Tree(q)) -> Tri]
  BY DEF ResolverOK
<1> HIDE DEF values, written
<1>4. ResolverOK(update(q, q.effective, values, written)) /\ update(q, q.effective, values, written).tree = q.tree
  BY <1>1, <1>2, <1>3, UpdateTyped
<1>5. QED
  BY <1>4 DEF storeScalar, values, written

LEMMA StoreTriTyped ==
    ASSUME NEW q, ResolverOK(q), NEW s \in TriSymbols(Tree(q)), NEW v \in Tri
    PROVE ResolverOK(storeTri(q, s, v)) /\ storeTri(q, s, v).tree = q.tree
<1> DEFINE effective == [q.effective EXCEPT ![s] = v]
           written == [q.written EXCEPT ![s] = (v # triN)]
<1>1. written \in [Tree(q).symbols -> BOOLEAN]
  BY DEF ResolverOK, TriSymbols
<1>2. effective \in [TriSymbols(Tree(q)) -> Tri]
  BY DEF ResolverOK
<1>3. DOMAIN q.values = ScalarSymbols(Tree(q)) /\ \A x \in ScalarSymbols(Tree(q)) : q.values[x] \in Text
  BY DEF ResolverOK
<1> HIDE DEF effective, written
<1>4. ResolverOK(update(q, effective, q.values, written)) /\ update(q, effective, q.values, written).tree = q.tree
  BY <1>1, <1>2, <1>3, UpdateTyped
<1>5. QED
  BY <1>4 DEF storeTri, effective, written

LEMMA ApplyChoiceTyped ==
    ASSUME NEW q, ResolverOK(q), NEW c
    PROVE ResolverOK(applyChoice(q, c)) /\ applyChoice(q, c).tree = q.tree
<1> DEFINE value(s) == boolTri(s = choiceSelection(q, c))
           effective == [s \in DOMAIN q.effective |-> IF s \in Members(c) THEN value(s) ELSE q.effective[s]]
           written == [s \in DOMAIN q.written |-> IF s \in Members(c) THEN value(s) # triN ELSE q.written[s]]
<1>1. \A s : value(s) \in Tri
  BY ConstantsTyped
<1> HIDE DEF value
<1>2. effective \in [TriSymbols(Tree(q)) -> Tri]
  BY <1>1 DEF ResolverOK
<1>3. written \in [Tree(q).symbols -> BOOLEAN]
  BY DEF ResolverOK
<1>4. DOMAIN q.values = ScalarSymbols(Tree(q)) /\ \A x \in ScalarSymbols(Tree(q)) : q.values[x] \in Text
  BY DEF ResolverOK
<1> HIDE DEF effective, written
<1>5. ResolverOK(update(q, effective, q.values, written)) /\ update(q, effective, q.values, written).tree = q.tree
  BY <1>2, <1>3, <1>4, UpdateTyped
<1>6. QED
  BY <1>5 DEF applyChoice, effective, written, value

-----------------------------------------------------------------------------
(* Each kind of step is the step SweepStep names. *)

LEMMA ElementAt ==
    ASSUME NEW S, NEW seq \in Seq(S), NEW a \in Nat, NEW k \in a + 1 .. a + Len(seq)
    PROVE seq[k - a] \in S
OBVIOUS

LEMMA StepKinds ==
    ASSUME NEW q, q.tree \in DOMAIN Trees, NEW k
    PROVE /\ IsTristateStep(Tree(q), k) => ~IsScalarStep(Tree(q), k)
          /\ IsChoiceStep(Tree(q), k) => ~IsScalarStep(Tree(q), k) /\ ~IsTristateStep(Tree(q), k)
          /\ IsScalarStep(Tree(q), k) \/ IsTristateStep(Tree(q), k) \/ IsChoiceStep(Tree(q), k)
             => k \in 1 .. Steps(Tree(q))
<1> DEFINE t == Tree(q)
           a == Len(t.scalars)
           b == Len(t.tristates)
           c == Len(t.choices)
           n == Steps(t)
<1>1. a \in Nat /\ b \in Nat /\ c \in Nat /\ n = a + b + c
  BY TreeFacts, Zenon DEF Steps
<1>2. /\ IsScalarStep(t, k) <=> k \in 1 .. a
      /\ IsTristateStep(t, k) <=> k \in a + 1 .. a + b
      /\ IsChoiceStep(t, k) <=> k \in a + b + 1 .. n
  BY Zenon DEF IsScalarStep, IsTristateStep, IsChoiceStep
<1> HIDE DEF a, b, c, n
<1>3. ASSUME NEW x \in Nat, NEW y \in Nat, NEW z \in Nat, NEW m, m = x + y + z
      PROVE /\ k \in x + 1 .. x + y => k \notin 1 .. x
            /\ k \in x + y + 1 .. m => k \notin 1 .. x /\ k \notin x + 1 .. x + y
            /\ k \in 1 .. x \/ k \in x + 1 .. x + y \/ k \in x + y + 1 .. m => k \in 1 .. m
  BY <1>3
<1>4. /\ k \in a + 1 .. a + b => k \notin 1 .. a
      /\ k \in a + b + 1 .. n => k \notin 1 .. a /\ k \notin a + 1 .. a + b
      /\ k \in 1 .. a \/ k \in a + 1 .. a + b \/ k \in a + b + 1 .. n => k \in 1 .. n
  BY <1>1, <1>3
<1>5. QED
  BY <1>2, <1>4 DEF n

(* ResolveScalar, ResolveTristate and ApplyChoiceSemantics each replace the  *)
(* resolver by SweepStep at the cursor, which is well typed and on the same  *)
(* tree.                                                                     *)
LEMMA StepIsSweepStep ==
    ASSUME ResolverOK(resolver), ResolveScalar \/ ResolveTristate \/ ApplyChoiceSemantics
    PROVE /\ resolver' = SweepStep(resolver, cursor)
          /\ ResolverOK(resolver') /\ resolver'.tree = resolver.tree
          /\ status = "resolving" /\ cursor \in 1 .. Steps(Tree(resolver))
          /\ Advance
<1> DEFINE t == Tree(resolver)
<1>1. resolver.tree \in DOMAIN Trees
  BY DEF ResolverOK
<1>2. CASE ResolveScalar
  <2> DEFINE s == ScalarAt(t, cursor)
  <2>1. IsScalarStep(t, cursor) /\ status = "resolving" /\ Advance
        /\ resolver' = storeScalar(resolver, s, scalarValue(resolver, s))
    BY <1>2 DEF ResolveScalar
  <2>2. s \in ScalarSymbols(t)
    BY <1>1, <2>1, TreeFacts DEF ScalarAt, IsScalarStep
  <2>3. ResolverOK(resolver') /\ resolver'.tree = resolver.tree
    BY <2>1, <2>2, ScalarValueTyped, StoreScalarTyped
  <2>4. resolver' = SweepStep(resolver, cursor)
    BY <1>1, <2>1, StepKinds DEF SweepStep
  <2>5. QED
    BY <1>1, <2>1, <2>3, <2>4, StepKinds
<1>3. CASE ResolveTristate
  <2> DEFINE s == TristateAt(t, cursor)
  <2>1. IsTristateStep(t, cursor) /\ status = "resolving" /\ Advance
        /\ resolver' = storeTri(resolver, s, nextTri(resolver, s))
    BY <1>3 DEF ResolveTristate
  <2>2. s \in TriSymbols(t)
    BY <1>1, <2>1, TreeFacts, ElementAt, Zenon DEF TristateAt, IsTristateStep
  <2>3. ResolverOK(resolver') /\ resolver'.tree = resolver.tree
    BY <2>1, <2>2, NextTriTyped, StoreTriTyped
  <2>4. resolver' = SweepStep(resolver, cursor)
    BY <1>1, <2>1, StepKinds DEF SweepStep
  <2>5. QED
    BY <1>1, <2>1, <2>3, <2>4, StepKinds
<1>4. CASE ApplyChoiceSemantics
  <2>1. IsChoiceStep(t, cursor) /\ status = "resolving" /\ Advance
        /\ resolver' = applyChoice(resolver, ChoiceAt(t, cursor))
    BY <1>4 DEF ApplyChoiceSemantics
  <2>2. ResolverOK(resolver') /\ resolver'.tree = resolver.tree
    BY <2>1, ApplyChoiceTyped
  <2>3. resolver' = SweepStep(resolver, cursor)
    BY <1>1, <2>1, StepKinds DEF SweepStep
  <2>4. QED
    BY <1>1, <2>1, <2>2, <2>3, StepKinds
<1>5. QED
  BY <1>2, <1>3, <1>4

-----------------------------------------------------------------------------
(* The resolver starts well typed, and the first sweep has taken no step. *)
LEMMA InitInv == Init => IInv
<1> SUFFICES ASSUME Init PROVE IInv
  OBVIOUS
<1>0. PICK id \in DOMAIN Trees, allNo \in AllNoModes :
        \E c \in RawConfigs(Trees[id]) : resolver = NewResolver(id, c, allNo)
  BY Zenon DEF Init
<1>1. PICK c \in RawConfigs(Trees[id]) : resolver = NewResolver(id, c, allNo)
  BY <1>0
<1> DEFINE t == Trees[id]
           raw == WithoutRustToolchainValues(t, c)
<1>2. DOMAIN raw \subseteq t.symbols /\ \A s \in DOMAIN raw : raw[s] \in Text
  BY RawAssumption DEF WithoutRustToolchainValues
<1> DEFINE effective == [s \in TriSymbols(t) |->
                           IF s \in DOMAIN raw THEN configTriValue(t.type[s], raw[s]) ELSE triN]
           values == [s \in ScalarSymbols(t) |-> IF s \in DOMAIN raw THEN raw[s] ELSE Str("")]
           written == [s \in t.symbols |-> FALSE]
<1>3. resolver = [tree |-> id, raw |-> raw, allNoConfig |-> allNo,
                  effective |-> effective, values |-> values, written |-> written]
  BY <1>1 DEF NewResolver
<1>4. effective \in [TriSymbols(t) -> Tri]
  BY ConstantsTyped DEF configTriValue
<1>5. DOMAIN values = ScalarSymbols(t) /\ \A s \in ScalarSymbols(t) : values[s] \in Text
  BY <1>2, ConstantsTyped
<1>6. written \in [t.symbols -> BOOLEAN]
  OBVIOUS
<1>7. allNo \in BOOLEAN
  BY ModeAssumption
<1> HIDE DEF raw, effective, values, written
<1>8. /\ resolver.tree = id /\ resolver.raw = raw /\ resolver.allNoConfig = allNo
      /\ resolver.effective = effective /\ resolver.values = values /\ resolver.written = written
  BY <1>3
<1>9. Tree(resolver) = t
  BY <1>8 DEF Tree
<1>10. ResolverOK(resolver)
  BY <1>2, <1>4, <1>5, <1>6, <1>7, <1>8, <1>9 DEF ResolverOK
<1>11. LoopOK
  <2>1. MaxSweeps(Tree(resolver)) \in Nat \ {0} /\ Steps(Tree(resolver)) \in Nat
    BY <1>8, TreeFacts
  <2>2. changed \in BOOLEAN
    BY Zenon DEF Init
  <2>3. sweep = 0 /\ cursor = 1 /\ status = "resolving"
    BY DEF Init
  <2>4. 1 \in 1 .. Steps(Tree(resolver)) + 1 /\ 0 \in 0 .. MaxSweeps(Tree(resolver)) /\ 0 < MaxSweeps(Tree(resolver))
    BY <2>1
  <2>5. QED
    BY <2>2, <2>3, <2>4 DEF LoopOK
<1>12. SweepInv
  BY DEF Init, SweepInv
<1>13. QED
  BY <1>10, <1>11, <1>12 DEF IInv

(* Every step of the loop preserves the invariant. *)
LEMMA NextInv == IInv /\ [Next]_vars => IInv'
<1> SUFFICES ASSUME IInv, [Next]_vars PROVE IInv'
  OBVIOUS
<1> USE DEF IInv
<1>0. /\ MaxSweeps(Tree(resolver)) \in Nat \ {0} /\ Steps(Tree(resolver)) \in Nat
  BY TreeFacts DEF ResolverOK
<1>1. CASE ResolveScalar \/ ResolveTristate \/ ApplyChoiceSemantics
  <2>1. /\ resolver' = SweepStep(resolver, cursor)
        /\ ResolverOK(resolver') /\ resolver'.tree = resolver.tree
        /\ status = "resolving" /\ cursor \in 1 .. Steps(Tree(resolver))
        /\ Advance
    BY <1>1, StepIsSweepStep
  <2>2. /\ changed' = (changed \/ resolver' # resolver)
        /\ cursor' = cursor + 1 /\ sweep' = sweep /\ status' = status
    BY <2>1 DEF Advance
  <2>3. Tree(resolver') = Tree(resolver)
    BY <2>1 DEF Tree
  <2>4. LoopOK'
    BY <1>0, <2>1, <2>2, <2>3 DEF LoopOK
  <2>5. SweepInv'
    <3>1. SUFFICES ASSUME ~changed', NEW k \in 1 .. cursor' - 1
                   PROVE SweepStep(resolver', k) = resolver'
      BY <2>1, <2>2 DEF SweepInv
    <3>2. ~changed /\ resolver' = resolver
      BY <3>1, <2>2
    <3>3. k \in 1 .. cursor - 1 \/ k = cursor
      BY <1>0, <2>1, <2>2
    <3>4. QED
      BY <2>1, <3>2, <3>3 DEF SweepInv
  <2>6. QED
    BY <2>1, <2>4, <2>5
<1>2. CASE EndSweep
  <2>1. /\ status = "resolving" /\ cursor = Steps(Tree(resolver)) + 1
        /\ cursor' = 1 /\ sweep' = sweep + 1 /\ changed' = FALSE /\ resolver' = resolver
        /\ status' = IF ~changed THEN "done"
                     ELSE IF sweep + 1 < MaxSweeps(Tree(resolver)) THEN "resolving" ELSE "failed"
    BY <1>2 DEF EndSweep
  <2>2. LoopOK'
    <3>1. sweep \in Nat /\ sweep + 1 <= MaxSweeps(Tree(resolver))
      BY <1>0, <2>1 DEF LoopOK
    <3>2. status' \in {"resolving", "done", "failed"}
          /\ (status' = "resolving" => sweep + 1 < MaxSweeps(Tree(resolver)))
      BY <2>1
    <3>3. changed' \in BOOLEAN
      BY <2>1, Zenon
    <3>4. sweep + 1 \in 0 .. MaxSweeps(Tree(resolver)) /\ 1 \in 1 .. Steps(Tree(resolver)) + 1
      BY <1>0, <3>1
    <3>5. cursor' = 1 /\ sweep' = sweep + 1 /\ resolver' = resolver
      BY <2>1
    <3>6. QED
      BY <3>2, <3>3, <3>4, <3>5 DEF LoopOK
  <2>3. status' = "done" => Stable(resolver)
    BY <1>0, <2>1 DEF SweepInv, Stable
  <2>4. SweepInv'
    BY <2>1, <2>3 DEF SweepInv
  <2>5. QED
    BY <2>1, <2>2, <2>4
<1>3. CASE UNCHANGED vars
  BY <1>3 DEF vars, ResolverOK, LoopOK, SweepInv
<1>4. QED
  BY <1>1, <1>2, <1>3 DEF Next

(***************************************************************************)
(* The state of ResolveConfigWithOptions is well typed throughout: the     *)
(* maps of the resolver stay total, every value is one its type allows,    *)
(* and the sweep counter never exceeds its bound.                          *)
(***************************************************************************)
THEOREM TypeCorrect == Spec => []TypeOK
<1>1. IInv => TypeOK
  BY DEF IInv, ResolverOK, LoopOK, TypeOK
<1>2. QED
  BY InitInv, NextInv, <1>1, PTL DEF Spec

(***************************************************************************)
(* Whatever the tree, the .config and the mode, ResolveConfigWithOptions   *)
(* returns only configurations that none of its rules would change.        *)
(***************************************************************************)
THEOREM ResultIsFixpoint == Spec => []DoneIsStable
<1>1. IInv => DoneIsStable
  BY DEF IInv, SweepInv, DoneIsStable, Resolved
<1>2. QED
  BY InitInv, NextInv, <1>1, PTL DEF Spec

-----------------------------------------------------------------------------
(* What it means for a configuration that no rule would change it. *)

(* A bool or tristate outside a choice has the value its rule computes. *)
LEMMA StableTri ==
    ASSUME NEW q, ResolverOK(q), Stable(q), NEW s \in Free(Tree(q))
    PROVE q.effective[s] = nextTri(q, s) /\ s \in TriSymbols(Tree(q))
<1> DEFINE t == Tree(q)
           a == Len(t.scalars)
           b == Len(t.tristates)
           c == Len(t.choices)
           n == Steps(t)
<1>1. PICK j \in DOMAIN t.tristates : s = t.tristates[j]
  BY DEF Free
<1>2. t.tristates \in Seq(TriSymbols(t)) /\ a \in Nat /\ b \in Nat /\ c \in Nat /\ n = a + b + c
  BY TreeFacts, Zenon DEF ResolverOK, Steps
<1>3. s \in TriSymbols(t)
  BY <1>1, <1>2
<1>4. j \in 1 .. b
  BY <1>1, <1>2
<1> HIDE DEF a, b, c, n
<1>5. j + a \in a + 1 .. a + b /\ j + a \in 1 .. n /\ (j + a) - a = j
  BY <1>2, <1>4
<1>6. IsTristateStep(t, j + a) /\ TristateAt(t, j + a) = t.tristates[(j + a) - a]
  BY <1>5, Zenon DEF IsTristateStep, TristateAt, a, b
<1>7. IsTristateStep(t, j + a) /\ TristateAt(t, j + a) = s
  BY <1>1, <1>5, <1>6
<1>8. SweepStep(q, j + a) = q
  BY <1>5, Zenon DEF Stable, n
<1>9. storeTri(q, s, nextTri(q, s)) = q
  BY <1>7, <1>8, StepKinds DEF SweepStep, ResolverOK
<1>10. storeTri(q, s, nextTri(q, s)).effective = [q.effective EXCEPT ![s] = nextTri(q, s)]
  BY DEF storeTri, update
<1>11. q.effective = [q.effective EXCEPT ![s] = nextTri(q, s)]
  BY <1>9, <1>10
<1>12. s \in DOMAIN q.effective
  BY <1>3 DEF ResolverOK
<1>13. QED
  BY <1>3, <1>11, <1>12

(***************************************************************************)
(* In every configuration ResolveConfigWithOptions returns, the user's     *)
(* value of a symbol with a visible prompt that nothing selects is final:  *)
(* no default, imply or order of evaluation overrides it.                  *)
(***************************************************************************)
THEOREM UserHasTheLastWord == Spec => []UserDecides
<1>1. IInv => UserDecides
  <2>1. SUFFICES ASSUME IInv, Resolved, NEW s \in Free(Tree(resolver)), visibleUserValue(resolver, s),
                        evalDepExprDefault(resolver, Tree(resolver).revdep[s], triN) = triN
                 PROVE resolver.effective[s] =
                         clampSymbolTri(resolver, s, minResolvedTri(rawTri(resolver, s), promptVisibility(resolver, s)))
    BY Zenon DEF UserDecides
  <2> DEFINE b == minResolvedTri(rawTri(resolver, s), promptVisibility(resolver, s))
  <2>2. b \in Tri
    BY RawTriTyped, PromptTyped, TriTypes1
  <2>3. ResolverOK(resolver) /\ Stable(resolver)
    BY <2>1 DEF IInv, SweepInv, Resolved
  <2>4. resolver.effective[s] = nextTri(resolver, s)
    BY <2>1, <2>3, StableTri
  <2>5. baseTri(resolver, s) = b /\ impliedTri(resolver, s) = triN
    BY <2>1 DEF baseTri, impliedTri
  <2> HIDE DEF b
  <2>6. maxResolvedTri(maxResolvedTri(b, triN), triN) = b
    BY <2>2 DEF maxResolvedTri, triN, Tri
  <2>7. nextTri(resolver, s) = clampSymbolTri(resolver, s, b)
    BY <2>1, <2>5, <2>6, Zenon DEF nextTri
  <2>8. QED
    BY <2>4, <2>7 DEF b
<1>2. QED
  BY InitInv, NextInv, <1>1, PTL DEF Spec

(* A member of a choice is y if it is the one selected, and n otherwise. *)
LEMMA StableChoice ==
    ASSUME NEW q, ResolverOK(q), Stable(q), NEW j \in DOMAIN Tree(q).choices,
           NEW s \in Members(Tree(q).choices[j]), s \in TriSymbols(Tree(q))
    PROVE q.effective[s] = boolTri(s = choiceSelection(q, Tree(q).choices[j]))
<1> DEFINE t == Tree(q)
           a == Len(t.scalars)
           b == Len(t.tristates)
           c == Len(t.choices)
           n == Steps(t)
           m == j + a + b
           ch == t.choices[j]
<1>1. a \in Nat /\ b \in Nat /\ c \in Nat /\ n = a + b + c
  BY TreeFacts, Zenon DEF ResolverOK, Steps
<1>2. t.choices \in Seq([members : Seq(TriSymbols(t)), props : Seq(t.properties)])
  <2>1. WellFormedTree(t)
    BY TreesAssumption DEF ResolverOK, Tree
  <2>2. QED
    BY <2>1, Zenon DEF WellFormedTree
<1>3. j \in 1 .. c
  BY <1>2
<1> HIDE DEF a, b, c, n
<1>4. m \in a + b + 1 .. n /\ m \in 1 .. n /\ m - a - b = j
  BY <1>1, <1>3
<1> HIDE DEF m
<1>5. IsChoiceStep(t, m) /\ ChoiceAt(t, m) = t.choices[m - a - b]
  <2>1. IsChoiceStep(t, m)
    BY <1>4, Zenon DEF IsChoiceStep, a, b, n
  <2>2. ChoiceAt(t, m) = t.choices[m - a - b]
    BY Zenon DEF ChoiceAt, a, b
  <2>3. QED
    BY <2>1, <2>2
<1>6. IsChoiceStep(t, m) /\ ChoiceAt(t, m) = ch
  BY <1>4, <1>5
<1>7. SweepStep(q, m) = q
  BY <1>4, Zenon DEF Stable, n
<1>8. applyChoice(q, ch) = q
  BY <1>6, <1>7, StepKinds DEF SweepStep, ResolverOK
<1>9. applyChoice(q, ch).effective =
        [x \in DOMAIN q.effective |-> IF x \in Members(ch) THEN boolTri(x = choiceSelection(q, ch)) ELSE q.effective[x]]
  BY DEF applyChoice, update
<1>10. s \in DOMAIN q.effective
  BY DEF ResolverOK
<1>11. QED
  BY <1>8, <1>9, <1>10, Zenon

(***************************************************************************)
(* In every configuration ResolveConfigWithOptions returns, only tristates *)
(* outside choices are m, and only while modules are enabled.              *)
(***************************************************************************)
THEOREM ModulesOnlyIfEnabled == Spec => []NoStrayModule
<1>1. IInv => NoStrayModule
  <2>1. SUFFICES ASSUME IInv, Resolved, NEW s \in TriSymbols(Tree(resolver)), resolver.effective[s] = triM
                 PROVE /\ Tree(resolver).type[s] = "tristate"
                       /\ s \notin Tree(resolver).inChoice
                       /\ modulesTri(resolver) # triN
    BY Zenon DEF NoStrayModule
  <2> DEFINE t == Tree(resolver)
  <2>2. ResolverOK(resolver) /\ Stable(resolver)
    BY <2>1 DEF IInv, SweepInv, Resolved
  <2>3. WellFormedTree(t)
    BY <2>2, TreesAssumption DEF ResolverOK, Tree
  <2>4. s \notin t.inChoice
    <3>1. SUFFICES ASSUME s \in t.inChoice PROVE FALSE
      OBVIOUS
    <3>2. PICK j \in DOMAIN t.choices : s \in Members(t.choices[j])
      BY <2>3, <3>1, Zenon DEF WellFormedTree
    <3>3. resolver.effective[s] = boolTri(s = choiceSelection(resolver, t.choices[j]))
      BY <2>2, <3>2, StableChoice
    <3>4. QED
      BY <2>1, <3>3 DEF boolTri, triN, triM, triY
  <2>5. s \in Free(t)
    BY <2>3, <2>4, Zenon DEF WellFormedTree
  <2>6. clampSymbolTri(resolver, s,
          maxResolvedTri(maxResolvedTri(baseTri(resolver, s), impliedTri(resolver, s)),
                         evalDepExprDefault(resolver, t.revdep[s], triN))) = triM
    BY <2>1, <2>2, <2>5, StableTri DEF nextTri
  <2>7. t.type[s] # "bool" /\ modulesTri(resolver) # triN
    BY <2>4, <2>6 DEF clampSymbolTri, triM, triY
  <2>8. t.type[s] = "tristate"
    BY <2>7 DEF TriSymbols, TriTypes
  <2>9. QED
    BY <2>4, <2>7, <2>8
<1>2. QED
  BY InitInv, NextInv, <1>1, PTL DEF Spec

-----------------------------------------------------------------------------
(* Induction over the depth of expressions: TLAPS does not instantiate the    *)
(* induction theorems of its library, but a set of numbers has a least one.   *)

(* A set of numbers has a least element. *)
LEMMA LeastElement ==
    ASSUME NEW T, T \subseteq Nat, T # {}
    PROVE \E m \in T : \A n \in T : m <= n
<1> DEFINE below(n) == {k \in Nat : k < n}
           C == {below(n) : n \in T}
           R == StrictSubsetOrdering(Nat)
<1>1. IsWellFoundedOn(R, FiniteSubsetsOf(Nat))
  BY FS_StrictSubsetOrderingWellFounded
<1>2. \A n \in T : IsFiniteSet(below(n))
  <2> SUFFICES ASSUME NEW n \in T PROVE IsFiniteSet(below(n))
    OBVIOUS
  <2>1. below(n) \in SUBSET Nat /\ n \in Nat /\ \A k \in below(n) : k <= n
    OBVIOUS
  <2>2. QED
    BY <2>1, FS_BoundedSetOfNaturals
<1>3. C \subseteq FiniteSubsetsOf(Nat) /\ C # {}
  BY <1>2 DEF FiniteSubsetsOf
<1>4. PICK M \in C : \A N \in C : ~(<<N, M>> \in R)
  <2> HIDE DEF C, R
  <2>1. QED
    BY <1>1, <1>3, WFMin
<1>5. PICK m \in T : M = below(m)
  OBVIOUS
<1>6. ASSUME NEW n \in T, n < m PROVE FALSE
  <2>1. below(n) \in C /\ below(n) \subseteq below(m) /\ n \in below(m) /\ n \notin below(n)
    BY <1>6
  <2>2. <<below(n), M>> \in R
    BY <1>5, <2>1 DEF StrictSubsetOrdering
  <2>3. QED
    BY <1>4, <2>1, <2>2
<1>7. QED
  BY <1>6

(* Numbers closed under successor are all of them. *)
LEMMA EveryNumber ==
    ASSUME NEW A, 0 \in A, \A n \in Nat : n \in A => n + 1 \in A
    PROVE Nat \subseteq A
<1>1. SUFFICES ASSUME Nat \ A # {} PROVE FALSE
  OBVIOUS
<1>2. PICK m \in Nat \ A : \A n \in Nat \ A : m <= n
  <2>1. (Nat \ A) \subseteq Nat
    OBVIOUS
  <2>2. QED
    BY <1>1, <2>1, LeastElement
<1>3. m \in Nat /\ m # 0
  OBVIOUS
<1>4. m - 1 \in Nat /\ (m - 1) + 1 = m /\ ~(m <= m - 1)
  BY <1>3
<1>5. m - 1 \in A
  BY <1>2, <1>4
<1>6. QED
  BY <1>4, <1>5

(* A depth that is a number has a bound. *)
LEMMA DepthBounded ==
    ASSUME NEW E, IsFiniteSet(E), NEW depth, \A x \in E : depth[x] \in Nat
    PROVE \E n \in Nat : \A x \in E : depth[x] < n
<1> DEFINE P == {n \in Nat : \E S \in SUBSET E : IsFiniteSet(S) /\ Cardinality(S) = n
                              /\ ~\E b \in Nat : \A x \in S : depth[x] < b}
<1>1. ASSUME P = {} PROVE \E n \in Nat : \A x \in E : depth[x] < n
  <2>1. E \in SUBSET E /\ Cardinality(E) \in Nat
    BY FS_CardinalityType
  <2>2. QED
    BY <1>1, <2>1
<1>2. ASSUME P # {} PROVE FALSE
  <2>1. PICK m \in P : \A n \in P : m <= n
    <3>1. P \subseteq Nat
      OBVIOUS
    <3> HIDE DEF P
    <3>2. QED
      BY <1>2, <3>1, LeastElement
  <2>2. PICK S \in SUBSET E : /\ IsFiniteSet(S) /\ Cardinality(S) = m
                              /\ ~\E b \in Nat : \A x \in S : depth[x] < b
    OBVIOUS
  <2>3. S # {}
    BY <2>2
  <2>4. PICK x \in S : TRUE
    BY <2>3
  <2>5. IsFiniteSet(S \ {x}) /\ Cardinality(S \ {x}) = m - 1
    BY <2>2, FS_RemoveElement
  <2>6. m - 1 \in Nat /\ ~(m <= m - 1)
    <3>1. Cardinality(S \ {x}) \in Nat
      BY <2>5, FS_CardinalityType
    <3>2. QED
      BY <2>5, <3>1
  <2>7. PICK b \in Nat : \A y \in S \ {x} : depth[y] < b
    <3>1. m - 1 \notin P
      BY <2>1, <2>6
    <3>2. S \ {x} \in SUBSET E
      OBVIOUS
    <3>3. QED
      BY <2>5, <2>6, <3>1, <3>2
  <2> DEFINE c == b + depth[x] + 1
  <2>8. depth[x] \in Nat
    OBVIOUS
  <2>9. c \in Nat /\ b <= c /\ depth[x] < c
    BY <2>8
  <2>10. \A y \in S : depth[y] < c
    <3> SUFFICES ASSUME NEW y \in S, y # x PROVE depth[y] < c
      BY <2>9
    <3>1. depth[y] < b /\ depth[y] \in Nat
      BY <2>7
    <3> HIDE DEF c
    <3>2. QED
      BY <2>9, <3>1
  <2>11. QED
    BY <2>2, <2>9, <2>10
<1>3. QED
  BY <1>1, <1>2

-----------------------------------------------------------------------------
(* What tree r is. *)
LEMMA ExprFacts ==
    ASSUME NEW q, ResolverOK(q)
    PROVE /\ WellFormedExprs(Tree(q)) /\ Finalized(Tree(q))
          /\ Nil[1] = "nil"
BY TreesAssumption, Zenon DEF ResolverOK, Tree, WellFormedTree, Nil

(* The value of an expression depends on its operands alone. *)
LEMMA NodeReadsOperands ==
    ASSUME NEW q, NEW E, NEW f, NEW g, NEW x, \A y \in children(x) : f[y] = g[y]
    PROVE evalNode(q, x, f[x[2]], f[x[3]]) = evalNode(q, x, g[x[2]], g[x[3]])
<1>1. CASE x[1] \in {"!"}
  <2>1. f[x[2]] = g[x[2]]
    BY <1>1 DEF children
  <2>2. QED
    BY <1>1, <2>1 DEF evalNode
<1>2. CASE x[1] \in compareOps \cup {"&&", "||", ".."}
  <2>1. x[1] # "!"
    BY <1>2 DEF compareOps
  <2>2. f[x[2]] = g[x[2]] /\ f[x[3]] = g[x[3]]
    BY <1>2, <2>1 DEF children
  <2>3. QED
    BY <2>2
<1>3. CASE x[1] \notin compareOps \cup {"&&", "||", "..", "!"}
  BY <1>3 DEF evalNode
<1>4. QED
  BY <1>1, <1>2, <1>3

(* evalExprMode is defined: every expression has the value its operands give *)
(* it.                                                                       *)
LEMMA EvalUnfolds ==
    ASSUME NEW q, ResolverOK(q), NEW x \in Tree(q).exprs
    PROVE evalExprMode(q)[x] = evalNode(q, x, evalExprMode(q)[x[2]], evalExprMode(q)[x[3]])
<1> DEFINE E == Tree(q).exprs
           depth == nesting(E)
           Solves(f, n) == \A y \in E : depth[y] < n => f[y] = evalNode(q, y, f[y[2]], f[y[3]])
           IsEval(f) == f = [y \in E |-> evalNode(q, y, f[y[2]], f[y[3]])]
           A == {n \in Nat : \E f : f = [y \in E |-> f[y]] /\ Solves(f, n)}
<1>1. /\ IsFiniteSet(E) /\ \A y \in E : depth[y] \in Nat
      /\ \A y \in E : \A z \in children(y) : z \in E /\ depth[z] < depth[y]
  BY ExprFacts DEF WellFormedExprs
<1> HIDE DEF depth, E
<1>2. 0 \in A
  <2> DEFINE f == [y \in E |-> 0]
  <2>1. f = [y \in E |-> f[y]] /\ Solves(f, 0)
    BY <1>1
  <2>2. QED
    BY <2>1
<1>3. ASSUME NEW n \in Nat, n \in A PROVE n + 1 \in A
  <2>1. PICK f : f = [y \in E |-> f[y]] /\ Solves(f, n)
    BY <1>3
  <2> DEFINE g == [y \in E |-> evalNode(q, y, f[y[2]], f[y[3]])]
  <2>2. ASSUME NEW y \in E, depth[y] < n PROVE g[y] = f[y]
    BY <2>1, <2>2
  <2>3. ASSUME NEW y \in E, depth[y] < n + 1 PROVE g[y] = evalNode(q, y, g[y[2]], g[y[3]])
    <3>1. \A z \in children(y) : f[z] = g[z]
      <4> SUFFICES ASSUME NEW z \in children(y) PROVE f[z] = g[z]
        OBVIOUS
      <4>1. z \in E /\ depth[z] < depth[y] /\ depth[z] \in Nat /\ depth[y] \in Nat
        BY <1>1
      <4>2. depth[z] < n
        BY <2>3, <4>1
      <4>3. QED
        BY <2>2, <4>1, <4>2
    <3>2. g[y] = evalNode(q, y, f[y[2]], f[y[3]])
      OBVIOUS
    <3> HIDE DEF g
    <3>3. QED
      BY <3>1, <3>2, NodeReadsOperands
  <2>4. g = [y \in E |-> g[y]]
    OBVIOUS
  <2>5. Solves(g, n + 1)
    BY <2>3
  <2> HIDE DEF g, Solves
  <2>6. QED
    BY <2>4, <2>5
<1>4. PICK n \in Nat : \A y \in E : depth[y] < n
  BY <1>1, DepthBounded
<1>5. n \in A
  <2> HIDE DEF A
  <2>1. QED
    BY <1>2, <1>3, EveryNumber
<1>6. PICK f : f = [y \in E |-> f[y]] /\ Solves(f, n)
  BY <1>5
<1>7. IsEval(f)
  BY <1>4, <1>6
<1>8. evalExprMode(q) = CHOOSE h : IsEval(h)
  BY DEF evalExprMode, E
<1>9. IsEval(evalExprMode(q))
  BY <1>7, <1>8
<1>10. QED
  BY <1>9 DEF E

(* The parts of a disjunction are those of its operands. *)
LEMMA DisjunctsUnfold ==
    ASSUME NEW t, WellFormedExprs(t), NEW x \in t.exprs
    PROVE disjuncts(t.exprs)[x] =
            IF x[1] = "||" THEN disjuncts(t.exprs)[x[2]] \cup disjuncts(t.exprs)[x[3]] ELSE {x}
<1> DEFINE E == t.exprs
           depth == nesting(E)
           Parts(f, y) == IF y[1] = "||" THEN f[y[2]] \cup f[y[3]] ELSE {y}
           Solves(f, n) == \A y \in E : depth[y] < n => f[y] = Parts(f, y)
           IsParts(f) == f = [y \in E |-> Parts(f, y)]
           A == {n \in Nat : \E f : f = [y \in E |-> f[y]] /\ Solves(f, n)}
<1>1. /\ IsFiniteSet(E) /\ \A y \in E : depth[y] \in Nat
      /\ \A y \in E : \A z \in children(y) : z \in E /\ depth[z] < depth[y]
  BY DEF WellFormedExprs
<1> HIDE DEF depth, E
<1>2. 0 \in A
  <2> DEFINE f == [y \in E |-> 0]
  <2>1. f = [y \in E |-> f[y]] /\ Solves(f, 0)
    BY <1>1
  <2>2. QED
    BY <2>1
<1>3. ASSUME NEW n \in Nat, n \in A PROVE n + 1 \in A
  <2>1. PICK f : f = [y \in E |-> f[y]] /\ Solves(f, n)
    BY <1>3
  <2> DEFINE g == [y \in E |-> Parts(f, y)]
  <2>2. ASSUME NEW y \in E, depth[y] < n PROVE g[y] = f[y]
    BY <2>1, <2>2
  <2>3. ASSUME NEW y \in E, depth[y] < n + 1 PROVE g[y] = Parts(g, y)
    <3>1. ASSUME NEW z \in children(y) PROVE f[z] = g[z]
      <4>1. z \in E /\ depth[z] < depth[y] /\ depth[z] \in Nat /\ depth[y] \in Nat
        BY <1>1, <3>1
      <4>2. depth[z] < n
        BY <2>3, <4>1
      <4>3. QED
        BY <2>2, <4>1, <4>2
    <3>2. g[y] = Parts(f, y)
      OBVIOUS
    <3>3. y[1] = "||" => children(y) = {y[2], y[3]}
      BY DEF children
    <3> HIDE DEF g
    <3>4. QED
      BY <3>1, <3>2, <3>3
  <2>4. g = [y \in E |-> g[y]]
    OBVIOUS
  <2>5. Solves(g, n + 1)
    BY <2>3
  <2> HIDE DEF g, Solves
  <2>6. QED
    BY <2>4, <2>5
<1>4. PICK n \in Nat : \A y \in E : depth[y] < n
  BY <1>1, DepthBounded
<1>5. n \in A
  <2> HIDE DEF A
  <2>1. QED
    BY <1>2, <1>3, EveryNumber
<1>6. PICK f : f = [y \in E |-> f[y]] /\ Solves(f, n)
  BY <1>5
<1>7. IsParts(f)
  BY <1>4, <1>6
<1>8. disjuncts(E) = CHOOSE h : IsParts(h)
  BY DEF disjuncts
<1>9. IsParts(disjuncts(E))
  BY <1>7, <1>8
<1>10. QED
  BY <1>9 DEF E

(* The value of an expression where the constant m is gated. *)
Value(q, e) == evalExprMode(q)[e].gated

(* The value of the modules symbol is a tristate. *)
LEMMA ModulesTyped ==
    ASSUME NEW q, ResolverOK(q)
    PROVE modulesTri(q) \in Tri
BY ConstantsTyped DEF modulesTri, ResolverOK

(* The values of expressions are tristates. *)
LEMMA ValueTyped ==
    ASSUME NEW q, ResolverOK(q), NEW x \in Tree(q).exprs
    PROVE Value(q, x) \in Tri
<1> DEFINE E == Tree(q).exprs
           depth == nesting(E)
           A == {n \in Nat : \A y \in E : depth[y] < n => Value(q, y) \in Tri}
<1>1. /\ IsFiniteSet(E) /\ \A y \in E : depth[y] \in Nat
      /\ \A y \in E : \A z \in children(y) : z \in E /\ depth[z] < depth[y]
  BY ExprFacts DEF WellFormedExprs
<1> HIDE DEF depth
<1>2. 0 \in A
  BY <1>1
<1>3. ASSUME NEW n \in Nat, n \in A PROVE n + 1 \in A
  <2> SUFFICES ASSUME NEW y \in E, depth[y] < n + 1 PROVE Value(q, y) \in Tri
    OBVIOUS
  <2>1. ASSUME NEW z \in children(y) PROVE Value(q, z) \in Tri
    <3>1. z \in E /\ depth[z] < depth[y] /\ depth[z] \in Nat /\ depth[y] \in Nat
      BY <1>1, <2>1
    <3>2. QED
      BY <1>3, <3>1
  <2> DEFINE left == evalExprMode(q)[y[2]]
             right == evalExprMode(q)[y[3]]
  <2>2. Value(q, y) = evalNode(q, y, left, right).gated
    BY EvalUnfolds DEF Value
  <2>3. CASE y[1] = "!"
    <3>1. left.gated \in Tri
      BY <2>1, <2>3 DEF children, Value
    <3> HIDE DEF left, right
    <3>2. evalNode(q, y, left, right).gated = triY - left.gated
      BY <2>3 DEF evalNode, compareOps
    <3>3. QED
      BY <2>2, <3>1, <3>2 DEF triY, Tri
  <2>4. CASE y[1] \in {"&&", "||"}
    <3>1. left.gated \in Tri /\ right.gated \in Tri
      BY <2>1, <2>4 DEF children, Value
    <3> HIDE DEF left, right
    <3>2. evalNode(q, y, left, right).gated \in
            {minResolvedTri(left.gated, right.gated), maxResolvedTri(left.gated, right.gated)}
      BY <2>4 DEF evalNode, compareOps
    <3>3. QED
      BY <2>2, <3>1, <3>2, TriTypes1
  <2>5. CASE y[1] \in {"symbol"}
    <3>1. evalSymbol(q, y[2]) \in Tri
      BY ConstantsTyped DEF evalSymbol, ResolverOK
    <3> HIDE DEF left, right
    <3>2. evalNode(q, y, left, right).gated = evalSymbol(q, y[2])
      BY <2>5 DEF evalNode, compareOps
    <3>3. QED
      BY <2>2, <3>1, <3>2
  <2>6. CASE y[1] \in {"const"}
    <3>1. evalConst(q, y[2], TRUE) \in Tri
      BY ConstantsTyped, ModulesTyped, TriTypes1 DEF evalConst, triFromConst
    <3> HIDE DEF left, right
    <3>2. evalNode(q, y, left, right).gated = evalConst(q, y[2], TRUE)
      BY <2>6 DEF evalNode, compareOps
    <3>3. QED
      BY <2>2, <3>1, <3>2
  <2>7. CASE y[1] \notin {"!", "&&", "||", "symbol", "const"}
    <3> HIDE DEF left, right
    <3>1. evalNode(q, y, left, right).gated \in {triY, triN} \cup {boolTri(b) : b \in BOOLEAN}
      <4>1. CASE y[1] \in compareOps
        <5> DEFINE b == IF {y[2], y[3]} \subseteq isTriExpression(Tree(q))
                        THEN compareTri(left.plain, right.plain, y[1])
                        ELSE compareText(
                               CASE y[2][1] = "symbol" -> symbolText(q, y[2][2])
                                 [] y[2][1] = "const" -> y[2][2]
                                 [] OTHER -> triName(left.plain),
                               CASE y[3][1] = "symbol" -> symbolText(q, y[3][2])
                                 [] y[3][1] = "const" -> y[3][2]
                                 [] OTHER -> triName(right.plain), y[1])
        <5>1. y[1] # "nil"
          BY <4>1 DEF compareOps
        <5>2. evalNode(q, y, left, right) = [gated |-> boolTri(b), plain |-> boolTri(b)]
          BY <2>7, <4>1, <5>1 DEF evalNode
        <5>3. boolTri(b) \in {triY, triN}
          BY DEF boolTri
        <5> HIDE DEF b
        <5>4. QED
          BY <5>2, <5>3
      <4>2. CASE y[1] \notin compareOps
        BY <2>7, <4>2 DEF evalNode
      <4>3. QED
        BY <4>1, <4>2
    <3>2. QED
      BY <2>2, <3>1, ConstantsTyped
  <2>8. QED
    BY <2>3, <2>4, <2>5, <2>6, <2>7
<1>4. depth[x] + 1 \in Nat /\ depth[x] < depth[x] + 1
  BY <1>1
<1>5. depth[x] + 1 \in A
  <2> HIDE DEF A
  <2>1. QED
    BY <1>2, <1>3, <1>4, EveryNumber
<1>6. QED
  BY <1>4, <1>5

(* A disjunction has the value of its highest part. *)
LEMMA HighestPart ==
    ASSUME NEW q, ResolverOK(q), NEW x \in Tree(q).exprs
    PROVE /\ \A e \in disjuncts(Tree(q).exprs)[x] : e \in Tree(q).exprs /\ Value(q, e) <= Value(q, x)
          /\ \E e \in disjuncts(Tree(q).exprs)[x] : Value(q, e) = Value(q, x)
<1> DEFINE E == Tree(q).exprs
           depth == nesting(E)
           parts == disjuncts(E)
           Highest(y) == /\ \A e \in parts[y] : e \in E /\ Value(q, e) <= Value(q, y)
                         /\ \E e \in parts[y] : Value(q, e) = Value(q, y)
           A == {n \in Nat : \A y \in E : depth[y] < n => Highest(y)}
<1>1. /\ IsFiniteSet(E) /\ \A y \in E : depth[y] \in Nat
      /\ \A y \in E : \A z \in children(y) : z \in E /\ depth[z] < depth[y]
  BY ExprFacts DEF WellFormedExprs
<1>2. \A y \in E : parts[y] = IF y[1] = "||" THEN parts[y[2]] \cup parts[y[3]] ELSE {y}
  BY ExprFacts, DisjunctsUnfold
<1>3. \A y \in E : Value(q, y) \in Tri
  BY ValueTyped
<1> HIDE DEF depth, parts
<1>4. 0 \in A
  BY <1>1
<1>5. ASSUME NEW n \in Nat, n \in A PROVE n + 1 \in A
  <2> SUFFICES ASSUME NEW y \in E, depth[y] < n + 1 PROVE Highest(y)
    OBVIOUS
  <2>1. CASE y[1] # "||"
    <3>1. parts[y] = {y}
      BY <1>2, <2>1
    <3>2. \A v \in Tri : v <= v
      BY DEF Tri
    <3>3. Value(q, y) <= Value(q, y)
      BY <1>3, <3>2
    <3>4. QED
      BY <3>1, <3>3
  <2>2. CASE y[1] = "||"
    <3> DEFINE a == Value(q, y[2])
               b == Value(q, y[3])
               c == Value(q, y)
    <3>1. children(y) = {y[2], y[3]}
      BY <2>2 DEF children
    <3>2. y[2] \in E /\ y[3] \in E
      BY <1>1, <3>1
    <3>3. depth[y[2]] < depth[y] /\ depth[y[3]] < depth[y]
      BY <1>1, <3>1
    <3>4. depth[y] \in Nat /\ depth[y[2]] \in Nat /\ depth[y[3]] \in Nat
      BY <1>1, <3>2
    <3>5. depth[y[2]] < n /\ depth[y[3]] < n
      BY <3>3, <3>4
    <3>6. Highest(y[2]) /\ Highest(y[3])
      BY <1>5, <3>2, <3>5
    <3>7. a \in Tri /\ b \in Tri
      BY <1>3, <3>2
    <3>8. c = maxResolvedTri(a, b)
      <4>1. evalExprMode(q)[y] = evalNode(q, y, evalExprMode(q)[y[2]], evalExprMode(q)[y[3]])
        BY EvalUnfolds
      <4>2. QED
        BY <2>2, <4>1 DEF evalNode, compareOps, Value
    <3>9. parts[y] = parts[y[2]] \cup parts[y[3]]
      BY <1>2, <2>2
    <3>10. \A e \in parts[y[2]] : e \in E /\ Value(q, e) <= a
      BY <3>6
    <3>11. \A e \in parts[y[3]] : e \in E /\ Value(q, e) <= b
      BY <3>6
    <3>12. (\E e \in parts[y[2]] : Value(q, e) = a) /\ (\E e \in parts[y[3]] : Value(q, e) = b)
      BY <3>6
    <3> HIDE DEF a, b, c
    <3>13. c \in Tri /\ a <= c /\ b <= c /\ (c = a \/ c = b)
      BY <3>7, <3>8 DEF maxResolvedTri, Tri
    <3>14. ASSUME NEW e \in parts[y] PROVE e \in E /\ Value(q, e) <= c
      <4>1. e \in E /\ (Value(q, e) <= a \/ Value(q, e) <= b)
        BY <3>9, <3>10, <3>11
      <4>2. Value(q, e) \in Tri
        BY <1>3, <4>1
      <4>3. QED
        BY <3>7, <3>13, <4>1, <4>2 DEF Tri
    <3>15. \E e \in parts[y] : Value(q, e) = c
      BY <3>9, <3>12, <3>13
    <3>16. QED
      BY <3>14, <3>15 DEF c
  <2>3. QED
    BY <2>1, <2>2
<1>6. depth[x] + 1 \in Nat /\ depth[x] < depth[x] + 1
  BY <1>1
<1>7. depth[x] + 1 \in A
  <2> HIDE DEF A
  <2>1. QED
    BY <1>4, <1>5, <1>6, EveryNumber
<1>8. Highest(x)
  BY <1>6, <1>7
<1>9. QED
  BY <1>8 DEF parts

(* What evalDepExprDefault makes of an expression of the tree. *)
LEMMA DepValue ==
    ASSUME NEW q, ResolverOK(q), NEW e \in Tree(q).exprs, NEW def
    PROVE evalDepExprDefault(q, e, def) = IF e = Nil THEN def ELSE Value(q, e)
BY ValueTyped DEF evalDepExprDefault, evalExprDefaultMode, orN, Value

(* The values of the expressions andExpr and orExpr make. *)
LEMMA NodeValues ==
    ASSUME NEW q, ResolverOK(q), NEW e \in Tree(q).exprs
    PROVE /\ e = Nil => Value(q, e) = triY
          /\ e = ConstExpr(Str("n")) => Value(q, e) = triN
          /\ e = ConstExpr(Str("y")) => Value(q, e) = triY
          /\ \A s \in TriSymbols(Tree(q)) : e = SymbolExpr(s) => Value(q, e) = q.effective[s]
          /\ e[1] = "&&" => /\ e[2] \in Tree(q).exprs /\ e[3] \in Tree(q).exprs
                            /\ Value(q, e) = minResolvedTri(Value(q, e[2]), Value(q, e[3]))
<1> DEFINE left == evalExprMode(q)[e[2]]
           right == evalExprMode(q)[e[3]]
<1>1. Value(q, e) = evalNode(q, e, left, right).gated
  BY EvalUnfolds DEF Value
<1>2. ASSUME e = Nil PROVE Value(q, e) = triY
  <2> HIDE DEF left, right
  <2>1. e[1] = "nil"
    BY <1>2 DEF Nil
  <2>2. QED
    BY <1>1, <2>1 DEF evalNode, compareOps
<1>3. ASSUME NEW v \in {"n", "y"}, e = ConstExpr(Str(v)) PROVE Value(q, e) = IF v = "y" THEN triY ELSE triN
  <2> HIDE DEF left, right
  <2>1. e[1] = "const" /\ e[2] = <<"str", v>>
    BY <1>3 DEF ConstExpr, Str
  <2>2. Value(q, e) = evalConst(q, <<"str", v>>, TRUE)
    BY <1>1, <2>1 DEF evalNode, compareOps
  <2>3. QED
    BY <2>2 DEF evalConst, triConsts, triFromConst, Str
<1>4. ASSUME NEW s \in TriSymbols(Tree(q)), e = SymbolExpr(s) PROVE Value(q, e) = q.effective[s]
  <2> HIDE DEF left, right
  <2>1. e[1] = "symbol" /\ e[2] = s
    BY <1>4 DEF SymbolExpr
  <2>2. Value(q, e) = evalSymbol(q, s)
    BY <1>1, <2>1 DEF evalNode, compareOps
  <2>3. s \in DOMAIN q.effective
    BY DEF ResolverOK
  <2>4. QED
    BY <2>2, <2>3 DEF evalSymbol
<1>5. ASSUME e[1] = "&&"
      PROVE /\ e[2] \in Tree(q).exprs /\ e[3] \in Tree(q).exprs
            /\ Value(q, e) = minResolvedTri(Value(q, e[2]), Value(q, e[3]))
  <2>1. children(e) = {e[2], e[3]}
    BY <1>5 DEF children
  <2>2. e[2] \in Tree(q).exprs /\ e[3] \in Tree(q).exprs
    BY <2>1, ExprFacts DEF WellFormedExprs
  <2>3. QED
    BY <1>1, <1>5, <2>2 DEF evalNode, compareOps, Value
<1>6. QED
  BY <1>2, <1>3, <1>4, <1>5

-----------------------------------------------------------------------------
(* What the rules of a result come from. *)

(* An expression under a dependency that is n is n itself. *)
LEMMA RestrictedIsOff ==
    ASSUME NEW q, ResolverOK(q), NEW e \in Tree(q).exprs, NEW d \in Tree(q).exprs,
           Restricts(e, d), evalDepExprDefault(q, d, triY) = triN
    PROVE evalDepExprDefault(q, e, triY) = triN
<1>1. triN # triY /\ \A v \in Tri : minResolvedTri(triN, v) = triN
  BY DEF triN, triY, Tri, minResolvedTri
<1>2. d # Nil /\ Value(q, d) = triN
  BY <1>1, DepValue
<1>3. d # ConstExpr(Str("y"))
  BY <1>1, <1>2, NodeValues
<1>4. CASE e = d
  BY <1>4
<1>5. CASE e = ConstExpr(Str("n"))
  <2>1. Value(q, e) = triN
    BY <1>5, NodeValues
  <2>2. e # Nil
    BY <1>1, <2>1, NodeValues
  <2>3. QED
    BY <2>1, <2>2, DepValue
<1>6. CASE e[1] = "&&" /\ e[2] = d
  <2>1. e[3] \in Tree(q).exprs /\ Value(q, e) = minResolvedTri(triN, Value(q, e[3]))
    BY <1>2, <1>6, NodeValues
  <2>2. Value(q, e) = triN
    BY <1>1, <2>1, ValueTyped
  <2>3. e # Nil
    BY <1>1, <2>2, NodeValues
  <2>4. QED
    BY <2>2, <2>3, DepValue
<1>7. QED
  BY <1>2, <1>3, <1>4, <1>5, <1>6 DEF Restricts

(* What the finalized tree holds of a symbol outside choices: its dependencies
   are expressions of the tree, and all that decides it implies one of them. *)
LEMMA SymbolDepFacts ==
    ASSUME NEW q, ResolverOK(q), NEW s \in Free(Tree(q))
    PROVE /\ s \in TriSymbols(Tree(q))
          /\ Tree(q).dirdep[s] \in Tree(q).exprs /\ Tree(q).revdep[s] \in Tree(q).exprs
          /\ \A d \in Tree(q).deps[s] : d \in Tree(q).exprs
          /\ \A k \in DOMAIN Tree(q).props[s] : Tree(q).props[s][k].visible \in Tree(q).exprs
          /\ \A k \in DOMAIN Tree(q).props[s] : Tree(q).props[s][k].type \in {"prompt", "default"} =>
               \E d \in Tree(q).deps[s] : Restricts(Tree(q).props[s][k].visible, d)
          /\ \A e \in disjuncts(Tree(q).exprs)[Tree(q).dirdep[s]] :
               \E d \in Tree(q).deps[s] : e \in disjuncts(Tree(q).exprs)[d]
<1>1. s \in TriSymbols(Tree(q))
  <2>1. Tree(q).tristates \in Seq(TriSymbols(Tree(q)))
    BY TreesAssumption, Zenon DEF ResolverOK, Tree, WellFormedTree
  <2>2. QED
    BY <2>1 DEF Free
<1>2. Finalized(Tree(q))
  BY ExprFacts
<1>3. QED
  BY <1>1, <1>2 DEF Finalized

(* With no dependency met and nothing selecting it, a symbol is n. *)
LEMMA OffWithoutDependency ==
    ASSUME NEW q, ResolverOK(q), NEW s \in Free(Tree(q)),
           \A d \in Tree(q).deps[s] : evalDepExprDefault(q, d, triY) = triN,
           evalDepExprDefault(q, Tree(q).revdep[s], triN) = triN
    PROVE nextTri(q, s) = triN
<1> DEFINE t == Tree(q)
           props == t.props[s]
<1>1. \A k \in DOMAIN props : props[k].type \in {"prompt", "default"} =>
        evalDepExprDefault(q, props[k].visible, triY) = triN
  BY SymbolDepFacts, RestrictedIsOff
<1>2. promptVisibility(q, s) = triN
  <2> DEFINE V == {evalDepExprDefault(q, props[k].visible, triY) : k \in {k \in DOMAIN props : props[k].type = "prompt"}}
  <2>1. V \subseteq {triN}
    BY <1>1
  <2>2. promptVisibility(q, s) = clampSymbolTri(q, s, highest(V))
    BY DEF promptVisibility
  <2> HIDE DEF V
  <2>3. highest(V) = triN
    BY <2>1 DEF highest, triN, triM, triY
  <2>4. QED
    BY <2>2, <2>3 DEF clampSymbolTri, triN, triM
<1>3. defaultTri(q, s) = triN
  <2>1. visibleProps(q, props, "default") = {}
    BY <1>1 DEF visibleProps
  <2>2. firstTri(q, props, {}) = triN
    BY DEF firstTri
  <2>3. QED
    BY <2>1, <2>2 DEF defaultTri, clampSymbolTri, triN, triM
<1>4. baseTri(q, s) = triN
  BY <1>2, <1>3 DEF baseTri, visibleUserValue
<1>5. evalDepExprDefault(q, t.dirdep[s], triY) = triN
  <2>1. PICK e \in disjuncts(t.exprs)[t.dirdep[s]] : Value(q, e) = Value(q, t.dirdep[s])
    BY SymbolDepFacts, HighestPart
  <2>2. PICK d \in t.deps[s] : e \in disjuncts(t.exprs)[d]
    BY <2>1, SymbolDepFacts
  <2>3. d \in t.exprs /\ e \in t.exprs
    BY <2>1, <2>2, SymbolDepFacts, HighestPart
  <2>4. Value(q, e) <= Value(q, d)
    BY <2>2, <2>3, HighestPart
  <2>5. Value(q, d) = triN
    <3>1. evalDepExprDefault(q, d, triY) = triN /\ triN # triY
      BY DEF triN, triY
    <3>2. QED
      BY <2>3, <3>1, DepValue
  <2>6. Value(q, e) \in Tri
    BY <2>3, ValueTyped
  <2>7. Value(q, t.dirdep[s]) = triN
    BY <2>1, <2>4, <2>5, <2>6 DEF triN, Tri
  <2>8. t.dirdep[s] \in t.exprs /\ triN # triY
    BY SymbolDepFacts DEF triN, triY
  <2>9. QED
    BY <2>7, <2>8, NodeValues, DepValue
<1>6. impliedTri(q, s) = triN
  <2>1. evalDepExprDefault(q, t.implied[s], triN) \in Tri
    BY EvalTyped, ConstantsTyped
  <2>2. impliedTri(q, s) = minResolvedTri(evalDepExprDefault(q, t.implied[s], triN), triN)
    BY <1>2, <1>5 DEF impliedTri, visibleUserValue
  <2>3. QED
    BY <2>1, <2>2 DEF minResolvedTri, Tri, triN
<1>7. maxResolvedTri(maxResolvedTri(triN, triN), triN) = triN
  BY DEF maxResolvedTri
<1>8. QED
  BY <1>4, <1>6, <1>7 DEF nextTri, clampSymbolTri, triN, triM

(* A selected symbol is at least what the select gives it. *)
LEMMA SelectedIsOn ==
    ASSUME NEW q, ResolverOK(q), NEW x \in TriSymbols(Tree(q)), NEW k \in DOMAIN Tree(q).props[x],
           Tree(q).props[x][k].type = "select", NEW s \in Free(Tree(q)), Tree(q).props[x][k].expr[2] = s
    PROVE nextTri(q, s) >= minResolvedTri(q.effective[x],
                                          evalDepExprDefault(q, Tree(q).props[x][k].visible, triY))
<1> DEFINE t == Tree(q)
           visible == t.props[x][k].visible
           condition == evalDepExprDefault(q, visible, triY)
           given == minResolvedTri(q.effective[x], condition)
           rev == evalDepExprDefault(q, t.revdep[s], triN)
           other == maxResolvedTri(baseTri(q, s), impliedTri(q, s))
<1>1. visible \in t.exprs
  BY ExprFacts DEF Finalized
<1>2. q.effective[x] \in Tri /\ condition \in Tri /\ condition = Value(q, visible)
  <2>1. condition = Value(q, visible)
    BY <1>1, DepValue, NodeValues
  <2>2. QED
    BY <1>1, <2>1, ValueTyped DEF ResolverOK
<1>3. given \in Tri /\ given <= q.effective[x]
  BY <1>2 DEF minResolvedTri, Tri
<1>4. t.revdep[s] \in t.exprs
  BY SymbolDepFacts
<1>5. PICK e \in disjuncts(t.exprs)[t.revdep[s]] : SelectedBy(e, x, visible)
  BY ExprFacts DEF Finalized
<1>6. e \in t.exprs /\ Value(q, e) <= Value(q, t.revdep[s])
  BY <1>4, <1>5, HighestPart
<1>7. Value(q, e) \in Tri /\ Value(q, t.revdep[s]) \in Tri
  BY <1>4, <1>6, ValueTyped
<1>8. \/ given = triN
      \/ given <= Value(q, e) /\ e # Nil
  <2>1. CASE visible = ConstExpr(Str("n"))
    <3>1. condition = triN
      BY <1>1, <1>2, <2>1, NodeValues
    <3>2. QED
      BY <1>2, <3>1 DEF minResolvedTri, Tri, triN
  <2>2. CASE e = ConstExpr(Str("y"))
    <3>1. Value(q, e) = triY /\ e # Nil
      BY <1>6, <2>2, NodeValues DEF ConstExpr, Nil
    <3>2. QED
      BY <1>3, <3>1 DEF Tri, triY
  <2>3. CASE e = SymbolExpr(x)
    <3>1. Value(q, e) = q.effective[x] /\ e # Nil
      BY <1>6, <2>3, NodeValues DEF SymbolExpr, Nil
    <3>2. QED
      BY <1>3, <3>1
  <2>4. CASE e = <<"&&", SymbolExpr(x), visible>>
    <3>1. e[1] = "&&" /\ e[2] = SymbolExpr(x) /\ e[3] = visible /\ e # Nil
      BY <2>4 DEF Nil
    <3>2. SymbolExpr(x) \in t.exprs /\ Value(q, e) = minResolvedTri(Value(q, SymbolExpr(x)), Value(q, visible))
      BY <1>6, <3>1, NodeValues
    <3>3. Value(q, SymbolExpr(x)) = q.effective[x]
      BY <3>2, NodeValues
    <3>4. Value(q, e) = given
      BY <1>2, <3>2, <3>3
    <3>5. QED
      BY <1>3, <3>1, <3>4 DEF Tri
  <2>5. QED
    BY <1>5, <2>1, <2>2, <2>3, <2>4 DEF SelectedBy
<1>9. rev \in Tri /\ given <= rev
  <2>1. rev \in Tri
    BY EvalTyped, ConstantsTyped
  <2> HIDE DEF rev, given
  <2>2. CASE given = triN
    BY <2>1, <2>2 DEF triN, Tri
  <2>3. CASE given # triN
    <3>1. given <= Value(q, t.revdep[s]) /\ e # Nil
      BY <1>3, <1>6, <1>7, <1>8, <2>3 DEF Tri
    <3>2. t.revdep[s] # Nil
      <4>1. disjuncts(t.exprs)[Nil] = {Nil} \/ t.revdep[s] # Nil
        BY <1>4, DisjunctsUnfold, ExprFacts
      <4>2. QED
        BY <1>5, <3>1, <4>1
    <3>3. rev = Value(q, t.revdep[s])
      BY <1>4, <3>2, DepValue DEF rev
    <3>4. QED
      BY <2>1, <3>1, <3>3
  <2>4. QED
    BY <2>2, <2>3
<1>10. other \in Tri
  <2>1. baseTri(q, s) \in Tri
    BY ConstantsTyped, PromptTyped, DefaultTyped, RawTriTyped, TriTypes1 DEF baseTri
  <2>2. impliedTri(q, s) \in Tri
    BY ConstantsTyped, EvalTyped, TriTypes1 DEF impliedTri
  <2>3. QED
    BY <2>1, <2>2, TriTypes1
<1>11. nextTri(q, s) = clampSymbolTri(q, s, maxResolvedTri(other, rev))
  BY DEF nextTri
<1> HIDE DEF other, rev, given
<1>12. maxResolvedTri(other, rev) \in Tri /\ maxResolvedTri(other, rev) >= given
  BY <1>3, <1>9, <1>10 DEF maxResolvedTri, Tri
<1>13. \A v \in Tri : v >= given => clampSymbolTri(q, s, v) >= given
  <2> SUFFICES ASSUME NEW v \in Tri, v >= given PROVE clampSymbolTri(q, s, v) >= given
    OBVIOUS
  <2>1. clampSymbolTri(q, s, v) = v \/ clampSymbolTri(q, s, v) = triY
    BY DEF clampSymbolTri
  <2>2. triY >= given
    BY <1>3 DEF Tri, triY
  <2>3. QED
    BY <2>1, <2>2
<1>14. QED
  BY <1>11, <1>12, <1>13 DEF given

(* The first of some positions is one of them. *)
LEMMA FirstIsOne ==
    ASSUME NEW K, K \subseteq Nat, K # {}
    PROVE FirstOf(K) \in K
<1>1. \E k \in K : \A j \in K : k <= j
  BY LeastElement
<1>2. QED
  BY <1>1 DEF FirstOf

(* A set of places of a list that is not empty has a last one. *)
LEMMA LastIsOne ==
    ASSUME NEW K, NEW n \in Nat, K \subseteq 1 .. n, K # {}
    PROVE \E k \in K : \A j \in K : j <= k
<1> DEFINE T == {m \in Nat : \A j \in K : j <= m}
<1>1. n \in T
  OBVIOUS
<1>2. PICK m \in T : \A l \in T : m <= l
  <2>1. T \subseteq Nat /\ T # {}
    BY <1>1
  <2> HIDE DEF T
  <2>2. QED
    BY <2>1, LeastElement
<1>3. m \in Nat /\ \A j \in K : j <= m
  OBVIOUS
<1>4. ASSUME m \notin K PROVE FALSE
  <2>1. PICK k \in K : TRUE
    OBVIOUS
  <2>2. k \in Nat /\ 1 <= k /\ k <= m
    BY <1>3
  <2>3. m - 1 \in Nat /\ ~(m <= m - 1)
    BY <1>3, <2>1, <2>2
  <2>4. ASSUME NEW j \in K PROVE j <= m - 1
    BY <1>3, <1>4
  <2>5. m - 1 \in T
    BY <2>3, <2>4
  <2> HIDE DEF T
  <2>6. QED
    BY <1>2, <2>3, <2>5
<1>5. QED
  BY <1>3, <1>4

(* An element of a list over S is in S. *)
LEMMA ElementTyped ==
    ASSUME NEW S, NEW s \in Seq(S), NEW j \in DOMAIN s
    PROVE s[j] \in S
OBVIOUS

(* The members of a choice are tristates, and none is the absence of a member. *)
LEMMA ChoiceFacts ==
    ASSUME NEW q, ResolverOK(q), NEW j \in DOMAIN Tree(q).choices
    PROVE LET c == Tree(q).choices[j]
          IN /\ c.members \in Seq(TriSymbols(Tree(q))) /\ c.props \in Seq(Tree(q).properties)
             /\ Members(c) \subseteq TriSymbols(Tree(q)) /\ NoMember \notin Members(c)
<1> DEFINE t == Tree(q)
           c == t.choices[j]
<1>1. t.choices \in Seq([members : Seq(TriSymbols(t)), props : Seq(t.properties)]) /\ "" \notin t.symbols
  BY TreesAssumption, Zenon DEF ResolverOK, Tree, WellFormedTree
<1>2. c \in [members : Seq(TriSymbols(t)), props : Seq(t.properties)]
  BY <1>1, ElementTyped, Zenon
<1>3. c.members \in Seq(TriSymbols(t)) /\ c.props \in Seq(t.properties)
  BY <1>2
<1>4. Members(c) \subseteq TriSymbols(t)
  BY <1>3 DEF Members
<1>5. NoMember \notin Members(c)
  BY <1>1, <1>4 DEF TriSymbols, NoMember
<1>6. QED
  BY <1>3, <1>4, <1>5

(* A choice selects a visible member, if it has any. *)
LEMMA SelectionIsVisible ==
    ASSUME NEW q, ResolverOK(q), NEW j \in DOMAIN Tree(q).choices
    PROVE LET c == Tree(q).choices[j]
              V == visibleMembers(q, c)
          IN IF V = {} THEN choiceSelection(q, c) = NoMember
             ELSE choiceSelection(q, c) \in {c.members[k] : k \in V}
<1> DEFINE c == Tree(q).choices[j]
           V == visibleMembers(q, c)
           D == choiceDefault(q, c)
           explicit == {k \in V : rawSet(q, c.members[k]) /\ rawTri(q, c.members[k]) = triY}
           unset == {k \in V : ~rawSet(q, c.members[k])}
           last == CHOOSE k \in V : \A i \in V : i <= k
<1>1. DOMAIN c.members = 1 .. Len(c.members) /\ Len(c.members) \in Nat
      /\ DOMAIN c.props = 1 .. Len(c.props) /\ Len(c.props) \in Nat
  <2>1. c.members \in Seq(TriSymbols(Tree(q))) /\ c.props \in Seq(Tree(q).properties)
    BY ChoiceFacts
  <2> HIDE DEF c
  <2>2. QED
    BY <2>1
<1>2. V \subseteq 1 .. Len(c.members)
  BY <1>1 DEF visibleMembers
<1>3. D \subseteq 1 .. Len(c.props)
  BY <1>1 DEF choiceDefault, visibleProps
<1>4. \A k \in D : \E i \in V : c.members[i] = c.props[k].expr[2]
  BY DEF choiceDefault
<1>5. choiceSelection(q, c) =
        CASE V = {} -> NoMember
          [] explicit # {} -> c.members[FirstOf(explicit)]
          [] explicit = {} /\ D # {} -> c.props[FirstOf(D)].expr[2]
          [] explicit = {} /\ D = {} /\ unset # {} -> c.members[FirstOf(unset)]
          [] OTHER -> c.members[last]
  BY DEF choiceSelection, winner
<1>6. explicit \subseteq V /\ unset \subseteq V
  OBVIOUS
<1> HIDE DEF c, V, D, explicit, unset, last
<1>14. V \subseteq Nat /\ D \subseteq Nat
  <2>1. \A n \in Nat : 1 .. n \subseteq Nat
    OBVIOUS
  <2>2. QED
    BY <1>1, <1>2, <1>3, <2>1
<1>7. explicit # {} => FirstOf(explicit) \in V
  BY <1>14, <1>6, FirstIsOne
<1>8. unset # {} => FirstOf(unset) \in V
  BY <1>14, <1>6, FirstIsOne
<1>9. D # {} => \E i \in V : c.members[i] = c.props[FirstOf(D)].expr[2]
  BY <1>14, <1>4, FirstIsOne
<1>10. V # {} => last \in V
  <2>1. V # {} => \E k \in V : \A i \in V : i <= k
    BY <1>1, <1>2, LastIsOne
  <2>2. QED
    BY <2>1 DEF last
<1>11. CASE V = {}
  <2>1. explicit = {} /\ unset = {} /\ D = {}
    BY <1>4, <1>6, <1>11
  <2>2. QED
    BY <1>5, <1>11, <2>1 DEF c, V
<1>12. CASE V # {}
  <2>1. choiceSelection(q, c) \in {c.members[k] : k \in V}
    <3>1. CASE explicit # {}
      BY <1>5, <1>7, <1>12, <3>1
    <3>2. CASE explicit = {} /\ D # {}
      BY <1>5, <1>9, <1>12, <3>2
    <3>3. CASE explicit = {} /\ D = {} /\ unset # {}
      BY <1>5, <1>8, <1>12, <3>3
    <3>4. CASE explicit = {} /\ D = {} /\ unset = {}
      BY <1>5, <1>10, <1>12, <3>4
    <3>5. QED
      BY <3>1, <3>2, <3>3, <3>4
  <2>2. QED
    BY <1>12, <2>1 DEF c, V
<1>13. QED
  BY <1>11, <1>12 DEF c, V

(* In a result, an int, hex or string has the value its rule computes. *)
LEMMA StableScalar ==
    ASSUME NEW q, ResolverOK(q), Stable(q), NEW s \in ScalarSymbols(Tree(q))
    PROVE q.values[s] = scalarValue(q, s).value
<1> DEFINE t == Tree(q)
           a == Len(t.scalars)
           b == Len(t.tristates)
           c == Len(t.choices)
           n == Steps(t)
<1>1. a \in Nat /\ b \in Nat /\ c \in Nat /\ n = a + b + c
  BY TreeFacts, Zenon DEF ResolverOK, Steps
<1>2. PICK j \in DOMAIN t.scalars : t.scalars[j] = s
  <2>1. WellFormedTree(t)
    BY TreesAssumption DEF ResolverOK, Tree
  <2>2. QED
    BY <2>1, Zenon DEF WellFormedTree
<1>3. j \in 1 .. a
  <2>1. t.scalars \in Seq(ScalarSymbols(t))
    BY TreesAssumption, Zenon DEF ResolverOK, Tree, WellFormedTree
  <2> HIDE DEF t
  <2>2. QED
    BY <1>2, <2>1
<1> HIDE DEF a, b, c, n
<1>4. j \in 1 .. n
  BY <1>1, <1>3
<1>5. IsScalarStep(t, j) /\ ScalarAt(t, j) = s
  BY <1>2, <1>3, Zenon DEF IsScalarStep, ScalarAt, a
<1>6. SweepStep(q, j) = q
  BY <1>4, Zenon DEF Stable, n
<1>7. storeScalar(q, s, scalarValue(q, s)) = q
  BY <1>5, <1>6, StepKinds DEF SweepStep, ResolverOK
<1>8. storeScalar(q, s, scalarValue(q, s)).values = [q.values EXCEPT ![s] = scalarValue(q, s).value]
  BY DEF storeScalar, update
<1>9. s \in DOMAIN q.values
  BY DEF ResolverOK
<1>10. QED
  BY <1>7, <1>8, <1>9

(* The parts of KconfigRules, of a stable resolver. *)
LEMMA RangeOfResult ==
    ASSUME NEW q, ResolverOK(q), Stable(q), NEW s \in ScalarSymbols(Tree(q)),
           Tree(q).type[s] \in {"int", "hex"}, visibleScalarRange(q, s) # {}
    PROVE LET K == visibleScalarRange(q, s)
              lo == exprValue(q, Tree(q).props[s][FirstOf(K)].expr[2])
              hi == exprValue(q, Tree(q).props[s][FirstOf(K)].expr[3])
          IN /\ IsNum(q.values[s])
             /\ lo[2] <= hi[2] => lo[2] <= q.values[s][2] /\ q.values[s][2] <= hi[2]
<1> DEFINE props == Tree(q).props[s]
           K == visibleScalarRange(q, s)
           lo == exprValue(q, props[FirstOf(K)].expr[2])
           hi == exprValue(q, props[FirstOf(K)].expr[3])
           given == IF visibleUserValue(q, s) THEN q.raw[s]
                    ELSE defaultText(q, props, visibleProps(q, props, "default"))
           x == orDefault(q, s, given)
           y == IF IsNum(x) THEN x ELSE defaultScalarValue(Tree(q).type[s])
<1>1. K \subseteq Nat
  <2>1. s \in Tree(q).symbols
    BY DEF ScalarSymbols
  <2>2. props \in Seq(Tree(q).properties)
    BY <2>1, ExprFacts DEF Finalized
  <2>3. K \subseteq DOMAIN props
    BY DEF visibleScalarRange, visibleProps
  <2> HIDE DEF props, K
  <2>4. DOMAIN props \subseteq Nat
    BY <2>2
  <2>5. QED
    BY <2>3, <2>4
<1>2. FirstOf(K) \in K
  BY <1>1, FirstIsOne
<1>3. IsNum(lo) /\ IsNum(hi)
  BY <1>2 DEF visibleScalarRange
<1>4. lo \in Text /\ hi \in Text
  BY ExprValueTyped
<1>5. given \in Text
  BY ConstantsTyped, ExprValueTyped DEF visibleUserValue, rawSet, ResolverOK, defaultText
<1>6. x \in Text
  BY <1>5, ScalarDefaultTyped DEF orDefault
<1>7. y \in Text /\ IsNum(y)
  BY <1>6, ScalarDefaultTyped DEF defaultScalarValue, IsNum, Num
<1>8. q.values[s] = within(y, lo, hi)
  <2>1. q.values[s] = clampScalarRange(q, s, x)
    BY StableScalar DEF scalarValue
  <2>2. clampScalarRange(q, s, x) = clampTo(q, props, K, y)
    BY DEF clampScalarRange
  <2>3. QED
    BY <2>1, <2>2 DEF clampTo
<1> HIDE DEF lo, hi, x, y, given
<1>9. \A v \in Text : IsNum(v) => v[2] \in Int
  BY DEF Text, IsNum
<1>10. IsNum(q.values[s])
  BY <1>3, <1>7, <1>8 DEF within
<1>11. ASSUME lo[2] <= hi[2] PROVE lo[2] <= q.values[s][2] /\ q.values[s][2] <= hi[2]
  <2>1. lo[2] \in Int /\ hi[2] \in Int /\ y[2] \in Int
    BY <1>3, <1>4, <1>7, <1>9
  <2>2. QED
    BY <1>8, <1>11, <2>1 DEF within
<1>12. QED
  BY <1>10, <1>11 DEF lo, hi

LEMMA ChoiceOfResult ==
    ASSUME NEW q, ResolverOK(q), Stable(q), NEW j \in DOMAIN Tree(q).choices
    PROVE LET c == Tree(q).choices[j]
              on == {s \in Members(c) : q.effective[s] = triY}
              visible == {s \in Members(c) : choiceMemberVisible(q, s)}
          IN /\ on \subseteq visible
             /\ Cardinality(on) = IF visible = {} THEN 0 ELSE 1
             /\ \A s \in Members(c) \ on : q.effective[s] = triN
<1> DEFINE c == Tree(q).choices[j]
           on == {s \in Members(c) : q.effective[s] = triY}
           visible == {s \in Members(c) : choiceMemberVisible(q, s)}
           V == visibleMembers(q, c)
           selected == choiceSelection(q, c)
<1>1. \A s \in Members(c) : q.effective[s] = boolTri(s = selected)
  BY StableChoice, ChoiceFacts
<1>2. visible = {c.members[k] : k \in V}
  BY DEF visibleMembers, Members
<1>3. IF V = {} THEN selected = NoMember ELSE selected \in {c.members[k] : k \in V}
  BY SelectionIsVisible
<1>4. NoMember \notin Members(c)
  BY ChoiceFacts
<1> HIDE DEF c, V, selected
<1>5. \A s \in Members(c) : q.effective[s] = IF s = selected THEN triY ELSE triN
  BY <1>1 DEF boolTri
<1>6. triY # triN
  BY DEF triY, triN
<1>7. \A s \in Members(c) \ on : q.effective[s] = triN
  BY <1>5
<1>8. CASE visible = {}
  <2>1. V = {}
    BY <1>2, <1>8
  <2>2. on = {}
    BY <1>3, <1>4, <1>5, <1>6, <2>1
  <2>3. QED
    BY <1>7, <1>8, <2>2, FS_EmptySet DEF c
<1>9. CASE visible # {}
  <2>1. selected \in visible
    BY <1>2, <1>3, <1>9
  <2>2. on = {selected}
    BY <1>5, <1>6, <2>1
  <2>3. Cardinality(on) = 1
    BY <2>2, FS_Singleton
  <2>4. on \subseteq visible
    BY <2>1, <2>2
  <2>5. QED
    BY <1>7, <1>9, <2>3, <2>4 DEF c
<1>10. QED
  BY <1>8, <1>9

(***************************************************************************)
(* Every configuration ResolveConfigWithOptions returns obeys the rules of *)
(* Kconfig that tie symbols to one another, whatever the tree: selects,    *)
(* dependencies, choices and ranges.  Each follows from the fixed point    *)
(* and from what finalize() collects in the dependencies of a symbol.      *)
(***************************************************************************)
THEOREM ResultObeysKconfig == Spec => []KconfigRules
<1>1. IInv => KconfigRules
  <2>1. SUFFICES ASSUME IInv PROVE KconfigRules
    OBVIOUS
  <2>2. ResolverOK(resolver) /\ (Resolved => Stable(resolver))
    BY <2>1 DEF IInv, SweepInv, Resolved
  <2>3. SelectHonoured
    <3>1. SUFFICES ASSUME Resolved, NEW x \in TriSymbols(Tree(resolver)), NEW k \in DOMAIN Tree(resolver).props[x],
                          Tree(resolver).props[x][k].type = "select",
                          Tree(resolver).props[x][k].expr[2] \in Free(Tree(resolver))
                   PROVE resolver.effective[Tree(resolver).props[x][k].expr[2]] >=
                           minResolvedTri(resolver.effective[x],
                             evalDepExprDefault(resolver, Tree(resolver).props[x][k].visible, triY))
      BY Zenon DEF SelectHonoured
    <3>2. QED
      BY <2>2, <3>1, SelectedIsOn, StableTri
  <2>4. DependenciesHold
    <3>1. SUFFICES ASSUME Resolved, NEW s \in Free(Tree(resolver)), resolver.effective[s] # triN,
                          \A d \in Tree(resolver).deps[s] : evalDepExprDefault(resolver, d, triY) = triN,
                          evalDepExprDefault(resolver, Tree(resolver).revdep[s], triN) = triN
                   PROVE FALSE
      BY Zenon DEF DependenciesHold
    <3>2. QED
      BY <2>2, <3>1, OffWithoutDependency, StableTri
  <2>5. ChoiceExclusive
    BY <2>2, ChoiceOfResult, Zenon DEF ChoiceExclusive
  <2>6. RangeHolds
    BY <2>2, RangeOfResult, Zenon DEF RangeHolds
  <2>7. QED
    BY <2>3, <2>4, <2>5, <2>6 DEF KconfigRules
<1>2. QED
  BY InitInv, NextInv, <1>1, PTL DEF Spec
=============================================================================
