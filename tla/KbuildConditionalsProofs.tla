---------------------- MODULE KbuildConditionalsProofs ----------------------
(***************************************************************************)
(* Conditions, of the Kbuild parser and of Kconfig.                        *)
(*                                                                         *)
(* For every Makefile, any set of symbols, variables and tests and any     *)
(* nesting: the conditions the Kbuild parser records are make's.  The      *)
(* argument has three layers.  The combinators of conditions are           *)
(* conjunction, disjunction and negation (InvertFacts, AnyFacts,           *)
(* CombineFacts).  Each line about a conditional keeps the parser's frame  *)
(* in agreement with make's own (PushLocal, ElseLocal, ElseIfLocal over    *)
(* the predicate Local).  A stack of frames that agree one by one agrees   *)
(* as a whole (StackTop), so the conjunction of the frames' conditions     *)
(* holds where make executes the line (ActiveConditionFacts).              *)
(*                                                                         *)
(* For every set of Kconfig expressions and every clause limit: what an    *)
(* expression is encoded as means what the expression means.  The          *)
(* recursive functions have solutions (RecursionSolves, LoopSolves); each  *)
(* loop over clauses keeps the meaning of what it adds, or gives up        *)
(* (AppendFacts up to NotDnfFacts); each encoder says which state an       *)
(* expression is in when its operands do (SymbolGiven, NotGiven,           *)
(* BinaryGiven), and nesting is well-founded (EncodeStateBodyFacts).       *)
(***************************************************************************)
EXTENDS KbuildConditionals, ExprDnf, FiniteSetTheorems, SequenceTheorems,
        WellFoundedInduction, TLAPS

(***************************************************************************)
(* Conditions.                                                             *)
(***************************************************************************)

\* A set of positions has a last one.
LEMMA LastExists ==
  ASSUME NEW n \in Nat, NEW S, S \subseteq 1 .. n, S # {}
  PROVE  lastOf(S) \in S /\ \A j \in S : j <= lastOf(S)
<1> DEFINE Less == {ss \in Nat \X Nat : ss[1] < ss[2]}
           T == {k \in Nat : n - k \in S}
<1>1. IsWellFoundedOn(Less, Nat)
  BY NatLessThanWellFounded DEF OpToRel
<1>2. T # {} /\ T \subseteq Nat
  <2>1. PICK i \in S : TRUE
    OBVIOUS
  <2>2. i \in 1 .. n
    BY <2>1
  <2>3. n - i \in T
    BY <2>1, <2>2
  <2> QED
    BY <2>3
<1>3. PICK k \in T : \A m \in T : ~ (<<m, k>> \in Less)
  <2> HIDE DEF T, Less
  <2> QED
    BY <1>1, <1>2, WFMin
<1>4. \A m \in T : ~ (m < k)
  BY <1>3
<1>5. n - k \in S /\ \A j \in S : j <= n - k
  <2>1. k \in Nat /\ n - k \in S
    BY <1>3
  <2>2. ASSUME NEW j \in S
        PROVE  j <= n - k
    <3>1. j \in 1 .. n
      OBVIOUS
    <3>2. n - j \in T
      BY <3>1
    <3> HIDE DEF T
    <3> QED
      BY <1>4, <2>1, <3>1, <3>2
  <2> QED
    BY <2>1, <2>2
<1> QED
  BY <1>5 DEF lastOf

\* A condition without m: what a conditional leaves in its frame.
Plain(a) ==
  /\ a \in Condition
  /\ \A c \in Configs : a.mode[c] \in {"y", "n"}
  /\ a.kind = "const" => a = const("y") \/ a = const("n")

\* The constants are conditions; y is enabled everywhere and n nowhere.
LEMMA ConstFacts ==
  /\ Plain(const("y")) /\ Plain(const("n")) /\ Plain(noCondition)
  /\ const("m") \in Condition /\ const("-") \in Condition
  /\ \A c \in Configs : Enabled(const("y"), c) /\ ~ Enabled(const("n"), c)
                        /\ ~ Enabled(noCondition, c)
BY DEF Plain, const, noCondition, Condition, Enabled, Tri

\* invertKbuildCondition negates every condition without m.
LEMMA InvertFacts ==
  ASSUME NEW a, Plain(a)
  PROVE  LET b == invertKbuildCondition(a)
         IN /\ Plain(b) /\ ~ isEmpty(b)
            /\ \A c \in Configs : Enabled(b, c) <=> ~ Enabled(a, c)
<1>1. CASE a.kind = "const"
  <2>1. a = const("y") \/ a = const("n")
    BY <1>1 DEF Plain
  <2>2. CASE a = const("y")
    <3>1. invertKbuildCondition(a) = const("n")
      BY <1>1, <2>2 DEF invertKbuildCondition
    <3> QED
      BY <3>1, <2>2, ConstFacts DEF isEmpty, const
  <2>3. CASE a = const("n") /\ a # const("y")
    <3>1. invertKbuildCondition(a) = const("y")
      BY <1>1, <2>3 DEF invertKbuildCondition
    <3> QED
      BY <3>1, <2>3, ConstFacts DEF isEmpty, const
  <2> QED
    BY <2>1, <2>2, <2>3
<1>2. CASE a.kind # "const"
  BY <1>2 DEF Plain, invertKbuildCondition, isEmpty, Enabled, Condition, Tri
<1> QED
  BY <1>1, <1>2

\* combineKbuildAny is a disjunction.
LEMMA AnyFacts ==
  ASSUME NEW a, NEW b, Plain(a), Plain(b), ~ isEmpty(b),
         isEmpty(a) => a = noCondition
  PROVE  LET d == combineKbuildAny(a, b)
         IN /\ Plain(d) /\ ~ isEmpty(d)
            /\ \A c \in Configs : Enabled(d, c) <=> Enabled(a, c) \/ Enabled(b, c)
<1>1. CASE isEmpty(a)
  <2>1. combineKbuildAny(a, b) = b /\ a = noCondition
    BY <1>1 DEF combineKbuildAny
  <2> QED
    BY <2>1, ConstFacts
<1>2. CASE ~ isEmpty(a)
  BY <1>2 DEF combineKbuildAny, Plain, isEmpty, Enabled, Condition, Tri
<1> QED
  BY <1>1, <1>2

\* combineKbuildConditions is a conjunction of the terms that are not empty.
LEMMA CombineFacts ==
  ASSUME NEW n \in Nat, NEW cs \in [1 .. n -> Condition]
  PROVE  LET d == combineKbuildConditions(cs)
         IN /\ d \in Condition /\ ~ isEmpty(d)
            /\ \A c \in Configs :
                 Enabled(d, c) <=> \A i \in 1 .. n : isEmpty(cs[i]) \/ Enabled(cs[i], c)
            /\ (\A i \in 1 .. n : Plain(cs[i])) => Plain(d)
<1> DEFINE A == allTerms(cs)
           last == lastOf(A)
           d == combineKbuildConditions(cs)
<1>1. A \subseteq 1 .. n /\ \A i \in A : ~ isEmpty(cs[i])
  BY DEF allTerms
<1>2. \A i \in 1 .. n : i \notin A => isEmpty(cs[i]) \/ cs[i] = const("y")
  BY DEF allTerms
<1>3. CASE A = {}
  <2>1. d = const("y")
    BY <1>3 DEF combineKbuildConditions
  <2>2. ~ isEmpty(const("y"))
    BY DEF const, isEmpty
  <2>3. const("y") \in Condition
    BY ConstFacts DEF Plain
  <2>4. \A i \in 1 .. n, c \in Configs : isEmpty(cs[i]) \/ Enabled(cs[i], c)
    <3> HIDE DEF A
    <3> QED
      BY <1>2, <1>3, ConstFacts
  <2> QED
    BY <2>1, <2>2, <2>3, <2>4, ConstFacts
<1>4. CASE A # {}
  <2>1. last \in A
    BY <1>1, <1>4, LastExists
  <2>2. d = [kind |-> IF \E i \in A : A = {i} THEN cs[last].kind ELSE "test",
             mode |-> [c \in Configs |->
                        IF \A i \in A : Enabled(cs[i], c)
                        THEN cs[last].mode[c] ELSE "n"]]
    BY <1>4 DEF combineKbuildConditions
  <2> HIDE DEF A, last, d
  <2>3. last \in 1 .. n /\ cs[last] \in Condition /\ ~ isEmpty(cs[last])
    BY <1>1, <2>1
  <2>4. d \in Condition /\ ~ isEmpty(d)
    BY <2>2, <2>3 DEF Condition, isEmpty, Tri
  <2>5. ASSUME NEW c \in Configs
        PROVE  Enabled(d, c) <=> \A i \in A : Enabled(cs[i], c)
    BY <2>1, <2>2 DEF Enabled
  <2>6. ASSUME NEW c \in Configs
        PROVE  Enabled(d, c) <=> \A i \in 1 .. n : isEmpty(cs[i]) \/ Enabled(cs[i], c)
    BY <1>1, <1>2, <2>5, ConstFacts
  <2>7. ASSUME \A i \in 1 .. n : Plain(cs[i])
        PROVE  Plain(d)
    <3>1. Plain(cs[last])
      BY <2>3, <2>7
    <3>2. \A c \in Configs : d.mode[c] \in {"y", "n"}
      BY <2>2, <3>1 DEF Plain
    <3>3. ASSUME d.kind = "const"
          PROVE  d = cs[last]
      <4>1. A = {last} /\ d.kind = cs[last].kind
        BY <2>1, <2>2, <3>3
      <4>2. \A c \in Configs : d.mode[c] = cs[last].mode[c]
        BY <2>2, <4>1, <2>3 DEF Enabled, Condition
      <4>3. d.mode = cs[last].mode
        BY <2>2, <2>3, <4>2 DEF Condition
      <4> QED
        BY <2>2, <2>3, <4>1, <4>3 DEF Condition
    <3> QED
      BY <2>4, <3>1, <3>2, <3>3 DEF Plain
  <2> QED
    BY <2>4, <2>6, <2>7 DEF d
<1> QED
  BY <1>3, <1>4

\* A condition put after a plain one: enabled where the plain one is, with the
\* mode of the condition put last.
LEMMA WithFacts ==
  ASSUME NEW a, NEW b, Plain(a), ~ isEmpty(a), b \in Condition, ~ isEmpty(b)
  PROVE  /\ combineKbuildConditions(<<a, b>>) \in Condition
         /\ \A c \in Configs :
              combineKbuildConditions(<<a, b>>).mode[c]
                = IF Enabled(a, c) THEN b.mode[c] ELSE "n"
<1> DEFINE cs == <<a, b>>
           A == allTerms(cs)
           d == combineKbuildConditions(cs)
<1>1. cs \in [1 .. 2 -> Condition] /\ cs[1] = a /\ cs[2] = b
  BY DEF Plain
<1>2. d \in Condition
  <2> HIDE DEF cs
  <2> QED
    BY <1>1, CombineFacts
<1>3. A = {i \in 1 .. 2 : cs[i] # const("y")}
  BY <1>1 DEF allTerms
<1>4. ASSUME NEW c \in Configs
      PROVE  d.mode[c] = IF Enabled(a, c) THEN b.mode[c] ELSE "n"
  <2>1. CASE b # const("y")
    <3>1. 2 \in A /\ \A i \in A : i <= 2
      BY <1>1, <1>3, <2>1
    <3>2. lastOf(A) = 2
      <4> HIDE DEF A
      <4>1. A \subseteq 1 .. 2
        BY <1>3
      <4>2. lastOf(A) \in A /\ 2 <= lastOf(A)
        BY <3>1, <4>1, LastExists
      <4>3. lastOf(A) \in 1 .. 2
        BY <4>1, <4>2
      <4> QED
        BY <4>2, <4>3
    <3>3. d.mode[c] = IF \A i \in A : Enabled(cs[i], c) THEN b.mode[c] ELSE "n"
      BY <1>1, <3>1, <3>2 DEF combineKbuildConditions
    <3>4. a = const("y") => Enabled(a, c)
      BY ConstFacts
    <3>5. ~ Enabled(b, c) => b.mode[c] = "n"
      BY DEF Enabled
    <3>6. (\A i \in A : Enabled(cs[i], c)) <=> Enabled(a, c) /\ Enabled(b, c)
      <4>1. 1 \in A \/ Enabled(a, c)
        BY <1>1, <1>3, <3>4
      <4> QED
        BY <1>1, <1>3, <3>1, <4>1
    <3> QED
      BY <3>3, <3>5, <3>6
  <2>2. CASE b = const("y") /\ a # const("y")
    <3>1. A = {1}
      BY <1>1, <1>3, <2>2
    <3>2. lastOf(A) = 1
      BY <3>1 DEF lastOf
    <3>3. d.mode[c] = IF Enabled(a, c) THEN a.mode[c] ELSE "n"
      BY <1>1, <3>1, <3>2 DEF combineKbuildConditions
    <3>4. b.mode[c] = "y"
      BY <2>2 DEF const
    <3> QED
      BY <3>3, <3>4 DEF Enabled, Plain
  <2>3. CASE b = const("y") /\ a = const("y")
    <3>1. A = {}
      BY <1>1, <1>3, <2>3
    <3>2. d = const("y")
      BY <3>1 DEF combineKbuildConditions
    <3> QED
      BY <2>3, <3>2, ConstFacts DEF const
  <2> QED
    BY <2>1, <2>2, <2>3
<1> QED
  BY <1>2, <1>4

-----------------------------------------------------------------------------
(***************************************************************************)
(* The invariant.  A frame of the parser and make's frame for the same     *)
(* conditional agree (Local); the stack as a whole agrees because each     *)
(* frame starts from what the frames below it let through (Entry).         *)
(***************************************************************************)

\* What the parser remembers of the branches it has passed.
Previous(W, f, m) ==
  /\ f.previousKnown =>
       IF f.previousTaken THEN W \subseteq m.taken ELSE m.taken = {}
  /\ ~ f.previousKnown =>
       /\ Plain(f.previousCondition)
       /\ f.hasPreviousCondition <=> ~ isEmpty(f.previousCondition)
       /\ ~ f.hasPreviousCondition =>
            f.previousCondition = noCondition /\ ~ f.hasCondition /\ m.blind
       /\ f.hasPreviousCondition /\ ~ m.masked =>
            \A w \in W : Enabled(f.previousCondition, w.config) => w \in m.taken
       /\ ~ m.blind =>
            \A w \in W : w \in m.taken => Enabled(f.previousCondition, w.config)

Passes(f, w) == f.hasCondition => Enabled(f.condition, w.config)

Local(W, f, m) ==
  /\ m.active \subseteq m.parent /\ m.parent \subseteq W
  /\ f.active => f.parentActive
  /\ m.parent # {} => f.parentActive
  /\ f.parentDefinitelyActive => m.parent = W
  /\ m.active # {} => f.active
  /\ f.definitelyActive => m.active = W
  /\ f.hasCondition => Plain(f.condition) /\ ~ isEmpty(f.condition)
  /\ m.masked => m.blind
  /\ ~ m.masked => \A w \in m.active : Passes(f, w)
  /\ ~ m.blind /\ f.active =>
       \A w \in m.parent : Passes(f, w) => w \in m.active
  /\ ~ f.sawElse /\ f.parentActive => Previous(W, f, m)

\* Frame i, given the frames below it.
Entry(W, C, M, i) ==
  /\ Local(W, C[i], M[i])
  /\ C[i].active => \A j \in 1 .. i : C[j].active
  /\ (\A j \in 1 .. i : ~ M[j].masked) =>
        \A w \in M[i].active : \A j \in 1 .. i : Passes(C[j], w)
  /\ C[i].active /\ (\A j \in 1 .. i : ~ M[j].blind) =>
        \A w \in W : (\A j \in 1 .. i : Passes(C[j], w)) => w \in M[i].active

\* Frame i starts where frame i-1 is.
Linked(W, C, M, i) ==
  /\ C[i].parentActive <=> (i = 1 \/ C[i - 1].active)
  /\ C[i].parentDefinitelyActive <=> (i = 1 \/ C[i - 1].definitelyActive)
  /\ M[i].parent = IF i = 1 THEN W ELSE M[i - 1].active

Stack(W, C, M, n) == \A i \in 1 .. n : Entry(W, C, M, i) /\ Linked(W, C, M, i)

\* The stack invariant looks only at the frames up to its bound.
LEMMA StackBelow ==
  ASSUME NEW W, NEW C, NEW M, NEW D, NEW N, NEW n \in Nat,
         Stack(W, C, M, n),
         \A i \in 1 .. n : D[i] = C[i] /\ N[i] = M[i]
  PROVE  Stack(W, D, N, n)
<1> SUFFICES ASSUME NEW i \in 1 .. n
             PROVE  Entry(W, D, N, i) /\ Linked(W, D, N, i)
  BY DEF Stack
<1>1. Entry(W, C, M, i) /\ Linked(W, C, M, i)
  BY DEF Stack
<1>2. \A j \in 1 .. i : D[j] = C[j] /\ N[j] = M[j]
  OBVIOUS
<1>3. i \in 1 .. i /\ (i # 1 => i - 1 \in 1 .. i)
  OBVIOUS
<1>4. Entry(W, D, N, i)
  BY <1>1, <1>2, <1>3 DEF Entry
<1>5. Linked(W, D, N, i)
  BY <1>1, <1>2, <1>3 DEF Linked
<1> QED
  BY <1>4, <1>5

\* A frame that agrees with make's, on a stack that does, gives a stack that
\* does.
LEMMA StackTop ==
  ASSUME NEW W, NEW C, NEW M, NEW n \in Nat,
         Stack(W, C, M, n),
         Local(W, C[n + 1], M[n + 1]), Linked(W, C, M, n + 1)
  PROVE  Stack(W, C, M, n + 1)
<1> DEFINE f == C[n + 1]
           m == M[n + 1]
<1>0. \A j \in 1 .. (n + 1) : j \in 1 .. n \/ j = n + 1
  OBVIOUS
<1>1. CASE n = 0
  <2>1. m.parent = W
    BY <1>1 DEF Linked
  <2>2. Entry(W, C, M, n + 1)
    BY <1>1, <2>1 DEF Entry, Local
  <2> QED
    BY <1>1, <2>2 DEF Stack
<1>2. CASE n # 0
  <2>1. n \in 1 .. n /\ (n + 1) - 1 = n /\ n + 1 # 1
    BY <1>2
  <2>2. Entry(W, C, M, n)
    BY <2>1 DEF Stack
  <2>3. m.parent = M[n].active /\ (f.parentActive <=> C[n].active)
    BY <2>1 DEF Linked
  <2>4. f.active => \A j \in 1 .. (n + 1) : C[j].active
    BY <1>0, <2>2, <2>3 DEF Entry, Local
  <2>5. ASSUME \A j \in 1 .. (n + 1) : ~ M[j].masked,
               NEW w \in m.active, NEW j \in 1 .. (n + 1)
        PROVE  Passes(C[j], w)
    <3>1. w \in M[n].active
      BY <2>3 DEF Local
    <3>2. CASE j = n + 1
      BY <2>5, <3>2 DEF Local
    <3>3. CASE j \in 1 .. n
      BY <2>2, <2>5, <3>1, <3>3 DEF Entry
    <3> QED
      BY <1>0, <3>2, <3>3
  <2>6. ASSUME f.active, \A j \in 1 .. (n + 1) : ~ M[j].blind,
               NEW w \in W, \A j \in 1 .. (n + 1) : Passes(C[j], w)
        PROVE  w \in m.active
    <3>1. C[n].active
      BY <2>3, <2>6 DEF Local
    <3>2. \A j \in 1 .. n : ~ M[j].blind /\ Passes(C[j], w)
      BY <2>6
    <3>3. w \in m.parent
      BY <2>2, <2>3, <3>1, <3>2 DEF Entry
    <3>4. ~ m.blind /\ Passes(f, w)
      BY <2>6
    <3> QED
      BY <2>6, <3>3, <3>4 DEF Local
  <2>7. Entry(W, C, M, n + 1)
    BY <2>4, <2>5, <2>6 DEF Entry
  <2> QED
    BY <1>0, <2>7 DEF Stack
<1> QED
  BY <1>1, <1>2

-----------------------------------------------------------------------------
(***************************************************************************)
(* Tests.                                                                  *)
(***************************************************************************)
Result == [known : BOOLEAN, value : BOOLEAN, condition : Condition,
           hasCondition : BOOLEAN]

\* A result that says of the worlds W what make finds: H are those in which
\* the test holds.
Decides(W, r, H) ==
  /\ H \subseteq W
  /\ r.known => ~ r.hasCondition /\ H = IF r.value THEN W ELSE {}
  /\ ~ r.hasCondition => r.condition = noCondition
  /\ r.hasCondition => Plain(r.condition) /\ ~ isEmpty(r.condition)

\* ... and, of a condition, that it holds in the same worlds.
Expresses(W, r, H) ==
  r.hasCondition => \A w \in W : w \in H <=> Enabled(r.condition, w.config)

\* With ConfigVariablesComplete the parse stands for one configuration.
OneConfig == complete => \E c \in Configs : configs = {c}

\* The comparison conditions are plain and mean what they say.
LEMMA ComparisonFacts ==
  ASSUME NEW s \in Symbols, NEW v
  PROVE  /\ Plain(configEq(s, v)) /\ ~ isEmpty(configEq(s, v))
         /\ Plain(configNe(s, v)) /\ ~ isEmpty(configNe(s, v))
         /\ \A c \in Configs : /\ Enabled(configEq(s, v), c) <=> c[s] = v
                               /\ Enabled(configNe(s, v), c) <=> c[s] # v
BY DEF configEq, configNe, Plain, isEmpty, Enabled, Condition, Tri

\* evalConditional agrees with make as long as the variables do.
LEMMA EvalFacts ==
  ASSUME NEW t \in Tests, OneConfig, complete \in BOOLEAN,
         \A w \in worlds : makeVars[w] = vars
  PROVE  /\ Decides(worlds, evalConditional(t), holding(t))
         /\ ~ misread(t) => Expresses(worlds, evalConditional(t), holding(t))
<1> DEFINE r == evalConditional(t)
           H == holding(t)
           W == worlds
           Goal == Decides(W, r, H) /\ (~ misread(t) => Expresses(W, r, H))
<1> SUFFICES Goal
  OBVIOUS
<1>1. H \subseteq W
  BY DEF holding
<1>2. ASSUME NEW v \in BOOLEAN, r = known(v), \A w \in W : holds(t, w) <=> v
      PROVE  Goal
  <2>1. H = IF v THEN W ELSE {}
    BY <1>2 DEF holding
  <2> HIDE DEF r, H, W
  <2> QED
    BY <1>1, <1>2, <2>1 DEF Decides, Expresses, known
<1>3. ASSUME r = unknown
      PROVE  Goal
  <2> HIDE DEF r, H, W
  <2> QED
    BY <1>1, <1>3 DEF Decides, Expresses, unknown
<1>4. ASSUME NEW a, Plain(a), ~ isEmpty(a), r = upTo(a),
             ~ misread(t) => \A w \in W : holds(t, w) <=> Enabled(a, w.config)
      PROVE  Goal
  <2>1. ~ misread(t) => \A w \in W : w \in H <=> Enabled(a, w.config)
    BY <1>4 DEF holding
  <2> HIDE DEF r, H, W
  <2> QED
    BY <1>1, <1>4, <2>1 DEF Decides, Expresses, upTo
<1> HIDE DEF Goal
<1>5. CASE t.of = "opaque"
  <2>1. r = unknown
    BY <1>5 DEF evalConditional
  <2> QED
    BY <1>3, <2>1
<1>6. CASE t.of = "config"
  <2>1. t.name \in Symbols /\ t.keyword \in Keywords /\ t.text \in Seq(Words)
    BY <1>6, KbuildAssumption
  <2>2. \A w \in W : w.config \in Configs /\ w.config[t.name] \in Tri
    BY <2>1 DEF worlds, Worlds, Configs
  <2>3. ASSUME complete
        PROVE  \A w \in W : w.config[t.name] = given(t.name)
    BY <2>3 DEF OneConfig, worlds, given
  <2>4. CASE t.keyword \in {"ifeq", "ifneq"}
    <3>1. r = evalCompareConfig(t)
      BY <1>6, <2>4 DEF evalConditional
    <3>2. \A w \in W : holds(t, w) <=>
             ((configText(w.config[t.name]) = t.text) # negated(t))
      BY <1>6, <2>4 DEF holds
    <3>3. CASE complete
      <4> DEFINE v == (configText(given(t.name)) = t.text) # negated(t)
      <4>1. r = known(v) /\ v \in BOOLEAN
        BY <3>1, <3>3 DEF evalCompareConfig
      <4>2. \A w \in W : holds(t, w) <=> v
        BY <2>3, <3>2, <3>3
      <4> HIDE DEF v, r, H, W
      <4> QED
        BY <1>2, <4>1, <4>2
    <3>4. CASE ~ complete /\ comparable(t.text)
      <4> DEFINE a == makeConfigComparisonCondition(t)
                 v == comparedState(t.text)
      <4>1. r = upTo(a)
        BY <3>1, <3>4 DEF evalCompareConfig
      <4>2. Plain(a) /\ ~ isEmpty(a)
        BY <2>1, ComparisonFacts DEF makeConfigComparisonCondition
      <4>3. ASSUME ~ misread(t), NEW w \in W
            PROVE  holds(t, w) <=> Enabled(a, w.config)
        <5>1. t.text \in {<<>>, <<"m">>, <<"y">>}
          BY <1>6, <2>4, <3>4, <4>3 DEF misread, comparable
        <5>2. configText(w.config[t.name]) = t.text <=> w.config[t.name] = v
          BY <2>2, <5>1 DEF configText, comparedState, Tri
        <5>3. CASE t.keyword = "ifneq"
          <6>1. a = configNe(t.name, v)
            BY <5>3 DEF makeConfigComparisonCondition
          <6>2. Enabled(a, w.config) <=> w.config[t.name] # v
            BY <2>1, <2>2, <6>1, ComparisonFacts
          <6>3. negated(t)
            BY <5>3 DEF negated
          <6> QED
            BY <3>2, <5>2, <6>2, <6>3
        <5>4. CASE t.keyword = "ifeq"
          <6>1. a = configEq(t.name, v)
            BY <5>4 DEF makeConfigComparisonCondition
          <6>2. Enabled(a, w.config) <=> w.config[t.name] = v
            BY <2>1, <2>2, <6>1, ComparisonFacts
          <6>3. ~ negated(t) /\ negated(t) \in BOOLEAN
            BY <5>4 DEF negated
          <6> QED
            BY <3>2, <5>2, <6>2, <6>3
        <5> QED
          BY <2>4, <5>3, <5>4
      <4> HIDE DEF a, r, H, W
      <4> QED
        BY <1>4, <4>1, <4>2, <4>3
    <3>5. CASE ~ complete /\ ~ comparable(t.text)
      <4>1. r = unknown
        BY <3>1, <3>5 DEF evalCompareConfig
      <4> QED
        BY <1>3, <4>1
    <3> QED
      BY <3>3, <3>4, <3>5
  <2>5. CASE t.keyword \notin {"ifeq", "ifneq"}
    <3>1. r = evalDefinedConfig(t)
      BY <1>6, <2>5 DEF evalConditional
    <3>2. \A w \in W : holds(t, w) <=> ((w.config[t.name] # "n") # negated(t))
      BY <1>6, <2>5 DEF holds
    <3>3. CASE complete
      <4> DEFINE v == (given(t.name) # "n") # negated(t)
      <4>1. r = known(v) /\ v \in BOOLEAN
        BY <3>1, <3>3 DEF evalDefinedConfig
      <4>2. \A w \in W : holds(t, w) <=> v
        BY <2>3, <3>2, <3>3
      <4> HIDE DEF v, r, H, W
      <4> QED
        BY <1>2, <4>1, <4>2
    <3>4. CASE ~ complete
      <4> DEFINE b == configNe(t.name, "n")
                 a == IF negated(t) THEN invertKbuildCondition(b) ELSE b
      <4>1. r = upTo(a)
        BY <3>1, <3>4 DEF evalDefinedConfig
      <4>2. /\ Plain(b) /\ ~ isEmpty(b)
            /\ \A w \in W : Enabled(b, w.config) <=> w.config[t.name] # "n"
        BY <2>1, <2>2, ComparisonFacts
      <4>3. /\ Plain(a) /\ ~ isEmpty(a)
            /\ \A w \in W : Enabled(a, w.config) <=>
                            (Enabled(b, w.config) # negated(t))
        <5>0. negated(t) \in BOOLEAN /\ \A c : Enabled(b, c) \in BOOLEAN
          BY DEF negated, Enabled
        <5> HIDE DEF b, W
        <5>1. CASE negated(t)
          BY <2>2, <4>2, <5>0, <5>1, InvertFacts
        <5>2. CASE ~ negated(t)
          BY <4>2, <5>0, <5>2
        <5> QED
          BY <5>1, <5>2
      <4>4. \A w \in W : holds(t, w) <=> Enabled(a, w.config)
        <5>1. negated(t) \in BOOLEAN /\ \A c : Enabled(b, c) \in BOOLEAN
          BY DEF negated, Enabled
        <5> HIDE DEF a, b, W
        <5> QED
          BY <3>2, <4>2, <4>3, <5>1
      <4> HIDE DEF a, r, H, W
      <4> QED
        BY <1>4, <4>1, <4>3, <4>4
    <3> QED
      BY <3>3, <3>4
  <2> QED
    BY <2>4, <2>5
<1>7. CASE t.of = "variable"
  <2>1. t.keyword \in Keywords
    BY <1>7, KbuildAssumption
  <2>2. CASE t.keyword \in {"ifeq", "ifneq"}
    <3>1. r = evalCompareVariable(t)
      BY <1>7, <2>2 DEF evalConditional
    <3>2. \A w \in W : holds(t, w) <=>
             ((textOf(vars[t.name]) = t.text) # negated(t))
      BY <1>7, <2>2 DEF holds
    <3>3. CASE vars[t.name] # Unset
      <4> DEFINE v == (vars[t.name] = t.text) # negated(t)
      <4>1. r = known(v) /\ v \in BOOLEAN
        BY <3>1, <3>3 DEF evalCompareVariable
      <4>2. \A w \in W : holds(t, w) <=> v
        BY <3>2, <3>3 DEF textOf
      <4> HIDE DEF v, r, H, W
      <4> QED
        BY <1>2, <4>1, <4>2
    <3>4. CASE vars[t.name] = Unset /\ t.name \in KnownEmpty
      <4> DEFINE v == (<<>> = t.text) # negated(t)
      <4>1. r = known(v) /\ v \in BOOLEAN
        BY <3>1, <3>4 DEF evalCompareVariable
      <4>2. \A w \in W : holds(t, w) <=> v
        BY <3>2, <3>4 DEF textOf
      <4> HIDE DEF v, r, H, W
      <4> QED
        BY <1>2, <4>1, <4>2
    <3>5. CASE vars[t.name] = Unset /\ t.name \notin KnownEmpty
      <4>1. r = unknown
        BY <3>1, <3>5 DEF evalCompareVariable
      <4> QED
        BY <1>3, <4>1
    <3> QED
      BY <3>3, <3>4, <3>5
  <2>3. CASE t.keyword \notin {"ifeq", "ifneq"}
    <3> DEFINE v == (vars[t.name] \notin {Unset, <<>>}) # negated(t)
    <3>1. r = known(v) /\ v \in BOOLEAN
      BY <1>7, <2>3 DEF evalConditional, evalDefinedVariable
    <3>2. \A w \in W : holds(t, w) <=> ((textOf(vars[t.name]) # <<>>) # negated(t))
      BY <1>7, <2>3 DEF holds
    <3>3. (textOf(vars[t.name]) # <<>>) <=> (vars[t.name] \notin {Unset, <<>>})
      BY DEF textOf
    <3>4. \A w \in W : holds(t, w) <=> v
      BY <3>2, <3>3
    <3> HIDE DEF v, r, H, W
    <3> QED
      BY <1>2, <3>1, <3>4
  <2> QED
    BY <2>2, <2>3
<1>8. t.of \in {"opaque", "config", "variable"}
  BY KbuildAssumption
<1> QED
  BY <1>5, <1>6, <1>7, <1>8

-----------------------------------------------------------------------------
(***************************************************************************)
(* Frames: each line about a conditional keeps the parser's frame and      *)
(* make's in agreement.                                                    *)
(***************************************************************************)

\* if
LEMMA PushLocal ==
  ASSUME NEW W, NEW r \in Result, NEW f, NEW m, NEW wrong \in BOOLEAN,
         Decides(W, r, m.taken), ~ wrong => Expresses(W, r, m.taken),
         m.parent \subseteq W, m.parent # {} => f.parentActive,
         f.parentDefinitelyActive => m.parent = W,
         f.parentActive \in BOOLEAN, f.parentDefinitelyActive \in BOOLEAN,
         /\ f.previousKnown = r.known /\ f.previousTaken = (r.known /\ r.value)
         /\ f.previousCondition = r.condition /\ f.condition = r.condition
         /\ f.hasPreviousCondition = (~ r.known /\ r.hasCondition)
         /\ f.hasCondition = (~ r.known /\ r.hasCondition)
         /\ f.active = (f.parentActive /\ (~ r.known \/ r.value))
         /\ f.definitelyActive = (f.parentDefinitelyActive /\ r.known /\ r.value)
         /\ f.sawElse = FALSE
         /\ m.active = m.parent \cap m.taken
         /\ m.blind = (opaqueTo(r) \/ wrong) /\ m.masked = wrong
  PROVE  Local(W, f, m)
<1> DEFINE P == m.parent
           H == m.taken
           pa == f.parentActive
           pd == f.parentDefinitelyActive
<1>1. /\ f.previousKnown = r.known /\ f.previousTaken = (r.known /\ r.value)
      /\ f.previousCondition = r.condition /\ f.condition = r.condition
      /\ f.hasPreviousCondition = (~ r.known /\ r.hasCondition)
      /\ f.hasCondition = (~ r.known /\ r.hasCondition)
      /\ f.active = (pa /\ (~ r.known \/ r.value))
      /\ f.definitelyActive = (pd /\ r.known /\ r.value)
      /\ m.active = P \cap H
      /\ m.blind = (opaqueTo(r) \/ wrong) /\ m.masked = wrong
  OBVIOUS
<1>2. r.known \in BOOLEAN /\ r.value \in BOOLEAN /\ r.hasCondition \in BOOLEAN
  BY DEF Result
<1>3. noCondition.kind = "" /\ isEmpty(noCondition)
  BY DEF noCondition, isEmpty
<1>4. Plain(r.condition) /\ (r.hasCondition <=> ~ isEmpty(r.condition))
  BY <1>2, <1>3, ConstFacts DEF Decides
<1>5. Previous(W, f, m)
  <2>1. CASE r.known
    BY <1>1, <1>2, <2>1 DEF Decides, Previous
  <2>2. CASE ~ r.known /\ r.hasCondition
    BY <1>1, <1>2, <1>4, <2>2 DEF Decides, Expresses, Previous, opaqueTo
  <2>3. CASE ~ r.known /\ ~ r.hasCondition
    BY <1>1, <1>2, <1>4, <2>3 DEF Decides, Previous, opaqueTo
  <2> QED
    BY <1>2, <2>1, <2>2, <2>3
<1>6. ~ m.masked => \A w \in m.active : Passes(f, w)
  BY <1>1, <1>2 DEF Decides, Expresses, Passes
<1>7. ~ m.blind /\ f.active => \A w \in m.parent : Passes(f, w) => w \in m.active
  <2>1. CASE r.known
    BY <1>1, <1>2, <2>1 DEF Decides
  <2>2. CASE ~ r.known
    BY <1>1, <1>2, <2>2 DEF Expresses, Passes, opaqueTo
  <2> QED
    BY <1>2, <2>1, <2>2
<1>8. m.active # {} => f.active
  BY <1>1, <1>2 DEF Decides
<1>9. f.definitelyActive => m.active = W
  BY <1>1, <1>2 DEF Decides
<1> QED
  BY <1>1, <1>2, <1>4, <1>5, <1>6, <1>7, <1>8, <1>9 DEF Local

\* else
LEMMA ElseLocal ==
  ASSUME NEW W, NEW f \in kbuildConditionalFrame, NEW m \in MakeFrame,
         Local(W, f, m), ~ f.sawElse,
         NEW g, g = elseFrame(f),
         NEW k, k.parent = m.parent, k.active = m.parent \ m.taken,
         k.blind = m.blind, k.masked = m.masked
  PROVE  /\ Local(W, g, k) /\ g \in kbuildConditionalFrame
         /\ g.parentActive = f.parentActive
         /\ g.parentDefinitelyActive = f.parentDefinitelyActive
<1>0. /\ f.parentActive \in BOOLEAN /\ f.previousKnown \in BOOLEAN
      /\ f.previousTaken \in BOOLEAN /\ f.hasPreviousCondition \in BOOLEAN
      /\ f.parentDefinitelyActive \in BOOLEAN
  BY DEF kbuildConditionalFrame
<1>1. CASE ~ f.parentActive
  <2>1. g = [f EXCEPT !.active = FALSE, !.definitelyActive = FALSE, !.sawElse = TRUE]
    BY <1>0, <1>1 DEF elseFrame
  <2>2. /\ g \in kbuildConditionalFrame
        /\ g.active = FALSE /\ g.definitelyActive = FALSE /\ g.sawElse = TRUE
        /\ g.parentActive = f.parentActive /\ g.hasCondition = f.hasCondition
        /\ g.parentDefinitelyActive = f.parentDefinitelyActive
        /\ g.condition = f.condition
    BY <2>1 DEF kbuildConditionalFrame
  <2>3. m.parent = {}
    BY <1>1 DEF Local
  <2> QED
    BY <1>1, <2>2, <2>3 DEF Local
<1>2. CASE f.parentActive /\ ~ f.previousKnown /\ f.hasPreviousCondition
  <2> DEFINE a == invertKbuildCondition(f.previousCondition)
  <2>0. Previous(W, f, m)
    BY <1>2 DEF Local
  <2>1. /\ Plain(a) /\ a \in Condition /\ ~ isEmpty(a)
        /\ \A c \in Configs : Enabled(a, c) <=> ~ Enabled(f.previousCondition, c)
    BY <1>2, <2>0, InvertFacts DEF Previous, Plain
  <2>2. g = [f EXCEPT !.active = TRUE, !.definitelyActive = FALSE,
                      !.condition = a, !.hasCondition = TRUE,
                      !.previousCondition = noCondition,
                      !.hasPreviousCondition = FALSE, !.sawElse = TRUE]
    BY <1>0, <1>2 DEF elseFrame
  <2>3. noCondition \in Condition
    BY ConstFacts DEF Plain
  <2> HIDE DEF a
  <2>4. /\ g \in kbuildConditionalFrame
        /\ g.active = TRUE /\ g.definitelyActive = FALSE /\ g.sawElse = TRUE
        /\ g.parentActive = f.parentActive /\ g.hasCondition = TRUE
        /\ g.parentDefinitelyActive = f.parentDefinitelyActive
        /\ g.condition = a
    BY <2>1, <2>2, <2>3 DEF kbuildConditionalFrame
  <2>5. m.parent \subseteq W /\ \A w \in m.parent : w.config \in Configs
    BY DEF Local, MakeFrame, Worlds
  <2>6. ~ k.masked => \A w \in k.active : Passes(g, w)
    BY <1>2, <2>0, <2>1, <2>4, <2>5 DEF Previous, Passes
  <2>7. ~ k.blind => \A w \in k.parent : Passes(g, w) => w \in k.active
    BY <1>2, <2>0, <2>1, <2>4, <2>5 DEF Previous, Passes
  <2> QED
    BY <1>2, <2>1, <2>4, <2>6, <2>7 DEF Local
<1>3. CASE f.parentActive /\ ~ f.previousKnown /\ ~ f.hasPreviousCondition
  <2>0. ~ f.hasCondition /\ m.blind
    BY <1>3 DEF Local, Previous
  <2>1. g = [f EXCEPT !.active = TRUE, !.definitelyActive = FALSE, !.sawElse = TRUE]
    BY <1>0, <1>3 DEF elseFrame
  <2>2. /\ g \in kbuildConditionalFrame
        /\ g.active = TRUE /\ g.definitelyActive = FALSE /\ g.sawElse = TRUE
        /\ g.parentActive = f.parentActive /\ g.hasCondition = f.hasCondition
        /\ g.parentDefinitelyActive = f.parentDefinitelyActive
    BY <2>1 DEF kbuildConditionalFrame
  <2> QED
    BY <1>3, <2>0, <2>2 DEF Local, Passes
<1>4. CASE f.parentActive /\ f.previousKnown /\ f.previousTaken
  <2>0. m.parent \subseteq m.taken
    BY <1>4 DEF Local, Previous
  <2>1. g = [f EXCEPT !.active = FALSE, !.definitelyActive = FALSE,
                      !.condition = noCondition, !.hasCondition = FALSE,
                      !.sawElse = TRUE]
    BY <1>0, <1>4 DEF elseFrame
  <2>2. noCondition \in Condition
    BY ConstFacts DEF Plain
  <2>3. /\ g \in kbuildConditionalFrame
        /\ g.active = FALSE /\ g.definitelyActive = FALSE /\ g.sawElse = TRUE
        /\ g.parentActive = f.parentActive /\ g.hasCondition = FALSE
        /\ g.parentDefinitelyActive = f.parentDefinitelyActive
    BY <2>1, <2>2 DEF kbuildConditionalFrame
  <2> QED
    BY <1>4, <2>0, <2>3 DEF Local
<1>5. CASE f.parentActive /\ f.previousKnown /\ ~ f.previousTaken
  <2>0. m.taken = {}
    BY <1>5 DEF Local, Previous
  <2>1. g = [f EXCEPT !.active = TRUE,
                      !.definitelyActive = f.parentDefinitelyActive,
                      !.previousTaken = TRUE,
                      !.condition = noCondition, !.hasCondition = FALSE,
                      !.sawElse = TRUE]
    BY <1>0, <1>5 DEF elseFrame
  <2>2. noCondition \in Condition
    BY ConstFacts DEF Plain
  <2>3. /\ g \in kbuildConditionalFrame
        /\ g.active = TRUE /\ g.definitelyActive = f.parentDefinitelyActive
        /\ g.sawElse = TRUE
        /\ g.parentActive = f.parentActive /\ g.hasCondition = FALSE
        /\ g.parentDefinitelyActive = f.parentDefinitelyActive
    BY <2>1, <2>2 DEF kbuildConditionalFrame
  <2> QED
    BY <1>5, <2>0, <2>3 DEF Local, Passes
<1> QED
  BY <1>0, <1>1, <1>2, <1>3, <1>4, <1>5

\* The combinators return conditions.
LEMMA ConditionTypes ==
  /\ noCondition \in Condition
  /\ \A a \in Condition : invertKbuildCondition(a) \in Condition
  /\ \A a, b \in Condition : combineKbuildAny(a, b) \in Condition
  /\ \A s \in Symbols : config(s) \in Condition /\ config(s).kind = "test"
<1>1. noCondition \in Condition
  BY ConstFacts DEF Plain
<1>2. \A a \in Condition : invertKbuildCondition(a) \in Condition
  <2> SUFFICES ASSUME NEW a \in Condition PROVE invertKbuildCondition(a) \in Condition
    OBVIOUS
  <2>1. CASE a.kind = "const"
    <3>1. invertKbuildCondition(a) \in {const("n"), const("y")}
      BY <2>1 DEF invertKbuildCondition
    <3> QED
      BY <3>1, ConstFacts DEF Plain
  <2>2. CASE a.kind # "const"
    BY <2>2 DEF invertKbuildCondition, Condition, Tri
  <2> QED
    BY <2>1, <2>2
<1>3. \A a, b \in Condition : combineKbuildAny(a, b) \in Condition
  BY DEF combineKbuildAny, Condition, Tri
<1>4. \A s \in Symbols : config(s) \in Condition /\ config(s).kind = "test"
  BY DEF config, Condition, Configs
<1> QED
  BY <1>1, <1>2, <1>3, <1>4

\* The terms of an else-if branch: their conjunction.
LEMMA BranchFacts ==
  ASSUME NEW f \in kbuildConditionalFrame, NEW r \in Result
  PROVE  LET d == combineKbuildConditions(branchTerms(f, r))
         IN /\ d \in Condition /\ ~ isEmpty(d)
            /\ /\ Plain(f.previousCondition)
               /\ r.hasCondition => Plain(r.condition) /\ ~ isEmpty(r.condition)
               => /\ Plain(d)
                  /\ (\E i \in 1 .. 2 : ~ isEmpty(branchTerms(f, r)[i])) <=>
                       f.hasPreviousCondition \/ (~ r.known /\ r.hasCondition)
                  /\ \A c \in Configs : Enabled(d, c) <=>
                       /\ f.hasPreviousCondition => ~ Enabled(f.previousCondition, c)
                       /\ ~ r.known /\ r.hasCondition => Enabled(r.condition, c)
<1> DEFINE i1 == invertKbuildCondition(f.previousCondition)
           p == f.hasPreviousCondition
           q == ~ r.known /\ r.hasCondition
           a == IF p THEN i1 ELSE noCondition
           b == IF q THEN r.condition ELSE noCondition
           cs == branchTerms(f, r)
           d == combineKbuildConditions(cs)
<1>0. isEmpty(noCondition)
  BY DEF noCondition, isEmpty
<1>1. a \in Condition /\ b \in Condition
  BY ConditionTypes DEF kbuildConditionalFrame, Result
<1>2. cs = <<a, b>>
  BY DEF branchTerms
<1> HIDE DEF a, b
<1>3. cs \in [1 .. 2 -> Condition] /\ cs[1] = a /\ cs[2] = b
  BY <1>1, <1>2
<1> HIDE DEF cs
<1>4. /\ d \in Condition /\ ~ isEmpty(d)
      /\ \A c \in Configs : Enabled(d, c) <=>
            \A i \in 1 .. 2 : isEmpty(cs[i]) \/ Enabled(cs[i], c)
      /\ (\A i \in 1 .. 2 : Plain(cs[i])) => Plain(d)
  BY <1>3, CombineFacts
<1> HIDE DEF d
<1>5. ASSUME Plain(f.previousCondition),
             r.hasCondition => Plain(r.condition) /\ ~ isEmpty(r.condition)
      PROVE  /\ Plain(d)
             /\ (\E i \in 1 .. 2 : ~ isEmpty(cs[i])) <=> p \/ q
             /\ \A c \in Configs : Enabled(d, c) <=>
                  /\ p => ~ Enabled(f.previousCondition, c)
                  /\ q => Enabled(r.condition, c)
  <2>1. /\ Plain(i1) /\ ~ isEmpty(i1)
        /\ \A c \in Configs : Enabled(i1, c) <=> ~ Enabled(f.previousCondition, c)
    BY <1>5, InvertFacts
  <2> HIDE DEF i1
  <2>2. /\ Plain(a) /\ (isEmpty(a) <=> ~ p)
        /\ \A c \in Configs : p => (Enabled(a, c) <=> ~ Enabled(f.previousCondition, c))
    BY <1>0, <2>1, ConstFacts DEF a
  <2>3. /\ Plain(b) /\ (isEmpty(b) <=> ~ q)
        /\ \A c \in Configs : q => (Enabled(b, c) <=> Enabled(r.condition, c))
    BY <1>0, <1>5, ConstFacts DEF b
  <2>4. Plain(d)
    BY <1>3, <1>4, <2>2, <2>3
  <2>5. (\E i \in 1 .. 2 : ~ isEmpty(cs[i])) <=> p \/ q
    BY <1>3, <2>2, <2>3
  <2>6. \A c \in Configs : Enabled(d, c) <=>
           (isEmpty(a) \/ Enabled(a, c)) /\ (isEmpty(b) \/ Enabled(b, c))
    BY <1>3, <1>4
  <2> HIDE DEF p, q
  <2> QED
    BY <2>2, <2>3, <2>4, <2>5, <2>6
<1> QED
  BY <1>4, <1>5 DEF d, cs

\* The lines that change a frame keep it a frame.
LEMMA FrameTypes ==
  ASSUME NEW f \in kbuildConditionalFrame, NEW r \in Result
  PROVE  /\ off(f) \in kbuildConditionalFrame
         /\ freshBranch(f, r) \in kbuildConditionalFrame
         /\ maybeBranch(f, r) \in kbuildConditionalFrame
         /\ elseIfFrame(f, r) \in kbuildConditionalFrame
         /\ elseFrame(f) \in kbuildConditionalFrame
<1>1. off(f) \in kbuildConditionalFrame
  BY ConditionTypes DEF off, kbuildConditionalFrame
<1>2. freshBranch(f, r) \in kbuildConditionalFrame
  <2> DEFINE k == r.known
             kv == r.known /\ r.value
             a == ~ r.known \/ r.value
             da == f.parentDefinitelyActive /\ r.known /\ r.value
             h == ~ r.known /\ r.hasCondition
             c == r.condition
  <2>1. /\ k \in BOOLEAN /\ kv \in BOOLEAN /\ a \in BOOLEAN /\ da \in BOOLEAN
        /\ h \in BOOLEAN /\ c \in Condition
    BY DEF Result, kbuildConditionalFrame
  <2>2. freshBranch(f, r) =
          [f EXCEPT !.previousKnown = k, !.previousTaken = kv, !.active = a,
                    !.definitelyActive = da, !.condition = c, !.hasCondition = h,
                    !.previousCondition = c, !.hasPreviousCondition = h]
    BY DEF freshBranch
  <2> HIDE DEF k, kv, a, da, h, c
  <2> QED
    BY <2>1, <2>2 DEF kbuildConditionalFrame
<1>3. maybeBranch(f, r) \in kbuildConditionalFrame
  <2> DEFINE d == combineKbuildConditions(branchTerms(f, r))
             e == combineKbuildAny(f.previousCondition, d)
             b == \E i \in 1 .. 2 : ~ isEmpty(branchTerms(f, r)[i])
  <2>1. d \in Condition
    BY BranchFacts
  <2> HIDE DEF d
  <2>2. e \in Condition /\ b \in BOOLEAN
    BY <2>1, ConditionTypes DEF kbuildConditionalFrame
  <2> HIDE DEF e, b
  <2>3. maybeBranch(f, r) =
          [f EXCEPT !.condition = d, !.hasCondition = b, !.active = TRUE,
                    !.definitelyActive = FALSE, !.previousCondition = e,
                    !.hasPreviousCondition = TRUE]
    BY DEF maybeBranch, d, e, b
  <2> QED
    BY <2>1, <2>2, <2>3 DEF kbuildConditionalFrame
<1>4. elseIfFrame(f, r) \in kbuildConditionalFrame
  BY <1>1, <1>2, <1>3 DEF elseIfFrame
<1>5. elseFrame(f) \in kbuildConditionalFrame
  <2>1. noCondition \in Condition /\ invertKbuildCondition(f.previousCondition) \in Condition
    BY ConditionTypes DEF kbuildConditionalFrame
  <2>2. /\ f.parentActive \in BOOLEAN /\ f.previousKnown \in BOOLEAN
        /\ f.previousTaken \in BOOLEAN /\ f.hasPreviousCondition \in BOOLEAN
    BY DEF kbuildConditionalFrame
  <2>3. CASE ~ f.parentActive
    BY <2>3 DEF elseFrame, kbuildConditionalFrame
  <2>4. CASE f.parentActive /\ ~ f.previousKnown /\ f.hasPreviousCondition
    BY <2>1, <2>4 DEF elseFrame, kbuildConditionalFrame
  <2>5. CASE f.parentActive /\ ~ f.previousKnown /\ ~ f.hasPreviousCondition
    BY <2>1, <2>5 DEF elseFrame, kbuildConditionalFrame
  <2>6. CASE f.parentActive /\ f.previousKnown /\ f.previousTaken
    BY <2>1, <2>6 DEF elseFrame, kbuildConditionalFrame
  <2>7. CASE f.parentActive /\ f.previousKnown /\ ~ f.previousTaken
    BY <2>1, <2>7 DEF elseFrame, kbuildConditionalFrame
  <2> QED
    BY <2>2, <2>3, <2>4, <2>5, <2>6, <2>7
<1> QED
  BY <1>1, <1>2, <1>3, <1>4, <1>5

\* There are results.
LEMMA PickResult == unknown \in Result
BY ConditionTypes DEF unknown, Result

\* else keeps what the frame knows of the lines around it.
LEMMA ElseParents ==
  ASSUME NEW f \in kbuildConditionalFrame
  PROVE  /\ elseFrame(f).parentActive = f.parentActive
         /\ elseFrame(f).parentDefinitelyActive = f.parentDefinitelyActive
<1>1. /\ f.parentActive \in BOOLEAN /\ f.previousKnown \in BOOLEAN
      /\ f.previousTaken \in BOOLEAN /\ f.hasPreviousCondition \in BOOLEAN
  BY DEF kbuildConditionalFrame
<1>2. CASE ~ f.parentActive
  BY <1>2 DEF elseFrame, kbuildConditionalFrame
<1>3. CASE f.parentActive /\ ~ f.previousKnown /\ f.hasPreviousCondition
  BY <1>3 DEF elseFrame, kbuildConditionalFrame
<1>4. CASE f.parentActive /\ ~ f.previousKnown /\ ~ f.hasPreviousCondition
  BY <1>4 DEF elseFrame, kbuildConditionalFrame
<1>5. CASE f.parentActive /\ f.previousKnown /\ f.previousTaken
  BY <1>5 DEF elseFrame, kbuildConditionalFrame
<1>6. CASE f.parentActive /\ f.previousKnown /\ ~ f.previousTaken
  BY <1>6 DEF elseFrame, kbuildConditionalFrame
<1> QED
  BY <1>1, <1>2, <1>3, <1>4, <1>5, <1>6

\* So does else if.
LEMMA ElseIfParents ==
  ASSUME NEW f \in kbuildConditionalFrame, NEW r \in Result
  PROVE  /\ elseIfFrame(f, r).parentActive = f.parentActive
         /\ elseIfFrame(f, r).parentDefinitelyActive = f.parentDefinitelyActive
<1>1. off(f).parentActive = f.parentActive
      /\ off(f).parentDefinitelyActive = f.parentDefinitelyActive
  BY DEF off, kbuildConditionalFrame
<1>2. freshBranch(f, r).parentActive = f.parentActive
      /\ freshBranch(f, r).parentDefinitelyActive = f.parentDefinitelyActive
  BY DEF freshBranch, kbuildConditionalFrame
<1>3. maybeBranch(f, r).parentActive = f.parentActive
      /\ maybeBranch(f, r).parentDefinitelyActive = f.parentDefinitelyActive
  BY DEF maybeBranch, kbuildConditionalFrame
<1> QED
  BY <1>1, <1>2, <1>3 DEF elseIfFrame

\* else if
LEMMA ElseIfLocal ==
  ASSUME NEW W \in SUBSET Worlds, NEW f \in kbuildConditionalFrame, NEW m \in MakeFrame,
         Local(W, f, m), ~ f.sawElse,
         NEW H, NEW r \in Result, Decides(W, r, H),
         NEW wrong \in BOOLEAN, ~ wrong => Expresses(W, r, H),
         NEW g, g = elseIfFrame(f, r),
         NEW k, k.parent = m.parent, k.taken = m.taken \cup H,
         k.active = (m.parent \cap H) \ m.taken,
         k.blind = (m.blind \/ opaqueTo(r) \/ wrong),
         k.masked = (m.masked \/ wrong \/ (opaqueTo(r) /\ ~ f.previousKnown))
  PROVE  /\ Local(W, g, k)
         /\ g.parentActive = f.parentActive
         /\ g.parentDefinitelyActive = f.parentDefinitelyActive
<1>0. /\ f.parentActive \in BOOLEAN /\ f.previousKnown \in BOOLEAN
      /\ f.previousTaken \in BOOLEAN /\ f.hasPreviousCondition \in BOOLEAN
      /\ f.parentDefinitelyActive \in BOOLEAN /\ f.sawElse \in BOOLEAN
      /\ r.known \in BOOLEAN /\ r.value \in BOOLEAN /\ r.hasCondition \in BOOLEAN
      /\ m.blind \in BOOLEAN /\ m.masked \in BOOLEAN
  BY DEF kbuildConditionalFrame, Result, MakeFrame
<1>1. m.parent \subseteq W /\ \A w \in m.parent : w.config \in Configs
  BY DEF Local, MakeFrame, Worlds
<1>2. ASSUME g = off(f)
      PROVE  /\ g.active = FALSE /\ g.definitelyActive = FALSE
             /\ g.hasCondition = FALSE /\ g.sawElse = f.sawElse
             /\ g.parentActive = f.parentActive
             /\ g.parentDefinitelyActive = f.parentDefinitelyActive
             /\ g.previousKnown = f.previousKnown
             /\ g.previousTaken = f.previousTaken
             /\ g.previousCondition = f.previousCondition
             /\ g.hasPreviousCondition = f.hasPreviousCondition
  BY <1>2 DEF off, kbuildConditionalFrame
<1>3. CASE ~ f.parentActive
  <2>1. g = off(f)
    BY <1>3 DEF elseIfFrame
  <2>2. m.parent = {}
    BY <1>3 DEF Local
  <2> QED
    BY <1>0, <1>2, <1>3, <2>1, <2>2 DEF Local, opaqueTo
<1>4. CASE f.parentActive /\ ~ f.previousKnown /\ r.known /\ ~ r.value
  <2>0. Previous(W, f, m)
    BY <1>4 DEF Local
  <2>1. g = off(f)
    BY <1>4 DEF elseIfFrame
  <2>2. H = {} /\ ~ opaqueTo(r)
    BY <1>4 DEF Decides, opaqueTo
  <2>3. k.taken = m.taken /\ k.active = {}
    BY <2>2
  <2>4. (k.blind <=> m.blind \/ wrong) /\ (k.masked <=> m.masked \/ wrong)
    BY <2>2
  <2>5. Previous(W, g, k)
    BY <1>0, <1>2, <1>4, <2>0, <2>1, <2>3, <2>4 DEF Previous
  <2> QED
    BY <1>0, <1>2, <1>4, <2>1, <2>3, <2>4, <2>5 DEF Local
<1>5. CASE f.parentActive /\ f.previousKnown /\ f.previousTaken
  <2>1. g = off(f)
    BY <1>5 DEF elseIfFrame
  <2>2. W \subseteq m.taken
    BY <1>5 DEF Local, Previous
  <2>3. k.active = {} /\ W \subseteq k.taken
    BY <1>1, <2>2
  <2>4. Previous(W, g, k)
    BY <1>2, <1>5, <2>1, <2>3 DEF Previous
  <2> QED
    BY <1>0, <1>2, <1>5, <2>1, <2>3, <2>4 DEF Local, opaqueTo
<1>6. CASE f.parentActive /\ f.previousKnown /\ ~ f.previousTaken
  <2>1. g = freshBranch(f, r)
    BY <1>6 DEF elseIfFrame
  <2>2. /\ g.previousKnown = r.known /\ g.previousTaken = (r.known /\ r.value)
        /\ g.active = (~ r.known \/ r.value)
        /\ g.definitelyActive = (f.parentDefinitelyActive /\ r.known /\ r.value)
        /\ g.condition = r.condition /\ g.previousCondition = r.condition
        /\ g.hasCondition = (~ r.known /\ r.hasCondition)
        /\ g.hasPreviousCondition = (~ r.known /\ r.hasCondition)
        /\ g.parentActive = f.parentActive /\ g.sawElse = f.sawElse
        /\ g.parentDefinitelyActive = f.parentDefinitelyActive
    BY <2>1 DEF freshBranch, kbuildConditionalFrame
  <2>3. m.taken = {}
    BY <1>6 DEF Local, Previous
  <2>4. k.taken = H /\ k.active = m.parent \cap H
    BY <2>3
  <2>5. isEmpty(noCondition)
    BY DEF noCondition, isEmpty
  <2>6. Plain(r.condition) /\ (r.hasCondition <=> ~ isEmpty(r.condition))
    BY <1>0, <2>5, ConstFacts DEF Decides
  <2>7. Previous(W, g, k)
    <3>1. CASE r.known
      BY <2>2, <2>4, <3>1 DEF Decides, Previous
    <3>2. CASE ~ r.known /\ r.hasCondition
      BY <1>0, <2>2, <2>4, <2>6, <3>2 DEF Expresses, Previous
    <3>3. CASE ~ r.known /\ ~ r.hasCondition
      BY <1>0, <2>2, <2>4, <2>6, <3>3 DEF Decides, Previous, opaqueTo
    <3> QED
      BY <1>0, <3>1, <3>2, <3>3
  <2>8. ~ k.masked => \A w \in k.active : Passes(g, w)
    BY <1>0, <1>1, <2>2, <2>4 DEF Expresses, Passes
  <2>9. ~ k.blind /\ g.active => \A w \in k.parent : Passes(g, w) => w \in k.active
    <3>1. CASE r.known
      BY <1>0, <1>1, <2>2, <2>4, <3>1 DEF Decides
    <3>2. CASE ~ r.known
      BY <1>0, <1>1, <2>2, <2>4, <3>2 DEF Expresses, Passes, opaqueTo
    <3> QED
      BY <1>0, <3>1, <3>2
  <2>10. (k.active # {} => g.active) /\ (g.definitelyActive => k.active = W)
    BY <1>0, <2>2, <2>4 DEF Decides, Local
  <2>11. k.masked => k.blind
    BY <1>0 DEF Local
  <2> QED
    BY <1>0, <1>1, <1>6, <2>2, <2>4, <2>6, <2>7, <2>8, <2>9, <2>10, <2>11 DEF Local
<1>7. CASE f.parentActive /\ ~ f.previousKnown /\ ~ (r.known /\ ~ r.value)
  <2> DEFINE d == combineKbuildConditions(branchTerms(f, r))
             e == combineKbuildAny(f.previousCondition, d)
             b == \E i \in 1 .. 2 : ~ isEmpty(branchTerms(f, r)[i])
             q == ~ r.known /\ r.hasCondition
  <2>0. Previous(W, f, m)
    BY <1>7 DEF Local
  <2>1. Plain(f.previousCondition)
        /\ (f.hasPreviousCondition <=> ~ isEmpty(f.previousCondition))
        /\ (isEmpty(f.previousCondition) => f.previousCondition = noCondition)
    BY <1>7, <2>0 DEF Previous
  <2>2. r.hasCondition => Plain(r.condition) /\ ~ isEmpty(r.condition)
    BY DEF Decides
  <2>3. /\ Plain(d) /\ ~ isEmpty(d)
        /\ b <=> f.hasPreviousCondition \/ q
        /\ \A c \in Configs : Enabled(d, c) <=>
             /\ f.hasPreviousCondition => ~ Enabled(f.previousCondition, c)
             /\ q => Enabled(r.condition, c)
    BY <2>1, <2>2, BranchFacts
  <2> HIDE DEF d
  <2>4. /\ Plain(e) /\ ~ isEmpty(e)
        /\ \A c \in Configs : Enabled(e, c) <=>
              Enabled(f.previousCondition, c) \/ Enabled(d, c)
    BY <2>1, <2>3, AnyFacts
  <2>5. g = maybeBranch(f, r)
    BY <1>7 DEF elseIfFrame
  <2> HIDE DEF e, b
  <2>6. maybeBranch(f, r) =
          [f EXCEPT !.condition = d, !.hasCondition = b, !.active = TRUE,
                    !.definitelyActive = FALSE, !.previousCondition = e,
                    !.hasPreviousCondition = TRUE]
    BY DEF maybeBranch, d, e, b
  <2>7. /\ g.condition = d /\ g.hasCondition = b /\ g.active = TRUE
        /\ g.definitelyActive = FALSE /\ g.previousCondition = e
        /\ g.hasPreviousCondition = TRUE
        /\ g.previousKnown = f.previousKnown /\ g.sawElse = f.sawElse
        /\ g.parentActive = f.parentActive
        /\ g.parentDefinitelyActive = f.parentDefinitelyActive
    BY <2>5, <2>6 DEF kbuildConditionalFrame
  <2>8. ~ f.hasPreviousCondition =>
           \A c \in Configs : ~ Enabled(f.previousCondition, c)
    BY <2>1, ConstFacts
  <2>9. \A w \in W : w.config \in Configs
    BY DEF Worlds
  <2>10. k.masked => k.blind
    BY <1>0 DEF Local
  <2>11. ASSUME ~ k.masked
         PROVE  /\ ~ m.masked /\ (r.known => H = W) /\ (r.known \/ r.hasCondition)
                /\ r.hasCondition =>
                     \A w \in W : w \in H <=> Enabled(r.condition, w.config)
    BY <1>0, <1>7, <2>11 DEF Decides, Expresses, opaqueTo
  <2>12. ASSUME ~ k.masked, NEW w \in k.active
         PROVE  Enabled(d, w.config)
    <3>1. w \in W /\ w \in H /\ w \notin m.taken
      BY <1>1
    <3>2. f.hasPreviousCondition => ~ Enabled(f.previousCondition, w.config)
      BY <1>7, <2>0, <2>11, <2>12, <3>1 DEF Previous
    <3>3. q => Enabled(r.condition, w.config)
      BY <2>11, <2>12, <3>1
    <3> HIDE DEF q
    <3> QED
      BY <2>3, <2>9, <3>1, <3>2, <3>3
  <2>13. ASSUME ~ k.masked, NEW w \in W, Enabled(e, w.config)
         PROVE  w \in k.taken
    <3>1. w.config \in Configs
      BY <2>9
    <3>2. CASE Enabled(f.previousCondition, w.config)
      BY <1>7, <2>0, <2>8, <2>11, <2>13, <3>1, <3>2 DEF Previous
    <3>3. CASE Enabled(d, w.config)
      BY <2>3, <2>11, <2>13, <3>1, <3>3
    <3> QED
      BY <2>4, <2>13, <3>1, <3>2, <3>3
  <2>14. ASSUME ~ k.blind
         PROVE  /\ ~ k.masked /\ ~ m.blind /\ f.hasPreviousCondition
                /\ \A w \in W : w \in m.taken => Enabled(f.previousCondition, w.config)
    BY <1>0, <1>7, <2>0, <2>10, <2>14 DEF Previous
  <2>15. ASSUME ~ k.blind, NEW w \in k.parent, Passes(g, w)
         PROVE  w \in k.active
    <3>1. w \in W /\ w.config \in Configs /\ Enabled(d, w.config)
      BY <1>1, <2>3, <2>7, <2>14, <2>15 DEF Passes
    <3>2. ~ Enabled(f.previousCondition, w.config) /\ (q => Enabled(r.condition, w.config))
      BY <2>3, <2>14, <2>15, <3>1
    <3>3. w \notin m.taken
      BY <2>14, <2>15, <3>1, <3>2
    <3>4. w \in H
      BY <1>0, <2>11, <2>14, <2>15, <3>1, <3>2
    <3> QED
      BY <3>3, <3>4, <2>15
  <2>16. ASSUME ~ k.blind, NEW w \in W, w \in k.taken
         PROVE  Enabled(e, w.config)
    <3>1. w.config \in Configs
      BY <2>9
    <3>2. CASE Enabled(f.previousCondition, w.config)
      BY <2>4, <3>1, <3>2
    <3>3. CASE ~ Enabled(f.previousCondition, w.config)
      <4>1. w \in H
        BY <2>14, <2>16, <3>3
      <4>2. q => Enabled(r.condition, w.config)
        BY <2>11, <2>14, <2>16, <4>1
      <4> HIDE DEF q
      <4>3. Enabled(d, w.config)
        BY <2>3, <3>1, <3>3, <4>2
      <4> QED
        BY <2>4, <3>1, <4>3
    <3> QED
      BY <3>2, <3>3
  <2>17. Previous(W, g, k)
    BY <1>7, <2>4, <2>7, <2>13, <2>16 DEF Previous
  <2>18. ~ k.masked => \A w \in k.active : Passes(g, w)
    BY <2>7, <2>12 DEF Passes
  <2>19. k.active \subseteq k.parent /\ k.parent \subseteq W
    BY <1>1
  <2> HIDE DEF q
  <2> QED
    BY <1>0, <1>7, <2>3, <2>7, <2>10, <2>15, <2>17, <2>18, <2>19 DEF Local
<1> QED
  BY <1>0, <1>3, <1>4, <1>5, <1>6, <1>7

-----------------------------------------------------------------------------
(***************************************************************************)
(* States.                                                                 *)
(***************************************************************************)

\* As long as the variables have agreed, so do the stacks.
Agree ==
  ~ drifted => /\ \A w \in worlds : makeVars[w] = vars
               /\ Stack(worlds, conds, make, Len(conds))

\* What the last line recorded is what the stacks give for some left-hand side.
Recorded ==
  /\ wanted = <<>> => objects = <<>>
  /\ wanted # <<>> =>
       \E cond \in lhsConditions :
          /\ objects = IF active THEN <<withActiveCondition(cond)>> ELSE <<>>
          /\ wanted = <<[w \in Worlds |->
                IF w \in makeActive THEN cond.mode[w.config] ELSE "n"]>>

\* An error was raised on a line the parser takes to be certain.
Errored == status = "error" => definitelyActive

IInv == /\ TypeOK /\ OneConfig /\ Len(make) = Len(conds)
        /\ Agree /\ Recorded /\ Errored

\* The result of a test.
LEMMA EvalTypes ==
  ASSUME TypeOK, NEW t \in Tests
  PROVE  evalConditional(t) \in Result
<1>1. \A v \in BOOLEAN : known(v) \in Result
  BY ConditionTypes DEF known, Result
<1>2. unknown \in Result
  BY ConditionTypes DEF unknown, Result
<1>3. \A a \in Condition : upTo(a) \in Result
  BY DEF upTo, Result
<1>4. t.of \in {"opaque", "config", "variable"}
  BY KbuildAssumption
<1>5. CASE t.of = "opaque"
  BY <1>2, <1>5 DEF evalConditional
<1>6. CASE t.of = "config"
  <2>1. t.name \in Symbols
    BY <1>6, KbuildAssumption
  <2>2. \A v : configEq(t.name, v) \in Condition /\ configNe(t.name, v) \in Condition
    BY <2>1, ComparisonFacts DEF Plain
  <2>3. evalCompareConfig(t) \in Result
    <3>1. makeConfigComparisonCondition(t) \in Condition
      BY <2>2 DEF makeConfigComparisonCondition
    <3> QED
      BY <1>1, <1>2, <1>3, <3>1 DEF evalCompareConfig
  <2>4. evalDefinedConfig(t) \in Result
    <3>1. invertKbuildCondition(configNe(t.name, "n")) \in Condition
      BY <2>2, ConditionTypes
    <3> QED
      BY <1>1, <1>3, <2>2, <3>1 DEF evalDefinedConfig
  <2> QED
    BY <1>6, <2>3, <2>4 DEF evalConditional
<1>7. CASE t.of = "variable"
  <2>1. evalCompareVariable(t) \in Result
    BY <1>1, <1>2 DEF evalCompareVariable
  <2>2. evalDefinedVariable(t) \in Result
    BY <1>1 DEF evalDefinedVariable
  <2> QED
    BY <1>7, <2>1, <2>2 DEF evalConditional
<1> QED
  BY <1>4, <1>5, <1>6, <1>7

\* make's active worlds.
LEMMA MakeActiveFacts ==
  ASSUME TypeOK, Len(make) = Len(conds)
  PROVE  /\ worlds \subseteq Worlds /\ makeActive \in SUBSET Worlds
         /\ \A t \in Tests : holding(t) \in SUBSET Worlds
         /\ active \in BOOLEAN /\ definitelyActive \in BOOLEAN
         /\ Len(conds) \in Nat /\ Len(make) \in Nat
         /\ Len(conds) > 0 => top \in kbuildConditionalFrame
                              /\ make[Len(make)] \in MakeFrame
<1>1. worlds \subseteq Worlds
  BY DEF worlds
<1>2. Len(conds) \in Nat /\ Len(make) \in Nat
  BY DEF TypeOK
<1>3. Len(conds) > 0 => top \in kbuildConditionalFrame /\ make[Len(make)] \in MakeFrame
  BY <1>2 DEF TypeOK, top
<1>4. makeActive \in SUBSET Worlds
  BY <1>1, <1>2, <1>3 DEF makeActive, MakeFrame
<1>5. \A t \in Tests : holding(t) \in SUBSET Worlds
  BY <1>1 DEF holding
<1>6. active \in BOOLEAN /\ definitelyActive \in BOOLEAN
  BY DEF active, definitelyActive
<1> QED
  BY <1>1, <1>2, <1>3, <1>4, <1>5, <1>6

\* Where the stacks agree: what the parser takes to be inactive make skips, and
\* what it takes to be certain make executes everywhere.
LEMMA ActiveFacts ==
  ASSUME TypeOK, Len(make) = Len(conds), Stack(worlds, conds, make, Len(conds))
  PROVE  /\ makeActive \subseteq worlds
         /\ makeActive # {} => active
         /\ definitelyActive => makeActive = worlds
<1>1. Len(conds) \in Nat
  BY MakeActiveFacts
<1>2. CASE Len(conds) = 0
  BY <1>2 DEF makeActive, active, definitelyActive
<1>3. CASE Len(conds) > 0
  <2>1. Len(conds) \in 1 .. Len(conds)
    BY <1>1, <1>3
  <2>2. Local(worlds, top, make[Len(make)])
    BY <2>1 DEF Stack, Entry, top
  <2>3. makeActive = make[Len(make)].active
    BY <1>3 DEF makeActive
  <2>4. (active <=> top.active) /\ (definitelyActive <=> top.definitelyActive)
    BY <1>1, <1>3 DEF active, definitelyActive
  <2> QED
    BY <2>2, <2>3, <2>4 DEF Local
<1> QED
  BY <1>1, <1>2, <1>3

\* The condition the parser attaches, against the worlds that reach the line.
LEMMA ActiveConditionFacts ==
  ASSUME TypeOK, Len(make) = Len(conds), Stack(worlds, conds, make, Len(conds)),
         active
  PROVE  /\ Plain(activeCondition) /\ ~ isEmpty(activeCondition)
         /\ unmasked => \A w \in makeActive : Enabled(activeCondition, w.config)
         /\ (\A i \in DOMAIN make : ~ make[i].blind) =>
              \A w \in worlds : Enabled(activeCondition, w.config) => w \in makeActive
<1> DEFINE n == Len(conds)
           cs == [i \in DOMAIN conds |->
                    IF conds[i].active /\ conds[i].hasCondition
                    THEN conds[i].condition ELSE noCondition]
<1>1. n \in Nat /\ DOMAIN conds = 1 .. n /\ DOMAIN make = 1 .. n
  BY DEF TypeOK
<1>2. \A i \in 1 .. n : conds[i] \in kbuildConditionalFrame
  BY <1>1 DEF TypeOK
<1>3. \A i \in 1 .. n : Local(worlds, conds[i], make[i])
  BY DEF Stack, Entry
<1>4. isEmpty(noCondition)
  BY DEF noCondition, isEmpty
<1>5. ASSUME NEW i \in 1 .. n
      PROVE  /\ Plain(cs[i])
             /\ isEmpty(cs[i]) <=> ~ (conds[i].active /\ conds[i].hasCondition)
             /\ conds[i].active /\ conds[i].hasCondition => cs[i] = conds[i].condition
  <2>1. Local(worlds, conds[i], make[i])
    BY <1>3
  <2>2. cs[i] = IF conds[i].active /\ conds[i].hasCondition
                THEN conds[i].condition ELSE noCondition
    BY <1>1
  <2> QED
    BY <1>4, <2>1, <2>2, ConstFacts DEF Local
<1>6. cs \in [1 .. n -> Condition]
  BY <1>1, <1>5 DEF Plain
<1>7. activeCondition = combineKbuildConditions(cs)
  BY DEF activeCondition
<1> HIDE DEF cs
<1>8. /\ Plain(activeCondition) /\ ~ isEmpty(activeCondition)
      /\ \A c \in Configs : Enabled(activeCondition, c) <=>
            \A i \in 1 .. n : isEmpty(cs[i]) \/ Enabled(cs[i], c)
  BY <1>1, <1>5, <1>6, <1>7, CombineFacts
<1>9. worlds \subseteq Worlds /\ \A w \in worlds : w.config \in Configs
  BY DEF worlds, Worlds
<1>10. \A i \in 1 .. n : conds[i].active
  <2>1. CASE n = 0
    BY <2>1
  <2>2. CASE n # 0
    <3>1. n \in 1 .. n /\ conds[n].active
      BY <1>1, <2>2 DEF active, top
    <3> QED
      BY <3>1 DEF Stack, Entry
  <2> QED
    BY <2>1, <2>2
<1>11. ASSUME NEW w \in worlds
       PROVE  Enabled(activeCondition, w.config) <=>
                 \A i \in 1 .. n : Passes(conds[i], w)
  <2>1. w.config \in Configs
    BY <1>9
  <2>2. \A i \in 1 .. n : (isEmpty(cs[i]) \/ Enabled(cs[i], w.config)) <=> Passes(conds[i], w)
    BY <1>5, <1>10 DEF Passes
  <2> QED
    BY <1>8, <2>1, <2>2
<1>12. CASE n = 0
  <2>1. makeActive = worlds
    BY <1>12 DEF makeActive
  <2> QED
    BY <1>8, <1>11, <1>12, <2>1
<1>13. CASE n # 0
  <2>1. n \in 1 .. n /\ makeActive = make[n].active /\ conds[n].active
    BY <1>1, <1>10, <1>13 DEF makeActive
  <2>2. Entry(worlds, conds, make, n)
    BY <2>1 DEF Stack
  <2>3. makeActive \subseteq worlds
    BY <2>1, <2>2 DEF Entry, Local
  <2>4. unmasked => \A w \in makeActive : Enabled(activeCondition, w.config)
    BY <1>1, <1>11, <2>1, <2>2, <2>3 DEF Entry, unmasked
  <2>5. (\A i \in DOMAIN make : ~ make[i].blind) =>
          \A w \in worlds : Enabled(activeCondition, w.config) => w \in makeActive
    BY <1>1, <1>11, <2>1, <2>2 DEF Entry
  <2> QED
    BY <1>8, <2>4, <2>5
<1> QED
  BY <1>12, <1>13

-----------------------------------------------------------------------------
(***************************************************************************)
(* Steps.                                                                  *)
(***************************************************************************)

\* The configurations of a parse never change.
LEMMA SameWorlds ==
  ASSUME configs' = configs
  PROVE  worlds' = worlds
BY DEF worlds

\* if
LEMMA PushStep ==
  ASSUME IInv, NEW t \in Tests, pushConditional(t)
  PROVE  IInv'
<1> DEFINE n == Len(conds)
           r == evalConditional(t)
           f == pushedFrame(r)
           m == makeIf(t)
<1>0. /\ TypeOK /\ OneConfig /\ Len(make) = n /\ status = "parsing"
      /\ conds' = Append(conds, f) /\ make' = Append(make, m)
      /\ objects' = <<>> /\ wanted' = <<>>
      /\ vars' = vars /\ status' = status /\ makeVars' = makeVars
      /\ drifted' = drifted /\ complete' = complete /\ configs' = configs
      /\ lines' = lines + 1
  BY DEF IInv, pushConditional, NextLine, NothingRecorded
<1>1. r \in Result
  BY <1>0, EvalTypes
<1>2. /\ n \in Nat /\ Len(make) \in Nat /\ active \in BOOLEAN
      /\ definitelyActive \in BOOLEAN
      /\ worlds \subseteq Worlds /\ makeActive \in SUBSET Worlds
      /\ holding(t) \in SUBSET Worlds
  BY <1>0, MakeActiveFacts
<1>3. f \in kbuildConditionalFrame
  <2> HIDE DEF r
  <2> QED
    BY <1>1, <1>2 DEF pushedFrame, kbuildConditionalFrame, Result
<1>4. m \in MakeFrame
  <2>1. blind(t) \in BOOLEAN /\ misread(t) \in BOOLEAN
    BY DEF blind, misread, opaqueTo
  <2> QED
    BY <1>2, <2>1 DEF makeIf, MakeFrame
<1>5. /\ conds' \in Seq(kbuildConditionalFrame) /\ make' \in Seq(MakeFrame)
      /\ Len(conds') = n + 1 /\ Len(make') = n + 1
      /\ \A i \in 1 .. n : conds'[i] = conds[i] /\ make'[i] = make[i]
      /\ conds'[n + 1] = f /\ make'[n + 1] = m
  <2> HIDE DEF f, m
  <2> QED
    BY <1>0, <1>3, <1>4 DEF TypeOK
<1>6. TypeOK'
  BY <1>0, <1>5 DEF TypeOK
<1>7. worlds' = worlds
  BY <1>0, SameWorlds
<1>8. ASSUME ~ drifted
      PROVE  Stack(worlds, conds', make', n + 1)
  <2>1. Stack(worlds, conds, make, n) /\ \A w \in worlds : makeVars[w] = vars
    BY <1>8 DEF IInv, Agree
  <2>2. Stack(worlds, conds', make', n)
    BY <1>2, <1>5, <2>1, StackBelow
  <2>3. /\ makeActive \in SUBSET worlds /\ (makeActive # {} => active)
        /\ (definitelyActive => makeActive = worlds)
    BY <1>0, <2>1, ActiveFacts
  <2>4. Decides(worlds, r, holding(t)) /\ (~ misread(t) => Expresses(worlds, r, holding(t)))
    BY <1>0, <2>1, EvalFacts DEF TypeOK
  <2>5. misread(t) \in BOOLEAN
    BY DEF misread
  <2>6. Local(worlds, f, m)
    <3>1. /\ f.parentActive = active
          /\ f.parentDefinitelyActive = definitelyActive
          /\ f.previousKnown = r.known /\ f.previousTaken = (r.known /\ r.value)
          /\ f.previousCondition = r.condition /\ f.condition = r.condition
          /\ f.hasPreviousCondition = (~ r.known /\ r.hasCondition)
          /\ f.hasCondition = (~ r.known /\ r.hasCondition)
          /\ f.active = (active /\ (~ r.known \/ r.value))
          /\ f.definitelyActive = (definitelyActive /\ r.known /\ r.value)
          /\ f.sawElse = FALSE
      BY DEF pushedFrame
    <3>2. /\ m.parent = makeActive /\ m.taken = holding(t)
          /\ m.active = makeActive \cap holding(t)
          /\ m.blind = (opaqueTo(r) \/ misread(t)) /\ m.masked = misread(t)
      BY DEF makeIf, blind
    <3> HIDE DEF r, f, m
    <3> QED
      BY <1>1, <1>2, <2>3, <2>4, <2>5, <3>1, <3>2, PushLocal
  <2>7. Linked(worlds, conds', make', n + 1)
    <3>1. f.parentActive = active /\ f.parentDefinitelyActive = definitelyActive
          /\ m.parent = makeActive
      BY DEF pushedFrame, makeIf
    <3>2. CASE n = 0
      <4>1. n + 1 = 1 /\ active /\ definitelyActive /\ makeActive = worlds
        BY <1>0, <3>2 DEF active, definitelyActive, makeActive
      <4> HIDE DEF f, m
      <4> QED
        BY <1>5, <3>1, <4>1 DEF Linked
    <3>3. CASE n # 0
      <4>1. n \in 1 .. n /\ (n + 1) - 1 = n /\ n + 1 # 1
        BY <1>2, <3>3
      <4>2. /\ active <=> conds'[n].active
            /\ definitelyActive <=> conds'[n].definitelyActive
            /\ makeActive = make'[n].active
        BY <1>0, <1>5, <3>3, <4>1 DEF active, definitelyActive, makeActive, top
      <4> HIDE DEF f, m
      <4> QED
        BY <1>5, <3>1, <4>1, <4>2 DEF Linked
    <3> QED
      BY <3>2, <3>3
  <2> HIDE DEF f, m
  <2> QED
    BY <1>2, <1>5, <2>2, <2>6, <2>7, StackTop
<1>9. Agree'
  <2>1. ~ drifted => \A w \in worlds : makeVars[w] = vars
    BY DEF IInv, Agree
  <2>2. Agree' <=> (~ drifted' => /\ \A w \in worlds' : makeVars'[w] = vars'
                                  /\ Stack(worlds', conds', make', Len(conds')))
    BY DEF Agree, Stack, Entry, Linked, Local, Previous, Passes, Plain, Enabled, isEmpty
  <2> QED
    BY <1>0, <1>5, <1>7, <1>8, <2>1, <2>2
<1>10. Recorded' /\ Errored' /\ OneConfig'
  BY <1>0 DEF Recorded, Errored, OneConfig
<1> QED
  BY <1>0, <1>5, <1>6, <1>9, <1>10 DEF IInv

\* A line that replaces the frames of the innermost conditional.
LEMMA BranchStep ==
  ASSUME IInv, NextLine, Len(conds) > 0,
         NEW g \in kbuildConditionalFrame, NEW k \in MakeFrame, Branch(g, k),
         g.parentActive = top.parentActive,
         g.parentDefinitelyActive = top.parentDefinitelyActive,
         k.parent = make[Len(make)].parent,
         ~ drifted => Local(worlds, g, k)
  PROVE  IInv'
<1> DEFINE n == Len(conds)
           j == n - 1
<1>0. /\ TypeOK /\ OneConfig /\ Len(make) = n /\ status = "parsing"
      /\ conds' = [conds EXCEPT ![n] = g] /\ make' = [make EXCEPT ![n] = k]
      /\ objects' = <<>> /\ wanted' = <<>>
      /\ vars' = vars /\ status' = status /\ makeVars' = makeVars
      /\ drifted' = drifted /\ complete' = complete /\ configs' = configs
      /\ lines' = lines + 1
  BY DEF IInv, Branch, NextLine, NothingRecorded
<1>1. n \in Nat /\ n \in 1 .. n /\ j \in Nat /\ j + 1 = n
  BY <1>0 DEF TypeOK
<1>2. /\ conds' \in Seq(kbuildConditionalFrame) /\ make' \in Seq(MakeFrame)
      /\ Len(conds') = n /\ Len(make') = n
      /\ \A i \in 1 .. j : conds'[i] = conds[i] /\ make'[i] = make[i]
      /\ conds'[n] = g /\ make'[n] = k
  BY <1>0, <1>1 DEF TypeOK
<1>3. TypeOK'
  BY <1>0, <1>2 DEF TypeOK
<1>4. worlds' = worlds
  BY <1>0, SameWorlds
<1>5. ASSUME ~ drifted
      PROVE  Stack(worlds, conds', make', n)
  <2>1. Stack(worlds, conds, make, n)
    BY <1>5 DEF IInv, Agree
  <2>2. Stack(worlds, conds, make, j)
    BY <1>1, <2>1 DEF Stack
  <2>3. Stack(worlds, conds', make', j)
    BY <1>1, <1>2, <2>2, StackBelow
  <2>4. Linked(worlds, conds, make, n)
    BY <1>1, <2>1 DEF Stack
  <2>5. Linked(worlds, conds', make', n)
    <3>1. n # 1 => n - 1 \in 1 .. j
      BY <1>1
    <3> QED
      BY <1>0, <1>2, <2>4, <3>1 DEF Linked, top
  <2>6. Local(worlds, conds'[n], make'[n])
    BY <1>2, <1>5
  <2>7. Stack(worlds, conds', make', j + 1)
    BY <1>1, <2>3, <2>5, <2>6, StackTop
  <2> QED
    BY <1>1, <2>7
<1>6. Agree'
  <2>1. ~ drifted => \A w \in worlds : makeVars[w] = vars
    BY DEF IInv, Agree
  <2>2. Agree' <=> (~ drifted' => /\ \A w \in worlds' : makeVars'[w] = vars'
                                  /\ Stack(worlds', conds', make', Len(conds')))
    BY DEF Agree, Stack, Entry, Linked, Local, Previous, Passes, Plain, Enabled, isEmpty
  <2> QED
    BY <1>0, <1>2, <1>4, <1>5, <2>1, <2>2
<1>7. Recorded' /\ Errored' /\ OneConfig'
  BY <1>0 DEF Recorded, Errored, OneConfig
<1> QED
  BY <1>0, <1>2, <1>3, <1>6, <1>7 DEF IInv

\* Where the stacks agree, so do their tops.
LEMMA TopLocal ==
  ASSUME IInv, ~ drifted, Len(conds) > 0
  PROVE  Local(worlds, top, make[Len(make)])
<1>1. Len(conds) \in 1 .. Len(conds) /\ Len(make) = Len(conds)
  BY DEF IInv, TypeOK
<1> QED
  BY <1>1 DEF IInv, Agree, Stack, Entry, top

\* else
LEMMA ElseStep ==
  ASSUME IInv, activateElse
  PROVE  IInv'
<1> DEFINE m == make[Len(make)]
           g == elseFrame(top)
           k == makeElse(m)
<1>0. NextLine /\ Len(conds) > 0 /\ ~ top.sawElse /\ Branch(g, k)
  BY DEF activateElse
<1>1. top \in kbuildConditionalFrame /\ m \in MakeFrame /\ worlds \subseteq Worlds
  BY <1>0, MakeActiveFacts DEF IInv
<1>2. noCondition \in Condition
  BY ConditionTypes
<1>3. g \in kbuildConditionalFrame
  BY <1>1, FrameTypes, PickResult
<1>4. k \in MakeFrame /\ k.parent = m.parent /\ k.active = m.parent \ m.taken
      /\ k.blind = m.blind /\ k.masked = m.masked
  BY <1>1 DEF makeElse, MakeFrame
<1>5. g.parentActive = top.parentActive
      /\ g.parentDefinitelyActive = top.parentDefinitelyActive
  <2>1. /\ top.parentActive \in BOOLEAN /\ top.previousKnown \in BOOLEAN
        /\ top.previousTaken \in BOOLEAN /\ top.hasPreviousCondition \in BOOLEAN
    BY <1>1 DEF kbuildConditionalFrame
  <2> DEFINE f == top
  <2>2. f \in kbuildConditionalFrame
    BY <1>1
  <2> HIDE DEF f
  <2>3. elseFrame(f).parentActive = f.parentActive
        /\ elseFrame(f).parentDefinitelyActive = f.parentDefinitelyActive
    BY <2>2, ElseParents
  <2> QED
    BY <2>3 DEF f
<1>6. ASSUME ~ drifted
      PROVE  Local(worlds, g, k)
  <2>1. Local(worlds, top, m)
    BY <1>0, <1>6, TopLocal
  <2> HIDE DEF g, k, m
  <2> QED
    BY <1>0, <1>1, <1>4, <2>1, ElseLocal DEF g
<1> HIDE DEF g, k
<1> QED
  BY <1>0, <1>3, <1>4, <1>5, <1>6, BranchStep

\* else if
LEMMA ElseIfStep ==
  ASSUME IInv, NEW t \in Tests, activateElseIf(t)
  PROVE  IInv'
<1> DEFINE m == make[Len(make)]
           r == evalConditional(t)
           g == elseIfFrame(top, r)
           k == makeElseIf(m, t)
<1>0. NextLine /\ Len(conds) > 0 /\ ~ top.sawElse /\ Branch(g, k)
  BY DEF activateElseIf
<1>1. top \in kbuildConditionalFrame /\ m \in MakeFrame /\ worlds \in SUBSET Worlds
      /\ holding(t) \in SUBSET Worlds
  BY <1>0, MakeActiveFacts DEF IInv
<1>2. r \in Result
  BY EvalTypes DEF IInv
<1>3. g \in kbuildConditionalFrame
  <2> HIDE DEF r
  <2> QED
    BY <1>1, <1>2, FrameTypes
<1>4. misread(t) \in BOOLEAN /\ opaqueTo(r) \in BOOLEAN
      /\ top.previousKnown \in BOOLEAN
  BY <1>1 DEF misread, opaqueTo, kbuildConditionalFrame
<1>5. /\ k.parent = m.parent /\ k.taken = m.taken \cup holding(t)
      /\ k.active = (m.parent \cap holding(t)) \ m.taken
      /\ k.blind = (m.blind \/ opaqueTo(r) \/ misread(t))
      /\ k.masked = (m.masked \/ misread(t) \/ (opaqueTo(r) /\ ~ top.previousKnown))
  BY DEF makeElseIf, blind
<1>6. k \in MakeFrame
  <2>1. k = [parent |-> k.parent, taken |-> k.taken, active |-> k.active,
             blind |-> k.blind, masked |-> k.masked]
    BY DEF makeElseIf
  <2> HIDE DEF k, r
  <2> QED
    BY <1>1, <1>4, <1>5, <2>1 DEF MakeFrame
<1>7. g.parentActive = top.parentActive
      /\ g.parentDefinitelyActive = top.parentDefinitelyActive
  <2> HIDE DEF r
  <2> QED
    BY <1>1, <1>2, ElseIfParents
<1>8. ASSUME ~ drifted
      PROVE  Local(worlds, g, k)
  <2>1. Local(worlds, top, m)
    BY <1>0, <1>8, TopLocal
  <2>2. Decides(worlds, r, holding(t)) /\ (~ misread(t) => Expresses(worlds, r, holding(t)))
    BY <1>8, EvalFacts DEF IInv, Agree, TypeOK
  <2> HIDE DEF g, k, m, r
  <2> QED
    BY <1>0, <1>1, <1>2, <1>4, <1>5, <2>1, <2>2, ElseIfLocal DEF g
<1> HIDE DEF g, k
<1> QED
  BY <1>0, <1>3, <1>5, <1>6, <1>7, <1>8, BranchStep

\* endif
LEMMA EndifStep ==
  ASSUME IInv, endif
  PROVE  IInv'
<1> DEFINE n == Len(conds)
           j == n - 1
<1>0. /\ TypeOK /\ OneConfig /\ Len(make) = n /\ status = "parsing" /\ n > 0
      /\ conds' = SubSeq(conds, 1, j) /\ make' = SubSeq(make, 1, j)
      /\ objects' = <<>> /\ wanted' = <<>>
      /\ vars' = vars /\ status' = status /\ makeVars' = makeVars
      /\ drifted' = drifted /\ complete' = complete /\ configs' = configs
      /\ lines' = lines + 1
  BY DEF IInv, endif, NextLine, NothingRecorded
<1>1. n \in Nat /\ j \in Nat /\ j + 1 = n
  BY <1>0 DEF TypeOK
<1>2. /\ conds' \in Seq(kbuildConditionalFrame) /\ make' \in Seq(MakeFrame)
      /\ Len(conds') = j /\ Len(make') = j
      /\ \A i \in 1 .. j : conds'[i] = conds[i] /\ make'[i] = make[i]
  BY <1>0, <1>1 DEF TypeOK
<1>3. TypeOK'
  BY <1>0, <1>2 DEF TypeOK
<1>4. worlds' = worlds
  BY <1>0, SameWorlds
<1>5. ASSUME ~ drifted
      PROVE  Stack(worlds, conds', make', j)
  <2>1. Stack(worlds, conds, make, n)
    BY <1>5 DEF IInv, Agree
  <2>2. Stack(worlds, conds, make, j)
    BY <1>1, <2>1 DEF Stack
  <2> QED
    BY <1>1, <1>2, <2>2, StackBelow
<1>6. Agree'
  <2>1. ~ drifted => \A w \in worlds : makeVars[w] = vars
    BY DEF IInv, Agree
  <2>2. Agree' <=> (~ drifted' => /\ \A w \in worlds' : makeVars'[w] = vars'
                                  /\ Stack(worlds', conds', make', Len(conds')))
    BY DEF Agree, Stack, Entry, Linked, Local, Previous, Passes, Plain, Enabled, isEmpty
  <2> QED
    BY <1>0, <1>2, <1>4, <1>5, <2>1, <2>2
<1>7. Recorded' /\ Errored' /\ OneConfig'
  BY <1>0 DEF Recorded, Errored, OneConfig
<1> QED
  BY <1>0, <1>2, <1>3, <1>6, <1>7 DEF IInv

\* A line that leaves both stacks alone.
LEMMA SameStacks ==
  ASSUME IInv, conds' = conds, make' = make, complete' = complete,
         configs' = configs, ~ drifted' => ~ drifted,
         ~ drifted' => \A w \in worlds : makeVars'[w] = vars'
  PROVE  Agree' /\ OneConfig' /\ Len(make') = Len(conds')
<1>1. worlds' = worlds
  BY SameWorlds
<1>2. Agree' <=> (~ drifted' => /\ \A w \in worlds' : makeVars'[w] = vars'
                                /\ Stack(worlds', conds', make', Len(conds')))
  BY DEF Agree, Stack, Entry, Linked, Local, Previous, Passes, Plain, Enabled, isEmpty
<1>3. ~ drifted => Stack(worlds, conds, make, Len(conds))
  BY DEF IInv, Agree
<1>4. Agree'
  BY <1>1, <1>2, <1>3
<1>5. OneConfig'
  BY DEF IInv, OneConfig
<1> QED
  BY <1>4, <1>5 DEF IInv

\* An error, and the lines after which nothing changes but the line count.
LEMMA IdleStep ==
  ASSUME IInv, NextLine, objects' = <<>>, wanted' = <<>>,
         UNCHANGED <<conds, vars, make, makeVars, drifted>>,
         status' \in {"parsing", "malformed", "error"},
         status' = "error" => definitelyActive
  PROVE  IInv'
<1>1. lines' = lines + 1 /\ complete' = complete /\ configs' = configs
  BY DEF NextLine
<1>2. TypeOK'
  BY <1>1 DEF IInv, TypeOK
<1>3. Agree' /\ OneConfig' /\ Len(make') = Len(conds')
  BY <1>1, SameStacks DEF IInv, Agree
<1>4. Recorded'
  BY DEF Recorded
<1>5. definitelyActive' = definitelyActive
  BY DEF definitelyActive, top
<1>6. Errored'
  BY <1>5 DEF Errored
<1> QED
  BY <1>2, <1>3, <1>4, <1>6 DEF IInv

\* An assignment gives a variable words or unsets it.
LEMMA AssignedTypes ==
  ASSUME NEW v \in Seq(Words) \cup {Unset}, NEW x \in Values,
         NEW op \in {"+=", "?=", "=", "undefine"}
  PROVE  assigned(v, op, x) \in Seq(Words) \cup {Unset}
<1>1. x \in Seq(Words)
  BY KbuildAssumption
<1>2. textOf(v) \in Seq(Words)
  BY DEF textOf
<1>3. textOf(v) \o x \in Seq(Words)
  BY <1>1, <1>2
<1> HIDE DEF textOf
<1> QED
  BY <1>1, <1>3 DEF assigned

\* VAR = words
LEMMA AssignStep ==
  ASSUME IInv, NEW name \in Names, NEW op \in {"+=", "?=", "=", "undefine"},
         NEW value \in Values, assign(name, op, value)
  PROVE  IInv'
<1>0. /\ conds' = conds /\ make' = make /\ status' = status
      /\ complete' = complete /\ configs' = configs /\ lines' = lines + 1
      /\ objects' = <<>> /\ wanted' = <<>> /\ status = "parsing"
      /\ drifted' = (drifted \/ \E w \in worlds : makeVars'[w] # vars')
  BY DEF assign, NextLine, NothingRecorded
<1>1. vars' \in [Names -> Seq(Words) \cup {Unset}]
  <2>1. vars \in [Names -> Seq(Words) \cup {Unset}]
    BY DEF IInv, TypeOK
  <2>2. assigned(vars[name], op, value) \in Seq(Words) \cup {Unset}
    BY <2>1, AssignedTypes
  <2> QED
    BY <2>1, <2>2 DEF assign
<1>2. makeVars' \in [Worlds -> [Names -> Seq(Words) \cup {Unset}]]
  <2>1. makeVars \in [Worlds -> [Names -> Seq(Words) \cup {Unset}]]
    BY DEF IInv, TypeOK
  <2>2. \A w \in Worlds : assigned(makeVars[w][name], op, value) \in Seq(Words) \cup {Unset}
    BY <2>1, AssignedTypes
  <2>3. makeVars' = [w \in Worlds |->
                    IF w \in makeActive
                    THEN [makeVars[w] EXCEPT
                            ![name] = assigned(makeVars[w][name], op, value)]
                    ELSE makeVars[w]]
    BY DEF assign
  <2> QED
    BY <2>1, <2>2, <2>3
<1>3. TypeOK'
  BY <1>0, <1>1, <1>2 DEF IInv, TypeOK
<1>4. drifted \in BOOLEAN
  BY DEF IInv, TypeOK
<1>5. Agree' /\ OneConfig' /\ Len(make') = Len(conds')
  BY <1>0, <1>4, SameStacks
<1>6. Recorded' /\ Errored'
  BY <1>0 DEF Recorded, Errored
<1> QED
  BY <1>3, <1>5, <1>6 DEF IInv

\* The condition of a left-hand side.
LEMMA LhsTypes ==
  ASSUME NEW cond \in lhsConditions
  PROVE  cond \in Condition /\ ~ isEmpty(cond)
<1>1. CASE cond \in {const("y"), const("m"), const("-")}
  <2>1. cond.kind = "const"
    BY <1>1 DEF const
  <2> QED
    BY <1>1, <2>1, ConstFacts DEF Plain, isEmpty
<1>2. CASE \E s \in Symbols : cond = config(s)
  BY <1>2, ConditionTypes DEF isEmpty
<1> QED
  BY <1>1, <1>2 DEF lhsConditions

\* The active condition is a condition even where the stacks have parted.
LEMMA ActiveConditionType ==
  ASSUME TypeOK
  PROVE  activeCondition \in Condition
<1> DEFINE cs == [i \in DOMAIN conds |->
                    IF conds[i].active /\ conds[i].hasCondition
                    THEN conds[i].condition ELSE noCondition]
<1>1. Len(conds) \in Nat /\ DOMAIN conds = 1 .. Len(conds)
  BY DEF TypeOK
<1>2. cs \in [1 .. Len(conds) -> Condition]
  <2>1. \A i \in 1 .. Len(conds) : conds[i] \in kbuildConditionalFrame
    BY <1>1 DEF TypeOK
  <2>2. \A i \in 1 .. Len(conds) : conds[i].condition \in Condition
    BY <2>1 DEF kbuildConditionalFrame
  <2> QED
    BY <1>1, <2>2, ConditionTypes
<1> HIDE DEF cs
<1>3. combineKbuildConditions(cs) \in Condition
  BY <1>1, <1>2, CombineFacts
<1> QED
  BY <1>3 DEF activeCondition, cs

\* obj-... += object
LEMMA CollectionStep ==
  ASSUME IInv, NEW cond \in lhsConditions, parseCollectionAssignment(cond)
  PROVE  IInv'
<1> DEFINE wish == [w \in Worlds |->
                      IF w \in makeActive THEN cond.mode[w.config] ELSE "n"]
<1>0. /\ conds' = conds /\ make' = make /\ status' = status /\ status = "parsing"
      /\ complete' = complete /\ configs' = configs /\ lines' = lines + 1
      /\ vars' = vars /\ makeVars' = makeVars /\ drifted' = drifted
      /\ objects' = IF active THEN <<withActiveCondition(cond)>> ELSE <<>>
      /\ wanted' = <<wish>>
  BY DEF parseCollectionAssignment, NextLine
<1>1. cond \in Condition
  BY LhsTypes
<1>2. withActiveCondition(cond) \in Condition
  <2> DEFINE cs == <<activeCondition, cond>>
  <2>1. cs \in [1 .. 2 -> Condition]
    BY <1>1, ActiveConditionType DEF IInv
  <2> HIDE DEF cs
  <2>2. combineKbuildConditions(cs) \in Condition
    BY <2>1, CombineFacts
  <2> QED
    BY <2>2 DEF withActiveCondition, cs
<1>3. wish \in [Worlds -> Tri]
  <2>1. \A w \in Worlds : cond.mode[w.config] \in Tri
    BY <1>1 DEF Condition, Worlds
  <2> QED
    BY <2>1 DEF Tri
<1>4. TypeOK'
  <2> HIDE DEF wish
  <2>1. objects' \in Seq(Condition) /\ wanted' \in Seq([Worlds -> Tri])
    BY <1>0, <1>2, <1>3
  <2> QED
    BY <1>0, <2>1 DEF IInv, TypeOK
<1>5. Agree' /\ OneConfig' /\ Len(make') = Len(conds')
  BY <1>0, SameStacks DEF IInv, Agree
<1>6. active' = active /\ makeActive' = makeActive
      /\ activeCondition' = activeCondition
  <2>1. worlds' = worlds
    BY <1>0, SameWorlds
  <2> QED
    BY <1>0, <2>1 DEF active, top, makeActive, activeCondition
<1>7. Recorded'
  <2>1. objects' = IF active' THEN <<combineKbuildConditions(<<activeCondition', cond>>)>> ELSE <<>>
    BY <1>0, <1>6 DEF withActiveCondition
  <2>2. wanted' = <<[w \in Worlds |->
                   IF w \in makeActive' THEN cond.mode[w.config] ELSE "n"]>>
    BY <1>0, <1>6
  <2>3. wanted' # <<>>
    BY <1>0
  <2> QED
    BY <2>1, <2>2, <2>3 DEF Recorded, withActiveCondition
<1>8. Errored'
  BY <1>0 DEF Errored
<1> QED
  BY <1>4, <1>5, <1>7, <1>8 DEF IInv

\* The invariant holds before the first line.
LEMMA InitIInv == Init => IInv
<1> SUFFICES ASSUME Init PROVE IInv
  OBVIOUS
<1>1. OneConfig /\ configs \in SUBSET Configs /\ configs # {}
  <2>1. Configs # {}
    <3>1. [s \in Symbols |-> "n"] \in Configs
      BY DEF Configs, Tri
    <3> QED
      BY <3>1
  <2> QED
    BY <2>1 DEF Init, OneConfig
<1>2. vars \in [Names -> Seq(Words) \cup {Unset}]
  <2>1. <<>> \in Seq(Words)
    OBVIOUS
  <2> QED
    BY <2>1 DEF Init
<1>3. TypeOK
  <2>1. /\ conds \in Seq(kbuildConditionalFrame) /\ make \in Seq(MakeFrame)
        /\ objects \in Seq(Condition) /\ wanted \in Seq([Worlds -> Tri])
    BY DEF Init
  <2>2. makeVars \in [Worlds -> [Names -> Seq(Words) \cup {Unset}]]
    BY <1>2 DEF Init
  <2>3. complete \in BOOLEAN /\ status = "parsing" /\ lines \in Nat /\ drifted \in BOOLEAN
    BY DEF Init
  <2> QED
    BY <1>1, <1>2, <2>1, <2>2, <2>3 DEF TypeOK
<1>4. Agree
  BY DEF Init, Agree, Stack, worlds
<1>5. Recorded /\ Errored /\ Len(make) = Len(conds)
  BY DEF Init, Recorded, Errored
<1> QED
  BY <1>1, <1>3, <1>4, <1>5 DEF IInv

\* Every line keeps it.
LEMMA NextIInv == IInv /\ [Next]_allVars => IInv'
<1> SUFFICES ASSUME IInv, [Next]_allVars PROVE IInv'
  OBVIOUS
<1>1. ASSUME NEW t \in Tests, pushConditional(t) PROVE IInv'
  BY <1>1, PushStep
<1>2. ASSUME NEW t \in Tests, activateElseIf(t) PROVE IInv'
  BY <1>2, ElseIfStep
<1>3. CASE activateElse
  BY <1>3, ElseStep
<1>4. CASE endif
  BY <1>4, EndifStep
<1>5. CASE malformed
  BY <1>5, IdleStep DEF malformed, Fail, NothingRecorded
<1>6. ASSUME NEW name \in Names, NEW op \in {"+=", "?=", "=", "undefine"},
             NEW value \in Values, assign(name, op, value)
      PROVE  IInv'
  BY <1>6, AssignStep
<1>7. ASSUME NEW cond \in lhsConditions, parseCollectionAssignment(cond) PROVE IInv'
  BY <1>7, CollectionStep
<1>8. CASE evalDiagnostic
  <2>1. NextLine /\ status = "parsing"
    BY <1>8 DEF evalDiagnostic, NextLine
  <2>2. CASE active /\ definitelyActive
    BY <1>8, <2>1, <2>2, IdleStep DEF evalDiagnostic, Fail, NothingRecorded
  <2>3. CASE ~ (active /\ definitelyActive)
    BY <1>8, <2>1, <2>3, IdleStep DEF evalDiagnostic, NothingRecorded
  <2> QED
    BY <2>2, <2>3
<1>9. CASE UNCHANGED allVars
  <2>1. UNCHANGED <<complete, configs, conds, vars, objects, status, lines,
                    make, makeVars, wanted, drifted>>
    BY <1>9 DEF allVars, parserState
  <2>2. TypeOK'
    BY <2>1 DEF IInv, TypeOK
  <2>3. Agree' /\ OneConfig' /\ Len(make') = Len(conds')
    BY <2>1, SameStacks DEF IInv, Agree
  <2>4. active' = active /\ makeActive' = makeActive
        /\ activeCondition' = activeCondition /\ definitelyActive' = definitelyActive
    <3>1. worlds' = worlds
      BY <2>1, SameWorlds
    <3> QED
      BY <2>1, <3>1 DEF active, definitelyActive, top, makeActive, activeCondition
  <2>5. Recorded'
    BY <2>1, <2>4 DEF IInv, Recorded, withActiveCondition
  <2>6. Errored'
    BY <2>1, <2>4 DEF IInv, Errored
  <2> QED
    BY <2>2, <2>3, <2>5, <2>6 DEF IInv
<1>10. CASE done
  BY <1>9, <1>10 DEF done
<1> QED
  BY <1>1, <1>2, <1>3, <1>4, <1>5, <1>6, <1>7, <1>8, <1>9, <1>10 DEF Next

-----------------------------------------------------------------------------
(***************************************************************************)
(* The properties follow from the invariant.                               *)
(***************************************************************************)

\* The invariant holds of every parse.
LEMMA Invariance == Spec => []IInv
BY InitIInv, NextIInv, PTL DEF Spec

\* The record of a line, where the stacks agree.
LEMMA RecordFacts ==
  ASSUME IInv, ~ drifted, wanted # <<>>, NEW w \in worlds
  PROVE  /\ unmasked /\ wanted[1][w] # "n" => recordedMode(w) = wanted[1][w]
         /\ (\A i \in DOMAIN make : ~ make[i].blind) =>
               recordedMode(w) = wanted[1][w]
<1>1. PICK cond \in lhsConditions :
          /\ objects = IF active THEN <<withActiveCondition(cond)>> ELSE <<>>
          /\ wanted = <<[v \in Worlds |->
                IF v \in makeActive THEN cond.mode[v.config] ELSE "n"]>>
  BY DEF IInv, Recorded
<1>2. TypeOK /\ Len(make) = Len(conds) /\ Stack(worlds, conds, make, Len(conds))
  BY DEF IInv, Agree
<1>3. w \in Worlds /\ w.config \in Configs
  BY DEF worlds, Worlds
<1>4. wanted[1][w] = IF w \in makeActive THEN cond.mode[w.config] ELSE "n"
  BY <1>1, <1>3
<1>5. CASE ~ active
  <2>1. makeActive = {}
    BY <1>2, <1>5, ActiveFacts
  <2>2. objects = <<>>
    BY <1>1, <1>5
  <2> QED
    BY <1>4, <2>1, <2>2 DEF recordedMode
<1>6. CASE active
  <2>1. /\ Plain(activeCondition) /\ ~ isEmpty(activeCondition)
        /\ unmasked => \A v \in makeActive : Enabled(activeCondition, v.config)
        /\ (\A i \in DOMAIN make : ~ make[i].blind) =>
              \A v \in worlds : Enabled(activeCondition, v.config) => v \in makeActive
    BY <1>2, <1>6, ActiveConditionFacts
  <2>2. cond \in Condition /\ ~ isEmpty(cond)
    BY LhsTypes
  <2>3. withActiveCondition(cond).mode[w.config]
           = IF Enabled(activeCondition, w.config) THEN cond.mode[w.config] ELSE "n"
    BY <1>3, <2>1, <2>2, WithFacts DEF withActiveCondition
  <2>4. recordedMode(w) = withActiveCondition(cond).mode[w.config]
    <3> DEFINE x == withActiveCondition(cond)
    <3>1. objects = <<x>>
      BY <1>1, <1>6
    <3> HIDE DEF x
    <3>2. objects # <<>> /\ objects[1] = x
      BY <3>1
    <3> QED
      BY <3>2 DEF recordedMode, x
  <2>5. unmasked /\ wanted[1][w] # "n" => recordedMode(w) = wanted[1][w]
    BY <1>4, <2>1, <2>3, <2>4
  <2>6. ASSUME \A i \in DOMAIN make : ~ make[i].blind
        PROVE  recordedMode(w) = wanted[1][w]
    <3>1. unmasked
      <4>1. \A i \in 1 .. Len(conds) : make[i].masked => make[i].blind
        BY <1>2 DEF Stack, Entry, Local
      <4>2. DOMAIN make = 1 .. Len(conds)
        BY <1>2 DEF TypeOK
      <4> QED
        BY <2>6, <4>1, <4>2 DEF unmasked
    <3> QED
      BY <1>4, <2>1, <2>3, <2>4, <2>6, <3>1
  <2> QED
    BY <2>5, <2>6
<1> QED
  BY <1>5, <1>6

\* In every parse of every Makefile, an object whose enclosing tests the parser
\* can express is recorded under exactly make's condition.
THEOREM ConditionsAreExact == Spec => []Exact
<1>1. IInv => Exact
  BY RecordFacts DEF Exact
<1> QED
  BY <1>1, Invariance, PTL

\* ... and no object is lost to the tests it cannot express, except behind an
\* else-if of that kind.
THEOREM ConditionsAreWide == Spec => []NothingLost
<1>1. IInv => NothingLost
  BY RecordFacts DEF NothingLost, sees
<1> QED
  BY <1>1, Invariance, PTL

\* A fatal $(error) is one make would reach in every configuration.
THEOREM FatalErrorsAreCertain == Spec => []ErrorsAreCertain
<1>1. IInv => ErrorsAreCertain
  BY ActiveFacts DEF ErrorsAreCertain, IInv, Agree, Errored
<1> QED
  BY <1>1, Invariance, PTL

\* The parser's variables part from make's only in a branch that is maybe
\* active.
THEOREM DriftIsConfined == Spec => DriftsOnlyInMaybeBranches
<1>1. IInv /\ [Next]_allVars =>
        [~ drifted /\ drifted' => active /\ ~ definitelyActive]_allVars
  <2> SUFFICES ASSUME IInv, Next, ~ drifted, drifted'
               PROVE  active /\ ~ definitelyActive
    OBVIOUS
  <2>1. PICK name \in Names, op \in {"+=", "?=", "=", "undefine"}, value \in Values :
            assign(name, op, value)
    BY DEF Next, pushConditional, activateElseIf, activateElse, Branch, endif,
           malformed, Fail, parseCollectionAssignment, evalDiagnostic, done,
           allVars, parserState
  <2>2. PICK w \in worlds : makeVars'[w] # vars'
    BY <2>1 DEF assign
  <2>3. makeVars[w] = vars /\ w \in Worlds
    BY DEF IInv, Agree, worlds
  <2>4. /\ TypeOK /\ Len(make) = Len(conds)
        /\ Stack(worlds, conds, make, Len(conds))
    BY DEF IInv, Agree
  <2>5. makeVars'[w] = IF w \in makeActive
                       THEN [vars EXCEPT ![name] = assigned(vars[name], op, value)]
                       ELSE vars
    BY <2>1, <2>3 DEF assign
  <2>6. vars' = IF active
                THEN [vars EXCEPT ![name] = assigned(vars[name], op, value)]
                ELSE vars
    BY <2>1 DEF assign
  <2>7. (w \in makeActive) # active
    BY <2>2, <2>5, <2>6, MakeActiveFacts, <2>4
  <2>8. /\ makeActive # {} => active
        /\ definitelyActive => makeActive = worlds
    BY <2>4, ActiveFacts
  <2>9. active \in BOOLEAN
    BY <2>4, MakeActiveFacts
  <2>10. active /\ w \notin makeActive
    BY <2>7, <2>8, <2>9
  <2> QED
    BY <2>2, <2>8, <2>10
<1> QED
  BY <1>1, Invariance, PTL DEF Spec, DriftsOnlyInMaybeBranches

-----------------------------------------------------------------------------
(***************************************************************************)
(* Recursion on something smaller, and loops, have solutions.              *)
(***************************************************************************)

\* A set of numbers has a least element.
LEMMA LeastNumber ==
  ASSUME NEW T, T \subseteq Nat, T # {}
  PROVE  \E m \in T : \A n \in T : m <= n
<1> DEFINE Less == {ss \in Nat \X Nat : ss[1] < ss[2]}
<1>1. IsWellFoundedOn(Less, Nat)
  BY NatLessThanWellFounded DEF OpToRel
<1>2. PICK m \in T : \A n \in T : ~ (<<n, m>> \in Less)
  <2> HIDE DEF Less
  <2> QED
    BY <1>1, WFMin
<1>3. \A n \in T : ~ (n < m)
  BY <1>2
<1> QED
  BY <1>3

\* Induction on the depth of an element.
LEMMA DepthInduction ==
  ASSUME NEW E, NEW depth \in [E -> Nat], NEW P,
         \A y \in E : (\A z \in E : depth[z] < depth[y] => z \in P) => y \in P
  PROVE  E \subseteq P
<1>1. SUFFICES ASSUME E \ P # {}
               PROVE  FALSE
  OBVIOUS
<1> DEFINE T == {depth[y] : y \in E \ P}
<1>2. T \subseteq Nat /\ T # {}
  BY <1>1
<1>3. PICK m \in T : \A n \in T : m <= n
  <2> HIDE DEF T
  <2> QED
    BY <1>2, LeastNumber
<1>4. PICK y \in E \ P : m = depth[y]
  OBVIOUS
<1>5. \A z \in E : depth[z] < depth[y] => z \in P
  <2> SUFFICES ASSUME NEW z \in E, depth[z] < depth[y], z \notin P
               PROVE  FALSE
    OBVIOUS
  <2>1. depth[z] \in T
    OBVIOUS
  <2>2. depth[y] <= depth[z]
    <3> HIDE DEF T
    <3> QED
      BY <1>3, <1>4, <2>1
  <2> QED
    BY <2>2
<1> QED
  BY <1>4, <1>5

\* Numbers closed under successor are all of them.
LEMMA NumberInduction ==
  ASSUME NEW A, 0 \in A, \A n \in Nat : n \in A => n + 1 \in A
  PROVE  \A n \in Nat : n \in A
<1> DEFINE same == [n \in Nat |-> n]
<1>1. ASSUME NEW y \in Nat, \A z \in Nat : same[z] < same[y] => z \in A
      PROVE  y \in A
  <2>1. CASE y = 0
    BY <2>1
  <2>2. CASE y # 0
    <3>1. y - 1 \in Nat /\ same[y - 1] < same[y] /\ (y - 1) + 1 = y
      BY <2>2
    <3> QED
      BY <1>1, <3>1
  <2> QED
    BY <2>1, <2>2
<1>2. same \in [Nat -> Nat]
  OBVIOUS
<1> HIDE DEF same
<1>3. Nat \subseteq A
  BY <1>1, <1>2, DepthInduction
<1> QED
  BY <1>3

\* The value body gives an element depends on shallower elements alone.
Recursive(E, depth, V, body) ==
  /\ depth \in [E -> Nat] /\ body \in [[E -> V] -> [E -> V]] /\ V # {}
  /\ \A f, g \in [E -> V] : \A y \in E :
       (\A z \in E : depth[z] < depth[y] => f[z] = g[z]) => body[f][y] = body[g][y]

\* Some function is what the body makes of it.
Solvable(E, V, body) == \E f \in [E -> V] : f = body[f]

\* A recursion whose body reads shallower elements only has a solution.
LEMMA RecursionSolves ==
  ASSUME NEW E, NEW depth, NEW V, NEW body, Recursive(E, depth, V, body)
  PROVE  Solvable(E, V, body)
<1> DEFINE F == [E -> V]
           Solves(f, n) == \A y \in E : depth[y] < n => f[y] = body[f][y]
           A == {n \in Nat : \E f \in F : Solves(f, n)}
<1> USE DEF Recursive
<1>1. 0 \in A
  <2> PICK some \in V : TRUE
    OBVIOUS
  <2>1. [y \in E |-> some] \in F
    OBVIOUS
  <2>2. Solves([y \in E |-> some], 0)
    OBVIOUS
  <2> HIDE DEF Solves, F
  <2> QED
    BY <2>1, <2>2
<1>2. ASSUME NEW n \in Nat, n \in A
      PROVE  n + 1 \in A
  <2>1. PICK f \in F : Solves(f, n)
    BY <1>2
  <2>2. body[f] \in F
    BY <2>1
  <2>3. ASSUME NEW y \in E, depth[y] < n + 1
        PROVE  body[f][y] = body[body[f]][y]
    <3>1. ASSUME NEW z \in E, depth[z] < depth[y]
          PROVE  f[z] = body[f][z]
      <4>1. depth[z] < n
        BY <2>3, <3>1
      <4> QED
        BY <2>1, <4>1
    <3> QED
      BY <2>1, <2>2, <3>1
  <2>4. Solves(body[f], n + 1)
    BY <2>3
  <2> HIDE DEF Solves, F
  <2> QED
    BY <2>2, <2>4
<1>3. \A n \in Nat : \E f \in F : Solves(f, n)
  <2>1. \A n \in Nat : n \in A
    <3> HIDE DEF A
    <3> QED
      BY <1>1, <1>2, NumberInduction
  <2> QED
    BY <2>1
<1> DEFINE at == [n \in Nat |-> CHOOSE f \in F : Solves(f, n)]
<1>4. \A n \in Nat : at[n] \in F /\ Solves(at[n], n)
  <2> HIDE DEF Solves, F
  <2> QED
    BY <1>3
<1> HIDE DEF at
<1>5. ASSUME NEW n \in Nat, NEW m \in Nat
      PROVE  \A y \in E : depth[y] < n /\ depth[y] < m => at[n][y] = at[m][y]
  <2> DEFINE P == {y \in E : depth[y] < n /\ depth[y] < m => at[n][y] = at[m][y]}
  <2>1. ASSUME NEW y \in E, \A z \in E : depth[z] < depth[y] => z \in P
        PROVE  y \in P
    <3> SUFFICES ASSUME depth[y] < n, depth[y] < m
                 PROVE  at[n][y] = at[m][y]
      OBVIOUS
    <3>1. ASSUME NEW z \in E, depth[z] < depth[y]
          PROVE  at[n][z] = at[m][z]
      <4>1. depth[z] < n /\ depth[z] < m
        BY <3>1
      <4> QED
        BY <2>1, <3>1, <4>1
    <3>2. body[at[n]][y] = body[at[m]][y]
      BY <1>4, <3>1
    <3>3. at[n][y] = body[at[n]][y] /\ at[m][y] = body[at[m]][y]
      BY <1>4
    <3> QED
      BY <3>2, <3>3
  <2>2. E \subseteq P
    <3> HIDE DEF P
    <3> QED
      BY <2>1, DepthInduction
  <2> QED
    BY <2>2
<1> DEFINE h == [y \in E |-> at[depth[y] + 1][y]]
<1>6. h \in F
  <2>1. \A y \in E : depth[y] + 1 \in Nat /\ at[depth[y] + 1] \in F
    BY <1>4
  <2> QED
    BY <2>1
<1>7. ASSUME NEW y \in E
      PROVE  h[y] = body[h][y]
  <2> DEFINE k == at[depth[y] + 1]
  <2>1. depth[y] + 1 \in Nat /\ depth[y] < depth[y] + 1
    OBVIOUS
  <2>2. k \in F /\ k[y] = body[k][y]
    BY <1>4, <2>1
  <2>3. ASSUME NEW z \in E, depth[z] < depth[y]
        PROVE  h[z] = k[z]
    <3>1. depth[z] + 1 \in Nat /\ depth[z] < depth[z] + 1 /\ depth[z] < depth[y] + 1
      BY <2>3
    <3>2. at[depth[z] + 1][z] = at[depth[y] + 1][z]
      BY <1>5, <2>1, <3>1
    <3> QED
      BY <3>2
  <2>4. body[h][y] = body[k][y]
    <3> HIDE DEF h, k
    <3> QED
      BY <1>6, <2>2, <2>3
  <2>5. h[y] = k[y]
    OBVIOUS
  <2> HIDE DEF h, k
  <2> QED
    BY <2>2, <2>4, <2>5
<1>8. h = body[h]
  <2>1. body[h] \in F
    BY <1>6
  <2> HIDE DEF h
  <2> QED
    BY <1>6, <1>7, <2>1
<1> QED
  BY <1>6, <1>8 DEF Solvable

\* One induction over the places of a sequence.
LEMMA PlaceInduction ==
  ASSUME NEW n \in Nat, NEW P, 0 \in P,
         \A k \in 1 .. n : k - 1 \in P => k \in P
  PROVE  \A k \in 0 .. n : k \in P
<1> DEFINE A == {k \in Nat : k <= n => k \in P}
<1>1. ASSUME NEW k \in Nat, k \in A
      PROVE  k + 1 \in A
  <2> SUFFICES ASSUME k + 1 <= n
               PROVE  k + 1 \in P
    OBVIOUS
  <2>1. k \in P
    BY <1>1
  <2>2. k + 1 \in 1 .. n /\ (k + 1) - 1 = k
    OBVIOUS
  <2> QED
    BY <2>1, <2>2
<1>2. 0 \in A
  OBVIOUS
<1>3. \A k \in Nat : k \in A
  <2> HIDE DEF A
  <2> QED
    BY <1>1, <1>2, NumberInduction
<1> QED
  BY <1>3

\* A loop over n elements: every step from the one before it.
LoopStep(n, V, first, step) ==
  n \in Nat /\ first \in V /\ step \in [(1 .. n) \X V -> V]

Loops(n, V, first, step, f) ==
  /\ f \in [0 .. n -> V]
  /\ f = [k \in 0 .. n |-> IF k = 0 THEN first ELSE step[<<k, f[k - 1]>>]]

\* A loop is defined.
LEMMA LoopSolves ==
  ASSUME NEW n, NEW V, NEW first, NEW step, LoopStep(n, V, first, step)
  PROVE  \E f : Loops(n, V, first, step, f)
<1> DEFINE E == 0 .. n
           depth == [k \in E |-> k]
           Loop(f) == [k \in E |-> IF k = 0 THEN first ELSE step[<<k, f[k - 1]>>]]
           body == [f \in [E -> V] |-> Loop(f)]
<1>0. n \in Nat /\ first \in V /\ step \in [(1 .. n) \X V -> V]
  BY DEF LoopStep
<1>1. depth \in [E -> Nat]
  BY <1>0
<1>2. ASSUME NEW f \in [E -> V], NEW k \in E, k # 0
      PROVE  k - 1 \in E /\ depth[k - 1] < depth[k] /\ <<k, f[k - 1]>> \in (1 .. n) \X V
  BY <1>0, <1>2
<1>3. ASSUME NEW f \in [E -> V]
      PROVE  Loop(f) \in [E -> V]
  <2>1. ASSUME NEW k \in E
        PROVE  (IF k = 0 THEN first ELSE step[<<k, f[k - 1]>>]) \in V
    BY <1>0, <1>2
  <2> HIDE DEF E
  <2> QED
    BY <2>1
<1>4. body \in [[E -> V] -> [E -> V]]
  <2> HIDE DEF Loop, E
  <2> QED
    BY <1>3
<1>5. ASSUME NEW f \in [E -> V], NEW g \in [E -> V], NEW k \in E,
             \A z \in E : depth[z] < depth[k] => f[z] = g[z]
      PROVE  body[f][k] = body[g][k]
  <2>1. body[f] = Loop(f) /\ body[g] = Loop(g)
    OBVIOUS
  <2>2. CASE k = 0
    BY <2>1, <2>2
  <2>3. CASE k # 0
    <3>1. f[k - 1] = g[k - 1]
      <4>1. k - 1 \in E /\ depth[k - 1] < depth[k]
        BY <1>2, <2>3
      <4> HIDE DEF E, depth
      <4> QED
        BY <1>5, <4>1
    <3> HIDE DEF body
    <3> QED
      BY <2>1, <3>1
  <2> QED
    BY <2>2, <2>3
<1>6. PICK f \in [E -> V] : f = body[f]
  <2> HIDE DEF E, depth, body
  <2>1. Recursive(E, depth, V, body)
    BY <1>0, <1>1, <1>4, <1>5 DEF Recursive
  <2> QED
    BY <2>1, RecursionSolves DEF Solvable
<1>7. f = Loop(f)
  <2>1. body[f] = Loop(f)
    OBVIOUS
  <2> HIDE DEF Loop, body
  <2> QED
    BY <1>6, <2>1
<1> QED
  BY <1>6, <1>7 DEF Loops


\* r holds the elements of s that are in S.
SelectedFrom(r, s, S, D) ==
  /\ r \in Seq(D) /\ Len(r) <= Len(s)
  /\ \A i \in DOMAIN r : r[i] \in S /\ \E j \in DOMAIN s : r[i] = s[j]
  /\ \A j \in DOMAIN s : s[j] \in S => \E i \in DOMAIN r : r[i] = s[j]

\* elementsIn keeps the elements of s that are in S.
LEMMA ElementsFacts ==
  ASSUME NEW D, NEW s, s \in Seq(D), NEW S
  PROVE  SelectedFrom(elementsIn(s, S), s, S, D)
<1> DEFINE n == Len(s)
           V == Seq(D)
           IsKept(h) == h = [k \in 0 .. n |->
                               IF k = 0 THEN <<>>
                               ELSE IF s[k] \in S THEN Append(h[k - 1], s[k]) ELSE h[k - 1]]
           step == [p \in (1 .. n) \X V |->
                      IF s[p[1]] \in S THEN Append(p[2], s[p[1]]) ELSE p[2]]
           kept == CHOOSE h : IsKept(h)
<1>1. n \in Nat /\ \A k \in 1 .. n : s[k] \in D
  OBVIOUS
<1>2. LoopStep(n, V, <<>>, step)
  <2>1. ASSUME NEW p \in (1 .. n) \X V
        PROVE  (IF s[p[1]] \in S THEN Append(p[2], s[p[1]]) ELSE p[2]) \in V
    <3>1. p[1] \in 1 .. n /\ p[2] \in Seq(D) /\ s[p[1]] \in D
      BY <1>1
    <3> QED
      BY <3>1
  <2>2. <<>> \in V
    OBVIOUS
  <2> HIDE DEF V, n
  <2> QED
    BY <1>1, <2>1, <2>2 DEF LoopStep
<1>3. PICK f : Loops(n, V, <<>>, step, f)
  <2> HIDE DEF n, V, step
  <2> QED
    BY <1>2, LoopSolves
<1>4. IsKept(f)
  <2>1. f \in [0 .. n -> V] /\ f = [k \in 0 .. n |-> IF k = 0 THEN <<>> ELSE step[<<k, f[k - 1]>>]]
    BY <1>3 DEF Loops
  <2>2. ASSUME NEW k \in 0 .. n, k # 0
        PROVE  step[<<k, f[k - 1]>>] = IF s[k] \in S THEN Append(f[k - 1], s[k]) ELSE f[k - 1]
    <3>1. k \in 1 .. n /\ k - 1 \in 0 .. n
      BY <1>1, <2>2
    <3>2. f[k - 1] \in V
      BY <2>1, <3>1
    <3>3. <<k, f[k - 1]>> \in (1 .. n) \X V
      BY <3>1, <3>2
    <3> HIDE DEF V, n
    <3> QED
      BY <3>3
  <2> HIDE DEF step, V, n
  <2> QED
    BY <2>1, <2>2
<1>5. IsKept(kept)
  <2> HIDE DEF IsKept
  <2> QED
    BY <1>4
<1>6. elementsIn(s, S) = kept[n]
  BY DEF elementsIn
<1> HIDE DEF kept
<1>7. /\ kept[0] = <<>>
      /\ \A k \in 1 .. n : kept[k] = IF s[k] \in S THEN Append(kept[k - 1], s[k]) ELSE kept[k - 1]
  <2>1. kept[0] = <<>>
    BY <1>1, <1>5
  <2>2. ASSUME NEW k \in 1 .. n
        PROVE  kept[k] = IF s[k] \in S THEN Append(kept[k - 1], s[k]) ELSE kept[k - 1]
    <3>1. k \in 0 .. n /\ k # 0
      BY <1>1
    <3> QED
      BY <1>5, <3>1
  <2> QED
    BY <2>1, <2>2
<1> DEFINE Good(k) ==
             /\ kept[k] \in Seq(D)
             /\ Len(kept[k]) <= k
             /\ \A i \in DOMAIN kept[k] : kept[k][i] \in S /\ \E j \in 1 .. k : kept[k][i] = s[j]
             /\ \A j \in 1 .. k : s[j] \in S => \E i \in DOMAIN kept[k] : kept[k][i] = s[j]
           P == {k \in 0 .. n : Good(k)}
<1>8. 0 \in P
  <2>1. <<>> \in Seq(D) /\ Len(<<>>) = 0 /\ DOMAIN <<>> = {}
    OBVIOUS
  <2>2. kept[0] = <<>>
    BY <1>7
  <2>3. Good(0)
    BY <2>1, <2>2
  <2> QED
    BY <1>1, <2>3
<1>9. ASSUME NEW k \in 1 .. n, k - 1 \in P
      PROVE  k \in P
  <2>1. /\ k \in Nat /\ k - 1 \in 0 .. n /\ k \in 0 .. n
        /\ \A j \in 1 .. k : j \in 1 .. k - 1 \/ j = k
        /\ \A j \in 1 .. k - 1 : j \in 1 .. k
    BY <1>1
  <2>2. Good(k - 1)
    BY <1>9
  <2>3. CASE s[k] \in S
    <3> DEFINE t == kept[k - 1]
    <3>1. kept[k] = Append(t, s[k]) /\ s[k] \in D
      BY <1>1, <1>7, <2>3
    <3>2. t \in Seq(D) /\ Len(t) <= k - 1 /\ Len(t) \in Nat
      BY <2>2
    <3>3. /\ kept[k] \in Seq(D) /\ Len(kept[k]) = Len(t) + 1
          /\ DOMAIN kept[k] = 1 .. Len(t) + 1 /\ DOMAIN t = 1 .. Len(t)
          /\ \A i \in 1 .. Len(t) : kept[k][i] = t[i]
          /\ kept[k][Len(t) + 1] = s[k]
      <4> HIDE DEF t
      <4> QED
        BY <3>1, <3>2
    <3>4. Len(kept[k]) <= k
      BY <2>1, <3>2, <3>3
    <3>5. ASSUME NEW i \in DOMAIN kept[k]
          PROVE  kept[k][i] \in S /\ \E j \in 1 .. k : kept[k][i] = s[j]
      <4>1. i \in 1 .. Len(t) \/ i = Len(t) + 1
        BY <3>2, <3>3
      <4>2. CASE i \in 1 .. Len(t)
        BY <2>1, <2>2, <3>3, <4>2
      <4>3. CASE i = Len(t) + 1
        BY <2>1, <2>3, <3>3, <4>3
      <4> QED
        BY <4>1, <4>2, <4>3
    <3>6. ASSUME NEW j \in 1 .. k, s[j] \in S
          PROVE  \E i \in DOMAIN kept[k] : kept[k][i] = s[j]
      <4>1. CASE j \in 1 .. k - 1
        <5>1. PICK i \in DOMAIN t : t[i] = s[j]
          BY <2>2, <3>6, <4>1
        <5>2. i \in 1 .. Len(t) /\ i \in DOMAIN kept[k]
          BY <3>2, <3>3, <5>1
        <5> QED
          BY <3>3, <5>1, <5>2
      <4>2. CASE j = k
        <5>1. Len(t) + 1 \in DOMAIN kept[k]
          BY <3>2, <3>3
        <5> QED
          BY <3>3, <4>2, <5>1
      <4> QED
        BY <2>1, <4>1, <4>2
    <3> HIDE DEF t
    <3> QED
      BY <2>1, <3>3, <3>4, <3>5, <3>6
  <2>4. CASE s[k] \notin S
    <3>1. kept[k] = kept[k - 1]
      BY <1>7, <2>4
    <3>2. Len(kept[k]) <= k
      BY <2>1, <2>2, <3>1
    <3>3. ASSUME NEW j \in 1 .. k, s[j] \in S
          PROVE  j \in 1 .. k - 1
      BY <2>1, <2>4, <3>3
    <3>4. /\ \A i \in DOMAIN kept[k] : kept[k][i] \in S /\ \E j \in 1 .. k : kept[k][i] = s[j]
          /\ \A j \in 1 .. k : s[j] \in S => \E i \in DOMAIN kept[k] : kept[k][i] = s[j]
      BY <2>1, <2>2, <3>1, <3>3
    <3> QED
      BY <2>1, <2>2, <3>1, <3>2, <3>4
  <2> QED
    BY <2>3, <2>4
<1>10. n \in P
  <2>1. \A k \in 0 .. n : k \in P
    <3> HIDE DEF P, n
    <3> QED
      BY <1>1, <1>8, <1>9, PlaceInduction
  <2> QED
    BY <1>1, <2>1
<1>11. DOMAIN s = 1 .. n /\ n = Len(s)
  OBVIOUS
<1> QED
  <2>1. Good(n)
    BY <1>10
  <2> DEFINE e == kept[n]
  <2>2. SelectedFrom(e, s, S, D)
    BY <1>11, <2>1 DEF SelectedFrom
  <2>3. elementsIn(s, S) = e
    BY <1>6
  <2> HIDE DEF e, n
  <2> QED
    BY <2>2, <2>3

(***************************************************************************)
(* The algebra of DNFs: clauses are kept or dropped, the meaning stays.    *)
(***************************************************************************)

\* The symbols with a mode, and the comparisons that are flags.
TriSymbols == {s \in TreeSymbols : Type[s] \in TriTypes}
DerivedComparisons == {e \in Expressions : e[1] \in CompareOps /\ derivedComparisonFor(e)}

\* The terms that clauses are made of.
AllTerms ==
  ({"effective"} \X TriSymbols \X (0 .. 2))
    \cup ({"enabled", "disabled"} \X TriSymbols)
    \cup ({"condition"} \X Expressions \X (0 .. 2))
    \cup ({"derived"} \X DerivedComparisons \X {triN, triY})

\* Clauses have finitely many terms; a DNF is a sequence of clauses.
Clauses == {c \in SUBSET AllTerms : IsFiniteSet(c)}
Dnfs == Seq(Clauses)

\* A clause that holds makes every clause with fewer terms hold.
LEMMA FewerTermsHold ==
  ASSUME NEW c, NEW d, NEW v, c \subseteq d, clauseHolds(d, v)
  PROVE  clauseHolds(c, v)
BY DEF clauseHolds

\* appendDNFClause adds its clause, although subsumed clauses go.
LEMMA AppendFacts ==
  ASSUME NEW out \in Dnfs, NEW clause \in Clauses
  PROVE  /\ appendDNFClause(out, clause) \in Dnfs
         /\ Len(appendDNFClause(out, clause)) <= Len(out) + 1
         /\ \A v : satisfied(appendDNFClause(out, clause), v)
                     <=> satisfied(out, v) \/ clauseHolds(clause, v)
<1> DEFINE subsuming == {i \in DOMAIN out : out[i] \subseteq clause}
           staying == {c \in ToSet(out) : ~ clause \subseteq c}
           r == appendDNFClause(out, clause)
<1>1. /\ out \in Seq(Clauses) /\ Len(out) \in Nat /\ DOMAIN out = 1 .. Len(out)
      /\ \A i \in DOMAIN out : out[i] \in Clauses /\ out[i] \in ToSet(out)
  BY DEF Dnfs, ToSet
<1>2. CASE subsuming = {}
  <2> DEFINE k == elementsIn(out, staying)
  <2>1. r = Append(k, clause)
    BY <1>2 DEF appendDNFClause
  <2>2. /\ k \in Seq(Clauses) /\ Len(k) <= Len(out)
        /\ \A i \in DOMAIN k : \E j \in DOMAIN out : k[i] = out[j]
        /\ \A j \in DOMAIN out : out[j] \in staying => \E i \in DOMAIN k : k[i] = out[j]
    <3>1. SelectedFrom(k, out, staying, Clauses)
      <4> HIDE DEF staying
      <4> QED
        BY <1>1, ElementsFacts
    <3> HIDE DEF k
    <3> QED
      BY <3>1 DEF SelectedFrom
  <2> HIDE DEF k, r
  <2>3. /\ r \in Seq(Clauses) /\ Len(r) = Len(k) + 1
        /\ DOMAIN k = 1 .. Len(k) /\ Len(k) \in Nat /\ DOMAIN r = 1 .. Len(k) + 1
        /\ \A i \in 1 .. Len(k) : r[i] = k[i]
        /\ r[Len(k) + 1] = clause
    BY <2>1, <2>2
  <2>4. ASSUME NEW v, satisfied(r, v)
        PROVE  satisfied(out, v) \/ clauseHolds(clause, v)
    <3>1. PICK i \in DOMAIN r : clauseHolds(r[i], v)
      BY <2>4 DEF satisfied
    <3>2. CASE i \in 1 .. Len(k)
      <4>1. PICK j \in DOMAIN out : k[i] = out[j]
        BY <2>2, <2>3, <3>2
      <4> QED
        BY <2>3, <3>1, <3>2, <4>1 DEF satisfied
    <3>3. CASE i = Len(k) + 1
      BY <2>3, <3>1, <3>3
    <3> QED
      BY <2>3, <3>2, <3>3
  <2>5. ASSUME NEW v, satisfied(out, v) \/ clauseHolds(clause, v)
        PROVE  satisfied(r, v)
    <3>1. CASE clauseHolds(clause, v)
      <4>1. Len(k) + 1 \in DOMAIN r
        BY <2>3
      <4> QED
        BY <2>3, <3>1, <4>1 DEF satisfied
    <3>2. CASE ~ clauseHolds(clause, v)
      <4>1. PICK j \in DOMAIN out : clauseHolds(out[j], v)
        BY <2>5, <3>2 DEF satisfied
      <4>2. out[j] \in staying
        BY <1>1, <3>2, <4>1, FewerTermsHold
      <4>3. PICK i \in DOMAIN k : k[i] = out[j]
        BY <2>2, <4>2
      <4>4. i \in DOMAIN r /\ r[i] = out[j]
        BY <2>3, <4>3
      <4> QED
        BY <4>1, <4>4 DEF satisfied
    <3> QED
      BY <3>1, <3>2
  <2> QED
    <3>1. r \in Dnfs
      BY <2>3 DEF Dnfs
    <3>2. Len(r) <= Len(out) + 1
      BY <1>1, <2>2, <2>3
    <3> QED
      BY <2>4, <2>5, <3>1, <3>2 DEF r
<1>3. CASE subsuming # {}
  <2> DEFINE m == Min(subsuming)
             s == SubSeq(out, 1, m - 1)
             front == elementsIn(s, staying)
             f == Len(front)
             rest == SubSeq(out, f + 1, Len(out))
  <2>1. m \in subsuming
    <3>1. subsuming \subseteq Nat
      BY <1>1
    <3>2. \E x \in subsuming : \A y \in subsuming : x <= y
      <4> HIDE DEF subsuming
      <4> QED
        BY <1>3, <3>1, LeastNumber
    <3> QED
      BY <3>2 DEF Min
  <2>2. m \in 1 .. Len(out) /\ out[m] \subseteq clause
    BY <1>1, <2>1
  <2>3. r = front \o rest
    BY <1>3 DEF appendDNFClause
  <2> HIDE DEF m
  <2>4. /\ s \in Seq(Clauses) /\ Len(s) = m - 1 /\ DOMAIN s = 1 .. m - 1
        /\ \A i \in 1 .. m - 1 : s[i] = out[i]
    BY <1>1, <2>2
  <2> HIDE DEF s
  <2>5. /\ front \in Seq(Clauses) /\ Len(front) <= Len(s)
        /\ \A i \in DOMAIN front : \E j \in DOMAIN s : front[i] = s[j]
        /\ \A j \in DOMAIN s : s[j] \in staying => \E i \in DOMAIN front : front[i] = s[j]
    <3>1. SelectedFrom(front, s, staying, Clauses)
      <4> HIDE DEF staying
      <4> QED
        BY <2>4, ElementsFacts
    <3> HIDE DEF front
    <3> QED
      BY <3>1 DEF SelectedFrom
  <2>6. f \in Nat /\ f <= m - 1 /\ DOMAIN front = 1 .. f
    BY <2>4, <2>5
  <2> HIDE DEF front
  <2>7. f + 1 \in 1 .. Len(out) /\ f < Len(out)
    BY <1>1, <2>2, <2>6
  <2> HIDE DEF f
  <2>8. /\ rest \in Seq(Clauses) /\ Len(rest) = Len(out) - f
        /\ \A i \in 1 .. Len(out) - f : rest[i] = out[f + i]
    <3>1. f \in Nat /\ f + 1 \in Nat /\ Len(out) - f \in Nat
      BY <1>1, <2>6, <2>7
    <3>2. \A i \in 1 .. Len(out) - f : (f + 1) + i - 1 = f + i
      BY <3>1
    <3> QED
      BY <1>1, <2>6, <2>7, <3>1, <3>2
  <2> HIDE DEF rest
  <2>9. /\ r \in Seq(Clauses) /\ Len(r) = Len(out) /\ DOMAIN r = 1 .. Len(out)
        /\ \A i \in 1 .. f : r[i] = front[i]
        /\ \A i \in 1 .. Len(out) : i > f => r[i] = out[i]
    <3>1. f = Len(front)
      BY DEF f
    <3>2. /\ r \in Seq(Clauses) /\ Len(r) = f + (Len(out) - f)
          /\ \A i \in 1 .. f + (Len(out) - f) :
               r[i] = IF i <= f THEN front[i] ELSE rest[i - f]
      BY <2>3, <2>5, <2>8, <3>1, ConcatProperties
    <3>3. f + (Len(out) - f) = Len(out) /\ \A i \in 1 .. f : i \in 1 .. Len(out) /\ i <= f
      BY <1>1, <2>6, <2>7
    <3>4. ASSUME NEW i \in 1 .. Len(out), i > f
          PROVE  i - f \in 1 .. Len(out) - f /\ f + (i - f) = i /\ ~ (i <= f)
      BY <1>1, <2>6, <3>4
    <3> HIDE DEF r
    <3> QED
      BY <2>8, <3>2, <3>3, <3>4
  <2>10. m \in DOMAIN r /\ r[m] = out[m]
    BY <1>1, <2>2, <2>6, <2>9
  <2> HIDE DEF r
  <2>11. ASSUME NEW v, satisfied(r, v)
         PROVE  satisfied(out, v)
    <3>1. PICK i \in DOMAIN r : clauseHolds(r[i], v)
      BY <2>11 DEF satisfied
    <3>2. CASE i \in 1 .. f
      <4>1. PICK j \in DOMAIN s : front[i] = s[j]
        BY <2>5, <2>6, <3>2
      <4>2. j \in DOMAIN out /\ r[i] = out[j]
        BY <1>1, <2>2, <2>4, <2>9, <3>2, <4>1
      <4> QED
        BY <3>1, <4>2 DEF satisfied
    <3>3. CASE i > f
      BY <1>1, <2>9, <3>1, <3>3 DEF satisfied
    <3>4. i \in 1 .. f \/ i > f
      BY <1>1, <2>6, <2>9
    <3> QED
      BY <3>2, <3>3, <3>4
  <2>12. ASSUME NEW v, clauseHolds(clause, v)
         PROVE  satisfied(r, v)
    BY <2>2, <2>10, <2>12, FewerTermsHold DEF satisfied
  <2>13. ASSUME NEW v, satisfied(out, v)
         PROVE  satisfied(r, v)
    <3>1. PICK j \in DOMAIN out : clauseHolds(out[j], v)
      BY <2>13 DEF satisfied
    <3>2. CASE j > f
      BY <1>1, <2>9, <3>1, <3>2 DEF satisfied
    <3>3. CASE ~ (j > f) /\ clause \subseteq out[j]
      BY <2>12, <3>1, <3>3, FewerTermsHold
    <3>4. CASE ~ (j > f) /\ ~ clause \subseteq out[j]
      <4>1. j \in DOMAIN s /\ s[j] = out[j]
        BY <1>1, <2>2, <2>4, <2>6, <3>4
      <4>2. s[j] \in staying
        BY <1>1, <3>4, <4>1
      <4>3. PICK i \in DOMAIN front : front[i] = s[j]
        BY <2>5, <4>1, <4>2
      <4>4. i \in DOMAIN r /\ r[i] = out[j]
        BY <1>1, <2>6, <2>7, <2>9, <4>1, <4>3
      <4> QED
        BY <3>1, <4>4 DEF satisfied
    <3> QED
      BY <3>2, <3>3, <3>4
  <2> QED
    <3>1. r \in Dnfs
      BY <2>9 DEF Dnfs
    <3>2. Len(r) <= Len(out) + 1
      BY <1>1, <2>9
    <3> QED
      BY <2>11, <2>12, <2>13, <3>1, <3>2 DEF r
<1> QED
  BY <1>2, <1>3

\* One of the first n clauses holds.
OneHolds(cs, n, v) == \E k \in 1 .. n : cs[k] # <<>> /\ clauseHolds(cs[k][1], v)

\* appendClauses adds every clause, or gives up.
LEMMA AppendClausesFacts ==
  ASSUME NEW out \in Dnfs, NEW cs, cs \in Seq(Seq(Clauses)), NEW cap \in Int
  PROVE  /\ appendClauses(out, cs, cap) \in Seq(Dnfs)
         /\ Len(out) + Len(cs) <= cap => appendClauses(out, cs, cap) # <<>>
         /\ appendClauses(out, cs, cap) # <<>> =>
              \A v : satisfied(appendClauses(out, cs, cap)[1], v)
                       <=> satisfied(out, v) \/ OneHolds(cs, Len(cs), v)
<1> DEFINE n == Len(cs)
           V == Seq(Dnfs)
           next(k, before) ==
             IF before = <<>> \/ cs[k] = <<>> THEN before
             ELSE LET d == appendDNFClause(before[1], cs[k][1])
                  IN IF Len(d) > cap THEN <<>> ELSE <<d>>
           IsAppended(h) == h = [k \in 0 .. n |-> IF k = 0 THEN <<out>> ELSE next(k, h[k - 1])]
           step == [p \in (1 .. n) \X V |-> next(p[1], p[2])]
           appended == CHOOSE h : IsAppended(h)
<1>1. n \in Nat /\ \A k \in 1 .. n : cs[k] \in Seq(Clauses) /\ (cs[k] # <<>> => cs[k][1] \in Clauses)
  OBVIOUS
<1>2. ASSUME NEW k \in 1 .. n, NEW before \in V
      PROVE  next(k, before) \in V
  <2>1. CASE before = <<>> \/ cs[k] = <<>>
    BY <2>1
  <2>2. CASE before # <<>> /\ cs[k] # <<>>
    <3>1. before[1] \in Dnfs /\ cs[k][1] \in Clauses
      BY <1>1, <2>2
    <3>2. appendDNFClause(before[1], cs[k][1]) \in Dnfs
      BY <3>1, AppendFacts
    <3> QED
      BY <2>2, <3>2
  <2> QED
    BY <2>1, <2>2
<1>3. LoopStep(n, V, <<out>>, step)
  <2>1. ASSUME NEW p \in (1 .. n) \X V
        PROVE  next(p[1], p[2]) \in V
    <3>1. p[1] \in 1 .. n /\ p[2] \in V
      OBVIOUS
    <3> HIDE DEF next, n, V
    <3> QED
      BY <1>2, <3>1
  <2>2. <<out>> \in V
    OBVIOUS
  <2> HIDE DEF next, V, n
  <2> QED
    BY <1>1, <2>1, <2>2 DEF LoopStep
<1>4. PICK f : Loops(n, V, <<out>>, step, f)
  <2> HIDE DEF n, V, step
  <2> QED
    BY <1>3, LoopSolves
<1>5. IsAppended(f)
  <2>1. f \in [0 .. n -> V] /\ f = [k \in 0 .. n |-> IF k = 0 THEN <<out>> ELSE step[<<k, f[k - 1]>>]]
    BY <1>4 DEF Loops
  <2>2. ASSUME NEW k \in 0 .. n, k # 0
        PROVE  step[<<k, f[k - 1]>>] = next(k, f[k - 1])
    <3>1. k \in 1 .. n /\ k - 1 \in 0 .. n
      BY <1>1, <2>2
    <3>2. <<k, f[k - 1]>> \in (1 .. n) \X V
      BY <2>1, <3>1
    <3> HIDE DEF V, n, next
    <3> QED
      BY <3>2
  <2> HIDE DEF step, V, n, next
  <2> QED
    BY <2>1, <2>2
<1>6. IsAppended(appended)
  <2> HIDE DEF IsAppended
  <2> QED
    BY <1>5
<1>7. appendClauses(out, cs, cap) = appended[n]
  BY DEF appendClauses
<1> HIDE DEF appended
<1>8. /\ appended[0] = <<out>>
      /\ \A k \in 1 .. n : appended[k] = next(k, appended[k - 1])
  <2>1. appended[0] = <<out>>
    BY <1>1, <1>6
  <2>2. ASSUME NEW k \in 1 .. n
        PROVE  appended[k] = next(k, appended[k - 1])
    <3>1. k \in 0 .. n /\ k # 0
      BY <1>1
    <3> HIDE DEF next
    <3> QED
      BY <1>6, <3>1
  <2> QED
    BY <2>1, <2>2
<1> DEFINE Good(k) ==
             /\ appended[k] \in V
             /\ Len(out) + n <= cap =>
                  appended[k] # <<>> /\ Len(appended[k][1]) <= Len(out) + k
             /\ appended[k] # <<>> =>
                  \A v : satisfied(appended[k][1], v) <=> satisfied(out, v) \/ OneHolds(cs, k, v)
           P == {k \in 0 .. n : Good(k)}
<1>9. 0 \in P
  <2>1. appended[0] = <<out>> /\ <<out>> \in V /\ <<out>> # <<>> /\ <<out>>[1] = out
    BY <1>8
  <2>2. \A v : ~ OneHolds(cs, 0, v)
    BY DEF OneHolds
  <2>3. Len(out) \in Nat
    BY DEF Dnfs
  <2> HIDE DEF V
  <2>4. Good(0)
    BY <2>1, <2>2, <2>3
  <2> QED
    BY <1>1, <2>4
<1>10. ASSUME NEW k \in 1 .. n, k - 1 \in P
       PROVE  k \in P
  <2> DEFINE before == appended[k - 1]
             c == cs[k]
  <2>1. Good(k - 1) /\ k \in Nat /\ k \in 0 .. n
    BY <1>1, <1>10
  <2>2. appended[k] = next(k, before)
    BY <1>8
  <2>3. appended[k] \in V
    <3> HIDE DEF next, V
    <3> QED
      BY <1>2, <2>1, <2>2
  <2>4. \A v : OneHolds(cs, k, v) <=> OneHolds(cs, k - 1, v) \/ (c # <<>> /\ clauseHolds(c[1], v))
    <3>1. /\ \A j \in 1 .. k : j \in 1 .. k - 1 \/ j = k
          /\ \A j \in 1 .. k - 1 : j \in 1 .. k
          /\ k \in 1 .. k
      BY <2>1
    <3> QED
      BY <3>1 DEF OneHolds
  <2>5. CASE before = <<>>
    <3>1. appended[k] = <<>>
      BY <2>2, <2>5
    <3>2. ~ (Len(out) + n <= cap)
      BY <2>1, <2>5
    <3> HIDE DEF V
    <3> QED
      BY <2>1, <2>3, <3>1, <3>2
  <2>6. CASE before # <<>> /\ c = <<>>
    <3>1. appended[k] = before
      BY <2>2, <2>6
    <3>2. Len(out) + n <= cap => Len(before[1]) <= Len(out) + k
      <4>1. before[1] \in Dnfs
        BY <2>1, <2>6
      <4>2. Len(before[1]) \in Nat /\ Len(out) \in Nat
        BY <4>1 DEF Dnfs
      <4> QED
        BY <2>1, <4>2
    <3>3. \A v : satisfied(appended[k][1], v) <=> satisfied(out, v) \/ OneHolds(cs, k, v)
      BY <2>1, <2>4, <2>6, <3>1
    <3> HIDE DEF V, before
    <3> QED
      BY <2>1, <2>3, <2>6, <3>1, <3>2, <3>3
  <2>7. CASE before # <<>> /\ c # <<>>
    <3> DEFINE d == appendDNFClause(before[1], c[1])
    <3>1. before[1] \in Dnfs /\ c[1] \in Clauses
      BY <1>1, <2>1, <2>7
    <3>2. /\ d \in Dnfs /\ Len(d) <= Len(before[1]) + 1
          /\ \A v : satisfied(d, v) <=> satisfied(before[1], v) \/ clauseHolds(c[1], v)
      BY <3>1, AppendFacts
    <3>3. appended[k] = IF Len(d) > cap THEN <<>> ELSE <<d>>
      BY <2>2, <2>7
    <3> HIDE DEF d
    <3>4. Len(before[1]) \in Nat /\ Len(out) \in Nat /\ Len(d) \in Nat
      BY <3>1, <3>2 DEF Dnfs
    <3>5. Len(out) + n <= cap => appended[k] = <<d>> /\ Len(d) <= Len(out) + k
      <4> SUFFICES ASSUME Len(out) + n <= cap
                   PROVE  appended[k] = <<d>> /\ Len(d) <= Len(out) + k
        OBVIOUS
      <4>1. Len(before[1]) <= Len(out) + (k - 1)
        BY <2>1
      <4>2. Len(d) <= Len(out) + k
        BY <2>1, <3>2, <3>4, <4>1
      <4>3. ~ (Len(d) > cap)
        BY <1>1, <2>1, <3>4, <4>2
      <4> QED
        BY <3>3, <4>2, <4>3
    <3>6. appended[k] # <<>> => appended[k] = <<d>>
      BY <3>3
    <3>7. appended[k] = <<d>> =>
            \A v : satisfied(appended[k][1], v) <=> satisfied(out, v) \/ OneHolds(cs, k, v)
      <4> SUFFICES ASSUME appended[k] = <<d>>, NEW v
                   PROVE  satisfied(appended[k][1], v) <=> satisfied(out, v) \/ OneHolds(cs, k, v)
        OBVIOUS
      <4>1. appended[k][1] = d
        OBVIOUS
      <4>2. satisfied(before[1], v) <=> satisfied(out, v) \/ OneHolds(cs, k - 1, v)
        BY <2>1, <2>7
      <4> HIDE DEF before, c
      <4> QED
        BY <2>4, <2>7, <3>2, <4>1, <4>2
    <3>8. <<d>> # <<>> /\ <<d>>[1] = d
      OBVIOUS
    <3> HIDE DEF V
    <3> QED
      BY <2>1, <2>3, <3>5, <3>6, <3>7, <3>8
  <2> QED
    BY <2>5, <2>6, <2>7
<1>11. n \in P
  <2>1. \A k \in 0 .. n : k \in P
    <3> HIDE DEF P, n
    <3> QED
      BY <1>1, <1>9, <1>10, PlaceInduction
  <2> QED
    BY <1>1, <2>1
<1> QED
  <2>1. Good(n) /\ Len(out) \in Nat /\ n = Len(cs)
    BY <1>11 DEF Dnfs
  <2> HIDE DEF n
  <2> QED
    BY <1>1, <1>7, <2>1

\* Contradictory terms never hold together.
LEMMA ContradictionsFail ==
  ASSUME NEW t, NEW u, NEW v, contradicts(t, u), termHolds(t, v)
  PROVE  ~ termHolds(u, v)
<1>1. CASE t[1] \in {"effective", "derived"} /\ u[1] = t[1] /\ t[2] = u[2] /\ t[3] # u[3]
  BY <1>1 DEF termHolds
<1>2. CASE t[1] = "effective" /\ u[1] = "enabled" /\ t[2] = u[2] /\ t[3] = triN
  BY <1>2 DEF termHolds
<1>3. CASE t[1] = "effective" /\ u[1] = "disabled" /\ t[2] = u[2] /\ t[3] # triN
  BY <1>3 DEF termHolds
<1>4. CASE t[1] = "enabled" /\ u[1] = "disabled" /\ t[2] = u[2]
  BY <1>4 DEF termHolds
<1> QED
  BY <1>1, <1>2, <1>3, <1>4 DEF contradicts

\* mergeClauses is the conjunction of two clauses.
LEMMA MergeFacts ==
  ASSUME NEW a \in Clauses, NEW b \in Clauses
  PROVE  /\ mergeClauses(a, b) \in Seq(Clauses)
         /\ \A v : (mergeClauses(a, b) # <<>> /\ clauseHolds(mergeClauses(a, b)[1], v))
                     <=> clauseHolds(a, v) /\ clauseHolds(b, v)
<1>1. a \cup b \in Clauses
  BY FS_Union DEF Clauses
<1>2. CASE \E t, u \in a \cup b : contradicts(t, u)
  <2>1. PICK t \in a \cup b, u \in a \cup b : contradicts(t, u)
    BY <1>2
  <2>2. mergeClauses(a, b) = <<>>
    BY <1>2 DEF mergeClauses
  <2>3. \A v : ~ (clauseHolds(a, v) /\ clauseHolds(b, v))
    BY <2>1, ContradictionsFail DEF clauseHolds
  <2> QED
    BY <2>2, <2>3
<1>3. CASE ~ \E t, u \in a \cup b : contradicts(t, u)
  <2>1. mergeClauses(a, b) = << a \cup b >>
    BY <1>3 DEF mergeClauses
  <2>2. << a \cup b >> # <<>> /\ << a \cup b >>[1] = a \cup b /\ << a \cup b >> \in Seq(Clauses)
    BY <1>1
  <2>3. \A v : clauseHolds(a \cup b, v) <=> clauseHolds(a, v) /\ clauseHolds(b, v)
    BY DEF clauseHolds
  <2> QED
    BY <2>1, <2>2, <2>3
<1> QED
  BY <1>2, <1>3

\* The conjunctions of one clause with the clauses of a DNF.
Row(c, b) == [j \in 1 .. Len(b) |-> mergeClauses(c, b[j])]

\* andDNF adds the clauses of one row, or gives up.
LEMMA RowFacts ==
  ASSUME NEW c \in Clauses, NEW b \in Dnfs
  PROVE  /\ Row(c, b) \in Seq(Seq(Clauses)) /\ Len(Row(c, b)) = Len(b)
         /\ \A v : OneHolds(Row(c, b), Len(b), v) <=> clauseHolds(c, v) /\ satisfied(b, v)
<1>1. Len(b) \in Nat /\ DOMAIN b = 1 .. Len(b) /\ \A j \in 1 .. Len(b) : b[j] \in Clauses
  BY DEF Dnfs
<1>2. \A j \in 1 .. Len(b) : mergeClauses(c, b[j]) \in Seq(Clauses)
  BY <1>1, MergeFacts
<1>3. Row(c, b) \in Seq(Seq(Clauses)) /\ Len(Row(c, b)) = Len(b)
  BY <1>1, <1>2 DEF Row
<1>4. ASSUME NEW v
      PROVE  OneHolds(Row(c, b), Len(b), v) <=> clauseHolds(c, v) /\ satisfied(b, v)
  <2>1. \A j \in 1 .. Len(b) :
          (Row(c, b)[j] # <<>> /\ clauseHolds(Row(c, b)[j][1], v))
            <=> clauseHolds(c, v) /\ clauseHolds(b[j], v)
    BY <1>1, MergeFacts DEF Row
  <2> QED
    BY <1>1, <2>1 DEF OneHolds, satisfied
<1> QED
  BY <1>3, <1>4

\* One of the first n clauses of a DNF holds.
FirstSatisfied(a, n, v) == \E i \in 1 .. n : clauseHolds(a[i], v)

\* andDNF is the conjunction of two DNFs, or gives up.
LEMMA AndFacts ==
  ASSUME NEW a \in Dnfs, NEW b \in Dnfs, limit \in Nat
  PROVE  /\ andDNF(a, b) \in Seq(Dnfs)
         /\ andDNF(a, b) # <<>> =>
              \A v : satisfied(andDNF(a, b)[1], v) <=> satisfied(a, v) /\ satisfied(b, v)
<1> DEFINE n == Len(a)
           V == Seq(Dnfs)
           next(k, before) ==
             IF before = <<>> THEN <<>> ELSE appendClauses(before[1], Row(a[k], b), limit)
           IsAnded(h) == h = [k \in 0 .. n |-> IF k = 0 THEN <<alwaysFalse>> ELSE next(k, h[k - 1])]
           step == [p \in (1 .. n) \X V |-> next(p[1], p[2])]
           anded == CHOOSE h : IsAnded(h)
<1>1. n \in Nat /\ DOMAIN a = 1 .. n /\ \A k \in 1 .. n : a[k] \in Clauses
  BY DEF Dnfs
<1>2. ASSUME NEW k \in 1 .. n, NEW before \in V, before # <<>>
      PROVE  /\ next(k, before) \in V
             /\ next(k, before) # <<>> =>
                  \A v : satisfied(next(k, before)[1], v)
                           <=> satisfied(before[1], v) \/ (clauseHolds(a[k], v) /\ satisfied(b, v))
  <2> DEFINE row == Row(a[k], b)
             r == appendClauses(before[1], row, limit)
  <2>1. before[1] \in Dnfs /\ limit \in Int
    BY <1>2
  <2>2. /\ row \in Seq(Seq(Clauses)) /\ Len(row) = Len(b)
        /\ \A v : OneHolds(row, Len(b), v) <=> clauseHolds(a[k], v) /\ satisfied(b, v)
    BY <1>1, RowFacts
  <2>3. next(k, before) = r
    BY <1>2
  <2> HIDE DEF row
  <2>4. /\ r \in Seq(Dnfs)
        /\ r # <<>> => \A v : satisfied(r[1], v) <=> satisfied(before[1], v) \/ OneHolds(row, Len(row), v)
    BY <2>1, <2>2, AppendClausesFacts
  <2> HIDE DEF r, next
  <2> QED
    BY <2>2, <2>3, <2>4
<1>3. <<alwaysFalse>> \in V /\ <<>> \in V /\ alwaysFalse \in Dnfs
  BY DEF alwaysFalse, Dnfs
<1>4. LoopStep(n, V, <<alwaysFalse>>, step)
  <2>1. ASSUME NEW p \in (1 .. n) \X V
        PROVE  next(p[1], p[2]) \in V
    <3>1. p[1] \in 1 .. n /\ p[2] \in V
      OBVIOUS
    <3>2. CASE p[2] = <<>>
      BY <1>3, <3>2
    <3>3. CASE p[2] # <<>>
      <4> HIDE DEF next, n, V
      <4> QED
        BY <1>2, <3>1, <3>3
    <3> QED
      BY <3>2, <3>3
  <2> HIDE DEF next, V, n
  <2> QED
    BY <1>1, <1>3, <2>1 DEF LoopStep
<1>5. PICK f : Loops(n, V, <<alwaysFalse>>, step, f)
  <2> HIDE DEF n, V, step
  <2> QED
    BY <1>4, LoopSolves
<1>6. IsAnded(f)
  <2>1. /\ f \in [0 .. n -> V]
        /\ f = [k \in 0 .. n |-> IF k = 0 THEN <<alwaysFalse>> ELSE step[<<k, f[k - 1]>>]]
    BY <1>5 DEF Loops
  <2>2. ASSUME NEW k \in 0 .. n, k # 0
        PROVE  step[<<k, f[k - 1]>>] = next(k, f[k - 1])
    <3>1. k \in 1 .. n /\ k - 1 \in 0 .. n
      BY <1>1, <2>2
    <3>2. <<k, f[k - 1]>> \in (1 .. n) \X V
      BY <2>1, <3>1
    <3> HIDE DEF V, n, next
    <3> QED
      BY <3>2
  <2> HIDE DEF step, V, n, next
  <2> QED
    BY <2>1, <2>2
<1>7. IsAnded(anded)
  <2> HIDE DEF IsAnded
  <2> QED
    BY <1>6
<1>8. andDNF(a, b) = anded[n]
  BY DEF andDNF, Row
<1> HIDE DEF anded
<1>9. anded[0] = <<alwaysFalse>> /\ \A k \in 1 .. n : anded[k] = next(k, anded[k - 1])
  <2>1. anded[0] = <<alwaysFalse>>
    BY <1>1, <1>7
  <2>2. ASSUME NEW k \in 1 .. n
        PROVE  anded[k] = next(k, anded[k - 1])
    <3>1. k \in 0 .. n /\ k # 0
      BY <1>1
    <3> HIDE DEF next
    <3> QED
      BY <1>7, <3>1
  <2> QED
    BY <2>1, <2>2
<1> DEFINE Good(k) ==
             /\ anded[k] \in V
             /\ anded[k] # <<>> =>
                  \A v : satisfied(anded[k][1], v) <=> FirstSatisfied(a, k, v) /\ satisfied(b, v)
           P == {k \in 0 .. n : Good(k)}
<1>10. 0 \in P
  <2>1. anded[0] = <<alwaysFalse>> /\ <<alwaysFalse>>[1] = alwaysFalse
    BY <1>9
  <2>2. \A v : ~ FirstSatisfied(a, 0, v)
    BY DEF FirstSatisfied
  <2>3. \A v : ~ satisfied(alwaysFalse, v)
    BY DEF satisfied, alwaysFalse
  <2> HIDE DEF V
  <2>4. Good(0)
    BY <1>3, <2>1, <2>2, <2>3
  <2> QED
    BY <1>1, <2>4
<1>11. ASSUME NEW k \in 1 .. n, k - 1 \in P
       PROVE  k \in P
  <2> DEFINE before == anded[k - 1]
  <2>1. Good(k - 1) /\ k \in Nat /\ k \in 0 .. n
    BY <1>1, <1>11
  <2>2. anded[k] = next(k, before)
    BY <1>9
  <2>3. \A v : FirstSatisfied(a, k, v) <=> FirstSatisfied(a, k - 1, v) \/ clauseHolds(a[k], v)
    <3>1. /\ \A j \in 1 .. k : j \in 1 .. k - 1 \/ j = k
          /\ \A j \in 1 .. k - 1 : j \in 1 .. k
          /\ k \in 1 .. k
      BY <2>1
    <3> QED
      BY <3>1 DEF FirstSatisfied
  <2>4. CASE before = <<>>
    <3>1. anded[k] = <<>>
      BY <2>2, <2>4
    <3> HIDE DEF V
    <3> QED
      BY <1>3, <2>1, <3>1
  <2>5. CASE before # <<>>
    <3>1. /\ anded[k] \in V
          /\ anded[k] # <<>> =>
               \A v : satisfied(anded[k][1], v)
                        <=> satisfied(before[1], v) \/ (clauseHolds(a[k], v) /\ satisfied(b, v))
      <4>1. before \in V
        BY <2>1
      <4> HIDE DEF next, V, before
      <4> QED
        BY <1>2, <2>2, <2>5, <4>1
    <3>2. \A v : satisfied(before[1], v) <=> FirstSatisfied(a, k - 1, v) /\ satisfied(b, v)
      BY <2>1, <2>5
    <3>3. anded[k] # <<>> =>
            \A v : satisfied(anded[k][1], v) <=> FirstSatisfied(a, k, v) /\ satisfied(b, v)
      BY <2>3, <3>1, <3>2
    <3> HIDE DEF V
    <3> QED
      BY <2>1, <3>1, <3>3
  <2> QED
    BY <2>4, <2>5
<1>12. n \in P
  <2>1. \A k \in 0 .. n : k \in P
    <3> HIDE DEF P, n
    <3> QED
      BY <1>1, <1>10, <1>11, PlaceInduction
  <2> QED
    BY <1>1, <2>1
<1> QED
  <2>1. Good(n)
    BY <1>12
  <2>2. \A v : FirstSatisfied(a, n, v) <=> satisfied(a, v)
    BY <1>1 DEF FirstSatisfied, satisfied
  <2> HIDE DEF n
  <2> QED
    BY <1>8, <2>1, <2>2

\* orDNF is the disjunction of two DNFs, or gives up.
LEMMA OrFacts ==
  ASSUME NEW a \in Dnfs, NEW b \in Dnfs, limit \in Nat
  PROVE  /\ orDNF(a, b) \in Seq(Dnfs)
         /\ orDNF(a, b) # <<>> =>
              \A v : satisfied(orDNF(a, b)[1], v) <=> satisfied(a, v) \/ satisfied(b, v)
<1>1. ASSUME NEW d \in Dnfs
      PROVE  /\ clausesOf(d) \in Seq(Seq(Clauses)) /\ Len(clausesOf(d)) = Len(d)
             /\ \A v : OneHolds(clausesOf(d), Len(d), v) <=> satisfied(d, v)
  <2>1. Len(d) \in Nat /\ DOMAIN d = 1 .. Len(d) /\ \A j \in 1 .. Len(d) : d[j] \in Clauses
    BY DEF Dnfs
  <2>2. \A j \in 1 .. Len(d) : <<d[j]>> \in Seq(Clauses) /\ <<d[j]>> # <<>> /\ <<d[j]>>[1] = d[j]
    BY <2>1
  <2>3. clausesOf(d) \in Seq(Seq(Clauses)) /\ Len(clausesOf(d)) = Len(d)
    BY <2>1, <2>2 DEF clausesOf
  <2>4. \A j \in 1 .. Len(d) : clausesOf(d)[j] = <<d[j]>>
    BY DEF clausesOf
  <2>5. \A v : OneHolds(clausesOf(d), Len(d), v) <=> satisfied(d, v)
    BY <2>1, <2>2, <2>4 DEF OneHolds, satisfied
  <2> QED
    BY <2>3, <2>5
<1>2. CASE IsAlwaysTrue(a) \/ IsAlwaysTrue(b)
  <2>1. orDNF(a, b) = <<alwaysTrue>>
    BY <1>2 DEF orDNF
  <2>2. \A v : clauseHolds({}, v)
    BY DEF clauseHolds
  <2>3. \A v : satisfied(alwaysTrue, v) /\ (satisfied(a, v) \/ satisfied(b, v))
    BY <1>2, <2>2 DEF satisfied, alwaysTrue, IsAlwaysTrue
  <2>4. <<alwaysTrue>> \in Seq(Dnfs) /\ <<alwaysTrue>>[1] = alwaysTrue
    BY FS_EmptySet DEF alwaysTrue, Dnfs, Clauses
  <2> QED
    BY <2>1, <2>3, <2>4
<1>3. CASE ~ (IsAlwaysTrue(a) \/ IsAlwaysTrue(b))
  <2> DEFINE first == appendClauses(alwaysFalse, clausesOf(a), Len(a))
             r == appendClauses(first[1], clausesOf(b), limit)
  <2>1. orDNF(a, b) = r
    BY <1>3 DEF orDNF
  <2>2. alwaysFalse \in Dnfs /\ Len(alwaysFalse) = 0 /\ \A v : ~ satisfied(alwaysFalse, v)
    BY DEF alwaysFalse, Dnfs, satisfied
  <2>3. Len(a) \in Nat /\ Len(a) \in Int /\ 0 + Len(a) <= Len(a) /\ limit \in Int
    BY DEF Dnfs
  <2>4. /\ first \in Seq(Dnfs) /\ first # <<>>
        /\ \A v : satisfied(first[1], v) <=> OneHolds(clausesOf(a), Len(a), v)
    BY <1>1, <2>2, <2>3, AppendClausesFacts
  <2>5. first[1] \in Dnfs
    <3> HIDE DEF first
    <3> QED
      BY <2>4
  <2> HIDE DEF first
  <2>6. /\ r \in Seq(Dnfs)
        /\ r # <<>> => \A v : satisfied(r[1], v)
                                <=> satisfied(first[1], v) \/ OneHolds(clausesOf(b), Len(b), v)
    BY <1>1, <2>3, <2>5, AppendClausesFacts
  <2> HIDE DEF r
  <2> QED
    BY <1>1, <2>1, <2>4, <2>6
<1> QED
  BY <1>2, <1>3

(***************************************************************************)
(* Expressions: their values, and the complement of their terms.           *)
(***************************************************************************)

\* How deep an expression is nested, and the expressions nested less.
levels == [e \in Expressions |-> nesting[e]]

Below(e, x) == x \in Expressions /\ levels[x] < levels[e]

\* The operators of two operands.
BinaryOps == {"&&", "||"} \cup CompareOps

\* The operands of an expression are expressions that are nested less.
LEMMA OperandsBelow ==
  /\ levels \in [Expressions -> Nat]
  /\ \A e \in Expressions :
       /\ IsSymbol(e) \/ e[1] = "!" \/ e[1] \in BinaryOps
       /\ e[1] \in {"!"} \cup BinaryOps => ~ IsSymbol(e) /\ Below(e, e[2])
       /\ e[1] \in BinaryOps => e[1] # "!" /\ Below(e, e[3])
<1>1. levels \in [Expressions -> Nat]
  BY ExpressionsAssumption DEF levels
<1>2. ASSUME NEW e \in Expressions
      PROVE  /\ IsSymbol(e) \/ e[1] = "!" \/ e[1] \in BinaryOps
             /\ e[1] \in {"!"} \cup BinaryOps => ~ IsSymbol(e) /\ Below(e, e[2])
             /\ e[1] \in BinaryOps => e[1] # "!" /\ Below(e, e[3])
  <2>1. /\ e[1] \in {"const", "symbol", "!", "&&", "||"} \cup CompareOps
        /\ \A x \in operandsOf(e) : Below(e, x)
    BY ExpressionsAssumption DEF levels, Below
  <2>2. e[1] \in {"!"} \cup BinaryOps => ~ IsSymbol(e)
    BY DEF IsSymbol, BinaryOps, CompareOps
  <2>3. e[1] = "!" => operandsOf(e) = {e[2]}
    BY <2>2 DEF operandsOf
  <2>4. e[1] \in BinaryOps => e[1] # "!" /\ operandsOf(e) = {e[2], e[3]}
    BY <2>2 DEF operandsOf, BinaryOps, CompareOps
  <2> QED
    BY <2>1, <2>2, <2>3, <2>4 DEF IsSymbol, BinaryOps
<1> QED
  BY <1>1, <1>2

\* What an expression is worth given the values of its operands.
valueGiven(f, e, v) ==
  CASE IsSymbol(e) -> IF operand(e, v) \in 0 .. 2 THEN operand(e, v) ELSE triN
    [] e[1] = "!" -> triY - f[e[2]]
    [] e[1] = "&&" -> MinTri(f[e[2]], f[e[3]])
    [] e[1] = "||" -> MaxTri(f[e[2]], f[e[3]])
    [] OTHER ->
         IF derivedComparisonFor(e)
         THEN boolTri(compareTri(operand(e[2], v), operand(e[3], v), e[1]))
         ELSE boolTri(compareTri(f[e[2]], f[e[3]], e[1]))

\* It is a tristate that depends on them alone.
LEMMA ValueGivenFacts ==
  ASSUME NEW e \in Expressions, NEW f, NEW v,
         \A x \in Expressions : Below(e, x) => f[x] \in 0 .. 2
  PROVE  /\ valueGiven(f, e, v) \in 0 .. 2
         /\ \A g : (\A x \in Expressions : Below(e, x) => f[x] = g[x])
                     => valueGiven(f, e, v) = valueGiven(g, e, v)
<1>1. CASE IsSymbol(e)
  <2>1. \A g : valueGiven(g, e, v) = IF operand(e, v) \in 0 .. 2 THEN operand(e, v) ELSE triN
    BY <1>1 DEF valueGiven, IsSymbol
  <2>2. triN \in 0 .. 2
    BY DEF triN
  <2> QED
    BY <2>1, <2>2
<1>2. CASE e[1] = "!"
  <2>1. ~ IsSymbol(e) /\ Below(e, e[2]) /\ e[2] \in Expressions
    BY <1>2, OperandsBelow DEF Below
  <2>2. \A g : valueGiven(g, e, v) = triY - g[e[2]]
    BY <1>2, <2>1 DEF valueGiven
  <2> QED
    BY <2>1, <2>2 DEF triY
<1>3. CASE e[1] \in BinaryOps
  <2>1. /\ ~ IsSymbol(e) /\ e[1] # "!"
        /\ Below(e, e[2]) /\ e[2] \in Expressions /\ Below(e, e[3]) /\ e[3] \in Expressions
    BY <1>3, OperandsBelow DEF Below
  <2>2. f[e[2]] \in 0 .. 2 /\ f[e[3]] \in 0 .. 2
    BY <2>1
  <2>3. CASE e[1] = "&&"
    <3>1. \A g : valueGiven(g, e, v) = MinTri(g[e[2]], g[e[3]])
      BY <2>1, <2>3 DEF valueGiven
    <3> QED
      BY <2>1, <2>2, <3>1 DEF MinTri
  <2>4. CASE e[1] = "||"
    <3>1. \A g : valueGiven(g, e, v) = MaxTri(g[e[2]], g[e[3]])
      BY <2>1, <2>4 DEF valueGiven
    <3> QED
      BY <2>1, <2>2, <3>1 DEF MaxTri
  <2>5. CASE e[1] \notin {"&&", "||"}
    <3>1. \A g : valueGiven(g, e, v) =
                   IF derivedComparisonFor(e)
                   THEN boolTri(compareTri(operand(e[2], v), operand(e[3], v), e[1]))
                   ELSE boolTri(compareTri(g[e[2]], g[e[3]], e[1]))
      BY <2>1, <2>5 DEF valueGiven
    <3>2. \A b : boolTri(b) \in 0 .. 2
      BY DEF boolTri, triY, triN
    <3> QED
      BY <2>1, <3>1, <3>2
  <2> QED
    BY <2>3, <2>4, <2>5
<1> QED
  BY <1>1, <1>2, <1>3, OperandsBelow

\* valueOf is defined, for every expression.
LEMMA ValueFacts ==
  ASSUME NEW v
  PROVE  \A e \in Expressions :
           /\ valueOf(v)[e] \in 0 .. 2
           /\ valueOf(v)[e] = valueGiven(valueOf(v), e, v)
<1> DEFINE E == Expressions
           V == 0 .. 2
           IsValue(h) == h = [e \in E |-> valueGiven(h, e, v)]
           body == [f \in [E -> V] |-> [e \in E |-> valueGiven(f, e, v)]]
           value == CHOOSE h : IsValue(h)
<1>1. ASSUME NEW f \in [E -> V]
      PROVE  [e \in E |-> valueGiven(f, e, v)] \in [E -> V]
  <2>1. \A e \in E : valueGiven(f, e, v) \in V
    BY ValueGivenFacts
  <2> QED
    BY <2>1
<1>2. Recursive(E, levels, V, body)
  <2>1. body \in [[E -> V] -> [E -> V]]
    <3> HIDE DEF V
    <3> QED
      BY <1>1
  <2>2. ASSUME NEW f \in [E -> V], NEW g \in [E -> V], NEW e \in E,
               \A z \in E : levels[z] < levels[e] => f[z] = g[z]
        PROVE  body[f][e] = body[g][e]
    <3>1. valueGiven(f, e, v) = valueGiven(g, e, v)
      BY <2>2, ValueGivenFacts DEF Below
    <3>2. body[f][e] = valueGiven(f, e, v) /\ body[g][e] = valueGiven(g, e, v)
      BY DEF body
    <3> QED
      BY <3>1, <3>2
  <2> HIDE DEF body, V
  <2>3. V # {}
    BY DEF V
  <2> QED
    BY <2>1, <2>2, <2>3, OperandsBelow DEF Recursive
<1>3. PICK f \in [E -> V] : f = body[f]
  <2> HIDE DEF body, V
  <2> QED
    BY <1>2, RecursionSolves DEF Solvable
<1>4. IsValue(f)
  BY <1>3
<1>5. IsValue(value)
  <2> HIDE DEF IsValue
  <2> QED
    BY <1>4
<1>6. valueOf(v) = value
  BY DEF valueOf, valueGiven
<1> HIDE DEF value
<1> DEFINE P == {e \in E : value[e] \in V}
<1>7. ASSUME NEW e \in E, \A z \in E : levels[z] < levels[e] => z \in P
      PROVE  e \in P
  <2>1. \A x \in Expressions : Below(e, x) => value[x] \in 0 .. 2
    BY <1>7 DEF Below
  <2>2. valueGiven(value, e, v) \in 0 .. 2
    BY <2>1, ValueGivenFacts
  <2> QED
    BY <1>5, <2>2
<1>8. E \subseteq P
  <2> HIDE DEF P
  <2> QED
    BY <1>7, OperandsBelow, DepthInduction
<1> QED
  BY <1>5, <1>6, <1>8

\* The values of the symbols in a valuation.
LEMMA ValuationFacts ==
  ASSUME NEW v \in Valuations, NEW s \in TreeSymbols
  PROVE  /\ Type[s] = "bool" => v[s] \in {triN, triY}
         /\ Type[s] = "tristate" => v[s] \in 0 .. 2
         /\ Type[s] = "int" => v[s] \in Numbers
         /\ Type[s] = "undefined" => v[s] = triN
         /\ Type[s] \in TriTypes \cup {"int", "undefined"}
BY DnfAssumption DEF Valuations, TriTypes

\* The other states of a term, one clause each.
StateClauses(t, states) == [i \in 1 .. Len(states) |-> {<<t[1], t[2], states[i]>>}]

\* d holds where term t does with one of the states of S.
SatisfiedByStates(d, t, S) ==
  /\ d \in Dnfs
  /\ \A v : satisfied(d, v) <=> \E x \in S \cap (0 .. 2) : termHolds(<<t[1], t[2], x>>, v)

\* Those clauses are the disjunction of the states.
LEMMA OtherStates ==
  ASSUME NEW t, NEW S, \A x \in S : <<t[1], t[2], x>> \in AllTerms
  PROVE  SatisfiedByStates(StateClauses(t, elementsIn(triStates, S)), t, S)
<1> DEFINE q == elementsIn(triStates, S)
           d == StateClauses(t, q)
<1>1. /\ triStates \in Seq(0 .. 2) /\ DOMAIN triStates = {1, 2, 3}
      /\ triStates[1] = 0 /\ triStates[2] = 1 /\ triStates[3] = 2
  BY DEF triStates, triN, triM, triY
<1>2. SelectedFrom(q, triStates, S, 0 .. 2)
  <2> HIDE DEF q
  <2> QED
    BY <1>1, ElementsFacts DEF q
<1>3. /\ q \in Seq(0 .. 2) /\ DOMAIN q = 1 .. Len(q) /\ Len(q) \in Nat
      /\ \A i \in 1 .. Len(q) : q[i] \in S /\ q[i] \in 0 .. 2
      /\ \A x \in S \cap (0 .. 2) : \E i \in 1 .. Len(q) : q[i] = x
  <2>1. q \in Seq(0 .. 2)
    BY <1>2 DEF SelectedFrom
  <2> HIDE DEF q
  <2>2. DOMAIN q = 1 .. Len(q) /\ Len(q) \in Nat /\ \A i \in 1 .. Len(q) : q[i] \in 0 .. 2
    BY <2>1
  <2>3. \A i \in 1 .. Len(q) : q[i] \in S
    BY <1>2, <2>2 DEF SelectedFrom
  <2>4. ASSUME NEW x \in S \cap (0 .. 2)
        PROVE  \E i \in 1 .. Len(q) : q[i] = x
    <3>1. \E j \in DOMAIN triStates : triStates[j] = x
      BY <1>1
    <3> QED
      BY <1>2, <2>2, <3>1 DEF SelectedFrom
  <2> QED
    BY <2>1, <2>2, <2>3, <2>4
<1> HIDE DEF q
<1>4. \A i \in 1 .. Len(q) : d[i] = {<<t[1], t[2], q[i]>>}
  BY DEF StateClauses
<1>5. \A i \in 1 .. Len(q) : {<<t[1], t[2], q[i]>>} \in Clauses
  <2>1. \A i \in 1 .. Len(q) : <<t[1], t[2], q[i]>> \in AllTerms
    BY <1>3
  <2> QED
    BY <2>1, FS_Singleton DEF Clauses
<1>6. d \in Dnfs /\ DOMAIN d = 1 .. Len(q)
  BY <1>3, <1>5 DEF Dnfs, StateClauses
<1>7. ASSUME NEW v
      PROVE  satisfied(d, v) <=> \E x \in S \cap (0 .. 2) : termHolds(<<t[1], t[2], x>>, v)
  <2>1. \A i \in 1 .. Len(q) : clauseHolds(d[i], v) <=> termHolds(<<t[1], t[2], q[i]>>, v)
    BY <1>4 DEF clauseHolds
  <2> HIDE DEF d
  <2> QED
    BY <1>3, <1>6, <2>1 DEF satisfied
<1> QED
  BY <1>6, <1>7 DEF q, SatisfiedByStates

\* One clause of one term holds where the term does.
LEMMA SingleTerm ==
  ASSUME NEW u, u \in AllTerms
  PROVE  /\ << {u} >> \in Dnfs
         /\ \A v : satisfied(<< {u} >>, v) <=> termHolds(u, v)
<1>1. {u} \in Clauses
  BY FS_Singleton DEF Clauses
<1>2. << {u} >> \in Dnfs
  BY <1>1 DEF Dnfs
<1>3. \A v : satisfied(<< {u} >>, v) <=> termHolds(u, v)
  BY DEF satisfied, clauseHolds
<1> QED
  BY <1>2, <1>3

\* notTerm is the complement of a term, among the states there are.
LEMMA NotTermFacts ==
  ASSUME NEW t \in AllTerms
  PROVE  /\ notTerm(t) \in Dnfs
         /\ \A v \in Valuations : satisfied(notTerm(t), v) <=> ~ termHolds(t, v)
<1>1. CASE t \in {"effective"} \X TriSymbols \X (0 .. 2)
  <2> DEFINE S == effectiveStates(t[2]) \ {t[3]}
  <2>1. t[1] = "effective" /\ t[2] \in TriSymbols /\ t[3] \in 0 .. 2
    BY <1>1
  <2>2. notTerm(t) = StateClauses(t, elementsIn(triStates, S))
    BY <2>1 DEF notTerm, StateClauses
  <2>3. effectiveStates(t[2]) \subseteq 0 .. 2
    BY DEF effectiveStates, triN, triM, triY
  <2>4. \A x \in S : <<t[1], t[2], x>> \in AllTerms
    BY <2>1, <2>3 DEF AllTerms
  <2>5. ASSUME NEW v \in Valuations
        PROVE  (\E x \in S \cap (0 .. 2) : termHolds(<<t[1], t[2], x>>, v)) <=> ~ termHolds(t, v)
    <3>1. v[t[2]] \in effectiveStates(t[2])
      BY <2>1, ValuationFacts DEF TriSymbols, TriTypes, effectiveStates, triN, triM, triY
    <3>2. \A x : termHolds(<<t[1], t[2], x>>, v) <=> v[t[2]] = x
      BY <2>1 DEF termHolds
    <3>3. termHolds(t, v) <=> v[t[2]] = t[3]
      BY <2>1 DEF termHolds
    <3> QED
      BY <2>3, <3>1, <3>2, <3>3
  <2> HIDE DEF S
  <2>6. SatisfiedByStates(StateClauses(t, elementsIn(triStates, S)), t, S)
    BY <2>4, OtherStates
  <2> QED
    BY <2>2, <2>5, <2>6 DEF SatisfiedByStates
<1>2. CASE t \in {"condition"} \X Expressions \X (0 .. 2)
  <2> DEFINE S == (0 .. 2) \ {t[3]}
  <2>1. t[1] = "condition" /\ t[2] \in Expressions /\ t[3] \in 0 .. 2
    BY <1>2
  <2>2. notTerm(t) = StateClauses(t, elementsIn(triStates, S))
    BY <2>1 DEF notTerm, StateClauses
  <2>3. \A x \in S : <<t[1], t[2], x>> \in AllTerms
    BY <2>1 DEF AllTerms
  <2>4. ASSUME NEW v \in Valuations
        PROVE  (\E x \in S \cap (0 .. 2) : termHolds(<<t[1], t[2], x>>, v)) <=> ~ termHolds(t, v)
    <3>1. valueOf(v)[t[2]] \in 0 .. 2
      BY <2>1, ValueFacts
    <3>2. \A x : termHolds(<<t[1], t[2], x>>, v) <=> valueOf(v)[t[2]] = x
      BY <2>1 DEF termHolds
    <3>3. termHolds(t, v) <=> valueOf(v)[t[2]] = t[3]
      BY <2>1 DEF termHolds
    <3> QED
      BY <3>1, <3>2, <3>3
  <2> HIDE DEF S
  <2>5. SatisfiedByStates(StateClauses(t, elementsIn(triStates, S)), t, S)
    BY <2>3, OtherStates
  <2> QED
    BY <2>2, <2>4, <2>5 DEF SatisfiedByStates
<1>3. CASE t \in {"derived"} \X DerivedComparisons \X {triN, triY}
  <2> DEFINE u == <<"derived", t[2], triY - t[3]>>
  <2>1. t[1] = "derived" /\ t[2] \in DerivedComparisons /\ t[3] \in {triN, triY}
    BY <1>3
  <2>2. notTerm(t) = << {u} >>
    BY <2>1 DEF notTerm
  <2>3. u \in AllTerms
    BY <2>1 DEF AllTerms, triN, triY
  <2>5. ASSUME NEW v \in Valuations
        PROVE  termHolds(u, v) <=> ~ termHolds(t, v)
    <3>1. t[2] \in Expressions /\ t[2][1] \in CompareOps /\ derivedComparisonFor(t[2])
      BY <2>1 DEF DerivedComparisons
    <3>2. valueOf(v)[t[2]] = valueGiven(valueOf(v), t[2], v)
      BY <3>1, ValueFacts
    <3>3. valueOf(v)[t[2]] \in {triN, triY}
      BY <3>1, <3>2 DEF valueGiven, IsSymbol, CompareOps, boolTri
    <3>4. termHolds(t, v) <=> valueOf(v)[t[2]] = t[3]
      BY <2>1 DEF termHolds
    <3>5. termHolds(u, v) <=> valueOf(v)[t[2]] = triY - t[3]
      BY DEF termHolds
    <3> QED
      BY <2>1, <3>3, <3>4, <3>5 DEF triN, triY
  <2> HIDE DEF u
  <2> QED
    BY <2>2, <2>3, <2>5, SingleTerm
<1>4. CASE t \in {"enabled", "disabled"} \X TriSymbols
  <2> DEFINE u == <<IF t[1] = "enabled" THEN "disabled" ELSE "enabled", t[2]>>
  <2>1. t[1] \in {"enabled", "disabled"} /\ t[2] \in TriSymbols
    BY <1>4
  <2>2. notTerm(t) = << {u} >>
    BY <2>1 DEF notTerm
  <2>3. u \in AllTerms
    BY <2>1 DEF AllTerms
  <2>5. \A v : termHolds(u, v) <=> ~ termHolds(t, v)
    BY <2>1 DEF termHolds
  <2> HIDE DEF u
  <2> QED
    BY <2>2, <2>3, <2>5, SingleTerm
<1> QED
  BY <1>1, <1>2, <1>3, <1>4 DEF AllTerms

\* andOf and orOf: the same of results.
LEMMA AndOfFacts ==
  ASSUME NEW r \in Seq(Dnfs), NEW s \in Seq(Dnfs), limit \in Nat
  PROVE  /\ andOf(r, s) \in Seq(Dnfs)
         /\ andOf(r, s) # <<>> =>
              /\ r # <<>> /\ s # <<>>
              /\ \A v : satisfied(andOf(r, s)[1], v) <=> satisfied(r[1], v) /\ satisfied(s[1], v)
<1>1. CASE r = <<>> \/ s = <<>>
  BY <1>1 DEF andOf
<1>2. CASE r # <<>> /\ s # <<>>
  <2>1. r[1] \in Dnfs /\ s[1] \in Dnfs
    BY <1>2
  <2>2. andOf(r, s) = andDNF(r[1], s[1])
    BY <1>2 DEF andOf
  <2> QED
    BY <1>2, <2>1, <2>2, AndFacts
<1> QED
  BY <1>1, <1>2

\* orOf is the disjunction of two results, if both are there.
LEMMA OrOfFacts ==
  ASSUME NEW r \in Seq(Dnfs), NEW s \in Seq(Dnfs), limit \in Nat
  PROVE  /\ orOf(r, s) \in Seq(Dnfs)
         /\ orOf(r, s) # <<>> =>
              /\ r # <<>> /\ s # <<>>
              /\ \A v : satisfied(orOf(r, s)[1], v) <=> satisfied(r[1], v) \/ satisfied(s[1], v)
<1>1. CASE r = <<>> \/ s = <<>>
  BY <1>1 DEF orOf
<1>2. CASE r # <<>> /\ s # <<>>
  <2>1. r[1] \in Dnfs /\ s[1] \in Dnfs
    BY <1>2
  <2>2. orOf(r, s) = orDNF(r[1], s[1])
    BY <1>2 DEF orOf
  <2> QED
    BY <1>2, <2>1, <2>2, OrFacts
<1> QED
  BY <1>1, <1>2

\* No clause, and the empty clause.
LEMMA AlwaysFacts ==
  /\ <<alwaysFalse>> \in Seq(Dnfs) /\ <<alwaysFalse>> # <<>> /\ alwaysFalse \in Dnfs
  /\ <<alwaysFalse>>[1] = alwaysFalse /\ \A v : ~ satisfied(alwaysFalse, v)
  /\ <<alwaysTrue>> \in Seq(Dnfs) /\ <<alwaysTrue>> # <<>> /\ alwaysTrue \in Dnfs
  /\ <<alwaysTrue>>[1] = alwaysTrue /\ \A v : satisfied(alwaysTrue, v)
<1>1. alwaysFalse \in Dnfs /\ \A v : ~ satisfied(alwaysFalse, v)
  BY DEF alwaysFalse, Dnfs, satisfied
<1>2. {} \in Clauses
  BY FS_EmptySet DEF Clauses
<1>3. alwaysTrue \in Dnfs /\ \A v : satisfied(alwaysTrue, v)
  BY <1>2 DEF alwaysTrue, Dnfs, satisfied, clauseHolds
<1> QED
  BY <1>1, <1>3

\* One of the first n results is satisfied.
OneSatisfied(results, n, v) == \E k \in 1 .. n : satisfied(results[k][1], v)

\* r is the disjunction of the first n results, or nothing.
DisjunctionOf(r, results, n) ==
  /\ r \in Seq(Dnfs)
  /\ r # <<>> => /\ \A k \in 1 .. n : results[k] # <<>>
                 /\ \A v : satisfied(r[1], v) <=> OneSatisfied(results, n, v)

\* anyOf is the disjunction of all its results.
LEMMA AnyOfFacts ==
  ASSUME NEW results, results \in Seq(Seq(Dnfs)), limit \in Nat
  PROVE  DisjunctionOf(anyOf(results), results, Len(results))
<1> DEFINE n == Len(results)
           V == Seq(Dnfs)
           IsOred(h) == h = [k \in 0 .. n |->
                               IF k = 0 THEN <<alwaysFalse>> ELSE orOf(h[k - 1], results[k])]
           step == [p \in (1 .. n) \X V |-> orOf(p[2], results[p[1]])]
           ored == CHOOSE h : IsOred(h)
<1>1. n \in Nat /\ \A k \in 1 .. n : results[k] \in V
  OBVIOUS
<1>2. ASSUME NEW k \in 1 .. n, NEW before \in V
      PROVE  orOf(before, results[k]) \in V
  BY <1>1, OrOfFacts
<1>3. LoopStep(n, V, <<alwaysFalse>>, step)
  <2>1. ASSUME NEW p \in (1 .. n) \X V
        PROVE  orOf(p[2], results[p[1]]) \in V
    <3>1. p[1] \in 1 .. n /\ p[2] \in V
      OBVIOUS
    <3> HIDE DEF n, V
    <3> QED
      BY <1>2, <3>1
  <2>2. <<alwaysFalse>> \in V
    BY AlwaysFacts
  <2> HIDE DEF V, n
  <2> QED
    BY <1>1, <2>1, <2>2 DEF LoopStep
<1>4. PICK f : Loops(n, V, <<alwaysFalse>>, step, f)
  <2> HIDE DEF n, V, step
  <2> QED
    BY <1>3, LoopSolves
<1>5. IsOred(f)
  <2>1. /\ f \in [0 .. n -> V]
        /\ f = [k \in 0 .. n |-> IF k = 0 THEN <<alwaysFalse>> ELSE step[<<k, f[k - 1]>>]]
    BY <1>4 DEF Loops
  <2>2. ASSUME NEW k \in 0 .. n, k # 0
        PROVE  step[<<k, f[k - 1]>>] = orOf(f[k - 1], results[k])
    <3>1. k \in 1 .. n /\ k - 1 \in 0 .. n
      BY <1>1, <2>2
    <3>2. <<k, f[k - 1]>> \in (1 .. n) \X V
      BY <2>1, <3>1
    <3> HIDE DEF V, n
    <3> QED
      BY <3>2
  <2> HIDE DEF step, V, n
  <2> QED
    BY <2>1, <2>2
<1>6. IsOred(ored)
  <2> HIDE DEF IsOred
  <2> QED
    BY <1>5
<1>7. anyOf(results) = ored[n]
  BY DEF anyOf
<1> HIDE DEF ored
<1>8. ored[0] = <<alwaysFalse>> /\ \A k \in 1 .. n : ored[k] = orOf(ored[k - 1], results[k])
  <2>1. ored[0] = <<alwaysFalse>>
    BY <1>1, <1>6
  <2>2. ASSUME NEW k \in 1 .. n
        PROVE  ored[k] = orOf(ored[k - 1], results[k])
    <3>1. k \in 0 .. n /\ k # 0
      BY <1>1
    <3> QED
      BY <1>6, <3>1
  <2> QED
    BY <2>1, <2>2
<1> DEFINE P == {k \in 0 .. n : DisjunctionOf(ored[k], results, k)}
<1>9. 0 \in P
  <2>1. \A v : ~ OneSatisfied(results, 0, v)
    BY DEF OneSatisfied
  <2>2. DisjunctionOf(ored[0], results, 0)
    BY <1>8, <2>1, AlwaysFacts DEF DisjunctionOf
  <2> QED
    BY <1>1, <2>2
<1>10. ASSUME NEW k \in 1 .. n, k - 1 \in P
       PROVE  k \in P
  <2>1. k \in Nat /\ k \in 0 .. n /\ DisjunctionOf(ored[k - 1], results, k - 1)
    BY <1>1, <1>10
  <2>2. ored[k] = orOf(ored[k - 1], results[k]) /\ ored[k - 1] \in V /\ results[k] \in V
    BY <1>1, <1>8, <2>1 DEF DisjunctionOf
  <2>3. /\ \A j \in 1 .. k : j \in 1 .. k - 1 \/ j = k
        /\ \A j \in 1 .. k - 1 : j \in 1 .. k
        /\ k \in 1 .. k
    BY <2>1
  <2>4. \A v : OneSatisfied(results, k, v)
                 <=> OneSatisfied(results, k - 1, v) \/ satisfied(results[k][1], v)
    BY <2>3 DEF OneSatisfied
  <2>5. /\ ored[k] \in V
        /\ ored[k] # <<>> =>
             /\ ored[k - 1] # <<>> /\ results[k] # <<>>
             /\ \A v : satisfied(ored[k][1], v)
                         <=> satisfied(ored[k - 1][1], v) \/ satisfied(results[k][1], v)
    BY <2>2, OrOfFacts
  <2>6. DisjunctionOf(ored[k], results, k)
    BY <2>1, <2>3, <2>4, <2>5 DEF DisjunctionOf
  <2> QED
    BY <2>1, <2>6
<1>11. n \in P
  <2>1. \A k \in 0 .. n : k \in P
    <3> HIDE DEF P, n
    <3> QED
      BY <1>1, <1>9, <1>10, PlaceInduction
  <2> QED
    BY <1>1, <2>1
<1> QED
  BY <1>7, <1>11

\* SetToSeq lists a finite set.
LEMMA SetToSeqFacts ==
  ASSUME NEW c, IsFiniteSet(c)
  PROVE  /\ SetToSeq(c) \in Seq(c) /\ Len(SetToSeq(c)) \in Nat
         /\ \A t : t \in c <=> \E i \in 1 .. Len(SetToSeq(c)) : SetToSeq(c)[i] = t
<1> DEFINE n == Cardinality(c)
           q == SetToSeq(c)
           Lists(f) == f \in [1 .. n -> c] /\ IsInjective(f)
<1>1. n \in Nat /\ ExistsBijection(1 .. n, c)
  BY FS_CardinalityType
<1>2. \E f : Lists(f)
  BY <1>1 DEF ExistsBijection, Bijection, Injection
<1>3. Lists(q)
  <2>1. q = CHOOSE f \in [1 .. n -> c] : IsInjective(f)
    BY DEF SetToSeq
  <2> HIDE DEF q, n
  <2> QED
    BY <1>2, <2>1
<1> HIDE DEF q
<1>4. q \in Surjection(1 .. n, c)
  <2>1. q \in Injection(1 .. n, c)
    BY <1>3 DEF Injection
  <2>2. IsFiniteSet(1 .. n) /\ Cardinality(1 .. n) = Cardinality(c)
    BY <1>1, FS_Interval
  <2> QED
    BY <2>1, <2>2, FS_Injection
<1>5. q \in Seq(c) /\ Len(q) = n
  <2> HIDE DEF n
  <2> QED
    BY <1>1, <1>3
<1>6. \A t : t \in c <=> \E i \in 1 .. n : q[i] = t
  BY <1>3, <1>4 DEF Surjection
<1> QED
  <2> HIDE DEF n
  <2> QED
    BY <1>1, <1>5, <1>6 DEF q

\* r holds where d does not, or is nothing.
ComplementOf(r, d) ==
  /\ r \in Seq(Dnfs)
  /\ r # <<>> => \A v \in Valuations : satisfied(r[1], v) <=> ~ satisfied(d, v)

\* notClause is the complement of a clause.
LEMMA NotClauseFacts ==
  ASSUME NEW c \in Clauses, limit \in Nat
  PROVE  /\ notClause(c) \in Seq(Dnfs)
         /\ notClause(c) # <<>> =>
              \A v \in Valuations : satisfied(notClause(c)[1], v) <=> ~ clauseHolds(c, v)
<1> DEFINE terms == SetToSeq(c)
           n == Len(terms)
           results == [i \in 1 .. n |-> <<notTerm(terms[i])>>]
<1>1. IsFiniteSet(c) /\ \A t \in c : t \in AllTerms
  BY DEF Clauses
<1>2. /\ n \in Nat /\ terms \in Seq(c)
      /\ \A t : t \in c <=> \E i \in 1 .. n : terms[i] = t
  BY <1>1, SetToSeqFacts
<1>3. notClause(c) = anyOf(results)
  BY DEF notClause
<1> HIDE DEF terms
<1>4. \A i \in 1 .. n : terms[i] \in AllTerms
  BY <1>1, <1>2
<1> HIDE DEF n
<1>5. ASSUME NEW i \in 1 .. n
      PROVE  /\ <<notTerm(terms[i])>> \in Seq(Dnfs)
             /\ results[i] = <<notTerm(terms[i])>> /\ results[i][1] = notTerm(terms[i])
             /\ \A v \in Valuations : satisfied(results[i][1], v) <=> ~ termHolds(terms[i], v)
  <2>1. /\ notTerm(terms[i]) \in Dnfs
        /\ \A v \in Valuations : satisfied(notTerm(terms[i]), v) <=> ~ termHolds(terms[i], v)
    BY <1>4, NotTermFacts
  <2>2. results[i] = <<notTerm(terms[i])>> /\ results[i][1] = notTerm(terms[i])
    OBVIOUS
  <2> HIDE DEF results
  <2> QED
    BY <2>1, <2>2
<1>6. results \in Seq(Seq(Dnfs)) /\ Len(results) = n
  <2>1. \A i \in 1 .. n : <<notTerm(terms[i])>> \in Seq(Dnfs)
    BY <1>5
  <2> QED
    BY <1>2, <2>1
<1> HIDE DEF results
<1>7. DisjunctionOf(anyOf(results), results, n)
  BY <1>6, AnyOfFacts
<1>8. \A v \in Valuations : OneSatisfied(results, n, v) <=> ~ clauseHolds(c, v)
  BY <1>2, <1>5 DEF OneSatisfied, clauseHolds
<1> QED
  BY <1>3, <1>7, <1>8 DEF DisjunctionOf

\* The first n clauses of d all fail.
FirstFail(d, n, v) == \A k \in 1 .. n : ~ clauseHolds(d[k], v)

\* notDNF is the complement of a DNF.
LEMMA NotDnfFacts ==
  ASSUME NEW d \in Dnfs, limit \in Nat
  PROVE  ComplementOf(notDNF(d), d)
<1> DEFINE n == Len(d)
           V == Seq(Dnfs)
           IsNegated(h) == h = [k \in 0 .. n |->
                                  IF k = 0 THEN <<alwaysTrue>> ELSE andOf(h[k - 1], notClause(d[k]))]
           step == [p \in (1 .. n) \X V |-> andOf(p[2], notClause(d[p[1]]))]
           negations == CHOOSE h : IsNegated(h)
<1>1. n \in Nat /\ DOMAIN d = 1 .. n /\ \A k \in 1 .. n : d[k] \in Clauses
  BY DEF Dnfs
<1>2. ASSUME NEW k \in 1 .. n, NEW before \in V
      PROVE  andOf(before, notClause(d[k])) \in V
  BY <1>1, NotClauseFacts, AndOfFacts
<1>3. LoopStep(n, V, <<alwaysTrue>>, step)
  <2>1. ASSUME NEW p \in (1 .. n) \X V
        PROVE  andOf(p[2], notClause(d[p[1]])) \in V
    <3>1. p[1] \in 1 .. n /\ p[2] \in V
      OBVIOUS
    <3> HIDE DEF n, V
    <3> QED
      BY <1>2, <3>1
  <2>2. <<alwaysTrue>> \in V
    BY AlwaysFacts
  <2> HIDE DEF V, n
  <2> QED
    BY <1>1, <2>1, <2>2 DEF LoopStep
<1>4. PICK f : Loops(n, V, <<alwaysTrue>>, step, f)
  <2> HIDE DEF n, V, step
  <2> QED
    BY <1>3, LoopSolves
<1>5. IsNegated(f)
  <2>1. /\ f \in [0 .. n -> V]
        /\ f = [k \in 0 .. n |-> IF k = 0 THEN <<alwaysTrue>> ELSE step[<<k, f[k - 1]>>]]
    BY <1>4 DEF Loops
  <2>2. ASSUME NEW k \in 0 .. n, k # 0
        PROVE  step[<<k, f[k - 1]>>] = andOf(f[k - 1], notClause(d[k]))
    <3>1. k \in 1 .. n /\ k - 1 \in 0 .. n
      BY <1>1, <2>2
    <3>2. <<k, f[k - 1]>> \in (1 .. n) \X V
      BY <2>1, <3>1
    <3> HIDE DEF V, n
    <3> QED
      BY <3>2
  <2> HIDE DEF step, V, n
  <2> QED
    BY <2>1, <2>2
<1>6. IsNegated(negations)
  <2> HIDE DEF IsNegated
  <2> QED
    BY <1>5
<1>7. notDNF(d) = IF IsAlwaysTrue(d) THEN <<alwaysFalse>> ELSE negations[n]
  BY DEF notDNF
<1> HIDE DEF negations
<1>8. /\ negations[0] = <<alwaysTrue>>
      /\ \A k \in 1 .. n : negations[k] = andOf(negations[k - 1], notClause(d[k]))
  <2>1. negations[0] = <<alwaysTrue>>
    BY <1>1, <1>6
  <2>2. ASSUME NEW k \in 1 .. n
        PROVE  negations[k] = andOf(negations[k - 1], notClause(d[k]))
    <3>1. k \in 0 .. n /\ k # 0
      BY <1>1
    <3> QED
      BY <1>6, <3>1
  <2> QED
    BY <2>1, <2>2
<1> DEFINE Good(k) ==
             /\ negations[k] \in V
             /\ negations[k] # <<>> =>
                  \A v \in Valuations : satisfied(negations[k][1], v) <=> FirstFail(d, k, v)
           P == {k \in 0 .. n : Good(k)}
<1>9. 0 \in P
  <2>1. \A v : FirstFail(d, 0, v)
    BY DEF FirstFail
  <2>2. Good(0)
    BY <1>8, <2>1, AlwaysFacts
  <2> QED
    BY <1>1, <2>2
<1>10. ASSUME NEW k \in 1 .. n, k - 1 \in P
       PROVE  k \in P
  <2> DEFINE before == negations[k - 1]
             clause == notClause(d[k])
  <2>1. k \in Nat /\ k \in 0 .. n /\ Good(k - 1)
    BY <1>1, <1>10
  <2>2. negations[k] = andOf(before, clause)
    BY <1>8
  <2>3. \A v : FirstFail(d, k, v) <=> FirstFail(d, k - 1, v) /\ ~ clauseHolds(d[k], v)
    <3>1. /\ \A j \in 1 .. k : j \in 1 .. k - 1 \/ j = k
          /\ \A j \in 1 .. k - 1 : j \in 1 .. k
          /\ k \in 1 .. k
      BY <2>1
    <3> QED
      BY <3>1 DEF FirstFail
  <2>4. /\ clause \in V
        /\ clause # <<>> => \A v \in Valuations : satisfied(clause[1], v) <=> ~ clauseHolds(d[k], v)
    BY <1>1, NotClauseFacts
  <2>5. /\ negations[k] \in V
        /\ negations[k] # <<>> =>
             /\ before # <<>> /\ clause # <<>>
             /\ \A v : satisfied(negations[k][1], v)
                         <=> satisfied(before[1], v) /\ satisfied(clause[1], v)
    <3>1. before \in V
      BY <2>1
    <3> HIDE DEF before, clause
    <3> QED
      BY <2>2, <2>4, <3>1, AndOfFacts
  <2>6. Good(k)
    <3> HIDE DEF clause, V
    <3> QED
      BY <2>1, <2>3, <2>4, <2>5
  <2> QED
    BY <2>1, <2>6
<1>11. n \in P
  <2>1. \A k \in 0 .. n : k \in P
    <3> HIDE DEF P, n
    <3> QED
      BY <1>1, <1>9, <1>10, PlaceInduction
  <2> QED
    BY <1>1, <2>1
<1>12. CASE IsAlwaysTrue(d)
  <2>1. \A v : clauseHolds({}, v)
    BY DEF clauseHolds
  <2>2. \A v : satisfied(d, v)
    BY <1>12, <2>1 DEF IsAlwaysTrue, satisfied
  <2> QED
    BY <1>7, <1>12, <2>2, AlwaysFacts DEF ComplementOf
<1>13. CASE ~ IsAlwaysTrue(d)
  <2>1. Good(n)
    BY <1>11
  <2>2. \A v : FirstFail(d, n, v) <=> ~ satisfied(d, v)
    BY <1>1 DEF FirstFail, satisfied
  <2> HIDE DEF n
  <2> QED
    BY <1>7, <1>13, <2>1, <2>2 DEF ComplementOf
<1> QED
  BY <1>12, <1>13

\* isTriExpression, of one expression.
triGiven(f, e) ==
  CASE e[1] = "const" -> IsTriConst(e)
    [] e[1] = "symbol" -> Type[e[2]] # "int"
    [] e[1] = "!" -> f[e[2]]
    [] e[1] \in {"&&", "||"} -> f[e[2]] /\ f[e[3]]
    [] OTHER -> derivedComparisonFor(e) \/ (f[e[2]] /\ f[e[3]])

\* isTriExpression is defined; this is what it says of symbols.
LEMMA TriFacts ==
  \A e \in Expressions : isTriExpression[e] = triGiven(isTriExpression, e)
<1> DEFINE E == Expressions
           V == BOOLEAN
           IsTri(h) == h = [e \in E |-> triGiven(h, e)]
           body == [f \in [E -> V] |-> [e \in E |-> triGiven(f, e)]]
           tri == CHOOSE h : IsTri(h)
<1>1. ASSUME NEW f \in [E -> V], NEW e \in E
      PROVE  /\ triGiven(f, e) \in V
             /\ \A g : (\A x \in E : Below(e, x) => f[x] = g[x]) => triGiven(f, e) = triGiven(g, e)
  <2>1. CASE IsSymbol(e)
    <3>1. e[1] = "const" \/ (e[1] = "symbol" /\ e[1] # "const")
      BY <2>1 DEF IsSymbol
    <3> QED
      BY <3>1 DEF triGiven, IsTriConst
  <2>2. CASE e[1] = "!"
    <3>1. e[2] \in E /\ Below(e, e[2])
      BY <2>2, OperandsBelow DEF Below
    <3>2. \A g : triGiven(g, e) = g[e[2]]
      BY <2>2 DEF triGiven
    <3> QED
      BY <3>1, <3>2
  <2>3. CASE e[1] \in BinaryOps
    <3>1. /\ ~ IsSymbol(e) /\ e[1] # "!"
          /\ e[2] \in E /\ Below(e, e[2]) /\ e[3] \in E /\ Below(e, e[3])
      BY <2>3, OperandsBelow DEF Below
    <3>2. f[e[2]] \in BOOLEAN /\ f[e[3]] \in BOOLEAN
      BY <3>1
    <3>3. CASE e[1] \in {"&&", "||"}
      <4>1. \A g : triGiven(g, e) = (g[e[2]] /\ g[e[3]])
        BY <3>3 DEF triGiven
      <4> QED
        BY <3>1, <4>1
    <3>4. CASE e[1] \notin {"&&", "||"}
      <4>1. \A g : triGiven(g, e) = (derivedComparisonFor(e) \/ (g[e[2]] /\ g[e[3]]))
        BY <3>1, <3>4 DEF triGiven, IsSymbol
      <4> QED
        BY <3>1, <4>1
    <3> QED
      BY <3>3, <3>4
  <2> QED
    BY <2>1, <2>2, <2>3, OperandsBelow
<1>2. Recursive(E, levels, V, body)
  <2>1. body \in [[E -> V] -> [E -> V]]
    <3> HIDE DEF V
    <3> QED
      BY <1>1
  <2>2. ASSUME NEW f \in [E -> V], NEW g \in [E -> V], NEW e \in E,
               \A z \in E : levels[z] < levels[e] => f[z] = g[z]
        PROVE  body[f][e] = body[g][e]
    <3>1. triGiven(f, e) = triGiven(g, e)
      BY <1>1, <2>2 DEF Below
    <3>2. body[f][e] = triGiven(f, e) /\ body[g][e] = triGiven(g, e)
      BY DEF body
    <3> QED
      BY <3>1, <3>2
  <2> HIDE DEF body, V
  <2>3. V # {}
    BY DEF V
  <2> QED
    BY <2>1, <2>2, <2>3, OperandsBelow DEF Recursive
<1>3. PICK f \in [E -> V] : f = body[f]
  <2> HIDE DEF body, V
  <2> QED
    BY <1>2, RecursionSolves DEF Solvable
<1>4. IsTri(f)
  BY <1>3
<1>5. IsTri(tri)
  <2> HIDE DEF IsTri
  <2> QED
    BY <1>4
<1>6. isTriExpression = tri
  BY DEF isTriExpression, triGiven
<1> HIDE DEF tri
<1> QED
  BY <1>5, <1>6

\* Where a comparison of tristates could be one of scalars too, both readings
\* compare the same values.
LEMMA ScalarOperandFacts ==
  ASSUME NEW v \in Valuations, NEW e \in Expressions, e[1] \in CompareOps,
         isTriExpression[e[2]], isTriExpression[e[3]]
  PROVE  valueOf(v)[e] = boolTri(compareTri(valueOf(v)[e[2]], valueOf(v)[e[3]], e[1]))
<1>1. /\ ~ IsSymbol(e) /\ e[1] \notin {"!", "&&", "||"}
      /\ e[2] \in Expressions /\ e[3] \in Expressions
  BY OperandsBelow DEF Below, BinaryOps, CompareOps
<1>2. valueOf(v)[e] = IF derivedComparisonFor(e)
                      THEN boolTri(compareTri(operand(e[2], v), operand(e[3], v), e[1]))
                      ELSE boolTri(compareTri(valueOf(v)[e[2]], valueOf(v)[e[3]], e[1]))
  BY <1>1, ValueFacts DEF valueGiven
<1>3. ASSUME NEW x \in Expressions, IsSymbol(x), isTriExpression[x],
             derivedOperandFor(x) \notin TriTypes
      PROVE  operand(x, v) = valueOf(v)[x]
  <2>1. valueOf(v)[x] = IF operand(x, v) \in 0 .. 2 THEN operand(x, v) ELSE triN
    BY <1>3, ValueFacts DEF valueGiven, IsSymbol
  <2>2. CASE x[1] = "const"
    <3>1. IsTriConst(x)
      BY <1>3, <2>2, TriFacts DEF triGiven
    <3> QED
      BY <2>1, <2>2, <3>1 DEF operand, IsTriConst
  <2>3. CASE x[1] = "symbol"
    <3>1. x[2] \in TreeSymbols /\ Type[x[2]] \in TriTypes \cup {"int", "undefined"}
      BY <2>3, ExpressionsAssumption, DnfAssumption
    <3>2. Type[x[2]] # "int"
      BY <1>3, <2>3, TriFacts DEF triGiven
    <3>3. derivedOperandFor(x) \in TriTypes
      BY <2>3, <3>1, <3>2 DEF derivedOperandFor, Defined, TriTypes
    <3> QED
      BY <1>3, <3>3
  <2> QED
    BY <1>3, <2>2, <2>3 DEF IsSymbol
<1>4. CASE derivedComparisonFor(e)
  <2>1. operand(e[2], v) = valueOf(v)[e[2]] /\ operand(e[3], v) = valueOf(v)[e[3]]
    BY <1>1, <1>3, <1>4 DEF derivedComparisonFor
  <2> QED
    BY <1>2, <1>4, <2>1
<1> QED
  BY <1>2, <1>4

(***************************************************************************)
(* The encoders: the states of an expression from those of its operands.   *)
(***************************************************************************)

\* What is known of an operand: its three DNFs, as far as they are given, say
\* which state x it is in.
States == [0 .. 2 -> Seq(Dnfs)]

Says(l, v, x) ==
  \A s \in 0 .. 2 : l[s] # <<>> => (satisfied(l[s][1], v) <=> x = s)

\* The result d, if any, says that the operand r is in state s or t; that l and
\* r are in s and t; that one of them is.
OneOf(d, r, s, t) ==
  /\ d \in Seq(Dnfs)
  /\ d # <<>> => \A v : \A x : Says(r, v, x) => (satisfied(d[1], v) <=> x = s \/ x = t)

BothOf(d, l, r, s, t) ==
  /\ d \in Seq(Dnfs)
  /\ d # <<>> => \A v : \A x, y : Says(l, v, x) /\ Says(r, v, y) =>
                    (satisfied(d[1], v) <=> x = s /\ y = t)

EitherOf(d, l, r, s, t) ==
  /\ d \in Seq(Dnfs)
  /\ d # <<>> => \A v : \A x, y : Says(l, v, x) /\ Says(r, v, y) =>
                    (satisfied(d[1], v) <=> x = s \/ y = t)

\* anyStateRef is the disjunction of two states.
LEMMA AnyStateFacts ==
  ASSUME NEW r, r \in States, NEW s, s \in 0 .. 2, NEW t, t \in 0 .. 2, limit \in Nat
  PROVE  OneOf(anyStateRef(r, s, t), r, s, t)
<1> DEFINE first == orOf(<<alwaysFalse>>, r[s])
           second == orOf(first, r[t])
<1>1. r[s] \in Seq(Dnfs) /\ r[t] \in Seq(Dnfs)
  BY DEF States
<1>2. /\ first \in Seq(Dnfs)
      /\ first # <<>> =>
           /\ r[s] # <<>>
           /\ \A v : satisfied(first[1], v) <=> satisfied(r[s][1], v)
  BY <1>1, AlwaysFacts, OrOfFacts
<1> HIDE DEF first
<1>3. /\ second \in Seq(Dnfs)
      /\ second # <<>> =>
           /\ first # <<>> /\ r[t] # <<>>
           /\ \A v : satisfied(second[1], v) <=> satisfied(first[1], v) \/ satisfied(r[t][1], v)
  BY <1>1, <1>2, OrOfFacts
<1>4. anyStateRef(r, s, t) = second
  BY DEF anyStateRef, first
<1> HIDE DEF second
<1> QED
  BY <1>2, <1>3, <1>4 DEF Says, OneOf

\* Conjunctions and disjunctions of states.
LEMMA BothStates ==
  ASSUME NEW l, l \in States, NEW r, r \in States, NEW s, s \in 0 .. 2, NEW t, t \in 0 .. 2,
         limit \in Nat
  PROVE  BothOf(andOf(l[s], r[t]), l, r, s, t)
<1>1. l[s] \in Seq(Dnfs) /\ r[t] \in Seq(Dnfs)
  BY DEF States
<1> QED
  BY <1>1, AndOfFacts DEF Says, BothOf

\* A disjunction says that one of two operands is in its state.
LEMMA EitherState ==
  ASSUME NEW l, l \in States, NEW r, r \in States, NEW s, s \in 0 .. 2, NEW t, t \in 0 .. 2,
         limit \in Nat
  PROVE  EitherOf(orOf(l[s], r[t]), l, r, s, t)
<1>1. l[s] \in Seq(Dnfs) /\ r[t] \in Seq(Dnfs)
  BY DEF States
<1> QED
  BY <1>1, OrOfFacts DEF Says, EitherOf

\* The middle state: the left operand is in state a and the right one in s or
\* t, or the left one is in state b and the right one in c.
MiddleState(l, r, s, t, a, b, c) ==
  orOf(andOf(anyStateRef(r, s, t), l[a]), andOf(l[b], r[c]))

MiddleOf(d, l, r, s, t, a, b, c) ==
  /\ d \in Seq(Dnfs)
  /\ d # <<>> => \A v : \A x, y : Says(l, v, x) /\ Says(r, v, y) =>
                    (satisfied(d[1], v) <=> ((y = s \/ y = t) /\ x = a) \/ (x = b /\ y = c))

\* The middle state is what MiddleOf says.
LEMMA MiddleFacts ==
  ASSUME NEW l, l \in States, NEW r, r \in States, limit \in Nat,
         NEW s, s \in 0 .. 2, NEW t, t \in 0 .. 2,
         NEW a, a \in 0 .. 2, NEW b, b \in 0 .. 2, NEW c, c \in 0 .. 2
  PROVE  MiddleOf(MiddleState(l, r, s, t, a, b, c), l, r, s, t, a, b, c)
<1> DEFINE any == anyStateRef(r, s, t)
           left == andOf(any, l[a])
           right == andOf(l[b], r[c])
           m == orOf(left, right)
<1>1. OneOf(any, r, s, t)
  BY AnyStateFacts
<1>2. l[a] \in Seq(Dnfs)
  BY DEF States
<1> HIDE DEF any
<1>3. /\ left \in Seq(Dnfs)
      /\ left # <<>> =>
           /\ any # <<>> /\ l[a] # <<>>
           /\ \A v : satisfied(left[1], v) <=> satisfied(any[1], v) /\ satisfied(l[a][1], v)
  BY <1>1, <1>2, AndOfFacts DEF OneOf
<1>4. BothOf(right, l, r, b, c)
  BY BothStates
<1> HIDE DEF left, right
<1>5. /\ m \in Seq(Dnfs)
      /\ m # <<>> =>
           /\ left # <<>> /\ right # <<>>
           /\ \A v : satisfied(m[1], v) <=> satisfied(left[1], v) \/ satisfied(right[1], v)
  BY <1>3, <1>4, OrOfFacts DEF BothOf
<1>6. MiddleState(l, r, s, t, a, b, c) = m
  BY DEF MiddleState, any, left, right
<1> HIDE DEF m
<1>7. ASSUME m # <<>>, NEW v, NEW x, NEW y, Says(l, v, x), Says(r, v, y)
      PROVE  satisfied(m[1], v) <=> ((y = s \/ y = t) /\ x = a) \/ (x = b /\ y = c)
  <2>1. satisfied(l[a][1], v) <=> x = a
    BY <1>3, <1>5, <1>7 DEF Says
  <2>2. satisfied(any[1], v) <=> y = s \/ y = t
    BY <1>1, <1>3, <1>5, <1>7 DEF OneOf
  <2>3. satisfied(right[1], v) <=> x = b /\ y = c
    BY <1>4, <1>5, <1>7 DEF BothOf
  <2> QED
    BY <1>3, <1>5, <1>7, <2>1, <2>2, <2>3
<1> QED
  BY <1>5, <1>6, <1>7 DEF MiddleOf

\* encodeAndStateBody is the minimum of the operands' states,
MinOf(d, l, r, want) ==
  /\ d \in Seq(Dnfs)
  /\ d # <<>> => \A v : \A x, y \in 0 .. 2 : Says(l, v, x) /\ Says(r, v, y) =>
                    (satisfied(d[1], v) <=> MinTri(x, y) = want)

\* For every state wanted.
LEMMA AndStateFacts ==
  ASSUME NEW l, l \in States, NEW r, r \in States, NEW want, want \in 0 .. 2, limit \in Nat
  PROVE  MinOf(encodeAndStateBody(l, r, want), l, r, want)
<1>1. CASE want = 0
  <2>1. encodeAndStateBody(l, r, want) = orOf(l[0], r[0])
    BY <1>1 DEF encodeAndStateBody, triN, triM, triY
  <2>2. \A x, y \in 0 .. 2 : MinTri(x, y) = want <=> x = 0 \/ y = 0
    BY <1>1 DEF MinTri
  <2>3. EitherOf(encodeAndStateBody(l, r, want), l, r, 0, 0)
    BY <2>1, EitherState
  <2> QED
    BY <2>2, <2>3 DEF EitherOf, MinOf
<1>2. CASE want = 1
  <2>1. encodeAndStateBody(l, r, want) = MiddleState(l, r, 1, 2, 1, 2, 1)
    BY <1>2 DEF encodeAndStateBody, MiddleState, triN, triM, triY
  <2>2. \A x, y \in 0 .. 2 :
          MinTri(x, y) = want <=> ((y = 1 \/ y = 2) /\ x = 1) \/ (x = 2 /\ y = 1)
    BY <1>2 DEF MinTri
  <2>3. MiddleOf(encodeAndStateBody(l, r, want), l, r, 1, 2, 1, 2, 1)
    BY <2>1, MiddleFacts
  <2> QED
    BY <2>2, <2>3 DEF MiddleOf, MinOf
<1>3. CASE want = 2
  <2>1. encodeAndStateBody(l, r, want) = andOf(l[2], r[2])
    BY <1>3 DEF encodeAndStateBody, triN, triM, triY
  <2>2. \A x, y \in 0 .. 2 : MinTri(x, y) = want <=> x = 2 /\ y = 2
    BY <1>3 DEF MinTri
  <2>3. BothOf(encodeAndStateBody(l, r, want), l, r, 2, 2)
    BY <2>1, BothStates
  <2> QED
    BY <2>2, <2>3 DEF BothOf, MinOf
<1> QED
  BY <1>1, <1>2, <1>3

\* and encodeOrStateBody the maximum.
MaxOf(d, l, r, want) ==
  /\ d \in Seq(Dnfs)
  /\ d # <<>> => \A v : \A x, y \in 0 .. 2 : Says(l, v, x) /\ Says(r, v, y) =>
                    (satisfied(d[1], v) <=> MaxTri(x, y) = want)

\* For every state wanted, too.
LEMMA OrStateFacts ==
  ASSUME NEW l, l \in States, NEW r, r \in States, NEW want, want \in 0 .. 2, limit \in Nat
  PROVE  MaxOf(encodeOrStateBody(l, r, want), l, r, want)
<1>1. CASE want = 0
  <2>1. encodeOrStateBody(l, r, want) = andOf(l[0], r[0])
    BY <1>1 DEF encodeOrStateBody, triN, triM, triY
  <2>2. \A x, y \in 0 .. 2 : MaxTri(x, y) = want <=> x = 0 /\ y = 0
    BY <1>1 DEF MaxTri
  <2>3. BothOf(encodeOrStateBody(l, r, want), l, r, 0, 0)
    BY <2>1, BothStates
  <2> QED
    BY <2>2, <2>3 DEF BothOf, MaxOf
<1>2. CASE want = 1
  <2>1. encodeOrStateBody(l, r, want) = MiddleState(l, r, 0, 1, 1, 0, 1)
    BY <1>2 DEF encodeOrStateBody, MiddleState, triN, triM, triY
  <2>2. \A x, y \in 0 .. 2 :
          MaxTri(x, y) = want <=> ((y = 0 \/ y = 1) /\ x = 1) \/ (x = 0 /\ y = 1)
    BY <1>2 DEF MaxTri
  <2>3. MiddleOf(encodeOrStateBody(l, r, want), l, r, 0, 1, 1, 0, 1)
    BY <2>1, MiddleFacts
  <2> QED
    BY <2>2, <2>3 DEF MiddleOf, MaxOf
<1>3. CASE want = 2
  <2>1. encodeOrStateBody(l, r, want) = orOf(l[2], r[2])
    BY <1>3 DEF encodeOrStateBody, triN, triM, triY
  <2>2. \A x, y \in 0 .. 2 : MaxTri(x, y) = want <=> x = 2 \/ y = 2
    BY <1>3 DEF MaxTri
  <2>3. EitherOf(encodeOrStateBody(l, r, want), l, r, 2, 2)
    BY <2>1, EitherState
  <2> QED
    BY <2>2, <2>3 DEF EitherOf, MaxOf
<1> QED
  BY <1>1, <1>2, <1>3

\* encodeTriCompareState is the disjunction over the pairs of states that
\* compare as wanted.
ComparisonOf(d, op, l, r, want) ==
  /\ d \in Seq(Dnfs)
  /\ d # <<>> => \A v : \A x, y \in 0 .. 2 : Says(l, v, x) /\ Says(r, v, y) =>
                    (satisfied(d[1], v) <=> compareTri(x, y, op) = want)

\* For either outcome wanted.
LEMMA CompareStateFacts ==
  ASSUME NEW l, l \in States, NEW r, r \in States, NEW op, NEW want, want \in BOOLEAN,
         limit \in Nat
  PROVE  ComparisonOf(encodeTriCompareState(op, l, r, want), op, l, r, want)
<1> DEFINE Pairs == (0 .. 2) \X (0 .. 2)
           S == {p \in (0 .. 2) \X (0 .. 2) : compareTri(p[1], p[2], op) = want}
           m == elementsIn(StatePairs, S)
           n == Len(m)
           results == [k \in 1 .. n |-> andOf(l[m[k][1]], r[m[k][2]])]
<1>1. /\ StatePairs \in Seq(Pairs) /\ DOMAIN StatePairs = 1 .. 9
      /\ \A x, y \in 0 .. 2 : \E k \in 1 .. 9 : StatePairs[k] = <<x, y>>
  <2>1. ASSUME NEW k \in 1 .. 9
        PROVE  (k - 1) \div 3 \in 0 .. 2 /\ (k - 1) % 3 \in 0 .. 2
    OBVIOUS
  <2>2. StatePairs \in Seq(Pairs) /\ DOMAIN StatePairs = 1 .. 9
    <3>1. \A k \in 1 .. 9 : <<(k - 1) \div 3, (k - 1) % 3>> \in Pairs
      BY <2>1
    <3> HIDE DEF Pairs
    <3> QED
      BY <3>1 DEF StatePairs
  <2>3. ASSUME NEW x \in 0 .. 2, NEW y \in 0 .. 2
        PROVE  \E k \in 1 .. 9 : StatePairs[k] = <<x, y>>
    <3>1. 3 * x + y + 1 \in 1 .. 9 /\ (3 * x + y) \div 3 = x /\ (3 * x + y) % 3 = y
      OBVIOUS
    <3>2. (3 * x + y + 1) - 1 = 3 * x + y
      OBVIOUS
    <3> QED
      BY <3>1, <3>2 DEF StatePairs
  <2> QED
    BY <2>2, <2>3
<1>2. SelectedFrom(m, StatePairs, S, Pairs)
  <2> HIDE DEF S, Pairs
  <2> QED
    BY <1>1, ElementsFacts
<1> HIDE DEF m
<1>3. /\ n \in Nat /\ DOMAIN m = 1 .. n /\ \A k \in 1 .. n : m[k] \in Pairs
  <2> HIDE DEF S, Pairs
  <2> QED
    BY <1>2 DEF SelectedFrom
<1> HIDE DEF n
<1>4. \A k \in 1 .. n : m[k] \in S
  <2> HIDE DEF S, Pairs
  <2> QED
    BY <1>2, <1>3 DEF SelectedFrom
<1>5. ASSUME NEW x \in 0 .. 2, NEW y \in 0 .. 2
      PROVE  (\E k \in 1 .. n : m[k] = <<x, y>>) <=> compareTri(x, y, op) = want
  <2>1. <<x, y>> \in S <=> compareTri(x, y, op) = want
    OBVIOUS
  <2> HIDE DEF S, Pairs
  <2>2. \E j \in DOMAIN StatePairs : StatePairs[j] = <<x, y>>
    BY <1>1
  <2>3. <<x, y>> \in S => \E k \in 1 .. n : m[k] = <<x, y>>
    BY <1>2, <1>3, <2>2 DEF SelectedFrom
  <2> QED
    BY <1>4, <2>1, <2>3
<1> HIDE DEF S
<1>6. ASSUME NEW k \in 1 .. n
      PROVE  /\ results[k] = andOf(l[m[k][1]], r[m[k][2]])
             /\ m[k] = <<m[k][1], m[k][2]>>
             /\ BothOf(andOf(l[m[k][1]], r[m[k][2]]), l, r, m[k][1], m[k][2])
  <2>1. results[k] = andOf(l[m[k][1]], r[m[k][2]])
    OBVIOUS
  <2>2. m[k][1] \in 0 .. 2 /\ m[k][2] \in 0 .. 2 /\ m[k] = <<m[k][1], m[k][2]>>
    BY <1>3
  <2>3. BothOf(andOf(l[m[k][1]], r[m[k][2]]), l, r, m[k][1], m[k][2])
    BY <2>2, BothStates
  <2> QED
    BY <2>1, <2>2, <2>3
<1>7. results \in Seq(Seq(Dnfs)) /\ Len(results) = n
  <2>1. \A k \in 1 .. n : andOf(l[m[k][1]], r[m[k][2]]) \in Seq(Dnfs)
    BY <1>6 DEF BothOf
  <2> QED
    BY <1>3, <2>1
<1>8. encodeTriCompareState(op, l, r, want) = anyOf(results)
  BY DEF encodeTriCompareState, m, n, S
<1> HIDE DEF results
<1>9. DisjunctionOf(anyOf(results), results, n)
  BY <1>7, AnyOfFacts
<1>10. ASSUME anyOf(results) # <<>>, NEW v, NEW x \in 0 .. 2, NEW y \in 0 .. 2,
              Says(l, v, x), Says(r, v, y)
       PROVE  satisfied(anyOf(results)[1], v) <=> compareTri(x, y, op) = want
  <2>1. \A k \in 1 .. n : satisfied(results[k][1], v) <=> m[k] = <<x, y>>
    BY <1>6, <1>9, <1>10 DEF DisjunctionOf, BothOf
  <2>2. OneSatisfied(results, n, v) <=> \E k \in 1 .. n : m[k] = <<x, y>>
    BY <2>1 DEF OneSatisfied
  <2> QED
    BY <1>5, <1>9, <1>10, <2>2 DEF DisjunctionOf
<1> QED
  BY <1>8, <1>9, <1>10 DEF DisjunctionOf, ComparisonOf

\* The result d, if any, holds where expression e is in state s.
StateOf(d, e, s) ==
  /\ d \in Seq(Dnfs)
  /\ d # <<>> => \A v \in Valuations : satisfied(d[1], v) <=> valueOf(v)[e] = s

\* A constant result is right when the answer is the same everywhere.
LEMMA AlwaysMeans ==
  ASSUME NEW e, NEW s, NEW b, b \in BOOLEAN,
         \A v \in Valuations : b <=> valueOf(v)[e] = s
  PROVE  StateOf(always(b), e, s)
<1>1. CASE b
  BY <1>1, AlwaysFacts DEF always, StateOf
<1>2. CASE ~ b
  BY <1>2, AlwaysFacts DEF always, StateOf
<1> QED
  BY <1>1, <1>2

\* So is one term.
LEMMA TermMeans ==
  ASSUME NEW e, NEW s, NEW t, t \in AllTerms,
         \A v \in Valuations : termHolds(t, v) <=> valueOf(v)[e] = s
  PROVE  StateOf(Term(t), e, s)
<1>1. << {t} >> \in Dnfs /\ \A v : satisfied(<< {t} >>, v) <=> termHolds(t, v)
  BY SingleTerm
<1>2. Term(t) \in Seq(Dnfs) /\ Term(t) # <<>> /\ Term(t)[1] = << {t} >>
  BY <1>1 DEF Term
<1> QED
  BY <1>1, <1>2 DEF StateOf

\* symbolState, for every type of symbol.
LEMMA SymbolStateFacts ==
  ASSUME NEW e \in Expressions, IsSymbol(e), NEW s \in 0 .. 2
  PROVE  StateOf(symbolState(e, s), e, s)
<1>1. \A v : valueOf(v)[e] = IF operand(e, v) \in 0 .. 2 THEN operand(e, v) ELSE triN
  BY ValueFacts DEF valueGiven, IsSymbol
<1>2. CASE e[1] = "const"
  <2>1. symbolState(e, s) = IF IsTriConst(e) THEN always(e[2] = s) ELSE <<>>
    BY <1>2 DEF symbolState
  <2>2. CASE IsTriConst(e)
    <3>1. \A v \in Valuations : valueOf(v)[e] = e[2]
      BY <1>1, <1>2, <2>2 DEF operand, IsTriConst
    <3>2. StateOf(always(e[2] = s), e, s)
      BY <3>1, AlwaysMeans
    <3> QED
      BY <2>1, <2>2, <3>2
  <2>3. CASE ~ IsTriConst(e)
    BY <2>1, <2>3 DEF StateOf
  <2> QED
    BY <2>2, <2>3
<1>3. CASE e[1] = "symbol"
  <2>1. e[2] \in TreeSymbols /\ e[1] # "const"
    BY <1>3, ExpressionsAssumption
  <2>2. \A v : operand(e, v) = v[e[2]]
    BY <2>1 DEF operand
  <2>3. CASE Type[e[2]] \in {"undefined", "int"}
    <3>1. symbolState(e, s) = always(s = triN)
      BY <1>3, <2>1, <2>3 DEF symbolState
    <3>2. \A v \in Valuations : valueOf(v)[e] = triN
      BY <1>1, <2>1, <2>2, <2>3, ValuationFacts, DnfAssumption DEF triN
    <3>3. StateOf(always(s = triN), e, s)
      BY <3>2, AlwaysMeans
    <3> QED
      BY <3>1, <3>3
  <2>4. CASE Type[e[2]] = "bool" /\ s = triM
    <3>1. symbolState(e, s) = <<alwaysFalse>>
      BY <1>3, <2>1, <2>4 DEF symbolState
    <3>2. \A v \in Valuations : FALSE <=> valueOf(v)[e] = s
      BY <1>1, <2>1, <2>2, <2>4, ValuationFacts DEF triN, triM, triY
    <3>3. StateOf(always(FALSE), e, s)
      BY <3>2, AlwaysMeans
    <3> QED
      BY <3>1, <3>3 DEF always
  <2>5. CASE Type[e[2]] \in TriTypes /\ ~ (Type[e[2]] = "bool" /\ s = triM)
    <3> DEFINE t == <<"effective", e[2], s>>
    <3>1. symbolState(e, s) = Term(t)
      BY <1>3, <2>1, <2>5 DEF symbolState, TriTypes
    <3>2. t \in AllTerms
      BY <2>1, <2>5 DEF AllTerms, TriSymbols
    <3>3. \A v \in Valuations : v[e[2]] \in 0 .. 2
      BY <2>1, <2>5, ValuationFacts DEF TriTypes, triN, triM, triY
    <3>4. \A v \in Valuations : termHolds(t, v) <=> valueOf(v)[e] = s
      BY <1>1, <2>2, <3>3 DEF termHolds
    <3> HIDE DEF t
    <3> QED
      BY <3>1, <3>2, <3>4, TermMeans
  <2> QED
    BY <2>1, <2>3, <2>4, <2>5, DnfAssumption DEF TriTypes
<1> QED
  BY <1>2, <1>3 DEF IsSymbol

\* The DNFs l say which state expression x is in, whatever the valuation.
SaysOf(l, x) == \A v \in Valuations : Says(l, v, valueOf(v)[x])

\* The result d for state s of expression e is right when its operands' are.
RightGiven(d, l, r, e, s) ==
  /\ d \in Seq(Dnfs)
  /\ SaysOf(l, e[2]) /\ SaysOf(r, e[3]) => StateOf(d, e, s)

\* encodeCompareState, of tristates and of scalars.
LEMMA CompareFacts ==
  ASSUME NEW e, e \in Expressions, e[1] \in CompareOps, NEW l, l \in States, NEW r, r \in States,
         NEW s, s \in 0 .. 2, limit \in Nat
  PROVE  RightGiven(encodeCompareState(e, l, r, s), l, r, e, s)
<1> DEFINE d == encodeCompareState(e, l, r, s)
<1>1. /\ ~ IsSymbol(e) /\ e[1] \notin {"!", "&&", "||"}
      /\ e[2] \in Expressions /\ e[3] \in Expressions
  BY OperandsBelow DEF Below, BinaryOps, CompareOps
<1>2. \A v : valueOf(v)[e] = IF derivedComparisonFor(e)
                             THEN boolTri(compareTri(operand(e[2], v), operand(e[3], v), e[1]))
                             ELSE boolTri(compareTri(valueOf(v)[e[2]], valueOf(v)[e[3]], e[1]))
  BY <1>1, ValueFacts DEF valueGiven
<1>3. \A v : valueOf(v)[e] \in {triN, triY}
  BY <1>2 DEF boolTri
<1>4. CASE s = triM
  <2>1. d = always(FALSE)
    BY <1>4 DEF encodeCompareState, always
  <2>2. \A v \in Valuations : FALSE <=> valueOf(v)[e] = s
    BY <1>3, <1>4 DEF triN, triM, triY
  <2>3. StateOf(always(FALSE), e, s)
    BY <2>2, AlwaysMeans
  <2> QED
    BY <2>1, <2>3 DEF RightGiven, StateOf
<1>5. CASE s # triM /\ isTriExpression[e[2]] /\ isTriExpression[e[3]]
  <2> DEFINE want == s = triY
  <2>1. d = encodeTriCompareState(e[1], l, r, want)
    BY <1>5 DEF encodeCompareState
  <2>2. want \in BOOLEAN /\ s \in {triN, triY}
    BY <1>5 DEF triN, triM, triY
  <2>3. ComparisonOf(encodeTriCompareState(e[1], l, r, want), e[1], l, r, want)
    BY <2>2, CompareStateFacts
  <2>4. ASSUME d # <<>>, SaysOf(l, e[2]), SaysOf(r, e[3]), NEW v \in Valuations
        PROVE  satisfied(d[1], v) <=> valueOf(v)[e] = s
    <3> DEFINE x == valueOf(v)[e[2]]
               y == valueOf(v)[e[3]]
               compares == compareTri(x, y, e[1])
    <3>1. x \in 0 .. 2 /\ y \in 0 .. 2 /\ Says(l, v, x) /\ Says(r, v, y)
      BY <1>1, <2>4, ValueFacts DEF SaysOf
    <3>2. valueOf(v)[e] = boolTri(compares)
      BY <1>5, ScalarOperandFacts
    <3> HIDE DEF x, y, want
    <3>3. satisfied(d[1], v) <=> compares = want
      BY <2>1, <2>3, <2>4, <3>1 DEF ComparisonOf
    <3>4. compares \in BOOLEAN
      <4>1. x \in Int /\ y \in Int
        BY <3>1
      <4>2. CASE e[1] = "="
        BY <4>2 DEF compareTri
      <4>3. CASE e[1] = "!="
        BY <4>3 DEF compareTri
      <4>4. CASE e[1] = "<"
        BY <4>1, <4>4 DEF compareTri
      <4> QED
        BY <4>2, <4>3, <4>4 DEF CompareOps
    <3> HIDE DEF compares, d
    <3> QED
      BY <2>2, <3>2, <3>3, <3>4 DEF boolTri, triN, triY, want
  <2> QED
    BY <2>1, <2>3, <2>4 DEF RightGiven, StateOf, ComparisonOf
<1>6. CASE s # triM /\ ~ (isTriExpression[e[2]] /\ isTriExpression[e[3]])
  <2> DEFINE t == <<"derived", e, s>>
  <2>1. d = IF derivedComparisonFor(e) THEN Term(t) ELSE <<>>
    BY <1>6 DEF encodeCompareState
  <2>2. CASE derivedComparisonFor(e)
    <3>1. t \in AllTerms
      BY <1>6, <2>2 DEF AllTerms, DerivedComparisons, triN, triM, triY
    <3>2. \A v \in Valuations : termHolds(t, v) <=> valueOf(v)[e] = s
      BY DEF termHolds
    <3> HIDE DEF t
    <3>3. StateOf(Term(t), e, s)
      BY <3>1, <3>2, TermMeans
    <3> QED
      BY <2>1, <2>2, <3>3 DEF RightGiven, StateOf
  <2>3. CASE ~ derivedComparisonFor(e)
    BY <2>1, <2>3 DEF RightGiven, StateOf
  <2> QED
    BY <2>2, <2>3
<1> QED
  BY <1>4, <1>5, <1>6

\* encodeStateBody, of one expression, given what there is for its operands.
stateGiven(l, r, e, state) ==
  CASE IsSymbol(e) -> symbolState(e, state)
    [] e[1] = "!" -> l[triY - state]
    [] e[1] = "&&" -> encodeAndStateBody(l, r, state)
    [] e[1] = "||" -> encodeOrStateBody(l, r, state)
    [] OTHER -> encodeCompareState(e, l, r, state)

\* Symbols and constants,
LEMMA SymbolGiven ==
  ASSUME NEW e, e \in Expressions, IsSymbol(e), NEW l, NEW r, NEW s, s \in 0 .. 2
  PROVE  /\ stateGiven(l, r, e, s) = symbolState(e, s)
         /\ StateOf(stateGiven(l, r, e, s), e, s)
BY SymbolStateFacts DEF stateGiven, IsSymbol

\* negations,
LEMMA NotGiven ==
  ASSUME NEW e, e \in Expressions, e[1] = "!", NEW l, l \in States, NEW r, NEW s, s \in 0 .. 2
  PROVE  /\ stateGiven(l, r, e, s) = l[triY - s]
         /\ l[triY - s] \in Seq(Dnfs)
         /\ SaysOf(l, e[2]) => StateOf(stateGiven(l, r, e, s), e, s)
<1>1. ~ IsSymbol(e) /\ e[2] \in Expressions
  BY OperandsBelow DEF Below
<1>2. stateGiven(l, r, e, s) = l[triY - s] /\ triY - s \in 0 .. 2
  BY <1>1 DEF stateGiven, triY
<1>3. l[triY - s] \in Seq(Dnfs)
  BY <1>2 DEF States
<1>4. \A v : valueOf(v)[e] = triY - valueOf(v)[e[2]]
  BY <1>1, ValueFacts DEF valueGiven
<1>5. \A v : valueOf(v)[e] = s <=> valueOf(v)[e[2]] = triY - s
  BY <1>1, <1>4, ValueFacts DEF triY
<1> QED
  BY <1>2, <1>3, <1>5 DEF SaysOf, Says, StateOf

\* and operators of two operands.
LEMMA BinaryGiven ==
  ASSUME NEW e, e \in Expressions, e[1] \in BinaryOps, NEW l, l \in States, NEW r, r \in States,
         NEW s, s \in 0 .. 2, limit \in Nat
  PROVE  RightGiven(stateGiven(l, r, e, s), l, r, e, s)
<1>1. /\ ~ IsSymbol(e) /\ e[1] # "!"
      /\ e[2] \in Expressions /\ e[3] \in Expressions
  BY OperandsBelow DEF Below
<1>2. \A v : valueOf(v)[e[2]] \in 0 .. 2 /\ valueOf(v)[e[3]] \in 0 .. 2
  BY <1>1, ValueFacts
<1>3. CASE e[1] = "&&"
  <2>1. stateGiven(l, r, e, s) = encodeAndStateBody(l, r, s)
    BY <1>1, <1>3 DEF stateGiven
  <2>2. MinOf(encodeAndStateBody(l, r, s), l, r, s)
    BY AndStateFacts
  <2>3. \A v : valueOf(v)[e] = MinTri(valueOf(v)[e[2]], valueOf(v)[e[3]])
    BY <1>1, <1>3, ValueFacts DEF valueGiven
  <2> QED
    BY <1>2, <2>1, <2>2, <2>3 DEF MinOf, SaysOf, StateOf, RightGiven
<1>4. CASE e[1] = "||"
  <2>1. stateGiven(l, r, e, s) = encodeOrStateBody(l, r, s)
    BY <1>1, <1>4 DEF stateGiven
  <2>2. MaxOf(encodeOrStateBody(l, r, s), l, r, s)
    BY OrStateFacts
  <2>3. \A v : valueOf(v)[e] = MaxTri(valueOf(v)[e[2]], valueOf(v)[e[3]])
    BY <1>1, <1>4, ValueFacts DEF valueGiven
  <2> QED
    BY <1>2, <2>1, <2>2, <2>3 DEF MaxOf, SaysOf, StateOf, RightGiven
<1>5. CASE e[1] \notin {"&&", "||"}
  <2>1. e[1] \in CompareOps
    BY <1>5 DEF BinaryOps
  <2>2. stateGiven(l, r, e, s) = encodeCompareState(e, l, r, s)
    BY <1>1, <1>5 DEF stateGiven
  <2> QED
    BY <2>1, <2>2, CompareFacts
<1> QED
  BY <1>3, <1>4, <1>5

\* The DNFs of an operand are its own, or the terms of its three states.
Refers(f, x) ==
  /\ refs(f, x) \in States
  /\ SaysOf(f[x], x) => SaysOf(refs(f, x), x)

\* Either way they say which state the operand is in.
LEMMA RefsFacts ==
  ASSUME NEW f, NEW x, x \in Expressions, f[x] \in States
  PROVE  Refers(f, x)
<1>1. CASE needsConditionTerm[x]
  <2>1. ASSUME NEW s \in 0 .. 2
        PROVE  StateOf(Term(<<"condition", x, s>>), x, s)
    <3> DEFINE t == <<"condition", x, s>>
    <3>1. t \in AllTerms
      BY DEF AllTerms
    <3>2. \A v \in Valuations : termHolds(t, v) <=> valueOf(v)[x] = s
      BY DEF termHolds
    <3> HIDE DEF t
    <3>3. StateOf(Term(t), x, s)
      BY <3>1, <3>2, TermMeans
    <3> QED
      BY <3>3 DEF t
  <2>2. refs(f, x) = [s \in 0 .. 2 |-> Term(<<"condition", x, s>>)]
    BY <1>1 DEF refs
  <2>3. \A s \in 0 .. 2 : refs(f, x)[s] = Term(<<"condition", x, s>>)
    BY <2>2
  <2>4. refs(f, x) \in States
    BY <2>1, <2>2 DEF States, StateOf
  <2>5. SaysOf(refs(f, x), x)
    BY <2>1, <2>3 DEF SaysOf, Says, StateOf
  <2> QED
    BY <2>4, <2>5 DEF Refers
<1>2. CASE ~ needsConditionTerm[x]
  <2>1. refs(f, x) = [s \in 0 .. 2 |-> f[x][s]]
    BY <1>2 DEF refs
  <2>2. refs(f, x) = f[x]
    BY <2>1 DEF States
  <2> QED
    BY <2>2 DEF Refers
<1> QED
  BY <1>1, <1>2

\* encodeStateBody, of one expression, given what it is for others.
bodyGiven(f, e) == [state \in 0 .. 2 |-> stateGiven(refs(f, e[2]), refs(f, e[3]), e, state)]

\* It has three results that depend on the operands alone,
LEMMA BodyGivenFacts ==
  ASSUME NEW e \in Expressions, NEW f, limit \in Nat,
         \A x \in Expressions : Below(e, x) => f[x] \in States
  PROVE  /\ bodyGiven(f, e) \in States
         /\ \A g : (\A x \in Expressions : Below(e, x) => f[x] = g[x])
                     => bodyGiven(f, e) = bodyGiven(g, e)
<1> DEFINE l == refs(f, e[2])
           r == refs(f, e[3])
<1>1. SUFFICES ASSUME NEW s \in 0 .. 2
               PROVE  /\ stateGiven(l, r, e, s) \in Seq(Dnfs)
                      /\ \A g : (\A x \in Expressions : Below(e, x) => f[x] = g[x])
                           => stateGiven(l, r, e, s)
                                = stateGiven(refs(g, e[2]), refs(g, e[3]), e, s)
  BY DEF bodyGiven, States
<1>2. CASE IsSymbol(e)
  BY <1>2, SymbolGiven DEF StateOf
<1>3. CASE e[1] = "!"
  <2>1. e[2] \in Expressions /\ Below(e, e[2])
    BY <1>3, OperandsBelow DEF Below
  <2>2. l \in States
    BY <2>1, RefsFacts DEF Refers
  <2>3. \A g : f[e[2]] = g[e[2]] => l = refs(g, e[2])
    BY DEF refs
  <2> HIDE DEF l, r
  <2>4. stateGiven(l, r, e, s) \in Seq(Dnfs)
    BY <1>3, <2>2, NotGiven
  <2>5. \A k : stateGiven(l, k, e, s) = l[triY - s]
    BY <1>3, <2>2, NotGiven
  <2> QED
    BY <2>1, <2>3, <2>4, <2>5
<1>4. CASE e[1] \in BinaryOps
  <2>1. e[2] \in Expressions /\ Below(e, e[2]) /\ e[3] \in Expressions /\ Below(e, e[3])
    BY <1>4, OperandsBelow DEF Below
  <2>2. l \in States /\ r \in States
    BY <2>1, RefsFacts DEF Refers
  <2>3. \A g : /\ f[e[2]] = g[e[2]] => l = refs(g, e[2])
               /\ f[e[3]] = g[e[3]] => r = refs(g, e[3])
    BY DEF refs
  <2> HIDE DEF l, r
  <2>4. stateGiven(l, r, e, s) \in Seq(Dnfs)
    BY <1>4, <2>2, BinaryGiven DEF RightGiven
  <2> QED
    BY <2>1, <2>3, <2>4
<1> QED
  BY <1>2, <1>3, <1>4, OperandsBelow

\* and says which state the expression is in, when the operands' do.
LEMMA BodyGivenSays ==
  ASSUME NEW e \in Expressions, NEW f, limit \in Nat,
         \A x \in Expressions : Below(e, x) => f[x] \in States /\ SaysOf(f[x], x)
  PROVE  SaysOf(bodyGiven(f, e), e)
<1> DEFINE l == refs(f, e[2])
           r == refs(f, e[3])
<1>1. SUFFICES ASSUME NEW s \in 0 .. 2
               PROVE  StateOf(stateGiven(l, r, e, s), e, s)
  <2>1. \A s \in 0 .. 2 : bodyGiven(f, e)[s] = stateGiven(l, r, e, s)
    BY DEF bodyGiven
  <2> QED
    BY <1>1, <2>1 DEF SaysOf, Says, StateOf
<1>2. CASE IsSymbol(e)
  BY <1>2, SymbolGiven
<1>3. CASE e[1] = "!"
  <2>1. e[2] \in Expressions /\ Below(e, e[2])
    BY <1>3, OperandsBelow DEF Below
  <2>2. l \in States /\ SaysOf(l, e[2])
    BY <2>1, RefsFacts DEF Refers
  <2> HIDE DEF l, r
  <2> QED
    BY <1>3, <2>2, NotGiven
<1>4. CASE e[1] \in BinaryOps
  <2>1. e[2] \in Expressions /\ Below(e, e[2]) /\ e[3] \in Expressions /\ Below(e, e[3])
    BY <1>4, OperandsBelow DEF Below
  <2>2. l \in States /\ SaysOf(l, e[2]) /\ r \in States /\ SaysOf(r, e[3])
    BY <2>1, RefsFacts DEF Refers
  <2> HIDE DEF l, r
  <2> QED
    BY <1>4, <2>2, BinaryGiven DEF RightGiven
<1> QED
  BY <1>2, <1>3, <1>4, OperandsBelow

\* encodeStateBody is defined, and each of its DNFs is right.
LEMMA EncodeStateBodyFacts ==
  ASSUME limit \in Nat
  PROVE  \A e \in Expressions : /\ encodeStateBody[e] \in States
                                /\ SaysOf(encodeStateBody[e], e)
<1> DEFINE E == Expressions
           V == States
           IsBody(h) == h = [e \in E |-> bodyGiven(h, e)]
           body == [f \in [E -> V] |-> [e \in E |-> bodyGiven(f, e)]]
           bodies == CHOOSE h : IsBody(h)
<1>1. Recursive(E, levels, V, body)
  <2>1. body \in [[E -> V] -> [E -> V]]
    <3>1. ASSUME NEW f \in [E -> V], NEW e \in E
          PROVE  bodyGiven(f, e) \in V
      BY BodyGivenFacts
    <3> HIDE DEF V
    <3> QED
      BY <3>1
  <2>2. ASSUME NEW f \in [E -> V], NEW g \in [E -> V], NEW e \in E,
               \A z \in E : levels[z] < levels[e] => f[z] = g[z]
        PROVE  body[f][e] = body[g][e]
    <3>1. bodyGiven(f, e) = bodyGiven(g, e)
      <4>1. \A x \in Expressions : f[x] \in States
        OBVIOUS
      <4>2. \A x \in Expressions : Below(e, x) => f[x] = g[x]
        BY <2>2 DEF Below
      <4> HIDE DEF V
      <4> QED
        BY <4>1, <4>2, BodyGivenFacts
    <3>2. body[f][e] = bodyGiven(f, e) /\ body[g][e] = bodyGiven(g, e)
      <4> HIDE DEF V
      <4> QED
        BY DEF body
    <3> QED
      BY <3>1, <3>2
  <2>3. V # {}
    <3>1. [s \in 0 .. 2 |-> <<alwaysFalse>>] \in States
      BY AlwaysFacts DEF States
    <3> QED
      BY <3>1
  <2> HIDE DEF body, V
  <2> QED
    BY <2>1, <2>2, <2>3, OperandsBelow DEF Recursive
<1>2. PICK f \in [E -> V] : f = body[f]
  <2> HIDE DEF body, V
  <2> QED
    BY <1>1, RecursionSolves DEF Solvable
<1>3. IsBody(f)
  <2> HIDE DEF V
  <2> QED
    BY <1>2
<1>4. IsBody(bodies)
  <2> HIDE DEF IsBody
  <2> QED
    BY <1>3
<1>5. encodeStateBody = bodies
  BY DEF encodeStateBody, bodyGiven, stateGiven
<1> HIDE DEF bodies
<1>6. \A e \in E : bodies[e] = bodyGiven(bodies, e)
  BY <1>4
<1> DEFINE P == {e \in E : bodies[e] \in States /\ SaysOf(bodies[e], e)}
<1>7. ASSUME NEW e \in E, \A z \in E : levels[z] < levels[e] => z \in P
      PROVE  e \in P
  <2>1. \A x \in Expressions : Below(e, x) => bodies[x] \in States /\ SaysOf(bodies[x], x)
    BY <1>7 DEF Below
  <2>2. bodyGiven(bodies, e) \in States
    BY <2>1, BodyGivenFacts
  <2>3. SaysOf(bodyGiven(bodies, e), e)
    BY <2>1, BodyGivenSays
  <2> QED
    BY <1>6, <2>2, <2>3
<1>8. E \subseteq P
  <2> HIDE DEF P
  <2> QED
    BY <1>7, OperandsBelow, DepthInduction
<1> QED
  BY <1>5, <1>8

(***************************************************************************)
(* encodeEnabled and its shortcuts.                                        *)
(***************************************************************************)

\* What collectEvalSymbols collects.
SymbolSets == {S \in SUBSET TreeSymbols : IsFiniteSet(S)}

\* The symbols of an expression given those of its operands; nothing where the
\* code gives up.
collectGiven(f, e) ==
  CASE e[1] = "const" -> IF IsTriConst(e) THEN <<{}>> ELSE <<>>
    [] e[1] = "symbol" -> <<{e[2]}>>
    [] e[1] = "!" -> f[e[2]]
    [] OTHER ->
         IF \/ e[1] \notin {"&&", "||", "=", "!="}
            \/ f[e[2]] = <<>> \/ f[e[3]] = <<>>
         THEN <<>>
         ELSE <<f[e[2]][1] \cup f[e[3]][1]>>

\* It depends on the operands alone.
LEMMA CollectGivenFacts ==
  ASSUME NEW e, e \in Expressions, NEW f, \A x \in Expressions : Below(e, x) => f[x] \in Seq(SymbolSets)
  PROVE  /\ collectGiven(f, e) \in Seq(SymbolSets)
         /\ \A g : (\A x \in Expressions : Below(e, x) => f[x] = g[x])
                     => collectGiven(f, e) = collectGiven(g, e)
<1>0. <<>> \in Seq(SymbolSets)
  OBVIOUS
<1>1. CASE e[1] = "const"
  <2>1. {} \in SymbolSets
    BY FS_EmptySet DEF SymbolSets
  <2>2. <<>> \in Seq(SymbolSets) /\ <<{}>> \in Seq(SymbolSets)
    BY <2>1
  <2>3. \A g : collectGiven(g, e) = IF IsTriConst(e) THEN <<{}>> ELSE <<>>
    BY <1>1 DEF collectGiven
  <2> QED
    BY <2>2, <2>3
<1>2. CASE e[1] = "symbol"
  <2>1. {e[2]} \in SymbolSets
    BY <1>2, ExpressionsAssumption, FS_Singleton DEF SymbolSets
  <2>2. \A g : collectGiven(g, e) = <<{e[2]}>>
    BY <1>2 DEF collectGiven
  <2>3. collectGiven(f, e) \in Seq(SymbolSets)
    <3> HIDE DEF SymbolSets
    <3>1. collectGiven(f, e) = <<{e[2]}>>
      BY <2>2
    <3> QED
      BY <2>1, <3>1
  <2>4. \A g : collectGiven(f, e) = collectGiven(g, e)
    BY <2>2
  <2> QED
    BY <2>3, <2>4
<1>3. CASE e[1] = "!"
  <2>1. e[2] \in Expressions /\ Below(e, e[2])
    BY <1>3, OperandsBelow DEF Below
  <2>2. \A g : collectGiven(g, e) = g[e[2]]
    BY <1>3 DEF collectGiven
  <2>3. f[e[2]] \in Seq(SymbolSets)
    BY <2>1
  <2>4. collectGiven(f, e) \in Seq(SymbolSets)
    BY <2>2, <2>3
  <2>5. ASSUME NEW g, \A x \in Expressions : Below(e, x) => f[x] = g[x]
        PROVE  collectGiven(f, e) = collectGiven(g, e)
    <3>1. f[e[2]] = g[e[2]]
      BY <2>1, <2>5
    <3> QED
      BY <2>2, <3>1
  <2> QED
    BY <2>4, <2>5
<1>4. CASE e[1] \in BinaryOps
  <2> DEFINE gives(g) == \/ e[1] \notin {"&&", "||", "=", "!="}
                         \/ g[e[2]] = <<>> \/ g[e[3]] = <<>>
  <2>1. /\ ~ IsSymbol(e) /\ e[1] # "!"
        /\ e[2] \in Expressions /\ Below(e, e[2]) /\ e[3] \in Expressions /\ Below(e, e[3])
    BY <1>4, OperandsBelow DEF Below
  <2>2. \A g : collectGiven(g, e) = IF gives(g) THEN <<>> ELSE <<g[e[2]][1] \cup g[e[3]][1]>>
    BY <2>1 DEF collectGiven, IsSymbol
  <2>3. f[e[2]] \in Seq(SymbolSets) /\ f[e[3]] \in Seq(SymbolSets)
    BY <2>1
  <2>4. collectGiven(f, e) \in Seq(SymbolSets)
    <3>1. CASE gives(f)
      <4>1. collectGiven(f, e) = <<>>
        BY <2>2, <3>1
      <4> QED
        BY <1>0, <4>1
    <3>2. CASE ~ gives(f)
      <4>1. collectGiven(f, e) = <<f[e[2]][1] \cup f[e[3]][1]>>
        BY <2>2, <3>2
      <4>2. f[e[2]][1] \in SymbolSets /\ f[e[3]][1] \in SymbolSets
        BY <2>3, <3>2
      <4>3. f[e[2]][1] \cup f[e[3]][1] \in SymbolSets
        BY <4>2, FS_Union DEF SymbolSets
      <4> QED
        BY <4>1, <4>3
    <3> QED
      BY <3>1, <3>2
  <2>5. ASSUME NEW g, \A x \in Expressions : Below(e, x) => f[x] = g[x]
        PROVE  collectGiven(f, e) = collectGiven(g, e)
    <3>1. f[e[2]] = g[e[2]] /\ f[e[3]] = g[e[3]]
      BY <2>1, <2>5
    <3> QED
      BY <2>2, <3>1
  <2> QED
    BY <2>4, <2>5
<1> QED
  BY <1>1, <1>2, <1>3, <1>4, OperandsBelow DEF IsSymbol

\* collectEvalSymbols is defined.
LEMMA CollectFacts ==
  \A e \in Expressions : /\ collectEvalSymbols[e] \in Seq(SymbolSets)
                         /\ collectEvalSymbols[e] = collectGiven(collectEvalSymbols, e)
<1> DEFINE E == Expressions
           V == Seq(SymbolSets)
           IsCollected(h) == h = [e \in E |-> collectGiven(h, e)]
           body == [f \in [E -> V] |-> [e \in E |-> collectGiven(f, e)]]
           collected == CHOOSE h : IsCollected(h)
<1>1. Recursive(E, levels, V, body)
  <2>1. body \in [[E -> V] -> [E -> V]]
    <3>1. ASSUME NEW f \in [E -> V], NEW e \in E
          PROVE  collectGiven(f, e) \in V
      BY CollectGivenFacts
    <3> HIDE DEF V
    <3> QED
      BY <3>1
  <2>2. ASSUME NEW f \in [E -> V], NEW g \in [E -> V], NEW e \in E,
               \A z \in E : levels[z] < levels[e] => f[z] = g[z]
        PROVE  body[f][e] = body[g][e]
    <3>1. collectGiven(f, e) = collectGiven(g, e)
      <4>1. \A x \in Expressions : f[x] \in Seq(SymbolSets)
        OBVIOUS
      <4>2. \A x \in Expressions : Below(e, x) => f[x] = g[x]
        BY <2>2 DEF Below
      <4> HIDE DEF V
      <4> QED
        BY <4>1, <4>2, CollectGivenFacts
    <3>2. body[f][e] = collectGiven(f, e) /\ body[g][e] = collectGiven(g, e)
      <4> HIDE DEF V
      <4> QED
        BY DEF body
    <3> QED
      BY <3>1, <3>2
  <2>3. V # {}
    <3>1. <<>> \in V
      OBVIOUS
    <3> QED
      BY <3>1
  <2> HIDE DEF body, V
  <2> QED
    BY <2>1, <2>2, <2>3, OperandsBelow DEF Recursive
<1>2. PICK f \in [E -> V] : f = body[f]
  <2> HIDE DEF body, V
  <2> QED
    BY <1>1, RecursionSolves DEF Solvable
<1>3. IsCollected(f)
  <2> HIDE DEF V
  <2> QED
    BY <1>2
<1>4. IsCollected(collected)
  <2> HIDE DEF IsCollected
  <2> QED
    BY <1>3
<1>5. collectEvalSymbols = collected
  BY DEF collectEvalSymbols, collectGiven
<1> HIDE DEF collected
<1>6. \A e \in E : collected[e] = collectGiven(collected, e)
  BY <1>4
<1> DEFINE P == {e \in E : collected[e] \in V}
<1>7. ASSUME NEW e \in E, \A z \in E : levels[z] < levels[e] => z \in P
      PROVE  e \in P
  <2>1. \A x \in Expressions : Below(e, x) => collected[x] \in Seq(SymbolSets)
    BY <1>7 DEF Below
  <2> QED
    BY <1>6, <2>1, CollectGivenFacts
<1>8. E \subseteq P
  <2> HIDE DEF P
  <2> QED
    BY <1>7, OperandsBelow, DepthInduction
<1> QED
  BY <1>5, <1>6, <1>8

\* evalTri of one expression.
evalGiven(f, e, state) ==
  CASE e[1] = "const" -> e[2]
    [] e[1] = "symbol" -> state
    [] e[1] = "!" -> triY - f[e[2]]
    [] e[1] = "&&" -> MinTri(f[e[2]], f[e[3]])
    [] e[1] = "||" -> MaxTri(f[e[2]], f[e[3]])
    [] OTHER -> boolTri(compareTri(f[e[2]], f[e[3]], e[1]))

\* It is a number that depends on the operands alone.
LEMMA EvalGivenFacts ==
  ASSUME NEW e, e \in Expressions, NEW f, NEW state, state \in 0 .. 2,
         \A x \in Expressions : Below(e, x) => f[x] \in Int
  PROVE  /\ evalGiven(f, e, state) \in Int
         /\ \A g : (\A x \in Expressions : Below(e, x) => f[x] = g[x])
                     => evalGiven(f, e, state) = evalGiven(g, e, state)
<1>1. CASE e[1] = "const"
  <2>1. \A g : evalGiven(g, e, state) = e[2]
    BY <1>1 DEF evalGiven
  <2>2. e[2] \in Int
    <3>1. e[2] \in (0 .. 2) \cup Numbers
      BY <1>1, ExpressionsAssumption
    <3>2. Numbers \subseteq Int
      BY DnfAssumption
    <3>3. e[2] \in 0 .. 2 \/ e[2] \in Numbers
      BY <3>1
    <3>4. \A x : x \in 0 .. 2 \/ x \in Numbers => x \in Int
      <4>1. \A x \in 0 .. 2 : x \in Int
        OBVIOUS
      <4>2. \A x \in Numbers : x \in Int
        BY <3>2, Zenon
      <4> QED
        BY <4>1, <4>2, Zenon
    <3> QED
      BY <3>3, <3>4, Zenon
  <2> QED
    BY <2>1, <2>2
<1>2. CASE e[1] = "symbol"
  <2>1. \A g : evalGiven(g, e, state) = state
    BY <1>2 DEF evalGiven
  <2> QED
    BY <2>1
<1>3. CASE e[1] = "!"
  <2>1. e[2] \in Expressions /\ Below(e, e[2])
    BY <1>3, OperandsBelow DEF Below
  <2>2. \A g : evalGiven(g, e, state) = triY - g[e[2]]
    BY <1>3 DEF evalGiven
  <2> QED
    BY <2>1, <2>2 DEF triY
<1>4. CASE e[1] \in BinaryOps
  <2>1. /\ ~ IsSymbol(e) /\ e[1] # "!"
        /\ e[2] \in Expressions /\ Below(e, e[2]) /\ e[3] \in Expressions /\ Below(e, e[3])
    BY <1>4, OperandsBelow DEF Below
  <2>2. f[e[2]] \in Int /\ f[e[3]] \in Int
    BY <2>1
  <2>3. CASE e[1] = "&&"
    <3>1. \A g : evalGiven(g, e, state) = MinTri(g[e[2]], g[e[3]])
      BY <2>3 DEF evalGiven
    <3> QED
      BY <2>1, <2>2, <3>1 DEF MinTri
  <2>4. CASE e[1] = "||"
    <3>1. \A g : evalGiven(g, e, state) = MaxTri(g[e[2]], g[e[3]])
      BY <2>4 DEF evalGiven
    <3> QED
      BY <2>1, <2>2, <3>1 DEF MaxTri
  <2>5. CASE e[1] \notin {"&&", "||"}
    <3>1. \A g : evalGiven(g, e, state) = boolTri(compareTri(g[e[2]], g[e[3]], e[1]))
      BY <2>1, <2>5 DEF evalGiven, IsSymbol
    <3>2. \A b : boolTri(b) \in Int
      BY DEF boolTri, triY, triN
    <3> QED
      BY <2>1, <3>1, <3>2
  <2> QED
    BY <2>3, <2>4, <2>5
<1> QED
  BY <1>1, <1>2, <1>3, <1>4, OperandsBelow DEF IsSymbol

\* evalTri is defined.
LEMMA EvalTriFacts ==
  ASSUME NEW state, state \in 0 .. 2
  PROVE  \A e \in Expressions : evalTri(state)[e] = evalGiven(evalTri(state), e, state)
<1> DEFINE E == Expressions
           V == Int
           IsEval(h) == h = [e \in E |-> evalGiven(h, e, state)]
           body == [f \in [E -> V] |-> [e \in E |-> evalGiven(f, e, state)]]
           evaluated == CHOOSE h : IsEval(h)
<1>1. Recursive(E, levels, V, body)
  <2>1. body \in [[E -> V] -> [E -> V]]
    <3>1. ASSUME NEW f \in [E -> V], NEW e \in E
          PROVE  evalGiven(f, e, state) \in V
      BY EvalGivenFacts
    <3> HIDE DEF V
    <3> QED
      BY <3>1
  <2>2. ASSUME NEW f \in [E -> V], NEW g \in [E -> V], NEW e \in E,
               \A z \in E : levels[z] < levels[e] => f[z] = g[z]
        PROVE  body[f][e] = body[g][e]
    <3>1. evalGiven(f, e, state) = evalGiven(g, e, state)
      BY <2>2, EvalGivenFacts DEF Below
    <3>2. body[f][e] = evalGiven(f, e, state) /\ body[g][e] = evalGiven(g, e, state)
      BY DEF body
    <3> QED
      BY <3>1, <3>2
  <2>3. V # {}
    OBVIOUS
  <2> HIDE DEF body, V
  <2> QED
    BY <2>1, <2>2, <2>3, OperandsBelow DEF Recursive
<1>2. PICK f \in [E -> V] : f = body[f]
  <2> HIDE DEF body, V
  <2> QED
    BY <1>1, RecursionSolves DEF Solvable
<1>3. IsEval(f)
  BY <1>2
<1>4. IsEval(evaluated)
  <2> HIDE DEF IsEval
  <2> QED
    BY <1>3
<1>5. evalTri(state) = evaluated
  BY DEF evalTri, evalGiven
<1> HIDE DEF evaluated
<1> QED
  BY <1>4, <1>5

\* The symbols of e are all in this state.
AllIn(e, state, v) ==
  collectEvalSymbols[e] # <<>> /\ \A x \in collectEvalSymbols[e][1] : v[x] = state

\* evalTri with the symbols in one state is the value where they are in it.
LEMMA EvalAgrees ==
  ASSUME NEW state, state \in 0 .. 2, NEW v, v \in Valuations
  PROVE  \A e \in Expressions : AllIn(e, state, v) => evalTri(state)[e] = valueOf(v)[e]
<1> DEFINE E == Expressions
           value == valueOf(v)
           eval == evalTri(state)
           P == {e \in E : AllIn(e, state, v) => eval[e] = value[e]}
<1>1. \A e \in E : eval[e] = evalGiven(eval, e, state) /\ value[e] = valueGiven(value, e, v)
  BY EvalTriFacts, ValueFacts
<1>2. \A e \in E : collectEvalSymbols[e] = collectGiven(collectEvalSymbols, e)
  BY CollectFacts
<1> HIDE DEF eval, value
<1>3. ASSUME NEW e \in E, IsSymbol(e), AllIn(e, state, v)
      PROVE  operand(e, v) \in 0 .. 2 /\ eval[e] = operand(e, v) /\ value[e] = operand(e, v)
  <2>1. value[e] = IF operand(e, v) \in 0 .. 2 THEN operand(e, v) ELSE triN
    BY <1>1, <1>3 DEF valueGiven, IsSymbol
  <2>2. CASE e[1] = "const"
    <3>1. collectEvalSymbols[e] = IF IsTriConst(e) THEN <<{}>> ELSE <<>>
      BY <1>2, <2>2 DEF collectGiven
    <3>2. e[2] \in 0 .. 2
      BY <1>3, <3>1 DEF AllIn, IsTriConst
    <3>3. eval[e] = e[2]
      BY <1>1, <2>2 DEF evalGiven
    <3> QED
      BY <2>1, <2>2, <3>2, <3>3 DEF operand
  <2>3. CASE e[1] = "symbol"
    <3>1. collectEvalSymbols[e] = <<{e[2]}>>
      BY <1>2, <2>3 DEF collectGiven
    <3>2. v[e[2]] = state
      BY <1>3, <3>1 DEF AllIn
    <3>3. eval[e] = state
      BY <1>1, <2>3 DEF evalGiven
    <3> QED
      BY <2>1, <2>3, <3>2, <3>3 DEF operand
  <2> QED
    BY <1>3, <2>2, <2>3 DEF IsSymbol
<1>4. ASSUME NEW e \in E, \A z \in E : levels[z] < levels[e] => z \in P
      PROVE  e \in P
  <2> SUFFICES ASSUME AllIn(e, state, v)
               PROVE  eval[e] = value[e]
    OBVIOUS
  <2>1. \A x \in E : Below(e, x) /\ AllIn(x, state, v) => eval[x] = value[x]
    BY <1>4 DEF Below
  <2>2. CASE IsSymbol(e)
    BY <1>3, <2>2
  <2>3. CASE e[1] = "!"
    <3>1. e[2] \in E /\ Below(e, e[2]) /\ ~ IsSymbol(e)
      BY <2>3, OperandsBelow DEF Below
    <3>2. collectEvalSymbols[e] = collectEvalSymbols[e[2]]
      BY <1>2, <2>3 DEF collectGiven
    <3>3. eval[e] = triY - eval[e[2]]
      BY <1>1, <2>3 DEF evalGiven
    <3>4. value[e] = triY - value[e[2]]
      BY <1>1, <2>3, <3>1 DEF valueGiven
    <3>5. AllIn(e[2], state, v)
      BY <3>2 DEF AllIn
    <3> QED
      BY <2>1, <3>1, <3>3, <3>4, <3>5
  <2>4. CASE e[1] \in BinaryOps
    <3>1. /\ ~ IsSymbol(e) /\ e[1] # "!"
          /\ e[2] \in E /\ Below(e, e[2]) /\ e[3] \in E /\ Below(e, e[3])
      BY <2>4, OperandsBelow DEF Below
    <3> DEFINE c2 == collectEvalSymbols[e[2]]
               c3 == collectEvalSymbols[e[3]]
               gives == e[1] \notin {"&&", "||", "=", "!="} \/ c2 = <<>> \/ c3 = <<>>
    <3>2. collectEvalSymbols[e] = IF gives THEN <<>> ELSE <<c2[1] \cup c3[1]>>
      BY <1>2, <3>1 DEF collectGiven, IsSymbol
    <3>3. AllIn(e[2], state, v) /\ AllIn(e[3], state, v)
      <4>1. ~ gives
        BY <3>2 DEF AllIn
      <4>2. collectEvalSymbols[e][1] = c2[1] \cup c3[1]
        BY <3>2, <4>1
      <4> QED
        BY <4>1, <4>2 DEF AllIn
    <3>4. eval[e[2]] = value[e[2]] /\ eval[e[3]] = value[e[3]]
      BY <2>1, <3>1, <3>3
    <3>5. CASE e[1] = "&&"
      <4>1. eval[e] = MinTri(eval[e[2]], eval[e[3]])
        BY <1>1, <3>5 DEF evalGiven
      <4>2. value[e] = MinTri(value[e[2]], value[e[3]])
        BY <1>1, <3>1, <3>5 DEF valueGiven
      <4> QED
        BY <3>4, <4>1, <4>2
    <3>6. CASE e[1] = "||"
      <4>1. eval[e] = MaxTri(eval[e[2]], eval[e[3]])
        BY <1>1, <3>6 DEF evalGiven
      <4>2. value[e] = MaxTri(value[e[2]], value[e[3]])
        BY <1>1, <3>1, <3>6 DEF valueGiven
      <4> QED
        BY <3>4, <4>1, <4>2
    <3>7. CASE e[1] \notin {"&&", "||"}
      <4>1. eval[e] = boolTri(compareTri(eval[e[2]], eval[e[3]], e[1]))
        BY <1>1, <3>1, <3>7 DEF evalGiven, IsSymbol
      <4>2. value[e] = IF derivedComparisonFor(e)
                       THEN boolTri(compareTri(operand(e[2], v), operand(e[3], v), e[1]))
                       ELSE boolTri(compareTri(value[e[2]], value[e[3]], e[1]))
        BY <1>1, <3>1, <3>7 DEF valueGiven
      <4>3. derivedComparisonFor(e) =>
              operand(e[2], v) = value[e[2]] /\ operand(e[3], v) = value[e[3]]
        BY <1>3, <3>1, <3>3 DEF derivedComparisonFor
      <4> QED
        BY <3>4, <4>1, <4>2, <4>3
    <3> QED
      BY <3>5, <3>6, <3>7
  <2> QED
    BY <2>2, <2>3, <2>4, OperandsBelow
<1>5. E \subseteq P
  <2> HIDE DEF P
  <2> QED
    BY <1>4, OperandsBelow, DepthInduction
<1> QED
  BY <1>5 DEF eval, value

\* The result d, if any, holds where expression e is enabled.
EnabledOf(d, e) ==
  /\ d \in Seq(Dnfs)
  /\ d # <<>> => \A v \in Valuations : satisfied(d[1], v) <=> valueOf(v)[e] # triN

\* encodeInvariantEnabled: an expression of one symbol that is enabled in every
\* state of the symbol, or in none, is enabled in every valuation, or in none.
LEMMA InvariantFacts ==
  ASSUME NEW e, e \in Expressions
  PROVE  EnabledOf(encodeInvariantEnabled(e), e)
<1> DEFINE symbols == collectEvalSymbols[e]
           S == symbols[1]
           states == statesOf(S)
           enabled == {evalTri(s)[e] # triN : s \in states[1]}
           d == encodeInvariantEnabled(e)
<1>1. d = IF symbols = <<>> \/ Cardinality(S) > 1 \/ states = <<>> THEN <<>>
          ELSE IF Cardinality(enabled) = 1 THEN always(TRUE \in enabled) ELSE <<>>
  BY DEF encodeInvariantEnabled
<1>2. CASE d = <<>>
  BY <1>2 DEF EnabledOf
<1>3. CASE d # <<>>
  <2>1. /\ symbols # <<>> /\ ~ Cardinality(S) > 1 /\ states # <<>>
        /\ Cardinality(enabled) = 1 /\ d = always(TRUE \in enabled)
    BY <1>1, <1>3
  <2>2. S \in SUBSET TreeSymbols /\ IsFiniteSet(S)
    <3>1. symbols \in Seq(SymbolSets)
      BY CollectFacts
    <3> HIDE DEF symbols
    <3>2. symbols[1] \in SymbolSets
      BY <2>1, <3>1
    <3> QED
      BY <3>2 DEF SymbolSets
  <2>3. S = {} \/ \E x : S = {x}
    <3> HIDE DEF S
    <3>1. Cardinality(S) \in Nat
      BY <2>2, FS_CardinalityType
    <3>2. Cardinality(S) = 0 \/ Cardinality(S) = 1
      BY <2>1, <3>1
    <3> QED
      BY <2>2, <3>2, FS_EmptySet, FS_Singleton
  <2>4. ASSUME NEW v \in Valuations
        PROVE  \E state \in states[1] : state \in 0 .. 2 /\ AllIn(e, state, v)
    <3>1. CASE S = {}
      <4>1. states = <<{triN}>>
        BY <3>1 DEF statesOf
      <4>2. AllIn(e, triN, v)
        BY <2>1, <3>1 DEF AllIn
      <4> QED
        BY <4>1, <4>2 DEF triN
    <3>2. CASE S # {}
      <4>1. PICK x : S = {x} /\ x \in TreeSymbols
        BY <2>2, <2>3, <3>2
      <4>2. AllIn(e, v[x], v)
        BY <2>1, <4>1 DEF AllIn
      <4>3. CASE Type[x] = "undefined"
        <5>1. states = <<{triN}>>
          BY <4>1, <4>3 DEF statesOf
        <5> QED
          BY <4>1, <4>2, <4>3, <5>1, ValuationFacts DEF triN
      <4>4. CASE Type[x] = "bool"
        <5>1. states = <<{triN, triY}>>
          BY <4>1, <4>4 DEF statesOf
        <5>2. v[x] \in {triN, triY}
          BY <4>1, <4>4, ValuationFacts
        <5>3. v[x] \in 0 .. 2
          BY <5>2 DEF triN, triY
        <5> QED
          BY <4>2, <5>1, <5>2, <5>3
      <4>5. CASE Type[x] = "tristate"
        <5>1. states = <<{triN, triM, triY}>>
          BY <4>1, <4>5 DEF statesOf
        <5>2. v[x] \in 0 .. 2
          BY <4>1, <4>5, ValuationFacts
        <5>3. v[x] \in {triN, triM, triY}
          BY <5>2 DEF triN, triM, triY
        <5> QED
          BY <4>2, <5>1, <5>2, <5>3
      <4>6. CASE Type[x] \notin {"undefined", "bool", "tristate"}
        <5>1. states = <<>>
          BY <4>1, <4>6 DEF statesOf
        <5> QED
          BY <2>1, <5>1
      <4> QED
        BY <4>3, <4>4, <4>5, <4>6
    <3> QED
      BY <3>1, <3>2
  <2>5. PICK b \in BOOLEAN : enabled = {b}
    <3>1. enabled \subseteq BOOLEAN
      OBVIOUS
    <3> HIDE DEF enabled
    <3>2. IsFiniteSet(BOOLEAN)
      <4>1. IsFiniteSet({TRUE}) /\ IsFiniteSet({FALSE})
        BY FS_Singleton
      <4>2. IsFiniteSet({TRUE} \cup {FALSE})
        BY <4>1, FS_Union
      <4>3. BOOLEAN = {TRUE} \cup {FALSE}
        OBVIOUS
      <4> QED
        BY <4>2, <4>3
    <3>3. IsFiniteSet(enabled)
      BY <3>1, <3>2, FS_Subset
    <3>4. \E x : enabled = {x}
      BY <2>1, <3>3, FS_Singleton
    <3> QED
      BY <3>1, <3>4
  <2>6. ASSUME NEW v \in Valuations
        PROVE  b <=> valueOf(v)[e] # triN
    <3>1. PICK state \in states[1] : state \in 0 .. 2 /\ AllIn(e, state, v)
      BY <2>4
    <3>2. evalTri(state)[e] = valueOf(v)[e]
      BY <3>1, EvalAgrees
    <3>3. (evalTri(state)[e] # triN) \in enabled
      OBVIOUS
    <3> HIDE DEF enabled
    <3> QED
      BY <2>5, <3>2, <3>3
  <2>7. TRUE \in enabled <=> b
    <3> HIDE DEF enabled
    <3>1. CASE b
      BY <2>5, <3>1
    <3>2. CASE ~ b
      BY <2>5, <3>2
    <3> QED
      BY <3>1, <3>2
  <2> HIDE DEF enabled
  <2>8. CASE b
    <3>1. d = <<alwaysTrue>>
      BY <2>1, <2>7, <2>8 DEF always
    <3>2. EnabledOf(<<alwaysTrue>>, e)
      BY <2>6, <2>8, AlwaysFacts DEF EnabledOf
    <3> QED
      BY <3>1, <3>2
  <2>9. CASE ~ b
    <3>1. d = <<alwaysFalse>>
      BY <2>1, <2>7, <2>9 DEF always
    <3>2. EnabledOf(<<alwaysFalse>>, e)
      BY <2>6, <2>9, AlwaysFacts DEF EnabledOf
    <3> QED
      BY <3>1, <3>2
  <2> QED
    BY <2>8, <2>9
<1> QED
  BY <1>2, <1>3

\* A state a result is right of is one where the expression is enabled, if the
\* state tells.
LEMMA SymbolEnabledFacts ==
  ASSUME NEW e, e \in Expressions, IsSymbol(e)
  PROVE  EnabledOf(enabledTermOfSymbol(e), e)
<1>1. \A v : valueOf(v)[e] = IF operand(e, v) \in 0 .. 2 THEN operand(e, v) ELSE triN
  BY ValueFacts DEF valueGiven, IsSymbol
<1>2. CASE e[1] = "const"
  <2>1. enabledTermOfSymbol(e) = IF IsTriConst(e) THEN always(e[2] # triN) ELSE <<>>
    BY <1>2 DEF enabledTermOfSymbol
  <2>2. CASE IsTriConst(e)
    <3>1. \A v \in Valuations : valueOf(v)[e] = e[2]
      BY <1>1, <1>2, <2>2 DEF operand, IsTriConst
    <3>2. EnabledOf(always(e[2] # triN), e)
      BY <3>1, AlwaysFacts DEF always, EnabledOf
    <3> QED
      BY <2>1, <2>2, <3>2
  <2>3. CASE ~ IsTriConst(e)
    BY <2>1, <2>3 DEF EnabledOf
  <2> QED
    BY <2>2, <2>3
<1>3. CASE e[1] = "symbol"
  <2>1. e[2] \in TreeSymbols /\ e[1] # "const"
    BY <1>3, ExpressionsAssumption
  <2>2. \A v : operand(e, v) = v[e[2]]
    BY <2>1 DEF operand
  <2>3. CASE Type[e[2]] = "undefined"
    <3>1. enabledTermOfSymbol(e) = <<alwaysFalse>>
      BY <1>3, <2>1, <2>3 DEF enabledTermOfSymbol, TriTypes
    <3>2. \A v \in Valuations : valueOf(v)[e] = triN
      BY <1>1, <2>1, <2>2, <2>3, ValuationFacts DEF triN
    <3>3. EnabledOf(<<alwaysFalse>>, e)
      BY <3>2, AlwaysFacts DEF EnabledOf
    <3> QED
      BY <3>1, <3>3
  <2>4. CASE Type[e[2]] \in TriTypes
    <3> DEFINE t == <<"enabled", e[2]>>
    <3>1. enabledTermOfSymbol(e) = Term(t)
      BY <1>3, <2>1, <2>4 DEF enabledTermOfSymbol, TriTypes
    <3>2. t \in AllTerms
      BY <2>1, <2>4 DEF AllTerms, TriSymbols
    <3>3. \A v \in Valuations : v[e[2]] \in 0 .. 2
      BY <2>1, <2>4, ValuationFacts DEF TriTypes, triN, triM, triY
    <3>4. \A v \in Valuations : termHolds(t, v) <=> valueOf(v)[e] # triN
      BY <1>1, <2>2, <3>3 DEF termHolds
    <3> HIDE DEF t
    <3>5. << {t} >> \in Dnfs /\ \A v : satisfied(<< {t} >>, v) <=> termHolds(t, v)
      BY <3>2, SingleTerm
    <3>6. Term(t) \in Seq(Dnfs) /\ Term(t)[1] = << {t} >>
      BY <3>5 DEF Term
    <3> QED
      BY <3>1, <3>4, <3>5, <3>6 DEF EnabledOf
  <2>5. CASE Type[e[2]] \notin TriTypes \cup {"undefined"}
    <3>1. enabledTermOfSymbol(e) = <<>>
      BY <1>3, <2>1, <2>5 DEF enabledTermOfSymbol
    <3> QED
      BY <3>1 DEF EnabledOf
  <2> QED
    BY <2>3, <2>4, <2>5
<1> QED
  BY <1>2, <1>3 DEF IsSymbol

\* The negation of a boolean is enabled where the boolean is disabled.
LEMMA NegatedSymbolFacts ==
  ASSUME NEW e, e \in Expressions, e[1] = "!", e[2][1] = "symbol", Type[e[2][2]] = "bool"
  PROVE  EnabledOf(encodeDisabled(e[2]), e)
<1> DEFINE x == e[2]
           t == <<"disabled", x[2]>>
<1>1. x \in Expressions /\ ~ IsSymbol(e)
  BY OperandsBelow DEF Below
<1>2. IsSymbol(x) /\ x[1] # "const" /\ x[2] \in TreeSymbols
  BY <1>1, ExpressionsAssumption DEF IsSymbol
<1>3. encodeDisabled(x) = Term(t)
  BY <1>2 DEF encodeDisabled, TriTypes
<1>4. t \in AllTerms
  BY <1>2 DEF AllTerms, TriSymbols, TriTypes
<1>5. ASSUME NEW v \in Valuations
      PROVE  termHolds(t, v) <=> valueOf(v)[e] # triN
  <2>1. valueOf(v)[e] = triY - valueOf(v)[x]
    BY <1>1, ValueFacts DEF valueGiven
  <2>2. valueOf(v)[x] = IF v[x[2]] \in 0 .. 2 THEN v[x[2]] ELSE triN
    BY <1>1, <1>2, ValueFacts DEF valueGiven, operand
  <2>3. v[x[2]] \in {triN, triY}
    BY <1>2, ValuationFacts
  <2>4. termHolds(t, v) <=> v[x[2]] = triN
    BY DEF termHolds
  <2> HIDE DEF t, x
  <2> QED
    BY <2>1, <2>2, <2>3, <2>4 DEF triN, triY
<1> HIDE DEF t
<1>6. << {t} >> \in Dnfs /\ \A v : satisfied(<< {t} >>, v) <=> termHolds(t, v)
  BY <1>4, SingleTerm
<1>7. Term(t) \in Seq(Dnfs) /\ Term(t)[1] = << {t} >>
  BY <1>6 DEF Term
<1> QED
  BY <1>3, <1>5, <1>6, <1>7 DEF EnabledOf

\* encodeEnabled, whichever shortcut it takes.
LEMMA EnabledFacts ==
  ASSUME NEW e, e \in Expressions, limit \in Nat
  PROVE  EnabledOf(encodeEnabled(e), e)
<1>1. CASE encodeInvariantEnabled(e) # <<>>
  <2>1. encodeEnabled(e) = encodeInvariantEnabled(e)
    BY <1>1 DEF encodeEnabled
  <2> QED
    BY <2>1, InvariantFacts
<1>2. CASE encodeInvariantEnabled(e) = <<>> /\ IsSymbol(e)
  <2>1. encodeEnabled(e) = enabledTermOfSymbol(e)
    BY <1>2 DEF encodeEnabled, IsSymbol
  <2> QED
    BY <1>2, <2>1, SymbolEnabledFacts
<1> DEFINE negation == e[1] = "!" /\ e[2][1] = "symbol" /\ Type[e[2][2]] = "bool"
<1>3. CASE encodeInvariantEnabled(e) = <<>> /\ ~ IsSymbol(e) /\ negation
  <2>1. encodeEnabled(e) = encodeDisabled(e[2])
    BY <1>3 DEF encodeEnabled
  <2> QED
    BY <1>3, <2>1, NegatedSymbolFacts
<1>4. CASE encodeInvariantEnabled(e) = <<>> /\ ~ IsSymbol(e) /\ ~ negation
  <2> DEFINE l == refs(encodeStateBody, e)
             d == orOf(l[triY], l[triM])
  <2>1. encodeEnabled(e) = d
    BY <1>4 DEF encodeEnabled, encodeStateRef
  <2>2. encodeStateBody[e] \in States /\ SaysOf(encodeStateBody[e], e)
    BY EncodeStateBodyFacts
  <2>3. l \in States /\ SaysOf(l, e)
    BY <2>2, RefsFacts DEF Refers
  <2> HIDE DEF l
  <2>4. triY \in 0 .. 2 /\ triM \in 0 .. 2
    BY DEF triM, triY
  <2>5. EitherOf(d, l, l, triY, triM)
    BY <2>3, <2>4, EitherState
  <2> HIDE DEF d
  <2>6. ASSUME d # <<>>, NEW v \in Valuations
        PROVE  satisfied(d[1], v) <=> valueOf(v)[e] # triN
    <3>1. Says(l, v, valueOf(v)[e])
      BY <2>3 DEF SaysOf
    <3>2. satisfied(d[1], v) <=> valueOf(v)[e] = triY \/ valueOf(v)[e] = triM
      BY <2>5, <2>6, <3>1 DEF EitherOf
    <3>3. valueOf(v)[e] \in 0 .. 2
      BY ValueFacts
    <3> QED
      BY <3>2, <3>3 DEF triN, triM, triY
  <2> QED
    BY <2>1, <2>5, <2>6 DEF EitherOf, EnabledOf
<1> QED
  BY <1>1, <1>2, <1>3, <1>4

(***************************************************************************)
(* The invariant.                                                          *)
(***************************************************************************)

\* A result that is there was returned for the expression.
DnfInv ==
  /\ limit \in Nat /\ expr \in Expressions
  /\ EncodingExact

\* Encode writes exact results.
LEMMA EncodeIsExact ==
  ASSUME limit \in Nat, expr \in Expressions, Encode
  PROVE  EncodingExact'
<1> DEFINE bodies == encodeStateBody[expr]
           negation(s) == IF bodies[s] = <<>> THEN <<>> ELSE notDNF(bodies[s][1])
<1>1. /\ result'.enabled = encodeEnabled(expr) /\ result'.states = bodies
      /\ result'.negated = [s \in 0 .. 2 |-> negation(s)]
      /\ expr' = expr
  <2> HIDE DEF bodies, negation
  <2> QED
    BY DEF Encode, bodies, negation
<1>2. bodies \in States /\ SaysOf(bodies, expr)
  BY EncodeStateBodyFacts
<1>3. EnabledExact'
  <2>1. EnabledOf(encodeEnabled(expr), expr)
    BY EnabledFacts
  <2> QED
    BY <1>1, <2>1 DEF EnabledOf, EnabledExact
<1> HIDE DEF bodies
<1>4. StatesExact'
  BY <1>1, <1>2 DEF SaysOf, Says, StatesExact
<1>5. ASSUME NEW s \in 0 .. 2, negation(s) # <<>>, NEW v \in Valuations
      PROVE  satisfied(negation(s)[1], v) <=> valueOf(v)[expr] # s
  <2>1. bodies[s] # <<>> /\ negation(s) = notDNF(bodies[s][1])
    BY <1>5
  <2>2. bodies[s] \in Seq(Dnfs)
    BY <1>2 DEF States
  <2>3. bodies[s][1] \in Dnfs
    BY <2>1, <2>2
  <2>4. ComplementOf(negation(s), bodies[s][1])
    BY <2>1, <2>3, NotDnfFacts
  <2>5. satisfied(bodies[s][1], v) <=> valueOf(v)[expr] = s
    BY <1>2, <2>1 DEF SaysOf, Says
  <2> HIDE DEF negation
  <2> QED
    BY <1>5, <2>4, <2>5 DEF ComplementOf
<1> HIDE DEF negation
<1>6. \A s \in 0 .. 2 : result'.negated[s] = negation(s)
  BY <1>1
<1>7. NegationExact'
  BY <1>1, <1>5, <1>6 DEF NegationExact
<1> QED
  BY <1>3, <1>4, <1>7 DEF EncodingExact

\* Whatever an expression is encoded as means what the expression means: for
\* every set of symbols and expressions and every clause limit.
THEOREM DnfIsExact == DnfSpec => []EncodingExact
<1>1. DnfInit => DnfInv
  <2> SUFFICES ASSUME DnfInit
               PROVE  DnfInv
    OBVIOUS
  <2>1. limit \in Nat
    BY DnfAssumption DEF DnfInit
  <2>2. ~ result.done
    BY DEF DnfInit
  <2> QED
    BY <2>1, <2>2 DEF DnfInit, DnfInv, EncodingExact, EnabledExact, StatesExact, NegationExact
<1>2. DnfInv /\ [Encode]_dnfVars => DnfInv'
  <2> SUFFICES ASSUME DnfInv, [Encode]_dnfVars
               PROVE  DnfInv'
    OBVIOUS
  <2>1. CASE Encode
    <3>1. limit' = limit /\ expr' = expr
      BY <2>1 DEF Encode
    <3>2. EncodingExact'
      BY <2>1, EncodeIsExact DEF DnfInv
    <3> QED
      BY <3>1, <3>2 DEF DnfInv
  <2>2. CASE UNCHANGED dnfVars
    BY <2>2 DEF dnfVars, DnfInv, EncodingExact, EnabledExact, StatesExact, NegationExact
  <2> QED
    BY <2>1, <2>2
<1>3. DnfInv => EncodingExact
  BY DEF DnfInv
<1> QED
  BY <1>1, <1>2, <1>3, PTL DEF DnfSpec

=============================================================================
