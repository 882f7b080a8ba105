------------------------- MODULE KbuildConditionals -------------------------
(***************************************************************************)
(* The conditional stack of the Kbuild parser (internal/kconfig/kbuild.go) *)
(* run next to GNU make.                                                   *)
(*                                                                         *)
(* A Makefile is read once for every configuration: a conditional over     *)
(* CONFIG_ symbols cannot be decided, so the parser keeps BOTH branches    *)
(* and attaches to each object the condition under which make would reach  *)
(* it.  A conditional over ordinary variables is decided at once from the  *)
(* parser's own variables; one it cannot expand is "maybe".                *)
(*                                                                         *)
(* Every action is one line of a Makefile.  The parser's state is conds,   *)
(* vars and objects; make, makeVars and drifted are history: what make     *)
(* itself does with the same lines in every world.  A world is a           *)
(* configuration and the outcome of each test the parser cannot expand.    *)
(***************************************************************************)
EXTENDS KbuildConditions

CONSTANTS
  Names,       \* other make variables
  Words,       \* the words of variable values; "n", "m", "y" among them
  Unset,       \* a variable without a value
  KnownEmpty,  \* names that expand to nothing although unset
  Opaque,      \* tests no parser can expand (shell calls, unknown functions)
  Tests,       \* the conditionals the lines may hold
  Values,      \* the right-hand sides the lines may hold
  MaxDepth,    \* bound on nested conditionals
  MaxLines     \* bound on the lines of the Makefile

Worlds == [config : Configs, outcome : [Opaque -> BOOLEAN]]

Keywords == {"ifeq", "ifneq", "ifdef", "ifndef"}

ASSUME KbuildAssumption ==
  /\ Tri \subseteq Words
  /\ Unset \notin Seq(Words)
  /\ KnownEmpty \subseteq Names
  /\ Tests \subseteq
       [keyword : Keywords, of : {"config"}, name : Symbols, text : Seq(Words)]
       \cup
       [keyword : Keywords, of : {"variable"}, name : Names, text : Seq(Words)]
       \cup
       [keyword : Keywords, of : {"opaque"}, name : Opaque, text : Seq(Words)]
  /\ Values \subseteq Seq(Words)
  /\ MaxDepth \in Nat /\ MaxLines \in Nat

VARIABLES
  complete,   \* configVariablesComplete: the configuration is given
  configs,    \* the configurations this parse stands for
  conds,      \* the stack of conditional frames
  vars,       \* vars over initialVars, minus undefined
  objects,    \* the conditions of what the last line added to kb.Objects
  status,     \* "parsing", or why parseLine returned an error
  lines,      \* lines read
  make,       \* history: make's own stack
  makeVars,   \* history: make's variables in every world
  wanted,     \* history: the list make adds the last line's object to
  drifted     \* history: vars and makeVars have disagreed

parserState == <<complete, configs, conds, vars, objects, status, lines>>
allVars == <<parserState, make, makeVars, wanted, drifted>>

worlds == {w \in Worlds : w.config \in configs}

-----------------------------------------------------------------------------
(***************************************************************************)
(* The frame stack.                                                        *)
(***************************************************************************)
kbuildConditionalFrame ==
  [parentActive : BOOLEAN, parentDefinitelyActive : BOOLEAN,
   previousKnown : BOOLEAN, previousTaken : BOOLEAN,
   previousCondition : Condition, hasPreviousCondition : BOOLEAN,
   active : BOOLEAN, definitelyActive : BOOLEAN,
   condition : Condition, hasCondition : BOOLEAN, sawElse : BOOLEAN]

top == conds[Len(conds)]

active == Len(conds) = 0 \/ top.active

definitelyActive == Len(conds) = 0 \/ top.definitelyActive

activeCondition ==
  combineKbuildConditions(
    [i \in DOMAIN conds |->
       IF conds[i].active /\ conds[i].hasCondition
       THEN conds[i].condition ELSE noCondition])

withActiveCondition(c) == combineKbuildConditions(<<activeCondition, c>>)

-----------------------------------------------------------------------------
(***************************************************************************)
(* evalConditional: a test is known, or known up to a condition, or        *)
(* neither.                                                                *)
(***************************************************************************)
negated(t) == t.keyword \in {"ifneq", "ifndef"}

known(value) == [known |-> TRUE, value |-> value,
                 condition |-> noCondition, hasCondition |-> FALSE]

upTo(condition) == [known |-> FALSE, value |-> FALSE,
                    condition |-> condition, hasCondition |-> TRUE]

unknown == [known |-> FALSE, value |-> FALSE,
            condition |-> noCondition, hasCondition |-> FALSE]

\* What auto.conf makes of a tristate: n leaves the variable unset.
configText(value) == IF value = "n" THEN <<>> ELSE <<value>>

\* With ConfigVariablesComplete the CONFIG_ variables hold the values of the
\* one configuration the parse stands for.
given(symbol) == (CHOOSE c \in configs : TRUE)[symbol]

\* The text a comparison names as a state: the empty text stands for n.
comparedState(text) == IF text = <<>> THEN "n" ELSE text[1]

makeConfigComparisonCondition(t) ==
  IF t.keyword = "ifneq" THEN configNe(t.name, comparedState(t.text))
                         ELSE configEq(t.name, comparedState(t.text))

comparable(text) == text \in {<<>>, <<"n">>, <<"m">>, <<"y">>}

evalCompareConfig(t) ==
  IF complete THEN known((configText(given(t.name)) = t.text) # negated(t))
  ELSE IF comparable(t.text) THEN upTo(makeConfigComparisonCondition(t))
  ELSE unknown

evalCompareVariable(t) ==
  IF vars[t.name] # Unset THEN known((vars[t.name] = t.text) # negated(t))
  ELSE IF t.name \in KnownEmpty THEN known((<<>> = t.text) # negated(t))
  ELSE unknown

evalDefinedConfig(t) ==
  IF complete THEN known((given(t.name) # "n") # negated(t))
  ELSE IF negated(t) THEN upTo(invertKbuildCondition(configNe(t.name, "n")))
  ELSE upTo(configNe(t.name, "n"))

evalDefinedVariable(t) ==
  known((vars[t.name] \notin {Unset, <<>>}) # negated(t))

evalConditional(t) ==
  CASE t.of = "opaque"   -> unknown
    [] t.of = "config"   -> IF t.keyword \in {"ifeq", "ifneq"}
                            THEN evalCompareConfig(t) ELSE evalDefinedConfig(t)
    [] t.of = "variable" -> IF t.keyword \in {"ifeq", "ifneq"}
                            THEN evalCompareVariable(t) ELSE evalDefinedVariable(t)

-----------------------------------------------------------------------------
(***************************************************************************)
(* What make does with the same lines.  Per open conditional: the worlds   *)
(* that execute the lines around it, those in which an earlier branch was  *)
(* taken, those that execute the branch being read; whether the parser met *)
(* a test it could not express, so that its conditions may be too wide     *)
(* (blind), and whether that was after a test it could not decide, so that *)
(* they may be too narrow as well (masked).                                *)
(***************************************************************************)
MakeFrame == [parent : SUBSET Worlds, taken : SUBSET Worlds,
              active : SUBSET Worlds, blind : BOOLEAN, masked : BOOLEAN]

makeActive == IF Len(make) = 0 THEN worlds ELSE make[Len(make)].active

textOf(value) == IF value = Unset THEN <<>> ELSE value

holds(t, w) ==
  LET positive ==
        CASE t.of = "opaque" -> w.outcome[t.name]
          [] t.of = "config" ->
               IF t.keyword \in {"ifeq", "ifneq"}
               THEN configText(w.config[t.name]) = t.text
               ELSE w.config[t.name] # "n"
          [] t.of = "variable" ->
               IF t.keyword \in {"ifeq", "ifneq"}
               THEN textOf(makeVars[w][t.name]) = t.text
               ELSE textOf(makeVars[w][t.name]) # <<>>
  IN positive # negated(t)

holding(t) == {w \in worlds : holds(t, w)}

opaqueTo(result) == ~ result.known /\ ~ result.hasCondition

\* A comparison with the text n, which make finds false in every
\* configuration (a symbol that is n is unset): the parser reads it as a
\* comparison with the state n.
misread(t) == /\ t.of = "config" /\ t.keyword \in {"ifeq", "ifneq"}
              /\ t.text = <<"n">> /\ ~ complete

blind(t) == opaqueTo(evalConditional(t)) \/ misread(t)

makeIf(t) ==
  [parent |-> makeActive, taken |-> holding(t),
   active |-> makeActive \cap holding(t),
   blind |-> blind(t), masked |-> misread(t)]

makeElseIf(m, t) ==
  [parent |-> m.parent, taken |-> m.taken \cup holding(t),
   active |-> (m.parent \cap holding(t)) \ m.taken,
   blind |-> m.blind \/ blind(t),
   masked |-> m.masked \/ misread(t)
              \/ (opaqueTo(evalConditional(t)) /\ ~ top.previousKnown)]

makeElse(m) ==
  [parent |-> m.parent, taken |-> worlds, active |-> m.parent \ m.taken,
   blind |-> m.blind, masked |-> m.masked]

-----------------------------------------------------------------------------
TypeOK ==
  /\ complete \in BOOLEAN
  /\ configs \in SUBSET Configs /\ configs # {}
  /\ conds \in Seq(kbuildConditionalFrame)
  /\ vars \in [Names -> Seq(Words) \cup {Unset}]
  /\ objects \in Seq(Condition)
  /\ wanted \in Seq([Worlds -> Tri])
  /\ status \in {"parsing", "malformed", "error"}
  /\ lines \in Nat
  /\ make \in Seq(MakeFrame)
  /\ makeVars \in [Worlds -> [Names -> Seq(Words) \cup {Unset}]]
  /\ drifted \in BOOLEAN

Init ==
  /\ complete \in BOOLEAN
  /\ IF complete THEN \E c \in Configs : configs = {c} ELSE configs = Configs
  /\ conds = <<>>
  /\ vars \in [Names -> {Unset, <<>>}]
  /\ objects = <<>>
  /\ status = "parsing"
  /\ lines = 0
  /\ make = <<>>
  /\ makeVars = [w \in Worlds |-> vars]
  /\ wanted = <<>>
  /\ drifted = FALSE

\* One more line of a Makefile that has given no error so far.
NextLine ==
  /\ status = "parsing" /\ lines < MaxLines
  /\ lines' = lines + 1
  /\ UNCHANGED <<complete, configs>>

NothingRecorded == objects' = <<>> /\ wanted' = <<>>

Fail(reason) ==
  /\ status' = reason
  /\ NothingRecorded
  /\ UNCHANGED <<conds, vars, make, makeVars, drifted>>

Branch(frame, makeFrame) ==
  /\ conds' = [conds EXCEPT ![Len(conds)] = frame]
  /\ make' = [make EXCEPT ![Len(make)] = makeFrame]
  /\ NothingRecorded
  /\ UNCHANGED <<vars, status, makeVars, drifted>>

\* Fault: an undecided branch counts as certain.
pushedFrameCertain(result) ==
  [parentActive |-> active,
   parentDefinitelyActive |-> definitelyActive,
   previousKnown |-> result.known,
   previousTaken |-> result.known /\ result.value,
   previousCondition |-> result.condition,
   hasPreviousCondition |-> ~ result.known /\ result.hasCondition,
   active |-> active /\ (~ result.known \/ result.value),
   definitelyActive |-> definitelyActive /\ (~ result.known \/ result.value),
   condition |-> result.condition,
   hasCondition |-> ~ result.known /\ result.hasCondition,
   sawElse |-> FALSE]

pushedFrame(result) ==
  [parentActive |-> active,
   parentDefinitelyActive |-> definitelyActive,
   previousKnown |-> result.known,
   previousTaken |-> result.known /\ result.value,
   previousCondition |-> result.condition,
   hasPreviousCondition |-> ~ result.known /\ result.hasCondition,
   active |-> active /\ (~ result.known \/ result.value),
   definitelyActive |-> definitelyActive /\ result.known /\ result.value,
   condition |-> result.condition,
   hasCondition |-> ~ result.known /\ result.hasCondition,
   sawElse |-> FALSE]

\* ifeq, ifneq, ifdef, ifndef
pushConditional(t) ==
  /\ NextLine /\ Len(conds) < MaxDepth
  /\ conds' = Append(conds, pushedFrame(evalConditional(t)))
  /\ make' = Append(make, makeIf(t))
  /\ NothingRecorded
  /\ UNCHANGED <<vars, status, makeVars, drifted>>

\* Fault: a test without a condition counts as one that always holds, so that
\* the else after it never does.
elseFrameNever(f) ==
  [f EXCEPT !.active = f.parentActive /\ (f.previousKnown => ~ f.previousTaken),
            !.definitelyActive = f.parentDefinitelyActive /\ f.previousKnown
                                 /\ ~ f.previousTaken,
            !.previousTaken = f.previousTaken \/ (f.parentActive /\ f.previousKnown),
            !.condition = invertKbuildCondition(IF f.hasPreviousCondition
                            THEN f.previousCondition ELSE const("y")),
            !.hasCondition = ~ f.previousKnown,
            !.sawElse = TRUE]

elseFrame(f) ==
  CASE ~ f.parentActive ->
         [f EXCEPT !.active = FALSE, !.definitelyActive = FALSE,
                   !.sawElse = TRUE]
    [] f.parentActive /\ ~ f.previousKnown /\ f.hasPreviousCondition ->
         [f EXCEPT !.active = TRUE, !.definitelyActive = FALSE,
                   !.condition = invertKbuildCondition(f.previousCondition),
                   !.hasCondition = TRUE,
                   !.previousCondition = noCondition,
                   !.hasPreviousCondition = FALSE,
                   !.sawElse = TRUE]
    [] f.parentActive /\ ~ f.previousKnown /\ ~ f.hasPreviousCondition ->
         [f EXCEPT !.active = TRUE, !.definitelyActive = FALSE,
                   !.sawElse = TRUE]
    [] f.parentActive /\ f.previousKnown /\ f.previousTaken ->
         [f EXCEPT !.active = FALSE, !.definitelyActive = FALSE,
                   !.condition = noCondition, !.hasCondition = FALSE,
                   !.sawElse = TRUE]
    [] f.parentActive /\ f.previousKnown /\ ~ f.previousTaken ->
         [f EXCEPT !.active = TRUE,
                   !.definitelyActive = f.parentDefinitelyActive,
                   !.previousTaken = TRUE,
                   !.condition = noCondition, !.hasCondition = FALSE,
                   !.sawElse = TRUE]

\* else
activateElse ==
  /\ NextLine
  /\ Len(conds) > 0 /\ ~ top.sawElse
  /\ Branch(elseFrame(top), makeElse(make[Len(make)]))

\* The branch is out: nothing read in it counts.
off(f) == [f EXCEPT !.active = FALSE, !.definitelyActive = FALSE,
                    !.condition = noCondition, !.hasCondition = FALSE]

\* Fault: an else-if branch forgets the tests before it.
branchTermsAlone(f, result) ==
  << noCondition,
     IF ~ result.known /\ result.hasCondition
     THEN result.condition ELSE noCondition >>

\* else if after a test that could not be decided: not the earlier tests, and
\* this one.  A term that is left out is empty, which the combination skips.
branchTerms(f, result) ==
  << IF f.hasPreviousCondition
     THEN invertKbuildCondition(f.previousCondition) ELSE noCondition,
     IF ~ result.known /\ result.hasCondition
     THEN result.condition ELSE noCondition >>

maybeBranch(f, result) ==
  [f EXCEPT
     !.condition = combineKbuildConditions(branchTerms(f, result)),
     !.hasCondition = \E i \in 1 .. 2 : ~ isEmpty(branchTerms(f, result)[i]),
     !.active = TRUE, !.definitelyActive = FALSE,
     !.previousCondition =
        combineKbuildAny(f.previousCondition,
                         combineKbuildConditions(branchTerms(f, result))),
     !.hasPreviousCondition = TRUE]

\* else if after tests that were all known to be false
freshBranch(f, result) ==
  [f EXCEPT
     !.previousKnown = result.known,
     !.previousTaken = result.known /\ result.value,
     !.active = ~ result.known \/ result.value,
     !.definitelyActive =
        f.parentDefinitelyActive /\ result.known /\ result.value,
     !.condition = result.condition,
     !.hasCondition = ~ result.known /\ result.hasCondition,
     !.previousCondition = result.condition,
     !.hasPreviousCondition = ~ result.known /\ result.hasCondition]

elseIfFrame(f, result) ==
  IF \/ ~ f.parentActive
     \/ ~ f.previousKnown /\ result.known /\ ~ result.value
     \/ f.previousKnown /\ f.previousTaken
  THEN off(f)
  ELSE IF f.previousKnown THEN freshBranch(f, result)
  ELSE maybeBranch(f, result)

\* else ifeq, else ifneq, else ifdef, else ifndef
activateElseIf(t) ==
  /\ NextLine
  /\ Len(conds) > 0 /\ ~ top.sawElse
  /\ Branch(elseIfFrame(top, evalConditional(t)),
            makeElseIf(make[Len(make)], t))

endif ==
  /\ NextLine
  /\ Len(conds) > 0
  /\ conds' = SubSeq(conds, 1, Len(conds) - 1)
  /\ make' = SubSeq(make, 1, Len(make) - 1)
  /\ NothingRecorded
  /\ UNCHANGED <<vars, status, makeVars, drifted>>

\* else or endif without if; else or else if after else.  (An else followed by
\* another word, which is refused as well, is not among the model's lines.)
malformed ==
  /\ NextLine
  /\ Len(conds) > 0 => top.sawElse
  /\ Fail("malformed")

-----------------------------------------------------------------------------
assigned(current, op, value) ==
  CASE op = "+=" -> textOf(current) \o value
    [] op = "?=" -> IF current = Unset THEN value ELSE current
    [] op = "="  -> value
    [] op = "undefine" -> Unset

\* VAR = words, and undefine VAR.  The parser has one set of variables: it
\* assigns in every branch that may be active.
assign(name, op, value) ==
  /\ NextLine
  /\ vars' = IF active
             THEN [vars EXCEPT ![name] = assigned(vars[name], op, value)]
             ELSE vars
  /\ makeVars' = [w \in Worlds |->
                    IF w \in makeActive
                    THEN [makeVars[w] EXCEPT
                            ![name] = assigned(makeVars[w][name], op, value)]
                    ELSE makeVars[w]]
  /\ drifted' = (drifted \/ \E w \in worlds : makeVars'[w] # vars')
  /\ NothingRecorded
  /\ UNCHANGED <<conds, status, make>>

\* The condition part of obj-y, obj-m, obj- and obj-$(CONFIG_X)
lhsConditions == {const("y"), const("m"), const("-")} \cup {config(s) : s \in Symbols}

\* obj-... += object: kb.Objects gets the object under the active condition.
\* In each world make adds it to obj-y or obj-m (or to neither, "n").
parseCollectionAssignment(cond) ==
  /\ NextLine
  /\ objects' = IF active THEN <<withActiveCondition(cond)>> ELSE <<>>
  /\ wanted' = <<[w \in Worlds |->
                   IF w \in makeActive THEN cond.mode[w.config] ELSE "n"]>>
  /\ UNCHANGED <<conds, vars, status, make, makeVars, drifted>>

\* Fault: fatal in every branch that may be active.
evalDiagnosticEager ==
  /\ NextLine
  /\ IF active
     THEN Fail("error")
     ELSE NothingRecorded /\ UNCHANGED <<conds, vars, status, make, makeVars, drifted>>

\* $(error ...): fatal only where the line is certain to be executed.
evalDiagnostic ==
  /\ NextLine
  /\ IF active /\ definitelyActive
     THEN Fail("error")
     ELSE NothingRecorded /\ UNCHANGED <<conds, vars, status, make, makeVars, drifted>>

\* The end of the file, or of the parse after an error
done == (status # "parsing" \/ lines = MaxLines) /\ UNCHANGED allVars

Next ==
  \/ \E t \in Tests : pushConditional(t) \/ activateElseIf(t)
  \/ activateElse \/ endif \/ malformed
  \/ \E name \in Names, op \in {"+=", "?=", "=", "undefine"}, value \in Values :
        assign(name, op, value)
  \/ \E cond \in lhsConditions : parseCollectionAssignment(cond)
  \/ evalDiagnostic
  \/ done

Spec == Init /\ [][Next]_allVars

-----------------------------------------------------------------------------
(***************************************************************************)
(* Properties.                                                             *)
(***************************************************************************)
recordedMode(w) == IF objects = <<>> THEN "n" ELSE objects[1].mode[w.config]

sees(w) == wanted # <<>> /\ wanted[1][w] # "n"

unmasked == \A i \in DOMAIN make : ~ make[i].masked

\* Where the parser could express every open test, an object is recorded under
\* exactly make's condition: whatever the nesting and the else-if chains, in
\* every configuration its recorded mode is the list (obj-y, obj-m, none) make
\* puts it on.  parseCollectionAssignment over activeCondition, activateElse,
\* activateElseIf.  It claims nothing once the parser's variables have
\* differed from make's.
Exact ==
  /\ ~ drifted /\ \A i \in DOMAIN make : ~ make[i].blind
  /\ wanted # <<>>
  => \A w \in worlds : recordedMode(w) = wanted[1][w]

\* Tests the parser cannot express make the record too wide, never too narrow:
\* an object make builds in some world is recorded, and in the same mode, as
\* long as no such test came as an else-if after an undecided one (and none
\* compares a symbol with the text n).
NothingLost ==
  ~ drifted /\ unmasked =>
     \A w \in worlds : sees(w) => recordedMode(w) = wanted[1][w]

\* $(error) stops the parse only on a line make executes whatever the
\* configuration and whatever the tests the parser cannot expand.
ErrorsAreCertain ==
  status = "error" /\ ~ drifted => makeActive = worlds

\* The parser's variables part from make's only at an assignment in a branch
\* that is maybe active: never at one that is certain or is skipped.
DriftsOnlyInMaybeBranches ==
  [][~ drifted /\ drifted' => active /\ ~ definitelyActive]_allVars

\* What the parser's tests say of an undecided else-if branch, that it is only
\* maybe active, taken at its word: the branches after it may be active too,
\* so nothing make builds there is recorded as never built.
MaybeBranchesAreMaybe ==
  ~ drifted =>
     \A w \in worlds : sees(w) => recordedMode(w) # "n"
=============================================================================
