------------------------- MODULE MCKbuildVariables -------------------------
(***************************************************************************)
(* KbuildVariables over short programs, compared with what GNU make does   *)
(* with them in each world: in make every text is concrete when it is      *)
(* used, a variable nobody defines is empty, a recursive variable that     *)
(* refers to itself is an error and a call hides the arguments of the      *)
(* call around it.                                                         *)
(***************************************************************************)
EXTENDS KbuildVariables

CONSTANT MaxLines    \* bound on the statements of a program

w(x) == <<word(x)>>
r(x) == <<ref(x)>>
fn(k, x, args) == <<[k |-> k, x |-> x, args |-> args, op |-> "="]>>
set(x, op, rhs) == [k |-> "set", x |-> x, op |-> op, rhs |-> rhs, export |-> FALSE]
line(k, rhs) == [k |-> k, rhs |-> rhs, optional |-> FALSE]

Pool ==
    {set("x", ":=", w("a")), set("x", "=", r("y")), set("x", "+=", r("y")),
     [set("x", "=", fn("foreach", "v", <<r("y"), r("v") \o r("x")>>)) EXCEPT !.export = TRUE],
     set("y", "=", r("U")), set("y", ":=", r("x") \o w("c")), set("y", "?=", w("d") \o r("x")),
     set("z", ":=", fn("call", "f", <<r("y"), w("e")>>)), set("y", "=", fn("call", "g", <<r("x"), w("h")>>)),
     set("z", ":=", fn("or", "", <<r("x"), r("y")>>)), set("z", "=", fn("and", "", <<r("x"), r("y")>>)),
     set("z", ":=", fn("filter-out", "", <<r("x"), r("y")>>)),
     set("z", "=", fn("computed", "obj-", <<r("x")>>)), set("z", "+=", fn("flavor", "x", <<>>)), set("z", "?=", fn("origin", "x", <<>>)),
     set("z", ":=", fn("value", "y", <<>>)), set("obj-y", "=", w("y") \o r("x")),
     set("x", ":=", r("obj-n")),
     line("line", fn("eval", "z", <<r("x") \o w("a")>>)),
     line("undefine", w("x")), line("export", r("x")), line("unexport", w("a"))}

\* Programs with includes; names of files and of variables are kept apart.
IncludePool ==
    {[line("include", w(f)) EXCEPT !.optional = o] :
       f \in {"leaf", "diamond", "self", "deep", "absent", "broken"}, o \in BOOLEAN}
      \cup {set("x", ":=", w("leaf")), line("include", r("x"))}

SeqsUpTo(S, n) == UNION {[1..k -> S] : k \in 0..n}

MCInitial ==
    ("f" :> fn("if", "", <<r("1"), r("2"), r("x")>>)) @@
    ("g" :> r("1") \o fn("call", "f", <<r("2")>>))
MCMains ==
    {<<set("f", "=", MCInitial["f"]), set("g", "=", MCInitial["g"])>> \o p : p \in SeqsUpTo(Pool, MaxLines)}
      \cup SeqsUpTo(IncludePool, MaxLines)
MCFiles ==
    ("leaf" :> <<set("x", "+=", w("l"))>>) @@
    ("diamond" :> <<line("include", w("leaf")), line("include", w("leaf"))>>) @@
    ("self" :> <<line("include", w("self"))>>) @@
    ("deep" :> <<line("include", w("deeper"))>>) @@
    ("deeper" :> <<line("include", w("deepest"))>>) @@
    ("deepest" :> <<line("include", w("leaf"))>>) @@
    ("broken" :> <<line("include", w("absent")), set("y", ":=", w("read"))>>)
NoInitial == <<>>
\* What the caller of make may define U as.
Worlds == {[u \in {"U"} |-> <<>>], [u \in {"U"} |-> <<"u">>]}
MCFamily(x) == CASE x = "obj-n" -> {"obj-y"} [] x = "obj-y" -> {"obj-n"} [] OTHER -> {}
MCNamed(prefix, words) == prefix \o (IF words = <<>> THEN "" ELSE words[1].w)

(***************************************************************************)
(* GNU make.  A text is a sequence of words; sure is FALSE once a value    *)
(* depends on a variable of the world or one that nobody defines.          *)
(***************************************************************************)
RECURSIVE makeText(_, _, _, _, _)

makeRaw(s, x) == IF x \in DOMAIN s.vars THEN s.vars[x].value ELSE <<>>

concrete(words) == [i \in DOMAIN words |-> word(words[i])]
empty == [words |-> <<>>, fatal |-> FALSE, sure |-> TRUE]

makeVar(s, world, loc, x, d) ==
    IF x \in DOMAIN loc THEN [empty EXCEPT !.words = loc[x]]
    ELSE IF x \in DOMAIN world THEN [empty EXCEPT !.words = world[x], !.sure = FALSE]
    ELSE IF x \notin DOMAIN s.vars
      THEN [empty EXCEPT !.sure = x \in KnownEmpty \/ \E y \in Family(x) : y \in DOMAIN s.vars]
    ELSE IF x \in d THEN [empty EXCEPT !.fatal = TRUE, !.sure = FALSE]
    ELSE makeText(s, world, loc, s.vars[x].value, d \cup {x})

\* The first words, if the second is looked at at all.
both(a, b, words) == [words |-> words, fatal |-> (a.fatal \/ b.fatal), sure |-> (a.sure /\ b.sure)]

joined(a, b) == both(a, b, a.words \o b.words)

makeNode(s, world, loc, n, d) ==
    LET arg(i) == makeText(s, world, loc, n.args[i], d) IN
    CASE n.k = "word" -> [empty EXCEPT !.words = <<n.w>>]
      [] n.k = "ref"  -> makeVar(s, world, loc, n.x, d)
      [] n.k = "computed" ->
           LET a == arg(1)
               name == MCNamed(n.x, concrete(a.words))
               v == makeVar(s, world, loc, name, d)
           IN  [both(a, v, v.words) EXCEPT !.sure = a.sure /\ (v.sure \/ name \notin DOMAIN s.vars)]
      [] n.k = "if" ->
           LET c == arg(1)
               b == IF c.words # <<>> THEN arg(2) ELSE arg(3)
           IN  both(c, b, b.words)
      [] n.k = "or" ->
           LET a == arg(1) IN IF a.words # <<>> THEN a ELSE LET b == arg(2) IN both(a, b, b.words)
      [] n.k = "and" ->
           LET a == arg(1) IN IF a.words = <<>> THEN a ELSE LET b == arg(2) IN both(a, b, b.words)
      [] n.k = "foreach" ->
           LET list == arg(1)
           IN  FoldLeft(LAMBDA acc, v :
                          LET b == makeText(s, world, (n.x :> <<v>>) @@ loc, n.args[2], d)
                          IN  both(acc, b, acc.words \o b.words),
                        [list EXCEPT !.words = <<>>], list.words)
      [] n.k = "call" ->
           LET a == [i \in DOMAIN n.args |-> arg(i)]
               frame == [p \in positional |->
                           LET given == {i \in DOMAIN a : <<"1", "2", "3">>[i] = p}
                           IN  IF given = {} THEN <<>> ELSE a[CHOOSE i \in given : TRUE].words]
               body == makeText(s, world, frame @@ loc, makeRaw(s, n.x), d)
           IN  [words |-> body.words,
                fatal |-> body.fatal \/ \E i \in DOMAIN a : a[i].fatal,
                sure |-> body.sure /\ n.x \in DOMAIN s.vars /\ \A i \in DOMAIN a : a[i].sure]
      [] n.k = "value" ->
           [words |-> [i \in DOMAIN makeRaw(s, n.x) |->
                         IF makeRaw(s, n.x)[i].k = "word" THEN makeRaw(s, n.x)[i].w ELSE "$"],
            fatal |-> FALSE, sure |-> ~containsMakeReference(makeRaw(s, n.x))]
      [] n.k = "flavor" ->
           [empty EXCEPT !.words =
              <<IF n.x \notin DOMAIN s.vars THEN "undefined"
                ELSE IF s.vars[n.x].recursive THEN "recursive" ELSE "simple">>]
      [] n.k = "origin" ->
           [empty EXCEPT !.words = <<IF n.x \in DOMAIN s.vars THEN "file" ELSE "undefined">>]
      [] n.k = "filter-out" ->
           LET a == arg(1) b == arg(2)
           IN  both(a, b, SelectSeq(b.words, LAMBDA x : x \notin ToSet(a.words)))

makeText(s, world, loc, text, d) ==
    FoldLeft(LAMBDA acc, n : IF acc.fatal THEN acc
                             ELSE joined(acc, makeNode(s, world, loc, n, d)),
             empty, text)

makeBind(s, x, value, recursive) ==
    [s EXCEPT !.vars = (x :> [value |-> value, recursive |-> recursive]) @@ @]

\* An assignment whose text is worth now at this moment.
makeAssign(s, x, op, rhs, now) ==
    LET eager == op = ":=" \/ (op = "+=" /\ x \in DOMAIN s.vars /\ ~s.vars[x].recursive)
        value == IF eager THEN concrete(now.words) ELSE rhs
        after == CASE op = "?=" /\ x \in DOMAIN s.vars -> s
                   [] op = "+=" /\ x \in DOMAIN s.vars ->
                        makeBind(s, x, s.vars[x].value \o value, s.vars[x].recursive)
                   [] OTHER -> makeBind(s, x, value, ~eager)
    IN  [after EXCEPT !.fatal = @ \/ (eager /\ now.fatal), !.sure = @ /\ (eager => now.sure)]

makeSet(s, l, now) ==
    [makeAssign(s, l.x, l.op, l.rhs, now) EXCEPT !.exported = IF l.export THEN @ \cup {l.x} ELSE @]

\* The line an eval makes: its text is read a second time, as it stands.
makeEval(s, n, a) ==
    [makeAssign(s, n.x, n.op, concrete(a.words), [empty EXCEPT !.words = a.words]) EXCEPT
       !.fatal = @ \/ a.fatal, !.sure = @ /\ a.sure, !.evalSure = @ /\ a.sure]

makeDirective(s, k, names) ==
    LET named == ToSet(names.words)
        bound == [x \in DOMAIN s.vars \cup named |->
                    IF x \in DOMAIN s.vars THEN s.vars[x] ELSE [value |-> <<>>, recursive |-> FALSE]]
    IN  [s EXCEPT !.fatal = @ \/ names.fatal, !.sure = @ /\ names.sure,
                  !.vars = IF k = "undefine" THEN [x \in DOMAIN @ \ named |-> @[x]] ELSE bound,
                  !.exported = CASE k = "export" -> @ \cup named
                                 [] k = "unexport" -> @ \ named
                                 [] OTHER -> @]

makeLine(s, world, l) ==
    LET now(text) == makeText(s, world, <<>>, text, {})
    IN  CASE l.k = "set"  -> makeSet(s, l, now(l.rhs))
          [] l.k = "line" -> makeEval(s, l.rhs[1], now(l.rhs[1].args[1]))
          [] OTHER        -> makeDirective(s, l.k, now(l.rhs))

\* The program in one world; a reference to itself stops make.
makeRun(world, program) ==
    FoldLeft(LAMBDA s, l : IF s.fatal THEN s ELSE makeLine(s, world, l),
             [vars |-> <<>>, exported |-> {}, fatal |-> FALSE, sure |-> TRUE, evalSure |-> TRUE],
             program)

included(program) == {l \in ToSet(program) : l.k = "include"}
comparable == outcome = "done" /\ included(main) = {}
observed == {"x", "y", "z", "obj-y"}
textOf(x) == expand(st, r(x)).out
wordsOf(text) == [i \in DOMAIN text |-> text[i].w]

(***************************************************************************)
(* Properties                                                              *)
(***************************************************************************)
agree(text, value) == ~containsMakeReference(text) /\ ~value.fatal => wordsOf(text) = value.words
certain(value, text) == value.sure => text = concrete(value.words)

\* A value in which the parser keeps no reference is the value the variable has
\* for make, whatever the caller of make defines, and so is the list of what a
\* line exports: nothing that still depends on an unknown variable is decided.
\* A program make stops at says nothing, nor does one that evaluates a text with
\* an unknown variable, which the parser leaves in the line and reads later.
ConcreteIsCertain ==
    comparable => \A world \in Worlds :
      \A make \in {makeRun(world, main)} :
        ~make.fatal /\ make.evalSure => \A x \in observed :
            agree(textOf(x), makeText(make, world, <<>>, r(x), {}))

\* Where make would not look at an unknown or undefined variable, the parser
\* decides too: the values, and those of the exported variables, are concrete
\* and make's.
KnownIsConcrete ==
    comparable => \A world \in Worlds :
      \A make \in {makeRun(world, main)}, exported \in {exportedVariables} :
        LET value(x) == makeText(make, world, <<>>, r(x), {})
        IN  make.sure =>
              /\ DOMAIN exported = make.exported
              /\ \A x \in make.exported \cap DOMAIN make.vars : certain(value(x), exported[x])
              /\ \A x \in observed \cap DOMAIN make.vars : certain(value(x), textOf(x))

\* The files that a program's mandatory includes lead to, by name.
RECURSIVE reached(_, _)
reached(program, n) ==
    LET here == {l.rhs[1].w : l \in {l \in included(program) : l.rhs[1].k = "word"}}
    IN  here \cup (IF n = 0 THEN {} ELSE UNION {reached(MCFiles[f], n - 1) : f \in here \cap DOMAIN MCFiles})

plainIncludes == \A l \in included(main) : l.rhs[1].k = "word" /\ ~l.optional

ReadsAllOrFails ==
    included(main) # {} /\ plainIncludes =>
      /\ outcome = "done" => seen \ {"Makefile"} = reached(main, 4)
      /\ outcome = "failed" => reached(main, 4) \cap {"absent", "self"} # {} \/ "deep" \in reached(main, 0)

\* The parse ends, whatever the files include.  A program without optional
\* includes is then read to the end of every file it leads to, or has failed,
\* and it fails only if a file is missing, includes itself or lies too deep.
IncludesAreRead == <>(outcome # "reading" /\ ReadsAllOrFails)
=============================================================================
