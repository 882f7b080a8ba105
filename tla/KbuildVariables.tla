-------------------------- MODULE KbuildVariables --------------------------
(***************************************************************************)
(* Variables and functions of the Kbuild parser (kbuild.go): assignments   *)
(* of the four flavours, define, undefine, export, includes, and the       *)
(* expansion of references, some of which stand for variables that only    *)
(* the top-level Makefile or the environment defines.  Where make would    *)
(* put their values, the parser keeps the reference as text, and it keeps  *)
(* a function as text when what it must decide on contains such text.      *)
(*                                                                         *)
(* A text is a sequence of nodes, words and references; blanks between     *)
(* nodes are single, and a word is never glued to a reference, except in   *)
(* the computed name of a reference.  Conditionals are KbuildConditionals', *)
(* here every line is active; measured calls (cc-option) are ToolProbe's.  *)
(***************************************************************************)
EXTENDS Naturals, Sequences, FiniteSets, SequencesExt

CONSTANTS
    Files,          \* file |-> its statements, of the files that may be included
    Mains,          \* the statements of the file a parse may begin with
    Initial,        \* initialVars: name |-> text
    KnownEmpty,     \* names that are known to be empty when they are undefined
    Family(_),      \* the other names of the family of obj-y, obj-m, obj-n
    Named(_, _),    \* the name that a prefix and some words make
    MaxDepth,       \* bound on the nesting of expansions
    MaxIncludeDepth

VARIABLES
    main,           \* the statements of the first file, Makefile
    stack,          \* the files being read, each with its next line
    st,             \* the parser's variables
    seen,           \* the files read to their end
    outcome         \* "reading", "done" or "failed"

vars == <<main, stack, st, seen, outcome>>

word(w) == [k |-> "word", w |-> w]
ref(x) == [k |-> "ref", x |-> x]

containsMakeReference(text) == \E i \in DOMAIN text : text[i].k # "word"

Init ==
    /\ main \in Mains
    /\ stack = <<[file |-> "Makefile", line |-> 1, optional |-> FALSE]>>
    /\ st = [vars |-> <<>>, undefined |-> {}, exported |-> {}, expanding |-> {}, err |-> FALSE]
    /\ seen = {}
    /\ outcome = "reading"

(***************************************************************************)
(* Variables.                                                              *)
(***************************************************************************)
defined(s, x) == x \notin s.undefined /\ x \in DOMAIN s.vars \cup DOMAIN Initial

lookupVariable(s, x) ==
    IF x \in DOMAIN s.vars THEN s.vars[x] ELSE [value |-> Initial[x], recursive |-> FALSE]

setVariable(s, x, value, recursive) ==
    [s EXCEPT !.undefined = @ \ {x},
              !.vars = [n \in DOMAIN @ \cup {x} |->
                          IF n = x THEN [value |-> value, recursive |-> recursive] ELSE @[n]]]

undefineVariable(s, x) ==
    [s EXCEPT !.vars = [n \in DOMAIN @ \ {x} |-> @[n]], !.undefined = @ \cup {x}]

assign(s, x, op, raw, expanded) ==
    CASE op = "+=" /\ defined(s, x) ->
           LET current == lookupVariable(s, x)
           IN  setVariable(s, x, current.value \o (IF current.recursive THEN raw ELSE expanded),
                           current.recursive)
      [] op = "?=" /\ defined(s, x) -> s
      [] op = ":=" -> setVariable(s, x, expanded, FALSE)
      [] OTHER -> setVariable(s, x, raw, TRUE)

(***************************************************************************)
(* Expansion.  Local variables of call and foreach are frames, innermost   *)
(* first.  An $(eval) in what is expanded may change any variable.         *)
(***************************************************************************)
frameOf(loc, x) == {i \in DOMAIN loc : x \in DOMAIN loc[i]}
innermost(loc, x) == loc[CHOOSE i \in frameOf(loc, x) : \A j \in frameOf(loc, x) : i <= j][x]

lookupRawVar(s, loc, x) ==
    IF frameOf(loc, x) # {} THEN {innermost(loc, x)}
    ELSE IF defined(s, x) THEN {lookupVariable(s, x).value} ELSE {}

\* obj-n is empty once any other of its family is known.
knownEmptyConditionalVariable(s, x) == \E y \in Family(x) : defined(s, y)

positional == {"1", "2", "3"}

\* The positional names a body mentions, at any depth of functions.
RECURSIVE positionalMakeReferences(_)
positionalMakeReferences(text) ==
    UNION {IF text[i].k = "ref" THEN {text[i].x} \cap positional
           ELSE IF text[i].k = "word" THEN {}
           ELSE UNION {positionalMakeReferences(text[i].args[j]) : j \in DOMAIN text[i].args} :
             i \in DOMAIN text}

callFrame(body, name, args) ==
    [x \in positionalMakeReferences(body) \cup {"0"} \cup {<<"1", "2", "3">>[i] : i \in DOMAIN args} |->
       CASE x = "0" -> <<word(name)>>
         [] x = "1" /\ Len(args) >= 1 -> args[1]
         [] x = "2" /\ Len(args) >= 2 -> args[2]
         [] x = "3" /\ Len(args) >= 3 -> args[3]
         [] OTHER -> <<>>]

result(s, out) == [st |-> s, out |-> out, ok |-> TRUE]
failed(s) == [s EXCEPT !.err = TRUE]

appended(acc, r) == result(r.st, acc.out \o r.out)

RECURSIVE expandDepth(_, _, _, _), evalReference(_, _, _, _), expandVariable(_, _, _, _, _)

expandDepth(s, loc, text, d) ==
    IF d > MaxDepth THEN result(failed(s), <<>>)
    ELSE FoldLeft(LAMBDA acc, n :
                    IF acc.st.err THEN acc
                    ELSE appended(acc, evalReference(acc.st, loc, n, d + 1)),
                  result(s, <<>>), text)

\* Fault: the mark of a variable being expanded stays.
expandVariableMarked(s, loc, x, original, d) ==
    IF frameOf(loc, x) # {} THEN result(s, innermost(loc, x))
    ELSE IF ~defined(s, x)
      THEN [st |-> s, out |-> <<>>,
            ok |-> x \in KnownEmpty \/ knownEmptyConditionalVariable(s, x)]
    ELSE LET v == lookupVariable(s, x)
         IN  IF ~v.recursive THEN result(s, v.value)
             ELSE IF x \in s.expanding THEN result(s, original)
             ELSE LET r == expandDepth([s EXCEPT !.expanding = @ \cup {x}], loc, v.value, d)
                  IN  r

\* Not ok when nothing is known of the variable.
expandVariable(s, loc, x, original, d) ==
    IF frameOf(loc, x) # {} THEN result(s, innermost(loc, x))
    ELSE IF ~defined(s, x)
      THEN [st |-> s, out |-> <<>>,
            ok |-> x \in KnownEmpty \/ knownEmptyConditionalVariable(s, x)]
    ELSE LET v == lookupVariable(s, x)
         IN  IF ~v.recursive THEN result(s, v.value)
             ELSE IF x \in s.expanding THEN result(s, original)
             ELSE LET r == expandDepth([s EXCEPT !.expanding = @ \cup {x}], loc, v.value, d)
                  IN  result([r.st EXCEPT !.expanding = @ \ {x}], r.out)

\* The arguments of a function, expanded one after the other.
expandArgs(s, loc, args, d) ==
    FoldLeft(LAMBDA acc, a : LET r == expandDepth(acc.st, loc, a, d)
                             IN  [st |-> r.st, outs |-> Append(acc.outs, r.out)],
             [st |-> s, outs |-> <<>>], args)

evalForeach(s, loc, n, d) ==
    LET list == expandDepth(s, loc, n.args[1], d)
    IN  IF containsMakeReference(list.out) THEN result(list.st, <<n>>)
        ELSE FoldLeft(LAMBDA acc, w :
                        appended(acc, expandDepth(acc.st, <<(n.x :> <<w>>)>> \o loc, n.args[2], d)),
                      result(list.st, <<>>), list.out)

evalCall(s, loc, n, d) ==
    LET a == expandArgs(s, loc, n.args, d)
        body == lookupRawVar(a.st, loc, n.x)
    IN  IF body = {} THEN result(a.st, <<n>>)
        ELSE LET b == CHOOSE b \in body : TRUE
             IN  expandDepth(a.st, <<callFrame(b, n.x, a.outs)>> \o loc, b, d)

\* Fault: a condition that is kept as text counts as true.
evalIfText(s, loc, n, d) ==
    LET c == expandDepth(s, loc, n.args[1], d)
    IN  IF c.out # <<>> THEN expandDepth(c.st, loc, n.args[2], d)
        ELSE expandDepth(c.st, loc, n.args[3], d)

evalIf(s, loc, n, d) ==
    LET c == expandDepth(s, loc, n.args[1], d)
    IN  IF containsMakeReference(c.out) THEN result(c.st, <<n>>)
        ELSE IF c.out # <<>> THEN expandDepth(c.st, loc, n.args[2], d)
        ELSE expandDepth(c.st, loc, n.args[3], d)

\* Of two arguments.
evalOr(s, loc, n, d) ==
    LET a == expandDepth(s, loc, n.args[1], d)
    IN  IF containsMakeReference(a.out) THEN result(a.st, <<n>>)
        ELSE IF a.out # <<>> THEN a
        ELSE LET b == expandDepth(a.st, loc, n.args[2], d)
             IN  IF containsMakeReference(b.out) THEN result(b.st, <<n>>) ELSE b

evalAnd(s, loc, n, d) ==
    LET a == expandDepth(s, loc, n.args[1], d)
    IN  IF containsMakeReference(a.out) THEN result(a.st, <<n>>)
        ELSE IF a.out = <<>> THEN a
        ELSE expandDepth(a.st, loc, n.args[2], d)

\* The text of an eval is a line: here an assignment, parsed like any other.
evalEval(s, loc, n, d) ==
    LET a == expandDepth(s, loc, n.args[1], d)
        r == expandDepth(a.st, loc, a.out, 0)
    IN  result(IF r.st.err THEN r.st ELSE assign(r.st, n.x, n.op, a.out, r.out), <<>>)

evalFlavor(s, loc, n) ==
    word(CASE frameOf(loc, n.x) # {} -> "simple"
           [] frameOf(loc, n.x) = {} /\ ~defined(s, n.x) -> "undefined"
           [] OTHER -> IF lookupVariable(s, n.x).recursive THEN "recursive" ELSE "simple")

evalOrigin(s, loc, n) ==
    word(IF frameOf(loc, n.x) # {} THEN "automatic"
         ELSE IF defined(s, n.x) THEN "file" ELSE "undefined")

\* One of the functions of words: filter-out without patterns.
evalFilterOut(s, loc, n, d) ==
    LET a == expandArgs(s, loc, n.args, d)
    IN  IF containsMakeReference(a.outs[1]) \/ containsMakeReference(a.outs[2])
          THEN result(a.st, <<n>>)
          ELSE result(a.st, SelectSeq(a.outs[2], LAMBDA w : w \notin ToSet(a.outs[1])))

evalReference(s, loc, n, d) ==
    CASE n.k = "word"   -> result(s, <<n>>)
      [] n.k = "ref"    -> LET v == expandVariable(s, loc, n.x, <<n>>, d)
                           IN  IF v.ok THEN v ELSE result(v.st, <<n>>)
      [] n.k = "computed" ->
           LET a == expandDepth(s, loc, n.args[1], d)
           IN  IF containsMakeReference(a.out) THEN result(a.st, <<n>>)
               ELSE LET v == expandVariable(a.st, loc, Named(n.x, a.out), <<n>>, d)
                    IN  IF v.ok THEN v ELSE result(v.st, <<>>)
      [] n.k = "if"     -> evalIf(s, loc, n, d)
      [] n.k = "or"     -> evalOr(s, loc, n, d)
      [] n.k = "and"    -> evalAnd(s, loc, n, d)
      [] n.k = "foreach" -> evalForeach(s, loc, n, d)
      [] n.k = "call"   -> evalCall(s, loc, n, d)
      [] n.k = "eval"   -> evalEval(s, loc, n, d)
      [] n.k = "value"  -> result(s, IF lookupRawVar(s, loc, n.x) = {} THEN <<>>
                                     ELSE CHOOSE t \in lookupRawVar(s, loc, n.x) : TRUE)
      [] n.k = "flavor" -> result(s, <<evalFlavor(s, loc, n)>>)
      [] n.k = "origin" -> result(s, <<evalOrigin(s, loc, n)>>)
      [] n.k = "filter-out" -> evalFilterOut(s, loc, n, d)

expand(s, text) == expandDepth(s, <<>>, text, 0)

(***************************************************************************)
(* Lines.                                                                  *)
(***************************************************************************)
\* parseAssignment and finishDefine: the value is expanded in any flavour, to
\* r here.
assigned(l, r) ==
    IF r.st.err THEN r.st
    ELSE [assign(r.st, l.x, l.op, l.rhs, r.out) EXCEPT
            !.exported = IF l.export THEN @ \cup {l.x} ELSE @]

parseAssignment(s, l) == assigned(l, expand(s, l.rhs))

exportVariable(s, x) ==
    [(IF defined(s, x) THEN s ELSE setVariable(s, x, <<>>, FALSE)) EXCEPT !.exported = @ \cup {x}]

\* A name that stays a reference is left out.
directed(l, r) ==
    LET kept == SelectSeq(r.out, LAMBDA n : n.k = "word")
        names == [i \in DOMAIN kept |-> kept[i].w]
    IN  CASE l.k = "undefine" -> FoldLeft(undefineVariable, r.st, names)
          [] l.k = "unexport" -> [r.st EXCEPT !.exported = @ \ ToSet(names)]
          [] l.k = "export" -> FoldLeft(exportVariable, r.st, names)

parseVariableDirective(s, l) == directed(l, expand(s, l.rhs))

parsed(s, l) ==
    CASE l.k = "set" -> parseAssignment(s, l)
      [] l.k = "line" -> expand(s, l.rhs).st
      [] OTHER -> parseVariableDirective(s, l)

top == stack[Len(stack)]
linesOf(file) == IF file = "Makefile" THEN main ELSE Files[file]
pop == SubSeq(stack, 1, Len(stack) - 1)
advanced == Append(pop, [top EXCEPT !.line = @ + 1])
currentLine == linesOf(top.file)[top.line]
atEnd == top.line > Len(linesOf(top.file))

ParseLine ==
    /\ outcome = "reading" /\ ~atEnd
    /\ currentLine.k # "include"
    /\ st' = parsed(st, currentLine)
    /\ outcome' = IF st'.err THEN "failed" ELSE "reading"
    /\ stack' = advanced
    /\ UNCHANGED <<main, seen>>

parsing == {stack[i].file : i \in DOMAIN stack}

\* Fault: after an optional include of a missing file the file starts over.
afterMissingAgain(optional) == IF optional THEN [stack EXCEPT ![Len(stack)].line = 1] ELSE <<>>

\* Where the parse goes on after a file that does not exist: at the innermost
\* optional include, even when that include's own file exists.
afterMissing(optional) ==
    IF optional THEN advanced
    ELSE LET n == CHOOSE n \in 0..Len(stack) :
                    /\ n > 0 => stack[n].optional
                    /\ \A m \in n + 1..Len(stack) : ~stack[m].optional
         IN  SubSeq(stack, 1, n - 1)

\* parseKbuildInclude and parseInto: a file that is being read is an error, one
\* that has been read is skipped, as is a path that stays a reference.
ParseInclude ==
    /\ outcome = "reading" /\ ~atEnd
    /\ currentLine.k = "include"
    /\ \E r \in {expand(st, currentLine.rhs)} :
         LET path == IF r.out # <<>> /\ r.out[1].k = "word" THEN {r.out[1].w} ELSE {}
             refused == \/ r.st.err
                        \/ path # {} /\ Len(stack) > MaxIncludeDepth
                        \/ path \cap parsing # {}
             missing == ~(path \subseteq DOMAIN Files)
             read == path \ seen # {}
         IN  /\ st' = r.st
             /\ stack' = IF refused THEN <<>>
                         ELSE IF missing THEN afterMissing(currentLine.optional)
                         ELSE IF read THEN Append(advanced, [file |-> r.out[1].w, line |-> 1,
                                                             optional |-> currentLine.optional])
                         ELSE advanced
             /\ outcome' = IF stack' = <<>> THEN "failed" ELSE "reading"
    /\ UNCHANGED <<main, seen>>

EndOfFile ==
    /\ outcome = "reading" /\ atEnd
    /\ seen' = seen \cup {top.file}
    /\ stack' = pop
    /\ outcome' = IF pop = <<>> THEN "done" ELSE "reading"
    /\ UNCHANGED <<main, st>>

Done == outcome # "reading" /\ UNCHANGED vars

Next == ParseLine \/ ParseInclude \/ EndOfFile \/ Done

\* The parser is sequential code and runs on.
Spec == Init /\ [][Next]_vars /\ ([]<>(outcome # "reading") \/ []<><<Next>>_vars)

\* finalizeExportedVariables: one that has been undefined since is empty.
exportedVariables == [x \in st.exported |-> expandVariable(st, <<>>, x, <<ref(x)>>, 0).out]
=============================================================================
