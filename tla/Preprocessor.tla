----------------------------- MODULE Preprocessor -----------------------------
(***************************************************************************)
(* What a compiler reads of a source: the C preprocessor as the scanner of *)
(* SourceClosure takes it to be, with one value for every macro.  It runs  *)
(* line by line, with the definitions made so far, and stops at a file     *)
(* that does not exist.                                                    *)
(*                                                                         *)
(* A world fixes what the scanner cannot know: vals, the values of the     *)
(* macros that headers outside the tree may define; generated, whether     *)
(* __has_include finds a generated header; other, the value of a condition *)
(* the scanner does not understand.                                        *)
(***************************************************************************)
EXTENDS SourceClosure

CONSTANT MaxNest \* bound: files open at a time

valueOf(env, symbol) == IF symbol \in DOMAIN env THEN env[symbol] ELSE "undefined"

\* The autoconf.h of a configuration: one definition of each symbol that is
\* set, y as 1, m as 1 under the module's name.
autoconf(config, symbols) ==
    LET set == {x \in config.written : x \in symbols /\ configValue(config, x) # "n"}
        name(x) == IF configValue(config, x) = "m" THEN <<"module", x>> ELSE <<"config", x>>
    IN [s \in {name(x) : x \in set} |->
          IF configValue(config, s[2]) = "0" THEN "zero" ELSE "one"]

\* The symbols a fragment of these references writes: the one of a module is
\* not a configuration symbol.
fragmentSymbols(refs) == {r[2] : r \in {r \in refs : r[1] = "config"}}

commandLine(q) ==
    FoldLeft(LAMBDA env, flag :
               IF flag.opt = "D" THEN (flag.sym :> flag.val) @@ env
               ELSE IF flag.opt = "U" THEN (flag.sym :> "undefined") @@ env
               ELSE env,
             <<>>, q.flags)

\* What is defined before the first line: by the command line, which follows
\* the whole configuration, then by autoconf.h.
environment(q, world, conf) ==
    LET macro(x) == <<"macro", x>>
        when(b, x) == IF b THEN macro(x) :> "one" ELSE <<>>
    IN when(q.assembly, "__ASSEMBLY__")
         @@ when(configValue(q.config, "RANDSTRUCT") = "y", "RANDSTRUCT")
         @@ commandLine(q)
         @@ when(q.profile \in {"kernel-module", "kernel-module-genksyms"}, "MODULE")
         @@ when(q.profile \in {"kernel-genksyms", "kernel-module-genksyms"}, "__GENKSYMS__")
         @@ when(q.profile = "arm64-vdso", "BUILD_VDSO")
         @@ (macro("__KERNEL__") :> "one")
         @@ conf @@ world.vals

\* The first of the roots from the i-th on that has the file: the file and
\* the number of its root.
firstIn(t, roots, i, inc) ==
    LET at(j) == [path |-> clean(roots[j] \o inc), root |-> j]
        first(has) == IF has = {} THEN [path |-> <<>>, root |-> 0]
                      ELSE at(CHOOSE j \in has : \A k \in has : j <= k)
    IN first({j \in i..Len(roots) : absForTreePath(t, roots[j] \o inc)})

\* The compiler's search: beside the including file, then root by root;
\* include_next goes on after the root the including file was found in.
lookup(t, search, at, inc, kind) ==
    LET roots == searchRoots(search, "quoted")
        start == CASE kind = "next" -> at.root + 1
                   [] kind = "angled" -> Len(search.quote) + 1
                   [] OTHER -> 1
        beside == Front(at.path) \o inc
    IN IF kind = "quoted" /\ absForTreePath(t, beside)
       THEN [path |-> clean(beside), root |-> 0]
       ELSE firstIn(t, roots, start, inc)

RECURSIVE holds(_, _, _)
holds(cond, env, c) ==
    LET sub(i) == holds(cond[i], env, c)
        config(x) == valueOf(env, <<"config", x>>) = "one"
        module(x) == valueOf(env, <<"module", x>>) = "one"
    IN CASE cond[1] = "or"  -> sub(2) \/ sub(3)
         [] cond[1] = "and" -> sub(2) /\ sub(3)
         [] cond[1] = "not" -> ~sub(2)
         [] cond[1] = "int" -> cond[2] # 0
         [] cond[1] = "defined" -> valueOf(env, cond[2]) # "undefined"
         [] cond[1] = "value"   -> valueOf(env, cond[2]) = "one"
         [] cond[1] = "has" ->
              \/ lookup(c.t, c.search, c.at, cond[2], cond[3]).path # <<>>
              \/ cond[2] \in c.q.provided
              \/ compilerProvidedInclude(cond[2])
              \/ generatedHeaderInclude(cond[2]) /\ c.world.generated
         [] cond[1] = "IS_BUILTIN" -> config(cond[2][2])
         [] cond[1] = "IS_MODULE"  -> module(cond[2][2])
         [] cond[1] = "IS_ENABLED" -> config(cond[2][2]) \/ module(cond[2][2])
         [] cond[1] = "IS_REACHABLE" ->
              \/ config(cond[2][2])
              \/ module(cond[2][2]) /\ valueOf(env, <<"macro", "MODULE">>) = "one"
         [] OTHER -> c.world.other

\* The macros and files of a run: what is defined, what was opened, which
\* lines were compiled with which values.
Fresh(env) == [env |-> env, opened |-> {}, generated |-> {}, bins |-> {},
               mentions |-> {}, lines |-> {}, stopped |-> FALSE]

skipping(frames) == frames # <<>> /\ ~Last(frames).active

RECURSIVE runLines(_, _, _, _, _, _)
RECURSIVE openFile(_, _, _, _)

\* An include that reached the compiler.
includeFrom(c, path, kind, run, nest) ==
    LET wrapper(generic) ==
          IF generic = <<>> THEN [path |-> <<>>, root |-> 0]
          ELSE firstIn(c.t, searchRoots(c.search, "quoted"), Len(c.search.quote) + 1, generic)
        noted == [run EXCEPT !.generated = @ \cup {path}]
        opened(found, wrapped) ==
          CASE found.path # <<>> -> openFile(c, found, run, nest + 1)
            [] path \in c.q.provided -> run
            [] wrapped.path # <<>> -> openFile(c, wrapped, noted, nest + 1)
            [] generatedHeaderInclude(path) -> noted
            [] compilerProvidedInclude(path) -> run
            [] OTHER -> [run EXCEPT !.stopped = TRUE]
    IN opened(lookup(c.t, c.search, c.at, path, kind), wrapper(asmGeneric(path)))

openFile(c, at, run, nest) ==
    IF nest > MaxNest THEN [run EXCEPT !.stopped = TRUE]
    ELSE runLines([c EXCEPT !.at = at], c.t.text[c.t.tree[at.path]], 1, <<>>,
                  [run EXCEPT !.opened = @ \cup {at.path}], nest)

\* The include directive of a line: literal, of a quoted value, or the trace
\* template that opens the header that is being expanded again.
directive(c, line, run, nest) ==
    LET named == line.kind # "macro"
        valued == /\ valueOf(run.env, line.sym) # "undefined"
                  /\ line.sym[2] \in DOMAIN c.q.config.path
    IN CASE ~named /\ line.sym = <<"macro", "TRACE_INCLUDE">> ->
              openFile(c, [path |-> c.t.template, root |-> 0], run, nest + 1)
         [] named \/ (line.sym # <<"macro", "TRACE_INCLUDE">> /\ valued) ->
              includeFrom(c, IF named THEN line.path ELSE c.q.config.path[line.sym[2]],
                          IF named THEN line.kind ELSE "quoted", run, nest)
         [] OTHER -> [run EXCEPT !.stopped = TRUE]

incbinFrom(c, line, run) ==
    LET image == IF c.q.source \in DOMAIN VdsoImages THEN VdsoImages[c.q.source] ELSE <<>>
        embeds(found) ==
          CASE line.path = VdsoPath ->
                 [run EXCEPT !.stopped = image \notin c.q.provided]
            [] line.path = <<>> -> [run EXCEPT !.stopped = TRUE]
            [] found.path # <<>> -> [run EXCEPT !.bins = @ \cup {found.path}]
            [] line.path \in c.q.provided -> run
            [] OTHER -> [run EXCEPT !.stopped = TRUE]
    IN embeds(lookup(c.t, c.search, c.at, line.path, "quoted"))

\* One active line that is not a conditional.
runLine(c, line, n, run, nest) ==
    LET noted == [run EXCEPT !.mentions = @ \cup lineRefs(line)]
    IN CASE line.k = "include" -> directive(c, line, noted, nest)
         [] line.k = "incbin" /\ c.q.assembly -> incbinFrom(c, line, noted)
         [] line.k = "define" -> [noted EXCEPT !.env = (line.sym :> line.val) @@ @]
         [] line.k = "undef"  -> [noted EXCEPT !.env = (line.sym :> "undefined") @@ @]
         [] line.k = "text"   ->
              [noted EXCEPT !.lines = @ \cup
                 {<<c.at.path, n, {<<s, valueOf(run.env, s)>> : s \in line.refs}>>}]
         [] OTHER -> noted

\* A frame says whether its group is active and whether a group of its
\* conditional was.
runLines(c, lines, n, frames, run, nest) ==
    IF n > Len(lines) \/ run.stopped THEN run
    ELSE LET line == lines[n]
             mention == [run EXCEPT !.mentions = @ \cup lineRefs(line)]
             set(active) == Append(Front(frames),
                                   [active |-> active, done |-> Last(frames).done \/ active])
             on(fs, r) == runLines(c, lines, n + 1, fs, r, nest)
             branch(value) ==
               on(IF line.k = "elif" THEN set(value)
                  ELSE Append(frames, [active |-> value, done |-> value]), mention)
         IN CASE line.k = "if" /\ skipping(frames) ->
                   on(Append(frames, [active |-> FALSE, done |-> TRUE]), run)
              [] line.k = "elif" /\ Last(frames).done -> on(set(FALSE), run)
              [] \/ line.k = "if" /\ ~skipping(frames)
                 \/ line.k = "elif" /\ ~Last(frames).done ->
                   branch(holds(line.cond, run.env, c))
              [] line.k = "else"  -> on(set(~Last(frames).done), run)
              [] line.k = "endif" -> on(Front(frames), run)
              [] skipping(frames) -> on(frames, run)
              [] OTHER -> on(frames, runLine(c, line, n, run, nest))

\* The run of a compiler that reads the sources one after the other under the
\* flags of a request, with an autoconf.h of the given symbols.
compileAll(t, q, search, sources, world, symbols) ==
    LET c == [t |-> t, q |-> q, world |-> world, search |-> search,
              at |-> [path |-> <<>>, root |-> 0]]
        read(run, source) ==
          IF run.stopped \/ ~absForTreePath(t, source) THEN [run EXCEPT !.stopped = TRUE]
          ELSE openFile(c, [path |-> clean(source), root |-> 0], run, 1)
    IN FoldLeft(read, Fresh(environment(q, world, autoconf(q.config, symbols))), sources)

\* The run of a compiler on the source of a request.
compile(t, q, source, world, symbols) ==
    compileAll(t, q, searchOf(t, q), <<source>>, world, symbols)
=============================================================================
