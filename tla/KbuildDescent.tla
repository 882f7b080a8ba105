--------------------------- MODULE KbuildDescent ---------------------------
(***************************************************************************)
(* The descent into the directories of the kernel tree                     *)
(* (internal/kconfig/kbuild.go, ParseKbuildDirectoryTree), composed with   *)
(* the resolution of its result for each configuration (KbuildObjects).    *)
(*                                                                         *)
(* A directory is parsed once and visited as often as other Makefiles name *)
(* it.  Each visit prefixes the parsed file with the directory, adds the   *)
(* gate under which the directory is entered, and is numbered; the numbers *)
(* are how flags find the objects below their directory.  Prefixing writes *)
(* through the slices of the cached file, so all visits share the paths:   *)
(* an assignment keeps a reference to the cached one.                      *)
(*                                                                         *)
(* What GNU make and Kbuild do with the same Makefiles in one given        *)
(* configuration is the reference.                                         *)
(***************************************************************************)
EXTENDS KbuildObjects

CONSTANTS
  Trees     \* the source trees: directories with the lines of their Makefiles

Root == <<>>
RootMakefile == <<"arch", "Makefile">>   \* read with the root's own, if the tree has it

VARIABLES
  tree,                \* the Makefile lines of each directory that has one
  cache,               \* parsed files, by directory
  stack,               \* the visits in progress, the innermost last
  nextTraversalScope,
  status,              \* "descending", "done" or "recursive"
  result,              \* the merged KbuildFile
  resolved,            \* resolvedObjects of it in every configuration
  parentScope          \* history: the visit that caused a visit

vars == <<tree, cache, stack, nextTraversalScope, status, result, resolved, parentScope>>

top == stack[Len(stack)]

-----------------------------------------------------------------------------
(***************************************************************************)
(* Parsing a Makefile.  A line is [lhs, condition, op, values] where a     *)
(* value is <<"object", path>>, <<"dir", path>> or <<"root", path>>, the   *)
(* built-in.a of a directory below $(objtree).                             *)
(***************************************************************************)
EmptyFile == [assigns |-> <<>>, dirs |-> <<>>, composites |-> <<>>, flags |-> <<>>, order |-> 0]

flushObjects(chunk, line) ==
  IF chunk.objects = <<>> THEN chunk
  ELSE [chunk EXCEPT !.objects = <<>>, !.op = "+=",
          !.assigns = Append(@, [kind |-> line.lhs, objects |-> chunk.objects, op |-> chunk.op,
                                 condition |-> line.condition, order |-> chunk.start])]

\* A line of objects and directories becomes one assignment per run of objects.
parseCollectionAssignment(file, line) ==
  LET take(chunk, value) ==
        LET order == chunk.order + 1
        IN IF value[1] = "object" /\ line.lhs \in {"obj", "lib"}
           THEN [chunk EXCEPT !.order = order, !.objects = Append(@, value[2]),
                              !.start = IF chunk.objects = <<>> THEN order ELSE @]
           ELSE IF value[1] = "object" THEN [chunk EXCEPT !.order = order]
           ELSE [flushObjects(chunk, line) EXCEPT !.order = order,
                   !.dirs = Append(@, [kind |-> line.lhs, directory |-> value[2],
                                       root |-> value[1] = "root",
                                       condition |-> line.condition, order |-> order])]
      start == [objects |-> <<>>, start |-> 0, op |-> line.op, order |-> file.order,
                assigns |-> file.assigns, dirs |-> file.dirs]
      end == flushObjects(FoldLeft(take, start, line.values), line)
  IN [file EXCEPT !.assigns = end.assigns, !.dirs = end.dirs, !.order = end.order]

parseCompositeMemberAssignment(file, line) ==
  [file EXCEPT !.composites =
     Append(@, [composite |-> line.of, op |-> line.op, condition |-> line.condition,
                objects |-> [i \in DOMAIN line.values |-> line.values[i][2]]])]

parseGlobalFlagAssignment(file, line) ==
  [file EXCEPT !.flags =
     Append(@, [scope |-> "global", recursive |-> line.recursive, flag |-> line.of,
                condition |-> line.condition])]

parsePerObjectFlag(file, line) ==
  [file EXCEPT !.flags =
     Append(@, [scope |-> "object", object |-> line.object, flag |-> line.of,
                condition |-> line.condition])]

\* A line without values says nothing, whatever its operator.
parseAssignment(file, line) ==
  CASE line.values = <<>> -> file
    [] line.values # <<>> /\ line.lhs \in {"obj", "lib", "subdir"} ->
         parseCollectionAssignment(file, line)
    [] line.values # <<>> /\ line.lhs = "composite" -> parseCompositeMemberAssignment(file, line)
    [] line.values # <<>> /\ line.lhs = "ccflags" -> parseGlobalFlagAssignment(file, line)
    [] line.values # <<>> /\ line.lhs = "CFLAGS_" -> parsePerObjectFlag(file, line)

parseKbuildFileTree(lines) == FoldLeft(parseAssignment, EmptyFile, lines)

-----------------------------------------------------------------------------
(***************************************************************************)
(* Prefixing.                                                              *)
(***************************************************************************)
Clean(path) ==
  FoldLeft(LAMBDA out, name :
             IF name = ".." /\ out # <<>> /\ Last(out) # ".."
             THEN Front(out) ELSE Append(out, name),
           <<>>, path)

prefixKbuildPath(dir, path) ==
  IF dir = Root \/ IsPrefix(dir, path) THEN path ELSE Clean(dir \o path)

prefixAll(dir, paths) == [i \in DOMAIN paths |-> prefixKbuildPath(dir, paths[i])]

\* The cached file after a visit: the paths of object and composite assignments
\* are prefixed in place.
prefixInPlace(file, dir) ==
  [file EXCEPT
     !.assigns = [i \in DOMAIN @ |-> [@[i] EXCEPT !.objects = prefixAll(dir, @)]],
     !.composites = [i \in DOMAIN @ |-> [@[i] EXCEPT !.objects = prefixAll(dir, @)]]]

\* What a visit contributes.  An object assignment refers to the cached one.
prefixKbuildFile(key, file, dir, gate, traversal) ==
  [objectAssigns |->
     [i \in DOMAIN file.assigns |->
        [of |-> <<key, i>>, kind |-> file.assigns[i].kind, op |-> file.assigns[i].op,
         directory |-> dir, root |-> traversal.linked, traversal |-> traversal,
         order |-> file.assigns[i].order,
         condition |-> combineKbuildConditions(<<gate, file.assigns[i].condition>>)]],
   compositeAssigns |->
     [i \in DOMAIN file.composites |->
        [of |-> <<key, i>>, composite |-> prefixKbuildPath(dir, file.composites[i].composite),
         op |-> file.composites[i].op, directory |-> dir, traversal |-> traversal,
         condition |-> combineKbuildConditions(<<gate, file.composites[i].condition>>)]],
   flags |->
     [i \in DOMAIN file.flags |->
        LET f == file.flags[i]
            condition == combineKbuildConditions(<<gate, f.condition>>)
        IN IF f.scope = "object"
           THEN [scope |-> "object", object |-> prefixKbuildPath(dir, f.object),
                 flag |-> f.flag, condition |-> condition, traversalStart |-> traversal.scope,
                 traversalEnd |-> traversal.scope]
           ELSE [scope |-> "global", recursive |-> f.recursive, flag |-> f.flag,
                 condition |-> condition, traversalStart |-> traversal.scope,
                 traversalEnd |-> traversal.scope]]]

-----------------------------------------------------------------------------
(***************************************************************************)
(* The descent (parsePath).                                                *)
(***************************************************************************)
\* Assignments, then directories: a fault if it stayed so, for the order of their
\* tokens is lost.
unorderedEvents(file, prefixed) ==
  [i \in DOMAIN prefixed.objectAssigns |->
     [order |-> file.assigns[i].order, assignment |-> <<prefixed.objectAssigns[i]>>]]
  \o [i \in DOMAIN file.dirs |->
        [order |-> file.dirs[i].order, assignment |-> <<>>, dir |-> file.dirs[i]]]

\* Assignments and directories of one Makefile in the order of their tokens.
orderedEvents(file, prefixed) ==
  SortSeq(unorderedEvents(file, prefixed), LAMBDA e, f : e.order < f.order)

parsed(dir) == IF dir \in DOMAIN cache THEN cache[dir] ELSE parseKbuildFileTree(tree[dir])

merge(into, child) ==
  [objectAssigns |-> into.objectAssigns \o child.objectAssigns,
   compositeAssigns |-> into.compositeAssigns \o child.compositeAssigns,
   flags |-> into.flags \o child.flags]

visit(dir, gate, linkRoots) ==
  LET traversal == [scope |-> nextTraversalScope + 1, linked |-> linkRoots]
      out(key) == prefixKbuildFile(key, parsed(key), dir, gate, traversal)
      events(key) == orderedEvents(parsed(key), out(key))
      rootMakefile == dir = Root /\ RootMakefile \in DOMAIN tree
      merged == IF rootMakefile THEN merge(out(dir), out(RootMakefile)) ELSE out(dir)
  IN [dir |-> dir, gate |-> gate, traversal |-> traversal,
      events |-> IF rootMakefile THEN events(dir) \o events(RootMakefile) ELSE events(dir),
      out |-> [merged EXCEPT !.objectAssigns = <<>>]]

parsedTo(dir) ==
  [d \in DOMAIN cache \cup {dir} \cup (IF dir = Root THEN {RootMakefile} \cap DOMAIN tree ELSE {}) |->
     IF d = dir THEN prefixInPlace(parsed(dir), dir) ELSE parsed(d)]

Init ==
  /\ tree \in Trees
  /\ cache = [d \in {} |-> EmptyFile]
  /\ stack = <<>> /\ nextTraversalScope = 0
  /\ status = "descending"
  /\ result = [objectAssigns |-> <<>>, compositeAssigns |-> <<>>, flags |-> <<>>]
  /\ resolved = [c \in {} |-> <<>>]
  /\ parentScope = <<>>

Enter(dir, gate, linkRoots, frames) ==
  /\ stack' = Append(frames, visit(dir, gate, linkRoots))
  /\ cache' = parsedTo(dir)
  /\ nextTraversalScope' = nextTraversalScope + 1
  /\ parentScope' = Append(parentScope, IF stack = <<>> THEN 0 ELSE top.traversal.scope)

ParseKbuildDirectoryTree ==
  /\ status = "descending" /\ nextTraversalScope = 0
  /\ Enter(Root, const("y"), TRUE, <<>>)
  /\ UNCHANGED <<tree, status, result, resolved>>

running == status = "descending" /\ stack # <<>>

nextEvent == top.events[1]
rest == [stack EXCEPT ![Len(stack)].events = Tail(@)]

childDir ==
  IF nextEvent.dir.root THEN Clean(nextEvent.dir.directory)
  ELSE Clean(top.dir \o nextEvent.dir.directory)

Assignment ==
  /\ running /\ top.events # <<>> /\ nextEvent.assignment # <<>>
  /\ stack' = [rest EXCEPT ![Len(stack)].out.objectAssigns = @ \o nextEvent.assignment]
  /\ UNCHANGED <<tree, cache, nextTraversalScope, status, result, resolved, parentScope>>

atDirectory == running /\ top.events # <<>> /\ nextEvent.assignment = <<>>

\* Fault: a visited directory stays on the stack of directories in progress, as
\* if the deferred delete were missing.
onStackForever(dir) == dir \in DOMAIN cache

onStack(dir) == \E i \in DOMAIN stack : stack[i].dir = dir

NoMakefile ==
  /\ atDirectory /\ childDir \notin DOMAIN tree
  /\ stack' = rest
  /\ UNCHANGED <<tree, cache, nextTraversalScope, status, result, resolved, parentScope>>

reenters == atDirectory /\ childDir \in DOMAIN tree /\ onStack(childDir)

Recursive ==
  /\ reenters
  /\ status' = "recursive"
  /\ UNCHANGED <<tree, cache, stack, nextTraversalScope, result, resolved, parentScope>>

Descend ==
  /\ atDirectory /\ childDir \in DOMAIN tree /\ ~ onStack(childDir)
  /\ Enter(childDir, combineKbuildConditions(<<top.gate, nextEvent.dir.condition>>),
           top.traversal.linked /\ nextEvent.dir.kind # "subdir", rest)
  /\ UNCHANGED <<tree, status, result, resolved>>

closeKbuildFlagTraversal(flags, scope) ==
  [i \in DOMAIN flags |->
     IF flags[i].traversalStart = scope
     THEN [flags[i] EXCEPT !.traversalEnd = nextTraversalScope] ELSE flags[i]]

Return ==
  /\ running /\ top.events = <<>>
  /\ LET out == [top.out EXCEPT !.flags = closeKbuildFlagTraversal(@, top.traversal.scope)]
     IN IF Len(stack) = 1
        THEN stack' = <<>> /\ status' = "done" /\ result' = out
        ELSE /\ stack' = [Front(stack) EXCEPT ![Len(stack) - 1].out = merge(@, out)]
             /\ UNCHANGED <<status, result>>
  /\ UNCHANGED <<tree, cache, nextTraversalScope, resolved, parentScope>>

\* The result as its readers see it, through the shared slices.
kb ==
  [objectAssigns |->
     [i \in DOMAIN result.objectAssigns |->
        LET a == result.objectAssigns[i]
        IN [objects |-> cache[a.of[1]].assigns[a.of[2]].objects, op |-> a.op, kind |-> a.kind,
            directory |-> a.directory, root |-> a.root, traversal |-> a.traversal,
            condition |-> a.condition]],
   compositeAssigns |->
     [i \in DOMAIN result.compositeAssigns |->
        LET a == result.compositeAssigns[i]
        IN [objects |-> cache[a.of[1]].composites[a.of[2]].objects, op |-> a.op,
            composite |-> a.composite, directory |-> a.directory, traversal |-> a.traversal,
            condition |-> a.condition]],
   flags |-> result.flags]

Resolve ==
  /\ status = "done" /\ resolved' = [c \in Configs |-> resolvedObjects(kb, c)]
  /\ status' = "resolved"
  /\ UNCHANGED <<tree, cache, stack, nextTraversalScope, result, parentScope>>

Next ==
  \/ ParseKbuildDirectoryTree
  \/ Assignment \/ NoMakefile \/ Recursive \/ Descend \/ Return
  \/ Resolve

ended == status \in {"resolved", "recursive"}

\* ENABLED <<Next>>_vars, spelled out
canStep ==
  \/ status = "descending" /\ nextTraversalScope = 0
  \/ running /\ (top.events = <<>> \/ ~ atDirectory)
  \/ atDirectory /\ ~ (childDir \in DOMAIN tree /\ onStack(childDir))
  \/ reenters
  \/ status = "done"

\* Weak fairness of Next: the parser is sequential code and runs on.
Spec == Init /\ [][Next]_vars /\ ([]<>~canStep \/ []<><<Next>>_vars)

-----------------------------------------------------------------------------
(***************************************************************************)
(* The reference: make and Kbuild in one configuration c.                  *)
(***************************************************************************)
IsDirectory(token) == token[1] \in {"dir", "root"}

linesOf(dir) ==
  tree[dir] \o IF dir = Root /\ RootMakefile \in DOMAIN tree THEN tree[RootMakefile] ELSE <<>>

\* The value of the variable lhs-mode (of a composite: of-mode) after all lines.
makeValue(dir, isMine(_), mode, c) ==
  FoldLeft(LAMBDA v, l : CASE l.op = ":=" -> <<l.values>>
                           [] l.op = "+=" -> << (IF v = <<>> THEN <<>> ELSE v[1]) \o l.values >>
                           [] l.op = "?=" -> IF v = <<>> THEN <<l.values>> ELSE v,
           <<>>, SelectSeq(linesOf(dir), LAMBDA l : isMine(l) /\ Mode(l.condition, c) = mode))

tokens(dir, kind, mode, c) ==
  LET v == makeValue(dir, LAMBDA l : l.lhs = kind, mode, c) IN IF v = <<>> THEN <<>> ELSE v[1]

dirOf(dir, token) == IF token[1] = "root" THEN token[2] ELSE Clean(dir \o token[2])

ownFlags(dir, c) ==
  {l \in Range(linesOf(dir)) : l.lhs = "ccflags" /\ Enabled(l.condition, c)}

\* Every visit: [dir, mode, linked, flags].
RECURSIVE makeVisits(_, _)
makeVisits(v, c) ==
  LET below == {<<kind, mode, t>> \in {"obj", "subdir"} \X {"m", "y"} \X
                  {t \in UNION {Range(l.values) : l \in Range(linesOf(v.dir))} : IsDirectory(t)} :
                  t \in Range(tokens(v.dir, kind, mode, c)) /\ dirOf(v.dir, t) \in DOMAIN tree}
      child(b) ==
        [dir |-> dirOf(v.dir, b[3]),
         mode |-> IF v.mode = "m" \/ b[2] = "m" THEN "m" ELSE "y",
         linked |-> v.linked /\ b[1] # "subdir",
         flags |-> {l \in v.flags : l.recursive} \cup ownFlags(dirOf(v.dir, b[3]), c)]
  IN {v} \cup UNION {makeVisits(child(b), c) : b \in below}

visitsOf(c) == makeVisits([dir |-> Root, mode |-> "y", linked |-> TRUE, flags |-> ownFlags(Root, c)], c)

\* Objects that a visit lists, with the mode they get in it.
listedBy(v, c) ==
  UNION {{[object |-> Clean(v.dir \o t[2]), mode |-> IF v.mode = "m" THEN "m" ELSE mode] :
            t \in {t \in Range(tokens(v.dir, kind, mode, c)) : t[1] = "object"}} :
         kind \in {"obj", "lib"}, mode \in {"m", "y"}}

\* Of all visits: what each object gets from those that build it, the linked
\* ones, or all of them if no linked one lists it.
makeBuild(c) ==
  LET all == visitsOf(c)
      listed == [v \in all |-> listedBy(v, c)]
      objects == {l.object : l \in UNION {listed[v] : v \in all}}
      listing(o) == {v \in all : \E l \in listed[v] : l.object = o}
      building(o) == IF \E v \in listing(o) : v.linked THEN {v \in listing(o) : v.linked}
                     ELSE listing(o)
      modes(o) == IF \E v \in all : [object |-> o, mode |-> "y"] \in listed[v]
                  THEN {"y"} ELSE {"m", "y"}
      value(v, o, mode) ==
        makeValue(v.dir, LAMBDA l : l.lhs = "composite" /\ Clean(v.dir \o l.of) = o, mode, c)
      members(o) == UNION {IF value(v, o, mode) = <<>> THEN {}
                           ELSE {Clean(v.dir \o t[2]) : t \in Range(value(v, o, mode)[1])} :
                             v \in building(o), mode \in modes(o)}
      ownFlagsOf(o) ==
        UNION {{l \in Range(linesOf(v.dir)) : l.lhs = "CFLAGS_" /\ Enabled(l.condition, c)
                                                /\ Clean(v.dir \o l.object) = o} : v \in building(o)}
  IN [o \in objects |-> [members |-> members(o), flags |-> UNION {v.flags : v \in building(o)},
                         ownFlags |-> ownFlagsOf(o)]]

\* built-in.a of a directory: its objects and directories in the order of obj-y.
RECURSIVE makeLinkOrder(_, _)
makeLinkOrder(dir, c) ==
  FlattenSeq([i \in DOMAIN tokens(dir, "obj", "y", c) |->
    LET t == tokens(dir, "obj", "y", c)[i]
    IN CASE t[1] = "object" -> <<Clean(dir \o t[2])>>
         [] IsDirectory(t) /\ dirOf(dir, t) \in DOMAIN tree -> makeLinkOrder(dirOf(dir, t), c)
         [] OTHER -> <<>>])

firsts(s) == FoldLeft(LAMBDA out, x : IF Contains(out, x) THEN out ELSE Append(out, x), <<>>, s)

-----------------------------------------------------------------------------
(***************************************************************************)
(* Properties.                                                             *)
(***************************************************************************)
resets == \E d \in DOMAIN tree : \E i \in DOMAIN tree[d] : tree[d][i].op # "+="

\* A directory that one Makefile names for its objects and for its flags: a visit
\* for the flags raises the mode of an object, which then loses its m members.
entersTwice ==
  \E d \in DOMAIN tree : \E l, k \in Range(linesOf(d)) :
    l.lhs = "obj" /\ k.lhs = "subdir" /\ Range(l.values) \cap Range(k.values) # {}

plain(c) == (\E s \in Symbols : c[s] = "m") => ~ resets /\ ~ entersTwice

\* Directories entered twice, linked or only for their flags, objects under
\* several conditions: an object is there exactly where some chain of Makefile
\* lines lists it or a composite it belongs to, and a composite has the members
\* its own visits give it.
ObjectsAreMakes ==
  \A c \in Configs : plain(c) =>
    LET make == makeBuild(c)
    IN /\ DOMAIN resolved[c].byName =
            DOMAIN make \cup UNION {make[o].members : o \in DOMAIN make}
       /\ \A o \in DOMAIN make : Range(resolved[c].byName[o].members) = make[o].members

\* The roots are in the order make links them: depth first, in the order of the
\* tokens, also where a line mixes objects and directories and is split.
LinkOrderIsMakes ==
  \A c \in [Symbols -> {"n", "y"}] :
    resolved[c].roots = firsts(makeLinkOrder(Root, c))

\* What the descent and the resolution for one configuration make of a tree is
\* what make builds of it: the same objects, composites with the same members,
\* linked in the same order.
BuildIsMakes == status = "resolved" => ObjectsAreMakes /\ LinkOrderIsMakes

\* Directory-wide flags reach an object through the numbering of the visits
\* exactly as make passes them down to the visits that build it.
FlagsFollowDescent ==
  status = "resolved" =>
    \A c \in Configs : plain(c) =>
      LET make == makeBuild(c)
      IN \A o \in DOMAIN make :
           {f.flag : f \in {f \in Range(resolved[c].flags[o]) : f.scope = "global"}}
             = {l.of : l \in make[o].flags}

RECURSIVE leadsTo(_, _, _)
leadsTo(from, to, seen) ==
  \E t \in UNION {Range(l.values) : l \in Range(linesOf(from))} :
    /\ IsDirectory(t) /\ dirOf(from, t) \in DOMAIN tree
    /\ \/ dirOf(from, t) = to
       \/ dirOf(from, t) \notin seen /\ leadsTo(dirOf(from, t), to, seen \cup {dirOf(from, t)})

leadsToItself ==
  \E i \in DOMAIN stack : leadsTo(stack[i].dir, stack[i].dir, {stack[i].dir})

\* Whatever leads where, the descent ends, and it ends in an error only for a
\* Makefile that leads back to itself: one that is reached twice is legal.
DescentEnds == <>(ended /\ (status = "recursive" => leadsToItself))
=============================================================================
