--------------------------- MODULE KbuildObjects ---------------------------
(***************************************************************************)
(* The objects of one configuration, resolved from the assignments of all  *)
(* Makefiles (internal/kconfig/compact.go, resolvedObjects).               *)
(*                                                                         *)
(* kb is what the evaluator read: object and composite assignments in      *)
(* order, each with its condition, its operator, its directory and the     *)
(* traversal (visit of that directory) it comes from, and the flags.       *)
(***************************************************************************)
EXTENDS KbuildConditions, SequencesExt

Mode(condition, conf) == condition.mode[conf]

ModePrecedence == [n |-> 0, m |-> 1, y |-> 2]
higherMode(a, b) == IF ModePrecedence[b] > ModePrecedence[a] THEN b ELSE a

enabledOnly(assigns, conf) == SelectSeq(assigns, LAMBDA a : Enabled(a.condition, conf))

\* The positions of the assignments that count: no later assignment of the same
\* bucket replaces them, and a `?=' counts only where nothing is assigned.
InForce(assigns, key(_), assigns_(_)) ==
  LET earlier(i) == {j \in 1 .. i - 1 : key(assigns[j]) = key(assigns[i])}
      counts(i) == assigns[i].op = "?=" => \A j \in earlier(i) : ~ assigns_(assigns[j])
      replaces(i) == assigns[i].op # "+=" /\ counts(i)
  IN {i \in DOMAIN assigns :
        /\ counts(i)
        /\ \A j \in DOMAIN assigns : replaces(j) => i \notin earlier(j)}

-----------------------------------------------------------------------------
\* make's variables obj-y, obj-m, lib-y ... of one visit of one directory
resolvedObjectEntries(kb, conf) ==
  LET assigns == enabledOnly(kb.objectAssigns, conf)
      active == InForce(assigns,
        LAMBDA a : <<a.directory, a.kind, Mode(a.condition, conf), a.traversal.scope>>,
        LAMBDA a : TRUE)
  IN FlattenSeq([i \in DOMAIN assigns |->
       IF i \notin active THEN <<>>
       ELSE [k \in DOMAIN assigns[i].objects |->
               [object |-> assigns[i].objects[k], kind |-> assigns[i].kind,
                mode |-> Mode(assigns[i].condition, conf), root |-> assigns[i].root,
                directory |-> assigns[i].directory, traversal |-> assigns[i].traversal]]])

\* Of an object that some linked visit lists, only the linked visits count.
activeTraversals(object) ==
  IF \E t \in object.traversals : t.linked
  THEN {t \in object.traversals : t.linked} ELSE object.traversals

hasActiveTraversal(object, want) ==
  \E t \in activeTraversals(object) : t.scope = want.scope

\* The members of the composites, bucket by bucket.  A `+=' does not count as an
\* assignment to a later `?=' here.
resolvedCompositeMembers(kb, conf, parents) ==
  LET applies(a) ==
        /\ a.composite \in DOMAIN parents
        /\ a.traversal.scope # 0 => hasActiveTraversal(parents[a.composite], a.traversal)
      assigns == SelectSeq(enabledOnly(kb.compositeAssigns, conf), applies)
      key(a) == <<a.composite, Mode(a.condition, conf), a.traversal.scope>>
      active == InForce(assigns, key, LAMBDA a : a.op # "+=")
      isFirst(i) == \A j \in 1 .. i - 1 : key(assigns[j]) # key(assigns[i])
      bucket(k) ==
        FlattenSeq([i \in DOMAIN assigns |->
          IF i \notin active \/ key(assigns[i]) # k THEN <<>>
          ELSE [n \in DOMAIN assigns[i].objects |->
                  [composite |-> k[1], object |-> assigns[i].objects[n], mode |-> k[2],
                   directory |-> assigns[i].directory, traversal |-> assigns[i].traversal]]])
  IN FlattenSeq([i \in DOMAIN assigns |->
       IF isFirst(i) THEN bucket(key(assigns[i])) ELSE <<>>])

compositeMemberMode(parentMode, memberMode) ==
  IF memberMode = "n" \/ (memberMode = "m" /\ parentMode # "m") THEN "n" ELSE parentMode

visits(traversal) == IF traversal.scope = 0 THEN {} ELSE {traversal}

\* One object of the entries: the highest mode, every visit once.
objectOf(entries, name) ==
  LET mine == SelectSeq(entries, LAMBDA e : e.object = name)
  IN [mode |-> FoldLeft(LAMBDA m, e : higherMode(m, e.mode), "n", mine),
      directory |-> mine[1].directory,
      traversals |-> UNION {visits(mine[i].traversal) : i \in DOMAIN mine},
      root |-> \E i \in DOMAIN mine : mine[i].root,
      modname |-> {}, members |-> <<>>]

addMember(byObject, member) ==
  LET parent == byObject[member.composite]
      mode == compositeMemberMode(parent.mode, member.mode)
      listed == [byObject EXCEPT ![member.composite].members =
                   IF Contains(@, member.object) THEN @ ELSE Append(@, member.object)]
      known == IF member.object \in DOMAIN byObject THEN listed[member.object]
               ELSE [mode |-> mode, directory |-> member.directory, traversals |-> {},
                     root |-> FALSE, modname |-> {}, members |-> <<>>]
      object == [known EXCEPT !.mode = higherMode(@, mode),
                              !.modname = @ \cup {member.composite},
                              !.traversals = @ \cup visits(member.traversal)]
  IN IF mode = "n"
        \/ (member.traversal.scope # 0 /\ ~ hasActiveTraversal(parent, member.traversal))
     THEN byObject
     ELSE [o \in DOMAIN byObject \cup {member.object} |->
             IF o = member.object THEN object ELSE listed[o]]

\* Fault: the flags of a directory stop at its own objects.
flagOfDirectory(flag, object) ==
  \E t \in activeTraversals(object) : t.scope = flag.traversalStart

\* Directory-wide flags reach the objects of the visit they were read in, and
\* with subdir-ccflags those of the visits below it, which carry the numbers up
\* to traversalEnd.
globalFlagAppliesToObject(flag, object) ==
  \E t \in activeTraversals(object) :
    \/ t.scope = flag.traversalStart
    \/ flag.recursive /\ t.scope > flag.traversalStart /\ t.scope <= flag.traversalEnd

flagsOf(kb, conf, name, object) ==
  SelectSeq(kb.flags,
    LAMBDA f : /\ IF f.scope = "object" THEN f.object = name
                  ELSE globalFlagAppliesToObject(f, object)
               /\ Enabled(f.condition, conf))

resolvedObjects(kb, conf) ==
  LET entries == resolvedObjectEntries(kb, conf)
      names == {entries[i].object : i \in DOMAIN entries}
      listed == [name \in names |-> objectOf(entries, name)]
      byName == FoldLeft(addMember, listed, resolvedCompositeMembers(kb, conf, listed))
      rootsOf(isKind(_)) ==
        FoldLeft(LAMBDA out, e : IF Contains(out, e.object) THEN out ELSE Append(out, e.object),
                 <<>>, SelectSeq(entries, LAMBDA e : e.root /\ isKind(e.kind)))
  IN [byName |-> byName,
      flags |-> [name \in DOMAIN byName |-> flagsOf(kb, conf, name, byName[name])],
      roots |-> rootsOf(LAMBDA kind : kind # "lib"),
      libRoots |-> rootsOf(LAMBDA kind : kind = "lib")]
=============================================================================
