--------------------------- MODULE MCActionGroups ---------------------------
(***************************************************************************)
(* Instances of ActionGroups: configurations of MCCompactBatch that differ *)
(* in what they link as well.  Without a knob                              *)
(*   X  there is no x.asn1.o, and b.o needs no generated header            *)
(*   N  the nVHE object is not linked, though it is in the graph           *)
(*   E  the module e.o is not linked                                       *)
(*   2  there is no k2.o, which a.o is a member of as well, and its f.o    *)
(***************************************************************************)
EXTENDS ActionGroups, MCCompactBatch

GroupNameOrder == MCNameOrder \o <<"k2.o", "f.o">>

GroupFacts == [o \in ToSet(GroupNameOrder) |->
                 IF o = "k2.o" THEN plain ELSE IF o = "f.o" THEN cFile("f.c") ELSE MCFacts[o]]
GroupClosure(o, values) ==
    LET nothing == [refs |-> {}, includes |-> {}, inputs |-> {}]
    IN  CASE o = "k2.o" -> nothing
          [] o = "f.o"  -> [nothing EXCEPT !.inputs = preincludes \cup {file("f.c")}]
          [] OTHER      -> MCClosure(o, values)

MCPreincludes(language) ==
    LET always == {"compiler-version.h", "kconfig.h"}
    IN  IF language = "c" THEN always \cup {"compiler_types.h"} ELSE always

linked(knobs, roots) ==
    SelectSeq(roots, LAMBDA o : CASE o = "nvhe.o" -> "N" \in knobs
                                  [] o = "e.o" -> "E" \in knobs
                                  [] o = "k2.o" -> "2" \in knobs
                                  [] OTHER -> TRUE)

groupObjects(knobs) ==
    LET all == graph(knobs)
        mode == IF "M" \in knobs THEN "m" ELSE "y"
        kept == (DOMAIN all \ (IF "X" \in knobs THEN {} ELSE {"x.asn1.o"}))
                  \cup (IF "2" \in knobs THEN {"k2.o", "f.o"} ELSE {})
    IN  [o \in kept |->
           CASE o = "k2.o" -> [leaf EXCEPT !.mode = mode, !.root = TRUE,
                                           !.members = <<"a.o", "f.o">>]
             [] o = "f.o" -> [leaf EXCEPT !.mode = mode, !.modname = "k2"]
             [] o = "a.o" /\ "2" \in knobs -> [all[o] EXCEPT !.modname = "k k2"]
             [] OTHER -> all[o]]

groupConfig(name, knobs) ==
    [configOf(name, knobs) EXCEPT
       !.objects = groupObjects(knobs),
       !.roots = linked(knobs, <<"k2.o", "k.o", "d.o", "e.o", "nvhe.o">>),
       !.libRoots = Tail(@)]

GroupBatches ==
    {<<groupConfig("c1", {"N", "E"}), groupConfig("c2", k2), groupConfig("c3", k3)>> :
        k2 \in SUBSET {"X", "E", "2"}, k3 \in SUBSET {"M", "N", "F", "X"}}

AllBatches == MCBatches \cup SmallBatches \cup BrokenBatches \cup GroupBatches
=============================================================================
