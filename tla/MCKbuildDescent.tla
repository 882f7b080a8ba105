-------------------------- MODULE MCKbuildDescent --------------------------
(***************************************************************************)
(* A root, a directory a, and s below a; every choice of two or so lines   *)
(* for each of them.  a/s is also reached from the root, and s may lead    *)
(* back to a.                                                              *)
(***************************************************************************)
EXTENDS KbuildDescent

Y == const("y")
A == config("A")

object(p) == <<"object", p>>
dir(p) == <<"dir", p>>
line(lhs, condition, op, values) ==
  [lhs |-> lhs, condition |-> condition, op |-> op, values |-> values]
composite(of, condition, op, values) ==
  [lhs |-> "composite", of |-> of, condition |-> condition, op |-> op, values |-> values]
ccflags(name, condition, recursive) ==
  [lhs |-> "ccflags", of |-> name, condition |-> condition, op |-> "+=",
   recursive |-> recursive, values |-> << <<"flag", <<>> >> >>]

RootLines ==
  { << line("obj", Y, "+=", <<dir(<<"a">>)>>) >>,
    << line("obj", A, "+=", <<dir(<<"a">>)>>) >>,
    << line("subdir", Y, "+=", <<dir(<<"a">>)>>), line("obj", Y, "+=", <<dir(<<"a", "s">>)>>) >>,
    << line("obj", Y, "+=", <<object(<<"x">>), dir(<<"a">>), object(<<"z">>)>>),
       line("obj", A, "+=", <<dir(<<"a", "s">>), object(<<"x">>)>>) >>,
    << ccflags("R", A, TRUE), line("obj", A, "+=", <<dir(<<"a">>)>>),
       line("obj", Y, "+=", <<dir(<<"a">>)>>) >> }

RootReset ==
  << line("obj", Y, "+=", <<object(<<"y">>)>>), line("obj", Y, ":=", <<object(<<"x">>), dir(<<"a">>), object(<<"w">>)>>),
     line("obj", Y, "?=", <<object(<<"z">>)>>), line("subdir", A, "+=", <<dir(<<"a">>)>>) >>

ALines ==
  { << >>,
    << line("obj", Y, "+=", <<object(<<"p">>), dir(<<"s">>), object(<<"q">>)>>) >>,
    << line("obj", A, "+=", <<object(<<"s", "x">>), object(<<"p">>)>>),
       line("subdir", Y, "+=", <<dir(<<"s">>)>>) >>,
    << line("obj", Y, "+=", <<object(<<"p">>)>>), line("obj", Y, ":=", <<object(<<"q">>)>>) >>,
    << line("subdir", Y, "+=", <<dir(<<"s">>)>>), line("obj", Y, "+=", <<object(<<"p">>)>>) >> }

AMore ==
  { << >>,
    << ccflags("D", A, FALSE) >>,
    << ccflags("S", Y, TRUE), line("obj", Y, "+=", <<dir(<<"s">>)>>) >>,
    << composite(<<"p">>, Y, "+=", <<object(<<"c">>)>>),
       composite(<<"p">>, A, "+=", <<object(<<"d">>)>>) >>,
    << composite(<<"p">>, Y, ":=", <<object(<<"c">>), object(<<"d">>)>>) >> }

SLines ==
  { << line("obj", Y, "+=", <<object(<<"x">>)>>) >>,
    << line("lib", A, "+=", <<object(<<"x">>)>>), ccflags("L", Y, FALSE) >>,
    << line("obj", A, "+=", <<object(<<"x">>)>>),
       composite(<<"x">>, Y, "+=", <<object(<<"e">>)>>), ccflags("L", Y, TRUE) >>,
    << line("obj", Y, "+=", << <<"root", <<"a">> >>, object(<<"x">>)>>) >> }

TreesOf(roots, as, more, ss) ==
  {[d \in {Root, <<"a">>, <<"a", "s">>} |->
      CASE d = Root -> r [] d = <<"a">> -> a \o m [] OTHER -> s] :
     r \in roots, a \in as, m \in more, s \in ss}

\* One more tree has a Makefile of the architecture, read with the root's.
WithRootMakefile(t) ==
  [d \in DOMAIN t \cup {RootMakefile} |->
     IF d = RootMakefile
     THEN << ccflags("K", Y, FALSE), line("obj", Y, "+=", <<object(<<"k">>), dir(<<"b">>)>>) >>
     ELSE t[d]]

MCTrees ==
  LET trees == TreesOf({r \o q : r \in RootLines \cup {RootReset}, q \in RootLines}, ALines, AMore, SLines)
  IN trees \cup {WithRootMakefile(t) : t \in TreesOf(RootLines, ALines, {<< >>}, SLines)}
=============================================================================
