----------------------- MODULE MCKbuildConditionals -----------------------
(***************************************************************************)
(* The conditions of a Makefile and of a Kconfig source.                   *)
(*                                                                         *)
(* A behaviour either reads a Makefile (two CONFIG_ symbols, one make      *)
(* variable and one test no parser can expand; the conditionals that may   *)
(* stand on a line are the ones below), or encodes one Kconfig expression: *)
(* every expression of one operator over the atoms, and every negation,    *)
(* combination and comparison of those with an atom or with themselves.    *)
(***************************************************************************)
EXTENDS KbuildConditionals, ExprDnf

test(kw, kind, id, words) == [keyword |-> kw, of |-> kind, name |-> id, text |-> words]

MCWords == {"n", "m", "y", "x"}

MCTests ==
  { test("ifeq", "config", "A", <<"y">>),
    test("ifneq", "config", "B", <<>>),
    test("ifdef", "config", "A", <<>>),
    test("ifeq", "variable", "V", <<"x">>),
    test("ifndef", "variable", "V", <<>>),
    test("ifeq", "opaque", "shell", <<>>) }

\* A comparison with the text n as well
MCAllTests == MCTests \cup {test("ifneq", "config", "B", <<"n">>)}

MCValues == {<<"x">>}

-----------------------------------------------------------------------------
MCType == [s \in TreeSymbols |->
             CASE s = "B" -> "bool" [] s = "T" -> "tristate"
               [] s = "I" -> "int" [] s = "U" -> "undefined"]

Atoms == {<<"symbol", s>> : s \in TreeSymbols} \cup {<<"const", k>> : k \in {1, 2, 7}}

Binary(S, R) == {<<op, l, r>> : op \in {"&&", "||", "=", "!=", "<"}, l \in S, r \in R}

Shallow == {<<"!", a>> : a \in Atoms} \cup Binary(Atoms, Atoms)

Some == {<<"symbol", "B">>, <<"symbol", "T">>, <<"symbol", "I">>, <<"const", 1>>}

AllExpressions ==
  Atoms \cup Shallow
    \cup {<<"!", e>> : e \in Shallow}
    \cup Binary(Shallow, Some)
    \cup {<<op, e, e>> : op \in {"&&", "||", "=", "!=", "<"}, e \in Shallow}

MCExpressions == AllExpressions

-----------------------------------------------------------------------------
NothingEncoded ==
  LET none == [s \in 0 .. 2 |-> <<>>] IN
  /\ expr = <<"const", 1>> /\ limit = 2
  /\ result = [done |-> TRUE, enabled |-> <<>>, states |-> none, negated |-> none]

NoMakefile ==
  /\ complete = FALSE /\ configs = Configs /\ conds = <<>> /\ objects = <<>>
  /\ vars = [n \in Names |-> Unset] /\ makeVars = [w \in Worlds |-> vars]
  /\ status = "parsing" /\ lines = MaxLines
  /\ make = <<>> /\ wanted = <<>> /\ drifted = FALSE

MCInit == (Init /\ NothingEncoded) \/ (DnfInit /\ NoMakefile)

MCNext ==
  \/ Next /\ UNCHANGED dnfVars
  \/ Encode /\ UNCHANGED allVars

MCSpec == MCInit /\ [][MCNext]_<<allVars, dnfVars>>
=============================================================================
