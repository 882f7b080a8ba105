-------------------------- MODULE KbuildConditions --------------------------
(***************************************************************************)
(* Conditions of the Kbuild evaluator and their combinators                *)
(* (internal/kconfig/kbuild.go): what the conditional stack attaches to an *)
(* object, the descent into directories conjoins, and the resolution for   *)
(* one configuration evaluates.                                            *)
(***************************************************************************)
EXTENDS Naturals, Sequences

CONSTANT Symbols     \* CONFIG_ symbols

Tri == {"n", "m", "y"}
Configs == [Symbols -> Tri]

(***************************************************************************)
(* KbuildCondition.  A condition is known by its Mode in every             *)
(* configuration; of its Kind only what the combinators look at is kept:   *)
(* "" (the zero value), "const", and "test" for all the others.            *)
(***************************************************************************)
Condition == [kind : {"", "const", "test"}, mode : [Configs -> Tri]]

noCondition == [kind |-> "", mode |-> [c \in Configs |-> "n"]]

const(state) ==
  [kind |-> "const",
   mode |-> [c \in Configs |-> IF state = "-" THEN "n" ELSE state]]

config(symbol) == [kind |-> "test", mode |-> [c \in Configs |-> c[symbol]]]

configEq(symbol, state) ==
  [kind |-> "test",
   mode |-> [c \in Configs |-> IF c[symbol] = state THEN "y" ELSE "n"]]

configNe(symbol, state) ==
  [kind |-> "test",
   mode |-> [c \in Configs |-> IF c[symbol] # state THEN "y" ELSE "n"]]

isEmpty(c) == c.kind = ""

Enabled(c, configuration) == c.mode[configuration] # "n"

\* The terms of all-of: empty terms and const y are dropped.  The mode of
\* what is left is that of its LAST term, so the order of terms matters.
allTerms(cs) == {i \in DOMAIN cs : ~ isEmpty(cs[i]) /\ cs[i] # const("y")}

lastOf(S) == CHOOSE i \in S : \A j \in S : j <= i

combineKbuildConditions(cs) ==
  IF allTerms(cs) = {} THEN const("y")
  ELSE [kind |-> IF \E i \in allTerms(cs) : allTerms(cs) = {i}
                 THEN cs[lastOf(allTerms(cs))].kind ELSE "test",
        mode |-> [c \in Configs |->
                    IF \A i \in allTerms(cs) : Enabled(cs[i], c)
                    THEN cs[lastOf(allTerms(cs))].mode[c] ELSE "n"]]

\* Always called with two terms, the second never empty.
combineKbuildAny(a, b) ==
  IF isEmpty(a) THEN b
  ELSE [kind |-> "test",
        mode |-> [c \in Configs |->
                    IF Enabled(a, c) \/ Enabled(b, c) THEN "y" ELSE "n"]]

invertKbuildCondition(a) ==
  IF a.kind = "const" THEN const(IF a = const("y") THEN "n" ELSE "y")
  ELSE [kind |-> "test",
        mode |-> [c \in Configs |-> IF Enabled(a, c) THEN "n" ELSE "y"]]
=============================================================================
