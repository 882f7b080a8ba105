------------------------- MODULE MCSourceInputIndex -------------------------
(***************************************************************************)
(* Objects, families of headers and composites over three paths, one  *)
(* of which comes with two digests, and every index over two of the paths  *)
(* as metadata that was loaded.                                            *)
(***************************************************************************)
EXTENDS LoadedIndex

one == <<1, "d">>
two == <<2, "d">>
changed == <<2, "e">>
three == <<3, "d">>

MCOwners == {"a", "b", "c", "changed", "incomplete", "malformed", "twice", "family", "bare", "ab", "odd"}

MCList(o) ==
  CASE o = "a" -> <<three>>
    [] o = "b" -> <<three, one>>
    [] o = "c" -> <<three, two, one>>
    [] o = "changed" -> <<changed, three>>
    [] o = "incomplete" -> <<one>>
    [] o = "malformed" -> <<one, <<2, "malformed">>>>
    [] o = "twice" -> <<two, changed>>
    [] o = "family" -> <<two, one>>
    [] o = "odd" -> <<one>>
    [] OTHER -> <<>>

MCKind(o) ==
  IF o \in {"family", "bare"} THEN "family" ELSE IF o \in {"ab", "odd"} THEN "composite" ELSE "action"

MCPrimary(o) == IF o \in {"a", "c", "incomplete"} THEN {3} ELSE {}

\* The texts of groups of fewer than ten files
MCBefore(g, h) ==
  \E m \in (g \cup h) \ (g \cap h) :
    /\ \A k \in (g \cup h) \ (g \cap h) : m <= k
    /\ IF m \in g THEN \E k \in h : k > m ELSE \A k \in g : k < m

MCLoadedFiles == UNION {[1 .. n -> {one, two, changed, <<2, "malformed">>}] : n \in 0 .. 3}
MCLoadedGroups == UNION {[1 .. n -> SUBSET (1 .. 3)] : n \in 0 .. 2}
MCLoadedRefs == [{"b", "family", "ab"} -> 0 .. 3]
=============================================================================
