----------------------------- MODULE MCRouterLaws -----------------------------
(* Two targets, overlapping, complementary and unsatisfiable conditions, and *)
(* states with a number on either side of the bound, a NaN and a None.       *)
EXTENDS RouterLaws, EdgeTerms

MCStates == [x : {0, 2, NaN, None}, y : BOOLEAN]

MCConditions ==
  {{Above("x", 1)}, {AtMost("x", 1)}, {IsNot("x", 2), Is("y", TRUE)}}

MCEdges ==
       {Always(t) : t \in {"a", "b"}} \cup {Never("a")}
  \cup {When(t, c) : t \in {"a", "b"}, c \in MCConditions}
=============================================================================
