--------------------------- MODULE MCQuestionLinks ---------------------------
EXTENDS QuestionLinks, TLC

CONSTANTS p1, p2, o1, o2, o3

\* A parent with two options and one with a single option.
TwoAndOne == (o1 :> p1) @@ (o2 :> p1) @@ (o3 :> p2)

Symmetric == Permutations(Requests) \cup Permutations(Rows) \cup Permutations({o1, o2})
=============================================================================
