-------------------------- MODULE MCRuleGeneration --------------------------
EXTENDS RuleGeneration, TLC

CONSTANTS k1, k2, q1, q2, q3

\* Two questions of the same weight and one heavier.
Weights == (q1 :> 1) @@ (q2 :> 1) @@ (q3 :> 2)

\* The rows of one rule suffice for what it may ask, those of the other do not.
Chosen == (k1 :> <<q2, q1>>) @@ (k2 :> <<q3>>)

Rule(n, p, strategy, mode, S) ==
    [number |-> n, priority |-> p, strategy |-> strategy, mode |-> mode, active |-> TRUE, matches |-> S]

\* Rules that ask for one question, for two or for all but one, by weight or in
\* sequence, from questions they share or from rows chosen beforehand.
MCRuleRows ==
    { Rule(1, 1, "weighted", "DYNAMIC", {q1, q2, q3}),
      Rule(2, 0, "sequential", "DYNAMIC", {q1, q2, q3}),
      Rule(2, 0, "weighted", "PRESELECTED", {}),
      Rule(0 - 1, 0, "weighted", "DYNAMIC", {q2, q3}),
      [Rule(1, 1, "random", "DYNAMIC", {q3}) EXCEPT !.active = FALSE] }
=============================================================================
