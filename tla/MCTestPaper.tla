---------------------------- MODULE MCTestPaper ----------------------------
(***************************************************************************)
(* Instances of TestPaper for TLC.                                         *)
(***************************************************************************)
EXTENDS TestPaper, TLC

CONSTANTS objective, subjective

\* One that is neither adds nothing: it does what an objective one does when the
\* query of checkIfTestIsObjective fails.
Both == {objective, subjective}
OneObjective == {objective}
OneSubjective == {subjective}

\* Authors publish the test, or take it back and say that it is objective.
MCBodies ==
    { [status |-> "published", isObjective |-> NULL],
      [status |-> "draft", isObjective |-> TRUE] }

\* Two handlers that a property of TestPaper does not survive together.
Clash(k, l) ==
    \/ k \in Additions /\ l \in Additions \cup {"test", "section"}
    \/ k = "structure" /\ l = "section"
    \/ k = "start" /\ l \in {"remove", "dropSection", "dropTest"}

Careful ==
    {o \in SUBSET Kinds : \E k, l \in Kinds : o = {k, l} /\ ~Clash(k, l) /\ ~Clash(l, k)}

\* The instance meets what the theorems of PaperProofs assume.
ASSUME CarefulAuthors ==
    AdditionsApart /\ UpdatesApart /\ SectionUpdatesApart /\ StartsApart

Symmetric == Permutations(Requests) \cup Permutations(Sections) \cup Permutations(Rows)
=============================================================================
