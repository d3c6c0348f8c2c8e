------------------------------ MODULE MCCaches ------------------------------
(***************************************************************************)
(* Instances of Caches for TLC.                                            *)
(***************************************************************************)
EXTENDS Caches, TLC

\* No more than one edit of a test at a time.
OneTestEdit == SUBSET Kinds \ {{"test"}}

\* All that have some state in common.
Sharing == SUBSET Kinds \ {{"hierarchy", "list"}, {"list", "question"}}

Symmetric == Permutations(Requests) \cup Permutations(Tests)
=============================================================================
