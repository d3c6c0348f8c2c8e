-------------------------- MODULE AttemptLifecycle --------------------------
(***************************************************************************)
(* What the attempt endpoints promise of one learner's attempts at one     *)
(* test, with every operation a single step: an attempt is opened within   *)
(* the limits the test sets, is submitted, and is then reviewed, in part   *)
(* or in full.  A submitted attempt is never open again.  Module Attempts  *)
(* is what the service does; with one request at a time it implements      *)
(* this.                                                                   *)
(***************************************************************************)
EXTENDS Naturals, FiniteSets

CONSTANT AttemptIds

VARIABLES
    limit,     \* tests.attempts
    resubmit,  \* tests.allowResubmission
    phase      \* where each attempt is in its life

vars == <<limit, resubmit, phase>>

SubmittedPhases == {"pending", "partial", "final"}

Phases == {"none", "open"} \cup SubmittedPhases

Opened == {a \in AttemptIds : phase[a] # "none"}

Init ==
    /\ limit \in Nat
    /\ resubmit \in BOOLEAN
    /\ phase = [a \in AttemptIds |-> "none"]

\* An attempt that must be settled before another may start.
Unsettled(a) == IF resubmit THEN phase[a] # "none"
                            ELSE phase[a] \in {"open", "pending"}

Open(a) ==
    /\ phase[a] = "none"
    /\ Cardinality(Opened) < limit
    /\ \A b \in AttemptIds : ~Unsettled(b)
    /\ phase' = [phase EXCEPT ![a] = "open"]

Submit(a) ==
    /\ phase[a] = "open" \/ (resubmit /\ phase[a] \in SubmittedPhases)
    /\ \E p \in {"pending", "final"} : phase' = [phase EXCEPT ![a] = p]

Review(a) ==
    /\ phase[a] \in SubmittedPhases
    /\ \E p \in {"partial", "final"} : phase' = [phase EXCEPT ![a] = p]

Next ==
    /\ \E a \in AttemptIds : Open(a) \/ Submit(a) \/ Review(a)
    /\ UNCHANGED <<limit, resubmit>>

Spec == Init /\ [][Next]_vars
=============================================================================
