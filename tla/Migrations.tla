----------------------------- MODULE Migrations -----------------------------
(***************************************************************************)
(* The migration runner (common/services/migration.service.ts).  Several   *)
(* processes may run it at the same time: nothing takes a lock, although   *)
(* the configuration has a lockTimeout.  A migration is its version; what  *)
(* it does to the schema is its own affair, and may be done and lost to    *)
(* the table of records.                                                   *)
(***************************************************************************)
EXTENDS Integers, Sequences, FiniteSets

CONSTANTS
    Versions,     \* the migrations there are
    Catalogue,    \* the list of them given to runMigrations
    Dependencies, \* the functions from versions to lists of versions to try
    Runners,      \* processes
    MaxCalls      \* bound on the calls of runMigrations and rollbackMigrations

Elements(seq) == {seq[i] : i \in DOMAIN seq}

(***************************************************************************)
(* sortMigrations: depth first, dependencies before dependents.  What a    *)
(* migration depends on counts only if it is pending too.                  *)
(***************************************************************************)
Circular(deps, pending) ==
    \E n \in 1 .. Cardinality(pending) : \E path \in [0 .. n -> pending] :
        /\ path[0] = path[n]
        /\ \A i \in 1 .. n : path[i] \in Elements(deps[path[i - 1]])

\* seq visited from its first to its last, after what is sorted already.
After(visit, seq, sorted) ==
    LET upto[n \in 0 .. Len(seq)] == IF n = 0 THEN sorted ELSE visit[seq[n]][upto[n - 1]]
    IN  upto[Len(seq)]

Sorted(deps, pending) ==
    LET visit[v \in Versions] ==
            [sorted \in Seq(Versions) |->
                IF v \in pending \ Elements(sorted)
                THEN Append(After(visit, deps[v], sorted), v) ELSE sorted]
    IN  After(visit, Catalogue, <<>>)

\* What a sort is for, and all that is used of it below.
SortsWell(deps, pending, seq) ==
    /\ seq \in Seq(Versions)
    /\ Elements(seq) = pending
    /\ \A i, j \in DOMAIN seq : seq[i] = seq[j] => i = j
    /\ \A i \in DOMAIN seq : \A d \in Elements(deps[seq[i]]) \cap pending :
            \E j \in 1 .. i - 1 : seq[j] = d

ASSUME MigrationsAssumption ==
    /\ Catalogue \in Seq(Versions)
    /\ Dependencies \subseteq [Versions -> Seq(Versions)]
    /\ MaxCalls \in Nat

VARIABLES
    records,      \* the table of records: status by version, "none" without a row
    dependsOn,    \* dependencies of each migration, constant
    run,          \* what each process is doing
    calls,        \* bounds the behaviours
    times,        \* auxiliary: how often up of a migration completed in a process
    unrecorded    \* auxiliary: how often it did and the process left no record

vars == <<records, dependsOn, run, calls, times, unrecorded>>

\* ok is the result's success.
Idle == [pc |-> "idle", todo |-> <<>>, ok |-> TRUE]

\* Mutant: a failed migration is tried again.
PendingOrFailed == {v \in Elements(Catalogue) : records[v] # "success"}

\* A failed migration counts as executed.
Pending == {v \in Elements(Catalogue) : records[v] = "none"}

Init == /\ records = [v \in Versions |-> "none"]
        /\ dependsOn \in Dependencies
        /\ run = [r \in Runners |-> Idle]
        /\ calls = 0
        /\ times = [r \in Runners |-> [v \in Versions |-> 0]]
        /\ unrecorded = [r \in Runners |-> [v \in Versions |-> 0]]

Called(r) == run[r].pc \in {"idle", "done"} /\ calls < MaxCalls /\ calls' = calls + 1
Ends(r, ok) == run' = [run EXCEPT ![r] = [pc |-> "done", todo |-> <<>>, ok |-> ok]]

(***************************************************************************)
(* runMigrations: what is pending is read once.  The table cannot be made  *)
(* or read, or dependencies are circular: nothing is run.                  *)
(***************************************************************************)
RunMigrations(r) ==
    /\ Called(r)
    /\ \/ Ends(r, FALSE)
       \/ /\ Pending = {}
          /\ Ends(r, TRUE)
       \/ /\ Pending # {} /\ ~Circular(dependsOn, Pending)
          /\ run' = [run EXCEPT ![r] = [pc |-> "up", ok |-> TRUE,
                                        todo |-> Sorted(dependsOn, Pending)]]
    /\ UNCHANGED <<records, dependsOn, times, unrecorded>>

Up(r) ==
    LET v == Head(run[r].todo)
    IN  /\ run[r].pc = "up"
        /\ run' = [run EXCEPT ![r].pc = "record"]
        /\ times' = [times EXCEPT ![r][v] = @ + 1]
        /\ UNCHANGED <<records, dependsOn, calls, unrecorded>>

\* Mutant: up is not awaited.
UpFailsUnnoticed(r) ==
    /\ run[r].pc = "up"
    /\ run' = [run EXCEPT ![r].pc = "record"]
    /\ UNCHANGED <<records, dependsOn, calls, times, unrecorded>>

UpFails(r) ==
    /\ run[r].pc = "up"
    /\ run' = [run EXCEPT ![r].pc = "failed"]
    /\ UNCHANGED <<records, dependsOn, calls, times, unrecorded>>

RecordSuccess(r) ==
    /\ run[r].pc = "record"
    /\ records' = [records EXCEPT ![Head(run[r].todo)] = "success"]
    /\ IF Len(run[r].todo) = 1 THEN Ends(r, TRUE)
       ELSE run' = [run EXCEPT ![r].pc = "up", ![r].todo = Tail(@)]
    /\ UNCHANGED <<dependsOn, calls, times, unrecorded>>

\* The record of a success is not confirmed, although it may have been written:
\* that is caught as a failure of the migration.
RecordSuccessFails(r) ==
    /\ run[r].pc = "record"
    /\ \/ records' = [records EXCEPT ![Head(run[r].todo)] = "success"]
       \/ UNCHANGED records
    /\ run' = [run EXCEPT ![r].pc = "failedrecord"]
    /\ UNCHANGED <<dependsOn, calls, times, unrecorded>>

\* Mutant: a failure leaves the migration to be done.
RecordFailureAsPending(r) ==
    /\ run[r].pc \in {"failed", "failedrecord"}
    /\ records' = [records EXCEPT ![Head(run[r].todo)] = "pending"]
    /\ Ends(r, FALSE)
    /\ UNCHANGED <<dependsOn, calls, times, unrecorded>>

\* The upsert replaces any status there is; the first failure ends the run.
RecordFailure(r) ==
    /\ run[r].pc \in {"failed", "failedrecord"}
    /\ records' = [records EXCEPT ![Head(run[r].todo)] = "failed"]
    /\ Ends(r, FALSE)
    /\ UNCHANGED <<dependsOn, calls, times, unrecorded>>

\* What a process forgets when it leaves no record of an up that completed.
Forgets(r) ==
    unrecorded' = IF run[r].pc \in {"record", "failedrecord"}
                  THEN [unrecorded EXCEPT ![r][Head(run[r].todo)] = @ + 1]
                  ELSE unrecorded

\* Mutant: a failure whose record fails too does not end the run.
RecordFailureIgnored(r) ==
    /\ run[r].pc \in {"failed", "failedrecord"}
    /\ IF Len(run[r].todo) = 1 THEN Ends(r, FALSE)
       ELSE run' = [run EXCEPT ![r].pc = "up", ![r].todo = Tail(@), ![r].ok = FALSE]
    /\ Forgets(r)
    /\ UNCHANGED <<records, dependsOn, calls, times>>

RecordFailureFails(r) ==
    /\ run[r].pc \in {"failed", "failedrecord"}
    /\ Ends(r, FALSE)
    /\ Forgets(r)
    /\ UNCHANGED <<records, dependsOn, calls, times>>

Crash(r) ==
    /\ run[r].pc \in {"up", "record", "failed", "failedrecord"}
    /\ run' = [run EXCEPT ![r] = Idle]
    /\ Forgets(r)
    /\ UNCHANGED <<records, dependsOn, calls, times>>

(***************************************************************************)
(* rollbackMigrations never finds the migration of a record (257), so that *)
(* it fails at the first one and changes nothing.                          *)
(***************************************************************************)
RollbackMigrations(r) ==
    /\ Called(r)
    /\ \/ Ends(r, FALSE)
       \/ /\ \A v \in Versions : records[v] # "success"
          /\ Ends(r, TRUE)
    /\ UNCHANGED <<records, dependsOn, times, unrecorded>>

Next == \E r \in Runners :
    \/ RunMigrations(r) \/ RollbackMigrations(r)
    \/ Up(r) \/ UpFails(r)
    \/ RecordSuccess(r) \/ RecordSuccessFails(r)
    \/ RecordFailure(r) \/ RecordFailureFails(r)
    \/ Crash(r)

Spec == Init /\ [][Next]_vars

-----------------------------------------------------------------------------
Applied(v) == \E r \in Runners : times[r][v] > 0

\* The table has a status for each version and a process a list of them to run.
TypeOK ==
    /\ records \in [Versions -> {"none", "success", "failed"}]
    /\ dependsOn \in Dependencies
    /\ run \in [Runners -> [pc : {"idle", "done", "up", "record", "failed", "failedrecord"},
                            todo : Seq(Versions), ok : BOOLEAN]]
    /\ calls \in 0 .. MaxCalls
    /\ times \in [Runners -> [Versions -> Nat]]
    /\ unrecorded \in [Runners -> [Versions -> Nat]]

(***************************************************************************)
(* getPendingMigrations and recordMigration: one process completes a       *)
(* migration once, whatever others do at the same time, and again only as  *)
(* often as it stopped between the migration and its record.               *)
(***************************************************************************)
OncePerProcess ==
    \A r \in Runners, v \in Versions : times[r][v] <= 1 + unrecorded[r][v]

(***************************************************************************)
(* sortMigrations and the stop at the first failure: a migration is        *)
(* applied after those it depends on, but for those recorded as failed,    *)
(* which the next call no longer waits for.                                *)
(***************************************************************************)
DependenciesFirst ==
    \A v \in Versions : Applied(v) =>
        \A d \in Elements(dependsOn[v]) \cap Elements(Catalogue) :
            Applied(d) \/ records[d] = "failed"

(***************************************************************************)
(* runMigrations and its reports: a record of success is true, and what a  *)
(* process at work no longer has to do, which is everything once it        *)
(* reports success, was applied or is recorded as failed.                  *)
(***************************************************************************)
LeftOutOnlyIfFailed ==
    /\ \A v \in Versions : records[v] = "success" => Applied(v)
    /\ \A r \in Runners : run[r].pc \in {"up", "record"} =>
            \A v \in Elements(Catalogue) \ Elements(run[r].todo) :
                Applied(v) \/ records[v] = "failed"
=============================================================================
