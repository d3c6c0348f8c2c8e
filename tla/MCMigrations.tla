---------------------------- MODULE MCMigrations ----------------------------
(***************************************************************************)
(* Instances of Migrations for TLC: three migrations listed in an order    *)
(* that is not the one of their dependencies.                              *)
(***************************************************************************)
EXTENDS Migrations, TLC

CONSTANTS m1, m2, m3

MCCatalogue == <<m3, m1, m2>>

\* A chain, a fork, two that have nothing to do with each other, and a circle.
MCDependencies ==
    { m1 :> <<>> @@ m2 :> <<m1>> @@ m3 :> <<m2>>,
      m1 :> <<>> @@ m2 :> <<>>   @@ m3 :> <<m2, m1>>,
      m1 :> <<>> @@ m2 :> <<>>   @@ m3 :> <<m1>>,
      m1 :> <<m2>> @@ m2 :> <<m1>> @@ m3 :> <<>> }

Symmetric == Permutations(Runners)
=============================================================================
