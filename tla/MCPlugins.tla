----------------------------- MODULE MCPlugins -----------------------------
(***************************************************************************)
(* Instances of Plugins for TLC: a plugin with two hooks of high priority, *)
(* one with a hook below them, a second version of it under the same id    *)
(* with another hook and a webhook, and a second webhook registered alone. *)
(***************************************************************************)
EXTENDS Plugins, TLC

CONSTANTS two, one, newer, a, b, c, d, w1, w2

MCId == two :> "two" @@ one :> "one" @@ newer :> "one"
MCHooksOf == two :> <<b, a>> @@ one :> <<c>> @@ newer :> <<d>>
MCPriority == a :> 3 @@ b :> 2 @@ c :> 1 @@ d :> 1
MCServiceOf == two :> NULL @@ one :> NULL @@ newer :> w1
MCRetries == w1 :> 1 @@ w2 :> 0
=============================================================================
