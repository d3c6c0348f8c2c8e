------------------------------ MODULE Plugins ------------------------------
(***************************************************************************)
(* The plugin manager (common/services/plugin-manager.service.ts): plugins *)
(* come and go while an event's hooks run one after the other and its      *)
(* webhooks are sent.  One event name: hooks of other names are in other   *)
(* arrays.  Every handler returns a promise, as all in modules/plugins do, *)
(* so that a loop over the hooks waits, and others run, after each of them.*)
(***************************************************************************)
EXTENDS Integers, Sequences, FiniteSets

CONSTANTS
    NULL,
    Ids,          \* plugin ids
    Objects,      \* the plugin objects a program registers
    Id,           \* Id[o]: the id of object o
    Hooks,        \* hook objects
    HooksOf,      \* HooksOf[o]: the hooks of o for the event, in its order
    Priority,     \* Priority[h]
    Services,     \* webhooks, known by their URL
    ServiceOf,    \* ServiceOf[o]: the service o brings along, or NULL
    Wanting,      \* the services whose filter has the event
    Retries,      \* Retries[s]
    Runs,         \* calls of triggerEvent
    MaxChanges    \* bound on the registrations and removals

ASSUME PluginsAssumption ==
    /\ NULL \notin Objects \cup Services
    /\ Id \in [Objects -> Ids]
    /\ HooksOf \in [Objects -> Seq(Hooks)]
    /\ \A o1, o2 \in Objects : \A i \in DOMAIN HooksOf[o1], j \in DOMAIN HooksOf[o2] :
            HooksOf[o1][i] = HooksOf[o2][j] => o1 = o2 /\ i = j
    /\ Priority \in [Hooks -> Int]
    /\ ServiceOf \in [Objects -> Services \cup {NULL}]
    /\ Wanting \subseteq Services
    /\ Retries \in [Services -> Nat]
    /\ MaxChanges \in Nat

VARIABLES
    plugins,      \* the object registered under each id, or NULL
    hooks,        \* the event's hooks; empty when the map has no entry
    services,     \* the registered external services
    pc, loop,     \* of each call of triggerEvent: where it is, its loop over the hooks
    calls,        \* its requests to the services, made when the last hook is done
    changes,      \* bounds the behaviours
    overwritten   \* auxiliary: ids registered again while registered

vars == <<plugins, hooks, services, pc, loop, calls, changes, overwritten>>

(***************************************************************************)
(* The loop goes through the array by index (next is the index to come).   *)
(* The array is shared: it may grow and shrink meanwhile, and once it is   *)
(* empty the map drops it for good (live is then FALSE).  The other fields *)
(* are auxiliary: the hooks run so far, those in the array at all times so *)
(* far, and whether hooks were put in or taken out before next.            *)
(***************************************************************************)
NewLoop == [live |-> hooks # <<>>, next |-> 1, failed |-> FALSE, ran |-> <<>>,
            present |-> {h \in Hooks : Cardinality({i \in DOMAIN hooks : hooks[i] = h}) = 1},
            pushed |-> FALSE, pulled |-> FALSE]

CallStates == {"none", "posted", "waiting", "acked", "exhausted"}
NoCall == [state |-> "none", tries |-> 0]

RangeOf(seq) == {seq[i] : i \in DOMAIN seq}

\* seq at the indices of K, in an order of K.
Place(i, K, Before) == Cardinality({j \in K : <<j, i>> \in Before})
Arranged(seq, K, Before) ==
    [n \in 1 .. Cardinality(K) |-> seq[CHOOSE i \in K : Place(i, K, Before) = n]]

Pick(seq, K) == Arranged(seq, K, {p \in K \X K : p[1] <= p[2]})

\* Stable, higher priority first.
Sorted(seq) ==
    LET K == DOMAIN seq
        Rank(i) == Priority[seq[i]]
    IN  Arranged(seq, K, {p \in K \X K : \/ Rank(p[1]) > Rank(p[2])
                                         \/ Rank(p[1]) = Rank(p[2]) /\ p[1] <= p[2]})

\* Mutant: only the plugin's first hook is removed.
WithoutFirst(seq, o) ==
    Pick(seq, {i \in DOMAIN seq : HooksOf[o] = <<>> \/ seq[i] # HooksOf[o][1]})

\* All but the first occurrence of each hook of o.
Without(seq, o) ==
    Pick(seq, {i \in DOMAIN seq : \/ seq[i] \notin RangeOf(HooksOf[o])
                                  \/ \E j \in 1 .. i - 1 : seq[j] = seq[i]})

Init == /\ plugins = [i \in Ids |-> NULL]
        /\ hooks = <<>>
        /\ services = {}
        /\ pc = [r \in Runs |-> "idle"]
        /\ loop = [r \in Runs |-> NewLoop]
        /\ calls = [r \in Runs |-> [s \in Services |-> NoCall]]
        /\ changes = 0
        /\ overwritten = {}

Change == changes < MaxChanges /\ changes' = changes + 1

\* What the loops under way notice of a new array.
Passed(r, seq) == [i \in {j \in DOMAIN seq : j < loop[r].next} |-> seq[i]]
Notice(new, in) ==
    loop' = [r \in Runs |->
        IF pc[r] = "hook"
        THEN LET moved == Passed(r, new) # Passed(r, hooks)
             IN  [loop[r] EXCEPT
                    !.live = @ /\ new # <<>>,
                    !.present = {h \in @ : Cardinality({i \in DOMAIN new : new[i] = h}) = 1},
                    !.pushed = @ \/ (in /\ moved),
                    !.pulled = @ \/ (~in /\ moved)]
        ELSE loop[r]]

\* Mutant: a plugin without a service registers one all the same.
RegisterPluginAndService(o) ==
    /\ Change
    /\ plugins' = [plugins EXCEPT ![Id[o]] = o]
    /\ overwritten' = IF plugins[Id[o]] = NULL THEN overwritten
                      ELSE overwritten \cup {Id[o]}
    /\ hooks' = Sorted(hooks \o HooksOf[o])
    /\ Notice(hooks', TRUE)
    /\ services' = services \cup {ServiceOf[o]}
    /\ UNCHANGED <<pc, calls>>

(***************************************************************************)
(* Registration.  An id in use gets its new plugin and the hooks of the    *)
(* old one stay.  Hooks of an object of type "external" are not registered *)
(* (HooksOf is empty for it).                                              *)
(***************************************************************************)
RegisterPlugin(o) ==
    /\ Change
    /\ plugins' = [plugins EXCEPT ![Id[o]] = o]
    /\ overwritten' = IF plugins[Id[o]] = NULL THEN overwritten
                      ELSE overwritten \cup {Id[o]}
    /\ hooks' = Sorted(hooks \o HooksOf[o])
    /\ Notice(hooks', TRUE)
    /\ services' = services \cup ({ServiceOf[o]} \ {NULL})
    /\ UNCHANGED <<pc, calls>>

\* unregisterExternalService is called with the plugin's id, under which no
\* service is kept.
UnregisterPlugin(i) ==
    /\ Change
    /\ plugins[i] # NULL
    /\ hooks' = Without(hooks, plugins[i])
    /\ Notice(hooks', FALSE)
    /\ plugins' = [plugins EXCEPT ![i] = NULL]
    /\ UNCHANGED <<services, pc, calls, overwritten>>

RegisterExternalService(s) ==
    /\ Change
    /\ services' = services \cup {s}
    /\ UNCHANGED <<plugins, hooks, pc, loop, calls, overwritten>>

UnregisterExternalService(s) ==
    /\ Change
    /\ services' = services \ {s}
    /\ UNCHANGED <<plugins, hooks, pc, loop, calls, overwritten>>

(***************************************************************************)
(* An event.  The hooks run one by one, and when the array has no more of  *)
(* them the services of that moment are called at the same time.           *)
(***************************************************************************)
Calls == [s \in Services |-> IF s \in services \cap Wanting
                             THEN [state |-> "posted", tries |-> 1]
                             ELSE NoCall]

Advance(r, l) ==
    IF l.live /\ l.next <= Len(hooks)
    THEN /\ pc' = [pc EXCEPT ![r] = "hook"]
         /\ loop' = [loop EXCEPT ![r] = [l EXCEPT !.next = @ + 1,
                                                  !.ran = Append(@, hooks[l.next])]]
         /\ calls' = [calls EXCEPT ![r] = [s \in Services |-> NoCall]]
    ELSE /\ pc' = [pc EXCEPT ![r] = "send"]
         /\ loop' = [loop EXCEPT ![r] = l]
         /\ calls' = [calls EXCEPT ![r] = Calls]

TriggerEvent(r) ==
    /\ pc[r] \in {"idle", "done"}
    /\ Advance(r, NewLoop)
    /\ UNCHANGED <<plugins, hooks, services, changes, overwritten>>

\* Mutants: a handler that fails ends the loop, or is called again.
HookSettlesOrRepeats(r) ==
    /\ pc[r] = "hook"
    /\ \/ Advance(r, loop[r])
       \/ Advance(r, [loop[r] EXCEPT !.failed = TRUE, !.next = @ - 1])
    /\ UNCHANGED <<plugins, hooks, services, changes, overwritten>>

\* A handler that fails is noted in the event and the next one runs.
HookSettles(r) ==
    /\ pc[r] = "hook"
    /\ \E fails \in BOOLEAN : Advance(r, [loop[r] EXCEPT !.failed = @ \/ fails])
    /\ UNCHANGED <<plugins, hooks, services, changes, overwritten>>

SetCall(r, s, call) ==
    /\ calls' = [calls EXCEPT ![r][s] = call]
    /\ UNCHANGED <<plugins, hooks, services, pc, loop, changes, overwritten>>

Answered(r, s) ==
    /\ calls[r][s].state = "posted"
    /\ SetCall(r, s, [calls[r][s] EXCEPT !.state = "acked"])

\* Mutant: one retry less than the webhook allows.
FailedEarly(r, s) ==
    /\ calls[r][s].state = "posted"
    /\ SetCall(r, s, [calls[r][s] EXCEPT
            !.state = IF calls[r][s].tries < Retries[s] THEN "waiting" ELSE "exhausted"])

\* Refused, or lost on the way there or back, or timed out.
Failed(r, s) ==
    /\ calls[r][s].state = "posted"
    /\ SetCall(r, s, [calls[r][s] EXCEPT
            !.state = IF calls[r][s].tries <= Retries[s] THEN "waiting" ELSE "exhausted"])

\* Mutant: retries are not counted.
RetryWebhookUncounted(r, s) ==
    /\ calls[r][s].state = "waiting"
    /\ SetCall(r, s, [calls[r][s] EXCEPT !.state = "posted"])

RetryWebhook(r, s) ==
    /\ calls[r][s].state = "waiting"
    /\ SetCall(r, s, [calls[r][s] EXCEPT !.state = "posted", !.tries = @ + 1])

Finish(r) ==
    /\ pc[r] = "send"
    /\ \A s \in Services : calls[r][s].state \in {"none", "acked", "exhausted"}
    /\ pc' = [pc EXCEPT ![r] = "done"]
    /\ UNCHANGED <<plugins, hooks, services, loop, calls, changes, overwritten>>

Next ==
    \/ \E o \in Objects : RegisterPlugin(o)
    \/ \E i \in Ids : UnregisterPlugin(i)
    \/ \E s \in Services : RegisterExternalService(s) \/ UnregisterExternalService(s)
    \/ \E r \in Runs : \/ TriggerEvent(r) \/ HookSettles(r) \/ Finish(r)
                       \/ \E s \in Services : Answered(r, s) \/ Failed(r, s) \/ RetryWebhook(r, s)

Spec == Init /\ [][Next]_vars

\* Handlers return, requests are answered or time out, and the event loop runs
\* what is ready.
Proceeds(r) ==
    \/ HookSettles(r) \/ Finish(r)
    \/ \E s \in Services : Answered(r, s) \/ Failed(r, s) \/ RetryWebhook(r, s)
FairSpec == Spec /\ \A r \in Runs : WF_vars(Proceeds(r))

-----------------------------------------------------------------------------
Call == [state : CallStates, tries : Nat]
Loop == [live : BOOLEAN, next : Nat \ {0}, failed : BOOLEAN, ran : Seq(Hooks),
         present : SUBSET Hooks, pushed : BOOLEAN, pulled : BOOLEAN]

\* The maps hold plugins under their ids, hooks and services.
TypeOK ==
    /\ plugins \in [Ids -> Objects \cup {NULL}]
    /\ \A i \in Ids : plugins[i] # NULL => Id[plugins[i]] = i
    /\ hooks \in Seq(Hooks)
    /\ services \subseteq Services
    /\ pc \in [Runs -> {"idle", "hook", "send", "done"}]
    /\ loop \in [Runs -> Loop]
    /\ calls \in [Runs -> [Services -> Call]]
    /\ changes \in 0 .. MaxChanges
    /\ overwritten \subseteq Ids

(***************************************************************************)
(* executeInternalPlugins iterates over the live array and awaits each     *)
(* handler: a hook registered all along (present) is skipped only if       *)
(* another was removed in front of the loop's index meanwhile, and runs    *)
(* twice only if one of higher priority was registered in front of it.     *)
(***************************************************************************)
HooksRunOnce ==
    \A r \in Runs :
        /\ pc[r] \in {"send", "done"} /\ ~loop[r].pulled
                => loop[r].present \subseteq RangeOf(loop[r].ran)
        /\ ~loop[r].pushed
                => \A h \in loop[r].present : \A i, j \in DOMAIN loop[r].ran :
                        loop[r].ran[i] = h /\ loop[r].ran[j] = h => i = j

(***************************************************************************)
(* Whoever runs next is known: every hook in the array belongs to a plugin *)
(* that is registered, unless its id was registered again over it, which   *)
(* leaves the old plugin's hooks behind with no call to remove them.       *)
(***************************************************************************)
NoOrphans ==
    \A i \in DOMAIN hooks : \E o \in Objects :
        /\ hooks[i] \in RangeOf(HooksOf[o])
        /\ plugins[Id[o]] = o \/ Id[o] \in overwritten

(***************************************************************************)
(* triggerWebhook and retryWebhook: when an event is over each service     *)
(* that was called has answered, or was tried once and as many times again *)
(* as it allows.                                                           *)
(***************************************************************************)
AnsweredOrExhausted ==
    \A r \in Runs, s \in Services :
        /\ calls[r][s].tries <= 1 + Retries[s]
        /\ pc[r] = "done" /\ calls[r][s].tries > 0 /\ calls[r][s].state # "acked"
                => calls[r][s].tries = 1 + Retries[s]

(***************************************************************************)
(* The request that triggers an event awaits it (attempts.service 249,     *)
(* 1690, 1851): every event comes to an end, although the array may grow   *)
(* under its loop and its webhooks fail.                                   *)
(***************************************************************************)
EventsFinish == \A r \in Runs : pc[r] = "hook" ~> pc[r] = "done"
=============================================================================
