-------------------------- MODULE BoundedStaleAuth --------------------------
(***************************************************************************)
(* What authentication promises, with no cache in sight: a request waits,  *)
(* then gets one answer in one step.  A key is refused as unknown only at  *)
(* a moment when no app holds it, so a new key works at once; an app is    *)
(* let pass or forbidden on what the table said at most Staleness ago.     *)
(***************************************************************************)
EXTENDS AppTable

CONSTANTS Calls, Staleness, NeverHeld

VARIABLES registry,   \* app_registry
          now,        \* the clock
          leftAt,     \* when a key last ceased to resolve to an info
          outcome     \* the answer each request got, or that it waits

Waiting == [pc |-> "waiting"]

Init ==
    /\ registry = [a \in {} |-> {}]
    /\ now = 0
    /\ leftAt = [k \in Keys |-> [i \in Infos |-> NeverHeld]]
    /\ outcome = [c \in Calls |-> Waiting]

Acceptable(key, info) ==
    Resolves(registry, key, info) \/ now <= leftAt[key][info] + Staleness

Answered(c, answer) ==
    /\ outcome[c] = Waiting
    /\ outcome' = [outcome EXCEPT ![c] = answer]
    /\ UNCHANGED <<registry, now, leftAt>>

Decide(c) ==
    \E k \in Keys, i \in Infos :
        /\ Acceptable(k, i)
        /\ Answered(c, [pc   |-> IF i.status = 0 THEN "forbidden" ELSE "handler",
                        key  |-> k,
                        info |-> i])

RejectUnknown(c) ==
    \E k \in Keys :
        /\ Unresolved(registry, k)
        /\ Answered(c, [pc |-> "unauthorized", key |-> k])

Fail(c) == Answered(c, [pc |-> "error"])

Leave(c) ==
    /\ outcome[c] # Waiting
    /\ outcome' = [outcome EXCEPT ![c] = Waiting]
    /\ UNCHANGED <<registry, now, leftAt>>

Administer ==
    /\ IsTable(registry')
    /\ leftAt' = [k \in Keys |-> [i \in Infos |->
                    IF Resolves(registry, k, i) /\ ~Resolves(registry', k, i)
                    THEN now ELSE leftAt[k][i]]]
    /\ UNCHANGED <<now, outcome>>

Tick == now' = now + 1 /\ UNCHANGED <<registry, leftAt, outcome>>

Next ==
    \/ \E c \in Calls : Decide(c) \/ RejectUnknown(c) \/ Fail(c) \/ Leave(c)
    \/ Administer
    \/ Tick

Spec == Init /\ [][Next]_<<registry, now, leftAt, outcome>>
=============================================================================
