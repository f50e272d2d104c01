--------------------------- MODULE MCWorkflowRun ---------------------------
(* A workflow of three steps for TLC: an idempotent call, a read and a side *)
(* effect, and a later deployment with another idempotency key.             *)
EXTENDS WorkflowProjection

Lookup == [effect |-> "read_only", revision |-> "unknown", key |-> NoKey, binds |-> TRUE]
Notify == [effect |-> "idempotent", revision |-> "r1", key |-> "k1", binds |-> TRUE]
Record == [effect |-> "side_effecting", revision |-> "r1", key |-> NoKey, binds |-> TRUE]

Wrappers(notify) ==
    [t \in {"lookup", "notify", "record"} |->
        CASE t = "lookup" -> Lookup [] t = "notify" -> notify [] t = "record" -> Record]
Deployments == {Wrappers(Notify), Wrappers([Notify EXCEPT !.key = "k2"])}
OneWrapper == {[t \in {"record"} |-> Record]}

ThreeSteps == <<"notify", "lookup", "record">>
ThreeIds   == <<"w1", "w2", "w3">>
OneStep    == <<"record">>
Asked == {[id |-> ThreeIds[k], name |-> ThreeSteps[k], wellformed |-> TRUE] : k \in 1 .. 3}
OneAsked == {[id |-> "w1", name |-> "record", wellformed |-> TRUE]}
OneId == <<"w1">>
=============================================================================
