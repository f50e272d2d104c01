----------------------------- MODULE MCHarness -----------------------------
(* Instances of Harness for TLC: the tools, the requests a model may make   *)
(* and the tool sets a Harness may be constructed with.                     *)
EXTENDS Harness

read  == [effect |-> "read_only", revision |-> "unknown", key |-> NoKey, binds |-> TRUE]
send  == [effect |-> "idempotent", revision |-> "r1", key |-> "k1", binds |-> TRUE]
write == [effect |-> "side_effecting", revision |-> "r1", key |-> NoKey, binds |-> TRUE]

Base == [t \in {"read", "send", "write"} |->
            CASE t = "read" -> read [] t = "send" -> send [] t = "write" -> write]
OneCatalog == {Base}

Ask(id, name) == [id |-> id, name |-> name, wellformed |-> TRUE]

\* Every tool, two side effects in one reply, a tool nobody has, a malformed
\* call, and ids that repeat within a reply and across steps.
AllRequests ==
    {Ask("i1", "read"), Ask("i1", "send"), Ask("i1", "write"), Ask("i2", "write"),
     Ask("i2", "gone"), [id |-> NoId, name |-> "read", wellformed |-> FALSE]}

\* What a later deployment may have made of the tools: another revision of
\* one, another key for the other, a signature that refuses the arguments, or
\* no such tool.
Deployed(s, w) == [t \in {"send", "write"} |-> IF t = "send" THEN s ELSE w]
Redeployments ==
    {Deployed(send, write),
     Deployed([send EXCEPT !.key = "k2"], [write EXCEPT !.revision = "r2"]),
     Deployed([send EXCEPT !.effect = "side_effecting"], [write EXCEPT !.binds = FALSE]),
     [t \in {"read"} |-> read]}

WriteRequests == {Ask(id, "write") : id \in Ids}
MutatingRequests == WriteRequests \cup {Ask(id, "send") : id \in Ids}
=============================================================================
