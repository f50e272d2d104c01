--------------------------- MODULE MCMemoryStore ---------------------------
(* A small deployment: one application whose binding may be revised, two   *)
(* of its runs, and the arguments their memory tools are called with.      *)
EXTENDS MemoryStore, TLC

CONSTANTS b1, b2
Revisable == Permutations(Bindings)

Notes == [b \in Bindings |-> "notes"]
BothNotes == [r \in Runs |-> "notes"]

Remembers(key, expected) == [mode |-> "remember", key |-> key, expected |-> expected]
Forgets(key, expected)   == [mode |-> "exact", key |-> key, expected |-> expected]

First  == <<"r1", 1, 1>>
Twin   == <<"r1", 1, 2>>
Other  == <<"r2", 1, 1>>

ThreeCalls == {First, Twin, Other}

Arguments ==
    First :> {Remembers(1, 0)}
    @@ Twin :> {Remembers(1, 0), Remembers(1, 2), Forgets(1, 1),
                [mode |-> "scope"]}
    @@ Other :> {Remembers(1, 1), Remembers(2, 0), Forgets(1, 1), [mode |-> "scope"],
                 [mode |-> "source", source |-> First]}
=============================================================================
