------------------------- MODULE MCWorkflowCatalog -------------------------
(* Two workflows, two documents of which one stops compiling when the      *)
(* tools change, one studio page and the other clients of the catalog.     *)
EXTENDS WorkflowCatalog, TLC

CONSTANTS w1, w2

MCIds == {w1, w2}
MCDefinitions == {"a", "b"}
MCContract == [d \in MCDefinitions \X (1 .. 2) |->
                 CASE d[2] = 1 -> 1 [] d = <<"a", 2>> -> 2 [] OTHER -> Nothing]
MCSymmetry == Permutations(MCIds)
=============================================================================
