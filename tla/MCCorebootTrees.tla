---------------------------- MODULE MCCorebootTrees ----------------------------
(* Values of CorebootTrees for TLC: two boards that share a tree, and one    *)
(* that has its own.                                                         *)
EXTENDS CorebootTrees

MCBoardOrder == <<"t60", "x60", "kgpe-d16">>
MCRevisions == {"2a343475", "15fca66b"}
MCRevision == [b \in ToSet(MCBoardOrder) |-> IF b = "kgpe-d16" THEN "15fca66b" ELSE "2a343475"]
===============================================================================
