----------------------------- MODULE MCReleaseRoms -----------------------------
(* Values of ReleaseRoms for TLC: one i945 and one GM45 board, and one that   *)
(* has nothing inserted, whose name sorts before those of copies.          *)
EXTENDS ReleaseRoms

MCBoards == {"x60", "x200_8mb", "kfsn4-dre"}
MCEarly == {"kfsn4-dre"}
MCFamilies == {{"x60", "x200_8mb"}, {"kfsn4-dre"}}
MCImages == [b \in MCBoards |-> IF b = "x60" THEN {"txtmode", "vesafb"} ELSE {"vesafb"}]
MCFinishes ==
  [b \in MCBoards |->
     CASE b = "x60" -> {"boot block"} [] b = "x200_8mb" -> {"address"} [] OTHER -> {}]
===============================================================================
