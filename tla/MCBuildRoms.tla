------------------------------ MODULE MCBuildRoms ------------------------------
(* Values of BuildRoms for TLC: boards of the repository that differ in what *)
(* the scripts ask about them.                                               *)
EXTENDS BuildRoms

MCTypes ==
  [b \in Boards |->
     CASE b = "x200_8mb" -> {"vesafb"}
       [] b = "kfsn4-dre" -> {"txtmode", "vesafb"}
       [] OTHER -> AllTypes]
===============================================================================
