--------------------------- MODULE MCDepthchargeRoms ---------------------------
(* Values of DepthchargeRoms for TLC: veyron_speedy, which the repository has, *)
(* a second board of its family, and a name that has no configuration.         *)
EXTENDS DepthchargeRoms

MCRequests ==
  {<<"veyron_speedy">>, <<"veyron_minnie">>, <<"veyron_minnie", "veyron_speedy">>,
   <<"veyron_speedy", "no such board">>}
===============================================================================
