------------------------------ MODULE MCCrosFlash ------------------------------
(* Values of CrosFlash for TLC: the layout of veyron_speedy, scaled down.    *)
EXTENDS CrosFlash

MCStart == [p \in Parts |-> IF p = "coreboot" THEN 0 ELSE 7]
MCStop == [p \in Parts |-> IF p = "coreboot" THEN 3 ELSE 7]
MCGuide == <<"coreboot", "ro-frid">>
MCAsked ==
  {MCGuide, <<"ro-frid">>, <<"frid", "coreboot">>, <<"gbb", "coreboot">>, <<"o">>}

\* "frid" is on the line of ro-frid only, "o" on both, "gbb" on none.
MCLines ==
  [name \in Names |->
     CASE name \in Parts -> {name}
       [] name = "frid" -> {"ro-frid"}
       [] name = "o" -> Parts
       [] OTHER -> {}]
===============================================================================
