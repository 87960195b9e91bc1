------------------------------ MODULE MCFlashI945 ------------------------------
(* Values for FlashI945.                                                     *)
EXTENDS FlashI945

Everything == Prerequisites
MCEnvironments ==
  {Everything} \cup {Everything \ {p} : p \in {"root", "flashrom", "bucts", "sst"}}

Laptop(board, part) == [board |-> board, part |-> part]
MCMachines ==
  {Laptop("lenovo", "sst"), Laptop("lenovo", "macronix"), Laptop("lenovo", "other"),
   Laptop("apple", "other")}
==============================================================================
