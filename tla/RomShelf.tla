------------------------------- MODULE RomShelf -------------------------------
(***************************************************************************)
(* What ./build roms promises about bin/<payload>/: the images of a board  *)
(* appear all at once, are finished in place (a boot block copy on i945, a *)
(* descriptor and GbE region on GM45), and disappear only when the board   *)
(* is built again.  A run that reports success leaves no image of any      *)
(* board of its payload unfinished, whatever earlier runs that were        *)
(* stopped left behind.                                                    *)
(***************************************************************************)
EXTENDS Naturals

CONSTANTS
  Boards,
  Families,   \* the boards of each payload
  Images,     \* Images[b]: names of the ROM images of board b
  Finishes    \* Finishes[b]: what can be inserted into images of b, {} if nothing

VARIABLES
  shelf,      \* shelf[b]: the images present, name -> [run, inserted]
  outcome,    \* of the last run: "none", "running", "ok" or "failed"
  family,     \* boards of the last run's payload
  asked,      \* boards the last run was asked to build
  placed,     \* those of them it has put on the shelf
  runs        \* number of runs

vars == <<shelf, outcome, family, asked, placed, runs>>

Raw(run) == [run |-> run, inserted |-> "nothing"]

Init ==
  /\ shelf = [b \in Boards |-> << >>]
  /\ outcome = "none"
  /\ family = {} /\ asked = {} /\ placed = {}
  /\ runs = 0

Begin(F, R) ==
  /\ outcome # "running"
  /\ outcome' = "running"
  /\ family' = F /\ asked' = R /\ placed' = {}
  /\ runs' = runs + 1
  /\ UNCHANGED shelf

\* An old image of a board that is being rebuilt goes.
Discard(b, name) ==
  /\ outcome = "running"
  /\ b \in asked \ placed
  /\ name \in DOMAIN shelf[b]
  /\ shelf' = [shelf EXCEPT ![b] = [n \in DOMAIN @ \ {name} |-> @[n]]]
  /\ UNCHANGED <<outcome, family, asked, placed, runs>>

\* All new images of a board come, at once.
Place(b) ==
  /\ outcome = "running"
  /\ b \in asked \ placed
  /\ DOMAIN shelf[b] = {}
  /\ shelf' = [shelf EXCEPT ![b] = [n \in Images[b] |-> Raw(runs)]]
  /\ placed' = placed \cup {b}
  /\ UNCHANGED <<outcome, family, asked, runs>>

\* Inserting v takes time, during which the image is neither old nor new;
\* an image that holds v already stays what it is.
BeginInsert(b, name, v) ==
  /\ outcome = "running"
  /\ asked \subseteq placed
  /\ name \in DOMAIN shelf[b]
  /\ shelf[b][name].inserted # v
  /\ shelf' = [shelf EXCEPT ![b][name].inserted = "torn"]
  /\ UNCHANGED <<outcome, family, asked, placed, runs>>

EndInsert(b, name, v) ==
  /\ outcome = "running"
  /\ name \in DOMAIN shelf[b]
  /\ shelf[b][name].inserted = "torn"
  /\ shelf' = [shelf EXCEPT ![b][name].inserted = v]
  /\ UNCHANGED <<outcome, family, asked, placed, runs>>

Finished(b) ==
  Finishes[b] # {} => \A n \in DOMAIN shelf[b] : shelf[b][n].inserted \in Finishes[b]

BuiltNow(b) ==
  /\ DOMAIN shelf[b] = Images[b]
  /\ \A n \in Images[b] : shelf[b][n].run = runs

SucceedUnfinished ==
  /\ outcome = "running"
  /\ \A b \in asked : BuiltNow(b)
  /\ outcome' = "ok"
  /\ UNCHANGED <<shelf, family, asked, placed, runs>>

Succeed ==
  /\ outcome = "running"
  /\ \A b \in asked : BuiltNow(b)
  /\ \A b \in family : Finished(b)
  /\ outcome' = "ok"
  /\ UNCHANGED <<shelf, family, asked, placed, runs>>

Fail ==
  /\ outcome = "running"
  /\ outcome' = "failed"
  /\ UNCHANGED <<shelf, family, asked, placed, runs>>

Next ==
  \/ \E F \in Families : \E R \in SUBSET F : Begin(F, R)
  \/ \E b \in Boards : Place(b)
  \/ \E b \in Boards : \E name \in DOMAIN shelf[b] : Discard(b, name)
  \/ \E b \in Boards : \E v \in Finishes[b] : \E name \in DOMAIN shelf[b] :
       BeginInsert(b, name, v) \/ EndInsert(b, name, v)
  \/ Succeed
  \/ Fail

Spec == Init /\ [][Next]_vars
===============================================================================
