---------------------------- MODULE DepthchargeRoms ----------------------------
(***************************************************************************)
(* ./build roms withdepthcharge: for each board libpayload, depthcharge    *)
(* and coreboot are built one into the other, in a coreboot tree and a     *)
(* depthcharge tree that all boards share; the parts that                  *)
(* cros-flash-replace needs, with itself and the layout, are moved to      *)
(* bin/depthcharge/<board>/                                                *)
(* (src/resources/scripts/helpers/build/roms/withdepthcharge).             *)
(*                                                                         *)
(* As in BuildRoms the script runs under set -e and can be stopped between *)
(* any two commands, by a signal or by a command that fails.               *)
(***************************************************************************)
EXTENDS Naturals, Sequences, SequencesExt

CONSTANTS
  Boards,             \* those with a directory under config/depthcharge/
  Requests,           \* arguments: sequences of names, none twice
  MaxRuns, MaxStops   \* bounds: runs started, runs stopped

NoBoard == "no board"
Names == UNION {ToSet(names) : names \in Requests}

ASSUME DepthchargeAssumption ==
  /\ NoBoard \notin Boards /\ "master" \notin Boards
  /\ \A names \in Requests : names \in Seq(Names) /\ IsInjective(names)
  /\ MaxRuns \in Nat /\ MaxStops \in Nat

Stages == {"libpayload", "depthcharge", "coreboot"}
PartImages == {"coreboot.img", "ro-frid.img"}
Helpers == {"cros-flash-replace", "layout.txt"}
Images == PartImages \cup Helpers

VARIABLES
  at,          \* the command the script has come to, or "idle"
  request,     \* the boards of the last run
  todo,        \* names left in the loop over boards
  board, stage,  \* the script leaves board as it is between boards, where nothing reads it:
                 \* it is NoBoard there
  branch,      \* what is checked out in the tree, of coreboot and of vboot
  libpayload,  \* what is in payloads/libpayload/install/
  elf,         \* what is in depthcharge.elf
  imgs,        \* *.img in the tree: name -> contents
  staged,      \* files of <board>/ in the tree
  dirs,        \* boards that have a directory under bin/depthcharge/
  shelf,       \* shelf[b]: files there
  outcome,
  placed,      \* history: boards whose files the last run put there
  runs, stops

loop == <<request, todo>>
parts == <<libpayload, elf, imgs>>
bin == <<dirs, shelf>>
ends == <<outcome, placed, runs, stops>>
vars == <<at, loop, board, stage, branch, parts, staged, bin, ends>>

\* Contents are known by the builds that are in them.
Build == [coreboot : Boards \cup {"master"}, vboot : Boards \cup {"master"}, run : 1 .. MaxRuns]
NowBuilt == [coreboot |-> branch.coreboot, vboot |-> branch.vboot, run |-> runs]

NoFiles == << >>
Without(f, x) == [y \in DOMAIN f \ {x} |-> f[y]]
With(f, x, v) == [y \in DOMAIN f \cup {x} |-> IF y = x THEN v ELSE f[y]]

Init ==
  /\ at = "idle" /\ request = << >> /\ todo = << >>
  /\ board = NoBoard /\ stage = "libpayload"
  /\ branch = [coreboot |-> "master", vboot |-> "master"]
  /\ libpayload = {} /\ elf = {} /\ imgs = NoFiles
  /\ staged = NoFiles
  /\ dirs = {} /\ shelf = [b \in Boards |-> NoFiles]
  /\ outcome = "none" /\ placed = {}
  /\ runs = 0 /\ stops = 0

Start ==
  /\ at = "idle" /\ runs < MaxRuns
  /\ \E names \in Requests : request' = names /\ todo' = names
  /\ at' = "boards" /\ outcome' = "running" /\ placed' = {}
  /\ runs' = runs + 1
  /\ UNCHANGED <<board, stage, branch, parts, staged, bin, stops>>

Ends(how) == at' = "idle" /\ board' = NoBoard /\ todo' = << >> /\ outcome' = how

NextBoard ==
  /\ at = "boards" /\ todo # << >> /\ Head(todo) \in Boards
  /\ board' = Head(todo) /\ todo' = Tail(todo)
  /\ stage' = "libpayload" /\ at' = "coreboot branch"
  /\ UNCHANGED <<request, branch, parts, staged, bin, ends>>

\* cat finds no cbrevision, and set -e ends the run.
UnknownBoard ==
  /\ at = "boards" /\ todo # << >> /\ Head(todo) \notin Boards
  /\ Ends("failed")
  /\ UNCHANGED <<request, stage, branch, parts, staged, bin, placed, runs, stops>>

BoardsDone ==
  /\ at = "boards" /\ todo = << >>
  /\ Ends("ok")
  /\ UNCHANGED <<request, stage, branch, parts, staged, bin, placed, runs, stops>>

-----------------------------------------------------------------------------
(* Each stage checks the board's branches out, makes its part anew, and goes *)
(* back to master.                                                          *)

GoOn(here, there) == at = here /\ at' = there /\ UNCHANGED <<loop, stage, ends>>

CheckoutCoreboot ==
  /\ GoOn("coreboot branch", "vboot branch")
  /\ branch' = [branch EXCEPT !.coreboot = board]
  /\ UNCHANGED <<board, parts, staged, bin>>

CheckoutVbootOnce ==
  /\ GoOn("vboot branch", "clean")
  /\ branch' = IF stage = "libpayload" THEN [branch EXCEPT !.vboot = board] ELSE branch
  /\ UNCHANGED <<board, parts, staged, bin>>

CheckoutVboot ==
  /\ GoOn("vboot branch", "clean")
  /\ branch' = [branch EXCEPT !.vboot = board]
  /\ UNCHANGED <<board, parts, staged, bin>>

\* rm of what the stage makes.
Clean ==
  /\ GoOn("clean", "make")
  /\ libpayload' = IF stage = "libpayload" THEN {} ELSE libpayload
  /\ elf' = IF stage = "depthcharge" THEN {} ELSE elf
  /\ imgs' = IF stage = "coreboot" THEN NoFiles ELSE imgs
  /\ UNCHANGED <<board, branch, staged, bin>>

\* make and make install
MakeLibpayload ==
  /\ stage = "libpayload" /\ GoOn("make", "coreboot master")
  /\ libpayload' = {NowBuilt}
  /\ UNCHANGED <<board, branch, elf, imgs, staged, bin>>

\* make, which links libpayload, and cp to coreboot's tree.
MakeDepthcharge ==
  /\ stage = "depthcharge" /\ GoOn("make", "coreboot master")
  /\ elf' = libpayload \cup {NowBuilt}
  /\ UNCHANGED <<board, branch, libpayload, imgs, staged, bin>>

\* make, which takes depthcharge.elf as payload; dd of the CBFS.
MakeCoreboot ==
  /\ stage = "coreboot" /\ GoOn("make", "objcopy")
  /\ imgs' = With(imgs, "coreboot.img", elf \cup {NowBuilt})
  /\ UNCHANGED <<board, branch, libpayload, elf, staged, bin>>

\* The version, padded to 256 bytes.
MakeRoFrid ==
  /\ GoOn("objcopy", "stage")
  /\ imgs' = With(imgs, "ro-frid.img", {NowBuilt})
  /\ UNCHANGED <<board, branch, libpayload, elf, staged, bin>>

-----------------------------------------------------------------------------
(* The files go to bin/ by way of <board>/ in the tree.                      *)

EmptyStage ==
  /\ GoOn("stage", "collect")
  /\ staged' = NoFiles
  /\ UNCHANGED <<board, branch, parts, bin>>

\* mv coreboot.img, then ro-frid.img
MovePart ==
  /\ \/ GoOn("collect", "collect ro-frid") /\ staged' = With(staged, "coreboot.img", imgs["coreboot.img"])
                                          /\ imgs' = Without(imgs, "coreboot.img")
     \/ GoOn("collect ro-frid", "script") /\ staged' = With(staged, "ro-frid.img", imgs["ro-frid.img"])
                                         /\ imgs' = Without(imgs, "ro-frid.img")
  /\ UNCHANGED <<board, branch, libpayload, elf, bin>>

CopyScriptOnly ==
  /\ GoOn("script", "drop") /\ staged' = With(staged, "cros-flash-replace", {NowBuilt})
  /\ UNCHANGED <<board, branch, parts, bin>>

\* cp cros-flash-replace, then layout.txt
CopyHelper ==
  /\ \/ GoOn("script", "layout") /\ staged' = With(staged, "cros-flash-replace", {NowBuilt})
     \/ GoOn("layout", "drop") /\ staged' = With(staged, "layout.txt", {NowBuilt})
  /\ UNCHANGED <<board, branch, parts, bin>>

\* rm -Rf bin/depthcharge/<board>/, a file at a time, then the directory.
DropFile ==
  /\ GoOn("drop", "drop")
  /\ \E n \in DOMAIN shelf[board] : shelf' = [shelf EXCEPT ![board] = Without(@, n)]
  /\ UNCHANGED <<board, branch, parts, staged, dirs>>

DropNothing ==
  /\ GoOn("drop", "place")
  /\ UNCHANGED <<board, branch, parts, staged, bin>>

DropDirectory ==
  /\ GoOn("drop", "place")
  /\ DOMAIN shelf[board] = {}
  /\ dirs' = dirs \ {board}
  /\ UNCHANGED <<board, branch, parts, staged, shelf>>

\* mv <board>/ bin/depthcharge/: into the directory of that name if there is one.
PlaceImages ==
  /\ at = "place" /\ at' = "tidy"
  /\ shelf' = IF board \in dirs THEN shelf ELSE [shelf EXCEPT ![board] = staged]
  /\ dirs' = dirs \cup {board} /\ staged' = NoFiles
  /\ placed' = placed \cup {board}
  /\ UNCHANGED <<loop, board, stage, branch, parts, outcome, runs, stops>>

\* rm depthcharge.elf *.img
Tidy ==
  /\ GoOn("tidy", "coreboot master")
  /\ elf' = {} /\ imgs' = NoFiles
  /\ UNCHANGED <<board, branch, libpayload, staged, bin>>

MasterCoreboot ==
  /\ GoOn("coreboot master", "vboot master")
  /\ branch' = [branch EXCEPT !.coreboot = "master"]
  /\ UNCHANGED <<board, parts, staged, bin>>

NextStage ==
  CASE stage = "libpayload"  -> stage' = "depthcharge" /\ at' = "coreboot branch" /\ board' = board
    [] stage = "depthcharge" -> stage' = "coreboot" /\ at' = "coreboot branch" /\ board' = board
    [] stage = "coreboot"    -> stage' = "libpayload" /\ at' = "boards" /\ board' = NoBoard

MasterVboot ==
  /\ at = "vboot master"
  /\ branch' = [branch EXCEPT !.vboot = "master"]
  /\ NextStage
  /\ UNCHANGED <<loop, parts, staged, bin, ends>>

-----------------------------------------------------------------------------
\* A signal, or a command that fails.
Stop ==
  /\ at # "idle" /\ stops < MaxStops
  /\ Ends("failed") /\ stops' = stops + 1
  /\ UNCHANGED <<request, stage, branch, parts, staged, bin, placed, runs>>

Next ==
  \/ Start \/ NextBoard \/ UnknownBoard \/ BoardsDone
  \/ CheckoutCoreboot \/ CheckoutVboot \/ Clean
  \/ MakeLibpayload \/ MakeDepthcharge \/ MakeCoreboot \/ MakeRoFrid
  \/ EmptyStage \/ MovePart \/ CopyHelper \/ DropFile \/ DropDirectory \/ PlaceImages
  \/ Tidy \/ MasterCoreboot \/ MasterVboot
  \/ Stop

Spec == Init /\ [][Next]_vars

-----------------------------------------------------------------------------
(* Properties.                                                              *)

Contents == SUBSET Build

\* When the old files of a board are deleted, all the new ones are at hand
\* (withdepthcharge:153-166).
TypeOK ==
  /\ board \in Boards \cup {NoBoard} /\ stage \in Stages
  /\ at \notin {"idle", "boards"} => board # NoBoard
  /\ at \in {"drop", "place"} => DOMAIN staged = Images
  /\ branch \in [{"coreboot", "vboot"} -> Boards \cup {"master"}]
  /\ libpayload \in Contents /\ elf \in Contents
  /\ \A n \in DOMAIN imgs : n \in PartImages /\ imgs[n] \in Contents
  /\ \A n \in DOMAIN staged : n \in Images /\ staged[n] \in Contents
  /\ \A b \in Boards : \A n \in DOMAIN shelf[b] : n \in Images /\ shelf[b][n] \in Contents
  /\ dirs \subseteq Boards /\ placed \subseteq ToSet(request) \cap Boards

\* Whatever a board has under bin/ was built on the board's own branches in all three
\* stages, and in one run, although the stages pass their results through trees that
\* all boards share and a stopped run leaves the results of any stage there.
OwnParts ==
  \A b \in Boards : \A n \in DOMAIN shelf[b] : \A made, other \in shelf[b][n] :
    made.coreboot = b /\ made.vboot = b /\ made.run = other.run

\* A file is as old as the oldest build in it.
Age(contents) == LET R == {made.run : made \in contents} IN CHOOSE r \in R : \A s \in R : r <= s

\* RomShelf, of which withdepthcharge is another implementation: nothing is finished
\* in place.
Shelf ==
  INSTANCE RomShelf WITH
    Families <- {Boards},
    Images <- [b \in Boards |-> Images],
    Finishes <- [b \in Boards |-> {}],
    shelf <- [b \in Boards |->
                [n \in DOMAIN shelf[b] |-> [run |-> Age(shelf[b][n]), inserted |-> "nothing"]]],
    family <- IF runs = 0 THEN {} ELSE Boards,
    asked <- ToSet(request) \cap Boards

\* The files of a board appear all at once, complete and of this run, disappear only
\* when the board is built again, and a run that exits 0 has built all it was asked for.
ImplementsRomShelf == Shelf!Spec
===============================================================================
