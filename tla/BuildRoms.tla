------------------------------- MODULE BuildRoms -------------------------------
(***************************************************************************)
(* ./build roms withgrub and ./build roms withseabios: images are made per *)
(* board in a coreboot tree that all boards of a payload share, moved to   *)
(* bin/<payload>/<board>/, and finished there                              *)
(* (src/resources/scripts/helpers/build/roms/).                            *)
(*                                                                         *)
(* The scripts run under set -e.  Between any two commands the run can be  *)
(* stopped, by a signal or by a command that fails; files and branches     *)
(* stay as they are then, and the user may start the same or another run.  *)
(*                                                                         *)
(* Where a glob or an rm -R goes through files in an order, or a loop      *)
(* through boards, any order is allowed, except where it decides something *)
(* (`top64k.bin` among the images of an i945 board).                       *)
(***************************************************************************)
EXTENDS Naturals, FiniteSets

CONSTANTS
  GrubBoards, SeabiosBoards,
  Types,              \* Types[b]: those of txtmode, vesafb that are built for b
  Keymaps,
  BootBlockBoards,    \* i945: the boot block is copied below itself
  StrayFirst,         \* those whose images come after top64k.bin in a glob
  DescriptorBoards,   \* GM45: descriptor and GbE region at the start
  AddressFiles,       \* what gm45macaddress may be: "none", "one word", "other"
  MaxRuns, MaxStops   \* bounds: runs started, runs stopped

Boards == GrubBoards \cup SeabiosBoards
NoBoard == "no board"
NoKeymap == "no keymap"
AllTypes == {"txtmode", "vesafb"}

ASSUME BoardsAssumption ==
  /\ GrubBoards \cap SeabiosBoards = {}
  /\ NoBoard \notin Boards
  /\ NoKeymap \notin Keymaps /\ Keymaps # {}
  /\ Types \in [Boards -> (SUBSET AllTypes) \ {{}}]
  /\ BootBlockBoards \subseteq GrubBoards
  /\ DescriptorBoards \subseteq GrubBoards \ BootBlockBoards
  /\ StrayFirst \subseteq BootBlockBoards
  /\ AddressFiles \subseteq {"none", "one word", "other"}
  /\ MaxRuns \in Nat /\ MaxStops \in Nat

VARIABLES
  at,          \* the command the running script has come to, or "idle"
  request,     \* [payload, boards] of the last run
  todo,        \* boards left in the loop over boards
  board,       \* the board of that loop
  types, type, \* types left, and the one that is built
  left, file,  \* files left in the innermost loop, and its file
  fd,          \* the address ich9gen put into the descriptor images it left
  branch,      \* what is checked out in each payload's tree: coreboot, vboot
  elf,         \* the run that made the GRUB ELFs in coreboot/, 0 for none
  work,        \* ROM files in the trees: <<board, keymap, type>> -> content
  staged,      \* <board>/ in the tree: <<keymap, type>> -> content
  dirs,        \* boards that have a directory under bin/
  shelf,       \* shelf[b]: images there, <<keymap, type>> -> content
  litter,      \* litter[b]: other files there
  address,     \* gm45macaddress
  outcome,     \* how the last run ended
  placed,      \* history: boards whose images the last run put under bin/
  runs, stops

memory == <<todo, board, types, type, left, file, fd>>
bin == <<dirs, shelf, litter>>
tree == <<branch, work, staged>>
counts == <<runs, stops>>
vars == <<at, request, memory, tree, elf, bin, address, outcome, placed, counts>>

-----------------------------------------------------------------------------
(* Images.                                                                  *)

\* A content: the branches it was built on, the run whose payload it has,
\* whether the GRUB configurations are in, and what was inserted in place.
Built(coreboot, vboot, run) ==
  [coreboot |-> coreboot, vboot |-> vboot, run |-> run, configured |-> FALSE,
   inserted |-> "nothing"]

Content ==
  [coreboot : Boards \cup {"master"}, vboot : Boards \cup {"master"}, run : 1 .. MaxRuns,
   configured : BOOLEAN,
   inserted : {"nothing", "torn", "boot block", "default address", "own address"}]

ImagesOf(b) ==
  IF b \in GrubBoards THEN Keymaps \X Types[b] ELSE {NoKeymap} \X Types[b]

Without(f, x) == [y \in DOMAIN f \ {x} |-> f[y]]
With(f, x, v) == [y \in DOMAIN f \cup {x} |-> IF y = x THEN v ELSE f[y]]

NoFiles == << >>
NoFile == << >>
Top64k == <<"top64k.bin">>
Generated == <<"ich9fd*.bin">>
Star == <<"*">>     \* a glob that matched nothing; as a file of GM45, "*.rom"

-----------------------------------------------------------------------------
Init ==
  /\ at = "idle"
  /\ request = [payload |-> "grub", boards |-> {}]
  /\ todo = {} /\ board = NoBoard /\ types = {} /\ type = "none"
  /\ left = {} /\ file = NoFile /\ fd = "none"
  /\ branch = [p \in {"grub", "seabios"} |-> [coreboot |-> "master", vboot |-> "master"]]
  /\ elf = 0
  /\ work = NoFiles /\ staged = NoFiles
  /\ dirs = {} /\ shelf = [b \in Boards |-> NoFiles] /\ litter = [b \in Boards |-> {}]
  /\ address \in AddressFiles
  /\ outcome = "none" /\ placed = {}
  /\ runs = 0 /\ stops = 0

Forget ==
  /\ todo' = {} /\ board' = NoBoard /\ types' = {} /\ type' = "none"
  /\ left' = {} /\ file' = NoFile /\ fd' = "none"

\* Named boards that have no configuration are passed over in silence: R
\* holds the others.  All boards is R = GrubBoards or R = SeabiosBoards.
Start(payload, R) ==
  /\ at = "idle" /\ runs < MaxRuns
  /\ request' = [payload |-> payload, boards |-> R]
  /\ todo' = R
  /\ at' = IF payload = "grub" THEN "payload" ELSE "boards"
  /\ elf' = IF payload = "grub" THEN 0 ELSE elf
  /\ outcome' = "running" /\ placed' = {}
  /\ runs' = runs + 1
  /\ UNCHANGED <<board, types, type, left, file, fd, tree, bin, address, stops>>

\* gen.sh and the configuration files of both types.
PayloadNotMoved ==
  /\ at = "payload"
  /\ at' = "boards"
  /\ UNCHANGED <<request, memory, tree, elf, bin, address, outcome, placed, counts>>

MakePayload ==
  /\ at = "payload"
  /\ elf' = runs
  /\ at' = "boards"
  /\ UNCHANGED <<request, memory, tree, bin, address, outcome, placed, counts>>

-----------------------------------------------------------------------------
(* One board: withgrub_helper, withseabios_helper.                          *)

NextBoard ==
  /\ at = "boards"
  /\ \E b \in todo : board' = b /\ todo' = todo \ {b}
  /\ at' = "coreboot branch"
  /\ UNCHANGED <<request, types, type, left, file, fd, tree, elf, bin, address, outcome,
                 placed, counts>>

CheckoutCoreboot ==
  /\ at = "coreboot branch"
  /\ branch' = [branch EXCEPT ![request.payload].coreboot = board]
  /\ at' = "vboot branch"
  /\ UNCHANGED <<request, memory, work, staged, elf, bin, address, outcome, placed, counts>>

CheckoutVbootForgotten ==
  /\ at = "vboot branch"
  /\ types' = Types[board]
  /\ at' = "types"
  /\ UNCHANGED <<request, todo, board, type, left, file, fd, tree, elf, bin, address, outcome,
                 placed, counts>>

CheckoutVboot ==
  /\ at = "vboot branch"
  /\ branch' = [branch EXCEPT ![request.payload].vboot = board]
  /\ types' = Types[board]
  /\ at' = "types"
  /\ UNCHANGED <<request, todo, board, type, left, file, fd, work, staged, elf, bin, address,
                 outcome, placed, counts>>

\* make clean, the payload copied in, make, the result renamed; background or
\* vgabios.bin added.  Until it has a configuration the image has no keymap in
\* its name.
MakeRom ==
  /\ at = "types"
  /\ \E t \in types :
       /\ type' = t /\ types' = types \ {t}
       /\ work' = With(work, <<board, NoKeymap, t>>,
                       Built(branch[request.payload].coreboot, branch[request.payload].vboot,
                             IF board \in GrubBoards THEN elf ELSE runs))
  /\ IF board \in GrubBoards THEN at' = "keymaps" /\ left' = Keymaps
                             ELSE at' = "types" /\ left' = {}
  /\ UNCHANGED <<request, todo, board, file, fd, branch, staged, elf, bin, address, outcome,
                 placed, counts>>

CopyRom ==
  /\ at = "keymaps"
  /\ \E k \in left :
       /\ file' = <<board, k, type>> /\ left' = left \ {k}
       /\ work' = With(work, <<board, k, type>>, work[<<board, NoKeymap, type>>])
  /\ at' = "configure"
  /\ UNCHANGED <<request, todo, board, types, type, fd, branch, staged, elf, bin, address,
                 outcome, placed, counts>>

\* grub.cfg and grubtest.cfg.
AddConfigs ==
  /\ at = "configure"
  /\ work' = [work EXCEPT ![file].configured = TRUE]
  /\ at' = "keymaps"
  /\ UNCHANGED <<request, memory, branch, staged, elf, bin, address, outcome, placed, counts>>

RemoveConfigless ==
  /\ at = "keymaps" /\ left = {}
  /\ work' = Without(work, <<board, NoKeymap, type>>)
  /\ at' = "types"
  /\ UNCHANGED <<request, memory, branch, staged, elf, bin, address, outcome, placed, counts>>

\* rm -Rf <board>/; mkdir <board>/
EmptyStage ==
  /\ at = "types" /\ types = {}
  /\ staged' = NoFiles
  /\ at' = "collect"
  /\ UNCHANGED <<request, memory, branch, work, elf, bin, address, outcome, placed, counts>>

\* mv <board>*.rom <board>/
MoveRom ==
  /\ at = "collect"
  /\ \E f \in DOMAIN work :
       /\ f[1] = board
       /\ staged' = With(staged, <<f[2], f[3]>>, work[f])
       /\ work' = Without(work, f)
  /\ UNCHANGED <<at, request, memory, branch, elf, bin, address, outcome, placed, counts>>

AllMoved ==
  /\ at = "collect"
  /\ \A f \in DOMAIN work : f[1] # board
  /\ at' = "drop"
  /\ UNCHANGED <<request, memory, tree, elf, bin, address, outcome, placed, counts>>

\* rm -Rf bin/<payload>/<board>/, a file at a time, then the directory.
DropFile ==
  /\ at = "drop"
  /\ \/ /\ \E n \in DOMAIN shelf[board] : shelf' = [shelf EXCEPT ![board] = Without(@, n)]
        /\ UNCHANGED litter
     \/ /\ \E x \in litter[board] : litter' = [litter EXCEPT ![board] = @ \ {x}]
        /\ UNCHANGED shelf
  /\ UNCHANGED <<at, request, memory, tree, elf, dirs, address, outcome, placed, counts>>

DropOnlyImages ==
  /\ at = "drop"
  /\ DOMAIN shelf[board] = {}
  /\ dirs' = IF litter[board] = {} THEN dirs \ {board} ELSE dirs
  /\ at' = "place"
  /\ UNCHANGED <<request, memory, tree, elf, shelf, litter, address, outcome, placed, counts>>

DropDirectory ==
  /\ at = "drop"
  /\ DOMAIN shelf[board] = {} /\ litter[board] = {}
  /\ dirs' = dirs \ {board}
  /\ at' = "place"
  /\ UNCHANGED <<request, memory, tree, elf, shelf, litter, address, outcome, placed, counts>>

\* mv <board>/ bin/<payload>/: into the directory of that name if there is one.
PlaceImages ==
  /\ at = "place"
  /\ shelf' = IF board \in dirs THEN shelf ELSE [shelf EXCEPT ![board] = staged]
  /\ dirs' = dirs \cup {board}
  /\ staged' = NoFiles
  /\ placed' = placed \cup {board}
  /\ at' = "coreboot master"
  /\ UNCHANGED <<request, memory, branch, work, elf, litter, address, outcome, counts>>

MasterCoreboot ==
  /\ at = "coreboot master"
  /\ branch' = [branch EXCEPT ![request.payload].coreboot = "master"]
  /\ at' = "vboot master"
  /\ UNCHANGED <<request, memory, work, staged, elf, bin, address, outcome, placed, counts>>

MasterVboot ==
  /\ at = "vboot master"
  /\ branch' = [branch EXCEPT ![request.payload].vboot = "master"]
  /\ at' = "boards" /\ board' = NoBoard /\ type' = "none" /\ file' = NoFile
  /\ UNCHANGED <<request, todo, types, left, fd, work, staged, elf, bin, address, outcome,
                 placed, counts>>

BoardsDone ==
  /\ at = "boards" /\ todo = {}
  /\ IF request.payload = "grub"
     THEN at' = "i945" /\ todo' = BootBlockBoards
     ELSE at' = "clean up" /\ todo' = {}
  /\ UNCHANGED <<request, board, types, type, left, file, fd, tree, elf, bin, address, outcome,
                 placed, counts>>

-----------------------------------------------------------------------------
(* The boot block copy for i945, over everything that is in the directory.  *)

EnterI945IfAsked ==
  /\ at = "i945"
  /\ \E b \in todo :
       /\ todo' = todo \ {b}
       /\ IF b \in dirs \cap request.boards
          THEN LET names == DOMAIN shelf[b] \cup litter[b] IN
               /\ board' = b /\ at' = "extract"
               /\ left' = IF names = {} THEN {Star} ELSE names
          ELSE UNCHANGED <<at, board, left>>
  /\ UNCHANGED <<request, types, type, file, fd, tree, elf, bin, address, outcome, placed,
                 counts>>

EnterI945 ==
  /\ at = "i945"
  /\ \E b \in todo :
       /\ todo' = todo \ {b}
       /\ IF b \in dirs
          THEN LET names == DOMAIN shelf[b] \cup litter[b] IN
               /\ board' = b /\ at' = "extract"
               /\ left' = IF names = {} THEN {Star} ELSE names
          ELSE UNCHANGED <<at, board, left>>
  /\ UNCHANGED <<request, types, type, file, fd, tree, elf, bin, address, outcome, placed,
                 counts>>

\* Names that the loop comes to next: top64k.bin has its place in the glob.
NextInGlob ==
  LET images == left \cap DOMAIN shelf[board]
      others == left \ images
  IN  IF board \in StrayFirst
      THEN IF others # {} THEN others ELSE images
      ELSE IF images # {} THEN images ELSE others

\* dd of the last 64 KiB to top64k.bin
ExtractTop ==
  /\ at = "extract"
  /\ \E n \in NextInGlob \cap DOMAIN shelf[board] : file' = n
  /\ litter' = [litter EXCEPT ![board] = @ \cup {Top64k}]
  /\ at' = "insert"
  /\ UNCHANGED <<request, todo, board, types, type, left, fd, tree, elf, dirs, shelf, address,
                 outcome, placed, counts>>

\* A name that is no image: top64k.bin itself, which is gone, too short or cut
\* to nothing by its own dd, or the pattern. One of the two dd gets a negative
\* number of bytes to skip and fails.
DdFails ==
  /\ at = "extract"
  /\ NextInGlob \ DOMAIN shelf[board] # {}
  /\ at' = "idle" /\ outcome' = "aborted" /\ Forget
  /\ UNCHANGED <<request, tree, elf, bin, address, placed, counts>>

\* dd to the 64 KiB below; writing what is there already changes nothing.
BeginInsert(v) ==
  shelf' = [shelf EXCEPT ![board][file].inserted = IF @ = v THEN v ELSE "torn"]

EndInsert(v) == shelf' = [shelf EXCEPT ![board][file].inserted = v]

BeginBootBlock ==
  /\ at = "insert"
  /\ BeginInsert("boot block")
  /\ at' = "inserting"
  /\ UNCHANGED <<request, memory, tree, elf, dirs, litter, address, outcome, placed, counts>>

EndBootBlock ==
  /\ at = "inserting"
  /\ EndInsert("boot block")
  /\ at' = "remove top64k.bin"
  /\ UNCHANGED <<request, memory, tree, elf, dirs, litter, address, outcome, placed, counts>>

RemoveTop ==
  /\ at = "remove top64k.bin"
  /\ litter' = [litter EXCEPT ![board] = @ \ {Top64k}]
  /\ left' = left \ {file} /\ file' = NoFile
  /\ at' = "extract"
  /\ UNCHANGED <<request, todo, board, types, type, fd, tree, elf, dirs, shelf, address,
                 outcome, placed, counts>>

LeaveI945 ==
  /\ at = "extract" /\ left = {}
  /\ at' = "i945" /\ board' = NoBoard
  /\ UNCHANGED <<request, todo, types, type, left, file, fd, tree, elf, bin, address, outcome,
                 placed, counts>>

I945Done ==
  /\ at = "i945" /\ todo = {}
  /\ at' = "gm45" /\ todo' = DescriptorBoards
  /\ UNCHANGED <<request, board, types, type, left, file, fd, tree, elf, bin, address, outcome,
                 placed, counts>>

-----------------------------------------------------------------------------
(* Descriptor and GbE region for GM45, over *.rom.                          *)

EnterGm45IfAsked ==
  /\ at = "gm45"
  /\ \E b \in todo :
       /\ todo' = todo \ {b}
       /\ IF b \in dirs \cap request.boards
          THEN board' = b /\ at' = "ich9gen" ELSE UNCHANGED <<at, board>>
  /\ UNCHANGED <<request, types, type, left, file, fd, tree, elf, bin, address, outcome, placed,
                 counts>>

EnterGm45 ==
  /\ at = "gm45"
  /\ \E b \in todo :
       /\ todo' = todo \ {b}
       /\ IF b \in dirs THEN board' = b /\ at' = "ich9gen" ELSE UNCHANGED <<at, board>>
  /\ UNCHANGED <<request, types, type, left, file, fd, tree, elf, bin, address, outcome, placed,
                 counts>>

\* The file's words are ich9gen's arguments; it looks at them only when there
\* is exactly one after --macaddress.
AddressUsed == IF address = "one word" THEN "own address" ELSE "default address"

Ich9gen ==
  /\ at = "ich9gen"
  /\ fd' = AddressUsed
  /\ litter' = [litter EXCEPT ![board] = @ \cup {Generated}]
  /\ LET roms == DOMAIN shelf[board] \cup (litter[board] \cap {Star})
     IN  left' = IF roms = {} THEN {Star} ELSE roms
  /\ at' = "descriptor"
  /\ UNCHANGED <<request, todo, board, types, type, file, tree, elf, dirs, shelf, address,
                 outcome, placed, counts>>

\* dd count=12k; of a pattern that matched nothing it makes a file.
BeginDescriptor ==
  /\ at = "descriptor"
  /\ \E n \in left :
       /\ file' = n
       /\ IF n = Star
          THEN litter' = [litter EXCEPT ![board] = @ \cup {Star}] /\ UNCHANGED shelf
          ELSE /\ shelf' = [shelf EXCEPT ![board][n].inserted = IF @ = fd THEN fd ELSE "torn"]
               /\ UNCHANGED litter
  /\ at' = "descriptor written"
  /\ UNCHANGED <<request, todo, board, types, type, left, fd, tree, elf, dirs, address, outcome,
                 placed, counts>>

EndDescriptor ==
  /\ at = "descriptor written"
  /\ IF file = Star THEN UNCHANGED shelf ELSE EndInsert(fd)
  /\ left' = left \ {file} /\ file' = NoFile
  /\ at' = "descriptor"
  /\ UNCHANGED <<request, todo, board, types, type, fd, tree, elf, dirs, litter, address,
                 outcome, placed, counts>>

RemoveGenerated ==
  /\ at = "descriptor" /\ left = {}
  /\ litter' = [litter EXCEPT ![board] = @ \ {Generated}]
  /\ at' = "gm45" /\ board' = NoBoard /\ fd' = "none"
  /\ UNCHANGED <<request, todo, types, type, left, file, tree, elf, dirs, shelf, address,
                 outcome, placed, counts>>

Gm45Done ==
  /\ at = "gm45" /\ todo = {}
  /\ at' = "clean up"
  /\ UNCHANGED <<request, memory, tree, elf, bin, address, outcome, placed, counts>>

CleanUp ==
  /\ at = "clean up"
  /\ elf' = IF request.payload = "grub" THEN 0 ELSE elf
  /\ outcome' = "ok" /\ at' = "idle" /\ Forget
  /\ UNCHANGED <<request, tree, bin, address, placed, counts>>

-----------------------------------------------------------------------------
\* A signal, or a command that fails: make, dd, mv on a full disk, ich9gen.
Stop ==
  /\ at # "idle" /\ stops < MaxStops
  /\ stops' = stops + 1
  /\ outcome' = "stopped" /\ at' = "idle" /\ Forget
  /\ UNCHANGED <<request, tree, elf, bin, address, placed, runs>>

\* The user writes gm45macaddress, or removes it.
WriteAddress ==
  /\ at = "idle"
  /\ address' \in AddressFiles \ {address}
  /\ UNCHANGED <<at, request, memory, tree, elf, bin, outcome, placed, counts>>

BoardStep ==
  \/ NextBoard \/ CheckoutCoreboot \/ CheckoutVboot \/ MakeRom \/ CopyRom \/ AddConfigs
  \/ RemoveConfigless \/ EmptyStage \/ MoveRom \/ AllMoved \/ DropFile \/ DropDirectory
  \/ PlaceImages \/ MasterCoreboot \/ MasterVboot \/ BoardsDone

FinishStep ==
  \/ EnterI945 \/ ExtractTop \/ DdFails \/ BeginBootBlock \/ EndBootBlock \/ RemoveTop
  \/ LeaveI945 \/ I945Done \/ EnterGm45 \/ Ich9gen \/ BeginDescriptor \/ EndDescriptor
  \/ RemoveGenerated \/ Gm45Done \/ CleanUp

ScriptStep == MakePayload \/ BoardStep \/ FinishStep

Next ==
  \/ \E R \in SUBSET GrubBoards : Start("grub", R)
  \/ \E R \in SUBSET SeabiosBoards : Start("seabios", R)
  \/ ScriptStep
  \/ Stop
  \/ WriteAddress

Spec == Init /\ [][Next]_vars

-----------------------------------------------------------------------------
(* Properties.                                                              *)

TypeOK ==
  /\ todo \subseteq Boards /\ board \in Boards \cup {NoBoard}
  /\ types \subseteq AllTypes /\ dirs \subseteq Boards /\ placed \subseteq request.boards
  /\ branch \in [{"grub", "seabios"} -> [{"coreboot", "vboot"} -> Boards \cup {"master"}]]
  /\ elf \in 0 .. MaxRuns /\ runs \in 0 .. MaxRuns /\ stops \in 0 .. MaxStops
  /\ \A f \in DOMAIN work : work[f] \in Content
  /\ \A n \in DOMAIN staged : staged[n] \in Content
  /\ \A b \in Boards : \A n \in DOMAIN shelf[b] : shelf[b][n] \in Content
  /\ \A b \in Boards : litter[b] \subseteq {Top64k, Generated, Star}
  /\ outcome \in {"none", "running", "ok", "stopped", "aborted"}

\* Every image under bin/ was built with the board's own branch checked out, in
\* coreboot and in vboot, and is one of its types and keymaps and has its GRUB
\* configuration: although all boards share one tree, in which a stopped run leaves
\* any branch, the two on different ones, and images without configuration.
ImagesAreOwn ==
  \A b \in Boards : \A n \in DOMAIN shelf[b] :
    /\ shelf[b][n].coreboot = b /\ shelf[b][n].vboot = b
    /\ n \in ImagesOf(b)
    /\ b \in GrubBoards => shelf[b][n].configured

\* A run that builds every i945 board fails only when something stops it:
\* whatever earlier runs left under bin/ is cleared before the globs see it.
FullRunNeverAborts ==
  outcome = "aborted" => ~ (BootBlockBoards \subseteq request.boards)

\* RomShelf, with what the scripts keep in trees and memory left out.
Shelf ==
  INSTANCE RomShelf WITH
    Families <- {GrubBoards, SeabiosBoards},
    Images <- [b \in Boards |-> ImagesOf(b)],
    Finishes <- [b \in Boards |->
                   IF b \in BootBlockBoards THEN {"boot block"}
                   ELSE IF b \in DescriptorBoards THEN {"default address", "own address"}
                   ELSE {}],
    shelf <- [b \in Boards |->
                [n \in DOMAIN shelf[b] |->
                   [run |-> shelf[b][n].run, inserted |-> shelf[b][n].inserted]]],
    outcome <- IF outcome \in {"stopped", "aborted"} THEN "failed" ELSE outcome,
    family <- IF runs = 0 THEN {}
              ELSE IF request.payload = "grub" THEN GrubBoards ELSE SeabiosBoards,
    asked <- request.boards

\* Images appear and change only as RomShelf allows, and a run that exits 0
\* has built what it was asked for and left no image of its payload
\* unfinished, those of boards it did not build included (withgrub:78-119).
ImplementsRomShelf == Shelf!Spec

\* When a run for GRUB comes to its end, every image of every GM45 board under
\* bin/ has the address that gm45macaddress gives at that moment, those of
\* boards the run did not build and of earlier files included (withgrub:100).
OneAddress ==
  at = "clean up" /\ request.payload = "grub" =>
    \A b \in DescriptorBoards : \A n \in DOMAIN shelf[b] :
      shelf[b][n].inserted = AddressUsed
===============================================================================
