----------------------------- MODULE BuildRomsProofs -----------------------------
(***************************************************************************)
(* withgrub and withseabios implement RomShelf, every image under bin/ is  *)
(* the board's own, a run for GRUB ends with one address in every image,   *)
(* and one that builds every i945 board does not abort: for any boards,    *)
(* keymaps and types, wherever runs are stopped.                           *)
(***************************************************************************)
EXTENDS ReleasedBuilds, TLAPS

AtTypes == {"types", "keymaps", "configure"}
AtStage == {"collect", "drop", "place"}
AtMaster == {"coreboot master", "vboot master"}
AtBoard == {"coreboot branch", "vboot branch"} \cup AtTypes \cup AtStage \cup AtMaster
AtBuild == {"payload", "boards"} \cup AtBoard
AtCopy == {"extract", "insert", "inserting", "remove top64k.bin"}
AtInsert == {"ich9gen", "descriptor", "descriptor written"}
AtFinish == {"i945"} \cup AtCopy \cup {"gm45"} \cup AtInsert

Payload(p) == IF p = "grub" THEN GrubBoards ELSE SeabiosBoards

\* An image of b as it is made; and one that the run has made for its board.
OwnImage(c, b) ==
  c \in Content /\ c.coreboot = b /\ c.vboot = b /\ (b \in GrubBoards => c.configured = TRUE)
Finished(c) == OwnImage(c, board) /\ c.run = runs /\ c.inserted = "nothing"

\* Names of files in the trees.
WorkNames ==
  {f \in Boards \X (Keymaps \cup {NoKeymap}) \X AllTypes :
     f[3] \in Types[f[1]] /\ (f[1] \in SeabiosBoards => f[2] = NoKeymap)}

Where ==
  /\ at \in {"idle", "clean up"} \cup AtBuild \cup AtFinish
  /\ board \in Boards \cup {NoBoard}
  /\ board # NoBoard <=> at \in AtBoard \cup AtCopy \cup AtInsert
  /\ outcome \in {"none", "running", "ok", "stopped", "aborted"}
  /\ outcome = "running" <=> at # "idle"
  /\ runs \in 0 .. MaxRuns /\ stops \in 0 .. MaxStops
  /\ at # "idle" => runs # 0

\* The loop over boards comes to each once; what is asked for is placed after it.
Loop ==
  /\ request.payload \in {"grub", "seabios"}
  /\ request.boards \subseteq Payload(request.payload)
  /\ todo \subseteq Boards /\ placed \subseteq request.boards
  /\ at \in AtBuild => /\ todo \subseteq request.boards \ placed
                       /\ request.boards \subseteq todo \cup placed \cup {board}
  /\ at \in AtBoard => board \in request.boards \ todo /\ (board \in placed <=> at \in AtMaster)
  /\ at \in AtFinish \cup {"clean up"} => request.boards \subseteq placed
  /\ at \in {"payload"} \cup AtFinish => request.payload = "grub"

\* Images are made on the board's own branches, with this run's GRUB.
Checkouts ==
  /\ branch \in [{"grub", "seabios"} -> [{"coreboot", "vboot"} -> Boards \cup {"master"}]]
  /\ at = "vboot branch" => branch[request.payload].coreboot = board
  /\ at \in AtTypes => /\ branch[request.payload].coreboot = board
                       /\ branch[request.payload].vboot = board
  /\ elf \in 0 .. MaxRuns
  /\ at \in {"boards"} \cup AtBoard /\ request.payload = "grub" => elf = runs

\* The files of type t are made, in this run.
Made(t) ==
  /\ \A n \in ImagesOf(board) :
       n[2] = t => /\ <<board, n[1], t>> \in DOMAIN work
                   /\ Finished(work[<<board, n[1], t>>])
  /\ board \in GrubBoards => <<board, NoKeymap, t>> \notin DOMAIN work

\* Those of the keymaps in K, and the image that they are copied from.
Copied(K) ==
  /\ <<board, NoKeymap, type>> \in DOMAIN work
  /\ work[<<board, NoKeymap, type>>] = Built(board, board, runs)
  /\ \A k \in K : /\ <<board, k, type>> \in DOMAIN work
                  /\ Finished(work[<<board, k, type>>])

Staged ==
  /\ DOMAIN staged \subseteq ImagesOf(board)
  /\ \A n \in DOMAIN staged : Finished(staged[n])

\* Whatever a stopped run left in the tree is made anew before it is collected.
Progress ==
  /\ types \subseteq AllTypes
  /\ DOMAIN work \subseteq WorkNames
  /\ at \in AtTypes => types \subseteq Types[board]
  /\ at = "types" => \A t \in Types[board] \ types : Made(t)
  /\ at \in {"keymaps", "configure"} =>
       /\ board \in GrubBoards /\ type \in Types[board] \ types /\ left \subseteq Keymaps
       /\ \A t \in Types[board] \ (types \cup {type}) : Made(t)
  /\ at = "keymaps" => Copied(Keymaps \ left)
  /\ at = "configure" =>
       \E k \in Keymaps \ left :
         /\ file = <<board, k, type>> /\ file \in DOMAIN work
         /\ work[file] = Built(board, board, runs)
         /\ Copied(Keymaps \ (left \cup {k}))
  /\ at = "collect" =>
       /\ Staged
       /\ \A n \in ImagesOf(board) \ DOMAIN staged : <<board, n[1], n[2]>> \in DOMAIN work
       /\ \A f \in DOMAIN work :
            f[1] = board => <<f[2], f[3]>> \in ImagesOf(board) /\ Finished(work[f])
  /\ at \in {"drop", "place"} => Staged /\ ImagesOf(board) \subseteq DOMAIN staged

Typed ==
  /\ \A f \in DOMAIN work : work[f] \in Content
  /\ \A n \in DOMAIN staged : staged[n] \in Content

\* What is under bin/, and that boards the run has placed have its images; after it
\* they may be deleted.
Shelved ==
  /\ dirs \subseteq Boards
  /\ DOMAIN shelf = Boards
  /\ \A b \in Boards :
       /\ DOMAIN shelf[b] \subseteq ImagesOf(b)
       /\ DOMAIN shelf[b] # {} => b \in dirs
       /\ \A n \in DOMAIN shelf[b] : OwnImage(shelf[b][n], b)
  /\ at # "idle" =>
       \A b \in placed :
         /\ DOMAIN shelf[b] = ImagesOf(b)
         /\ \A n \in DOMAIN shelf[b] : shelf[b][n].run = runs
  /\ at = "place" => DOMAIN shelf[board] = {} /\ board \notin dirs

\* A placed board has nothing but its images until its own round of finishing.
Litter ==
  /\ litter \in [Boards -> SUBSET {Top64k, Generated, Star}]
  /\ at = "place" => litter[board] = {}
  /\ at \in AtBuild => \A b \in placed : litter[b] = {}
  /\ at \in {"i945"} \cup AtCopy => \A b \in placed \cap todo : litter[b] = {}
  /\ at \in AtCopy /\ board \in placed => left \subseteq DOMAIN shelf[board]
  /\ outcome = "aborted" => ~ (BootBlockBoards \subseteq request.boards)

AllHave(B, v) == \A b \in B : \A n \in DOMAIN shelf[b] : shelf[b][n].inserted = v
Inserted(v) == \A n \in DOMAIN shelf[board] \ left : shelf[board][n].inserted = v

\* How far the boot block copies have come.
Copying ==
  /\ at \in {"i945"} \cup AtCopy => todo \subseteq BootBlockBoards
  /\ at = "i945" => AllHave(BootBlockBoards \ todo, "boot block")
  /\ at \in AtCopy =>
       /\ board \in BootBlockBoards \ todo
       /\ AllHave(BootBlockBoards \ (todo \cup {board}), "boot block")
       /\ Inserted("boot block")
  /\ at \in AtCopy \ {"extract"} => file \in left \cap DOMAIN shelf[board]
  /\ at = "inserting" => shelf[board][file].inserted \in {"torn", "boot block"}
  /\ at = "remove top64k.bin" => shelf[board][file].inserted = "boot block"
  /\ at \in {"gm45"} \cup AtInsert \/ (at = "clean up" /\ request.payload = "grub") =>
       AllHave(BootBlockBoards, "boot block")

\* How far the descriptors have come; nobody writes gm45macaddress during a run.
Describing ==
  /\ at \in {"gm45"} \cup AtInsert => todo \subseteq DescriptorBoards
  /\ at = "gm45" => AllHave(DescriptorBoards \ todo, AddressUsed)
  /\ at \in AtInsert =>
       /\ board \in DescriptorBoards \ todo
       /\ AllHave(DescriptorBoards \ (todo \cup {board}), AddressUsed)
  /\ at \in {"descriptor", "descriptor written"} =>
       /\ fd = AddressUsed
       /\ left \subseteq DOMAIN shelf[board] \cup {Star}
       /\ Inserted(fd)
  /\ at = "descriptor written" =>
       file \in left /\ (file # Star => shelf[board][file].inserted \in {"torn", fd})
  /\ at = "clean up" /\ request.payload = "grub" => AllHave(DescriptorBoards, AddressUsed)

\* The inductive invariant.
IInv ==
  Where /\ Loop /\ Checkouts /\ Progress /\ Typed /\ Shelved /\ Litter /\ Copying /\ Describing

USE DEF AtTypes, AtStage, AtMaster, AtBoard, AtBuild, AtCopy, AtInsert, AtFinish

-----------------------------------------------------------------------------
(* Functions on names.                                                      *)

LEMMA WithValue ==
  ASSUME NEW f, NEW x, NEW v
  PROVE  /\ DOMAIN With(f, x, v) = DOMAIN f \cup {x}
         /\ With(f, x, v)[x] = v
         /\ \A y \in DOMAIN f \ {x} : With(f, x, v)[y] = f[y]
BY DEF With

LEMMA WithoutValue ==
  ASSUME NEW f, NEW x
  PROVE  /\ DOMAIN Without(f, x) = DOMAIN f \ {x}
         /\ \A y \in DOMAIN f \ {x} : Without(f, x)[y] = f[y]
BY DEF Without

LEMMA Nothing == DOMAIN NoFiles = {}
BY DEF NoFiles

\* What the proofs use most of BoardsAssumption.
LEMMA Bounds == MaxRuns \in Nat /\ MaxStops \in Nat
BY BoardsAssumption

LEMMA CountsStay ==
  /\ 0 \in 0 .. MaxRuns /\ 0 \in 0 .. MaxStops
  /\ \A n \in 0 .. MaxStops : n < MaxStops => n + 1 \in 0 .. MaxStops
  /\ \A n \in 0 .. MaxRuns : n < MaxRuns => n + 1 \in 1 .. MaxRuns
BY Bounds

LEMMA BoardsDiffer ==
  /\ NoBoard \notin Boards
  /\ BootBlockBoards \subseteq GrubBoards /\ DescriptorBoards \subseteq GrubBoards
  /\ GrubBoards \subseteq Boards /\ SeabiosBoards \subseteq Boards
  /\ GrubBoards \cap SeabiosBoards = {} /\ BootBlockBoards \cap DescriptorBoards = {}
BY BoardsAssumption DEF Boards

\* A new image is its board's own, but for the configuration of GRUB.
LEMMA NewImage ==
  ASSUME NEW b \in Boards, NEW r \in 1 .. MaxRuns, NEW c, c = Built(b, b, r)
  PROVE  /\ c \in Content /\ c.coreboot = b /\ c.vboot = b /\ c.run = r /\ c.inserted = "nothing"
         /\ b \notin GrubBoards => OwnImage(c, b)
BY DEF Built, Content, OwnImage

Configured(c) == [c EXCEPT !.configured = TRUE]

LEMMA ConfiguredImage ==
  ASSUME NEW b \in Boards, NEW r \in 1 .. MaxRuns, NEW d, d = Configured(Built(b, b, r))
  PROVE  OwnImage(d, b) /\ d.run = r /\ d.inserted = "nothing"
<1>1. Built(b, b, r) \in Content
  BY NewImage
<1>2. d \in Content /\ d.configured = TRUE
  BY <1>1 DEF Content, Configured
<1>3. d.coreboot = b /\ d.vboot = b /\ d.run = r /\ d.inserted = "nothing"
  BY DEF Built, Configured
<1>. QED BY <1>2, <1>3 DEF OwnImage

\* While a script runs, a run was started.
LEMMA Running == Where /\ at # "idle" => runs \in 1 .. MaxRuns
<1>1. \A n \in 0 .. MaxRuns : n # 0 => n \in 1 .. MaxRuns
  BY Bounds
<1>. QED BY <1>1 DEF Where

LEMMA TypesOfBoard == \A b \in Boards : Types[b] \subseteq AllTypes /\ Types[b] # {}
BY BoardsAssumption

LEMMA InitInv == Init => IInv
<1>. SUFFICES ASSUME Init PROVE IInv
  OBVIOUS
<1>1. Where
  BY Bounds DEF Init, Where
<1>2. Loop
  BY DEF Init, Loop, Payload
<1>3. Checkouts
  BY Bounds DEF Init, Checkouts
<1>4. Progress /\ Typed
  BY Nothing DEF Init, Progress, Typed
<1>5. Shelved
  BY Nothing DEF Init, Shelved
<1>6. Litter
  BY DEF Init, Litter
<1>7. Copying /\ Describing
  BY DEF Init, Copying, Describing
<1>. QED BY <1>1, <1>2, <1>3, <1>4, <1>5, <1>6, <1>7 DEF IInv

-----------------------------------------------------------------------------
(* Each step keeps each part.                                               *)

USE DEF memory, bin, tree, counts, Forget

LEMMA WhereKept == IInv /\ [Next]_vars => Where'
<1>. SUFFICES ASSUME Where, Loop, [Next]_vars
              PROVE  Where'
  BY DEF IInv
<1>. USE DEF Where
<1>1. ASSUME NEW p \in {"grub", "seabios"}, NEW R, Start(p, R)
      PROVE  Where'
  BY <1>1, Bounds DEF Start
<1>2. CASE MakePayload \/ CheckoutCoreboot \/ CheckoutVboot
  BY <1>2 DEF MakePayload, CheckoutCoreboot, CheckoutVboot
<1>3. CASE NextBoard
  <2>1. board' \in Boards
    BY <1>3 DEF NextBoard, Loop
  <2>. QED BY <1>3, <2>1, BoardsDiffer DEF NextBoard
<1>4. CASE MakeRom \/ CopyRom \/ AddConfigs \/ RemoveConfigless
  BY <1>4 DEF MakeRom, CopyRom, AddConfigs, RemoveConfigless
<1>5. CASE EmptyStage \/ MoveRom \/ AllMoved \/ DropFile \/ DropDirectory
  BY <1>5 DEF EmptyStage, MoveRom, AllMoved, DropFile, DropDirectory
<1>6. CASE PlaceImages \/ MasterCoreboot \/ MasterVboot \/ BoardsDone
  BY <1>6 DEF PlaceImages, MasterCoreboot, MasterVboot, BoardsDone
<1>7. CASE EnterI945 \/ EnterGm45
  BY <1>7, BoardsDiffer DEF EnterI945, EnterGm45, Loop, Boards
<1>8. CASE ExtractTop \/ BeginBootBlock \/ EndBootBlock \/ RemoveTop \/ LeaveI945 \/ I945Done
  BY <1>8 DEF ExtractTop, BeginBootBlock, EndBootBlock, RemoveTop, LeaveI945, I945Done
<1>9. CASE Ich9gen \/ BeginDescriptor \/ EndDescriptor \/ RemoveGenerated \/ Gm45Done
  BY <1>9 DEF Ich9gen, BeginDescriptor, EndDescriptor, RemoveGenerated, Gm45Done
<1>10. CASE DdFails \/ CleanUp \/ WriteAddress
  BY <1>10 DEF DdFails, CleanUp, WriteAddress
<1>11. CASE Stop
  <2>1. stops \in 0 .. MaxStops /\ stops < MaxStops /\ stops' = stops + 1
    BY <1>11 DEF Stop
  <2>2. stops' \in 0 .. MaxStops
    BY <2>1, CountsStay
  <2>. QED BY <1>11, <2>2 DEF Stop
<1>12. CASE UNCHANGED vars
  BY <1>12 DEF vars
<1>. QED
  BY <1>1, <1>2, <1>3, <1>4, <1>5, <1>6, <1>7, <1>8, <1>9, <1>10, <1>11, <1>12
  DEF Next, ScriptStep, BoardStep, FinishStep

LEMMA LoopKept == IInv /\ [Next]_vars => Loop'
<1>. SUFFICES ASSUME Where, Loop, [Next]_vars
              PROVE  Loop'
  BY DEF IInv
<1>. USE DEF Where, Loop
<1>1. ASSUME NEW p \in {"grub", "seabios"}, NEW R \in SUBSET Payload(p), Start(p, R)
      PROVE  Loop'
  BY <1>1 DEF Start, Payload, Boards
<1>2. CASE MakePayload \/ CheckoutCoreboot \/ CheckoutVboot
  BY <1>2 DEF MakePayload, CheckoutCoreboot, CheckoutVboot
<1>3. CASE NextBoard
  <2>1. /\ at = "boards" /\ board = NoBoard /\ NoBoard \notin request.boards
        /\ UNCHANGED <<request, placed>> /\ at' = "coreboot branch"
    BY <1>3, BoardsDiffer DEF NextBoard, Payload
  <2>2. PICK b \in todo : board' = b /\ todo' = todo \ {b}
    BY <1>3 DEF NextBoard
  <2>. QED BY <2>1, <2>2
<1>4. CASE MakeRom \/ CopyRom \/ AddConfigs \/ RemoveConfigless
  BY <1>4 DEF MakeRom, CopyRom, AddConfigs, RemoveConfigless
<1>5. CASE EmptyStage \/ MoveRom \/ AllMoved \/ DropFile \/ DropDirectory
  BY <1>5 DEF EmptyStage, MoveRom, AllMoved, DropFile, DropDirectory
<1>6. CASE PlaceImages
  BY <1>6 DEF PlaceImages
<1>13. CASE MasterCoreboot
  BY <1>13 DEF MasterCoreboot
<1>14. CASE MasterVboot
  <2>1. /\ at = "vboot master" /\ board \in placed
        /\ UNCHANGED <<request, placed, todo>> /\ at' = "boards" /\ board' = NoBoard
    BY <1>14 DEF MasterVboot
  <2>. QED BY <2>1
<1>7. CASE BoardsDone
  <2>1. request.boards \subseteq placed
    <3>1. at = "boards" /\ todo = {} /\ board = NoBoard /\ NoBoard \notin request.boards
      BY <1>7, BoardsDiffer DEF BoardsDone, Payload
    <3>. QED BY <3>1
  <2>2. CASE request.payload = "grub"
    BY <1>7, <2>1, <2>2, BoardsDiffer DEF BoardsDone
  <2>3. CASE request.payload # "grub"
    BY <1>7, <2>1, <2>3 DEF BoardsDone
  <2>. QED BY <2>2, <2>3
<1>8. CASE EnterI945 \/ EnterGm45 \/ I945Done
  BY <1>8, BoardsDiffer DEF EnterI945, EnterGm45, I945Done, Boards
<1>9. CASE ExtractTop \/ BeginBootBlock \/ EndBootBlock \/ RemoveTop \/ LeaveI945
  BY <1>9 DEF ExtractTop, BeginBootBlock, EndBootBlock, RemoveTop, LeaveI945
<1>10. CASE Ich9gen \/ BeginDescriptor \/ EndDescriptor \/ RemoveGenerated \/ Gm45Done
  BY <1>10 DEF Ich9gen, BeginDescriptor, EndDescriptor, RemoveGenerated, Gm45Done
<1>11. CASE DdFails \/ CleanUp \/ Stop \/ WriteAddress
  BY <1>11 DEF DdFails, CleanUp, Stop, WriteAddress
<1>12. CASE UNCHANGED vars
  BY <1>12 DEF vars
<1>. QED
  BY <1>1, <1>2, <1>3, <1>4, <1>5, <1>6, <1>7, <1>8, <1>9, <1>10, <1>11, <1>12, <1>13, <1>14
  DEF Next, ScriptStep, BoardStep, FinishStep, Payload

LEMMA CheckoutsKept == IInv /\ [Next]_vars => Checkouts'
<1>. SUFFICES ASSUME Where, Loop, Checkouts, [Next]_vars
              PROVE  Checkouts'
  BY DEF IInv
<1>. USE DEF Where, Loop, Checkouts
<1>1. ASSUME NEW p \in {"grub", "seabios"}, NEW R, Start(p, R)
      PROVE  Checkouts'
  BY <1>1, Bounds DEF Start
<1>2. CASE MakePayload \/ NextBoard
  BY <1>2, BoardsDiffer DEF MakePayload, NextBoard
<1>3. CASE CheckoutCoreboot
  <2>1. /\ at = "coreboot branch" /\ at' = "vboot branch"
        /\ branch' = [branch EXCEPT ![request.payload].coreboot = board]
        /\ UNCHANGED <<request, board, elf, runs>>
    BY <1>3 DEF CheckoutCoreboot
  <2>2. branch'[request.payload].coreboot = board
    <3>1. /\ branch'[request.payload] = [branch[request.payload] EXCEPT !.coreboot = board]
          /\ branch[request.payload] \in [{"coreboot", "vboot"} -> Boards \cup {"master"}]
      BY <2>1
    <3>. QED BY <3>1
  <2>3. branch' \in [{"grub", "seabios"} -> [{"coreboot", "vboot"} -> Boards \cup {"master"}]]
    BY <2>1
  <2>. QED BY <2>1, <2>2, <2>3
<1>12. CASE CheckoutVboot
  <2>1. /\ at = "vboot branch" /\ branch' = [branch EXCEPT ![request.payload].vboot = board]
        /\ at' = "types" /\ UNCHANGED <<request, board, elf, runs>>
    BY <1>12 DEF CheckoutVboot
  <2>2. /\ branch'[request.payload].coreboot = board
        /\ branch'[request.payload].vboot = board
    <3>1. /\ branch'[request.payload] = [branch[request.payload] EXCEPT !.vboot = board]
          /\ branch[request.payload] \in [{"coreboot", "vboot"} -> Boards \cup {"master"}]
          /\ branch[request.payload].coreboot = board
      BY <2>1
    <3>. QED BY <3>1
  <2>3. branch' \in [{"grub", "seabios"} -> [{"coreboot", "vboot"} -> Boards \cup {"master"}]]
    BY <2>1
  <2>. QED BY <2>1, <2>2, <2>3
<1>4. CASE MakeRom \/ CopyRom \/ AddConfigs \/ RemoveConfigless
  BY <1>4 DEF MakeRom, CopyRom, AddConfigs, RemoveConfigless
<1>5. CASE EmptyStage \/ MoveRom \/ AllMoved \/ DropFile \/ DropDirectory \/ PlaceImages
  BY <1>5 DEF EmptyStage, MoveRom, AllMoved, DropFile, DropDirectory, PlaceImages
<1>6. CASE MasterCoreboot
  BY <1>6 DEF MasterCoreboot
<1>13. CASE MasterVboot
  BY <1>13 DEF MasterVboot
<1>7. CASE BoardsDone \/ EnterI945 \/ EnterGm45 \/ I945Done
  BY <1>7 DEF BoardsDone, EnterI945, EnterGm45, I945Done
<1>8. CASE ExtractTop \/ BeginBootBlock \/ EndBootBlock \/ RemoveTop \/ LeaveI945
  BY <1>8 DEF ExtractTop, BeginBootBlock, EndBootBlock, RemoveTop, LeaveI945
<1>9. CASE Ich9gen \/ BeginDescriptor \/ EndDescriptor \/ RemoveGenerated \/ Gm45Done
  BY <1>9 DEF Ich9gen, BeginDescriptor, EndDescriptor, RemoveGenerated, Gm45Done
<1>10. CASE DdFails \/ CleanUp \/ Stop \/ WriteAddress
  <2>1. elf' \in 0 .. MaxRuns
    BY <1>10, CountsStay DEF DdFails, CleanUp, Stop, WriteAddress
  <2>. QED BY <1>10, <2>1 DEF DdFails, CleanUp, Stop, WriteAddress
<1>11. CASE UNCHANGED vars
  BY <1>11, Bounds DEF vars
<1>. QED
  BY <1>1, <1>2, <1>3, <1>4, <1>5, <1>6, <1>7, <1>8, <1>9, <1>10, <1>11, <1>12, <1>13
  DEF Next, ScriptStep, BoardStep, FinishStep

\* Outside the loop over types and what follows it, Progress says little.
LEMMA ProgressElsewhere ==
  ASSUME Progress, at' \notin AtTypes \cup AtStage, types' \subseteq types, work' = work
  PROVE  Progress'
BY DEF Progress

LEMMA MakeRomProgress == IInv /\ MakeRom => Progress'
<1>. SUFFICES ASSUME IInv, MakeRom
              PROVE  Progress'
  OBVIOUS
<1>1. PICK t \in types :
        /\ type' = t /\ types' = types \ {t}
        /\ work' = With(work, <<board, NoKeymap, t>>,
                        Built(branch[request.payload].coreboot, branch[request.payload].vboot,
                              IF board \in GrubBoards THEN elf ELSE runs))
  BY DEF MakeRom
<1>2. /\ at = "types" /\ board \in Boards /\ UNCHANGED <<board, runs>>
      /\ board \in GrubBoards <=> board \notin SeabiosBoards
      /\ IF board \in GrubBoards THEN at' = "keymaps" /\ left' = Keymaps
                                 ELSE at' = "types" /\ left' = {}
  BY BoardsDiffer DEF IInv, Where, MakeRom, Boards
<1>3. /\ branch[request.payload].coreboot = board /\ branch[request.payload].vboot = board
      /\ board \in GrubBoards => elf = runs
  BY <1>2, BoardsDiffer DEF IInv, Checkouts, Loop, Payload
<1>. DEFINE x == <<board, NoKeymap, t>>
<1>4. /\ DOMAIN work' = DOMAIN work \cup {x} /\ work'[x] = Built(board, board, runs)
      /\ \A y \in DOMAIN work \ {x} : work'[y] = work[y]
  <2>1. work' = With(work, x, Built(board, board, runs))
    BY <1>1, <1>3
  <2>. QED BY <2>1 DEF With
<1>5. types \subseteq Types[board] /\ types \subseteq AllTypes /\ DOMAIN work \subseteq WorkNames
  BY <1>2 DEF IInv, Progress
<1>6. x \in WorkNames
  BY <1>2, <1>5 DEF WorkNames
<1>7. ASSUME NEW u \in Types[board] \ types
      PROVE  Made(u)'
  <2>1. u # t /\ Made(u)
    BY <1>2, <1>7 DEF IInv, Progress
  <2>2. \A k : <<board, k, u>> # x
    BY <2>1
  <2>. QED BY <1>2, <1>4, <2>1, <2>2 DEF Made, ImagesOf, Finished
<1>8. CASE board \in GrubBoards
  <2>1. Copied({})'
    BY <1>1, <1>2, <1>4 DEF Copied
  <2>. QED BY <1>1, <1>2, <1>4, <1>5, <1>6, <1>7, <1>8, <2>1 DEF Progress
<1>9. CASE board \notin GrubBoards
  <2>1. Made(t)'
    <3>1. runs \in 1 .. MaxRuns
      BY <1>2, Running DEF IInv
    <3>2. Finished(work'[x])
      <4>1. work'[x] = Built(board, board, runs) /\ board \in Boards /\ board \notin GrubBoards
        BY <1>2, <1>4, <1>9
      <4>. QED BY <3>1, <4>1, NewImage DEF Finished
    <3>. QED BY <1>2, <1>4, <1>9, <3>2 DEF Made, ImagesOf, Finished
  <2>. QED BY <1>1, <1>2, <1>4, <1>5, <1>6, <1>7, <1>9, <2>1 DEF Progress
<1>. QED BY <1>8, <1>9

LEMMA CopyRomProgress == IInv /\ CopyRom => Progress'
<1>. SUFFICES ASSUME IInv, CopyRom
              PROVE  Progress'
  OBVIOUS
<1>1. PICK k \in left :
        /\ file' = <<board, k, type>> /\ left' = left \ {k}
        /\ work' = With(work, <<board, k, type>>, work[<<board, NoKeymap, type>>])
  BY DEF CopyRom
<1>2. /\ at = "keymaps" /\ at' = "configure" /\ UNCHANGED <<board, runs, types, type>>
      /\ board \in Boards
  BY DEF IInv, Where, CopyRom
<1>3. /\ board \in GrubBoards /\ type \in Types[board] \ types /\ left \subseteq Keymaps
      /\ \A t \in Types[board] \ (types \cup {type}) : Made(t)
      /\ Copied(Keymaps \ left)
      /\ types \subseteq Types[board] /\ types \subseteq AllTypes /\ DOMAIN work \subseteq WorkNames
  BY <1>2 DEF IInv, Progress
<1>. DEFINE x == <<board, k, type>>
<1>4. /\ DOMAIN work' = DOMAIN work \cup {x} /\ work'[x] = Built(board, board, runs)
      /\ \A y \in DOMAIN work \ {x} : work'[y] = work[y]
  <2>1. work' = With(work, x, Built(board, board, runs))
    BY <1>1, <1>3 DEF Copied
  <2>. QED BY <2>1 DEF With
<1>5. k # NoKeymap /\ k \in Keymaps
  BY <1>3, BoardsAssumption
<1>6. x \in WorkNames
  BY <1>2, <1>3, <1>5, BoardsDiffer, TypesOfBoard DEF WorkNames
<1>7. ASSUME NEW t \in Types[board] \ (types \cup {type})
      PROVE  Made(t)'
  <2>1. \A l : <<board, l, t>> # x
    BY <1>7
  <2>. QED BY <1>2, <1>3, <1>4, <1>7, <2>1 DEF Made, ImagesOf, Finished
<1>8. Copied(Keymaps \ (left \cup {k}))'
  <2>1. left' \cup {k} = left
    BY <1>1
  <2>2. <<board, NoKeymap, type>> # x /\ \A l \in Keymaps \ left : <<board, l, type>> # x
    BY <1>5
  <2>. QED BY <1>2, <1>3, <1>4, <2>1, <2>2 DEF Copied, Finished
<1>9. \E l \in Keymaps \ left' :
        /\ file' = <<board', l, type'>> /\ file' \in DOMAIN work'
        /\ work'[file'] = Built(board', board', runs')
        /\ Copied(Keymaps \ (left \cup {l}))'
  BY <1>1, <1>2, <1>4, <1>5, <1>8
<1>. QED BY <1>1, <1>2, <1>3, <1>4, <1>6, <1>7, <1>9 DEF Progress

LEMMA AddConfigsProgress == IInv /\ AddConfigs => Progress'
<1>. SUFFICES ASSUME IInv, AddConfigs
              PROVE  Progress'
  OBVIOUS
<1>1. /\ at = "configure" /\ at' = "keymaps" /\ UNCHANGED <<board, runs, types, type, left>>
      /\ work' = [work EXCEPT ![file].configured = TRUE]
  BY DEF AddConfigs
<1>2. /\ board \in GrubBoards /\ type \in Types[board] \ types /\ left \subseteq Keymaps
      /\ \A t \in Types[board] \ (types \cup {type}) : Made(t)
      /\ types \subseteq Types[board] /\ types \subseteq AllTypes /\ DOMAIN work \subseteq WorkNames
  BY <1>1 DEF IInv, Progress
<1>3. PICK k \in Keymaps \ left :
        /\ file = <<board, k, type>> /\ file \in DOMAIN work
        /\ work[file] = Built(board, board, runs)
        /\ Copied(Keymaps \ (left \cup {k}))
  BY <1>1 DEF IInv, Progress
<1>4. /\ DOMAIN work' = DOMAIN work /\ Finished(work'[file])
      /\ \A y \in DOMAIN work \ {file} : work'[y] = work[y]
  <2>1. work'[file] = [work[file] EXCEPT !.configured = TRUE]
    BY <1>1, <1>3
  <2>2. runs \in 1 .. MaxRuns /\ board \in Boards
    BY <1>1, Running DEF IInv, Where
  <2>3. Finished(work'[file])
    <3>1. work'[file] = Configured(Built(board, board, runs))
      BY <1>3, <2>1 DEF Configured
    <3>. QED BY <2>2, <3>1, ConfiguredImage DEF Finished
  <2>. QED BY <1>1, <1>3, <2>3
<1>5. k # NoKeymap
  BY <1>3, BoardsAssumption
<1>6. ASSUME NEW t \in Types[board] \ (types \cup {type})
      PROVE  Made(t)'
  <2>1. \A l : <<board, l, t>> # file
    BY <1>3, <1>6
  <2>. QED BY <1>1, <1>2, <1>4, <1>6, <2>1 DEF Made, ImagesOf, Finished
<1>7. Copied(Keymaps \ left)'
  <2>1. <<board, NoKeymap, type>> # file
    BY <1>3, <1>5
  <2>2. ASSUME NEW l \in Keymaps \ left
        PROVE  /\ <<board, l, type>> \in DOMAIN work'
               /\ Finished(work'[<<board, l, type>>])
    <3>1. CASE l = k
      BY <1>3, <1>4, <3>1
    <3>2. CASE l # k
      <4>1. <<board, l, type>> # file
        BY <1>3, <3>2
      <4>. QED BY <1>3, <1>4, <2>2, <3>2, <4>1 DEF Copied
    <3>. QED BY <3>1, <3>2
  <2>. QED BY <1>1, <1>3, <1>4, <2>1, <2>2 DEF Copied, Finished
<1>. QED BY <1>1, <1>2, <1>4, <1>6, <1>7 DEF Progress

LEMMA RemoveConfiglessProgress == IInv /\ RemoveConfigless => Progress'
<1>. SUFFICES ASSUME IInv, RemoveConfigless
              PROVE  Progress'
  OBVIOUS
<1>1. /\ at = "keymaps" /\ left = {} /\ at' = "types"
      /\ UNCHANGED <<board, runs, types, type>>
      /\ work' = Without(work, <<board, NoKeymap, type>>)
  BY DEF RemoveConfigless
<1>2. /\ board \in GrubBoards /\ type \in Types[board] \ types /\ Copied(Keymaps)
      /\ \A t \in Types[board] \ (types \cup {type}) : Made(t)
      /\ types \subseteq Types[board] /\ types \subseteq AllTypes /\ DOMAIN work \subseteq WorkNames
  BY <1>1 DEF IInv, Progress
<1>. DEFINE x == <<board, NoKeymap, type>>
<1>3. /\ DOMAIN work' = DOMAIN work \ {x}
      /\ \A y \in DOMAIN work \ {x} : work'[y] = work[y]
  BY <1>1, WithoutValue
<1>4. NoKeymap \notin Keymaps
  BY BoardsAssumption
<1>5. \A n \in ImagesOf(board) : n = <<n[1], n[2]>> /\ n[1] \in Keymaps
  BY <1>2 DEF ImagesOf
<1>6. ASSUME NEW t \in Types[board] \ types
      PROVE  Made(t)'
  <2>1. CASE t = type
    BY <1>1, <1>2, <1>3, <1>4, <1>5, <2>1 DEF Made, Copied, Finished, ImagesOf
  <2>2. CASE t # type
    BY <1>1, <1>2, <1>3, <2>2 DEF Made, Finished, ImagesOf
  <2>. QED BY <2>1, <2>2
<1>. QED BY <1>1, <1>2, <1>3, <1>6 DEF Progress

LEMMA EmptyStageProgress == IInv /\ EmptyStage => Progress'
<1>. SUFFICES ASSUME IInv, EmptyStage
              PROVE  Progress'
  OBVIOUS
<1>1. /\ at = "types" /\ types = {} /\ at' = "collect" /\ staged' = NoFiles
      /\ UNCHANGED <<board, runs, types, work>>
  BY DEF EmptyStage
<1>2. DOMAIN work \subseteq WorkNames /\ \A t \in Types[board] : Made(t)
  BY <1>1 DEF IInv, Progress
<1>3. board \in Boards /\ (board \in GrubBoards <=> board \notin SeabiosBoards)
  BY <1>1, BoardsDiffer DEF IInv, Where, Boards
<1>4. ASSUME NEW n \in ImagesOf(board)
      PROVE  <<board, n[1], n[2]>> \in DOMAIN work
  BY <1>2 DEF Made, ImagesOf
<1>5. ASSUME NEW f \in DOMAIN work, f[1] = board
      PROVE  <<f[2], f[3]>> \in ImagesOf(board) /\ Finished(work[f])
  <2>1. f = <<board, f[2], f[3]>> /\ f[3] \in Types[board] /\ f[2] \in Keymaps \cup {NoKeymap}
    BY <1>2, <1>5 DEF WorkNames
  <2>2. Made(f[3])
    BY <1>2, <2>1
  <2>3. <<f[2], f[3]>> \in ImagesOf(board)
    BY <1>2, <1>3, <1>5, <2>1, <2>2 DEF Made, ImagesOf, WorkNames
  <2>. QED BY <2>1, <2>2, <2>3 DEF Made
<1>6. Staged'
  BY <1>1, Nothing DEF Staged
<1>. QED BY <1>1, <1>2, <1>4, <1>5, <1>6, Nothing DEF Progress, Finished, OwnImage, ImagesOf

LEMMA MoveRomProgress == IInv /\ MoveRom => Progress'
<1>. SUFFICES ASSUME IInv, MoveRom
              PROVE  Progress'
  OBVIOUS
<1>1. PICK f \in DOMAIN work :
        /\ f[1] = board
        /\ staged' = With(staged, <<f[2], f[3]>>, work[f])
        /\ work' = Without(work, f)
  BY DEF MoveRom
<1>2. at = "collect" /\ UNCHANGED <<at, board, runs, types>>
  BY DEF MoveRom
<1>3. /\ Staged /\ DOMAIN work \subseteq WorkNames /\ types \subseteq AllTypes
      /\ \A n \in ImagesOf(board) \ DOMAIN staged : <<board, n[1], n[2]>> \in DOMAIN work
      /\ \A g \in DOMAIN work :
           g[1] = board => <<g[2], g[3]>> \in ImagesOf(board) /\ Finished(work[g])
  BY <1>2 DEF IInv, Progress
<1>. DEFINE x == <<f[2], f[3]>>
<1>4. /\ DOMAIN staged' = DOMAIN staged \cup {x} /\ Finished(staged'[x])
      /\ \A y \in DOMAIN staged \ {x} : staged'[y] = staged[y]
  BY <1>1, <1>3 DEF With
<1>5. /\ DOMAIN work' = DOMAIN work \ {f}
      /\ \A y \in DOMAIN work \ {f} : work'[y] = work[y]
  BY <1>1, WithoutValue
<1>6. Staged'
  BY <1>1, <1>2, <1>3, <1>4 DEF Staged, Finished, ImagesOf
<1>7. ASSUME NEW n \in ImagesOf(board) \ DOMAIN staged'
      PROVE  <<board, n[1], n[2]>> \in DOMAIN work'
  <2>1. n # x /\ n = <<n[1], n[2]>>
    BY <1>4, <1>7 DEF ImagesOf
  <2>2. <<board, n[1], n[2]>> # f
    BY <2>1
  <2>. QED BY <1>3, <1>4, <1>5, <1>7, <2>2
<1>. QED BY <1>2, <1>3, <1>5, <1>6, <1>7 DEF Progress, Finished, OwnImage, ImagesOf

LEMMA ProgressKept == IInv /\ [Next]_vars => Progress'
<1>. SUFFICES ASSUME IInv, [Next]_vars
              PROVE  Progress'
  OBVIOUS
<1>1. ASSUME NEW p \in {"grub", "seabios"}, NEW R, Start(p, R)
      PROVE  Progress'
  BY <1>1, ProgressElsewhere DEF IInv, Start
<1>2. CASE MakePayload \/ NextBoard \/ CheckoutCoreboot
  BY <1>2, ProgressElsewhere DEF IInv, MakePayload, NextBoard, CheckoutCoreboot
<1>3. CASE CheckoutVboot
  BY <1>3, TypesOfBoard DEF IInv, Where, Progress, CheckoutVboot
<1>4. CASE MakeRom \/ CopyRom \/ AddConfigs \/ RemoveConfigless \/ EmptyStage \/ MoveRom
  BY <1>4, MakeRomProgress, CopyRomProgress, AddConfigsProgress, RemoveConfiglessProgress,
     EmptyStageProgress, MoveRomProgress
<1>5. CASE AllMoved
  <2>1. /\ at = "collect" /\ at' = "drop" /\ \A f \in DOMAIN work : f[1] # board
        /\ UNCHANGED <<board, runs, types, work, staged>>
    BY <1>5 DEF AllMoved
  <2>2. Staged /\ ImagesOf(board) \subseteq DOMAIN staged
    <3>1. \A n \in ImagesOf(board) : <<board, n[1], n[2]>>[1] = board
      OBVIOUS
    <3>2. /\ Staged
          /\ \A n \in ImagesOf(board) \ DOMAIN staged : <<board, n[1], n[2]>> \in DOMAIN work
      BY <2>1 DEF IInv, Progress
    <3>. QED BY <2>1, <3>1, <3>2
  <2>. QED BY <2>1, <2>2 DEF IInv, Progress, Staged, Finished, ImagesOf
<1>6. CASE DropFile \/ DropDirectory
  BY <1>6 DEF IInv, Progress, DropFile, DropDirectory, Staged, Finished, ImagesOf
<1>7. CASE PlaceImages \/ MasterCoreboot \/ MasterVboot \/ BoardsDone
  BY <1>7, ProgressElsewhere DEF IInv, PlaceImages, MasterCoreboot, MasterVboot, BoardsDone
<1>8. CASE EnterI945 \/ EnterGm45 \/ I945Done
  BY <1>8, ProgressElsewhere DEF IInv, EnterI945, EnterGm45, I945Done
<1>9. CASE ExtractTop \/ BeginBootBlock \/ EndBootBlock \/ RemoveTop \/ LeaveI945
  BY <1>9, ProgressElsewhere
  DEF IInv, ExtractTop, BeginBootBlock, EndBootBlock, RemoveTop, LeaveI945
<1>10. CASE Ich9gen \/ BeginDescriptor \/ EndDescriptor \/ RemoveGenerated \/ Gm45Done
  BY <1>10, ProgressElsewhere
  DEF IInv, Ich9gen, BeginDescriptor, EndDescriptor, RemoveGenerated, Gm45Done
<1>11. CASE DdFails \/ CleanUp \/ Stop \/ WriteAddress
  BY <1>11, ProgressElsewhere DEF IInv, Where, DdFails, CleanUp, Stop, WriteAddress
<1>12. CASE UNCHANGED vars
  BY <1>12 DEF vars, IInv, Progress, Made, Copied, Staged, Finished, ImagesOf
<1>. QED
  BY <1>1, <1>2, <1>3, <1>4, <1>5, <1>6, <1>7, <1>8, <1>9, <1>10, <1>11, <1>12
  DEF Next, ScriptStep, BoardStep, FinishStep

LEMMA TypedKept == IInv /\ [Next]_vars => Typed'
<1>. SUFFICES ASSUME IInv, [Next]_vars
              PROVE  Typed'
  OBVIOUS
<1>0. Typed
  BY DEF IInv
<1>1. ASSUME NEW p \in {"grub", "seabios"}, NEW R, Start(p, R)
      PROVE  Typed'
  BY <1>0, <1>1 DEF Start, Typed
<1>2. CASE MakePayload \/ NextBoard \/ CheckoutCoreboot \/ CheckoutVboot
  BY <1>0, <1>2 DEF MakePayload, NextBoard, CheckoutCoreboot, CheckoutVboot, Typed
<1>3. CASE MakeRom
  <2>1. PICK t \in types :
          work' = With(work, <<board, NoKeymap, t>>,
                       Built(branch[request.payload].coreboot, branch[request.payload].vboot,
                             IF board \in GrubBoards THEN elf ELSE runs))
    BY <1>3 DEF MakeRom
  <2>2. /\ branch[request.payload].coreboot = board /\ branch[request.payload].vboot = board
        /\ board \in Boards /\ runs \in 1 .. MaxRuns /\ staged' = staged
        /\ board \in GrubBoards => elf = runs
    BY <1>3, Running, BoardsDiffer DEF IInv, Where, Loop, Checkouts, Payload, MakeRom
  <2>3. work' = With(work, <<board, NoKeymap, t>>, Built(board, board, runs))
    BY <2>1, <2>2
  <2>4. Built(board, board, runs) \in Content
    BY <2>2, NewImage
  <2>. QED BY <1>0, <2>2, <2>3, <2>4 DEF Typed, With
<1>4. CASE CopyRom
  <2>1. PICK k \in left :
          work' = With(work, <<board, k, type>>, work[<<board, NoKeymap, type>>])
    BY <1>4 DEF CopyRom
  <2>2. <<board, NoKeymap, type>> \in DOMAIN work /\ staged' = staged
    BY <1>4 DEF IInv, Progress, Copied, CopyRom
  <2>. QED BY <1>0, <2>1, <2>2 DEF Typed, With
<1>5. CASE AddConfigs
  <2>1. work' = [work EXCEPT ![file].configured = TRUE] /\ staged' = staged
    BY <1>5 DEF AddConfigs
  <2>2. ASSUME NEW f \in DOMAIN work'
        PROVE  work'[f] \in Content
    <3>1. CASE f = file
      <4>1. work'[f] = [work[f] EXCEPT !.configured = TRUE] /\ work[f] \in Content
        BY <1>0, <2>1, <2>2, <3>1 DEF Typed
      <4>. QED BY <4>1 DEF Content
    <3>2. CASE f # file
      BY <1>0, <2>1, <2>2, <3>2 DEF Typed
    <3>. QED BY <3>1, <3>2
  <2>. QED BY <1>0, <2>1, <2>2 DEF Typed
<1>6. CASE RemoveConfigless \/ EmptyStage
  BY <1>0, <1>6, Nothing DEF RemoveConfigless, EmptyStage, Typed, Without
<1>7. CASE MoveRom
  <2>1. PICK f \in DOMAIN work : /\ staged' = With(staged, <<f[2], f[3]>>, work[f])
                                 /\ work' = Without(work, f)
    BY <1>7 DEF MoveRom
  <2>. QED BY <1>0, <2>1 DEF Typed, With, Without
<1>8. CASE AllMoved \/ DropFile \/ DropDirectory \/ PlaceImages
  BY <1>0, <1>8, Nothing DEF AllMoved, DropFile, DropDirectory, PlaceImages, Typed
<1>9. CASE MasterCoreboot \/ MasterVboot \/ BoardsDone \/ EnterI945 \/ EnterGm45 \/ I945Done
  BY <1>0, <1>9 DEF MasterCoreboot, MasterVboot, BoardsDone, EnterI945, EnterGm45, I945Done, Typed
<1>10. CASE ExtractTop \/ BeginBootBlock \/ EndBootBlock \/ RemoveTop \/ LeaveI945
  BY <1>0, <1>10 DEF ExtractTop, BeginBootBlock, EndBootBlock, RemoveTop, LeaveI945, Typed
<1>11. CASE Ich9gen \/ BeginDescriptor \/ EndDescriptor \/ RemoveGenerated \/ Gm45Done
  BY <1>0, <1>11 DEF Ich9gen, BeginDescriptor, EndDescriptor, RemoveGenerated, Gm45Done, Typed
<1>12. CASE DdFails \/ CleanUp \/ Stop \/ WriteAddress
  BY <1>0, <1>12 DEF DdFails, CleanUp, Stop, WriteAddress, Typed
<1>13. CASE UNCHANGED vars
  BY <1>0, <1>13 DEF vars, Typed
<1>. QED
  BY <1>1, <1>2, <1>3, <1>4, <1>5, <1>6, <1>7, <1>8, <1>9, <1>10, <1>11, <1>12, <1>13
  DEF Next, ScriptStep, BoardStep, FinishStep

-----------------------------------------------------------------------------
(* Insertions in place.                                                     *)

Insertions == {"nothing", "torn", "boot block", "default address", "own address"}
InsertedInto(c, v) == [c EXCEPT !.inserted = v]
Inserting(b, n, v) == shelf' = [shelf EXCEPT ![b][n].inserted = v]

LEMMA InsertedImage ==
  ASSUME NEW b, NEW c, OwnImage(c, b), NEW v \in Insertions
  PROVE  /\ OwnImage(InsertedInto(c, v), b)
         /\ InsertedInto(c, v).inserted = v /\ InsertedInto(c, v).run = c.run
<1>1. InsertedInto(c, v) \in Content
  BY DEF OwnImage, InsertedInto, Content, Insertions
<1>. QED BY <1>1 DEF OwnImage, InsertedInto, Content

\* One image changes, and stays its board's.
LEMMA InsertingChanges ==
  ASSUME Shelved, NEW b \in Boards, NEW n \in DOMAIN shelf[b], NEW v \in Insertions,
         Inserting(b, n, v)
  PROVE  /\ DOMAIN shelf' = Boards
         /\ \A d \in Boards : DOMAIN shelf'[d] = DOMAIN shelf[d]
         /\ \A d \in Boards : \A m \in DOMAIN shelf[d] :
              d # b \/ m # n => shelf'[d][m] = shelf[d][m]
         /\ OwnImage(shelf'[b][n], b)
         /\ shelf'[b][n].inserted = v /\ shelf'[b][n].run = shelf[b][n].run
<1>1. DOMAIN shelf = Boards
  BY DEF Shelved
<1>2. /\ DOMAIN shelf' = Boards
      /\ \A d \in Boards \ {b} : shelf'[d] = shelf[d]
      /\ shelf'[b] = [shelf[b] EXCEPT ![n] = InsertedInto(shelf[b][n], v)]
  BY <1>1 DEF Inserting, InsertedInto
<1>3. /\ DOMAIN shelf'[b] = DOMAIN shelf[b]
      /\ shelf'[b][n] = InsertedInto(shelf[b][n], v)
      /\ \A m \in DOMAIN shelf[b] : m # n => shelf'[b][m] = shelf[b][m]
  BY <1>2
<1>4. OwnImage(shelf[b][n], b)
  BY DEF Shelved
<1>. QED BY <1>2, <1>3, <1>4, InsertedImage

LEMMA InsertingKeepsShelved ==
  ASSUME Shelved, NEW b \in Boards, NEW n \in DOMAIN shelf[b], NEW v \in Insertions,
         Inserting(b, n, v), UNCHANGED <<dirs, placed, runs>>, at # "idle", at' # "place",
         placed \subseteq Boards
  PROVE  Shelved'
<1>1. ASSUME NEW d \in Boards, NEW m \in DOMAIN shelf'[d]
      PROVE  /\ m \in DOMAIN shelf[d] /\ OwnImage(shelf'[d][m], d)
             /\ shelf'[d][m].run = shelf[d][m].run
  BY <1>1, InsertingChanges DEF Shelved
<1>2. /\ DOMAIN shelf' = Boards
      /\ \A d \in Boards : DOMAIN shelf'[d] = DOMAIN shelf[d]
  BY InsertingChanges
<1>. QED BY <1>1, <1>2 DEF Shelved

\* dd begins: the image is neither old nor new, unless it holds v already.
LEMMA BeginInserting ==
  ASSUME NEW n, NEW v \in Insertions,
         shelf' = [shelf EXCEPT ![board][n].inserted = IF @ = v THEN v ELSE "torn"]
  PROVE  \E w \in {"torn", v} :
           /\ w \in Insertions /\ Inserting(board, n, w)
           /\ w = v <=> shelf[board][n].inserted = v \/ v = "torn"
<1>1. CASE shelf[board][n].inserted = v
  BY <1>1 DEF Inserting
<1>2. CASE shelf[board][n].inserted # v
  BY <1>2 DEF Inserting, Insertions
<1>. QED BY <1>1, <1>2

\* What the four steps of dd do to the shelf.
LEMMA BeginBootBlockInserts ==
  ASSUME IInv, BeginBootBlock
  PROVE  /\ board \in Boards /\ file \in DOMAIN shelf[board]
         /\ \E w \in {"torn", "boot block"} :
              /\ w \in Insertions /\ Inserting(board, file, w)
              /\ w = "boot block" <=> shelf[board][file].inserted = "boot block"
<1>1. board \in Boards /\ file \in DOMAIN shelf[board]
  BY BoardsDiffer DEF IInv, Copying, BeginBootBlock
<1>2. shelf' = [shelf EXCEPT ![board][file].inserted =
                  IF @ = "boot block" THEN "boot block" ELSE "torn"]
  BY DEF BeginBootBlock, BeginInsert
<1>3. "boot block" \in Insertions /\ "boot block" # "torn"
  BY DEF Insertions
<1>4. PICK w \in {"torn", "boot block"} :
        /\ w \in Insertions /\ Inserting(board, file, w)
        /\ w = "boot block" <=>
             shelf[board][file].inserted = "boot block" \/ "boot block" = "torn"
  BY <1>2, <1>3, BeginInserting
<1>. QED BY <1>1, <1>3, <1>4

LEMMA EndBootBlockInserts ==
  ASSUME IInv, EndBootBlock
  PROVE  /\ board \in Boards /\ file \in DOMAIN shelf[board] /\ "boot block" \in Insertions
         /\ Inserting(board, file, "boot block")
BY BoardsDiffer DEF IInv, Copying, EndBootBlock, EndInsert, Inserting, Insertions

LEMMA AddressInsertions == AddressUsed \in Insertions \ {"torn", "nothing", "boot block"}
BY DEF AddressUsed, Insertions

\* The names of files that are no images.
LEMMA NoImage == \A b : {Top64k, Generated, Star} \cap ImagesOf(b) = {}
<1>1. \A b : \A n \in ImagesOf(b) : n = <<n[1], n[2]>>
  BY DEF ImagesOf
<1>2. \A x, y, z : <<x>> # <<y, z>>
  OBVIOUS
<1>. QED BY <1>1, <1>2 DEF Top64k, Generated, Star

LEMMA BeginDescriptorInserts ==
  ASSUME IInv, BeginDescriptor
  PROVE  /\ file' \in left /\ board \in Boards
         /\ \/ file' = Star /\ shelf' = shelf
            \/ /\ file' # Star /\ file' \in DOMAIN shelf[board]
               /\ \E w \in {"torn", fd} :
                    /\ w \in Insertions /\ Inserting(board, file', w)
                    /\ w = fd <=> shelf[board][file'].inserted = fd
<1>1. board \in Boards /\ left \subseteq DOMAIN shelf[board] \cup {Star} /\ fd = AddressUsed
  BY BoardsDiffer DEF IInv, Describing, BeginDescriptor
<1>2. PICK n \in left :
        /\ file' = n
        /\ IF n = Star THEN UNCHANGED shelf
           ELSE shelf' = [shelf EXCEPT ![board][n].inserted = IF @ = fd THEN fd ELSE "torn"]
  BY DEF BeginDescriptor
<1>3. fd \in Insertions /\ fd # "torn"
  BY <1>1, AddressInsertions
<1>4. CASE n = Star
  BY <1>1, <1>2, <1>4
<1>5. CASE n # Star
  BY <1>1, <1>2, <1>3, <1>5, BeginInserting
<1>. QED BY <1>4, <1>5

LEMMA EndDescriptorInserts ==
  ASSUME IInv, EndDescriptor
  PROVE  /\ file \in left /\ board \in Boards
         /\ \/ file = Star /\ shelf' = shelf
            \/ /\ file # Star /\ file \in DOMAIN shelf[board] /\ fd \in Insertions
               /\ Inserting(board, file, fd)
<1>1. /\ board \in Boards /\ left \subseteq DOMAIN shelf[board] \cup {Star} /\ fd = AddressUsed
      /\ file \in left
  BY BoardsDiffer DEF IInv, Describing, EndDescriptor
<1>. QED BY <1>1, AddressInsertions DEF EndDescriptor, EndInsert, Inserting

-----------------------------------------------------------------------------
LEMMA ShelvedElsewhere ==
  ASSUME Shelved, at' # "place", UNCHANGED <<dirs, shelf>>,
         \/ placed' = {}
         \/ UNCHANGED <<placed, runs>> /\ (at = "idle" => at' = "idle")
  PROVE  Shelved'
BY DEF Shelved

LEMMA ShelvedKept == IInv /\ [Next]_vars => Shelved'
<1>. SUFFICES ASSUME IInv, [Next]_vars
              PROVE  Shelved'
  OBVIOUS
<1>0. Shelved /\ placed \subseteq Boards
  BY BoardsDiffer DEF IInv, Loop, Payload
<1>1. ASSUME NEW p \in {"grub", "seabios"}, NEW R, Start(p, R)
      PROVE  Shelved'
  BY <1>0, <1>1, ShelvedElsewhere DEF Start
<1>2. CASE MakePayload \/ NextBoard \/ CheckoutCoreboot \/ CheckoutVboot
  BY <1>0, <1>2, ShelvedElsewhere DEF MakePayload, NextBoard, CheckoutCoreboot, CheckoutVboot
<1>3. CASE MakeRom \/ CopyRom \/ AddConfigs \/ RemoveConfigless
  BY <1>0, <1>3, ShelvedElsewhere DEF MakeRom, CopyRom, AddConfigs, RemoveConfigless
<1>4. CASE EmptyStage \/ MoveRom \/ AllMoved
  BY <1>0, <1>4, ShelvedElsewhere DEF EmptyStage, MoveRom, AllMoved
<1>5. CASE DropFile
  <2>1. /\ board \in Boards \ placed /\ at = "drop" /\ at' = at
        /\ UNCHANGED <<dirs, placed, runs>>
    BY <1>5 DEF IInv, Where, Loop, DropFile
  <2>2. CASE shelf' = shelf
    BY <1>0, <2>1, <2>2, ShelvedElsewhere
  <2>3. CASE \E n \in DOMAIN shelf[board] : shelf' = [shelf EXCEPT ![board] = Without(@, n)]
    <3>1. PICK n \in DOMAIN shelf[board] : shelf' = [shelf EXCEPT ![board] = Without(@, n)]
      BY <2>3
    <3>2. DOMAIN shelf = Boards
      BY <1>0 DEF Shelved
    <3>3. /\ DOMAIN shelf' = Boards /\ \A b \in Boards \ {board} : shelf'[b] = shelf[b]
          /\ shelf'[board] = Without(shelf[board], n)
      BY <2>1, <3>1, <3>2
    <3>4. /\ DOMAIN shelf'[board] = DOMAIN shelf[board] \ {n}
          /\ \A m \in DOMAIN shelf'[board] : shelf'[board][m] = shelf[board][m]
      BY <3>3 DEF Without
    <3>. QED BY <1>0, <2>1, <3>3, <3>4 DEF Shelved
  <2>. QED BY <1>5, <2>2, <2>3 DEF DropFile
<1>6. CASE DropDirectory
  <2>1. /\ DOMAIN shelf[board] = {} /\ dirs' = dirs \ {board}
        /\ board \in Boards \ placed /\ UNCHANGED <<board, shelf, placed, runs>>
        /\ at = "drop"
    BY <1>6 DEF IInv, Where, Loop, DropDirectory
  <2>. QED BY <1>0, <2>1 DEF Shelved
<1>7. CASE PlaceImages
  <2>1. /\ at = "place" /\ at' # "place" /\ board \in Boards \ placed /\ board \notin dirs
        /\ DOMAIN shelf = Boards
        /\ Staged /\ ImagesOf(board) \subseteq DOMAIN staged
    BY <1>7 DEF IInv, Where, Loop, Progress, Shelved, PlaceImages
  <2>2. /\ shelf' = [shelf EXCEPT ![board] = staged]
        /\ dirs' = dirs \cup {board} /\ placed' = placed \cup {board} /\ runs' = runs
    BY <1>7, <2>1 DEF PlaceImages
  <2>3. /\ DOMAIN shelf' = Boards /\ shelf'[board] = staged
        /\ \A b \in Boards \ {board} : shelf'[b] = shelf[b]
    BY <2>1, <2>2
  <2>4. /\ DOMAIN staged = ImagesOf(board)
        /\ \A n \in DOMAIN staged : OwnImage(staged[n], board) /\ staged[n].run = runs
    BY <2>1 DEF Staged, Finished
  <2>. QED BY <1>0, <2>1, <2>2, <2>3, <2>4 DEF Shelved
<1>8. CASE MasterCoreboot \/ MasterVboot \/ BoardsDone \/ EnterI945 \/ EnterGm45 \/ I945Done
  BY <1>0, <1>8, ShelvedElsewhere
  DEF MasterCoreboot, MasterVboot, BoardsDone, EnterI945, EnterGm45, I945Done
<1>9. CASE ExtractTop \/ RemoveTop \/ LeaveI945 \/ Ich9gen \/ RemoveGenerated \/ Gm45Done
  BY <1>0, <1>9, ShelvedElsewhere
  DEF ExtractTop, RemoveTop, LeaveI945, Ich9gen, RemoveGenerated, Gm45Done
<1>10. CASE BeginBootBlock
  BY <1>0, <1>10, BeginBootBlockInserts, InsertingKeepsShelved DEF BeginBootBlock
<1>11. CASE EndBootBlock
  BY <1>0, <1>11, EndBootBlockInserts, InsertingKeepsShelved DEF EndBootBlock
<1>12. CASE BeginDescriptor
  <2>1. at # "idle" /\ at' # "place" /\ UNCHANGED <<dirs, placed, runs>>
    BY <1>12 DEF BeginDescriptor
  <2>. QED BY <1>0, <1>12, <2>1, BeginDescriptorInserts, InsertingKeepsShelved, ShelvedElsewhere
<1>13. CASE EndDescriptor
  <2>1. at # "idle" /\ at' # "place" /\ UNCHANGED <<dirs, placed, runs>>
    BY <1>13 DEF EndDescriptor
  <2>. QED BY <1>0, <1>13, <2>1, EndDescriptorInserts, InsertingKeepsShelved, ShelvedElsewhere
<1>14. CASE DdFails \/ CleanUp \/ Stop \/ WriteAddress
  BY <1>0, <1>14, ShelvedElsewhere DEF DdFails, CleanUp, Stop, WriteAddress
<1>15. CASE UNCHANGED vars
  BY <1>0, <1>15 DEF vars, Shelved
<1>. QED
  BY <1>1, <1>2, <1>3, <1>4, <1>5, <1>6, <1>7, <1>8, <1>9, <1>10, <1>11, <1>12, <1>13, <1>14,
     <1>15
  DEF Next, ScriptStep, BoardStep, FinishStep

-----------------------------------------------------------------------------
LEMMA ImagesExist == \A b \in Boards : ImagesOf(b) # {}
<1>. TAKE b \in Boards
<1>1. Types[b] # {} /\ Keymaps # {}
  BY BoardsAssumption
<1>2. PICK t \in Types[b] : TRUE
  BY <1>1
<1>3. PICK k \in Keymaps : TRUE
  BY <1>1
<1>4. <<k, t>> \in ImagesOf(b) \/ <<NoKeymap, t>> \in ImagesOf(b)
  BY <1>2, <1>3 DEF ImagesOf
<1>. QED BY <1>4

LEMMA LitterElsewhere ==
  ASSUME Litter, UNCHANGED litter, UNCHANGED placed \/ placed' = {},
         \/ at \in AtBuild /\ at' \in AtBuild \ {"place"}
         \/ placed' = {} /\ at' \in AtBuild \ {"place"}
         \/ at' \notin AtBuild \cup {"i945"} \cup AtCopy,
         outcome' # "aborted" \/ UNCHANGED <<outcome, request>>
  PROVE  Litter'
BY DEF Litter

\* Files other than images come and go in the directory of one board.
LEMMA LitterOf ==
  ASSUME Litter, NEW b \in Boards, NEW X, X \subseteq litter[b] \cup {Top64k, Generated, Star},
         litter' = [litter EXCEPT ![b] = X]
  PROVE  /\ litter' \in [Boards -> SUBSET {Top64k, Generated, Star}]
         /\ \A d \in Boards \ {b} : litter'[d] = litter[d]
BY DEF Litter

LEMMA LitterKept == IInv /\ [Next]_vars => Litter'
<1>. SUFFICES ASSUME IInv, [Next]_vars
              PROVE  Litter'
  OBVIOUS
<1>0. Litter /\ placed \subseteq Boards
  BY BoardsDiffer DEF IInv, Loop, Payload
<1>1. ASSUME NEW p \in {"grub", "seabios"}, NEW R, Start(p, R)
      PROVE  Litter'
  BY <1>0, <1>1, LitterElsewhere DEF Start
<1>2. CASE MakePayload \/ NextBoard \/ CheckoutCoreboot \/ CheckoutVboot
  <2>1. /\ UNCHANGED <<litter, placed, outcome, request>>
        /\ at \in AtBuild /\ at' \in AtBuild \ {"place"}
    BY <1>2 DEF MakePayload, NextBoard, CheckoutCoreboot, CheckoutVboot
  <2>. QED BY <1>0, <2>1, LitterElsewhere
<1>3. CASE MakeRom \/ CopyRom \/ AddConfigs \/ RemoveConfigless
  <2>1. /\ UNCHANGED <<litter, placed, outcome, request>>
        /\ at \in AtBuild /\ at' \in AtBuild \ {"place"}
    BY <1>3 DEF MakeRom, CopyRom, AddConfigs, RemoveConfigless
  <2>. QED BY <1>0, <2>1, LitterElsewhere
<1>4. CASE EmptyStage \/ MoveRom \/ AllMoved \/ MasterCoreboot \/ MasterVboot
  <2>1. /\ UNCHANGED <<litter, placed, outcome, request>>
        /\ at \in AtBuild /\ at' \in AtBuild \ {"place"}
    BY <1>4 DEF EmptyStage, MoveRom, AllMoved, MasterCoreboot, MasterVboot
  <2>. QED BY <1>0, <2>1, LitterElsewhere
<1>5. CASE DropFile
  <2>1. /\ at = "drop" /\ at' = "drop" /\ board \in Boards \ placed
        /\ UNCHANGED <<placed, outcome, request>>
    BY <1>5 DEF IInv, Where, Loop, DropFile
  <2>2. CASE litter' = litter
    BY <1>0, <2>1, <2>2, LitterElsewhere
  <2>3. CASE litter' # litter
    <3>1. PICK x \in litter[board] : litter' = [litter EXCEPT ![board] = litter[board] \ {x}]
      BY <1>5, <2>3 DEF DropFile
    <3>2. /\ litter' \in [Boards -> SUBSET {Top64k, Generated, Star}]
          /\ \A d \in Boards \ {board} : litter'[d] = litter[d]
      BY <1>0, <2>1, <3>1, LitterOf
    <3>. QED BY <1>0, <2>1, <3>2 DEF Litter
  <2>. QED BY <2>2, <2>3
<1>6. CASE DropDirectory
  BY <1>0, <1>6 DEF Litter, DropDirectory
<1>7. CASE PlaceImages
  BY <1>0, <1>7 DEF Litter, PlaceImages
<1>8. CASE BoardsDone
  <2>1. /\ at = "boards" /\ at' \in {"i945", "clean up"}
        /\ UNCHANGED <<litter, placed, outcome, request>>
    BY <1>8 DEF BoardsDone
  <2>. QED BY <1>0, <2>1 DEF Litter
<1>9. CASE EnterI945
  <2>1. PICK b \in todo :
          /\ todo' = todo \ {b}
          /\ IF b \in dirs
             THEN LET names == DOMAIN shelf[b] \cup litter[b] IN
                  /\ board' = b /\ at' = "extract"
                  /\ left' = IF names = {} THEN {Star} ELSE names
             ELSE UNCHANGED <<at, board, left>>
    BY <1>9 DEF EnterI945
  <2>2. at = "i945" /\ UNCHANGED <<litter, shelf, placed, outcome, request>>
    BY <1>9 DEF EnterI945
  <2>3. ASSUME b \in placed
        PROVE  litter[b] = {} /\ DOMAIN shelf[b] # {}
    BY <1>0, <2>2, <2>3, ImagesExist DEF IInv, Shelved, Litter
  <2>4. CASE b \in dirs
    <3>1. board' = b /\ at' = "extract" /\ (b \in placed => left' = DOMAIN shelf[b])
      BY <2>1, <2>3, <2>4
    <3>. QED BY <1>0, <2>1, <2>2, <3>1 DEF Litter
  <2>5. CASE b \notin dirs
    BY <1>0, <2>1, <2>2, <2>5 DEF Litter
  <2>. QED BY <2>4, <2>5
<1>10. CASE ExtractTop
  <2>1. /\ at = "extract" /\ at' = "insert" /\ board \in Boards \ todo
        /\ UNCHANGED <<board, todo, left, shelf, placed, outcome, request>>
        /\ litter' = [litter EXCEPT ![board] = litter[board] \cup {Top64k}]
    BY <1>10, BoardsDiffer DEF IInv, Copying, ExtractTop
  <2>2. /\ litter' \in [Boards -> SUBSET {Top64k, Generated, Star}]
        /\ \A d \in Boards \ {board} : litter'[d] = litter[d]
    BY <1>0, <2>1, LitterOf
  <2>. QED BY <1>0, <2>1, <2>2 DEF Litter
<1>11. CASE DdFails
  <2>1. /\ at = "extract" /\ at' = "idle" /\ UNCHANGED <<request, litter>>
        /\ left \ DOMAIN shelf[board] # {}
    BY <1>11 DEF DdFails, NextInGlob
  <2>2. board \in BootBlockBoards /\ request.boards \subseteq placed
    BY <2>1 DEF IInv, Loop, Copying
  <2>3. ~ (BootBlockBoards \subseteq request.boards)
    BY <1>0, <2>1, <2>2 DEF Litter
  <2>. QED BY <1>0, <2>1, <2>3 DEF Litter
<1>12. CASE BeginBootBlock
  <2>1. /\ at \in AtCopy /\ at' \in AtCopy
        /\ UNCHANGED <<board, todo, left, litter, placed, outcome, request>>
    BY <1>12 DEF BeginBootBlock
  <2>2. board \in Boards /\ DOMAIN shelf'[board] = DOMAIN shelf[board]
    BY <1>12, BeginBootBlockInserts, InsertingChanges DEF IInv
  <2>. QED BY <1>0, <2>1, <2>2 DEF Litter
<1>13. CASE EndBootBlock
  <2>1. /\ at \in AtCopy /\ at' \in AtCopy
        /\ UNCHANGED <<board, todo, left, litter, placed, outcome, request>>
    BY <1>13 DEF EndBootBlock
  <2>2. board \in Boards /\ DOMAIN shelf'[board] = DOMAIN shelf[board]
    BY <1>13, EndBootBlockInserts, InsertingChanges DEF IInv
  <2>. QED BY <1>0, <2>1, <2>2 DEF Litter
<1>14. CASE RemoveTop
  <2>1. /\ at = "remove top64k.bin" /\ at' = "extract" /\ board \in Boards \ todo
        /\ UNCHANGED <<board, todo, shelf, placed, outcome, request>> /\ left' \subseteq left
        /\ litter' = [litter EXCEPT ![board] = litter[board] \ {Top64k}]
    BY <1>14, BoardsDiffer DEF IInv, Copying, RemoveTop
  <2>2. /\ litter' \in [Boards -> SUBSET {Top64k, Generated, Star}]
        /\ \A d \in Boards \ {board} : litter'[d] = litter[d]
    BY <1>0, <2>1, LitterOf
  <2>. QED BY <1>0, <2>1, <2>2 DEF Litter
<1>15. CASE LeaveI945
  BY <1>0, <1>15 DEF Litter, LeaveI945
<1>16. CASE I945Done \/ EnterGm45 \/ EndDescriptor \/ Gm45Done
  <2>1. /\ UNCHANGED <<litter, placed, outcome, request>>
        /\ at' \notin AtBuild \cup {"i945"} \cup AtCopy
    BY <1>16 DEF I945Done, EnterGm45, EndDescriptor, Gm45Done
  <2>. QED BY <1>0, <2>1, LitterElsewhere
<1>17. CASE Ich9gen \/ BeginDescriptor \/ RemoveGenerated
  <2>1. /\ at' \notin AtBuild \cup {"i945"} \cup AtCopy /\ UNCHANGED <<outcome, request>>
        /\ board \in Boards
    BY <1>17, BoardsDiffer DEF IInv, Describing, Ich9gen, BeginDescriptor, RemoveGenerated
  <2>2. \/ litter' = litter
        \/ litter' = [litter EXCEPT ![board] = litter[board] \cup {Generated}]
        \/ litter' = [litter EXCEPT ![board] = litter[board] \cup {Star}]
        \/ litter' = [litter EXCEPT ![board] = litter[board] \ {Generated}]
    BY <1>17 DEF Ich9gen, BeginDescriptor, RemoveGenerated
  <2>3. litter \in [Boards -> SUBSET {Top64k, Generated, Star}]
    BY <1>0 DEF Litter
  <2>4. litter' \in [Boards -> SUBSET {Top64k, Generated, Star}]
    BY <1>0, <2>1, <2>2, <2>3, LitterOf
  <2>. QED BY <1>0, <2>1, <2>4 DEF Litter
<1>18. CASE CleanUp \/ Stop \/ WriteAddress
  <2>1. /\ UNCHANGED <<litter, placed>> /\ at' \notin AtBuild \cup {"i945"} \cup AtCopy
        /\ outcome' # "aborted" \/ UNCHANGED <<outcome, request>>
    BY <1>18 DEF CleanUp, Stop, WriteAddress
  <2>. QED BY <1>0, <2>1, LitterElsewhere
<1>19. CASE UNCHANGED vars
  BY <1>0, <1>19 DEF vars, Litter
<1>. QED
  BY <1>1, <1>2, <1>3, <1>4, <1>5, <1>6, <1>7, <1>8, <1>9, <1>10, <1>11, <1>12, <1>13, <1>14,
     <1>15, <1>16, <1>17, <1>18, <1>19
  DEF Next, ScriptStep, BoardStep, FinishStep

-----------------------------------------------------------------------------
\* What is inserted in the images of other boards, and in those that are done,
\* stays when one image that is left changes.
LEMMA OthersKeep ==
  ASSUME Shelved, NEW b \in Boards, NEW n \in DOMAIN shelf[b], NEW w \in Insertions,
         Inserting(b, n, w), NEW B, B \subseteq Boards \ {b}, NEW v, AllHave(B, v)
  PROVE  AllHave(B, v)'
<1>1. \A d \in B : DOMAIN shelf'[d] = DOMAIN shelf[d]
  BY InsertingChanges
<1>2. \A d \in B : \A m \in DOMAIN shelf[d] : shelf'[d][m] = shelf[d][m]
  BY InsertingChanges
<1>. QED BY <1>1, <1>2 DEF AllHave

LEMMA DoneKeep ==
  ASSUME Shelved, board \in Boards, NEW n \in DOMAIN shelf[board], NEW w \in Insertions,
         Inserting(board, n, w), UNCHANGED board,
         NEW v, Inserted(v), n \in left, left' = left \/ (left' = left \ {n} /\ w = v)
  PROVE  Inserted(v)'
<1>1. /\ DOMAIN shelf'[board] = DOMAIN shelf[board] /\ shelf'[board][n].inserted = w
      /\ \A m \in DOMAIN shelf[board] : m # n => shelf'[board][m] = shelf[board][m]
  BY InsertingChanges
<1>2. ASSUME NEW m \in DOMAIN shelf'[board] \ left'
      PROVE  shelf'[board][m].inserted = v
  <2>1. CASE m = n
    BY <1>1, <1>2, <2>1
  <2>2. CASE m # n
    BY <1>1, <1>2, <2>2 DEF Inserted
  <2>. QED BY <2>1, <2>2
<1>. QED BY <1>2 DEF Inserted

LEMMA CopyingElsewhere ==
  ASSUME \/ at' \in {"idle"} \cup AtBuild
         \/ at' = "clean up" /\ request'.payload # "grub"
         \/ /\ Copying
            /\ at \in {"gm45"} \cup AtInsert
            /\ at' \in {"gm45", "clean up"} \cup AtInsert
            /\ AllHave(BootBlockBoards, "boot block")'
  PROVE  Copying'
BY DEF Copying

LEMMA CopyingKept == IInv /\ [Next]_vars => Copying'
<1>. SUFFICES ASSUME IInv, [Next]_vars
              PROVE  Copying'
  OBVIOUS
<1>0. Copying /\ Shelved
  BY DEF IInv
<1>1. ASSUME NEW p \in {"grub", "seabios"}, NEW R, Start(p, R)
      PROVE  Copying'
  BY <1>1, CopyingElsewhere DEF Start
<1>2. CASE MakePayload \/ NextBoard \/ CheckoutCoreboot \/ CheckoutVboot
  <2>1. at' \in AtBuild
    BY <1>2 DEF MakePayload, NextBoard, CheckoutCoreboot, CheckoutVboot
  <2>. QED BY <2>1, CopyingElsewhere
<1>3. CASE MakeRom \/ CopyRom \/ AddConfigs \/ RemoveConfigless
  <2>1. at' \in AtBuild
    BY <1>3 DEF MakeRom, CopyRom, AddConfigs, RemoveConfigless
  <2>. QED BY <2>1, CopyingElsewhere
<1>4. CASE \/ EmptyStage \/ MoveRom \/ AllMoved \/ DropFile \/ DropDirectory \/ PlaceImages
           \/ MasterCoreboot \/ MasterVboot
  <2>1. at' \in AtBuild
    BY <1>4 DEF EmptyStage, MoveRom, AllMoved, DropFile, DropDirectory, PlaceImages,
                MasterCoreboot, MasterVboot
  <2>. QED BY <2>1, CopyingElsewhere
<1>5. CASE BoardsDone
  <2>1. CASE request.payload = "grub"
    <3>1. at' = "i945" /\ todo' = BootBlockBoards
      BY <1>5, <2>1 DEF BoardsDone
    <3>. QED BY <3>1 DEF Copying, AllHave
  <2>2. CASE request.payload # "grub"
    <3>1. at' = "clean up" /\ request'.payload # "grub"
      BY <1>5, <2>2 DEF BoardsDone
    <3>. QED BY <3>1, CopyingElsewhere
  <2>. QED BY <2>1, <2>2
<1>6. CASE EnterI945
  <2>1. PICK b \in todo :
          /\ todo' = todo \ {b}
          /\ IF b \in dirs
             THEN LET names == DOMAIN shelf[b] \cup litter[b] IN
                  /\ board' = b /\ at' = "extract"
                  /\ left' = IF names = {} THEN {Star} ELSE names
             ELSE UNCHANGED <<at, board, left>>
    BY <1>6 DEF EnterI945
  <2>2. at = "i945" /\ UNCHANGED shelf
    BY <1>6 DEF EnterI945
  <2>3. b \in BootBlockBoards /\ todo \subseteq BootBlockBoards /\ b \in Boards
        /\ AllHave(BootBlockBoards \ todo, "boot block")
    BY <1>0, <2>1, <2>2, BoardsDiffer DEF Copying
  <2>4. CASE b \in dirs
    <3>1. board' = b /\ at' = "extract" /\ DOMAIN shelf[b] \subseteq left'
      BY <2>1, <2>4
    <3>2. BootBlockBoards \ (todo' \cup {b}) = BootBlockBoards \ todo
      BY <2>1
    <3>3. Inserted("boot block")'
      BY <2>2, <3>1 DEF Inserted
    <3>4. AllHave(BootBlockBoards \ (todo \cup {board}), "boot block")'
      BY <2>2, <2>3, <3>1, <3>2 DEF AllHave
    <3>. QED BY <2>1, <2>3, <3>1, <3>3, <3>4 DEF Copying
  <2>5. CASE b \notin dirs
    <3>1. DOMAIN shelf[b] = {} /\ at' = "i945"
      BY <1>0, <2>1, <2>2, <2>3, <2>5 DEF Shelved
    <3>2. AllHave(BootBlockBoards \ todo, "boot block")'
      BY <2>1, <2>2, <2>3, <3>1 DEF AllHave
    <3>. QED BY <2>1, <2>3, <3>1, <3>2 DEF Copying
  <2>. QED BY <2>4, <2>5
<1>7. CASE ExtractTop
  <2>1. /\ at = "extract" /\ at' = "insert" /\ UNCHANGED <<board, todo, left, shelf>>
        /\ file' \in left \cap DOMAIN shelf[board]
    BY <1>7 DEF ExtractTop, NextInGlob
  <2>. QED BY <1>0, <2>1 DEF Copying, AllHave, Inserted
<1>8. CASE BeginBootBlock \/ EndBootBlock
  <2>1. /\ at \in AtCopy /\ UNCHANGED <<board, todo, left, file>>
        /\ \/ at' = "inserting" /\ BeginBootBlock
           \/ at' = "remove top64k.bin" /\ EndBootBlock
        /\ at \in AtCopy \ {"extract"}
    BY <1>8 DEF BeginBootBlock, EndBootBlock
  <2>2. PICK w \in {"torn", "boot block"} :
          /\ board \in Boards /\ file \in DOMAIN shelf[board]
          /\ w \in Insertions /\ Inserting(board, file, w)
          /\ at' = "remove top64k.bin" => w = "boot block"
    BY <2>1, BeginBootBlockInserts, EndBootBlockInserts
  <2>3. /\ board \in BootBlockBoards \ todo /\ todo \subseteq BootBlockBoards
        /\ AllHave(BootBlockBoards \ (todo \cup {board}), "boot block")
        /\ Inserted("boot block") /\ file \in left
    BY <1>0, <2>1 DEF Copying
  <2>4. /\ DOMAIN shelf'[board] = DOMAIN shelf[board]
        /\ shelf'[board][file].inserted = w
    BY <1>0, <2>2, InsertingChanges
  <2>5. Inserted("boot block")'
    BY <1>0, <2>1, <2>2, <2>3, DoneKeep
  <2>6. AllHave(BootBlockBoards \ (todo \cup {board}), "boot block")'
    <3>1. BootBlockBoards \ (todo \cup {board}) \subseteq Boards \ {board}
      BY BoardsDiffer
    <3>. QED BY <1>0, <2>1, <2>2, <2>3, <3>1, OthersKeep
  <2>. QED BY <2>1, <2>2, <2>3, <2>4, <2>5, <2>6 DEF Copying
<1>9. CASE RemoveTop
  <2>1. /\ at = "remove top64k.bin" /\ at' = "extract" /\ UNCHANGED <<board, todo, shelf>>
        /\ left' = left \ {file}
    BY <1>9 DEF RemoveTop
  <2>2. Inserted("boot block")'
    BY <1>0, <2>1 DEF Copying, Inserted
  <2>. QED BY <1>0, <2>1, <2>2 DEF Copying, AllHave
<1>10. CASE LeaveI945
  <2>1. at = "extract" /\ left = {} /\ at' = "i945" /\ UNCHANGED <<todo, shelf>>
    BY <1>10 DEF LeaveI945
  <2>2. AllHave(BootBlockBoards \ todo, "boot block")'
    BY <1>0, <2>1 DEF Copying, AllHave, Inserted
  <2>. QED BY <1>0, <2>1, <2>2 DEF Copying
<1>11. CASE I945Done
  <2>1. at = "i945" /\ todo = {} /\ at' = "gm45" /\ UNCHANGED shelf
    BY <1>11 DEF I945Done
  <2>2. AllHave(BootBlockBoards, "boot block")'
    BY <1>0, <2>1 DEF Copying, AllHave
  <2>. QED BY <2>1, <2>2 DEF Copying
<1>12. CASE EnterGm45 \/ Ich9gen \/ RemoveGenerated \/ Gm45Done
  <2>1. /\ at \in {"gm45"} \cup AtInsert /\ at' \in {"gm45", "clean up"} \cup AtInsert
        /\ UNCHANGED shelf
    BY <1>12 DEF EnterGm45, Ich9gen, RemoveGenerated, Gm45Done
  <2>2. AllHave(BootBlockBoards, "boot block")'
    BY <1>0, <2>1 DEF Copying, AllHave
  <2>. QED BY <1>0, <2>1, <2>2, CopyingElsewhere
<1>13. CASE BeginDescriptor \/ EndDescriptor
  <2>1. at \in AtInsert /\ at' \in AtInsert
    BY <1>13 DEF BeginDescriptor, EndDescriptor
  <2>2. /\ board \in Boards /\ BootBlockBoards \subseteq Boards \ {board}
        /\ AllHave(BootBlockBoards, "boot block")
    BY <1>0, <2>1, BoardsDiffer DEF IInv, Describing, Copying
  <2>3. \/ shelf' = shelf
        \/ \E n \in DOMAIN shelf[board], w \in Insertions : Inserting(board, n, w)
    BY <1>13, BeginDescriptorInserts, EndDescriptorInserts
  <2>4. CASE shelf' = shelf
    <3>1. AllHave(BootBlockBoards, "boot block")'
      BY <2>2, <2>4 DEF AllHave
    <3>. QED BY <1>0, <2>1, <3>1, CopyingElsewhere
  <2>5. ASSUME NEW n \in DOMAIN shelf[board], NEW w \in Insertions, Inserting(board, n, w)
        PROVE  Copying'
    <3>1. AllHave(BootBlockBoards, "boot block")'
      BY <1>0, <2>2, <2>5, OthersKeep
    <3>. QED BY <1>0, <2>1, <3>1, CopyingElsewhere
  <2>. QED BY <2>3, <2>4, <2>5
<1>14. CASE DdFails \/ CleanUp \/ Stop \/ WriteAddress
  <2>1. at' = "idle"
    BY <1>14 DEF DdFails, CleanUp, Stop, WriteAddress
  <2>. QED BY <2>1, CopyingElsewhere
<1>15. CASE UNCHANGED vars
  BY <1>0, <1>15 DEF vars, Copying, AllHave, Inserted
<1>. QED
  BY <1>1, <1>2, <1>3, <1>4, <1>5, <1>6, <1>7, <1>8, <1>9, <1>10, <1>11, <1>12, <1>13, <1>14,
     <1>15
  DEF Next, ScriptStep, BoardStep, FinishStep

-----------------------------------------------------------------------------
LEMMA DescribingElsewhere ==
  ASSUME \/ at' \in {"idle", "i945"} \cup AtBuild \cup AtCopy
         \/ at' = "clean up" /\ request'.payload # "grub"
  PROVE  Describing'
BY DEF Describing

\* Nobody writes gm45macaddress while a script runs.
LEMMA AddressStays == IInv /\ at # "idle" /\ [Next]_vars => AddressUsed' = AddressUsed
<1>. SUFFICES ASSUME at # "idle", [Next]_vars
              PROVE  address' = address
  BY DEF AddressUsed
<1>1. CASE ScriptStep
  <2>1. CASE MakePayload \/ BoardStep
    BY <2>1
    DEF MakePayload, BoardStep, NextBoard, CheckoutCoreboot, CheckoutVboot, MakeRom, CopyRom,
        AddConfigs, RemoveConfigless, EmptyStage, MoveRom, AllMoved, DropFile, DropDirectory,
        PlaceImages, MasterCoreboot, MasterVboot, BoardsDone
  <2>2. CASE FinishStep
    BY <2>2
    DEF FinishStep, EnterI945, ExtractTop, DdFails, BeginBootBlock, EndBootBlock, RemoveTop,
        LeaveI945, I945Done, EnterGm45, Ich9gen, BeginDescriptor, EndDescriptor,
        RemoveGenerated, Gm45Done, CleanUp
  <2>. QED BY <1>1, <2>1, <2>2 DEF ScriptStep
<1>2. CASE Stop \/ UNCHANGED vars
  BY <1>2 DEF Stop, vars
<1>. QED BY <1>1, <1>2 DEF Next, Start, WriteAddress

LEMMA DescribingKept == IInv /\ [Next]_vars => Describing'
<1>. SUFFICES ASSUME IInv, [Next]_vars
              PROVE  Describing'
  OBVIOUS
<1>0. Describing /\ Shelved /\ (at # "idle" => AddressUsed' = AddressUsed)
  BY AddressStays DEF IInv
<1>1. ASSUME NEW p \in {"grub", "seabios"}, NEW R, Start(p, R)
      PROVE  Describing'
  BY <1>1, DescribingElsewhere DEF Start
<1>2. CASE MakePayload \/ NextBoard \/ CheckoutCoreboot \/ CheckoutVboot
  <2>1. at' \in AtBuild
    BY <1>2 DEF MakePayload, NextBoard, CheckoutCoreboot, CheckoutVboot
  <2>. QED BY <2>1, DescribingElsewhere
<1>3. CASE MakeRom \/ CopyRom \/ AddConfigs \/ RemoveConfigless
  <2>1. at' \in AtBuild
    BY <1>3 DEF MakeRom, CopyRom, AddConfigs, RemoveConfigless
  <2>. QED BY <2>1, DescribingElsewhere
<1>4. CASE \/ EmptyStage \/ MoveRom \/ AllMoved \/ DropFile \/ DropDirectory \/ PlaceImages
           \/ MasterCoreboot \/ MasterVboot
  <2>1. at' \in AtBuild
    BY <1>4 DEF EmptyStage, MoveRom, AllMoved, DropFile, DropDirectory, PlaceImages,
                MasterCoreboot, MasterVboot
  <2>. QED BY <2>1, DescribingElsewhere
<1>5. CASE BoardsDone
  <2>1. at' = "i945" \/ (at' = "clean up" /\ request'.payload # "grub")
    BY <1>5 DEF BoardsDone
  <2>. QED BY <2>1, DescribingElsewhere
<1>6. CASE \/ EnterI945 \/ ExtractTop \/ BeginBootBlock \/ EndBootBlock \/ RemoveTop \/ LeaveI945
  <2>1. at' \in {"i945"} \cup AtCopy
    BY <1>6 DEF EnterI945, ExtractTop, BeginBootBlock, EndBootBlock, RemoveTop, LeaveI945
  <2>. QED BY <2>1, DescribingElsewhere
<1>7. CASE I945Done
  <2>1. at' = "gm45" /\ todo' = DescriptorBoards
    BY <1>7 DEF I945Done
  <2>. QED BY <2>1 DEF Describing, AllHave
<1>8. CASE EnterGm45
  <2>1. PICK b \in todo :
          /\ todo' = todo \ {b}
          /\ IF b \in dirs THEN board' = b /\ at' = "ich9gen" ELSE UNCHANGED <<at, board>>
    BY <1>8 DEF EnterGm45
  <2>2. at = "gm45" /\ UNCHANGED shelf
    BY <1>8 DEF EnterGm45
  <2>3. /\ b \in DescriptorBoards /\ todo \subseteq DescriptorBoards /\ b \in Boards
        /\ AllHave(DescriptorBoards \ todo, AddressUsed) /\ AddressUsed' = AddressUsed
    BY <1>0, <2>1, <2>2, BoardsDiffer DEF Describing
  <2>4. CASE b \in dirs
    <3>1. board' = b /\ at' = "ich9gen"
      BY <2>1, <2>4
    <3>2. DescriptorBoards \ (todo' \cup {b}) = DescriptorBoards \ todo
      BY <2>1
    <3>3. AllHave(DescriptorBoards \ (todo \cup {board}), AddressUsed)'
      BY <2>2, <2>3, <3>1, <3>2 DEF AllHave
    <3>. QED BY <2>1, <2>3, <3>1, <3>3 DEF Describing
  <2>5. CASE b \notin dirs
    <3>1. DOMAIN shelf[b] = {} /\ at' = "gm45"
      BY <1>0, <2>1, <2>2, <2>3, <2>5 DEF Shelved
    <3>2. AllHave(DescriptorBoards \ todo, AddressUsed)'
      BY <2>1, <2>2, <2>3, <3>1 DEF AllHave
    <3>. QED BY <2>1, <2>3, <3>1, <3>2 DEF Describing
  <2>. QED BY <2>4, <2>5
<1>9. CASE Ich9gen
  <2>1. /\ at = "ich9gen" /\ at' = "descriptor" /\ fd' = AddressUsed
        /\ UNCHANGED <<board, todo, shelf>>
        /\ LET roms == DOMAIN shelf[board] \cup (litter[board] \cap {Star})
           IN  left' = IF roms = {} THEN {Star} ELSE roms
    BY <1>9 DEF Ich9gen
  <2>2. DOMAIN shelf[board] \subseteq left' /\ left' \subseteq DOMAIN shelf[board] \cup {Star}
    BY <2>1
  <2>3. Inserted(fd)'
    BY <2>1, <2>2 DEF Inserted
  <2>4. AllHave(DescriptorBoards \ (todo \cup {board}), AddressUsed)'
    BY <1>0, <2>1 DEF Describing, AllHave
  <2>. QED BY <1>0, <2>1, <2>2, <2>3, <2>4 DEF Describing
<1>10. CASE BeginDescriptor \/ EndDescriptor
  <2>1. /\ at \in {"descriptor", "descriptor written"} /\ UNCHANGED <<board, todo, fd>>
        /\ \/ BeginDescriptor /\ at' = "descriptor written" /\ left' = left
           \/ EndDescriptor /\ at' = "descriptor" /\ left' = left \ {file}
    BY <1>10 DEF BeginDescriptor, EndDescriptor
  <2>2. /\ board \in DescriptorBoards \ todo /\ todo \subseteq DescriptorBoards
        /\ AllHave(DescriptorBoards \ (todo \cup {board}), AddressUsed)
        /\ fd = AddressUsed /\ AddressUsed' = AddressUsed
        /\ left \subseteq DOMAIN shelf[board] \cup {Star} /\ Inserted(fd) /\ board \in Boards
    BY <1>0, <2>1, BoardsDiffer DEF Describing
  <2>3. Star \notin DOMAIN shelf[board]
    BY <1>0, <2>2, NoImage DEF Shelved
  <2>4. CASE shelf' = shelf /\ (BeginDescriptor => file' = Star /\ Star \in left)
                            /\ (EndDescriptor => file = Star)
    <3>1. Inserted(fd)'
      BY <2>1, <2>2, <2>3, <2>4 DEF Inserted
    <3>2. AllHave(DescriptorBoards \ (todo \cup {board}), AddressUsed)'
      BY <2>1, <2>2, <2>4 DEF AllHave
    <3>. QED BY <2>1, <2>2, <2>4, <3>1, <3>2 DEF Describing
  <2>5. ASSUME NEW n \in left \cap DOMAIN shelf[board], NEW w \in {"torn", fd} \cap Insertions,
               Inserting(board, n, w), BeginDescriptor => file' = n,
               EndDescriptor => file = n /\ w = fd
        PROVE  Describing'
    <3>1. DescriptorBoards \ (todo \cup {board}) \subseteq Boards \ {board}
      BY BoardsDiffer
    <3>2. AllHave(DescriptorBoards \ (todo \cup {board}), AddressUsed)'
      BY <1>0, <2>1, <2>2, <2>5, <3>1, OthersKeep
    <3>3. left' = left \/ (left' = left \ {n} /\ w = fd)
      BY <2>1, <2>5
    <3>4. Inserted(fd)'
      BY <1>0, <2>1, <2>2, <2>5, <3>3, DoneKeep
    <3>5. DOMAIN shelf'[board] = DOMAIN shelf[board] /\ shelf'[board][n].inserted = w
      BY <1>0, <2>2, <2>5, InsertingChanges
    <3>. QED BY <2>1, <2>2, <2>5, <3>2, <3>4, <3>5 DEF Describing
  <2>6. CASE BeginDescriptor
    <3>1. file' \in left /\ ~ EndDescriptor
      BY <2>1, <2>6, BeginDescriptorInserts DEF BeginDescriptor, EndDescriptor
    <3>2. CASE file' = Star /\ shelf' = shelf
      BY <2>4, <3>1, <3>2
    <3>3. CASE file' # Star
      <4>1. PICK w \in {"torn", fd} : w \in Insertions /\ Inserting(board, file', w)
        BY <2>6, <3>3, BeginDescriptorInserts
      <4>2. file' \in left \cap DOMAIN shelf[board]
        BY <2>6, <3>3, BeginDescriptorInserts
      <4>. QED BY <2>5, <3>1, <4>1, <4>2
    <3>. QED BY <2>6, <3>2, <3>3, BeginDescriptorInserts
  <2>7. CASE EndDescriptor
    <3>1. file \in left /\ ~ BeginDescriptor
      BY <2>1, <2>7, EndDescriptorInserts DEF BeginDescriptor, EndDescriptor
    <3>2. CASE file = Star /\ shelf' = shelf
      BY <2>4, <2>7, <3>1, <3>2
    <3>3. CASE file # Star
      BY <2>5, <2>7, <3>1, <3>3, EndDescriptorInserts
    <3>. QED BY <2>7, <3>2, <3>3, EndDescriptorInserts
  <2>. QED BY <2>1, <2>6, <2>7
<1>11. CASE RemoveGenerated
  <2>1. at = "descriptor" /\ left = {} /\ at' = "gm45" /\ UNCHANGED <<todo, shelf>>
    BY <1>11 DEF RemoveGenerated
  <2>2. AllHave(DescriptorBoards \ todo, AddressUsed)'
    BY <1>0, <2>1 DEF Describing, AllHave, Inserted
  <2>. QED BY <1>0, <2>1, <2>2 DEF Describing
<1>12. CASE Gm45Done
  <2>1. at = "gm45" /\ todo = {} /\ at' = "clean up" /\ UNCHANGED shelf
    BY <1>12 DEF Gm45Done
  <2>2. AllHave(DescriptorBoards, AddressUsed)'
    BY <1>0, <2>1 DEF Describing, AllHave
  <2>. QED BY <2>1, <2>2 DEF Describing
<1>13. CASE DdFails \/ CleanUp \/ Stop \/ WriteAddress
  <2>1. at' = "idle"
    BY <1>13 DEF DdFails, CleanUp, Stop, WriteAddress
  <2>. QED BY <2>1, DescribingElsewhere
<1>14. CASE UNCHANGED vars
  BY <1>0, <1>14 DEF vars, Describing, AllHave, Inserted, AddressUsed
<1>. QED
  BY <1>1, <1>2, <1>3, <1>4, <1>5, <1>6, <1>7, <1>8, <1>9, <1>10, <1>11, <1>12, <1>13, <1>14
  DEF Next, ScriptStep, BoardStep, FinishStep

-----------------------------------------------------------------------------
LEMMA NextInv == IInv /\ [Next]_vars => IInv'
<1>. SUFFICES ASSUME IInv, [Next]_vars
              PROVE  IInv'
  OBVIOUS
<1>. QED
  BY WhereKept, LoopKept, CheckoutsKept, ProgressKept, TypedKept, ShelvedKept, LitterKept,
     CopyingKept, DescribingKept
  DEF IInv

LEMMA InvariantSays == IInv => TypeOK /\ ImagesAreOwn /\ FullRunNeverAborts /\ OneAddress
<1>1. IInv => TypeOK
  BY BoardsDiffer
  DEF IInv, Where, Loop, Checkouts, Progress, Typed, Shelved, Litter, OwnImage, TypeOK
<1>2. IInv => ImagesAreOwn
  BY DEF IInv, Shelved, OwnImage, ImagesAreOwn
<1>3. IInv => FullRunNeverAborts
  BY DEF IInv, Litter, FullRunNeverAborts
<1>4. IInv => OneAddress
  BY DEF IInv, Describing, AllHave, OneAddress
<1>. QED BY <1>1, <1>2, <1>3, <1>4

LEMMA Invariance == Spec => []IInv
BY InitInv, NextInv, PTL DEF Spec

\* The type invariant: nothing but these images, files, branches and counts, in
\* the trees, under bin/ and in the scripts (withgrub_helper:59-168).
THEOREM TypeCorrect == Spec => []TypeOK
BY InvariantSays, Invariance, PTL

\* ImagesAreOwn, for any boards, keymaps and types: every image under bin/ was
\* built on its board's own coreboot and vboot branches, whatever branch and
\* whatever files stopped runs left in the shared tree (withgrub_helper:59-158).
THEOREM OwnImages == Spec => []ImagesAreOwn
BY InvariantSays, Invariance, PTL

\* FullRunNeverAborts, for any boards and StrayFirst: a run that builds every
\* i945 board is ended by a stop only, never by the dd of its own loop
\* (withgrub:80-92).
THEOREM NeverAborts == Spec => []FullRunNeverAborts
BY InvariantSays, Invariance, PTL

\* OneAddress, for any GM45 boards: at the end of a run for GRUB all their
\* images have the address that gm45macaddress gives (withgrub:98-117).
THEOREM OneAddressEverywhere == Spec => []OneAddress
BY InvariantSays, Invariance, PTL

-----------------------------------------------------------------------------
(* BuildRoms implements RomShelf.                                           *)

\* The shelf as RomShelf sees it.
Item(c) == [run |-> c.run, inserted |-> c.inserted]
ShelfOf == [b \in Boards |-> [n \in DOMAIN shelf[b] |-> Item(shelf[b][n])]]

ShelfWith(b, n, v) == [ShelfOf EXCEPT ![b][n].inserted = v]

LEMMA SameItems ==
  ASSUME \A d \in Boards : DOMAIN shelf'[d] = DOMAIN shelf[d],
         \A d \in Boards : \A m \in DOMAIN shelf[d] : Item(shelf'[d][m]) = Item(shelf[d][m])
  PROVE  ShelfOf' = ShelfOf
BY DEF ShelfOf

\* Inserting what is there already does not show; another value does.
LEMMA InsertingShows ==
  ASSUME Shelved, NEW b \in Boards, NEW n \in DOMAIN shelf[b], NEW v \in Insertions,
         Inserting(b, n, v)
  PROVE  /\ shelf[b][n].inserted = v => ShelfOf' = ShelfOf
         /\ ShelfOf' = ShelfWith(b, n, v)
<1>1. /\ \A d \in Boards : DOMAIN shelf'[d] = DOMAIN shelf[d]
      /\ \A d \in Boards : \A m \in DOMAIN shelf[d] :
           d # b \/ m # n => shelf'[d][m] = shelf[d][m]
      /\ shelf'[b][n].inserted = v /\ shelf'[b][n].run = shelf[b][n].run
  BY InsertingChanges
<1>2. ASSUME shelf[b][n].inserted = v
      PROVE  ShelfOf' = ShelfOf
  <2>1. Item(shelf'[b][n]) = Item(shelf[b][n])
    BY <1>1, <1>2 DEF Item
  <2>. QED BY <1>1, <2>1, SameItems
<1>3. ShelfOf' = ShelfWith(b, n, v)
  <2>1. Item(shelf'[b][n]) = [Item(shelf[b][n]) EXCEPT !.inserted = v]
    BY <1>1 DEF Item
  <2>2. ShelfOf'[b] = [ShelfOf[b] EXCEPT ![n] = Item(shelf'[b][n])]
    BY <1>1 DEF ShelfOf
  <2>3. \A d \in Boards \ {b} : ShelfOf'[d] = ShelfOf[d]
    BY <1>1 DEF ShelfOf
  <2>4. ShelfOf[b][n] = Item(shelf[b][n])
    BY DEF ShelfOf
  <2>5. ShelfOf'[b] = [ShelfOf[b] EXCEPT ![n].inserted = v]
    BY <2>1, <2>2, <2>4
  <2>6. ShelfOf' = [d \in Boards |-> ShelfOf'[d]] /\ ShelfOf = [d \in Boards |-> ShelfOf[d]]
    BY DEF ShelfOf
  <2>. QED BY <2>3, <2>5, <2>6 DEF ShelfWith
<1>. QED BY <1>2, <1>3

LEMMA InitRefines == Init => Shelf!Init
BY DEF Init, Shelf!Init, NoFiles

LEMMA StartRefines ==
  ASSUME IInv, NEW p \in {"grub", "seabios"}, NEW R \in SUBSET Payload(p), Start(p, R)
  PROVE  Shelf!Next
<1>1. /\ outcome # "running" /\ outcome' = "running" /\ placed' = {}
      /\ runs \in 0 .. MaxRuns /\ runs' = runs + 1 /\ shelf' = shelf
      /\ request'.payload = p /\ request'.boards = R
  BY DEF IInv, Where, Start
<1>2. runs' # 0
  BY <1>1, Bounds
<1>3. Shelf!Begin(Payload(p), R)
  BY <1>1, <1>2 DEF Shelf!Begin, Payload
<1>. QED BY <1>3 DEF Shelf!Next, Payload

LEMMA FailureRefines ==
  ASSUME IInv, DdFails \/ Stop
  PROVE  Shelf!Next
<1>1. /\ outcome = "running" /\ outcome' \in {"stopped", "aborted"}
      /\ UNCHANGED <<shelf, request, placed, runs>>
  BY DEF IInv, Where, DdFails, Stop
<1>2. Shelf!Fail
  BY <1>1 DEF Shelf!Fail
<1>. QED BY <1>2 DEF Shelf!Next

LEMMA CleanUpRefines ==
  ASSUME IInv, CleanUp
  PROVE  Shelf!Next
<1>1. /\ at = "clean up" /\ outcome = "running" /\ outcome' = "ok" /\ runs # 0
      /\ UNCHANGED <<shelf, request, placed, runs>>
      /\ request.payload \in {"grub", "seabios"}
  BY DEF IInv, Where, Loop, CleanUp
<1>2. ASSUME NEW b \in request.boards
      PROVE  Shelf!BuiltNow(b)
  <2>1. b \in placed /\ b \in Boards
    BY <1>1, BoardsDiffer DEF IInv, Loop, Payload
  <2>2. DOMAIN shelf[b] = ImagesOf(b) /\ \A n \in DOMAIN shelf[b] : shelf[b][n].run = runs
    BY <1>1, <2>1 DEF IInv, Shelved
  <2>. QED BY <2>1, <2>2 DEF Shelf!BuiltNow
<1>3. ASSUME NEW b \in Payload(request.payload)
      PROVE  Shelf!Finished(b)
  <2>1. b \in Boards
    BY BoardsDiffer DEF Payload
  <2>2. CASE request.payload = "grub"
    <3>1. /\ AllHave(BootBlockBoards, "boot block")
          /\ AllHave(DescriptorBoards, AddressUsed)
      BY <1>1, <2>2 DEF IInv, Copying, Describing
    <3>2. AddressUsed \in {"default address", "own address"}
      BY DEF AddressUsed
    <3>. QED BY <2>1, <3>1, <3>2 DEF Shelf!Finished, AllHave
  <2>3. CASE request.payload = "seabios"
    <3>1. b \notin BootBlockBoards /\ b \notin DescriptorBoards
      BY <2>3, BoardsDiffer DEF Payload
    <3>. QED BY <2>1, <3>1 DEF Shelf!Finished
  <2>. QED BY <1>1, <2>2, <2>3
<1>4. Shelf!Succeed
  BY <1>1, <1>2, <1>3 DEF Shelf!Succeed, Payload
<1>. QED BY <1>4 DEF Shelf!Next

LEMMA DropFileRefines ==
  ASSUME IInv, DropFile
  PROVE  [Shelf!Next]_Shelf!vars
<1>0. PICK b \in Boards : b = board
  BY DEF IInv, Where, DropFile
<1>1. /\ outcome = "running" /\ b \in request.boards \ placed
      /\ UNCHANGED <<outcome, request, placed, runs>> /\ DOMAIN shelf = Boards
  BY <1>0 DEF IInv, Where, Loop, Shelved, DropFile
<1>2. CASE shelf' = shelf
  BY <1>1, <1>2 DEF Shelf!vars
<1>3. CASE shelf' # shelf
  <2>1. PICK n \in DOMAIN shelf[b] : shelf' = [shelf EXCEPT ![b] = Without(@, n)]
    BY <1>0, <1>3 DEF DropFile
  <2>2. Shelf!Discard(b, n)
    BY <1>1, <2>1 DEF Shelf!Discard, Without
  <2>. QED BY <1>1, <2>1, <2>2 DEF Shelf!Next
<1>. QED BY <1>2, <1>3

LEMMA PlaceImagesRefines ==
  ASSUME IInv, PlaceImages
  PROVE  Shelf!Next
<1>0. PICK b \in Boards : b = board
  BY DEF IInv, Where, PlaceImages
<1>1. /\ outcome = "running" /\ b \in request.boards \ placed
      /\ UNCHANGED <<outcome, request, runs>> /\ DOMAIN shelf = Boards
      /\ DOMAIN shelf[b] = {} /\ b \notin dirs
      /\ placed' = placed \cup {b}
  BY <1>0 DEF IInv, Where, Loop, Shelved, PlaceImages
<1>2. shelf' = [shelf EXCEPT ![b] = staged]
  BY <1>0, <1>1 DEF PlaceImages
<1>3. /\ DOMAIN staged = ImagesOf(b)
      /\ \A n \in DOMAIN staged : staged[n].run = runs /\ staged[n].inserted = "nothing"
  BY <1>0 DEF IInv, Progress, Staged, Finished, PlaceImages
<1>4. Shelf!Place(b)
  BY <1>1, <1>2, <1>3 DEF Shelf!Place, Shelf!Raw
<1>. QED BY <1>4 DEF Shelf!Next

\* Steps that RomShelf does not see.
LEMMA OtherStepsStutter ==
  ASSUME UNCHANGED <<shelf, outcome, request, placed, runs>>
  PROVE  UNCHANGED Shelf!vars
BY DEF Shelf!vars

\* A dd that changes an image in place is an insertion of RomShelf.
LEMMA BeginRefines ==
  ASSUME IInv, UNCHANGED <<outcome, request, placed, runs>>, outcome = "running",
         request.boards \subseteq placed, board \in Boards,
         NEW n \in DOMAIN shelf[board], NEW v \in Insertions \ {"torn"}, NEW w \in {"torn", v},
         Inserting(board, n, w), w = v <=> shelf[board][n].inserted = v,
         \/ board \in BootBlockBoards /\ v = "boot block"
         \/ board \in DescriptorBoards /\ v \in {"default address", "own address"}
  PROVE  [Shelf!Next]_Shelf!vars
<1>1. w \in Insertions
  BY DEF Insertions
<1>2. CASE w = v
  <2>1. ShelfOf' = ShelfOf
    BY <1>1, <1>2, InsertingShows DEF IInv
  <2>. QED BY <2>1 DEF Shelf!vars, ShelfOf, Item
<1>3. CASE w # v
  <2>3. ShelfOf' = ShelfWith(board, n, w)
    BY <1>1, InsertingShows DEF IInv
  <2>1. /\ w = "torn" /\ shelf[board][n].inserted # v
        /\ ShelfOf' = ShelfWith(board, n, "torn")
    BY <1>3, <2>3
  <2>2. Shelf!BeginInsert(board, n, v)
    BY <2>1 DEF Shelf!BeginInsert, ShelfWith, ShelfOf, Item
  <2>. QED BY <2>2, BoardsDiffer DEF Shelf!Next
<1>. QED BY <1>2, <1>3

LEMMA EndRefines ==
  ASSUME IInv, UNCHANGED <<outcome, request, placed, runs>>, outcome = "running", board \in Boards,
         NEW n \in DOMAIN shelf[board], NEW v \in Insertions,
         Inserting(board, n, v), shelf[board][n].inserted \in {"torn", v},
         \/ board \in BootBlockBoards /\ v = "boot block"
         \/ board \in DescriptorBoards /\ v \in {"default address", "own address"}
  PROVE  [Shelf!Next]_Shelf!vars
<1>2. CASE shelf[board][n].inserted = v
  <2>1. ShelfOf' = ShelfOf
    BY <1>2, InsertingShows DEF IInv
  <2>. QED BY <2>1 DEF Shelf!vars, ShelfOf, Item
<1>3. CASE shelf[board][n].inserted # v
  <2>3. ShelfOf' = ShelfWith(board, n, v)
    BY InsertingShows DEF IInv
  <2>1. /\ shelf[board][n].inserted = "torn"
        /\ ShelfOf' = ShelfWith(board, n, v)
    BY <1>3, <2>3
  <2>2. Shelf!EndInsert(board, n, v)
    BY <2>1 DEF Shelf!EndInsert, ShelfWith, ShelfOf, Item
  <2>. QED BY <2>2, BoardsDiffer DEF Shelf!Next
<1>. QED BY <1>2, <1>3

LEMMA BootBlockRefines ==
  ASSUME IInv, BeginBootBlock \/ EndBootBlock
  PROVE  [Shelf!Next]_Shelf!vars
<1>1. /\ outcome = "running" /\ UNCHANGED <<outcome, request, placed, runs>>
      /\ request.boards \subseteq placed /\ board \in BootBlockBoards
      /\ EndBootBlock => shelf[board][file].inserted \in {"torn", "boot block"}
      /\ "boot block" \in Insertions \ {"torn"}
  BY DEF IInv, Where, Loop, Copying, BeginBootBlock, EndBootBlock, Insertions
<1>2. CASE BeginBootBlock
  BY <1>1, <1>2, BeginBootBlockInserts, BeginRefines
<1>3. CASE EndBootBlock
  BY <1>1, <1>3, EndBootBlockInserts, EndRefines
<1>. QED BY <1>2, <1>3

LEMMA DescriptorRefines ==
  ASSUME IInv, BeginDescriptor \/ EndDescriptor
  PROVE  [Shelf!Next]_Shelf!vars
<1>1. /\ outcome = "running" /\ UNCHANGED <<outcome, request, placed, runs>>
      /\ request.boards \subseteq placed /\ board \in DescriptorBoards
      /\ EndDescriptor /\ file # Star => shelf[board][file].inserted \in {"torn", fd}
      /\ fd = AddressUsed
  BY DEF IInv, Where, Loop, Describing, BeginDescriptor, EndDescriptor
<1>2. fd \in Insertions \ {"torn"} /\ fd \in {"default address", "own address"}
  BY <1>1, AddressInsertions DEF AddressUsed
<1>3. CASE shelf' = shelf
  BY <1>1, <1>3, OtherStepsStutter
<1>4. CASE BeginDescriptor /\ shelf' # shelf
  BY <1>1, <1>2, <1>4, BeginDescriptorInserts, BeginRefines
<1>5. CASE EndDescriptor /\ shelf' # shelf
  BY <1>1, <1>2, <1>5, EndDescriptorInserts, EndRefines
<1>. QED BY <1>3, <1>4, <1>5

LEMMA NextRefines == IInv /\ [Next]_vars => [Shelf!Next]_Shelf!vars
<1>. SUFFICES ASSUME IInv, [Next]_vars
              PROVE  [Shelf!Next]_Shelf!vars
  OBVIOUS
<1>1. ASSUME NEW p \in {"grub", "seabios"}, NEW R \in SUBSET Payload(p), Start(p, R)
      PROVE  Shelf!Next
  BY <1>1, StartRefines
<1>2. CASE \/ DdFails \/ Stop \/ CleanUp \/ DropFile \/ PlaceImages
           \/ BeginBootBlock \/ EndBootBlock \/ BeginDescriptor \/ EndDescriptor
  BY <1>2, FailureRefines, CleanUpRefines, DropFileRefines, PlaceImagesRefines,
     BootBlockRefines, DescriptorRefines
<1>3. CASE MakePayload \/ NextBoard \/ CheckoutCoreboot \/ CheckoutVboot
  BY <1>3, OtherStepsStutter DEF MakePayload, NextBoard, CheckoutCoreboot, CheckoutVboot
<1>4. CASE MakeRom \/ CopyRom \/ AddConfigs \/ RemoveConfigless
  BY <1>4, OtherStepsStutter DEF MakeRom, CopyRom, AddConfigs, RemoveConfigless
<1>5. CASE EmptyStage \/ MoveRom \/ AllMoved \/ DropDirectory
  BY <1>5, OtherStepsStutter DEF EmptyStage, MoveRom, AllMoved, DropDirectory
<1>6. CASE MasterCoreboot \/ MasterVboot \/ BoardsDone \/ EnterI945 \/ EnterGm45 \/ I945Done
  BY <1>6, OtherStepsStutter
  DEF MasterCoreboot, MasterVboot, BoardsDone, EnterI945, EnterGm45, I945Done
<1>7. CASE ExtractTop \/ RemoveTop \/ LeaveI945 \/ Ich9gen \/ RemoveGenerated \/ Gm45Done
  BY <1>7, OtherStepsStutter
  DEF ExtractTop, RemoveTop, LeaveI945, Ich9gen, RemoveGenerated, Gm45Done
<1>8. CASE WriteAddress \/ UNCHANGED vars
  BY <1>8, OtherStepsStutter DEF WriteAddress, vars
<1>. QED
  BY <1>1, <1>2, <1>3, <1>4, <1>5, <1>6, <1>7, <1>8
  DEF Next, ScriptStep, BoardStep, FinishStep, Payload

\* withgrub and withseabios keep the promise of RomShelf: a board's images appear under
\* bin/ all at once and of this run, change only while a value is inserted, and go only
\* when the board is built again; a run that exits 0 leaves no image of its payload
\* unfinished, whatever runs that were stopped left behind (withgrub:60-123).
THEOREM Refinement == Spec => ImplementsRomShelf
BY InitRefines, NextRefines, Invariance, PTL DEF Spec, ImplementsRomShelf, Shelf!Spec

-----------------------------------------------------------------------------
(* BuildRoms, releases and the cleaning of bin/ implement ReleaseRoms.       *)

LEMMA ReleaseConstants == Release!ReleaseAssumption
BY BoardsAssumption DEF Release!ReleaseAssumption, NoBoard, Release!NoBoard, Boards

\* What is built is a step of the builder that ReleaseRoms stands on.
LEMMA SameShelf ==
  /\ Shelf!Next => Release!Next
  /\ UNCHANGED Shelf!vars => UNCHANGED Release!vars
  /\ Init /\ Shelf!Init => Release!Init
  /\ Shelf!Next => "running" \in {outcome, outcome'}
<1>1. Shelf!Next => Release!Next
  BY Zenon DEF Shelf!Next, Release!Next, Shelf!Begin, Release!Begin, Shelf!Place, Release!Place,
     Shelf!Discard, Release!Discard, Shelf!BeginInsert, Release!BeginInsert, Shelf!EndInsert,
     Release!EndInsert, Shelf!Succeed, Release!Succeed, Shelf!Fail, Release!Fail,
     Shelf!BuiltNow, Release!BuiltNow, Shelf!Finished, Release!Finished, Shelf!Raw, Release!Raw
<1>2. UNCHANGED Shelf!vars => UNCHANGED Release!vars
  BY Zenon DEF Shelf!vars, Release!vars
<1>3. Init /\ Shelf!Init => Release!Init
  BY Zenon DEF Shelf!Init, Release!Init
<1>4. Shelf!Next => "running" \in {outcome, outcome'}
  BY DEF Shelf!Next, Shelf!Begin, Shelf!Place, Shelf!Discard, Shelf!BeginInsert,
     Shelf!EndInsert, Shelf!Succeed, Shelf!Fail
<1>. QED BY <1>1, <1>2, <1>3, <1>4

\* While a script builds no release runs, and none has ended since it began.
OneAtATime == at # "idle" => releaseAt = "idle" /\ released = "none"
AllInv == IInv /\ OneAtATime

LEMMA AllInitInv == AllInit => AllInv /\ Release!ReleaseInit
<1>. SUFFICES ASSUME AllInit PROVE AllInv /\ Release!ReleaseInit
  OBVIOUS
<1>1. IInv /\ Release!Init
  BY InitInv, InitRefines, SameShelf DEF AllInit
<1>2. OneAtATime
  BY DEF AllInit, Init, OneAtATime
<1>3. Release!ReleaseInit
  BY <1>1, Zenon DEF AllInit, Release!ReleaseInit, NoBoard, Release!NoBoard
<1>. QED BY <1>1, <1>2, <1>3 DEF AllInv

\* Without bin/ the next build is as good as the first.
LEMMA CleanKeeps == IInv /\ CleanImages => IInv'
<1>. SUFFICES ASSUME IInv, CleanImages PROVE IInv'
  OBVIOUS
<1>1. /\ at = "idle" /\ at' = "idle" /\ dirs' = {} /\ shelf' = [b \in Boards |-> NoFiles]
      /\ litter' = [b \in Boards |-> {}]
      /\ UNCHANGED <<request, memory, tree, elf, address, outcome, placed, counts>>
  BY DEF CleanImages
<1>2. Where' /\ Loop'
  BY <1>1 DEF IInv, Where, Loop, memory, counts
<1>3. Checkouts' /\ Typed'
  BY <1>1 DEF IInv, Checkouts, Typed, tree, memory
<1>4. Progress'
  BY <1>1 DEF IInv, Progress, tree, memory
<1>5. Shelved'
  BY <1>1, Nothing DEF Shelved
<1>6. Litter'
  BY <1>1 DEF IInv, Litter
<1>7. Copying' /\ Describing'
  BY <1>1 DEF IInv, Copying, Describing
<1>. QED BY <1>2, <1>3, <1>4, <1>5, <1>6, <1>7 DEF IInv

LEMMA BuildStepRefines ==
  ASSUME AllInv, BuildStep
  PROVE  AllInv' /\ [Release!ReleaseNext]_<<Release!vars, Release!release>>
<1>1. /\ Next /\ IInv /\ OneAtATime /\ releaseAt = "idle"
      /\ released' = IF "running" \in {outcome, outcome'} THEN "none" ELSE released
      /\ UNCHANGED <<git, releaseAt, releaseTodo, releaseBoard, found, copy, archive, tidy,
                     releases, releaseStops>>
  BY DEF AllInv, BuildStep
<1>2. IInv' /\ [Shelf!Next]_Shelf!vars
  BY <1>1, NextInv, NextRefines
<1>3. /\ outcome = "running" <=> at # "idle"
      /\ outcome' = "running" <=> at' # "idle"
      /\ runs' \in 0 .. MaxRuns
  BY <1>1, <1>2 DEF IInv, Where
<1>4. OneAtATime'
  BY <1>1, <1>3 DEF OneAtATime
<1>5. CASE Shelf!Next
  <2>1. Release!Next /\ released' = "none"
    BY <1>1, <1>5, SameShelf
  <2>2. runs' <= MaxRuns
    BY <1>3, Bounds
  <2>3. Release!BuildStep
    BY <1>1, <2>1, <2>2, Zenon DEF Release!BuildStep
  <2>. QED BY <1>2, <1>4, <2>3, Zenon DEF AllInv, Release!ReleaseNext
<1>6. CASE UNCHANGED Shelf!vars
  <2>1. UNCHANGED Release!vars
    BY <1>6, SameShelf
  <2>2. outcome = "running" <=> outcome' = "running"
    BY <1>6 DEF Shelf!vars
  <2>3. released' = released
    BY <1>1, <1>3, <2>2 DEF OneAtATime
  <2>4. UNCHANGED Release!release
    BY <1>1, <2>3, Zenon DEF Release!release
  <2>. QED BY <1>2, <1>4, <2>1, <2>4, Zenon DEF AllInv
<1>. QED BY <1>2, <1>5, <1>6

LEMMA ReleaseStepRefines ==
  ASSUME AllInv, ReleaseStep
  PROVE  AllInv' /\ [Release!ReleaseNext]_<<Release!vars, Release!release>>
<1>1. IInv /\ OneAtATime /\ Release!ReleaseStep /\ UNCHANGED <<vars, git>>
  BY DEF AllInv, ReleaseStep
<1>2. IInv'
  BY <1>1, NextInv
<1>3. /\ at' = at /\ outcome' = outcome /\ UNCHANGED Release!vars
  BY <1>1 DEF vars, bin, counts, Release!vars
<1>4. OneAtATime'
  <2>1. CASE Release!StartRelease
    <3>1. outcome # "running"
      BY <2>1 DEF Release!StartRelease
    <3>. QED BY <1>1, <1>3, <3>1 DEF IInv, Where, OneAtATime
  <2>2. CASE ~ Release!StartRelease
    <3>1. releaseAt # "idle"
      BY <1>1, <2>2
      DEF Release!ReleaseStep, Release!DeleteOldArchive, Release!BeginCopy, Release!EndCopy,
          Release!ChangeLog, Release!BeginPack, Release!EndPack, Release!RemoveCopy,
          Release!CopyIsGone, Release!ReleaseEnds, Release!StopRelease
    <3>. QED BY <1>1, <1>3, <3>1 DEF OneAtATime
  <2>. QED BY <2>1, <2>2
<1>5. Release!ReleaseNext
  BY <1>1, <1>3, Zenon DEF Release!ReleaseNext
<1>. QED BY <1>2, <1>4, <1>5 DEF AllInv

LEMMA CleanImagesRefines ==
  ASSUME AllInv, CleanImages
  PROVE  AllInv' /\ [Release!ReleaseNext]_<<Release!vars, Release!release>>
<1>1. IInv' /\ IInv
  BY CleanKeeps DEF AllInv
<1>2. OneAtATime'
  BY DEF CleanImages, OneAtATime
<1>3. /\ outcome # "running" /\ UNCHANGED <<outcome, request, placed, runs>>
      /\ releaseAt = "idle" /\ released' = "none"
      /\ copy' = [b \in Boards |-> Release!None]
      /\ UNCHANGED <<git, releaseAt, releaseTodo, releaseBoard, found, archive, tidy, releases,
                     releaseStops>>
  BY <1>1 DEF CleanImages, counts, IInv, Where
<1>4. ShelfOf' = [b \in Boards |-> << >>]
  BY DEF CleanImages, ShelfOf, NoFiles
<1>5. Release!CleanImages
  BY <1>3, <1>4 DEF Release!CleanImages, ShelfOf, Item
<1>. QED BY <1>1, <1>2, <1>5 DEF AllInv, Release!ReleaseNext

LEMMA AllNextRefines ==
  AllInv /\ [AllNext]_allVars
    => AllInv' /\ [Release!ReleaseNext]_<<Release!vars, Release!release>>
<1>. SUFFICES ASSUME AllInv, [AllNext]_allVars
              PROVE  AllInv' /\ [Release!ReleaseNext]_<<Release!vars, Release!release>>
  OBVIOUS
<1>1. CASE UNCHANGED allVars
  <2>1. UNCHANGED vars /\ UNCHANGED ofRelease /\ IInv /\ OneAtATime
    BY <1>1 DEF allVars, AllInv
  <2>2. IInv'
    BY <2>1, NextInv
  <2>3. OneAtATime'
    BY <2>1 DEF vars, ofRelease, OneAtATime
  <2>4. UNCHANGED <<Release!vars, Release!release>>
    BY <2>1 DEF vars, bin, counts, ofRelease, Release!vars, Release!release
  <2>. QED BY <2>2, <2>3, <2>4 DEF AllInv
<1>. QED BY <1>1, BuildStepRefines, ReleaseStepRefines, CleanImagesRefines DEF AllNext

LEMMA AllInvariance == AllSpec => []AllInv
<1>1. AllInit => AllInv
  BY AllInitInv
<1>2. AllInv /\ [AllNext]_allVars => AllInv'
  BY AllNextRefines
<1>. QED BY <1>1, <1>2, PTL DEF AllSpec

\* The builders, the release and the cleaning of bin/, one script at a time, do what
\* ReleaseRoms says of them.
THEOREM ReleaseRefinement == AllSpec => ImplementsReleaseRoms
<1>1. AllInit => Release!ReleaseInit
  BY AllInitInv
<1>2. AllInv /\ [AllNext]_allVars => [Release!ReleaseNext]_<<Release!vars, Release!release>>
  BY AllNextRefines
<1>. QED BY <1>1, <1>2, AllInvariance, PTL DEF AllSpec, ImplementsReleaseRoms, Release!ReleaseSpec

\* ArchivesAreCurrent of what withgrub and withseabios put under bin/, whatever builds,
\* releases and cleans of bin/ came before and wherever they were stopped.
THEOREM ArchivesOfBuilds == AllSpec => []Release!ArchivesAreCurrent
<1>1. Release!ReleaseSpec => []Release!ArchivesAreCurrent
  BY ReleaseConstants, Release!CurrentArchives DEF Release!ReleaseAssumption
<1>. QED BY <1>1, ReleaseRefinement, PTL DEF ImplementsReleaseRoms

\* FinishedAreReleased of them: after a build that exits 0 the archives hold no image of
\* its payload without its boot block copy or its descriptor (withgrub:78-119).
THEOREM FinishedBuildsAreReleased == AllSpec => []Release!FinishedAreReleased
<1>1. Release!ReleaseSpec => []Release!FinishedAreReleased
  BY ReleaseConstants, Release!FinishedReleases DEF Release!ReleaseAssumption
<1>. QED BY <1>1, ReleaseRefinement, PTL DEF ImplementsReleaseRoms

\* What is proved of the builds alone holds with releases, and with bin/ deleted, in between.
THEOREM BuildsUndisturbed ==
  AllSpec => [](TypeOK /\ ImagesAreOwn /\ FullRunNeverAborts /\ OneAddress)
<1>1. AllInv => TypeOK /\ ImagesAreOwn /\ FullRunNeverAborts /\ OneAddress
  BY InvariantSays DEF AllInv
<1>. QED BY <1>1, AllInvariance, PTL

==================================================================================
