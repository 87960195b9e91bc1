-------------------------- MODULE DepthchargeRomsProofs --------------------------
(***************************************************************************)
(* withdepthcharge implements RomShelf and keeps its types, for any        *)
(* boards, requests and numbers of runs and stops.                         *)
(***************************************************************************)
EXTENDS DepthchargeRoms, TLAPS

OwnBuild(b, r) == [coreboot |-> b, vboot |-> b, run |-> r]
Own == {OwnBuild(board, runs)}

AtPacking == {"objcopy", "stage", "collect", "collect ro-frid", "script", "layout", "drop", "place"}
AtWork == {"clean", "make", "tidy"} \cup AtPacking
AtMaster == {"coreboot master", "vboot master"}
AtBoard == {"coreboot branch", "vboot branch"} \cup AtWork \cup AtMaster

\* The board's files are under bin/.
Done == stage = "coreboot" /\ at \in {"tidy"} \cup AtMaster

Where ==
  /\ at \in {"idle", "boards"} \cup AtBoard
  /\ stage \in Stages
  /\ board \in Boards \cup {NoBoard} /\ (at \in AtBoard <=> board # NoBoard)
  /\ at \in AtPacking \cup {"tidy"} => stage = "coreboot"
  /\ outcome \in {"none", "running", "ok", "failed"} /\ (outcome = "running" <=> at # "idle")
  /\ runs \in Nat

\* A stage works on the board's own branches.
Checkouts ==
  /\ branch \in [{"coreboot", "vboot"} -> Boards \cup {"master"}]
  /\ at = "vboot branch" => branch.coreboot = board
  /\ at \in AtWork => branch.coreboot = board /\ branch.vboot = board

\* What a stage takes over was made by the one before it, in this run.
Linked ==
  /\ at \in AtBoard /\ (stage # "libpayload" \/ at \in AtMaster) => libpayload = Own
  /\ at \in AtBoard /\ ( \/ stage = "depthcharge" /\ at \in AtMaster
                         \/ stage = "coreboot" /\ at \notin AtMaster \cup {"tidy"}) => elf = Own

Packed ==
  /\ at \in {"objcopy", "stage", "collect"} =>
       "coreboot.img" \in DOMAIN imgs /\ imgs["coreboot.img"] = Own
  /\ at \in {"stage", "collect", "collect ro-frid"} =>
       "ro-frid.img" \in DOMAIN imgs /\ imgs["ro-frid.img"] = Own
  /\ at = "collect" => staged = NoFiles
  /\ at = "collect ro-frid" => staged = [n \in {"coreboot.img"} |-> Own]
  /\ at = "script" => staged = [n \in PartImages |-> Own]
  /\ at = "layout" => staged = [n \in PartImages \cup {"cros-flash-replace"} |-> Own]
  /\ at \in {"drop", "place"} => staged = [n \in Images |-> Own]
  /\ at = "place" => board \notin dirs /\ DOMAIN shelf[board] = {}

\* The loop comes to each name once.
Loop ==
  /\ todo \in Seq(Names) /\ IsInjective(todo)
  /\ placed \subseteq ToSet(request) \cap Boards
  /\ at # "idle" =>
       /\ ToSet(todo) \subseteq ToSet(request) /\ placed \cap ToSet(todo) = {}
       /\ ToSet(request) \cap Boards \subseteq placed \cup ToSet(todo) \cup {board}
  /\ at \in AtBoard => board \in ToSet(request) \ ToSet(todo) /\ (board \in placed <=> Done)

Shelved ==
  /\ DOMAIN shelf = Boards
  /\ \A b \in Boards : \A n \in DOMAIN shelf[b] : \E r \in Nat : shelf[b][n] = {OwnBuild(b, r)}
  /\ \A b \in placed : shelf[b] = [n \in Images |-> {OwnBuild(b, runs)}]

\* The inductive invariant: what bin/ holds is right because of what the trees hold at
\* every command of a stage.
IInv == Where /\ Checkouts /\ Linked /\ Packed /\ Loop /\ Shelved

USE DEF AtPacking, AtWork, AtMaster, AtBoard

-----------------------------------------------------------------------------

\* What is left of an injective sequence after its head.
LEMMA TakeFirst ==
  ASSUME NEW s \in Seq(Names), s # << >>
  PROVE  /\ Head(s) \in Names /\ Tail(s) \in Seq(Names)
         /\ ToSet(s) = {Head(s)} \cup ToSet(Tail(s))
         /\ IsInjective(s) => IsInjective(Tail(s)) /\ Head(s) \notin ToSet(Tail(s))
<1>1. /\ Len(s) \in Nat /\ Len(s) > 0 /\ DOMAIN s = 1 .. Len(s)
      /\ Head(s) = s[1] /\ \A i \in 1 .. Len(s) : s[i] \in Names
  OBVIOUS
<1>2. /\ Tail(s) \in Seq(Names) /\ Len(Tail(s)) = Len(s) - 1
      /\ DOMAIN Tail(s) = 1 .. Len(s) - 1
      /\ \A i \in 1 .. Len(s) - 1 : Tail(s)[i] = s[i + 1]
  BY <1>1
<1>3. ASSUME NEW x \in ToSet(s), x # Head(s)
      PROVE  x \in ToSet(Tail(s))
  <2>1. PICK i \in 1 .. Len(s) : x = s[i]
    BY <1>1 DEF ToSet
  <2>2. i - 1 \in 1 .. Len(s) - 1 /\ Tail(s)[i - 1] = s[i]
    BY <1>1, <1>2, <1>3, <2>1
  <2>. QED BY <1>2, <2>1, <2>2 DEF ToSet
<1>4. ASSUME NEW i \in 1 .. Len(s) - 1
      PROVE  Tail(s)[i] \in ToSet(s)
  <2>1. i + 1 \in 1 .. Len(s) /\ Tail(s)[i] = s[i + 1]
    BY <1>1, <1>2
  <2>. QED BY <1>1, <2>1 DEF ToSet
<1>5. Head(s) \in ToSet(s)
  BY <1>1 DEF ToSet
<1>6. ToSet(s) = {Head(s)} \cup ToSet(Tail(s))
  <2>1. ToSet(Tail(s)) \subseteq ToSet(s)
    BY <1>2, <1>4 DEF ToSet
  <2>. QED BY <1>3, <1>5, <2>1
<1>7. ASSUME IsInjective(s)
      PROVE  IsInjective(Tail(s)) /\ Head(s) \notin ToSet(Tail(s))
  <2>1. \A i, j \in 1 .. Len(s) : s[i] = s[j] => i = j
    BY <1>1, <1>7 DEF IsInjective
  <2>2. ASSUME NEW i \in 1 .. Len(s) - 1, NEW j \in 1 .. Len(s) - 1, Tail(s)[i] = Tail(s)[j]
        PROVE  i = j
    <3>1. s[i + 1] = s[j + 1] /\ i + 1 \in 1 .. Len(s) /\ j + 1 \in 1 .. Len(s)
      BY <1>1, <1>2, <2>2
    <3>2. i + 1 = j + 1
      BY <2>1, <3>1
    <3>. QED BY <1>1, <3>2
  <2>3. ASSUME NEW i \in 1 .. Len(s) - 1, Tail(s)[i] = Head(s)
        PROVE  FALSE
    <3>1. s[i + 1] = s[1] /\ i + 1 \in 1 .. Len(s) /\ 1 \in 1 .. Len(s) /\ i + 1 # 1
      BY <1>1, <1>2, <2>3
    <3>. QED BY <2>1, <3>1
  <2>. QED BY <1>2, <2>2, <2>3 DEF IsInjective, ToSet
<1>. QED BY <1>1, <1>2, <1>6, <1>7

\* Facts about what is empty.
LEMMA Nothing == /\ ToSet(<< >>) = {} /\ << >> \in Seq(Names) /\ IsInjective(<< >>)
                 /\ DOMAIN NoFiles = {}
BY DEF ToSet, IsInjective, NoFiles

LEMMA InitInv == Init => IInv
<1>. SUFFICES ASSUME Init PROVE IInv
  OBVIOUS
<1>1. Where /\ Checkouts /\ Linked /\ Packed
  BY DEF Init, Where, Checkouts, Linked, Packed, Stages
<1>2. Loop
  BY Nothing DEF Init, Loop
<1>3. Shelved
  BY Nothing DEF Init, Shelved
<1>. QED BY <1>1, <1>2, <1>3 DEF IInv

-----------------------------------------------------------------------------
(* Each action keeps the invariant.                                         *)

LEMMA CheckoutCorebootKeeps ==
  ASSUME IInv, CheckoutCoreboot
  PROVE  IInv'
<1>1. Where'
  BY DEF IInv, Where, CheckoutCoreboot, GoOn, Stages, ends
<1>2. Checkouts'
  BY DEF IInv, Where, Checkouts, CheckoutCoreboot, GoOn
<1>3. Linked'
  BY DEF IInv, Where, Checkouts, Linked, Own, OwnBuild, NowBuilt, CheckoutCoreboot, GoOn, parts, ends
<1>4. Packed'
  BY DEF IInv, Where, Checkouts, Linked, Packed, Own, OwnBuild, NowBuilt, CheckoutCoreboot, GoOn, parts, ends, bin
<1>5. Loop'
  BY DEF IInv, Where, Loop, Done, CheckoutCoreboot, GoOn, loop, ends
<1>6. Shelved'
  BY DEF IInv, Where, Shelved, CheckoutCoreboot, GoOn, ends, bin
<1>. QED BY <1>1, <1>2, <1>3, <1>4, <1>5, <1>6 DEF IInv

LEMMA CheckoutVbootKeeps ==
  ASSUME IInv, CheckoutVboot
  PROVE  IInv'
<1>1. Where'
  BY DEF IInv, Where, CheckoutVboot, GoOn, Stages, ends
<1>2. Checkouts'
  BY DEF IInv, Where, Checkouts, CheckoutVboot, GoOn
<1>3. Linked'
  BY DEF IInv, Where, Checkouts, Linked, Own, OwnBuild, NowBuilt, CheckoutVboot, GoOn, parts, ends
<1>4. Packed'
  BY DEF IInv, Where, Checkouts, Linked, Packed, Own, OwnBuild, NowBuilt, CheckoutVboot, GoOn, parts, ends, bin
<1>5. Loop'
  BY DEF IInv, Where, Loop, Done, CheckoutVboot, GoOn, loop, ends
<1>6. Shelved'
  BY DEF IInv, Where, Shelved, CheckoutVboot, GoOn, ends, bin
<1>. QED BY <1>1, <1>2, <1>3, <1>4, <1>5, <1>6 DEF IInv

LEMMA CleanKeeps ==
  ASSUME IInv, Clean
  PROVE  IInv'
<1>1. Where'
  BY DEF IInv, Where, Clean, GoOn, Stages, ends
<1>2. Checkouts'
  BY DEF IInv, Where, Checkouts, Clean, GoOn
<1>3. Linked'
  BY DEF IInv, Where, Checkouts, Linked, Own, OwnBuild, NowBuilt, Clean, GoOn, parts, ends
<1>4. Packed'
  BY DEF IInv, Where, Checkouts, Linked, Packed, Own, OwnBuild, NowBuilt, Clean, GoOn, parts, ends, bin
<1>5. Loop'
  BY DEF IInv, Where, Loop, Done, Clean, GoOn, loop, ends
<1>6. Shelved'
  BY DEF IInv, Where, Shelved, Clean, GoOn, ends, bin
<1>. QED BY <1>1, <1>2, <1>3, <1>4, <1>5, <1>6 DEF IInv

LEMMA MakeLibpayloadKeeps ==
  ASSUME IInv, MakeLibpayload
  PROVE  IInv'
<1>1. Where'
  BY DEF IInv, Where, MakeLibpayload, GoOn, Stages, ends
<1>2. Checkouts'
  BY DEF IInv, Where, Checkouts, MakeLibpayload, GoOn
<1>3. Linked'
  BY DEF IInv, Where, Checkouts, Linked, Own, OwnBuild, NowBuilt, MakeLibpayload, GoOn, parts, ends
<1>4. Packed'
  BY DEF IInv, Where, Checkouts, Linked, Packed, Own, OwnBuild, NowBuilt, MakeLibpayload, GoOn, parts, ends, bin
<1>5. Loop'
  BY DEF IInv, Where, Loop, Done, MakeLibpayload, GoOn, loop, ends
<1>6. Shelved'
  BY DEF IInv, Where, Shelved, MakeLibpayload, GoOn, ends, bin
<1>. QED BY <1>1, <1>2, <1>3, <1>4, <1>5, <1>6 DEF IInv

LEMMA MakeDepthchargeKeeps ==
  ASSUME IInv, MakeDepthcharge
  PROVE  IInv'
<1>1. Where'
  BY DEF IInv, Where, MakeDepthcharge, GoOn, Stages, ends
<1>2. Checkouts'
  BY DEF IInv, Where, Checkouts, MakeDepthcharge, GoOn
<1>3. Linked'
  BY DEF IInv, Where, Checkouts, Linked, Own, OwnBuild, NowBuilt, MakeDepthcharge, GoOn, parts, ends
<1>4. Packed'
  BY DEF IInv, Where, Checkouts, Linked, Packed, Own, OwnBuild, NowBuilt, MakeDepthcharge, GoOn, parts, ends, bin
<1>5. Loop'
  BY DEF IInv, Where, Loop, Done, MakeDepthcharge, GoOn, loop, ends
<1>6. Shelved'
  BY DEF IInv, Where, Shelved, MakeDepthcharge, GoOn, ends, bin
<1>. QED BY <1>1, <1>2, <1>3, <1>4, <1>5, <1>6 DEF IInv

LEMMA MakeCorebootKeeps ==
  ASSUME IInv, MakeCoreboot
  PROVE  IInv'
<1>1. Where'
  BY DEF IInv, Where, MakeCoreboot, GoOn, Stages, ends
<1>2. Checkouts'
  BY DEF IInv, Where, Checkouts, MakeCoreboot, GoOn
<1>3. Linked'
  BY DEF IInv, Where, Checkouts, Linked, Own, OwnBuild, NowBuilt, MakeCoreboot, GoOn, parts, ends
<1>4. Packed'
  <2>1. imgs' = With(imgs, "coreboot.img", Own) /\ at' = "objcopy" /\ UNCHANGED <<board, runs>>
    BY DEF IInv, Where, Checkouts, Linked, Own, OwnBuild, NowBuilt, MakeCoreboot, GoOn, ends
  <2>2. "coreboot.img" \in DOMAIN imgs' /\ imgs'["coreboot.img"] = Own'
    BY <2>1 DEF With, Own
  <2>. QED BY <2>1, <2>2 DEF Packed
<1>5. Loop'
  BY DEF IInv, Where, Loop, Done, MakeCoreboot, GoOn, loop, ends
<1>6. Shelved'
  BY DEF IInv, Where, Shelved, MakeCoreboot, GoOn, ends, bin
<1>. QED BY <1>1, <1>2, <1>3, <1>4, <1>5, <1>6 DEF IInv

LEMMA MakeRoFridKeeps ==
  ASSUME IInv, MakeRoFrid
  PROVE  IInv'
<1>1. Where'
  BY DEF IInv, Where, MakeRoFrid, GoOn, Stages, ends
<1>2. Checkouts'
  BY DEF IInv, Where, Checkouts, MakeRoFrid, GoOn
<1>3. Linked'
  BY DEF IInv, Where, Checkouts, Linked, Own, OwnBuild, NowBuilt, MakeRoFrid, GoOn, parts, ends
<1>4. Packed'
  <2>1. /\ imgs' = With(imgs, "ro-frid.img", Own) /\ at' = "stage" /\ UNCHANGED <<board, runs>>
        /\ "coreboot.img" \in DOMAIN imgs /\ imgs["coreboot.img"] = Own
    BY DEF IInv, Where, Checkouts, Packed, Own, OwnBuild, NowBuilt, MakeRoFrid, GoOn, ends
  <2>2. /\ "ro-frid.img" \in DOMAIN imgs' /\ imgs'["ro-frid.img"] = Own'
        /\ "coreboot.img" \in DOMAIN imgs' /\ imgs'["coreboot.img"] = Own'
    BY <2>1 DEF With, Own
  <2>. QED BY <2>1, <2>2 DEF Packed
<1>5. Loop'
  BY DEF IInv, Where, Loop, Done, MakeRoFrid, GoOn, loop, ends
<1>6. Shelved'
  BY DEF IInv, Where, Shelved, MakeRoFrid, GoOn, ends, bin
<1>. QED BY <1>1, <1>2, <1>3, <1>4, <1>5, <1>6 DEF IInv

LEMMA EmptyStageKeeps ==
  ASSUME IInv, EmptyStage
  PROVE  IInv'
<1>1. Where'
  BY DEF IInv, Where, EmptyStage, GoOn, Stages, ends
<1>2. Checkouts'
  BY DEF IInv, Where, Checkouts, EmptyStage, GoOn
<1>3. Linked'
  BY DEF IInv, Where, Checkouts, Linked, Own, OwnBuild, NowBuilt, EmptyStage, GoOn, parts, ends
<1>4. Packed'
  BY DEF IInv, Where, Checkouts, Linked, Packed, Own, OwnBuild, NowBuilt, EmptyStage, GoOn, parts, ends, bin
<1>5. Loop'
  BY DEF IInv, Where, Loop, Done, EmptyStage, GoOn, loop, ends
<1>6. Shelved'
  BY DEF IInv, Where, Shelved, EmptyStage, GoOn, ends, bin
<1>. QED BY <1>1, <1>2, <1>3, <1>4, <1>5, <1>6 DEF IInv

LEMMA MovePartKeeps ==
  ASSUME IInv, MovePart
  PROVE  IInv'
<1>1. Where'
  BY DEF IInv, Where, MovePart, GoOn, Stages, ends
<1>2. Checkouts'
  BY DEF IInv, Where, Checkouts, MovePart, GoOn
<1>3. Linked'
  BY DEF IInv, Where, Checkouts, Linked, Own, OwnBuild, NowBuilt, MovePart, GoOn, parts, ends
<1>4. Packed'
  <2>1. UNCHANGED <<board, runs>>
    BY DEF MovePart, GoOn, ends
  <2>2. CASE at = "collect"
    <3>1. /\ staged = NoFiles /\ imgs["coreboot.img"] = Own
          /\ "ro-frid.img" \in DOMAIN imgs /\ imgs["ro-frid.img"] = Own
      BY <2>2 DEF IInv, Packed
    <3>2. /\ at' = "collect ro-frid" /\ staged' = With(staged, "coreboot.img", imgs["coreboot.img"])
          /\ imgs' = Without(imgs, "coreboot.img")
      BY <2>2 DEF MovePart, GoOn
    <3>3. staged' = [n \in {"coreboot.img"} |-> Own]
      BY <3>1, <3>2, Nothing DEF With
    <3>4. "ro-frid.img" \in DOMAIN imgs' /\ imgs'["ro-frid.img"] = Own
      BY <3>1, <3>2 DEF Without
    <3>. QED BY <2>1, <3>2, <3>3, <3>4 DEF Packed, Own
  <2>3. CASE at = "collect ro-frid"
    <3>1. staged = [n \in {"coreboot.img"} |-> Own] /\ imgs["ro-frid.img"] = Own
      BY <2>3 DEF IInv, Packed
    <3>2. at' = "script" /\ staged' = With(staged, "ro-frid.img", imgs["ro-frid.img"])
      BY <2>3 DEF MovePart, GoOn
    <3>3. staged' = [n \in {"coreboot.img"} \cup {"ro-frid.img"} |-> Own]
      BY <3>1, <3>2 DEF With
    <3>4. {"coreboot.img"} \cup {"ro-frid.img"} = PartImages
      BY DEF PartImages
    <3>. QED BY <2>1, <3>2, <3>3, <3>4 DEF Packed, Own
  <2>. QED BY <2>2, <2>3 DEF MovePart, GoOn
<1>5. Loop'
  BY DEF IInv, Where, Loop, Done, MovePart, GoOn, loop, ends
<1>6. Shelved'
  BY DEF IInv, Where, Shelved, MovePart, GoOn, ends, bin
<1>. QED BY <1>1, <1>2, <1>3, <1>4, <1>5, <1>6 DEF IInv

LEMMA CopyHelperKeeps ==
  ASSUME IInv, CopyHelper
  PROVE  IInv'
<1>1. Where'
  BY DEF IInv, Where, CopyHelper, GoOn, Stages, ends
<1>2. Checkouts'
  BY DEF IInv, Where, Checkouts, CopyHelper, GoOn
<1>3. Linked'
  BY DEF IInv, Where, Checkouts, Linked, Own, OwnBuild, NowBuilt, CopyHelper, GoOn, parts, ends
<1>4. Packed'
  <2>1. UNCHANGED <<board, runs>> /\ {NowBuilt} = Own
    BY DEF CopyHelper, GoOn, ends, IInv, Where, Checkouts, NowBuilt, Own, OwnBuild
  <2>2. CASE at = "script"
    <3>1. staged = [n \in PartImages |-> Own]
      BY <2>2 DEF IInv, Packed
    <3>2. at' = "layout" /\ staged' = With(staged, "cros-flash-replace", {NowBuilt})
      BY <2>2 DEF CopyHelper, GoOn
    <3>3. staged' = [n \in PartImages \cup {"cros-flash-replace"} |-> Own]
      BY <2>1, <3>1, <3>2 DEF With
    <3>. QED BY <2>1, <3>2, <3>3 DEF Packed, Own
  <2>3. CASE at = "layout"
    <3>1. staged = [n \in PartImages \cup {"cros-flash-replace"} |-> Own]
      BY <2>3 DEF IInv, Packed
    <3>2. at' = "drop" /\ staged' = With(staged, "layout.txt", {NowBuilt})
      BY <2>3 DEF CopyHelper, GoOn
    <3>3. staged' = [n \in (PartImages \cup {"cros-flash-replace"}) \cup {"layout.txt"} |-> Own]
      BY <2>1, <3>1, <3>2 DEF With
    <3>4. (PartImages \cup {"cros-flash-replace"}) \cup {"layout.txt"} = Images
      BY DEF Images, Helpers
    <3>. QED BY <2>1, <3>2, <3>3, <3>4 DEF Packed, Own
  <2>. QED BY <2>2, <2>3 DEF CopyHelper, GoOn
<1>5. Loop'
  BY DEF IInv, Where, Loop, Done, CopyHelper, GoOn, loop, ends
<1>6. Shelved'
  BY DEF IInv, Where, Shelved, CopyHelper, GoOn, ends, bin
<1>. QED BY <1>1, <1>2, <1>3, <1>4, <1>5, <1>6 DEF IInv

LEMMA DropFileKeeps ==
  ASSUME IInv, DropFile
  PROVE  IInv'
<1>1. Where'
  BY DEF IInv, Where, DropFile, GoOn, Stages, ends
<1>2. Checkouts'
  BY DEF IInv, Where, Checkouts, DropFile, GoOn
<1>3. Linked'
  BY DEF IInv, Where, Checkouts, Linked, Own, OwnBuild, NowBuilt, DropFile, GoOn, parts, ends
<1>4. Packed'
  BY DEF IInv, Where, Checkouts, Linked, Packed, Own, OwnBuild, NowBuilt, DropFile, GoOn, parts, ends, bin
<1>5. Loop'
  BY DEF IInv, Where, Loop, Done, DropFile, GoOn, loop, ends
<1>6. Shelved'
  <2>1. /\ board \in Boards \ placed /\ UNCHANGED <<placed, runs>> /\ DOMAIN shelf = Boards
    BY DEF IInv, Where, Loop, Shelved, Done, DropFile, GoOn, ends
  <2>2. PICK n \in DOMAIN shelf[board] : shelf' = [shelf EXCEPT ![board] = Without(@, n)]
    BY DEF DropFile
  <2>3. /\ DOMAIN shelf' = Boards /\ shelf'[board] = Without(shelf[board], n)
        /\ \A b \in Boards : b # board => shelf'[b] = shelf[b]
    BY <2>1, <2>2
  <2>4. \A m \in DOMAIN shelf'[board] : m \in DOMAIN shelf[board] /\ shelf'[board][m] = shelf[board][m]
    BY <2>3 DEF Without
  <2>5. \A b \in placed : b \in Boards /\ b # board
    BY <2>1 DEF IInv, Loop
  <2>. QED BY <2>1, <2>3, <2>4, <2>5 DEF IInv, Shelved
<1>. QED BY <1>1, <1>2, <1>3, <1>4, <1>5, <1>6 DEF IInv

LEMMA DropDirectoryKeeps ==
  ASSUME IInv, DropDirectory
  PROVE  IInv'
<1>1. Where'
  BY DEF IInv, Where, DropDirectory, GoOn, Stages, ends
<1>2. Checkouts'
  BY DEF IInv, Where, Checkouts, DropDirectory, GoOn
<1>3. Linked'
  BY DEF IInv, Where, Checkouts, Linked, Own, OwnBuild, NowBuilt, DropDirectory, GoOn, parts, ends
<1>4. Packed'
  BY DEF IInv, Where, Checkouts, Linked, Packed, Own, OwnBuild, NowBuilt, DropDirectory, GoOn, parts, ends, bin
<1>5. Loop'
  BY DEF IInv, Where, Loop, Done, DropDirectory, GoOn, loop, ends
<1>6. Shelved'
  BY DEF IInv, Where, Shelved, DropDirectory, GoOn, ends, bin
<1>. QED BY <1>1, <1>2, <1>3, <1>4, <1>5, <1>6 DEF IInv

LEMMA TidyKeeps ==
  ASSUME IInv, Tidy
  PROVE  IInv'
<1>1. Where'
  BY DEF IInv, Where, Tidy, GoOn, Stages, ends
<1>2. Checkouts'
  BY DEF IInv, Where, Checkouts, Tidy, GoOn
<1>3. Linked'
  BY DEF IInv, Where, Checkouts, Linked, Own, OwnBuild, NowBuilt, Tidy, GoOn, parts, ends
<1>4. Packed'
  BY DEF IInv, Where, Checkouts, Linked, Packed, Own, OwnBuild, NowBuilt, Tidy, GoOn, parts, ends, bin
<1>5. Loop'
  BY DEF IInv, Where, Loop, Done, Tidy, GoOn, loop, ends
<1>6. Shelved'
  BY DEF IInv, Where, Shelved, Tidy, GoOn, ends, bin
<1>. QED BY <1>1, <1>2, <1>3, <1>4, <1>5, <1>6 DEF IInv

LEMMA MasterCorebootKeeps ==
  ASSUME IInv, MasterCoreboot
  PROVE  IInv'
<1>1. Where'
  BY DEF IInv, Where, MasterCoreboot, GoOn, Stages, ends
<1>2. Checkouts'
  BY DEF IInv, Where, Checkouts, MasterCoreboot, GoOn
<1>3. Linked'
  BY DEF IInv, Where, Checkouts, Linked, Own, OwnBuild, NowBuilt, MasterCoreboot, GoOn, parts, ends
<1>4. Packed'
  BY DEF IInv, Where, Checkouts, Linked, Packed, Own, OwnBuild, NowBuilt, MasterCoreboot, GoOn, parts, ends, bin
<1>5. Loop'
  BY DEF IInv, Where, Loop, Done, MasterCoreboot, GoOn, loop, ends
<1>6. Shelved'
  BY DEF IInv, Where, Shelved, MasterCoreboot, GoOn, ends, bin
<1>. QED BY <1>1, <1>2, <1>3, <1>4, <1>5, <1>6 DEF IInv

LEMMA StartKeeps ==
  ASSUME IInv, Start
  PROVE  IInv'
<1>1. Where'
  BY DEF IInv, Where, Start, Stages, ends
<1>2. Checkouts'
  BY DEF IInv, Where, Checkouts, Start
<1>3. Linked'
  BY DEF IInv, Where, Linked, Own, OwnBuild, Start, parts, ends
<1>4. Packed'
  BY DEF IInv, Where, Packed, Own, OwnBuild, Start, parts, ends, bin
<1>5. Loop'
  <2>1. PICK names \in Requests : request' = names /\ todo' = names
    BY DEF Start
  <2>2. names \in Seq(Names) /\ IsInjective(names)
    BY DepthchargeAssumption
  <2>3. at' = "boards" /\ placed' = {}
    BY DEF Start
  <2>. QED BY <2>1, <2>2, <2>3 DEF Loop
<1>6. Shelved'
  BY DEF IInv, Where, Shelved, Start, ends, bin
<1>. QED BY <1>1, <1>2, <1>3, <1>4, <1>5, <1>6 DEF IInv

LEMMA NextBoardKeeps ==
  ASSUME IInv, NextBoard
  PROVE  IInv'
<1>. DEFINE b == Head(todo)
<1>a. /\ at = "boards" /\ b \in Boards /\ b # NoBoard
      /\ board' = b /\ todo' = Tail(todo) /\ stage' = "libpayload" /\ at' = "coreboot branch"
  BY DepthchargeAssumption DEF NextBoard
<1>b. /\ todo' \in Seq(Names) /\ IsInjective(todo')
      /\ ToSet(todo) = {b} \cup ToSet(todo') /\ b \notin ToSet(todo')
  <2>1. todo \in Seq(Names) /\ IsInjective(todo) /\ todo # << >>
    BY DEF IInv, Loop, NextBoard
  <2>. QED BY <1>a, <2>1, TakeFirst
<1>. HIDE DEF b
<1>1. Where'
  BY <1>a DEF IInv, Where, NextBoard, Stages, ends
<1>2. Checkouts'
  BY DEF IInv, Where, Checkouts, NextBoard
<1>3. Linked'
  BY DEF IInv, Where, Linked, Own, OwnBuild, NextBoard, parts, ends
<1>4. Packed'
  BY DEF IInv, Where, Packed, Own, OwnBuild, NextBoard, parts, ends, bin
<1>5. Loop'
  <2>1. /\ board = NoBoard /\ NoBoard \notin Boards
        /\ UNCHANGED <<request, placed>>
    BY <1>a, DepthchargeAssumption DEF IInv, Where, NextBoard, ends
  <2>2. /\ placed \subseteq ToSet(request) \cap Boards
        /\ ToSet(todo) \subseteq ToSet(request) /\ placed \cap ToSet(todo) = {}
        /\ ToSet(request) \cap Boards \subseteq placed \cup ToSet(todo)
    BY <1>a, <2>1 DEF IInv, Loop
  <2>. QED BY <1>a, <1>b, <2>1, <2>2 DEF Loop, Done
<1>6. Shelved'
  BY DEF IInv, Where, Shelved, NextBoard, ends, bin
<1>. QED BY <1>1, <1>2, <1>3, <1>4, <1>5, <1>6 DEF IInv

LEMMA UnknownBoardKeeps ==
  ASSUME IInv, UnknownBoard
  PROVE  IInv'
<1>1. Where'
  BY DEF IInv, Where, UnknownBoard, Ends, Stages, ends
<1>2. Checkouts'
  BY DEF IInv, Where, Checkouts, UnknownBoard, Ends
<1>3. Linked'
  BY DEF IInv, Where, Linked, Own, OwnBuild, UnknownBoard, Ends, parts, ends
<1>4. Packed'
  BY DEF IInv, Where, Packed, Own, OwnBuild, UnknownBoard, Ends, parts, ends, bin
<1>5. Loop'
  BY Nothing DEF IInv, Where, Loop, Done, UnknownBoard, Ends, loop, ends
<1>6. Shelved'
  BY DEF IInv, Where, Shelved, UnknownBoard, Ends, ends, bin
<1>. QED BY <1>1, <1>2, <1>3, <1>4, <1>5, <1>6 DEF IInv

LEMMA BoardsDoneKeeps ==
  ASSUME IInv, BoardsDone
  PROVE  IInv'
<1>1. Where'
  BY DEF IInv, Where, BoardsDone, Ends, Stages, ends
<1>2. Checkouts'
  BY DEF IInv, Where, Checkouts, BoardsDone, Ends
<1>3. Linked'
  BY DEF IInv, Where, Linked, Own, OwnBuild, BoardsDone, Ends, parts, ends
<1>4. Packed'
  BY DEF IInv, Where, Packed, Own, OwnBuild, BoardsDone, Ends, parts, ends, bin
<1>5. Loop'
  BY Nothing DEF IInv, Where, Loop, Done, BoardsDone, Ends, loop, ends
<1>6. Shelved'
  BY DEF IInv, Where, Shelved, BoardsDone, Ends, ends, bin
<1>. QED BY <1>1, <1>2, <1>3, <1>4, <1>5, <1>6 DEF IInv

LEMMA MasterVbootKeeps ==
  ASSUME IInv, MasterVboot
  PROVE  IInv'
<1>a. /\ at = "vboot master" /\ board \in Boards /\ stage \in Stages /\ outcome = "running"
      /\ UNCHANGED <<loop, parts, staged, bin, ends>>
      /\ branch' = [branch EXCEPT !.vboot = "master"]
  BY DEF IInv, Where, MasterVboot
<1>b. \/ /\ stage \in {"libpayload", "depthcharge"} /\ at' = "coreboot branch" /\ board' = board
         /\ stage' = IF stage = "libpayload" THEN "depthcharge" ELSE "coreboot"
      \/ stage = "coreboot" /\ stage' = "libpayload" /\ at' = "boards" /\ board' = NoBoard
  <2>1. CASE stage = "libpayload"
    BY <2>1 DEF MasterVboot, NextStage
  <2>2. CASE stage = "depthcharge"
    BY <2>2 DEF MasterVboot, NextStage
  <2>3. CASE stage = "coreboot"
    BY <2>3 DEF MasterVboot, NextStage
  <2>. QED BY <1>a, <2>1, <2>2, <2>3 DEF Stages
<1>1. Where'
  BY <1>a, <1>b DEF IInv, Where, Stages, ends
<1>2. Checkouts'
  BY <1>a, <1>b DEF IInv, Where, Checkouts
<1>3. Linked'
  BY <1>a, <1>b DEF IInv, Where, Linked, Own, OwnBuild, parts, ends
<1>4. Packed'
  BY <1>a, <1>b DEF IInv, Where, Packed, Own, OwnBuild, parts, ends, bin
<1>5. Loop'
  BY <1>a, <1>b DEF IInv, Where, Loop, Done, loop, ends
<1>6. Shelved'
  BY <1>a, <1>b DEF IInv, Where, Shelved, ends, bin
<1>. QED BY <1>1, <1>2, <1>3, <1>4, <1>5, <1>6 DEF IInv

LEMMA PlaceImagesKeeps ==
  ASSUME IInv, PlaceImages
  PROVE  IInv'
<1>1. Where'
  BY DEF IInv, Where, PlaceImages, Stages, ends
<1>2. Checkouts'
  BY DEF IInv, Where, Checkouts, PlaceImages
<1>3. Linked'
  BY DEF IInv, Where, Linked, Own, OwnBuild, PlaceImages, parts, ends
<1>4. Packed'
  BY DEF IInv, Where, Packed, Own, OwnBuild, PlaceImages, parts, ends, bin
<1>5. Loop'
  BY Nothing DEF IInv, Where, Loop, Done, PlaceImages, loop, ends
<1>6. Shelved'
  <2>1. /\ board \in Boards \ dirs /\ runs \in Nat /\ DOMAIN shelf = Boards
        /\ staged = [n \in Images |-> Own]
    BY DEF IInv, Where, Packed, Shelved, PlaceImages
  <2>2. /\ shelf' = [shelf EXCEPT ![board] = staged] /\ placed' = placed \cup {board}
        /\ UNCHANGED <<board, runs>>
    BY <2>1 DEF PlaceImages
  <2>3. /\ DOMAIN shelf' = Boards /\ shelf'[board] = [n \in Images |-> {OwnBuild(board, runs)}]
        /\ \A b \in Boards : b # board => shelf'[b] = shelf[b]
    BY <2>1, <2>2 DEF Own
  <2>4. placed \subseteq Boards
    BY DEF IInv, Loop
  <2>5. ASSUME NEW b \in Boards, NEW n \in DOMAIN shelf'[b]
        PROVE  \E r \in Nat : shelf'[b][n] = {OwnBuild(b, r)}
    BY <2>1, <2>3, <2>5 DEF IInv, Shelved
  <2>6. ASSUME NEW b \in placed'
        PROVE  shelf'[b] = [n \in Images |-> {OwnBuild(b, runs')}]
    <3>1. CASE b = board
      BY <2>2, <2>3, <3>1
    <3>2. CASE b # board
      <4>1. b \in placed /\ b \in Boards /\ runs' = runs
        BY <2>2, <2>4, <2>6, <3>2
      <4>. QED BY <2>3, <3>2, <4>1 DEF IInv, Shelved
    <3>. QED BY <3>1, <3>2
  <2>. QED BY <2>3, <2>5, <2>6 DEF Shelved
<1>. QED BY <1>1, <1>2, <1>3, <1>4, <1>5, <1>6 DEF IInv

LEMMA StopKeeps ==
  ASSUME IInv, Stop
  PROVE  IInv'
<1>1. Where'
  BY DEF IInv, Where, Stop, Ends, Stages, ends
<1>2. Checkouts'
  BY DEF IInv, Where, Checkouts, Stop, Ends
<1>3. Linked'
  BY DEF IInv, Where, Linked, Own, OwnBuild, Stop, Ends, parts, ends
<1>4. Packed'
  BY DEF IInv, Where, Packed, Own, OwnBuild, Stop, Ends, parts, ends, bin
<1>5. Loop'
  BY Nothing DEF IInv, Where, Loop, Done, Stop, Ends, loop, ends
<1>6. Shelved'
  BY DEF IInv, Where, Shelved, Stop, Ends, ends, bin
<1>. QED BY <1>1, <1>2, <1>3, <1>4, <1>5, <1>6 DEF IInv

LEMMA NextInv == IInv /\ [Next]_vars => IInv'
<1>. SUFFICES ASSUME IInv, [Next]_vars
              PROVE  IInv'
  OBVIOUS
<1>1. CASE UNCHANGED vars
  <2>. USE DEF vars, loop, parts, bin, ends
  <2>1. Where' /\ Checkouts'
    BY <1>1 DEF IInv, Where, Checkouts
  <2>2. Linked' /\ Packed'
    BY <1>1 DEF IInv, Linked, Packed, Own
  <2>3. Loop' /\ Shelved'
    BY <1>1 DEF IInv, Loop, Done, Shelved
  <2>. QED BY <2>1, <2>2, <2>3 DEF IInv
<1>2. CASE Next
  BY <1>2, StartKeeps, NextBoardKeeps, UnknownBoardKeeps, BoardsDoneKeeps, CheckoutCorebootKeeps,
     CheckoutVbootKeeps, CleanKeeps, MakeLibpayloadKeeps, MakeDepthchargeKeeps, MakeCorebootKeeps,
     MakeRoFridKeeps, EmptyStageKeeps, MovePartKeeps, CopyHelperKeeps, DropFileKeeps,
     DropDirectoryKeeps, PlaceImagesKeeps, TidyKeeps, MasterCorebootKeeps, MasterVbootKeeps,
     StopKeeps DEF Next
<1>. QED BY <1>1, <1>2

\* What a stage takes over, what is packed and what is under bin/ is the board's own, at
\* every command.
THEOREM Invariance == Spec => []IInv
BY InitInv, NextInv, PTL DEF Spec

\* Whatever a board has under bin/ was built on its own branches in all three stages,
\* and in one run, for any boards and requests, wherever runs are stopped
\* (withdepthcharge:60-170).
THEOREM PartsStayOwn == Spec => []OwnParts
<1>1. IInv => OwnParts
  BY DEF IInv, Shelved, OwnParts, OwnBuild
<1>. QED BY <1>1, Invariance, PTL

-----------------------------------------------------------------------------
(* Types.                                                                   *)

FilesOf(f, names) == \A n \in DOMAIN f : n \in names /\ f[n] \in Contents

\* What is in the trees and under bin/ was built in some run.
Typed ==
  /\ runs <= MaxRuns /\ (at # "idle" => runs # 0)
  /\ libpayload \in Contents /\ elf \in Contents
  /\ FilesOf(imgs, PartImages) /\ FilesOf(staged, Images)
  /\ \A b \in Boards : FilesOf(shelf[b], Images)
  /\ dirs \subseteq Boards

\* What is built now is a build.
LEMMA NowIsBuild ==
  ASSUME IInv, Typed, at # "idle"
  PROVE  {NowBuilt} \in Contents
<1>1. runs \in 1 .. MaxRuns
  <2>1. runs \in Nat /\ MaxRuns \in Nat
    BY DepthchargeAssumption DEF IInv, Where
  <2>. QED BY <2>1 DEF Typed
<1>2. branch.coreboot \in Boards \cup {"master"} /\ branch.vboot \in Boards \cup {"master"}
  BY DEF IInv, Checkouts
<1>. QED BY <1>1, <1>2 DEF NowBuilt, Contents, Build

\* Files put with others, and those that are left.
LEMMA FilesPut ==
  ASSUME NEW f, NEW names, FilesOf(f, names)
  PROVE  /\ \A x \in names, v \in Contents : FilesOf(With(f, x, v), names)
         /\ \A x : FilesOf(Without(f, x), names)
         /\ FilesOf(NoFiles, names)
BY DEF FilesOf, With, Without, NoFiles

LEMMA InitTyped == Init => Typed
<1>1. \A names : FilesOf(NoFiles, names)
  BY DEF FilesOf, NoFiles
<1>2. MaxRuns \in Nat
  BY DepthchargeAssumption
<1>. QED BY <1>1, <1>2 DEF Init, Typed, Contents

\* Every step keeps the types.
LEMMA StepTyped == IInv /\ Typed /\ [Next]_vars => Typed'
<1>. SUFFICES ASSUME IInv, Typed, [Next]_vars PROVE Typed'
  OBVIOUS
<1>. USE DEF loop, parts, bin, ends
<1>1. CASE Start
  BY <1>1, DepthchargeAssumption DEF Start, Typed, FilesOf, IInv, Where
<1>2. CASE NextBoard
  BY <1>2 DEF NextBoard, Typed, FilesOf
<1>3. CASE UnknownBoard \/ BoardsDone \/ Stop
  BY <1>3 DEF UnknownBoard, BoardsDone, Stop, Ends, Typed, FilesOf
<1>4. CASE CheckoutCoreboot \/ CheckoutVboot \/ MasterCoreboot
  BY <1>4 DEF CheckoutCoreboot, CheckoutVboot, MasterCoreboot, GoOn, Typed, FilesOf
<1>5. CASE Clean
  BY <1>5, FilesPut DEF Clean, GoOn, Typed, FilesOf, Contents
<1>6. CASE MakeLibpayload
  BY <1>6, NowIsBuild DEF MakeLibpayload, GoOn, Typed, FilesOf
<1>7. CASE MakeDepthcharge
  <2>1. libpayload \cup {NowBuilt} \in Contents
    BY <1>7, NowIsBuild DEF MakeDepthcharge, GoOn, Typed, Contents
  <2>. QED BY <1>7, <2>1 DEF MakeDepthcharge, GoOn, Typed, FilesOf
<1>8. CASE MakeCoreboot
  <2>1. elf \cup {NowBuilt} \in Contents
    BY <1>8, NowIsBuild DEF MakeCoreboot, GoOn, Typed, Contents
  <2>2. FilesOf(imgs', PartImages)
    BY <1>8, <2>1, FilesPut DEF MakeCoreboot, Typed, PartImages
  <2>. QED BY <1>8, <2>2 DEF MakeCoreboot, GoOn, Typed, FilesOf
<1>9. CASE MakeRoFrid
  <2>1. FilesOf(imgs', PartImages)
    BY <1>9, NowIsBuild, FilesPut DEF MakeRoFrid, GoOn, Typed, PartImages
  <2>. QED BY <1>9, <2>1 DEF MakeRoFrid, GoOn, Typed, FilesOf
<1>10. CASE EmptyStage
  BY <1>10, FilesPut DEF EmptyStage, GoOn, Typed, FilesOf
<1>11. CASE MovePart
  <2>1. \/ /\ staged' = With(staged, "coreboot.img", imgs["coreboot.img"])
           /\ imgs' = Without(imgs, "coreboot.img") /\ imgs["coreboot.img"] \in Contents
        \/ /\ staged' = With(staged, "ro-frid.img", imgs["ro-frid.img"])
           /\ imgs' = Without(imgs, "ro-frid.img") /\ imgs["ro-frid.img"] \in Contents
    BY <1>11 DEF MovePart, GoOn, IInv, Packed, Typed, FilesOf
  <2>2. FilesOf(imgs', PartImages) /\ FilesOf(staged', Images)
    BY <2>1, FilesPut DEF Typed, Images, PartImages
  <2>. QED BY <1>11, <2>2 DEF MovePart, GoOn, Typed, FilesOf
<1>12. CASE CopyHelper
  <2>1. FilesOf(staged', Images)
    <3>1. {NowBuilt} \in Contents
      BY <1>12, NowIsBuild DEF CopyHelper, GoOn
    <3>2. \E x \in Images : staged' = With(staged, x, {NowBuilt})
      BY <1>12 DEF CopyHelper, Images, Helpers
    <3>. QED BY <3>1, <3>2, FilesPut DEF Typed
  <2>. QED BY <1>12, <2>1 DEF CopyHelper, GoOn, Typed, FilesOf
<1>13. CASE DropFile
  <2>1. \A b \in Boards : FilesOf(shelf'[b], Images)
    BY <1>13, FilesPut DEF DropFile, Typed, IInv, Shelved
  <2>. QED BY <1>13, <2>1 DEF DropFile, GoOn, Typed, FilesOf
<1>14. CASE DropDirectory
  BY <1>14 DEF DropDirectory, GoOn, Typed, FilesOf
<1>15. CASE PlaceImages
  <2>1. \A b \in Boards : FilesOf(shelf'[b], Images)
    BY <1>15 DEF PlaceImages, Typed, IInv, Shelved
  <2>2. FilesOf(staged', Images)
    BY <1>15, FilesPut DEF PlaceImages, Typed
  <2>3. board \in Boards
    BY <1>15 DEF PlaceImages, IInv, Where
  <2>. QED BY <1>15, <2>1, <2>2, <2>3 DEF PlaceImages, Typed, FilesOf
<1>16. CASE Tidy
  BY <1>16, FilesPut DEF Tidy, GoOn, Typed, FilesOf, Contents
<1>17. CASE MasterVboot
  BY <1>17 DEF MasterVboot, Typed, FilesOf
<1>18. CASE UNCHANGED vars
  BY <1>18 DEF vars, Typed, FilesOf
<1>. QED
  BY <1>1, <1>2, <1>3, <1>4, <1>5, <1>6, <1>7, <1>8, <1>9, <1>10, <1>11, <1>12, <1>13, <1>14,
     <1>15, <1>16, <1>17, <1>18 DEF Next

\* Every variable keeps its type, for any boards, requests and numbers of runs and
\* stops: what is in a file is a set of builds, and there is a board in hand at the
\* commands of a board (withdepthcharge:60-170).
THEOREM TypeCorrect == Spec => []TypeOK
<1>1. IInv /\ Typed => TypeOK
  BY DEF IInv, Where, Checkouts, Packed, Loop, Typed, FilesOf, TypeOK
<1>2. IInv /\ Typed /\ [Next]_vars => Typed'
  BY StepTyped
<1>. QED BY InitTyped, Invariance, <1>1, <1>2, PTL DEF Spec

-----------------------------------------------------------------------------
(* The refinement.                                                          *)

\* The age of a file that holds one build.
LEMMA AgeOfOwn ==
  ASSUME NEW b, NEW r \in Nat
  PROVE  Age({OwnBuild(b, r)}) = r
<1>1. {made.run : made \in {OwnBuild(b, r)}} = {r}
  BY DEF OwnBuild
<1>. QED BY <1>1 DEF Age

LEMMA InitRefines == Init => Shelf!Init
BY Nothing DEF Init, Shelf!Init, NoFiles

LEMMA StartRefines ==
  ASSUME IInv, Start
  PROVE  Shelf!Next
<1>1. /\ outcome # "running" /\ outcome' = "running" /\ placed' = {}
      /\ runs \in Nat /\ runs' = runs + 1 /\ shelf' = shelf
  BY DEF IInv, Where, Start, bin
<1>2. runs' # 0
  BY <1>1
<1>3. Shelf!Begin(Boards, ToSet(request') \cap Boards)
  BY <1>1, <1>2 DEF Shelf!Begin
<1>. QED BY <1>3 DEF Shelf!Next

LEMMA FailureRefines ==
  ASSUME IInv, UnknownBoard \/ Stop
  PROVE  Shelf!Next
<1>1. /\ outcome = "running" /\ outcome' = "failed"
      /\ UNCHANGED <<shelf, request, placed, runs>>
  BY DEF IInv, Where, UnknownBoard, Stop, Ends, bin
<1>2. Shelf!Fail
  BY <1>1 DEF Shelf!Fail
<1>. QED BY <1>2 DEF Shelf!Next

LEMMA BoardsDoneRefines ==
  ASSUME IInv, BoardsDone
  PROVE  Shelf!Next
<1>1. /\ outcome = "running" /\ outcome' = "ok" /\ runs \in Nat
      /\ UNCHANGED <<shelf, request, placed, runs>>
  BY DEF IInv, Where, BoardsDone, Ends, bin
<1>2. ToSet(request) \cap Boards \subseteq placed
  <2>1. board = NoBoard /\ NoBoard \notin Boards /\ ToSet(todo) = {} /\ at # "idle"
    BY Nothing, DepthchargeAssumption DEF IInv, Where, BoardsDone
  <2>. QED BY <2>1 DEF IInv, Loop
<1>3. ASSUME NEW b \in ToSet(request) \cap Boards
      PROVE  Shelf!BuiltNow(b)
  <2>1. shelf[b] = [n \in Images |-> {OwnBuild(b, runs)}]
    BY <1>2, <1>3 DEF IInv, Shelved
  <2>. QED BY <1>1, <1>3, <2>1, AgeOfOwn DEF Shelf!BuiltNow
<1>4. \A b \in Boards : Shelf!Finished(b)
  BY DEF Shelf!Finished
<1>5. Shelf!Succeed
  BY <1>1, <1>3, <1>4 DEF Shelf!Succeed
<1>. QED BY <1>5 DEF Shelf!Next

LEMMA DropFileRefines ==
  ASSUME IInv, DropFile
  PROVE  Shelf!Next
<1>1. /\ outcome = "running" /\ board \in (ToSet(request) \cap Boards) \ placed
      /\ UNCHANGED <<outcome, request, placed, runs>> /\ DOMAIN shelf = Boards
  BY DEF IInv, Where, Loop, Done, Shelved, DropFile, GoOn, loop, ends
<1>2. PICK n \in DOMAIN shelf[board] : shelf' = [shelf EXCEPT ![board] = Without(@, n)]
  BY DEF DropFile
<1>3. Shelf!Discard(board, n)
  BY <1>1, <1>2 DEF Shelf!Discard, Without
<1>. QED BY <1>1, <1>2, <1>3 DEF Shelf!Next

LEMMA PlaceImagesRefines ==
  ASSUME IInv, PlaceImages
  PROVE  Shelf!Next
<1>1. PICK b \in Boards : b = board
  BY DEF IInv, Where, PlaceImages
<1>2. /\ outcome = "running" /\ b \in (ToSet(request) \cap Boards) \ placed
      /\ UNCHANGED <<outcome, request, runs>> /\ placed' = placed \cup {b}
      /\ runs \in Nat /\ DOMAIN shelf = Boards /\ DOMAIN shelf[b] = {}
      /\ shelf' = [shelf EXCEPT ![b] = [n \in Images |-> {OwnBuild(b, runs)}]]
  BY <1>1 DEF IInv, Where, Loop, Done, Packed, Own, Shelved, PlaceImages, loop
<1>3. Shelf!Place(b)
  BY <1>2, AgeOfOwn DEF Shelf!Place, Shelf!Raw
<1>. QED BY <1>1, <1>3 DEF Shelf!Next

\* Only those steps show in RomShelf.
LEMMA OtherStepsStutter ==
  ASSUME UNCHANGED <<shelf, outcome, request, placed, runs>>
  PROVE  UNCHANGED Shelf!vars
BY DEF Shelf!vars

LEMMA NextRefines == IInv /\ [Next]_vars => [Shelf!Next]_Shelf!vars
<1>. SUFFICES ASSUME IInv, [Next]_vars
              PROVE  [Shelf!Next]_Shelf!vars
  OBVIOUS
<1>1. CASE Start \/ UnknownBoard \/ Stop \/ BoardsDone \/ DropFile \/ PlaceImages
  BY <1>1, StartRefines, FailureRefines, BoardsDoneRefines, DropFileRefines, PlaceImagesRefines
<1>2. CASE NextBoard \/ MasterVboot
  BY <1>2, OtherStepsStutter DEF NextBoard, MasterVboot, loop, bin, ends
<1>3. CASE CheckoutCoreboot \/ CheckoutVboot \/ Clean \/ MasterCoreboot \/ Tidy \/ DropDirectory
  BY <1>3, OtherStepsStutter
  DEF CheckoutCoreboot, CheckoutVboot, Clean, MasterCoreboot, Tidy, DropDirectory, GoOn, loop, bin, ends
<1>4. CASE MakeLibpayload \/ MakeDepthcharge \/ MakeCoreboot \/ MakeRoFrid
  BY <1>4, OtherStepsStutter
  DEF MakeLibpayload, MakeDepthcharge, MakeCoreboot, MakeRoFrid, GoOn, loop, bin, ends
<1>5. CASE EmptyStage \/ MovePart \/ CopyHelper
  BY <1>5, OtherStepsStutter DEF EmptyStage, MovePart, CopyHelper, GoOn, loop, bin, ends
<1>6. CASE UNCHANGED vars
  BY <1>6, OtherStepsStutter DEF vars, loop, bin, ends
<1>. QED BY <1>1, <1>2, <1>3, <1>4, <1>5, <1>6 DEF Next

\* withdepthcharge keeps the promise of RomShelf: a board's files appear under bin/ all at
\* once, complete and of this run, disappear only when the board is built again, and a run
\* that exits 0 has built every board that it was asked for; for any boards and requests,
\* wherever runs are stopped (withdepthcharge:153-201).
THEOREM Refinement == Spec => ImplementsRomShelf
BY InitRefines, NextRefines, Invariance, PTL DEF Spec, ImplementsRomShelf, Shelf!Spec

=================================================================================
