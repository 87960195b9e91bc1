--------------------------- MODULE ToolBuildsProofs ---------------------------
(***************************************************************************)
(* Whatever scripts are run, in any number and wherever they are stopped:  *)
(* the programs that ./build module and ./build release util make are what *)
(* their names say; the release puts its trees back; no script fails       *)
(* unless one was stopped before; and one stop of the release does not     *)
(* lose the unpatched sources.                                             *)
(*                                                                         *)
(* The steps of ToolBuilds are first described by what they change of the  *)
(* directories (Steps), and each part of the invariant is proved from      *)
(* these descriptions.                                                     *)
(***************************************************************************)
EXTENDS ToolBuilds, TLAPS

-----------------------------------------------------------------------------
(* The inductive invariant.                                                 *)
\* The patches that are made for a program.
Chips == {"lenovobios_macronix", "lenovobios_sst"}
Own(p) == IF p = "bucts" THEN {StaticLink} ELSE Chips
Sources(p) == (SUBSET Own(p)) \cup {Gone}

There(p, l) == dir[p][l] # NoTree
Good(t) == t # NoTree /\ t.whole /\ (t.source = {} \/ t.backup = {})
Torn(t) == t # NoTree /\ ~t.whole
Unpatched(t) == t # NoTree /\ t.whole /\ t.source = {}

AtBucts == {"patch Makefile", "make bucts", "reverse Makefile"}
AtPatched == {"make patched", "rename patched", "remove patched", "restore"}
AtChips == {"next patch", "patch"} \cup AtPatched
AtFlashrom == {"make normal", "rename normal"} \cup AtChips
AtCopy == {"copy", "copying"}
AtMove == {"remove tree", "removing tree", "move copy"}
AtUtil == AtCopy \cup {"collect"} \cup AtMove
AtOther == {"delete", "clone", "prepare", "clean"}

\* Where each script can be.
Control ==
  /\ at \in {"idle"} \cup AtBucts \cup AtFlashrom \cup AtUtil \cup AtOther
  /\ at # "idle" => outcome = "running"
  /\ at = "idle" => outcome # "running"
  /\ at \in AtBucts =>
       prog = "bucts" /\ script \in {"bucts static", "bucts dynamic", "util"}
  /\ at = "patch Makefile" => script # "bucts dynamic"
  /\ at \in AtFlashrom => prog = "flashrom" /\ script \in {"flashrom", "util"}
  /\ at \in AtUtil => script = "util"
  /\ at \in {"delete", "clone", "prepare"} => script = "download"
  /\ at = "clean" => script = "clean"

LeftPatches ==
  /\ left \in {ChipPatches, Tail(ChipPatches), << >>}
  /\ at \notin {"idle"} \cup AtChips /\ (prog = "bucts" \/ at \notin {"collect"} \cup AtMove)
       => left = ChipPatches
  /\ at \in AtChips \ {"next patch"} => left # << >>

\* The directories, and what is in each.
Directories ==
  /\ dir \in [Programs -> [Places -> Tree \cup {NoTree}]]
  /\ \A p \in Programs, l \in Places :
       There(p, l) => dir[p][l].source \in Sources(p) /\ dir[p][l].backup \in Sources(p)

Nested ==
  \A p \in Programs :
    /\ There(p, "in tree") => There(p, "tree")
    /\ There(p, "in copy") => There(p, "copy")

Standing ==
  /\ at \in {"copying", "reverse Makefile", "collect", "remove tree", "removing tree"}
            \cup (AtFlashrom \ {"make normal"}) => There(prog, "tree")
  /\ at = "make bucts" /\ script # "bucts dynamic" => There(prog, "tree") /\ tree.whole
  /\ at \in AtUtil \ {"copy"} \/ (script = "util" /\ at \in AtBucts \cup AtFlashrom)
       => There(prog, "copy")
  /\ at \in {"reverse Makefile", "collect", "remove tree", "removing tree"}
            \cup (AtFlashrom \ {"make normal"}) => dir[prog]["in tree"] = NoTree
  /\ at = "copying" /\ target = "copy" => Torn(dir[prog]["copy"])
  /\ at = "move copy" => ~There(prog, "tree")
  /\ at = "clone" => ~There(prog, "tree")
  /\ at = "prepare" => tree = Pristine /\ dir[prog]["in tree"] = NoTree

Ranges ==
  /\ archive \in [Binaries -> Source]
  /\ prog \in Programs /\ target \in {"copy", "in copy"}
  /\ outcome \in {"none", "running", "ok", "stopped", "aborted"}

\* What flashchips.c was when the loop over the patches came to it.
Original == IF at \in AtPatched THEN tree.backup ELSE tree.source
\* The patches it is through with.
Built ==
  {q \in Chips : left = << >> \/ (q = "lenovobios_macronix" /\ left # ChipPatches)}

\* The programs of a tree are as they are named.
Named(p) == \A x \in Shipped[p] : dir[p]["tree"].built[x] = Right(x)

\* The names of what the module script in hand has built.
Naming ==
  ~assented =>
    /\ at \in AtFlashrom \ {"make normal"} => Original # Gone
    /\ at = "rename normal" => tree.built["flashrom"] = Original
    /\ at \in AtChips => tree.built["flashrom_normal"] = Original
    /\ at \in AtChips => \A q \in Built : q \notin Original /\ tree.built[q] = Original \cup {q}
    /\ at = "patch" => tree.backup = tree.source
    /\ at \in AtPatched => Head(left) \notin Original
    /\ at \in {"make patched", "rename patched"} => tree.source = Original \cup {Head(left)}
    /\ at = "rename patched" => tree.built["flashrom"] = Original \cup {Head(left)}
    /\ at \in {"remove patched", "restore"} => tree.built[Head(left)] = Original \cup {Head(left)}
    /\ at = "make bucts" /\ script # "bucts dynamic" => tree.source = {StaticLink}
    /\ at = "reverse Makefile" /\ script # "bucts dynamic" => tree.built["bucts"] = {StaticLink}
    /\ at = "collect" => Named(prog)

\* What is in the archive so far.
Archiving ==
  ~assented /\ at # "idle" /\ script = "util" =>
    /\ prog = "flashrom" \/ at \in AtMove => archive["bucts"] = Right("bucts")
    /\ prog = "flashrom" /\ at \in AtMove => \A x \in Shipped["flashrom"] : archive[x] = Right(x)

\* The tree of a program that is at rest and was not disturbed.
Alone(p) == \A l \in Places \ {"tree"} : dir[p][l] = NoTree
Settled(p) == Unpatched(dir[p]["tree"]) /\ Alone(p)

\* The copy, when the release found none.
Copying ==
  ~assented /\ at # "idle" /\ script = "util" /\ tidy =>
    /\ prog = "bucts" => dir["flashrom"]["copy"] = NoTree
    /\ prog = "flashrom" => Settled("bucts")
    /\ at = "copy" => dir[prog]["copy"] = NoTree
    /\ at = "copying" => target = "copy"
    /\ at \in {"patch Makefile", "make normal"} =>
         /\ dir[prog]["copy"] = tree
         /\ dir[prog]["in copy"] = dir[prog]["in tree"]
    /\ at = "make bucts" =>
         Unpatched(dir[prog]["copy"]) /\ dir[prog]["in copy"] = dir[prog]["in tree"]
    /\ at \in AtFlashrom \ {"make normal"} =>
         /\ dir[prog]["copy"].whole /\ dir[prog]["copy"].source = Original
         /\ dir[prog]["in copy"] = NoTree
    /\ at \in {"reverse Makefile", "collect"} \cup AtMove =>
         Unpatched(dir[prog]["copy"]) /\ dir[prog]["in copy"] = NoTree

\* The tree of the program in hand, when nothing has disturbed it.
OnTrack ==
  /\ at \notin {"removing tree", "move copy", "clone"} => There(prog, "tree")
  /\ at \notin AtMove \cup {"clone"} => tree.whole
  /\ dir[prog]["in tree"] = NoTree
  /\ at \in AtCopy \cup {"patch Makefile", "make normal", "rename normal", "next patch", "patch",
                        "clean", "delete", "prepare", "collect", "remove tree", "removing tree"}
       => tree.source = {}
  /\ at \in {"make bucts", "reverse Makefile"} =>
       tree.source = IF script = "bucts dynamic" THEN {} ELSE {StaticLink}
  /\ at \in {"patch"} \cup AtPatched => tree.backup = {}
  /\ at \in {"make patched", "rename patched", "remove patched"} => tree.source = {Head(left)}

CopyOnTrack ==
  /\ dir[prog]["in copy"] = NoTree
  /\ script # "util" \/ at = "copy" => dir[prog]["copy"] = NoTree
  /\ at = "copying" => There(prog, "copy") /\ target = "copy"
  /\ script = "util" /\ at \notin AtCopy => Unpatched(dir[prog]["copy"])

Undisturbed ==
  /\ \A p \in Programs : fresh[p] /\ (at = "idle" \/ p # prog) => Settled(p)
  /\ at # "idle" /\ fresh[prog] => OnTrack /\ CopyOnTrack
  /\ outcome = "aborted" => \E p \in Programs : ~fresh[p]

\* What one stop of the release can leave: a good copy; none, and a good tree; a
\* copy that is not whole beside a good tree; or in its place, the tree inside.
Saved(p) ==
  \/ Good(dir[p]["copy"])
  \/ Good(dir[p]["tree"]) /\ dir[p]["copy"] = NoTree
  \/ Unpatched(dir[p]["tree"]) /\ dir[p]["in tree"] = NoTree /\ Torn(dir[p]["copy"])
  \/ Torn(dir[p]["tree"]) /\ Good(dir[p]["in tree"])

\* And how it goes on from there.
Saving ==
  \/ Good(dir[prog]["copy"])
  \/ Torn(dir[prog]["tree"]) /\ Good(dir[prog]["in tree"]) /\ at \in AtCopy \cup {"patch Makefile", "make normal"}
  \/ Torn(dir[prog]["copy"]) /\ Good(dir[prog]["in copy"]) /\ at \notin AtCopy /\ OnTrack
  \/ at = "copy" /\ Saved(prog)
  \/ at = "copying" /\ target = "copy" /\ Good(dir[prog]["tree"])
  \/ at = "copying" /\ target = "in copy" /\ Torn(dir[prog]["copy"]) /\ Unpatched(dir[prog]["tree"])
       /\ dir[prog]["in tree"] = NoTree

Surviving ==
  utilOnly =>
    /\ at # "idle" => script = "util"
    /\ stops = 0 => \A p \in Programs : fresh[p]
    /\ stops = 1 =>
         /\ \A p \in Programs : at = "idle" \/ p # prog => Saved(p)
         /\ at # "idle" => Saving

History == fresh \in [Programs -> BOOLEAN] /\ stops \in Nat

Base == Control /\ LeftPatches /\ Directories /\ Nested /\ Standing /\ Ranges /\ History

IInv ==
  /\ Base /\ Naming /\ Archiving /\ Copying /\ Undisturbed /\ Surviving
  /\ NamesAreTrue /\ ArchiveIsTrue /\ UtilPutsTreesBack
-----------------------------------------------------------------------------
(* Trees and directories.                                                   *)

\* The loop of module/flashrom has two patches.
LEMMA ChipFacts ==
  /\ ChipPatches # << >> /\ Head(ChipPatches) = "lenovobios_macronix"
  /\ Tail(ChipPatches) # << >> /\ Tail(ChipPatches) # ChipPatches
  /\ Head(Tail(ChipPatches)) = "lenovobios_sst" /\ Tail(Tail(ChipPatches)) = << >>
BY DEF ChipPatches

\* What the programs are to be built from, and which are shipped.
LEMMA RightFacts ==
  /\ Right("bucts") = {StaticLink} /\ Right("flashrom") = {}
  /\ Right("lenovobios_macronix") = {"lenovobios_macronix"}
  /\ Right("lenovobios_sst") = {"lenovobios_sst"}
  /\ Shipped["bucts"] = {"bucts"}
  /\ Shipped["flashrom"] = {"flashrom", "lenovobios_macronix", "lenovobios_sst"}
<1>1. Right("bucts") = {StaticLink}
  BY DEF Right
<1>2. Right("flashrom") = {}
  BY DEF Right
<1>3. /\ Right("lenovobios_macronix") = {"lenovobios_macronix"}
      /\ Right("lenovobios_sst") = {"lenovobios_sst"}
  BY DEF Right
<1>4. /\ Shipped["bucts"] = {"bucts"}
      /\ Shipped["flashrom"] = {"flashrom", "lenovobios_macronix", "lenovobios_sst"}
  BY DEF Shipped, Binaries
<1>5. QED
  BY <1>1, <1>2, <1>3, <1>4

\* A directory that is there has its fields.
LEMMA TreeFields ==
  ASSUME NEW t \in Tree
  PROVE  /\ t # NoTree /\ t.whole \in BOOLEAN /\ t.source \in Source /\ t.backup \in Source
         /\ t.built \in [Binaries -> Source]
BY DEF Tree, NoTree

\* A download is a tree without patches and backups.
LEMMA PristineIsTree == Pristine \in Tree /\ Unpatched(Pristine) /\ Pristine.backup = Gone
<1>1. {} \in Source /\ Gone \in Source
  BY DEF Source
<1>2. [x \in Binaries |-> Gone] \in [Binaries -> Source]
  BY <1>1
<1>3. Pristine \in Tree
  BY <1>1, <1>2 DEF Pristine, Tree
<1>4. Pristine.whole /\ Pristine.source = {} /\ Pristine.backup = Gone
  BY DEF Pristine
<1>5. QED
  BY <1>3, <1>4, TreeFields DEF Unpatched

\* Changing one field of a tree leaves the others.
LEMMA TreeEdits ==
  ASSUME NEW t \in Tree
  PROVE  /\ \A s \in Source :
              LET u == [t EXCEPT !.source = s] IN
              /\ u \in Tree /\ u.source = s
              /\ u.whole = t.whole /\ u.backup = t.backup /\ u.built = t.built
         /\ \A b \in [Binaries -> Source] :
              LET u == [t EXCEPT !.built = b] IN
              /\ u \in Tree /\ u.built = b
              /\ u.whole = t.whole /\ u.source = t.source /\ u.backup = t.backup
         /\ LET u == [t EXCEPT !.whole = FALSE] IN
              /\ u \in Tree /\ ~u.whole
              /\ u.source = t.source /\ u.backup = t.backup /\ u.built = t.built
BY DEF Tree

\* Only the tree of the program in hand changes.
OnlyTree ==
  /\ dir' \in [Programs -> [Places -> Tree \cup {NoTree}]]
  /\ \A q \in Programs : q # prog => dir'[q] = dir[q]
  /\ \A l \in Places : l # "tree" => dir'[prog][l] = dir[prog][l]

\* Writing one directory leaves the others.
LEMMA PutAtEffect ==
  ASSUME Directories, prog \in Programs, NEW l \in Places, NEW t \in Tree \cup {NoTree},
         PutAt(l, t)
  PROVE  /\ dir' \in [Programs -> [Places -> Tree \cup {NoTree}]]
         /\ dir'[prog][l] = t
         /\ \A q \in Programs : q # prog => dir'[q] = dir[q]
         /\ \A m \in Places : m # l => dir'[prog][m] = dir[prog][m]
BY DEF Directories, PutAt

\* Writing the tree changes only the tree in hand.
LEMMA PutTree ==
  ASSUME Directories, prog \in Programs, NEW t \in Tree \cup {NoTree}, PutAt("tree", t)
  PROVE  OnlyTree /\ dir'[prog]["tree"] = t
BY PutAtEffect DEF OnlyTree, Places

\* Patching it changes only its sources.
LEMMA PutSource ==
  ASSUME Directories, prog \in Programs, tree \in Tree, NEW s \in Source, Put("source", s)
  PROVE  /\ OnlyTree /\ dir'[prog]["tree"] \in Tree /\ dir'[prog]["tree"].source = s
         /\ dir'[prog]["tree"].whole = tree.whole /\ dir'[prog]["tree"].backup = tree.backup
         /\ dir'[prog]["tree"].built = tree.built
<1> DEFINE u == [tree EXCEPT !.source = s]
<1>1. /\ u \in Tree /\ u.source = s
      /\ u.whole = tree.whole /\ u.backup = tree.backup /\ u.built = tree.built
  BY TreeEdits
<1>2. PutAt("tree", u)
  BY DEF Put
<1> HIDE DEF u
<1>3. OnlyTree /\ dir'[prog]["tree"] = u
  BY <1>1, <1>2, PutTree
<1>4. QED
  BY <1>1, <1>3

\* Building in it changes only its programs.
LEMMA PutBuilt ==
  ASSUME Directories, prog \in Programs, tree \in Tree, NEW b \in [Binaries -> Source],
         Put("built", b)
  PROVE  /\ OnlyTree /\ dir'[prog]["tree"] \in Tree /\ dir'[prog]["tree"].built = b
         /\ dir'[prog]["tree"].whole = tree.whole /\ dir'[prog]["tree"].backup = tree.backup
         /\ dir'[prog]["tree"].source = tree.source
<1> DEFINE u == [tree EXCEPT !.built = b]
<1>1. /\ u \in Tree /\ u.built = b
      /\ u.whole = tree.whole /\ u.source = tree.source /\ u.backup = tree.backup
  BY TreeEdits
<1>2. PutAt("tree", u)
  BY DEF Put
<1> HIDE DEF u
<1>3. OnlyTree /\ dir'[prog]["tree"] = u
  BY <1>1, <1>2, PutTree
<1>4. QED
  BY <1>1, <1>3

-----------------------------------------------------------------------------
(* What each action changes.                                                *)

NewTree == dir'[prog]["tree"]

\* A program is patched with patches.
LEMMA SourcesAreSources ==
  ASSUME NEW p \in Programs
  PROVE  Sources(p) \subseteq Source
BY DEF Sources, Source, Own, Chips, Patches, StaticLink, Programs

\* A directory that is there is a tree of its program.
LEMMA TreeThere ==
  ASSUME Base, NEW p \in Programs, NEW l \in Places, There(p, l)
  PROVE  /\ dir[p][l] \in Tree
         /\ dir[p][l].source \in Sources(p) /\ dir[p][l].backup \in Sources(p)
BY DEF Base, Directories, There

\* So is the tree in hand.
LEMMA TreeInHand ==
  ASSUME Base, tree # NoTree
  PROVE  /\ prog \in Programs /\ tree \in Tree
         /\ tree.source \in Sources(prog) /\ tree.backup \in Sources(prog)
         /\ tree.source \in Source /\ tree.backup \in Source
         /\ tree.built \in [Binaries -> Source] /\ tree.whole \in BOOLEAN
<1>1. prog \in Programs /\ "tree" \in Places
  BY DEF Base, Ranges, Places
<1>2. /\ tree \in Tree
      /\ tree.source \in Sources(prog) /\ tree.backup \in Sources(prog)
  BY <1>1, TreeThere DEF There, tree
<1>3. QED
  BY <1>1, <1>2, TreeFields, SourcesAreSources

Applies(q, next) ==
  /\ Step(next) /\ tree # NoTree /\ tree.source # Gone
  /\ OnlyTree /\ NewTree \in Tree /\ NewTree.source \in Sources(prog)
  /\ NewTree.whole = tree.whole /\ NewTree.backup = tree.backup /\ NewTree.built = tree.built
  /\ assented => assented'
  /\ ~assented' => q \notin tree.source
  /\ q \notin tree.source => NewTree.source = tree.source \cup {q}

\* patch that does not end the script applies the patch, or was allowed to undo it.
LEMMA PatchEffect ==
  ASSUME Base, tree # NoTree, NEW q \in Own(prog), NEW next, Patch(q, next)
  PROVE  \/ Applies(q, next)
         \/ Aborts /\ q \in tree.source
<1>1. CASE q \in tree.source /\ Aborts
  BY <1>1
<1>2. ASSUME NEW new \in Applied(tree.source, q), Put("source", new),
             assented' = (assented \/ q \notin new), Step(next)
      PROVE  Applies(q, next)
  <2>1. /\ prog \in Programs /\ tree \in Tree /\ tree.source \in Sources(prog)
    BY TreeInHand
  <2>2. tree.source # Gone
    BY <1>2 DEF Applied
  <2>3. tree.source \in SUBSET Own(prog)
    BY <2>1, <2>2 DEF Sources
  <2>4. new = IF q \in tree.source THEN tree.source \ {q} ELSE tree.source \cup {q}
    BY <1>2, <2>2 DEF Applied
  <2>5. new \in Sources(prog)
    BY <2>3, <2>4 DEF Sources
  <2>6. new \in Source
    BY <2>1, <2>5, SourcesAreSources
  <2>7. /\ OnlyTree /\ NewTree \in Tree /\ NewTree.source = new
        /\ NewTree.whole = tree.whole /\ NewTree.backup = tree.backup
        /\ NewTree.built = tree.built
    BY <1>2, <2>1, <2>6, PutSource DEF Base, NewTree
  <2>8. /\ assented => assented'
        /\ ~assented' => q \notin tree.source
    BY <1>2, <2>4
  <2>9. QED
    BY <1>2, <2>1, <2>2, <2>4, <2>5, <2>7, <2>8 DEF Applies
<1>3. QED
  BY <1>1, <1>2 DEF Patch

Makes(next) ==
  /\ Goto(next) /\ tree # NoTree /\ tree.whole /\ tree.source # Gone
  /\ dir[prog]["in tree"] = NoTree
  /\ OnlyTree /\ NewTree \in Tree /\ NewTree.source = tree.source
  /\ NewTree.whole = tree.whole /\ NewTree.backup = tree.backup
  /\ NewTree.built[prog] = tree.source
  /\ \A x \in Binaries : x # prog => NewTree.built[x] = tree.built[x]

\* make builds the program from the sources, or ends the script.
LEMMA MakeEffect ==
  ASSUME Base, NEW next, Make(next)
  PROVE  \/ Makes(next)
         \/ Aborts /\ ~Buildable
<1>1. CASE ~Buildable
  BY <1>1 DEF Make
<1>2. CASE Buildable
  <2>1. /\ tree # NoTree /\ tree.whole /\ tree.source # Gone /\ dir[prog]["in tree"] = NoTree
    BY <1>2 DEF Buildable, Usable
  <2>2. /\ prog \in Programs /\ tree \in Tree /\ tree.source \in Source
        /\ tree.built \in [Binaries -> Source]
    BY <2>1, TreeInHand
  <2> DEFINE b == [tree.built EXCEPT ![prog] = tree.source]
  <2>3. b \in [Binaries -> Source]
    BY <2>2
  <2>4. prog \in Binaries
    BY <2>2 DEF Programs, Binaries
  <2>5. /\ b[prog] = tree.source
        /\ \A x \in Binaries : x # prog => b[x] = tree.built[x]
    BY <2>2, <2>4
  <2>6. Put("built", b) /\ Goto(next)
    BY <1>2 DEF Make
  <2> HIDE DEF b
  <2>7. /\ OnlyTree /\ NewTree \in Tree /\ NewTree.built = b
        /\ NewTree.whole = tree.whole /\ NewTree.backup = tree.backup
        /\ NewTree.source = tree.source
    BY <2>2, <2>3, <2>6, PutBuilt DEF Base, NewTree
  <2>8. QED
    BY <2>1, <2>5, <2>6, <2>7 DEF Makes
<1>3. QED
  BY <1>1, <1>2

Renames(from, to) ==
  /\ OnlyTree /\ NewTree \in Tree /\ NewTree.source = tree.source
  /\ NewTree.whole = tree.whole /\ NewTree.backup = tree.backup
  /\ NewTree.built[to] = tree.built[from]
  /\ \A x \in Binaries : x \notin {from, to} => NewTree.built[x] = tree.built[x]

\* mv gives a program another name.
LEMMA RenameEffect ==
  ASSUME Base, tree # NoTree, NEW from \in Binaries, NEW to \in Binaries, from # to,
         Rename(from, to)
  PROVE  Renames(from, to)
<1>1. /\ prog \in Programs /\ tree \in Tree /\ tree.built \in [Binaries -> Source]
  BY TreeInHand
<1> DEFINE b == [tree.built EXCEPT ![to] = tree.built[from], ![from] = Gone]
<1>2. b \in [Binaries -> Source]
  BY <1>1 DEF Source
<1>3. /\ b[to] = tree.built[from]
      /\ \A x \in Binaries : x \notin {from, to} => b[x] = tree.built[x]
  BY <1>1
<1>4. Put("built", b)
  BY DEF Rename
<1> HIDE DEF b
<1>5. /\ OnlyTree /\ NewTree \in Tree /\ NewTree.built = b
      /\ NewTree.whole = tree.whole /\ NewTree.backup = tree.backup
      /\ NewTree.source = tree.source
  BY <1>1, <1>2, <1>4, PutBuilt DEF Base, NewTree
<1>6. QED
  BY <1>3, <1>5 DEF Renames

\* The rest of the loop over the patches.
BacksUp ==
  /\ at = "next patch" /\ left # << >> /\ Goto("patch")
  /\ OnlyTree /\ NewTree \in Tree /\ NewTree.source = tree.source
  /\ NewTree.whole = tree.whole /\ NewTree.backup = tree.source
  /\ \A x \in Binaries : x # Head(left) => NewTree.built[x] = tree.built[x]

\* The patch in hand is one for flash chips.
LEMMA LeftHead ==
  ASSUME Base
  PROVE  /\ left = ChipPatches => Head(left) = "lenovobios_macronix" /\ left # << >>
         /\ left = Tail(ChipPatches) => Head(left) = "lenovobios_sst" /\ left # << >>
         /\ left # << >> => Head(left) \in Chips
         /\ left # << >> => Tail(left) \in {Tail(ChipPatches), << >>}
         /\ left # << >> => (left = ChipPatches <=> Head(left) = "lenovobios_macronix")
         /\ left = ChipPatches => Tail(left) # << >> /\ Tail(left) # ChipPatches
         /\ left # << >> /\ left # ChipPatches => Tail(left) = << >>
         /\ Chips \subseteq Binaries
BY ChipFacts DEF Base, LeftPatches, Chips, Binaries

\* The backup is made of the sources.
LEMMA BackUpEffect ==
  ASSUME Base, BackUp
  PROVE  BacksUp
<1>1. /\ at = "next patch" /\ left # << >> /\ Goto("patch")
      /\ PutAt("tree", [tree EXCEPT !.built = [@ EXCEPT ![Head(left)] = Gone], !.backup = tree.source])
  BY DEF BackUp
<1>2. tree # NoTree
  BY <1>1 DEF Base, Standing, AtFlashrom, AtChips, There, tree
<1>3. /\ prog \in Programs /\ tree \in Tree /\ tree.built \in [Binaries -> Source]
      /\ tree.source \in Source
  BY <1>2, TreeInHand
<1>4. Head(left) \in Binaries
  BY <1>1, LeftHead
<1> DEFINE b == [tree.built EXCEPT ![Head(left)] = Gone]
<1> DEFINE u == [tree EXCEPT !.built = b, !.backup = tree.source]
<1>5. b \in [Binaries -> Source]
  BY <1>3 DEF Source
<1>6. \A x \in Binaries : x # Head(left) => b[x] = tree.built[x]
  BY <1>3
<1>7. PutAt("tree", u)
  BY <1>1
<1> HIDE DEF b
<1>8. /\ u \in Tree /\ u.built = b /\ u.backup = tree.source
      /\ u.whole = tree.whole /\ u.source = tree.source
  BY <1>3, <1>5 DEF Tree
<1> HIDE DEF u
<1>9. OnlyTree /\ dir'[prog]["tree"] = u
  BY <1>3, <1>7, <1>8, PutTree DEF Base
<1>10. QED
  BY <1>1, <1>6, <1>8, <1>9 DEF BacksUp, NewTree

Removes ==
  /\ at = "remove patched" /\ Goto("restore")
  /\ OnlyTree /\ NewTree \in Tree /\ NewTree.source = Gone
  /\ NewTree.whole = tree.whole /\ NewTree.backup = tree.backup /\ NewTree.built = tree.built

\* The patched file is removed.
LEMMA RemoveEffect ==
  ASSUME Base, RemoveChips
  PROVE  Removes
<1>1. tree # NoTree
  BY DEF RemoveChips, Base, Standing, AtFlashrom, AtChips, AtPatched, There, tree
<1>2. /\ prog \in Programs /\ tree \in Tree
  BY <1>1, TreeInHand
<1>3. Put("source", Gone)
  BY DEF RemoveChips
<1>4. Gone \in Source
  BY DEF Source
<1>5. QED
  BY <1>2, <1>3, <1>4, PutSource DEF Base, Removes, RemoveChips, NewTree

Restores ==
  /\ at = "restore" /\ at' = "next patch" /\ left' = Tail(left)
  /\ UNCHANGED <<script, prog, target, archive, outcome, history, runs, stops>>
  /\ OnlyTree /\ NewTree \in Tree /\ NewTree.source = tree.backup
  /\ NewTree.whole = tree.whole /\ NewTree.backup = Gone /\ NewTree.built = tree.built

\* The backup takes its place.
LEMMA RestoreEffect ==
  ASSUME Base, Restore
  PROVE  Restores
<1>1. tree # NoTree
  BY DEF Restore, Base, Standing, AtFlashrom, AtChips, AtPatched, There, tree
<1>2. /\ prog \in Programs /\ tree \in Tree /\ tree.backup \in Source
  BY <1>1, TreeInHand
<1> DEFINE u == [tree EXCEPT !.source = tree.backup, !.backup = Gone]
<1>3. PutAt("tree", u)
  BY DEF Restore
<1>4. Gone \in Source
  BY DEF Source
<1>5. /\ u \in Tree /\ u.source = tree.backup /\ u.backup = Gone
      /\ u.whole = tree.whole /\ u.built = tree.built
  BY <1>2, <1>4 DEF Tree
<1> HIDE DEF u
<1>6. OnlyTree /\ dir'[prog]["tree"] = u
  BY <1>2, <1>3, <1>5, PutTree DEF Base
<1>7. QED
  BY <1>5, <1>6 DEF Restores, Restore, NewTree

\* The copy, which is not whole until cp ends.
Copies ==
  /\ at = "copy" /\ at' = "copying" /\ tree # NoTree
  /\ target' = IF dir[prog]["copy"] = NoTree THEN "copy" ELSE "in copy"
  /\ UNCHANGED <<script, prog, left, archive, outcome, history, runs, stops>>
  /\ dir' \in [Programs -> [Places -> Tree \cup {NoTree}]]
  /\ \A q \in Programs : q # prog => dir'[q] = dir[q]
  /\ \A l \in Places : l # target' => dir'[prog][l] = dir[prog][l]
  /\ Torn(dir'[prog][target'])
  /\ dir'[prog][target'].source = tree.source /\ dir'[prog][target'].backup = tree.backup

\* cp -R begins a copy, or one inside the copy that is there.
LEMMA CopyTreeEffect ==
  ASSUME Base, CopyTree
  PROVE  Copies \/ (Aborts /\ tree = NoTree)
<1>1. CASE tree = NoTree
  BY <1>1 DEF CopyTree
<1>2. CASE tree # NoTree
  <2> DEFINE to == IF dir[prog]["copy"] = NoTree THEN "copy" ELSE "in copy"
  <2> DEFINE u == [tree EXCEPT !.whole = FALSE]
  <2>1. /\ prog \in Programs /\ tree \in Tree
    BY <1>2, TreeInHand
  <2>2. u \in Tree /\ ~u.whole /\ u.source = tree.source /\ u.backup = tree.backup
    BY <2>1, TreeEdits
  <2>3. /\ at = "copy" /\ at' = "copying" /\ PutAt(to, u) /\ target' = to
        /\ UNCHANGED <<script, prog, left, archive, outcome, history, runs, stops>>
    BY <1>2 DEF CopyTree
  <2>4. to \in Places
    BY DEF Places
  <2>5. u # NoTree
    BY <2>2, TreeFields
  <2> HIDE DEF u
  <2>6. target' \in Places /\ PutAt(target', u)
    BY <2>3, <2>4
  <2>7. /\ dir' \in [Programs -> [Places -> Tree \cup {NoTree}]]
        /\ \A q \in Programs : q # prog => dir'[q] = dir[q]
        /\ \A l \in Places : l # to => dir'[prog][l] = dir[prog][l]
        /\ dir'[prog][to] = u
    BY <2>1, <2>2, <2>3, <2>4, PutAtEffect DEF Base
  <2>8. QED
    BY <1>2, <2>2, <2>3, <2>5, <2>7 DEF Copies, Torn
<1>3. QED
  BY <1>1, <1>2

Copied ==
  /\ at = "copying" /\ tree # NoTree
  /\ Goto(IF prog = "bucts" THEN "patch Makefile" ELSE "make normal")
  /\ dir' \in [Programs -> [Places -> Tree \cup {NoTree}]]
  /\ \A q \in Programs : q # prog => dir'[q] = dir[q]
  /\ dir'[prog]["tree"] = tree /\ dir'[prog]["in tree"] = dir[prog]["in tree"]
  /\ target = "copy" => dir'[prog]["copy"] = tree /\ dir'[prog]["in copy"] = dir[prog]["in tree"]
  /\ target # "copy" => dir'[prog]["copy"] = dir[prog]["copy"] /\ dir'[prog]["in copy"] = tree

\* And ends it.
LEMMA CopyEndsEffect ==
  ASSUME Base, CopyEnds
  PROVE  Copied
<1>1. tree # NoTree
  BY DEF CopyEnds, Base, Standing, There, tree
<1>2. prog \in Programs /\ tree \in Tree
  BY <1>1, TreeInHand
<1>3. dir \in [Programs -> [Places -> Tree \cup {NoTree}]]
  BY DEF Base, Directories
<1>4. dir[prog]["tree"] = tree
  BY DEF tree
<1>5. /\ at = "copying"
      /\ Goto(IF prog = "bucts" THEN "patch Makefile" ELSE "make normal")
  BY DEF CopyEnds
<1> HIDE DEF tree
<1>6. CASE target = "copy"
  <2>1. dir' = [dir EXCEPT ![prog]["copy"] = tree, ![prog]["in copy"] = dir[prog]["in tree"]]
    BY <1>6 DEF CopyEnds
  <2>2. /\ dir' \in [Programs -> [Places -> Tree \cup {NoTree}]]
        /\ \A q \in Programs : q # prog => dir'[q] = dir[q]
        /\ dir'[prog]["tree"] = tree /\ dir'[prog]["in tree"] = dir[prog]["in tree"]
        /\ dir'[prog]["copy"] = tree /\ dir'[prog]["in copy"] = dir[prog]["in tree"]
    BY <1>2, <1>3, <1>4, <2>1 DEF Places
  <2>3. QED
    BY <1>1, <1>5, <1>6, <2>2 DEF Copied
<1>7. CASE target # "copy"
  <2>1. dir' = [dir EXCEPT ![prog]["in copy"] = tree]
    BY <1>7 DEF CopyEnds
  <2>2. /\ dir' \in [Programs -> [Places -> Tree \cup {NoTree}]]
        /\ \A q \in Programs : q # prog => dir'[q] = dir[q]
        /\ dir'[prog]["tree"] = tree /\ dir'[prog]["in tree"] = dir[prog]["in tree"]
        /\ dir'[prog]["copy"] = dir[prog]["copy"] /\ dir'[prog]["in copy"] = tree
    BY <1>2, <1>3, <1>4, <2>1 DEF Places
  <2>3. QED
    BY <1>1, <1>5, <1>7, <2>2 DEF Copied
<1>8. QED
  BY <1>6, <1>7

Collects ==
  /\ at = "collect" /\ at' = "remove tree"
  /\ UNCHANGED <<script, prog, left, target, outcome, history, runs, stops>>
  /\ archive' \in [Binaries -> Source]
  /\ \A x \in Binaries : archive'[x] = IF x \in Shipped[prog] THEN tree.built[x] ELSE archive[x]
  /\ OnlyTree /\ NewTree \in Tree /\ NewTree.source = tree.source
  /\ NewTree.whole = tree.whole /\ NewTree.backup = tree.backup

\* The programs are moved into the archive.
LEMMA CollectEffect ==
  ASSUME Base, Collect
  PROVE  Collects
<1>1. tree # NoTree
  BY DEF Collect, Base, Standing, There, tree
<1>2. /\ prog \in Programs /\ tree \in Tree /\ tree.built \in [Binaries -> Source]
  BY <1>1, TreeInHand
<1> DEFINE b == [x \in Binaries |-> IF x \in Shipped[prog] THEN Gone ELSE tree.built[x]]
<1>3. b \in [Binaries -> Source]
  BY <1>2 DEF Source
<1>4. /\ at = "collect" /\ at' = "remove tree" /\ Put("built", b)
      /\ UNCHANGED <<script, prog, left, target, outcome, history, runs, stops>>
      /\ archive' = [x \in Binaries |-> IF x \in Shipped[prog] THEN tree.built[x] ELSE archive[x]]
  BY DEF Collect
<1>5. archive \in [Binaries -> Source]
  BY DEF Base, Ranges
<1>6. /\ archive' \in [Binaries -> Source]
      /\ \A x \in Binaries : archive'[x] = IF x \in Shipped[prog] THEN tree.built[x] ELSE archive[x]
  BY <1>2, <1>4, <1>5
<1> HIDE DEF b
<1>7. /\ OnlyTree /\ NewTree \in Tree
      /\ NewTree.whole = tree.whole /\ NewTree.backup = tree.backup
      /\ NewTree.source = tree.source
  BY <1>2, <1>3, <1>4, PutBuilt DEF Base, NewTree
<1>8. QED
  BY <1>4, <1>6, <1>7 DEF Collects

BeginsRemoval ==
  /\ at = "remove tree" /\ Goto("removing tree") /\ tree # NoTree
  /\ OnlyTree /\ NewTree \in Tree /\ NewTree.source = tree.source /\ NewTree.backup = tree.backup

\* rm -rf leaves a tree that is not whole,
LEMMA BeginRemoveEffect ==
  ASSUME Base, BeginRemoveTree
  PROVE  BeginsRemoval
<1>1. tree # NoTree
  BY DEF BeginRemoveTree, Base, Standing, There, tree
<1>2. prog \in Programs /\ tree \in Tree
  BY <1>1, TreeInHand
<1> DEFINE u == [tree EXCEPT !.whole = FALSE]
<1>3. u \in Tree /\ u.source = tree.source /\ u.backup = tree.backup
  BY <1>2, TreeEdits
<1>4. at = "remove tree" /\ Goto("removing tree") /\ PutAt("tree", u)
  BY DEF BeginRemoveTree, Put
<1> HIDE DEF u
<1>5. OnlyTree /\ NewTree = u
  BY <1>2, <1>3, <1>4, PutTree DEF Base, NewTree
<1>6. QED
  BY <1>1, <1>3, <1>4, <1>5 DEF BeginsRemoval

\* rm -Rf takes what is inside as well.
Empties(step) ==
  /\ Goto(step)
  /\ dir' \in [Programs -> [Places -> Tree \cup {NoTree}]]
  /\ \A q \in Programs : q # prog => dir'[q] = dir[q]
  /\ dir'[prog]["tree"] = NoTree /\ dir'[prog]["in tree"] = NoTree
  /\ dir'[prog]["copy"] = dir[prog]["copy"] /\ dir'[prog]["in copy"] = dir[prog]["in copy"]

\* then none.
LEMMA RemoveTreeEffect ==
  ASSUME Base, NEW step,
         dir' = [dir EXCEPT ![prog]["tree"] = NoTree, ![prog]["in tree"] = NoTree], Goto(step)
  PROVE  Empties(step)
<1>1. prog \in Programs /\ dir \in [Programs -> [Places -> Tree \cup {NoTree}]]
  BY DEF Base, Ranges, Directories
<1>2. /\ dir' \in [Programs -> [Places -> Tree \cup {NoTree}]]
      /\ \A q \in Programs : q # prog => dir'[q] = dir[q]
      /\ dir'[prog]["tree"] = NoTree /\ dir'[prog]["in tree"] = NoTree
      /\ dir'[prog]["copy"] = dir[prog]["copy"] /\ dir'[prog]["in copy"] = dir[prog]["in copy"]
  BY <1>1 DEF Places
<1>3. QED
  BY <1>2 DEF Empties

Moves ==
  /\ at = "move copy"
  /\ UNCHANGED <<script, left, target, archive, history, runs, stops>>
  /\ prog = "bucts" => at' = "copy" /\ prog' = "flashrom" /\ outcome' = outcome
  /\ prog # "bucts" => Ends("ok") /\ prog' = prog
  /\ dir' \in [Programs -> [Places -> Tree \cup {NoTree}]]
  /\ \A q \in Programs : q # prog => dir'[q] = dir[q]
  /\ dir'[prog]["tree"] = dir[prog]["copy"] /\ dir'[prog]["in tree"] = dir[prog]["in copy"]
  /\ dir'[prog]["copy"] = NoTree /\ dir'[prog]["in copy"] = NoTree

\* The copy takes the place of the tree.
LEMMA MoveEffect ==
  ASSUME Base, MoveCopy
  PROVE  Moves
<1>1. prog \in Programs /\ dir \in [Programs -> [Places -> Tree \cup {NoTree}]]
  BY DEF Base, Ranges, Directories
<1> DEFINE moved == [l \in Places |-> CASE l = "tree" -> dir[prog]["copy"]
                                        [] l = "in tree" -> dir[prog]["in copy"]
                                        [] OTHER -> NoTree]
<1>2. dir' = [dir EXCEPT ![prog] = moved]
  BY <1>1 DEF MoveCopy
<1>3. moved \in [Places -> Tree \cup {NoTree}]
  BY <1>1 DEF Places
<1>4. /\ moved["tree"] = dir[prog]["copy"] /\ moved["in tree"] = dir[prog]["in copy"]
      /\ moved["copy"] = NoTree /\ moved["in copy"] = NoTree
  BY DEF Places
<1> HIDE DEF moved
<1>5. /\ dir' \in [Programs -> [Places -> Tree \cup {NoTree}]]
      /\ \A q \in Programs : q # prog => dir'[q] = dir[q]
      /\ dir'[prog] = moved
  BY <1>1, <1>2, <1>3
<1>6. /\ at = "move copy"
      /\ UNCHANGED <<script, left, target, archive, history, runs, stops>>
      /\ prog = "bucts" => at' = "copy" /\ prog' = "flashrom" /\ outcome' = outcome
      /\ prog # "bucts" => Ends("ok") /\ prog' = prog
  BY DEF MoveCopy
<1>7. QED
  BY <1>4, <1>5, <1>6 DEF Moves

Clones == at = "clone" /\ Goto("prepare") /\ OnlyTree /\ NewTree = Pristine

\* and then leaves it so, and is through.
Prepares ==
  /\ at = "prepare" /\ Ends("ok")
  /\ UNCHANGED <<script, prog, left, target, dir, archive, tidy, assented, utilOnly, runs, stops>>
  /\ fresh' = [fresh EXCEPT ![prog] = dir[prog]["copy"] = NoTree]

\* A download puts a pristine tree where there is none.
LEMMA CloneEffect ==
  ASSUME Base, Clone
  PROVE  Clones
<1>1. prog \in Programs
  BY DEF Base, Ranges
<1>2. OnlyTree /\ NewTree = Pristine
  BY <1>1, PristineIsTree, PutTree DEF Clone, Base, NewTree
<1>3. QED
  BY <1>2 DEF Clone, Clones

Cleans ==
  /\ at = "clean" /\ Ends("ok") /\ tree # NoTree
  /\ UNCHANGED <<script, prog, left, target, archive, history, runs, stops>>
  /\ OnlyTree /\ NewTree \in Tree /\ NewTree.source = tree.source
  /\ NewTree.whole = tree.whole /\ NewTree.backup = tree.backup

\* make clean leaves the sources.
LEMMA CleanEffect ==
  ASSUME Base, Clean
  PROVE  \/ Cleans
         \/ Aborts /\ at = "clean" /\ (tree = NoTree \/ dir[prog]["in tree"] # NoTree)
<1>1. CASE tree = NoTree \/ dir[prog]["in tree"] # NoTree
  BY <1>1 DEF Clean
<1>2. CASE tree # NoTree /\ dir[prog]["in tree"] = NoTree
  <2>1. /\ prog \in Programs /\ tree \in Tree /\ tree.built \in [Binaries -> Source]
    BY <1>2, TreeInHand
  <2> DEFINE b == [x \in Binaries |-> IF x = "flashrom_normal" THEN tree.built[x] ELSE Gone]
  <2>2. b \in [Binaries -> Source]
    BY <2>1 DEF Source
  <2>3. /\ at = "clean" /\ Ends("ok") /\ Put("built", b)
        /\ UNCHANGED <<script, prog, left, target, archive, history, runs, stops>>
    BY <1>2 DEF Clean
  <2> HIDE DEF b
  <2>4. /\ OnlyTree /\ NewTree \in Tree
        /\ NewTree.whole = tree.whole /\ NewTree.backup = tree.backup
        /\ NewTree.source = tree.source
    BY <2>1, <2>2, <2>3, PutBuilt DEF Base, NewTree
  <2>5. QED
    BY <1>2, <2>3, <2>4 DEF Cleans
<1>3. QED
  BY <1>1, <1>2

\* patch -R, and the return from a module script.
Comes ==
  /\ IF script = "util" THEN at' = "collect" /\ outcome' = outcome ELSE Ends("ok")
  /\ UNCHANGED <<script, prog, left, target, archive, history, runs, stops>>

Reverses ==
  /\ at = "reverse Makefile" /\ Comes /\ tree # NoTree
  /\ dir' \in [Programs -> [Places -> Tree \cup {NoTree}]]
  /\ OnlyTree /\ NewTree \in Tree /\ NewTree.source \in Sources(prog)
  /\ NewTree.whole = tree.whole /\ NewTree.backup = tree.backup /\ NewTree.built = tree.built
  /\ script = "bucts dynamic" => NewTree.source = tree.source
  /\ script # "bucts dynamic" /\ tree.source = {StaticLink} => NewTree.source = {}

\* patch -R takes the patch out of the Makefile, or fails where it is not in.
LEMMA ReverseEffect ==
  ASSUME Base, ReverseMakefile
  PROVE  \/ Reverses
         \/ /\ Aborts /\ at = "reverse Makefile" /\ script # "bucts dynamic"
            /\ StaticLink \notin tree.source
<1>1. at = "reverse Makefile" /\ prog = "bucts"
  BY DEF ReverseMakefile, Base, Control, AtBucts
<1>2. tree # NoTree
  BY <1>1 DEF Base, Standing, There, tree
<1>3. /\ tree \in Tree /\ tree.source \in Sources(prog) /\ prog \in Programs
      /\ dir \in [Programs -> [Places -> Tree \cup {NoTree}]]
  BY <1>2, TreeInHand DEF Base, Directories
<1>4. CASE script = "bucts dynamic" /\ UNCHANGED dir
           /\ Returns /\ UNCHANGED <<script, prog, left, target, archive, history, runs, stops>>
  <2>1. OnlyTree /\ NewTree = tree
    BY <1>3, <1>4 DEF OnlyTree, NewTree, tree
  <2>2. Comes
    BY <1>4 DEF Comes, Returns
  <2>3. QED
    BY <1>1, <1>2, <1>3, <1>4, <2>1, <2>2 DEF Reverses, OnlyTree
<1>5. ASSUME script # "bucts dynamic", NEW new \in Applied(tree.source, StaticLink), Put("source", new),
             Returns, UNCHANGED <<script, prog, left, target, archive, history, runs, stops>>
      PROVE  Reverses
  <2>1. Comes
    BY <1>5 DEF Comes, Returns
  <2>2. /\ tree.source # Gone
        /\ new = IF StaticLink \in tree.source THEN tree.source \ {StaticLink}
                 ELSE tree.source \cup {StaticLink}
    BY <1>5 DEF Applied
  <2>3. tree.source \in SUBSET {StaticLink}
    BY <1>1, <1>3, <2>2 DEF Sources, Own
  <2>4. new \in Sources(prog) /\ new \in Source
    BY <1>1, <1>3, <2>2, <2>3, SourcesAreSources DEF Sources, Own
  <2>5. tree.source = {StaticLink} => new = {}
    BY <2>2
  <2>6. /\ OnlyTree /\ NewTree \in Tree /\ NewTree.source = new
        /\ NewTree.whole = tree.whole /\ NewTree.backup = tree.backup
        /\ NewTree.built = tree.built
    BY <1>3, <1>5, <2>4, PutSource DEF Base, NewTree
  <2>7. QED
    BY <1>1, <1>2, <1>5, <2>1, <2>4, <2>5, <2>6 DEF Reverses, OnlyTree
<1>6. QED
  BY <1>4, <1>5 DEF ReverseMakefile

\* A module script ends, or goes on in the release.
LEMMA ReturnsComes ==
  ASSUME Returns, UNCHANGED <<script, prog, left, target, archive, history, runs, stops>>
  PROVE  Comes
BY DEF Returns, Comes

-----------------------------------------------------------------------------
(* Every step, by what it does.                                             *)

Starts(s, p) ==
  /\ Start(s, p)
  /\ \/ s = "util" /\ p = "bucts"
     \/ s = "flashrom" /\ p = "flashrom"
     \/ s \in {"bucts static", "bucts dynamic"} /\ p = "bucts"
     \/ s \in {"download", "clean"} /\ p \in Programs

\* A script aborts only when its tree is not as it should be.
Gives ==
  /\ Aborts /\ ~OnTrack
  /\ at \in {"copy", "clean", "patch Makefile", "make bucts", "reverse Makefile", "make normal",
             "patch", "make patched"}

StaticApplies == at = "patch Makefile" /\ tree.whole /\ Applies(StaticLink, "make bucts")
BuctsMakes == at = "make bucts" /\ Makes("reverse Makefile")
NormalMakes == at = "make normal" /\ Makes("rename normal")
NormalRenames ==
  at = "rename normal" /\ Goto("next patch") /\ Renames("flashrom", "flashrom_normal")
ChipsApply == at = "patch" /\ Applies(Head(left), "make patched")
PatchedMakes == at = "make patched" /\ Makes("rename patched")
PatchedRenames ==
  at = "rename patched" /\ Goto("remove patched") /\ Renames("flashrom", Head(left))
RenamesBack ==
  at = "next patch" /\ left = << >> /\ Comes /\ Renames("flashrom_normal", "flashrom")

BuctsWork == StaticApplies \/ BuctsMakes \/ Reverses
LoopWork ==
  NormalRenames \/ BacksUp \/ ChipsApply \/ PatchedMakes \/ PatchedRenames \/ Removes \/ Restores
FlashromWork == NormalMakes \/ LoopWork \/ RenamesBack
Removal == at = "removing tree" /\ Empties("move copy")
UtilWork == Copies \/ Copied \/ Collects \/ BeginsRemoval \/ Removal \/ Moves
Deletion == at = "delete" /\ Empties("clone")
OtherWork == Deletion \/ Clones \/ Prepares \/ Cleans

\* ./build module bucts takes only steps of these kinds;
LEMMA BuctsSteps ==
  ASSUME Base, PatchMakefile \/ MakeBucts \/ ReverseMakefile
  PROVE  BuctsWork \/ Gives
<1>1. CASE PatchMakefile
  <2>1. at = "patch Makefile" /\ prog = "bucts"
    BY <1>1 DEF PatchMakefile, Base, Control, AtBucts
  <2>2. CASE ~Usable
    <3>1. ~OnTrack
      BY <2>1, <2>2 DEF Usable, OnTrack, There, tree, AtMove
    <3>2. QED
      BY <1>1, <2>1, <2>2, <3>1 DEF PatchMakefile, Gives
  <2>3. CASE Usable
    <3>1. tree # NoTree /\ tree.whole
      BY <2>3 DEF Usable
    <3>2. StaticLink \in Own(prog)
      BY <2>1 DEF Own
    <3>3. Patch(StaticLink, "make bucts")
      BY <1>1, <2>3 DEF PatchMakefile
    <3>4. \/ Applies(StaticLink, "make bucts")
          \/ Aborts /\ StaticLink \in tree.source
      BY <3>1, <3>2, <3>3, PatchEffect
    <3>5. StaticLink \in tree.source => ~OnTrack
      BY <2>1 DEF OnTrack
    <3>6. QED
      BY <2>1, <3>1, <3>4, <3>5 DEF BuctsWork, StaticApplies, Gives
  <2>4. QED
    BY <2>2, <2>3
<1>2. CASE MakeBucts
  <2>1. at = "make bucts" /\ Make("reverse Makefile")
    BY <1>2 DEF MakeBucts
  <2>2. Makes("reverse Makefile") \/ (Aborts /\ ~Buildable)
    BY <2>1, MakeEffect
  <2>3. OnTrack => Buildable
    BY <2>1 DEF OnTrack, Buildable, Usable, There, tree, AtMove, Gone, StaticLink
  <2>4. QED
    BY <2>1, <2>2, <2>3 DEF BuctsWork, BuctsMakes, Gives
<1>3. CASE ReverseMakefile
  <2>1. \/ Reverses
        \/ /\ Aborts /\ at = "reverse Makefile" /\ script # "bucts dynamic"
           /\ StaticLink \notin tree.source
    BY <1>3, ReverseEffect
  <2>2. at = "reverse Makefile" /\ script # "bucts dynamic" /\ OnTrack => StaticLink \in tree.source
    BY DEF OnTrack
  <2>3. QED
    BY <2>1, <2>2 DEF BuctsWork, Gives
<1>4. QED
  BY <1>1, <1>2, <1>3

\* likewise ./build module flashrom,
LEMMA FlashromSteps ==
  ASSUME Base, \/ MakeNormal \/ RenameNormal \/ BackUp \/ PatchChips \/ MakePatched
               \/ RenamePatched \/ RemoveChips \/ Restore \/ RenameBack
  PROVE  FlashromWork \/ Gives
<1>1. CASE MakeNormal
  <2>1. at = "make normal" /\ Make("rename normal")
    BY <1>1 DEF MakeNormal
  <2>2. Makes("rename normal") \/ (Aborts /\ ~Buildable)
    BY <2>1, MakeEffect
  <2>3. OnTrack => Buildable
    BY <2>1 DEF OnTrack, Buildable, Usable, There, tree, AtMove, Gone
  <2>4. QED
    BY <2>1, <2>2, <2>3 DEF FlashromWork, NormalMakes, Gives
<1>2. CASE RenameNormal
  <2>1. /\ at = "rename normal" /\ Goto("next patch") /\ Rename("flashrom", "flashrom_normal")
    BY <1>2 DEF RenameNormal
  <2>2. tree # NoTree
    BY <2>1 DEF Base, Standing, AtFlashrom, There, tree
  <2>3. "flashrom" \in Binaries /\ "flashrom_normal" \in Binaries
    BY DEF Binaries
  <2>4. Renames("flashrom", "flashrom_normal")
    BY <2>1, <2>2, <2>3, RenameEffect
  <2>5. QED
    BY <2>1, <2>4 DEF FlashromWork, LoopWork, NormalRenames
<1>3. CASE BackUp
  BY <1>3, BackUpEffect DEF FlashromWork, LoopWork
<1>4. CASE PatchChips
  <2>1. at = "patch" /\ Patch(Head(left), "make patched")
    BY <1>4 DEF PatchChips
  <2>2. tree # NoTree /\ prog = "flashrom" /\ left # << >>
    BY <2>1 DEF Base, Standing, Control, LeftPatches, AtFlashrom, AtChips, There, tree
  <2>3. Head(left) \in Own(prog)
    BY <2>2, LeftHead DEF Own
  <2>4. \/ Applies(Head(left), "make patched")
        \/ Aborts /\ Head(left) \in tree.source
    BY <2>1, <2>2, <2>3, PatchEffect
  <2>5. OnTrack => Head(left) \notin tree.source
    BY <2>1 DEF OnTrack
  <2>6. QED
    BY <2>1, <2>4, <2>5 DEF FlashromWork, LoopWork, ChipsApply, Gives
<1>5. CASE MakePatched
  <2>1. at = "make patched" /\ Make("rename patched")
    BY <1>5 DEF MakePatched
  <2>2. Makes("rename patched") \/ (Aborts /\ ~Buildable)
    BY <2>1, MakeEffect
  <2>3. left # << >>
    BY <2>1 DEF Base, LeftPatches, AtChips, AtPatched
  <2>4. {Head(left)} # Gone
    BY <2>3, LeftHead DEF Chips, Gone
  <2>5. OnTrack => Buildable
    BY <2>1, <2>4 DEF OnTrack, Buildable, Usable, There, tree, AtMove
  <2>6. QED
    BY <2>1, <2>2, <2>5 DEF FlashromWork, LoopWork, PatchedMakes, Gives
<1>6. CASE RenamePatched
  <2>1. /\ at = "rename patched" /\ Goto("remove patched") /\ Rename("flashrom", Head(left))
    BY <1>6 DEF RenamePatched
  <2>2. tree # NoTree /\ left # << >>
    BY <2>1 DEF Base, Standing, LeftPatches, AtFlashrom, AtChips, AtPatched, There, tree
  <2>3. "flashrom" \in Binaries /\ Head(left) \in Binaries /\ Head(left) # "flashrom"
    BY <2>2, LeftHead DEF Binaries, Chips
  <2>4. Renames("flashrom", Head(left))
    BY <2>1, <2>2, <2>3, RenameEffect
  <2>5. QED
    BY <2>1, <2>4 DEF FlashromWork, LoopWork, PatchedRenames
<1>7. CASE RemoveChips
  BY <1>7, RemoveEffect DEF FlashromWork, LoopWork
<1>8. CASE Restore
  BY <1>8, RestoreEffect DEF FlashromWork, LoopWork
<1>9. CASE RenameBack
  <2>1. /\ at = "next patch" /\ left = << >> /\ Rename("flashrom_normal", "flashrom")
    BY <1>9 DEF RenameBack
  <2>2. tree # NoTree
    BY <2>1 DEF Base, Standing, AtFlashrom, AtChips, There, tree
  <2>3. "flashrom" \in Binaries /\ "flashrom_normal" \in Binaries
    BY DEF Binaries
  <2>4. Renames("flashrom_normal", "flashrom")
    BY <2>1, <2>2, <2>3, RenameEffect
  <2>5. UNCHANGED <<script, prog, left, target, archive, history, runs, stops>> /\ Returns
    BY <1>9 DEF RenameBack
  <2>6. Comes
    BY <2>5, ReturnsComes
  <2>7. QED
    BY <2>1, <2>4, <2>6 DEF FlashromWork, RenamesBack
<1>10. QED
  BY <1>1, <1>2, <1>3, <1>4, <1>5, <1>6, <1>7, <1>8, <1>9

\* ./build release util,
LEMMA UtilSteps ==
  ASSUME Base, UtilStep
  PROVE  UtilWork \/ Gives
<1>1. CASE CopyTree
  <2>1. Copies \/ (Aborts /\ tree = NoTree)
    BY <1>1, CopyTreeEffect
  <2>2. at = "copy"
    BY <1>1 DEF CopyTree
  <2>3. OnTrack => tree # NoTree
    BY <2>2 DEF OnTrack, There, tree
  <2>4. QED
    BY <2>1, <2>2, <2>3 DEF UtilWork, Gives
<1>2. CASE EndRemoveTree
  BY <1>2, RemoveTreeEffect DEF EndRemoveTree, UtilWork, Removal
<1>3. QED
  BY <1>1, <1>2, CopyEndsEffect, CollectEffect, BeginRemoveEffect, MoveEffect
  DEF UtilStep, UtilWork

\* ./download and ./build clean.
LEMMA OtherSteps ==
  ASSUME Base, Delete \/ Clone \/ Prepare \/ Clean
  PROVE  OtherWork \/ Gives
<1>1. CASE Delete
  BY <1>1, RemoveTreeEffect DEF Delete, OtherWork, Deletion
<1>2. CASE Clone
  BY <1>2, CloneEffect DEF OtherWork
<1>3. CASE Clean
  <2>1. at = "clean" /\ OnTrack => tree # NoTree /\ dir[prog]["in tree"] = NoTree
    BY DEF OnTrack, There, tree
  <2>2. QED
    BY <1>3, <2>1, CleanEffect DEF OtherWork, Gives
<1>4. CASE Prepare
  BY <1>4 DEF Prepare, Prepares, OtherWork
<1>5. QED
  BY <1>1, <1>2, <1>3, <1>4

\* So every step is of one of these kinds.
LEMMA Steps ==
  ASSUME Base, Next
  PROVE  \/ \E s \in Scripts, p \in Programs : Starts(s, p)
         \/ Stop \/ Gives \/ BuctsWork \/ FlashromWork \/ UtilWork \/ OtherWork
<1>1. CASE StartAny
  BY <1>1 DEF StartAny, Starts, Programs
<1>2. CASE BuildStep
  BY <1>2, BuctsSteps, FlashromSteps DEF BuildStep
<1>3. QED
  BY <1>1, <1>2, UtilSteps, OtherSteps DEF Next

-----------------------------------------------------------------------------
(* Where the scripts are, and what stands there: types and control.         *)

\* Base holds at first.
LEMMA BaseInit ==
  ASSUME Init
  PROVE  Base
<1>1. Control /\ LeftPatches
  BY DEF Init, Control, LeftPatches, AtBucts, AtFlashrom, AtChips, AtPatched, AtUtil, AtCopy,
         AtMove, ChipPatches
<1>2. dir = [p \in Programs |-> [l \in Places |-> IF l = "tree" THEN Pristine ELSE NoTree]]
  BY DEF Init
<1>3. Directories
  <2>1. dir \in [Programs -> [Places -> Tree \cup {NoTree}]]
    BY <1>2, PristineIsTree
  <2>2. \A p \in Programs, l \in Places : There(p, l) => dir[p][l] = Pristine
    BY <1>2 DEF There
  <2>3. \A p \in Programs : Pristine.source \in Sources(p) /\ Pristine.backup \in Sources(p)
    BY PristineIsTree DEF Sources, Unpatched
  <2>4. QED
    BY <2>1, <2>2, <2>3 DEF Directories
<1>4. Nested
  BY <1>2 DEF Nested, There, Places, Programs
<1>5. Standing
  BY DEF Init, Standing, AtBucts, AtFlashrom, AtChips, AtPatched, AtUtil, AtCopy, AtMove
<1>6. Ranges
  <2>1. archive \in [Binaries -> Source]
    BY DEF Init, NoArchive, Source
  <2>2. QED
    BY <2>1 DEF Init, Ranges, Programs
<1>7. History
  BY DEF Init, History
<1>8. QED
  BY <1>1, <1>3, <1>4, <1>5, <1>6, <1>7 DEF Base

\* Where each script starts.
LEMMA FirstSteps ==
  /\ FirstStep("util", "bucts") = "copy"
  /\ \A p \in Programs : FirstStep("download", p) = "delete" /\ FirstStep("clean", p) = "clean"
  /\ FirstStep("bucts static", "bucts") = "patch Makefile"
  /\ FirstStep("bucts dynamic", "bucts") = "make bucts"
  /\ FirstStep("flashrom", "flashrom") = "make normal"
BY DEF FirstStep

\* What the start of a script changes.
LEMMA StartFacts ==
  ASSUME Base, NEW s \in Scripts, NEW p \in Programs, Starts(s, p)
  PROVE  /\ at = "idle" /\ script' = s /\ prog' = p /\ left' = ChipPatches /\ outcome' = "running"
         /\ dir' = dir /\ UNCHANGED <<target, fresh, assented, stops>>
         /\ runs' = runs + 1 /\ tidy' = (\A q \in Programs : dir[q]["copy"] = NoTree)
         /\ utilOnly' = (utilOnly /\ s = "util")
         /\ \/ s = "util" /\ p = "bucts" /\ at' = "copy"
            \/ s = "flashrom" /\ p = "flashrom" /\ at' = "make normal"
            \/ s = "bucts static" /\ p = "bucts" /\ at' = "patch Makefile"
            \/ s = "bucts dynamic" /\ p = "bucts" /\ at' = "make bucts"
            \/ s = "download" /\ at' = "delete"
            \/ s = "clean" /\ at' = "clean"
BY FirstSteps DEF Starts, Start

\* A start preserves Base,
LEMMA BaseStarts ==
  ASSUME Base, NEW s \in Scripts, NEW p \in Programs, Starts(s, p)
  PROVE  Base'
<1>1. Control' /\ LeftPatches'
  BY StartFacts DEF Control, LeftPatches, AtBucts, AtFlashrom, AtChips, AtPatched, AtUtil, AtCopy,
         AtMove, AtOther
<1>2. Directories' /\ Nested'
  BY StartFacts DEF Base, Directories, Nested, There
<1>3. Standing'
  BY StartFacts DEF Standing, AtBucts, AtFlashrom, AtChips, AtPatched, AtUtil, AtCopy, AtMove
<1>4. archive' \in [Binaries -> Source]
  BY DEF Starts, Start, NoArchive, Base, Ranges, Source
<1>5. Ranges'
  BY <1>4, StartFacts DEF Base, Ranges
<1>6. History'
  BY StartFacts DEF Base, History
<1>7. QED
  BY <1>1, <1>2, <1>3, <1>5, <1>6 DEF Base

\* as do a stop and a command that fails.
LEMMA BaseStops ==
  ASSUME Base, Stop \/ Gives
  PROVE  Base'
<1>1. /\ at' = "idle" /\ outcome' \in {"stopped", "aborted"}
      /\ UNCHANGED <<script, prog, left, target, dir, archive, tidy, assented, utilOnly, runs>>
      /\ fresh' = fresh \/ fresh' = [p \in Programs |-> FALSE]
      /\ stops' = stops \/ stops' = stops + 1
  BY DEF Stop, Gives, Aborts, Ends, history
<1>2. Control' /\ LeftPatches'
  BY <1>1 DEF Base, Control, LeftPatches, AtBucts, AtFlashrom, AtChips, AtPatched, AtUtil, AtCopy,
         AtMove, AtOther
<1>3. Directories' /\ Nested'
  BY <1>1 DEF Base, Directories, Nested, There
<1>4. Standing'
  BY <1>1 DEF Standing, AtBucts, AtFlashrom, AtChips, AtPatched, AtUtil, AtCopy, AtMove
<1>5. Ranges' /\ History'
  <2>1. [p \in Programs |-> FALSE] \in [Programs -> BOOLEAN]
    BY Zenon
  <2>2. fresh' \in [Programs -> BOOLEAN]
    BY <1>1, <2>1 DEF Base, History
  <2>3. stops' \in Nat
    BY <1>1 DEF Base, History
  <2>4. Ranges'
    BY <1>1 DEF Base, Ranges
  <2>5. QED
    BY <2>2, <2>3, <2>4 DEF History
<1>6. QED
  BY <1>2, <1>3, <1>4, <1>5 DEF Base

\* An action that changes only the tree in hand preserves what is where.
LEMMA OnlyTreeKeeps ==
  ASSUME Base, OnlyTree, tree # NoTree, NewTree \in Tree,
         NewTree.source \in Sources(prog), NewTree.backup \in Sources(prog)
  PROVE  /\ Directories' /\ Nested'
         /\ \A p \in Programs, l \in Places : There(p, l)' <=> There(p, l)
         /\ \A l \in Places : l # "tree" => dir'[prog][l] = dir[prog][l]
<1>1. prog \in Programs
  BY DEF Base, Ranges
<1>2. NewTree # NoTree /\ dir[prog]["tree"] # NoTree /\ "tree" \in Places
  BY TreeFields DEF tree, Places
<1>3. \A p \in Programs, l \in Places : p # prog \/ l # "tree" => dir'[p][l] = dir[p][l]
  BY DEF OnlyTree
<1>4. \A p \in Programs, l \in Places : There(p, l)' <=> There(p, l)
  BY <1>1, <1>2, <1>3 DEF There, NewTree
<1>5. Directories'
  <2>1. dir' \in [Programs -> [Places -> Tree \cup {NoTree}]]
    BY DEF OnlyTree
  <2>2. ASSUME NEW p \in Programs, NEW l \in Places, There(p, l)'
        PROVE  dir'[p][l].source \in Sources(p) /\ dir'[p][l].backup \in Sources(p)
    <3>1. CASE p = prog /\ l = "tree"
      BY <3>1 DEF NewTree
    <3>2. CASE p # prog \/ l # "tree"
      BY <1>3, <1>4, <2>2, <3>2 DEF Base, Directories
    <3>3. QED
      BY <3>1, <3>2
  <2>3. QED
    BY <2>1, <2>2 DEF Directories
<1>6. Nested'
  BY <1>4 DEF Base, Nested, Places
<1>7. QED
  BY <1>3, <1>4, <1>5, <1>6, <1>1

\* What is to be shown of an action that changes only the tree in hand.
TreeWork ==
  /\ OnlyTree /\ tree # NoTree /\ NewTree \in Tree
  /\ NewTree.source \in Sources(prog) /\ NewTree.backup \in Sources(prog)
  /\ UNCHANGED <<script, prog, target, fresh, stops>>
  /\ outcome' \in {"running", "ok"} /\ (outcome' = "running" <=> at' # "idle")
  /\ archive' \in [Binaries -> Source]
  /\ left' \in {ChipPatches, Tail(ChipPatches), << >>}

\* The scripts' commands in which the tree in hand is not yet, or no more, of use.
NotCopying ==
  at' \notin {"copy", "copying", "move copy", "clone", "prepare", "delete", "clean"}

\* Such an action preserves Base when the script may be where it goes.
LEMMA BaseTreeWork ==
  ASSUME Base, TreeWork, NotCopying, at # "idle", Control', LeftPatches',
         at' = "make bucts" => NewTree.whole,
         at' \in AtUtil => There(prog, "copy"),
         script = "util" => There(prog, "copy"),
         at' \in {"reverse Makefile", "collect", "remove tree", "removing tree"}
              \cup (AtFlashrom \ {"make normal"}) => dir[prog]["in tree"] = NoTree
  PROVE  Base'
<1>1. /\ Directories' /\ Nested'
      /\ \A p \in Programs, l \in Places : There(p, l)' <=> There(p, l)
      /\ \A l \in Places : l # "tree" => dir'[prog][l] = dir[prog][l]
  BY OnlyTreeKeeps DEF TreeWork
<1>2. prog \in Programs /\ prog' = prog /\ script' = script
  BY DEF TreeWork, Base, Ranges
<1>3. Ranges' /\ History'
  BY DEF TreeWork, Base, Ranges, History
<1>4. NewTree # NoTree
  BY TreeFields DEF TreeWork
<1>5. Standing'
  <2>1. tree' = NewTree /\ There(prog, "tree")'
    BY <1>2, <1>4 DEF tree, NewTree, There
  <2>2. dir'[prog]["in tree"] = dir[prog]["in tree"] /\ dir'[prog]["copy"] = dir[prog]["copy"]
    BY <1>1 DEF Places
  <2>3. There(prog, "copy")' <=> There(prog, "copy")
    BY <1>1, <1>2 DEF Places
  <2>4. QED
    BY <1>2, <2>1, <2>2, <2>3 DEF Standing, There, NotCopying, AtUtil, AtCopy, AtMove
<1>6. QED
  BY <1>1, <1>3, <1>5 DEF Base

\* ./build module bucts preserves Base,
LEMMA BaseBucts ==
  ASSUME Base, BuctsWork
  PROVE  Base'
<1>1. /\ prog = "bucts" /\ at \in AtBucts /\ script \in {"bucts static", "bucts dynamic", "util"}
      /\ outcome = "running" /\ left = ChipPatches /\ archive \in [Binaries -> Source]
      /\ script = "util" => There(prog, "copy")
  BY DEF BuctsWork, StaticApplies, BuctsMakes, Reverses, Base, Control, LeftPatches, Standing,
         Ranges, AtBucts, AtChips, AtPatched, AtMove
<1>2. CASE StaticApplies
  <2>1. /\ at = "patch Makefile" /\ tree.whole /\ tree # NoTree /\ at' = "make bucts"
        /\ UNCHANGED <<script, prog, left, target, archive, outcome, fresh, stops>>
        /\ OnlyTree /\ NewTree \in Tree /\ NewTree.source \in Sources(prog)
        /\ NewTree.whole = tree.whole /\ NewTree.backup = tree.backup
    BY <1>2 DEF StaticApplies, Applies, Step
  <2>2. tree.backup \in Sources(prog)
    BY <2>1, TreeInHand
  <2>3. Control' /\ LeftPatches'
    BY <1>1, <2>1 DEF Control, LeftPatches, AtBucts, AtFlashrom, AtChips, AtPatched, AtUtil,
         AtCopy, AtMove, AtOther
  <2>4. TreeWork /\ NotCopying /\ NewTree.whole
    BY <1>1, <2>1, <2>2 DEF TreeWork, NotCopying
  <2>5. at' \notin AtUtil \cup AtFlashrom \cup {"reverse Makefile"}
    BY <2>1 DEF AtUtil, AtCopy, AtMove, AtFlashrom, AtChips, AtPatched
  <2>6. QED
    BY <1>1, <2>1, <2>3, <2>4, <2>5, BaseTreeWork DEF AtUtil, AtMove
<1>3. CASE BuctsMakes
  <2>1. /\ at = "make bucts" /\ tree # NoTree /\ at' = "reverse Makefile"
        /\ UNCHANGED <<script, prog, left, target, archive, outcome, fresh, stops>>
        /\ OnlyTree /\ NewTree \in Tree /\ NewTree.source = tree.source
        /\ NewTree.whole = tree.whole /\ NewTree.backup = tree.backup
        /\ dir[prog]["in tree"] = NoTree
    BY <1>3 DEF BuctsMakes, Makes, Goto, Step
  <2>2. tree.backup \in Sources(prog) /\ tree.source \in Sources(prog)
    BY <2>1, TreeInHand
  <2>3. Control' /\ LeftPatches'
    BY <1>1, <2>1 DEF Control, LeftPatches, AtBucts, AtFlashrom, AtChips, AtPatched, AtUtil,
         AtCopy, AtMove, AtOther
  <2>4. TreeWork /\ NotCopying
    BY <1>1, <2>1, <2>2 DEF TreeWork, NotCopying
  <2>5. at' \notin AtUtil
    BY <2>1 DEF AtUtil, AtCopy, AtMove
  <2>6. QED
    BY <1>1, <2>1, <2>3, <2>4, <2>5, BaseTreeWork
<1>4. CASE Reverses
  <2>1. /\ at = "reverse Makefile" /\ tree # NoTree
        /\ IF script = "util" THEN at' = "collect" /\ outcome' = outcome
           ELSE at' = "idle" /\ outcome' = "ok"
        /\ UNCHANGED <<script, prog, left, target, archive, fresh, stops>>
        /\ OnlyTree /\ NewTree \in Tree /\ NewTree.source \in Sources(prog)
        /\ NewTree.backup = tree.backup
    BY <1>4 DEF Reverses, Comes, Ends, history
  <2>2. tree.backup \in Sources(prog) /\ dir[prog]["in tree"] = NoTree
    BY <2>1, TreeInHand DEF Base, Standing
  <2>3. Control' /\ LeftPatches'
    BY <1>1, <2>1 DEF Control, LeftPatches, AtBucts, AtFlashrom, AtChips, AtPatched, AtUtil,
         AtCopy, AtMove, AtOther
  <2>4. TreeWork /\ NotCopying
    BY <1>1, <2>1, <2>2 DEF TreeWork, NotCopying
  <2>5. at' \in AtUtil => script = "util"
    BY <2>1 DEF AtUtil, AtCopy, AtMove
  <2>6. QED
    BY <1>1, <2>1, <2>2, <2>3, <2>4, <2>5, BaseTreeWork
<1>5. QED
  BY <1>2, <1>3, <1>4 DEF BuctsWork

\* Base, at a command of ./build module flashrom.
LEMMA AtFlashromFacts ==
  ASSUME Base, FlashromWork
  PROVE  /\ prog = "flashrom" /\ at \in AtFlashrom /\ script \in {"flashrom", "util"}
         /\ outcome = "running" /\ tree # NoTree /\ archive \in [Binaries -> Source]
         /\ at \notin AtUtil \cup {"idle"}
         /\ script = "util" => There(prog, "copy")
         /\ tree.source \in Sources(prog) /\ tree.backup \in Sources(prog)
         /\ at # "make normal" => dir[prog]["in tree"] = NoTree
<1>1. at \in AtFlashrom
  BY DEF FlashromWork, LoopWork, NormalMakes, NormalRenames, BacksUp, ChipsApply, PatchedMakes,
         PatchedRenames, Removes, Restores, RenamesBack, AtFlashrom, AtChips, AtPatched
<1>2. prog = "flashrom" /\ script \in {"flashrom", "util"}
  BY <1>1 DEF Base, Control
<1>3. at # "idle" /\ at \notin AtUtil
  BY <1>1 DEF AtFlashrom, AtChips, AtPatched, AtUtil, AtCopy, AtMove
<1>4. tree # NoTree
  <2>1. CASE at = "make normal"
    BY <2>1 DEF FlashromWork, LoopWork, NormalMakes, NormalRenames, BacksUp, ChipsApply,
         PatchedMakes, PatchedRenames, Removes, Restores, RenamesBack, Makes
  <2>2. CASE at # "make normal"
    BY <1>1, <2>2 DEF Base, Standing, There, tree
  <2>3. QED
    BY <2>1, <2>2
<1>5. QED
  BY <1>1, <1>2, <1>3, <1>4, TreeInHand DEF Base, Control, Standing, Ranges

\* ./build module flashrom preserves Base,
LEMMA BaseFlashrom ==
  ASSUME Base, FlashromWork
  PROVE  Base'
<1> USE AtFlashromFacts
<1>1. Gone \in Sources(prog)
  BY DEF Sources
<1>2. /\ OnlyTree /\ NewTree \in Tree
      /\ NewTree.source \in Sources(prog) /\ NewTree.backup \in Sources(prog)
  <2>1. CASE NormalMakes \/ PatchedMakes
    BY <2>1 DEF NormalMakes, PatchedMakes, Makes
  <2>2. CASE NormalRenames \/ PatchedRenames \/ RenamesBack
    BY <2>2 DEF NormalRenames, PatchedRenames, RenamesBack, Renames
  <2>3. CASE BacksUp \/ ChipsApply
    BY <2>3 DEF BacksUp, ChipsApply, Applies
  <2>4. CASE Removes \/ Restores
    BY <1>1, <2>4 DEF Removes, Restores
  <2>5. QED
    BY <2>1, <2>2, <2>3, <2>4 DEF FlashromWork, LoopWork
<1>3. /\ UNCHANGED <<script, prog, target, fresh, archive, stops>>
      /\ \/ left' = left /\ at # "restore"
         \/ at = "restore" /\ left' = Tail(left) /\ at' = "next patch"
      /\ \/ /\ at' \in AtFlashrom \ {"make normal"} /\ outcome' = outcome
            /\ at' \in AtChips \ {"next patch"} => at \in AtChips /\ left # << >>
            /\ at' \notin AtChips => left = ChipPatches
         \/ at' = "collect" /\ outcome' = outcome /\ script = "util" /\ at # "make normal"
         \/ at' = "idle" /\ outcome' = "ok"
  <2>1. CASE NormalMakes
    BY <2>1 DEF NormalMakes, Makes, Goto, Step, Base, LeftPatches, AtFlashrom, AtChips, AtPatched,
         AtMove
  <2>2. CASE NormalRenames
    BY <2>2 DEF NormalRenames, Goto, Step, AtFlashrom, AtChips, AtPatched
  <2>3. CASE BacksUp
    BY <2>3 DEF BacksUp, Goto, Step, AtFlashrom, AtChips, AtPatched
  <2>4. CASE ChipsApply
    BY <2>4 DEF ChipsApply, Applies, Goto, Step, Base, LeftPatches, AtFlashrom, AtChips, AtPatched
  <2>5. CASE PatchedMakes
    BY <2>5 DEF PatchedMakes, Makes, Goto, Step, Base, LeftPatches, AtFlashrom, AtChips, AtPatched
  <2>6. CASE PatchedRenames
    BY <2>6 DEF PatchedRenames, Goto, Step, Base, LeftPatches, AtFlashrom, AtChips, AtPatched
  <2>7. CASE Removes
    BY <2>7 DEF Removes, Goto, Step, Base, LeftPatches, AtFlashrom, AtChips, AtPatched
  <2>8. CASE Restores
    BY <2>8 DEF Restores, history, AtFlashrom, AtChips, AtPatched
  <2>9. CASE RenamesBack
    BY <2>9 DEF RenamesBack, Comes, Ends, history
  <2>10. QED
    BY <2>1, <2>2, <2>3, <2>4, <2>5, <2>6, <2>7, <2>8, <2>9 DEF FlashromWork, LoopWork
<1>4. left' \in {ChipPatches, Tail(ChipPatches), << >>}
  <2>1. at = "restore" => left # << >>
    BY DEF Base, LeftPatches, AtChips, AtPatched
  <2>2. QED
    BY <1>3, <2>1, LeftHead DEF Base, LeftPatches
<1>5. Control'
  BY <1>3 DEF Control, AtBucts, AtFlashrom, AtChips, AtPatched, AtUtil, AtCopy, AtMove, AtOther
<1>6. LeftPatches'
  BY <1>3, <1>4 DEF LeftPatches, AtFlashrom, AtChips, AtPatched, AtUtil, AtCopy, AtMove, AtOther
<1>7. TreeWork /\ NotCopying
  BY <1>2, <1>3, <1>4 DEF TreeWork, NotCopying, AtFlashrom, AtChips, AtPatched
<1>8. at' \in AtUtil => script = "util"
  BY <1>3 DEF AtUtil, AtCopy, AtMove, AtFlashrom, AtChips, AtPatched
<1>9. at' # "make bucts"
  BY <1>3 DEF AtFlashrom, AtChips, AtPatched
<1>10. at' # "idle" => dir[prog]["in tree"] = NoTree
  <2>1. CASE at = "make normal"
    BY <2>1 DEF FlashromWork, LoopWork, NormalMakes, NormalRenames, BacksUp, ChipsApply,
         PatchedMakes, PatchedRenames, Removes, Restores, RenamesBack, Makes
  <2>2. QED
    BY <2>1
<1>11. QED
  BY <1>5, <1>6, <1>7, <1>8, <1>9, <1>10, BaseTreeWork DEF AtFlashrom, AtChips, AtPatched

\* ./download and ./build clean preserve Base,
LEMMA BaseOther ==
  ASSUME Base, OtherWork
  PROVE  Base'
<1>1. CASE Deletion
  <2>1. /\ at' = "clone" /\ at = "delete"
        /\ UNCHANGED <<script, prog, left, target, archive, outcome, fresh, stops>>
        /\ dir' \in [Programs -> [Places -> Tree \cup {NoTree}]]
        /\ \A q \in Programs : q # prog => dir'[q] = dir[q]
        /\ dir'[prog]["tree"] = NoTree /\ dir'[prog]["in tree"] = NoTree
        /\ dir'[prog]["copy"] = dir[prog]["copy"] /\ dir'[prog]["in copy"] = dir[prog]["in copy"]
    BY <1>1 DEF Deletion, Empties, Goto, Step
  <2>2. \A p \in Programs, l \in Places : dir'[p][l] = dir[p][l] \/ dir'[p][l] = NoTree
    BY <2>1 DEF Places
  <2>3. Directories'
    BY <2>1, <2>2 DEF Base, Directories, There
  <2>4. Nested'
    BY <2>1 DEF Base, Nested, There, Ranges
  <2>5. Control' /\ LeftPatches'
    BY <2>1 DEF Base, Control, LeftPatches, AtBucts, AtFlashrom, AtChips, AtPatched, AtUtil,
         AtCopy, AtMove, AtOther
  <2>6. Standing'
    BY <2>1 DEF Base, Control, Standing, There, AtBucts, AtFlashrom, AtChips, AtPatched, AtUtil,
         AtCopy, AtMove
  <2>7. Ranges' /\ History'
    BY <2>1 DEF Base, Ranges, History
  <2>8. QED
    BY <2>3, <2>4, <2>5, <2>6, <2>7 DEF Base
<1>2. CASE Clones
  <2>1. /\ at = "clone" /\ at' = "prepare"
        /\ UNCHANGED <<script, prog, left, target, archive, outcome, fresh, stops>>
        /\ OnlyTree /\ NewTree = Pristine
    BY <1>2 DEF Clones, Goto, Step
  <2>2. prog \in Programs
    BY DEF Base, Ranges
  <2>3. \A p \in Programs, l \in Places : dir'[p][l] = dir[p][l] \/ dir'[p][l] = Pristine
    BY <2>1, <2>2 DEF OnlyTree, NewTree
  <2>4. Directories'
    <3>1. \A p \in Programs : Pristine.source \in Sources(p) /\ Pristine.backup \in Sources(p)
      BY PristineIsTree DEF Sources, Unpatched
    <3>2. QED
      BY <2>1, <2>3, <3>1 DEF Base, Directories, There, OnlyTree
  <2>5. Nested'
    <3>1. Pristine # NoTree
      BY PristineIsTree, TreeFields
    <3>2. QED
      BY <2>1, <2>2, <3>1 DEF Base, Nested, There, OnlyTree, NewTree, Places
  <2>6. Control' /\ LeftPatches'
    BY <2>1 DEF Base, Control, LeftPatches, AtBucts, AtFlashrom, AtChips, AtPatched, AtUtil,
         AtCopy, AtMove, AtOther
  <2>7. Standing'
    <3>1. dir[prog]["in tree"] = NoTree
      BY <2>1, <2>2 DEF Base, Standing, Nested, There
    <3>2. tree' = Pristine /\ dir'[prog]["in tree"] = NoTree
      BY <2>1, <3>1 DEF OnlyTree, NewTree, Places, tree
    <3>3. script' # "util"
      BY <2>1 DEF Base, Control
    <3>. QED BY <2>1, <3>2, <3>3
         DEF Standing, AtBucts, AtFlashrom, AtChips, AtPatched, AtUtil, AtCopy, AtMove
  <2>8. Ranges' /\ History'
    BY <2>1 DEF Base, Ranges, History
  <2>9. QED
    BY <2>4, <2>5, <2>6, <2>7, <2>8 DEF Base
<1>3. CASE Prepares
  <2>1. /\ at = "prepare" /\ at' = "idle" /\ outcome' = "ok"
        /\ UNCHANGED <<script, prog, left, target, dir, archive, stops>>
        /\ fresh' = [fresh EXCEPT ![prog] = dir[prog]["copy"] = NoTree]
    BY <1>3 DEF Prepares, Ends
  <2>2. Directories' /\ Nested'
    BY <2>1 DEF Base, Directories, Nested, There
  <2>3. Control' /\ LeftPatches'
    BY <2>1 DEF Base, Control, LeftPatches, AtBucts, AtFlashrom, AtChips, AtPatched, AtUtil,
         AtCopy, AtMove, AtOther
  <2>4. Standing'
    BY <2>1 DEF Standing, AtBucts, AtFlashrom, AtChips, AtPatched, AtUtil, AtCopy, AtMove
  <2>5. fresh' \in [Programs -> BOOLEAN]
    <3>1. fresh \in [Programs -> BOOLEAN] /\ (dir[prog]["copy"] = NoTree) \in BOOLEAN
      BY DEF Base, History
    <3>2. QED
      BY <2>1, <3>1, Zenon
  <2>6. Ranges' /\ History'
    BY <2>1, <2>5 DEF Base, Ranges, History
  <2>7. QED
    BY <2>2, <2>3, <2>4, <2>6 DEF Base
<1>4. CASE Cleans
  <2>1. /\ at = "clean" /\ at' = "idle" /\ outcome' = "ok" /\ tree # NoTree
        /\ UNCHANGED <<script, prog, left, target, archive, fresh, stops>>
        /\ OnlyTree /\ NewTree \in Tree /\ NewTree.source = tree.source
        /\ NewTree.backup = tree.backup
    BY <1>4 DEF Cleans, Ends, history
  <2>2. tree.backup \in Sources(prog) /\ tree.source \in Sources(prog)
    BY <2>1, TreeInHand
  <2>3. Control' /\ LeftPatches'
    BY <2>1 DEF Base, Control, LeftPatches, AtBucts, AtFlashrom, AtChips, AtPatched, AtUtil,
         AtCopy, AtMove, AtOther
  <2>4. TreeWork /\ NotCopying
    BY <2>1, <2>2 DEF TreeWork, NotCopying, Base, Ranges, LeftPatches
  <2>5. at' \notin AtUtil \cup AtFlashrom \cup {"make bucts", "reverse Makefile"}
    BY <2>1 DEF AtUtil, AtCopy, AtMove, AtFlashrom, AtChips, AtPatched
  <2>6. script # "util"
    BY <2>1 DEF Base, Control
  <2>7. QED
    BY <2>1, <2>3, <2>4, <2>5, <2>6, BaseTreeWork DEF AtUtil, AtMove
<1>5. QED
  BY <1>1, <1>2, <1>3, <1>4 DEF OtherWork

\* ./build release util preserves Base,
LEMMA BaseUtil ==
  ASSUME Base, UtilWork
  PROVE  Base'
<1>1. /\ prog \in Programs /\ script = "util" /\ at \in AtUtil /\ outcome = "running"
      /\ archive \in [Binaries -> Source]
  BY DEF UtilWork, Copies, Copied, Collects, BeginsRemoval, Removal, Moves, AtUtil, AtCopy, AtMove,
         Base, Control, Ranges
<1>2. CASE Copies
  <2>1. /\ at = "copy" /\ at' = "copying" /\ tree # NoTree
        /\ target' = IF dir[prog]["copy"] = NoTree THEN "copy" ELSE "in copy"
        /\ UNCHANGED <<script, prog, left, archive, outcome, fresh, stops>>
        /\ dir' \in [Programs -> [Places -> Tree \cup {NoTree}]]
        /\ \A q \in Programs : q # prog => dir'[q] = dir[q]
        /\ \A l \in Places : l # target' => dir'[prog][l] = dir[prog][l]
        /\ Torn(dir'[prog][target'])
        /\ dir'[prog][target'].source = tree.source /\ dir'[prog][target'].backup = tree.backup
    BY <1>2 DEF Copies, history
  <2>2. tree.source \in Sources(prog) /\ tree.backup \in Sources(prog)
    BY <2>1, TreeInHand
  <2>3. Directories'
    <3>1. ASSUME NEW p \in Programs, NEW l \in Places, dir'[p][l] # NoTree
          PROVE  dir'[p][l].source \in Sources(p) /\ dir'[p][l].backup \in Sources(p)
      <4>1. CASE p = prog /\ l = target'
        BY <2>1, <2>2, <4>1
      <4>2. CASE p # prog \/ l # target'
        <5>1. dir'[p][l] = dir[p][l]
          BY <2>1, <4>2
        <5>2. QED
          BY <3>1, <5>1 DEF Base, Directories, There
      <4>3. QED
        BY <4>1, <4>2
    <3>2. QED
      BY <2>1, <3>1 DEF Directories, There
  <2>4. Nested'
    BY <2>1 DEF Base, Nested, There, Torn, Places
  <2>5. Control' /\ LeftPatches'
    BY <1>1, <2>1 DEF Base, Control, LeftPatches, AtBucts, AtFlashrom, AtChips, AtPatched, AtUtil,
         AtCopy, AtMove, AtOther
  <2>6. Standing'
    <3>1. There(prog, "tree")' /\ There(prog, "copy")'
      BY <2>1 DEF There, Torn, Places, tree
    <3>2. target' = "copy" => Torn(dir'[prog']["copy"])
      BY <2>1
    <3>3. QED
      BY <2>1, <3>1, <3>2 DEF Standing, Torn, There, AtBucts, AtFlashrom, AtChips, AtPatched,
         AtUtil, AtCopy, AtMove
  <2>7. Ranges' /\ History'
    BY <2>1 DEF Base, Ranges, History
  <2>8. QED
    BY <2>3, <2>4, <2>5, <2>6, <2>7 DEF Base
<1>3. CASE Copied
  <2>1. /\ at = "copying" /\ tree # NoTree
        /\ at' = IF prog = "bucts" THEN "patch Makefile" ELSE "make normal"
        /\ UNCHANGED <<script, prog, left, target, archive, outcome, fresh, stops>>
        /\ dir' \in [Programs -> [Places -> Tree \cup {NoTree}]]
        /\ \A q \in Programs : q # prog => dir'[q] = dir[q]
        /\ dir'[prog]["tree"] = tree /\ dir'[prog]["in tree"] = dir[prog]["in tree"]
        /\ \/ dir'[prog]["copy"] = tree /\ dir'[prog]["in copy"] = dir[prog]["in tree"]
           \/ dir'[prog]["copy"] = dir[prog]["copy"] /\ dir'[prog]["in copy"] = tree
    BY <1>3 DEF Copied, Goto, Step
  <2>2. \A l \in Places : \E m \in Places : dir'[prog][l] = dir[prog][m]
    BY <2>1 DEF Places, tree
  <2>3. Directories'
    <3>1. ASSUME NEW p \in Programs, NEW l \in Places, dir'[p][l] # NoTree
          PROVE  dir'[p][l].source \in Sources(p) /\ dir'[p][l].backup \in Sources(p)
      <4>1. PICK m \in Places : dir'[p][l] = dir[p][m]
        BY <2>1, <2>2
      <4>2. QED
        BY <3>1, <4>1 DEF Base, Directories, There
    <3>2. QED
      BY <2>1, <3>1 DEF Directories, There
  <2>4. There(prog, "copy")
    BY <2>1 DEF Base, Standing, AtUtil, AtCopy, AtMove, There
  <2>5. Nested'
    BY <2>1, <2>4 DEF Base, Nested, There, tree
  <2>6. Control' /\ LeftPatches'
    BY <1>1, <2>1 DEF Base, Control, LeftPatches, AtBucts, AtFlashrom, AtChips, AtPatched, AtUtil,
         AtCopy, AtMove, AtOther, Programs
  <2>7. Standing'
    BY <2>1, <2>4 DEF Standing, There, AtBucts, AtFlashrom, AtChips, AtPatched, AtUtil, AtCopy,
       AtMove
  <2>8. Ranges' /\ History'
    BY <2>1 DEF Base, Ranges, History
  <2>9. QED
    BY <2>3, <2>5, <2>6, <2>7, <2>8 DEF Base
<1>4. CASE Collects \/ BeginsRemoval
  <2>1. /\ \/ at = "collect" /\ at' = "remove tree"
           \/ at = "remove tree" /\ at' = "removing tree"
        /\ UNCHANGED <<script, prog, left, target, outcome, fresh, stops>>
        /\ archive' \in [Binaries -> Source]
        /\ OnlyTree /\ NewTree \in Tree /\ NewTree.source = tree.source
        /\ NewTree.backup = tree.backup
    BY <1>1, <1>4 DEF Collects, BeginsRemoval, Goto, Step, history
  <2>2. /\ There(prog, "copy") /\ tree # NoTree /\ dir[prog]["in tree"] = NoTree
    BY <2>1 DEF Base, Standing, There, AtUtil, AtCopy, AtMove, tree
  <2>3. tree.source \in Sources(prog) /\ tree.backup \in Sources(prog)
    BY <2>2, TreeInHand
  <2>4. Control' /\ LeftPatches'
    BY <1>1, <2>1 DEF Base, Control, LeftPatches, AtBucts, AtFlashrom, AtChips, AtPatched, AtUtil,
         AtCopy, AtMove, AtOther
  <2>5. TreeWork /\ NotCopying
    BY <1>1, <2>1, <2>2, <2>3 DEF TreeWork, NotCopying, Base, LeftPatches
  <2>6. at # "idle" /\ at' # "make bucts"
    BY <2>1
  <2>7. QED
    BY <2>2, <2>4, <2>5, <2>6, BaseTreeWork
<1>5. CASE Removal
  <2>1. /\ at = "removing tree" /\ at' = "move copy"
        /\ UNCHANGED <<script, prog, left, target, archive, outcome, fresh, stops>>
        /\ dir' \in [Programs -> [Places -> Tree \cup {NoTree}]]
        /\ \A q \in Programs : q # prog => dir'[q] = dir[q]
        /\ dir'[prog]["tree"] = NoTree /\ dir'[prog]["in tree"] = NoTree
        /\ dir'[prog]["copy"] = dir[prog]["copy"] /\ dir'[prog]["in copy"] = dir[prog]["in copy"]
    BY <1>5 DEF Removal, Empties, Goto, Step
  <2>2. \A p \in Programs, l \in Places : dir'[p][l] = dir[p][l] \/ dir'[p][l] = NoTree
    BY <2>1 DEF Places
  <2>3. Directories'
    BY <2>1, <2>2 DEF Base, Directories, There
  <2>4. Nested'
    BY <2>1 DEF Base, Nested, There, Ranges
  <2>5. Control' /\ LeftPatches'
    BY <1>1, <2>1 DEF Base, Control, LeftPatches, AtBucts, AtFlashrom, AtChips, AtPatched, AtUtil,
         AtCopy, AtMove, AtOther
  <2>6. There(prog, "copy")
    BY <2>1 DEF Base, Standing, AtUtil, AtCopy, AtMove, There
  <2>7. Standing'
    BY <2>1, <2>6 DEF Standing, There, AtBucts, AtFlashrom, AtChips, AtPatched, AtUtil,
         AtCopy, AtMove
  <2>8. Ranges' /\ History'
    BY <2>1 DEF Base, Ranges, History
  <2>9. QED
    BY <2>3, <2>4, <2>5, <2>7, <2>8 DEF Base
<1>6. CASE Moves
  <2>1. /\ at = "move copy"
        /\ UNCHANGED <<script, left, target, archive, fresh, stops>>
        /\ \/ prog = "bucts" /\ at' = "copy" /\ prog' = "flashrom" /\ outcome' = outcome
           \/ prog # "bucts" /\ at' = "idle" /\ outcome' = "ok" /\ prog' = prog
        /\ dir' \in [Programs -> [Places -> Tree \cup {NoTree}]]
        /\ \A q \in Programs : q # prog => dir'[q] = dir[q]
        /\ dir'[prog]["tree"] = dir[prog]["copy"] /\ dir'[prog]["in tree"] = dir[prog]["in copy"]
        /\ dir'[prog]["copy"] = NoTree /\ dir'[prog]["in copy"] = NoTree
    BY <1>6 DEF Moves, Ends, history
  <2>2. \A l \in Places : dir'[prog][l] = NoTree \/ \E m \in Places : dir'[prog][l] = dir[prog][m]
    BY <2>1 DEF Places
  <2>3. Directories'
    <3>1. ASSUME NEW p \in Programs, NEW l \in Places, dir'[p][l] # NoTree
          PROVE  dir'[p][l].source \in Sources(p) /\ dir'[p][l].backup \in Sources(p)
      <4>1. PICK m \in Places : dir'[p][l] = dir[p][m]
        BY <2>1, <2>2, <3>1
      <4>2. QED
        BY <3>1, <4>1 DEF Base, Directories, There
    <3>2. QED
      BY <2>1, <3>1 DEF Directories, There
  <2>4. There(prog, "copy")
    BY <2>1 DEF Base, Standing, AtUtil, AtCopy, AtMove, There
  <2>5. Nested'
    BY <1>1, <2>1, <2>4 DEF Base, Nested, There
  <2>6. Control' /\ LeftPatches'
    BY <1>1, <2>1 DEF Base, Control, LeftPatches, AtBucts, AtFlashrom, AtChips, AtPatched, AtUtil,
         AtCopy, AtMove, AtOther
  <2>7. Standing'
    BY <2>1 DEF Standing, There, AtBucts, AtFlashrom, AtChips, AtPatched, AtUtil, AtCopy,
       AtMove
  <2>8. Ranges' /\ History'
    BY <2>1 DEF Base, Ranges, History, Programs
  <2>9. QED
    BY <2>3, <2>5, <2>6, <2>7, <2>8 DEF Base
<1>7. QED
  BY <1>2, <1>3, <1>4, <1>5, <1>6 DEF UtilWork

\* so every step does.
LEMMA BaseStep ==
  ASSUME Base, Next
  PROVE  Base'
BY Steps, BaseStarts, BaseStops, BaseBucts, BaseFlashrom, BaseUtil, BaseOther

-----------------------------------------------------------------------------
(* The names of the programs.                                               *)

\* Naming holds at first.
LEMMA NamingInit ==
  ASSUME Init
  PROVE  Naming /\ NamesAreTrue
BY DEF Init, Naming, NamesAreTrue, AtFlashrom, AtChips, AtPatched

\* ./build module bucts preserves Naming.
LEMMA NamingBucts ==
  ASSUME Base, Naming, BuctsWork
  PROVE  Naming' /\ NamesAreTrue'
<1>1. /\ prog = "bucts" /\ prog' = "bucts" /\ script' = script
      /\ script \in {"bucts static", "bucts dynamic", "util"}
      /\ outcome = "running" /\ tree' = NewTree /\ dir'["bucts"]["tree"] = NewTree
      /\ at = "patch Makefile" => script # "bucts dynamic"
      /\ assented => assented'
  <2>1. at \in AtBucts /\ (at = "patch Makefile" \/ at = "make bucts" \/ at = "reverse Makefile")
    BY DEF BuctsWork, StaticApplies, BuctsMakes, Reverses, AtBucts
  <2>2. prog' = prog /\ script' = script /\ (assented => assented')
    <3>1. CASE StaticApplies
      BY <3>1 DEF StaticApplies, Applies, Step
    <3>2. CASE BuctsMakes
      <4>1. prog' = prog /\ script' = script /\ assented' = assented
        BY <3>2 DEF BuctsMakes, Makes, Goto, Step
      <4>2. QED
        BY <4>1, Zenon
    <3>3. CASE Reverses
      BY <3>3 DEF Reverses, Comes, history
    <3>4. QED
      BY <3>1, <3>2, <3>3 DEF BuctsWork
  <2>3. /\ prog = "bucts" /\ script \in {"bucts static", "bucts dynamic", "util"}
        /\ outcome = "running" /\ (at = "patch Makefile" => script # "bucts dynamic")
    BY <2>1 DEF Base, Control
  <2>4. QED
    BY <2>2, <2>3 DEF tree, NewTree
<1>2. CASE StaticApplies
  <2>1. /\ at' = "make bucts" /\ outcome' = outcome
        /\ tree.source # Gone /\ tree # NoTree
        /\ ~assented' => StaticLink \notin tree.source
        /\ StaticLink \notin tree.source => NewTree.source = tree.source \cup {StaticLink}
    BY <1>2 DEF StaticApplies, Applies, Step
  <2>2. tree.source \in SUBSET {StaticLink}
    BY <1>1, <2>1, TreeInHand DEF Sources, Own
  <2>3. ~assented' => NewTree.source = {StaticLink}
    BY <2>1, <2>2
  <2>4. QED
    BY <1>1, <2>1, <2>3 DEF Naming, NamesAreTrue, AtFlashrom, AtChips, AtPatched
<1>3. CASE BuctsMakes
  <2>1. /\ at = "make bucts" /\ at' = "reverse Makefile" /\ outcome' = outcome
        /\ NewTree.built["bucts"] = tree.source
    BY <1>1, <1>3 DEF BuctsMakes, Makes, Goto, Step
  <2>2. QED
    BY <1>1, <2>1 DEF Naming, NamesAreTrue, AtFlashrom, AtChips, AtPatched
<1>4. CASE Reverses
  <2>1. /\ at = "reverse Makefile" /\ NewTree.built = tree.built
        /\ IF script = "util" THEN at' = "collect" /\ outcome' = outcome
           ELSE at' = "idle" /\ outcome' = "ok"
    BY <1>4 DEF Reverses, Comes, Ends
  <2>2. ~assented' /\ script # "bucts dynamic" => NewTree.built["bucts"] = Right("bucts")
    BY <1>1, <2>1, RightFacts DEF Naming
  <2>3. QED
    BY <1>1, <2>1, <2>2, RightFacts
    DEF Naming, NamesAreTrue, Named, AtFlashrom, AtChips, AtPatched
<1>5. QED
  BY <1>2, <1>3, <1>4 DEF BuctsWork

\* The normal build begins: nothing is patched of what is built.
LEMMA NamingStart ==
  ASSUME Base, Naming, NormalMakes \/ NormalRenames
  PROVE  Naming' /\ NamesAreTrue'
<1>1. /\ prog = "flashrom" /\ prog' = "flashrom" /\ tree' = NewTree
      /\ outcome' = "running" /\ left' = left /\ left = ChipPatches
      /\ assented' = assented
  <2>1. at \in {"make normal", "rename normal"} /\ at \in AtFlashrom
    BY DEF NormalMakes, NormalRenames, AtFlashrom
  <2>2. /\ prog' = prog /\ left' = left /\ outcome' = outcome /\ assented' = assented
    BY DEF NormalMakes, NormalRenames, Makes, Goto, Step
  <2>3. prog = "flashrom" /\ outcome = "running" /\ left = ChipPatches
    BY <2>1 DEF Base, Control, LeftPatches, AtChips, AtPatched, AtMove
  <2>4. QED
    BY <2>2, <2>3 DEF tree, NewTree
<1>2. Built' = {}
  BY <1>1, ChipFacts DEF Built
<1>3. CASE NormalMakes
  <2>1. /\ at' = "rename normal" /\ NewTree.source = tree.source
        /\ NewTree.built["flashrom"] = tree.source
    BY <1>1, <1>3 DEF NormalMakes, Makes, Goto, Step
  <2>2. Original' = tree.source
    BY <1>1, <2>1 DEF Original, AtPatched
  <2>3. tree.source # Gone
    BY <1>3 DEF NormalMakes, Makes
  <2>4. QED
    BY <1>1, <2>1, <2>2, <2>3 DEF Naming, NamesAreTrue, AtFlashrom, AtChips, AtPatched
<1>4. CASE NormalRenames
  <2>1. /\ at = "rename normal" /\ at' = "next patch" /\ NewTree.source = tree.source
        /\ NewTree.built["flashrom_normal"] = tree.built["flashrom"]
    BY <1>1, <1>4 DEF NormalRenames, Renames, Goto, Step
  <2>2. Original' = tree.source /\ Original = tree.source
    BY <1>1, <2>1 DEF Original, AtPatched
  <2>3. ~assented => Original # Gone /\ tree.built["flashrom"] = Original
    BY <2>1 DEF Naming, AtFlashrom
  <2>4. QED
    BY <1>1, <1>2, <2>1, <2>2, <2>3 DEF Naming, NamesAreTrue, AtFlashrom, AtChips, AtPatched
<1>5. QED
  BY <1>3, <1>4

\* The patches the loop is through with, as it goes on.
LEMMA BuiltFacts ==
  ASSUME Base
  PROVE  /\ Built \subseteq Binaries /\ "flashrom_normal" \notin Built /\ "flashrom" \notin Built
         /\ left # << >> => Head(left) \notin Built /\ Head(left) \in Chips
         /\ left = << >> => Built = Chips
         /\ left # << >> /\ left' = Tail(left) => Built' \subseteq Built \cup {Head(left)}
         /\ left' = left => Built' = Built
BY ChipFacts, LeftHead DEF Base, LeftPatches, Built, Chips, Binaries

\* The loop restores what it found.
LEMMA OriginalStays ==
  ASSUME Base, Naming, LoopWork, ~assented'
  PROVE  Original' = Original
<1>1. CASE ChipsApply
  <2>1. /\ at = "patch" /\ at' = "make patched" /\ prog' = prog
        /\ NewTree.backup = tree.backup
    BY <1>1 DEF ChipsApply, Applies, Step
  <2>2. ~assented
    BY <1>1 DEF ChipsApply, Applies
  <2>3. tree.backup = tree.source
    BY <2>1, <2>2 DEF Naming
  <2>4. QED
    BY <2>1, <2>3 DEF Original, AtPatched, tree, NewTree
<1>2. CASE NormalRenames \/ BacksUp
  BY <1>2 DEF NormalRenames, Renames, BacksUp, Goto, Step, Original, AtPatched, tree, NewTree
<1>3. CASE PatchedMakes \/ PatchedRenames
  BY <1>3 DEF PatchedMakes, Makes, PatchedRenames, Renames, Goto, Step, Original, AtPatched, tree,
              NewTree
<1>4. CASE Removes \/ Restores
  BY <1>4 DEF Removes, Restores, Goto, Step, Original, AtPatched, tree, NewTree
<1>5. QED
  BY <1>1, <1>2, <1>3, <1>4 DEF LoopWork

\* It preserves Naming.
LEMMA NamingLoop ==
  ASSUME Base, Naming, LoopWork, ~NormalRenames, ~assented'
  PROVE  Naming' /\ outcome' = "running"
<1>1. /\ at \in AtChips /\ prog' = prog /\ tree' = NewTree /\ ~assented /\ outcome' = "running"
      /\ prog = "flashrom"
  <2>1. at \in AtChips
    BY DEF LoopWork, BacksUp, ChipsApply, PatchedMakes, PatchedRenames, Removes, Restores,
           AtChips, AtPatched
  <2>2. prog' = prog /\ outcome' = outcome /\ (assented => assented')
    <3>1. CASE ChipsApply
      BY <3>1 DEF ChipsApply, Applies, Step
    <3>2. CASE Restores
      BY <3>2 DEF Restores, history
    <3>3. CASE BacksUp \/ PatchedMakes \/ PatchedRenames \/ Removes
      <4>1. prog' = prog /\ outcome' = outcome /\ assented' = assented
        BY <3>3 DEF BacksUp, PatchedMakes, PatchedRenames, Removes, Makes, Goto, Step
      <4>2. QED
        BY <4>1, Zenon
    <3>4. QED
      BY <3>1, <3>2, <3>3 DEF LoopWork
  <2>3. QED
    BY <2>1, <2>2 DEF Base, Control, AtFlashrom, AtChips, AtPatched, tree, NewTree
<1>2. /\ Original # Gone /\ tree.built["flashrom_normal"] = Original
      /\ \A q \in Built : q \notin Original /\ tree.built[q] = Original \cup {q}
  BY <1>1 DEF Naming, AtFlashrom, AtChips, AtPatched
<1>3. at' \in AtChips \ {"rename normal"}
  BY DEF LoopWork, BacksUp, ChipsApply, PatchedMakes, PatchedRenames, Removes, Restores,
         Applies, Makes, Goto, Step, AtChips, AtPatched
<1>4. SUFFICES /\ Original' = Original
               /\ NewTree.built["flashrom_normal"] = Original
               /\ \A q \in Built' : q \notin Original /\ NewTree.built[q] = Original \cup {q}
               /\ at' = "patch" => NewTree.backup = NewTree.source
               /\ at' \in AtPatched => Head(left') \notin Original
               /\ at' \in {"make patched", "rename patched"} =>
                    NewTree.source = Original \cup {Head(left')}
               /\ at' = "rename patched" => NewTree.built["flashrom"] = Original \cup {Head(left')}
               /\ at' \in {"remove patched", "restore"} =>
                    NewTree.built[Head(left')] = Original \cup {Head(left')}
  BY <1>1, <1>2, <1>3, <1>4 DEF Naming, AtFlashrom, AtChips, AtPatched
<1>5. CASE BacksUp
  <2>1. /\ at = "next patch" /\ left # << >> /\ at' = "patch" /\ left' = left
        /\ NewTree.source = tree.source /\ NewTree.backup = tree.source
        /\ \A x \in Binaries : x # Head(left) => NewTree.built[x] = tree.built[x]
    BY <1>5 DEF BacksUp, Goto, Step
  <2>2. Original' = Original
    BY OriginalStays
  <2>3. "flashrom_normal" \in Binaries /\ Head(left) # "flashrom_normal"
    BY <2>1, BuiltFacts DEF Binaries, Chips
  <2>4. QED
    BY <1>2, <2>1, <2>2, <2>3, BuiltFacts DEF AtPatched
<1>6. CASE ChipsApply
  <2>1. /\ at = "patch" /\ at' = "make patched" /\ left' = left
        /\ NewTree.backup = tree.backup /\ NewTree.built = tree.built
        /\ Head(left) \notin tree.source
        /\ NewTree.source = tree.source \cup {Head(left)}
    BY <1>6 DEF ChipsApply, Applies, Step
  <2>2. tree.backup = tree.source
    BY <1>1, <2>1 DEF Naming
  <2>3. Original' = Original /\ Original = tree.source
    BY <1>1, <2>1, <2>2 DEF Original, AtPatched
  <2>4. QED
    BY <1>2, <2>1, <2>3, BuiltFacts
<1>7. CASE PatchedMakes
  <2>1. /\ at = "make patched" /\ at' = "rename patched" /\ left' = left
        /\ NewTree.backup = tree.backup /\ NewTree.source = tree.source
        /\ NewTree.built["flashrom"] = tree.source
        /\ \A x \in Binaries : x # "flashrom" => NewTree.built[x] = tree.built[x]
    BY <1>1, <1>7 DEF PatchedMakes, Makes, Goto, Step
  <2>2. Original' = Original
    BY OriginalStays
  <2>3. Head(left) \notin Original /\ tree.source = Original \cup {Head(left)}
    BY <1>1, <2>1 DEF Naming, AtPatched
  <2>4. "flashrom_normal" \in Binaries
    BY DEF Binaries
  <2>5. QED
    BY <1>2, <2>1, <2>2, <2>3, <2>4, BuiltFacts
<1>8. CASE PatchedRenames
  <2>1. /\ at = "rename patched" /\ at' = "remove patched" /\ left' = left
        /\ NewTree.backup = tree.backup
        /\ NewTree.built[Head(left)] = tree.built["flashrom"]
        /\ \A x \in Binaries : x \notin {"flashrom", Head(left)} => NewTree.built[x] = tree.built[x]
    BY <1>1, <1>8 DEF PatchedRenames, Renames, Goto, Step
  <2>2. Original' = Original
    BY OriginalStays
  <2>3. Head(left) \notin Original /\ tree.built["flashrom"] = Original \cup {Head(left)}
    BY <1>1, <2>1 DEF Naming, AtPatched
  <2>4. left # << >>
    BY <2>1 DEF Base, LeftPatches, AtChips, AtPatched
  <2>5. "flashrom_normal" \in Binaries /\ Head(left) # "flashrom_normal"
    BY <2>4, BuiltFacts DEF Binaries, Chips
  <2>6. \A q \in Built : q \in Binaries /\ q \notin {"flashrom", Head(left)}
    BY <2>4, BuiltFacts
  <2>7. QED
    BY <1>2, <2>1, <2>2, <2>3, <2>5, <2>6, BuiltFacts
<1>9. CASE Removes
  <2>1. /\ at = "remove patched" /\ at' = "restore" /\ left' = left
        /\ NewTree.backup = tree.backup /\ NewTree.built = tree.built
    BY <1>9 DEF Removes, Goto, Step
  <2>2. Original' = Original
    BY OriginalStays
  <2>3. Head(left) \notin Original /\ tree.built[Head(left)] = Original \cup {Head(left)}
    BY <1>1, <2>1 DEF Naming, AtPatched
  <2>4. QED
    BY <1>2, <2>1, <2>2, <2>3, BuiltFacts
<1>10. CASE Restores
  <2>1. /\ at = "restore" /\ at' = "next patch" /\ left' = Tail(left)
        /\ NewTree.source = tree.backup /\ NewTree.built = tree.built
    BY <1>10 DEF Restores
  <2>2. Original' = Original
    BY OriginalStays
  <2>3. Head(left) \notin Original /\ tree.built[Head(left)] = Original \cup {Head(left)}
    BY <1>1, <2>1 DEF Naming, AtPatched
  <2>4. left # << >>
    BY <2>1 DEF Base, LeftPatches, AtChips, AtPatched
  <2>5. Built' \subseteq Built \cup {Head(left)}
    BY <2>1, <2>4, BuiltFacts
  <2>6. QED
    BY <1>2, <2>1, <2>2, <2>3, <2>5 DEF AtPatched
<1>11. QED
  BY <1>5, <1>6, <1>7, <1>8, <1>9, <1>10 DEF LoopWork

\* At its end the tree was without patches all along.
LEMMA NothingOriginal ==
  ASSUME Base, Naming, ~assented, at = "next patch", left = << >>
  PROVE  /\ Original = {} /\ tree.built["flashrom_normal"] = {}
         /\ \A q \in Chips : tree.built[q] = {q}
<1>1. /\ Original # Gone /\ tree.built["flashrom_normal"] = Original
      /\ \A q \in Built : q \notin Original /\ tree.built[q] = Original \cup {q}
  BY DEF Naming, AtFlashrom, AtChips, AtPatched
<1>2. Original = tree.source /\ prog = "flashrom" /\ tree # NoTree
  BY DEF Original, AtPatched, Base, Control, Standing, AtFlashrom, AtChips, There, tree
<1>3. Original \in SUBSET Chips
  BY <1>1, <1>2, TreeInHand DEF Sources, Own
<1>4. Built = Chips
  BY BuiltFacts
<1>5. Original = {}
  BY <1>1, <1>3, <1>4
<1>6. QED
  BY <1>1, <1>4, <1>5

\* So its programs are as they are named.
LEMMA NamingEnd ==
  ASSUME Base, Naming, RenamesBack
  PROVE  Naming' /\ NamesAreTrue'
<1>1. /\ at = "next patch" /\ left = << >> /\ prog = "flashrom" /\ prog' = "flashrom"
      /\ script' = script /\ script \in {"flashrom", "util"}
      /\ at' \in {"collect", "idle"} /\ UNCHANGED assented
      /\ NewTree.built["flashrom"] = tree.built["flashrom_normal"]
      /\ \A x \in Binaries : x \notin {"flashrom", "flashrom_normal"} =>
           NewTree.built[x] = tree.built[x]
  BY AtFlashromFacts DEF RenamesBack, FlashromWork, Renames, Comes, Ends, history
<1>2. dir'["flashrom"]["tree"] = NewTree
  BY <1>1 DEF NewTree
<1>3. ASSUME ~assented
      PROVE  \A x \in Shipped["flashrom"] : NewTree.built[x] = Right(x)
  <2>1. \A q \in Chips : q \in Binaries /\ q \notin {"flashrom", "flashrom_normal"}
    BY DEF Chips, Binaries
  <2>2. NewTree.built["flashrom"] = {} /\ \A q \in Chips : NewTree.built[q] = {q}
    BY <1>1, <1>3, <2>1, NothingOriginal
  <2>3. QED
    BY <2>2, RightFacts DEF Chips
<1>4. Naming'
  BY <1>1, <1>2, <1>3 DEF Naming, Named, AtFlashrom, AtChips, AtPatched
<1>5. NamesAreTrue'
  BY <1>1, <1>2, <1>3 DEF NamesAreTrue
<1>6. QED
  BY <1>4, <1>5

\* Every step preserves Naming.
LEMMA NamingStep ==
  ASSUME Base, Naming, NamesAreTrue, Next
  PROVE  Naming' /\ NamesAreTrue'
<1>1. CASE BuctsWork
  BY <1>1, NamingBucts
<1>2. CASE FlashromWork
  <2>1. CASE NormalMakes \/ NormalRenames
    BY <2>1, NamingStart
  <2>2. CASE RenamesBack
    BY <2>2, NamingEnd
  <2>3. CASE LoopWork /\ ~NormalRenames /\ ~assented'
    BY <2>3, NamingLoop DEF NamesAreTrue
  <2>4. CASE assented'
    BY <2>4 DEF Naming, NamesAreTrue
  <2>5. QED
    BY <1>2, <2>1, <2>2, <2>3, <2>4 DEF FlashromWork
<1>3. CASE Stop \/ Gives
  <2>1. at' = "idle" /\ outcome' \in {"stopped", "aborted"}
    BY <1>3 DEF Stop, Gives, Aborts, Ends
  <2>2. QED
    BY <2>1 DEF Naming, NamesAreTrue, AtFlashrom, AtChips, AtPatched
<1>4. ASSUME NEW s \in Scripts, NEW p \in Programs, Starts(s, p)
      PROVE  Naming' /\ NamesAreTrue'
  <2>1. /\ outcome' = "running" /\ script' = s
        /\ at' \in {"copy", "make normal", "patch Makefile", "make bucts", "delete", "clean"}
        /\ at' = "make bucts" => s = "bucts dynamic"
    BY <1>4, StartFacts
  <2>2. QED
    BY <2>1 DEF Naming, NamesAreTrue, AtFlashrom, AtChips, AtPatched
<1>5. CASE UtilWork
  <2>1. /\ at' \in AtUtil \ {"collect"} \/ at' \in {"patch Makefile", "make normal", "idle"}
        /\ script' = script /\ at \in AtUtil
    <3>1. CASE Copied \/ BeginsRemoval \/ Removal
      BY <3>1 DEF Copied, BeginsRemoval, Removal, Empties, Goto, Step, AtUtil, AtCopy, AtMove
    <3>2. CASE Copies \/ Collects \/ Moves
      BY <3>2 DEF Copies, Collects, Moves, Ends, AtUtil, AtCopy, AtMove
    <3>3. QED
      BY <1>5, <3>1, <3>2 DEF UtilWork
  <2>2. script' = "util"
    BY <2>1 DEF Base, Control
  <2>3. QED
    BY <2>1, <2>2 DEF Naming, NamesAreTrue, AtFlashrom, AtChips, AtPatched, AtUtil, AtCopy, AtMove
<1>6. CASE OtherWork
  <2>1. /\ at' \in {"clone", "prepare", "idle"} /\ script' = script
        /\ at \in {"delete", "clone", "prepare", "clean"}
    BY <1>6 DEF OtherWork, Deletion, Clones, Prepares, Cleans, Empties, Goto, Step, Ends
  <2>2. script' \in {"download", "clean"}
    BY <2>1 DEF Base, Control
  <2>3. QED
    BY <2>1, <2>2 DEF Naming, NamesAreTrue, AtFlashrom, AtChips, AtPatched
<1>7. QED
  BY <1>1, <1>2, <1>3, <1>4, <1>5, <1>6, Steps

-----------------------------------------------------------------------------
(* What the module scripts leave alone.                                     *)

ModuleFrames ==
  /\ UNCHANGED <<script, prog, archive, target, fresh, tidy, utilOnly, stops>>
  /\ at' \in (AtBucts \cup AtFlashrom \cup {"collect", "idle"}) \ {"patch Makefile", "make normal"}
  /\ at' = "idle" => outcome' = "ok" /\ script # "util"
  /\ at' # "idle" => outcome' = outcome
  /\ OnlyTree /\ NewTree \in Tree /\ tree # NoTree /\ NewTree.whole = tree.whole

\* A module script changes the tree in hand and nothing else.
LEMMA ModuleFrame ==
  ASSUME Base, BuctsWork \/ FlashromWork
  PROVE  /\ UNCHANGED <<script, prog, archive, target, fresh, tidy, utilOnly, stops>>
         /\ assented => assented'
         /\ at # "idle" /\ at \in AtBucts \cup AtFlashrom
         /\ at' \in (AtBucts \cup AtFlashrom \cup {"collect", "idle"})
                      \ {"patch Makefile", "make normal"}
         /\ outcome = "running" /\ outcome' \in {"running", "ok"}
         /\ script = "util" => at' # "idle" /\ outcome' = "running"
         /\ OnlyTree /\ NewTree \in Tree /\ NewTree # NoTree /\ tree # NoTree
         /\ NewTree.whole = tree.whole
         /\ tree' = NewTree
<1>1. ASSUME StaticApplies \/ ChipsApply
      PROVE  ModuleFrames /\ (UNCHANGED assented \/ (assented => assented'))
  <2>1. ModuleFrames
    BY <1>1 DEF ModuleFrames, StaticApplies, ChipsApply, Applies, Step, AtBucts, AtFlashrom,
                AtChips, AtPatched
  <2>2. assented => assented'
    BY <1>1 DEF StaticApplies, ChipsApply, Applies
  <2>3. QED
    BY <2>1, <2>2
<1>2. ASSUME BuctsMakes \/ NormalMakes \/ PatchedMakes
      PROVE  ModuleFrames /\ (UNCHANGED assented \/ (assented => assented'))
  <2>1. ModuleFrames
    BY <1>2 DEF ModuleFrames, BuctsMakes, NormalMakes, PatchedMakes, Makes, Goto, Step, AtBucts,
                AtFlashrom, AtChips, AtPatched
  <2>2. UNCHANGED assented
    BY <1>2 DEF BuctsMakes, NormalMakes, PatchedMakes, Makes, Goto
  <2>3. QED
    BY <2>1, <2>2
<1>3. ASSUME Reverses
      PROVE  ModuleFrames /\ (UNCHANGED assented \/ (assented => assented'))
  <2>1. ModuleFrames /\ UNCHANGED assented
    BY <1>3 DEF ModuleFrames, Reverses, Comes, Ends, history
  <2>2. QED
    BY <2>1
<1>4. ASSUME NormalRenames \/ PatchedRenames
      PROVE  ModuleFrames /\ (UNCHANGED assented \/ (assented => assented'))
  <2>1. ModuleFrames /\ UNCHANGED assented
    BY <1>4, AtFlashromFacts DEF ModuleFrames, FlashromWork, LoopWork, NormalRenames,
       PatchedRenames, Renames, Goto, Step, AtFlashrom, AtChips, AtPatched
  <2>2. QED
    BY <2>1
<1>5. ASSUME RenamesBack
      PROVE  ModuleFrames /\ (UNCHANGED assented \/ (assented => assented'))
  <2>1. ModuleFrames /\ UNCHANGED assented
    BY <1>5, AtFlashromFacts DEF ModuleFrames, FlashromWork, RenamesBack, Renames, Comes, Ends,
       history
  <2>2. QED
    BY <2>1
<1>6. ASSUME BacksUp \/ Removes
      PROVE  ModuleFrames /\ (UNCHANGED assented \/ (assented => assented'))
  <2>1. ModuleFrames /\ UNCHANGED assented
    BY <1>6, AtFlashromFacts DEF ModuleFrames, FlashromWork, LoopWork, BacksUp, Removes, Goto, Step,
       AtFlashrom, AtChips, AtPatched
  <2>2. QED
    BY <2>1
<1>7. ASSUME Restores
      PROVE  ModuleFrames /\ (UNCHANGED assented \/ (assented => assented'))
  <2>1. ModuleFrames /\ UNCHANGED assented
    BY <1>7, AtFlashromFacts DEF ModuleFrames, FlashromWork, LoopWork, Restores, history,
       AtFlashrom, AtChips, AtPatched
  <2>2. QED
    BY <2>1
<1>8. ModuleFrames /\ (UNCHANGED assented \/ (assented => assented'))
  BY <1>1, <1>2, <1>3, <1>4, <1>5, <1>6, <1>7 DEF BuctsWork, FlashromWork, LoopWork
<1>9. at \in AtBucts \cup AtFlashrom
  BY AtFlashromFacts DEF BuctsWork, StaticApplies, BuctsMakes, Reverses, AtBucts
<1>10. at # "idle" /\ outcome = "running"
  BY <1>9 DEF Base, Control, AtBucts, AtFlashrom, AtChips, AtPatched
<1>11. assented => assented'
  BY <1>8, Zenon
<1>12. NewTree # NoTree /\ tree' = NewTree
  BY <1>8, TreeFields DEF ModuleFrames, tree, NewTree
<1>13. QED
  BY <1>8, <1>9, <1>10, <1>11, <1>12 DEF ModuleFrames

-----------------------------------------------------------------------------
(* The archive.                                                             *)

\* Which scripts and commands the archive is made by.
LEMMA ArchivingStep ==
  ASSUME Base, Naming, Archiving, ArchiveIsTrue, Next
  PROVE  Archiving' /\ ArchiveIsTrue'
<1>1. CASE Stop \/ Gives
  <2>1. at' = "idle" /\ outcome' \in {"stopped", "aborted"}
    BY <1>1 DEF Stop, Gives, Aborts, Ends
  <2>2. QED
    BY <2>1 DEF Archiving, ArchiveIsTrue
<1>2. ASSUME NEW s \in Scripts, NEW p \in Programs, Starts(s, p)
      PROVE  Archiving' /\ ArchiveIsTrue'
  <2>1. outcome' = "running" /\ script' = s /\ prog' = p /\ (s = "util" => at' = "copy" /\ p = "bucts")
    BY <1>2, StartFacts
  <2>2. QED
    BY <2>1 DEF Archiving, ArchiveIsTrue, AtMove
<1>3. CASE OtherWork
  <2>1. script' = script /\ at \in {"delete", "clone", "prepare", "clean"}
    BY <1>3 DEF OtherWork, Deletion, Clones, Prepares, Cleans, Empties, Goto, Step
  <2>2. script' # "util"
    BY <2>1 DEF Base, Control
  <2>3. QED
    BY <2>2 DEF Archiving, ArchiveIsTrue
<1>4. CASE BuctsWork \/ FlashromWork
  <2>1. at \notin AtMove /\ at' \notin AtMove
    BY <1>4, ModuleFrame DEF AtMove, AtBucts, AtFlashrom, AtChips, AtPatched
  <2>2. /\ UNCHANGED <<script, prog, archive>> /\ at # "idle" /\ (assented => assented')
        /\ script = "util" => outcome' # "ok" /\ at' # "idle"
    BY <1>4, ModuleFrame
  <2>3. QED
    BY <2>1, <2>2 DEF Archiving, ArchiveIsTrue
<1>5. CASE Collects
  <2>1. /\ at = "collect" /\ at' = "remove tree"
        /\ UNCHANGED <<script, prog, outcome, assented>>
        /\ \A x \in Binaries : archive'[x] = IF x \in Shipped[prog] THEN tree.built[x] ELSE archive[x]
    BY <1>5 DEF Collects, history
  <2>2. prog \in Programs /\ script = "util" /\ outcome = "running"
    BY <2>1 DEF Base, Control, Ranges, AtUtil
  <2>3. \A x \in Shipped[prog] : x \in Binaries
    BY <2>2, RightFacts DEF Programs, Binaries
  <2>4. ~assented => \A x \in Shipped[prog] : archive'[x] = Right(x)
    BY <2>1, <2>3 DEF Naming, Named, tree
  <2>5. ~assented /\ prog = "flashrom" => archive'["bucts"] = Right("bucts")
    BY <2>1, <2>2, RightFacts DEF Archiving, Binaries
  <2>6. prog = "bucts" => "bucts" \in Shipped[prog]
    BY RightFacts
  <2>7. Archiving'
    BY <2>1, <2>2, <2>4, <2>5, <2>6 DEF Archiving, Programs
  <2>8. ArchiveIsTrue'
    BY <2>1, <2>2 DEF ArchiveIsTrue
  <2>9. QED
    BY <2>7, <2>8
<1>6. CASE Copies \/ Copied \/ BeginsRemoval \/ Removal
  <2>1. /\ UNCHANGED <<script, prog, archive, outcome, assented>>
        /\ at' \in AtMove => at \in AtMove
        /\ at \in AtUtil
    <3>1. CASE Copies
      BY <3>1 DEF Copies, history, AtUtil, AtCopy, AtMove
    <3>2. CASE Copied \/ BeginsRemoval \/ Removal
      BY <3>2 DEF Copied, BeginsRemoval, Removal, Empties, Goto, Step, AtUtil, AtCopy, AtMove
    <3>3. QED
      BY <1>6, <3>1, <3>2
  <2>2. at # "idle" /\ outcome = "running"
    BY <2>1 DEF Base, Control, AtUtil, AtCopy, AtMove
  <2>3. QED
    BY <2>1, <2>2 DEF Archiving, ArchiveIsTrue
<1>7. CASE Moves
  <2>1. /\ at = "move copy" /\ UNCHANGED <<script, archive, assented>>
        /\ \/ prog = "bucts" /\ at' = "copy" /\ prog' = "flashrom" /\ outcome' = outcome
           \/ prog # "bucts" /\ at' = "idle" /\ outcome' = "ok"
    BY <1>7 DEF Moves, Ends, history
  <2>2. prog \in Programs /\ script = "util" /\ outcome = "running"
    BY <2>1 DEF Base, Control, Ranges, AtUtil, AtMove
  <2>3. ~assented => archive["bucts"] = Right("bucts")
    BY <2>1, <2>2 DEF Archiving, AtMove
  <2>4. ~assented /\ prog = "flashrom" => \A x \in Shipped["flashrom"] : archive[x] = Right(x)
    BY <2>1, <2>2 DEF Archiving, AtMove
  <2>5. UNION {Shipped[p] : p \in Programs} = {"bucts"} \cup Shipped["flashrom"]
    BY RightFacts DEF Programs
  <2>6. Archiving'
    BY <2>1, <2>2, <2>3 DEF Archiving, AtMove
  <2>7. ArchiveIsTrue'
    BY <2>1, <2>2, <2>3, <2>4, <2>5 DEF ArchiveIsTrue, Programs
  <2>8. QED
    BY <2>6, <2>7
<1>8. QED
  BY <1>1, <1>2, <1>3, <1>4, <1>5, <1>6, <1>7, Steps DEF UtilWork

-----------------------------------------------------------------------------
(* The copies, when the release found none.                                 *)

\* A module script preserves Copying,
LEMMA CopyingModule ==
  ASSUME Base, Naming, Copying, BuctsWork \/ FlashromWork
  PROVE  Copying' /\ UtilPutsTreesBack'
<1> USE ModuleFrame
<1>1. UtilPutsTreesBack'
  BY DEF UtilPutsTreesBack
<1>c. SUFFICES ASSUME ~assented', at' # "idle", script' = "util", tidy'
               PROVE  Copying'
  BY <1>1, Zenon DEF Copying
<1>2. ~assented' /\ at' # "idle" /\ script = "util" /\ tidy
  BY <1>c
<1>3. ~assented /\ at # "idle" /\ prog' = prog /\ prog \in Programs
  BY <1>2 DEF Base, Ranges
<1>4. /\ dir'[prog]["copy"] = dir[prog]["copy"] /\ dir'[prog]["in copy"] = dir[prog]["in copy"]
      /\ dir'[prog]["in tree"] = dir[prog]["in tree"]
      /\ \A q \in Programs : q # prog => dir'[q] = dir[q]
  BY DEF OnlyTree, Places
<1>5. dir[prog]["copy"] # NoTree
  BY <1>2 DEF Base, Standing, There
<1>6. /\ prog = "bucts" => dir'["flashrom"]["copy"] = NoTree
      /\ prog = "flashrom" => Settled("bucts")'
  BY <1>2, <1>3, <1>4 DEF Copying, Settled, Alone, Programs
<1>7. at' \notin AtUtil \ {"collect"}
  BY DEF AtBucts, AtFlashrom, AtChips, AtPatched, AtUtil, AtCopy, AtMove
<1>8. CASE StaticApplies
  <2>1. /\ at = "patch Makefile" /\ at' = "make bucts" /\ tree.whole /\ tree.source # Gone
        /\ StaticLink \notin tree.source
    BY <1>2, <1>8 DEF StaticApplies, Applies, Step
  <2>2. prog = "bucts"
    BY <2>1 DEF Base, Control, AtBucts
  <2>3. tree.source = {}
    BY <2>1, <2>2, TreeInHand DEF Sources, Own
  <2>4. dir[prog]["copy"] = tree /\ dir[prog]["in copy"] = dir[prog]["in tree"]
    BY <1>2, <1>3, <2>1 DEF Copying
  <2>5. QED
    BY <1>3, <1>4, <1>6, <2>1, <2>2, <2>3, <2>4
    DEF Copying, Unpatched, AtFlashrom, AtChips, AtPatched, AtMove
<1>9. CASE BuctsMakes
  <2>1. /\ at = "make bucts" /\ at' = "reverse Makefile" /\ dir[prog]["in tree"] = NoTree
    BY <1>9 DEF BuctsMakes, Makes, Goto, Step
  <2>2. prog = "bucts"
    BY <2>1 DEF Base, Control, AtBucts
  <2>3. QED
    BY <1>2, <1>3, <1>4, <1>6, <2>1, <2>2 DEF Copying, Unpatched, AtFlashrom, AtChips, AtPatched, AtMove
<1>10. CASE Reverses
  <2>1. /\ at = "reverse Makefile" /\ at' = "collect"
    BY <1>2, <1>10 DEF Reverses, Comes
  <2>2. prog = "bucts"
    BY <2>1 DEF Base, Control, AtBucts
  <2>3. QED
    BY <1>2, <1>3, <1>4, <1>6, <2>1, <2>2 DEF Copying, Unpatched, AtFlashrom, AtChips, AtPatched, AtMove
<1>11. CASE NormalMakes
  <2>1. /\ at = "make normal" /\ at' = "rename normal" /\ dir[prog]["in tree"] = NoTree
        /\ tree.whole /\ NewTree.source = tree.source
    BY <1>11 DEF NormalMakes, Makes, Goto, Step
  <2>2. prog = "flashrom"
    BY <2>1 DEF Base, Control, AtFlashrom
  <2>3. dir[prog]["copy"] = tree /\ dir[prog]["in copy"] = dir[prog]["in tree"]
    BY <1>2, <1>3, <2>1 DEF Copying
  <2>4. Original' = tree.source
    BY <2>1 DEF Original, AtPatched
  <2>5. QED
    BY <1>3, <1>4, <1>6, <2>1, <2>2, <2>3, <2>4
    DEF Copying, Unpatched, AtFlashrom, AtChips, AtPatched, AtMove
<1>12. CASE LoopWork
  <2>1. Original' = Original
    BY <1>2, <1>12, OriginalStays
  <2>2. at \in AtFlashrom \ {"make normal"} /\ at' \in AtFlashrom \ {"make normal"}
    <3>1. CASE ChipsApply \/ PatchedMakes \/ NormalRenames \/ PatchedRenames
      BY <3>1 DEF NormalRenames, ChipsApply, PatchedMakes, PatchedRenames, Applies, Makes, Goto,
                  Step, AtFlashrom, AtChips, AtPatched
    <3>2. CASE BacksUp \/ Removes \/ Restores
      BY <3>2 DEF BacksUp, Removes, Restores, Goto, Step, AtFlashrom, AtChips, AtPatched
    <3>3. QED
      BY <1>12, <3>1, <3>2 DEF LoopWork
  <2>3. prog = "flashrom"
    BY <2>2 DEF Base, Control
  <2>4. /\ dir[prog]["copy"].whole /\ dir[prog]["copy"].source = Original
        /\ dir[prog]["in copy"] = NoTree
    BY <1>2, <1>3, <2>2 DEF Copying
  <2>5. QED
    BY <1>3, <1>4, <1>6, <1>7, <2>1, <2>2, <2>3, <2>4
    DEF Copying, AtFlashrom, AtChips, AtPatched, AtUtil, AtCopy, AtMove
<1>13. CASE RenamesBack
  <2>1. at = "next patch" /\ at' = "collect" /\ left = << >>
    BY <1>2, <1>13 DEF RenamesBack, Comes
  <2>2. prog = "flashrom" /\ at \in AtFlashrom \ {"make normal"}
    BY <2>1 DEF Base, Control, AtFlashrom, AtChips
  <2>3. Original = {}
    BY <1>3, <2>1, NothingOriginal
  <2>4. /\ dir[prog]["copy"].whole /\ dir[prog]["copy"].source = Original
        /\ dir[prog]["in copy"] = NoTree
    BY <1>2, <1>3, <2>2 DEF Copying
  <2>5. QED
    BY <1>3, <1>4, <1>5, <1>6, <2>1, <2>2, <2>3, <2>4
    DEF Copying, Unpatched, AtFlashrom, AtChips, AtPatched, AtMove
<1>14. QED
  BY <1>8, <1>9, <1>10, <1>11, <1>12, <1>13 DEF BuctsWork, FlashromWork

\* the release preserves it,
LEMMA CopyingUtil ==
  ASSUME Base, Copying, UtilWork
  PROVE  Copying' /\ UtilPutsTreesBack'
<1>1. /\ prog \in Programs /\ script = "util" /\ at # "idle" /\ outcome = "running"
      /\ script' = script /\ assented' = assented /\ tidy' = tidy
  <2>1. at \in AtUtil /\ script' = script /\ assented' = assented /\ tidy' = tidy
    <3>1. CASE Copies \/ Collects \/ Moves
      BY <3>1 DEF Copies, Collects, Moves, history, AtUtil, AtCopy, AtMove
    <3>2. CASE Copied \/ BeginsRemoval \/ Removal
      BY <3>2 DEF Copied, BeginsRemoval, Removal, Empties, Goto, Step, AtUtil, AtCopy, AtMove
    <3>3. QED
      BY <3>1, <3>2 DEF UtilWork
  <2>2. QED
    BY <2>1 DEF Base, Control, Ranges, AtUtil, AtCopy, AtMove
<1>2. CASE assented \/ ~tidy
  BY <1>1, <1>2 DEF Copying, UtilPutsTreesBack
<1>3. CASE ~assented /\ tidy
  <2>1. /\ prog = "bucts" => dir["flashrom"]["copy"] = NoTree
        /\ prog = "flashrom" => Settled("bucts")
    BY <1>1, <1>3 DEF Copying
  <2>2. CASE Copies
    <3>1. /\ at = "copy" /\ at' = "copying" /\ prog' = prog /\ outcome' = outcome
          /\ \A q \in Programs : q # prog => dir'[q] = dir[q]
          /\ dir[prog]["copy"] = NoTree => target' = "copy"
      BY <2>2 DEF Copies
    <3>2. dir[prog]["copy"] = NoTree
      BY <1>1, <1>3, <3>1 DEF Copying
    <3>3. UtilPutsTreesBack'
      BY <1>1, <3>1 DEF UtilPutsTreesBack
    <3>4. /\ prog = "bucts" => dir'["flashrom"]["copy"] = NoTree
          /\ prog = "flashrom" => Settled("bucts")'
      BY <2>1, <3>1 DEF Settled, Alone, Programs
    <3>5. QED
      BY <3>1, <3>2, <3>3, <3>4 DEF Copying, AtFlashrom, AtChips, AtPatched, AtMove
  <2>3. CASE Copied
    <3>1. /\ at = "copying" /\ prog' = prog /\ outcome' = outcome
          /\ at' \in {"patch Makefile", "make normal"}
          /\ \A q \in Programs : q # prog => dir'[q] = dir[q]
          /\ dir'[prog]["tree"] = tree /\ dir'[prog]["in tree"] = dir[prog]["in tree"]
          /\ target = "copy" => dir'[prog]["copy"] = tree /\ dir'[prog]["in copy"] = dir[prog]["in tree"]
      BY <2>3 DEF Copied, Goto, Step
    <3>2. target = "copy"
      BY <1>1, <1>3, <3>1 DEF Copying
    <3>3. UtilPutsTreesBack'
      BY <1>1, <3>1 DEF UtilPutsTreesBack
    <3>4. /\ prog = "bucts" => dir'["flashrom"]["copy"] = NoTree
          /\ prog = "flashrom" => Settled("bucts")'
      BY <2>1, <3>1 DEF Settled, Alone, Programs
    <3>5. tree' = tree
      BY <3>1 DEF tree
    <3>6. QED
      BY <3>1, <3>2, <3>3, <3>4, <3>5 DEF Copying, AtFlashrom, AtChips, AtPatched, AtMove
  <2>4. CASE Collects \/ BeginsRemoval \/ Removal
    <3>1. /\ at \in {"collect", "remove tree", "removing tree"} /\ at' \in AtMove
          /\ prog' = prog /\ outcome' = outcome
          /\ \A q \in Programs : q # prog => dir'[q] = dir[q]
          /\ dir'[prog]["copy"] = dir[prog]["copy"] /\ dir'[prog]["in copy"] = dir[prog]["in copy"]
      <4>1. CASE Collects
        BY <4>1 DEF Collects, OnlyTree, Places, AtMove
      <4>2. CASE BeginsRemoval
        BY <4>2 DEF BeginsRemoval, Goto, Step, OnlyTree, Places, AtMove
      <4>3. CASE Removal
        BY <4>3 DEF Removal, Empties, Goto, Step, AtMove
      <4>4. QED
        BY <2>4, <4>1, <4>2, <4>3
    <3>2. Unpatched(dir[prog]["copy"]) /\ dir[prog]["in copy"] = NoTree
      BY <1>1, <1>3, <3>1 DEF Copying, AtMove
    <3>3. UtilPutsTreesBack'
      BY <1>1, <3>1 DEF UtilPutsTreesBack
    <3>4. /\ prog = "bucts" => dir'["flashrom"]["copy"] = NoTree
          /\ prog = "flashrom" => Settled("bucts")'
      BY <2>1, <3>1 DEF Settled, Alone, Programs
    <3>5. QED
      BY <3>1, <3>2, <3>3, <3>4 DEF Copying, Unpatched, AtFlashrom, AtChips, AtPatched, AtMove
  <2>5. CASE Moves
    <3>1. /\ at = "move copy"
          /\ \/ prog = "bucts" /\ at' = "copy" /\ prog' = "flashrom" /\ outcome' = outcome
             \/ prog # "bucts" /\ at' = "idle" /\ outcome' = "ok"
          /\ \A q \in Programs : q # prog => dir'[q] = dir[q]
          /\ dir'[prog]["tree"] = dir[prog]["copy"] /\ dir'[prog]["in tree"] = dir[prog]["in copy"]
          /\ dir'[prog]["copy"] = NoTree /\ dir'[prog]["in copy"] = NoTree
      BY <2>5 DEF Moves, Ends
    <3>2. Unpatched(dir[prog]["copy"]) /\ dir[prog]["in copy"] = NoTree
      BY <1>1, <1>3, <3>1 DEF Copying, AtMove
    <3>3. \A p \in Programs : p = prog => Settled(p)'
      <4>1. Unpatched(dir'[prog]["tree"]) /\ \A l \in Places \ {"tree"} : dir'[prog][l] = NoTree
        BY <3>1, <3>2 DEF Places
      <4>2. QED
        BY <4>1 DEF Settled, Alone, Unpatched
    <3>4. CASE prog = "bucts"
      <4>1. dir'["flashrom"]["copy"] = NoTree
        BY <2>1, <3>1, <3>4 DEF Programs
      <4>2. Settled("bucts")'
        BY <3>3, <3>4 DEF Programs
      <4>3. QED
        BY <1>1, <3>1, <3>4, <4>1, <4>2
        DEF Copying, UtilPutsTreesBack, AtFlashrom, AtChips, AtPatched, AtMove
    <3>5. CASE prog = "flashrom"
      <4>1. Settled("bucts")'
        BY <2>1, <3>1, <3>5 DEF Settled, Alone, Programs
      <4>2. \A p \in Programs : Settled(p)'
        BY <3>3, <3>5, <4>1 DEF Programs
      <4>3. UtilPutsTreesBack'
        BY <4>2 DEF UtilPutsTreesBack, Settled, Alone, Unpatched
      <4>4. QED
        BY <3>1, <3>5, <4>3 DEF Copying
    <3>6. QED
      BY <1>1, <3>4, <3>5 DEF Programs
  <2>6. QED
    BY <2>2, <2>3, <2>4, <2>5 DEF UtilWork
<1>4. QED
  BY <1>2, <1>3

\* and so does every step.
LEMMA CopyingStep ==
  ASSUME Base, Naming, Copying, UtilPutsTreesBack, Next
  PROVE  Copying' /\ UtilPutsTreesBack'
<1>1. CASE BuctsWork \/ FlashromWork
  BY <1>1, CopyingModule
<1>2. CASE UtilWork
  BY <1>2, CopyingUtil
<1>3. CASE Stop \/ Gives
  <2>1. at' = "idle" /\ outcome' \in {"stopped", "aborted"}
    BY <1>3 DEF Stop, Gives, Aborts, Ends
  <2>2. QED
    BY <2>1 DEF Copying, UtilPutsTreesBack
<1>4. ASSUME NEW s \in Scripts, NEW p \in Programs, Starts(s, p)
      PROVE  Copying' /\ UtilPutsTreesBack'
  <2>1. /\ outcome' = "running" /\ script' = s /\ prog' = p /\ dir' = dir
        /\ s = "util" => at' = "copy" /\ p = "bucts"
        /\ tidy' => \A q \in Programs : dir[q]["copy"] = NoTree
    BY <1>4, StartFacts
  <2>2. QED
    BY <2>1 DEF Copying, UtilPutsTreesBack, Programs, AtFlashrom, AtChips, AtPatched, AtMove
<1>5. CASE OtherWork
  <2>1. script' = script /\ at \in {"delete", "clone", "prepare", "clean"}
    BY <1>5 DEF OtherWork, Deletion, Clones, Prepares, Cleans, Empties, Goto, Step
  <2>2. script' # "util"
    BY <2>1 DEF Base, Control
  <2>3. QED
    BY <2>2 DEF Copying, UtilPutsTreesBack
<1>6. QED
  BY <1>1, <1>2, <1>3, <1>4, <1>5, Steps

-----------------------------------------------------------------------------
(* What nothing has disturbed.                                              *)

\* Undisturbed holds at first.
LEMMA UndisturbedInit ==
  ASSUME Init
  PROVE  Undisturbed
<1>1. dir = [p \in Programs |-> [l \in Places |-> IF l = "tree" THEN Pristine ELSE NoTree]]
  BY DEF Init
<1>2. \A p \in Programs : Settled(p)
  BY <1>1, PristineIsTree DEF Settled, Alone, Places
<1>3. QED
  BY <1>2 DEF Init, Undisturbed

\* A module script keeps an undisturbed tree on track.
LEMMA OnTrackModule ==
  ASSUME Base, OnTrack, BuctsWork \/ FlashromWork
  PROVE  /\ at' # "idle" => OnTrack'
         /\ at' \in {"idle", "collect"} => NewTree.source = {}
<1> USE ModuleFrame
<1>1. /\ prog' = prog /\ script' = script /\ tree' = NewTree
      /\ NewTree.whole = tree.whole /\ dir[prog]["in tree"] = NoTree
  BY DEF OnTrack
<1>2. dir'[prog]["in tree"] = NoTree
  BY <1>1 DEF OnlyTree, Places
<1>3. tree.whole
  BY DEF OnTrack, AtBucts, AtFlashrom, AtChips, AtPatched, AtMove
<1>4. There(prog, "tree")'
  BY <1>1 DEF There, NewTree
<1>5. at' \in (AtBucts \cup AtFlashrom \cup {"collect", "idle"}) \ {"patch Makefile", "make normal"}
  OBVIOUS
<1>6. SUFFICES
        /\ at' \in {"rename normal", "next patch", "patch", "collect", "idle"} => NewTree.source = {}
        /\ at' \in {"make bucts", "reverse Makefile"} =>
             NewTree.source = IF script = "bucts dynamic" THEN {} ELSE {StaticLink}
        /\ at' \in {"patch"} \cup AtPatched => NewTree.backup = {}
        /\ at' \in {"make patched", "rename patched", "remove patched"} =>
             NewTree.source = {Head(left')}
  BY <1>1, <1>2, <1>3, <1>4, <1>5
  DEF OnTrack, AtBucts, AtFlashrom, AtChips, AtPatched, AtCopy, AtMove
<1> USE DEF OnTrack
<1>7. CASE StaticApplies
  <2>1. /\ at = "patch Makefile" /\ at' = "make bucts"
        /\ StaticLink \notin tree.source => NewTree.source = tree.source \cup {StaticLink}
    BY <1>7 DEF StaticApplies, Applies, Step
  <2>2. script # "bucts dynamic"
    BY <2>1 DEF Base, Control
  <2>3. QED
    BY <2>1, <2>2 DEF AtPatched
<1>8. CASE BuctsMakes
  <2>1. at = "make bucts" /\ at' = "reverse Makefile" /\ NewTree.source = tree.source
    BY <1>8 DEF BuctsMakes, Makes, Goto, Step
  <2>2. QED
    BY <2>1 DEF AtPatched
<1>9. CASE Reverses
  <2>1. /\ at = "reverse Makefile" /\ at' \in {"collect", "idle"}
        /\ script = "bucts dynamic" => NewTree.source = tree.source
        /\ script # "bucts dynamic" /\ tree.source = {StaticLink} => NewTree.source = {}
    BY <1>9 DEF Reverses, Comes, Ends
  <2>2. QED
    BY <2>1 DEF AtPatched
<1>10. CASE NormalMakes \/ NormalRenames
  <2>1. /\ at \in {"make normal", "rename normal"} /\ at' \in {"rename normal", "next patch"}
        /\ NewTree.source = tree.source
    BY <1>10 DEF NormalMakes, NormalRenames, Makes, Renames, Goto, Step
  <2>2. QED
    BY <2>1 DEF AtPatched
<1>11. CASE BacksUp
  <2>1. /\ at = "next patch" /\ at' = "patch"
        /\ NewTree.source = tree.source /\ NewTree.backup = tree.source
    BY <1>11 DEF BacksUp, Goto, Step
  <2>2. QED
    BY <2>1 DEF AtPatched
<1>12. CASE ChipsApply
  <2>1. /\ at = "patch" /\ at' = "make patched" /\ left' = left /\ NewTree.backup = tree.backup
        /\ Head(left) \notin tree.source => NewTree.source = tree.source \cup {Head(left)}
    BY <1>12 DEF ChipsApply, Applies, Step
  <2>2. QED
    BY <2>1 DEF AtPatched
<1>13. CASE PatchedMakes \/ PatchedRenames
  <2>1. /\ at \in {"make patched", "rename patched"} /\ at' \in {"rename patched", "remove patched"}
        /\ left' = left
        /\ NewTree.source = tree.source /\ NewTree.backup = tree.backup
    BY <1>13 DEF PatchedMakes, PatchedRenames, Makes, Renames, Goto, Step
  <2>2. QED
    BY <2>1 DEF AtPatched
<1>14. CASE Removes
  <2>1. at = "remove patched" /\ at' = "restore" /\ NewTree.backup = tree.backup
    BY <1>14 DEF Removes, Goto, Step
  <2>2. QED
    BY <2>1 DEF AtPatched
<1>15. CASE Restores
  <2>1. at = "restore" /\ at' = "next patch" /\ NewTree.source = tree.backup
    BY <1>15 DEF Restores
  <2>2. QED
    BY <2>1 DEF AtPatched
<1>16. CASE RenamesBack
  <2>1. at = "next patch" /\ at' \in {"collect", "idle"} /\ NewTree.source = tree.source
    BY <1>16 DEF RenamesBack, Comes, Ends, Renames
  <2>2. QED
    BY <2>1 DEF AtPatched
<1>17. QED
  BY <1>7, <1>8, <1>9, <1>10, <1>11, <1>12, <1>13, <1>14, <1>15, <1>16
  DEF BuctsWork, FlashromWork, LoopWork

\* A module script preserves Undisturbed,
LEMMA UndisturbedModule ==
  ASSUME Base, Undisturbed, BuctsWork \/ FlashromWork
  PROVE  Undisturbed'
<1> USE ModuleFrame
<1>1. /\ prog \in Programs /\ prog' = prog /\ script' = script /\ fresh' = fresh /\ at # "idle"
      /\ outcome' # "aborted" /\ tree' = NewTree
  BY DEF Base, Ranges
<1>2. /\ \A q \in Programs : q # prog => dir'[q] = dir[q]
      /\ dir'[prog]["copy"] = dir[prog]["copy"] /\ dir'[prog]["in copy"] = dir[prog]["in copy"]
      /\ dir'[prog]["in tree"] = dir[prog]["in tree"]
  BY DEF OnlyTree, Places
<1>3. \A p \in Programs : fresh[p] /\ p # prog => Settled(p)'
  <2>. SUFFICES ASSUME NEW p \in Programs, fresh[p], p # prog PROVE Settled(p)'
    OBVIOUS
  <2>1. Settled(p)
    BY DEF Undisturbed
  <2>2. dir'[p] = dir[p]
    BY <1>2
  <2>. QED BY <2>1, <2>2 DEF Settled, Alone
<1>4. ASSUME fresh[prog]
      PROVE  /\ at' # "idle" => OnTrack' /\ CopyOnTrack'
             /\ at' = "idle" => \A p \in Programs : p = prog => Settled(p)'
  <2>1. OnTrack /\ CopyOnTrack
    BY <1>1, <1>4 DEF Undisturbed
  <2>2. at \notin AtCopy /\ at' \notin AtCopy
    BY DEF AtBucts, AtFlashrom, AtChips, AtPatched, AtCopy
  <2>3. CopyOnTrack'
    BY <1>1, <1>2, <2>1, <2>2 DEF CopyOnTrack, Unpatched, There, AtCopy
  <2>4. at' # "idle" => OnTrack'
    BY <2>1, OnTrackModule
  <2>5. ASSUME at' = "idle"
        PROVE  /\ Unpatched(dir'[prog]["tree"])
               /\ \A l \in Places \ {"tree"} : dir'[prog][l] = NoTree
    <3>1. NewTree.source = {} /\ NewTree # NoTree /\ NewTree.whole
      BY <2>1, <2>5, OnTrackModule DEF OnTrack, AtBucts, AtFlashrom, AtChips, AtPatched, AtMove
    <3>2. script # "util"
      BY <2>5
    <3>3. /\ dir[prog]["copy"] = NoTree /\ dir[prog]["in copy"] = NoTree
          /\ dir[prog]["in tree"] = NoTree
      BY <2>1, <3>2 DEF CopyOnTrack, OnTrack
    <3>4. QED
      BY <1>2, <3>1, <3>3 DEF Unpatched, NewTree, Places
  <2>6. QED
    BY <2>3, <2>4, <2>5 DEF Settled, Alone, Unpatched
<1>5. QED
  BY <1>1, <1>3, <1>4 DEF Undisturbed

\* The release keeps an undisturbed tree on track while it removes it.
LEMMA OnTrackRemoval ==
  ASSUME Base, OnTrack, Collects \/ BeginsRemoval \/ Removal
  PROVE  OnTrack'
<1>1. CASE Collects \/ BeginsRemoval
  <2>1. /\ prog' = prog /\ at \in {"collect", "remove tree"}
        /\ at' \in {"remove tree", "removing tree"}
        /\ OnlyTree /\ NewTree \in Tree /\ NewTree.source = tree.source
    BY <1>1 DEF Collects, BeginsRemoval, Goto, Step
  <2>2. NewTree # NoTree /\ dir'[prog]["in tree"] = dir[prog]["in tree"]
    BY <2>1, TreeFields DEF OnlyTree, Places
  <2>3. QED
    BY <2>1, <2>2 DEF OnTrack, There, NewTree, tree, AtCopy, AtMove, AtPatched
<1>2. CASE Removal
  <2>1. prog' = prog /\ at' = "move copy" /\ dir'[prog]["in tree"] = NoTree
    BY <1>2 DEF Removal, Empties, Goto, Step
  <2>2. QED
    BY <2>1 DEF OnTrack, AtCopy, AtMove, AtPatched
<1>3. QED
  BY <1>1, <1>2

\* the release preserves Undisturbed,
LEMMA UndisturbedUtil ==
  ASSUME Base, Undisturbed, UtilWork
  PROVE  Undisturbed'
<1>1. /\ prog \in Programs /\ script = "util" /\ at # "idle" /\ outcome = "running"
      /\ script' = script /\ fresh' = fresh
  <2>1. at \in AtUtil /\ script' = script /\ fresh' = fresh
    <3>1. CASE Copies \/ Collects \/ Moves
      BY <3>1 DEF Copies, Collects, Moves, history, AtUtil, AtCopy, AtMove
    <3>2. CASE Copied \/ BeginsRemoval \/ Removal
      BY <3>2 DEF Copied, BeginsRemoval, Removal, Empties, Goto, Step, AtUtil, AtCopy, AtMove
    <3>3. QED
      BY <3>1, <3>2 DEF UtilWork
  <2>2. QED
    BY <2>1 DEF Base, Control, Ranges, AtUtil, AtCopy, AtMove
<1>2. fresh[prog] => OnTrack /\ CopyOnTrack
  BY <1>1 DEF Undisturbed
<1>3. \A q \in Programs : q # prog => dir'[q] = dir[q]
  BY DEF UtilWork, Copies, Copied, Collects, BeginsRemoval, Removal, Empties, Moves, OnlyTree
<1>4. \A p \in Programs : fresh[p] /\ p # prog => Settled(p) /\ Settled(p)'
  BY <1>3 DEF Undisturbed, Settled, Alone
<1>5. CASE ~Moves
  <2>1. prog' = prog /\ at' # "idle" /\ outcome' = outcome
    <3>1. CASE Copies \/ Collects
      BY <3>1 DEF Copies, Collects
    <3>2. CASE Copied \/ BeginsRemoval \/ Removal
      BY <3>2 DEF Copied, BeginsRemoval, Removal, Empties, Goto, Step
    <3>3. QED
      BY <1>5, <3>1, <3>2 DEF UtilWork
  <2>2. ASSUME fresh[prog]
        PROVE  OnTrack' /\ CopyOnTrack'
    <3>1. CASE Copies
      <4>1. /\ at = "copy" /\ at' = "copying"
            /\ target' = IF dir[prog]["copy"] = NoTree THEN "copy" ELSE "in copy"
            /\ \A l \in Places : l # target' => dir'[prog][l] = dir[prog][l]
            /\ Torn(dir'[prog][target'])
        BY <3>1 DEF Copies
      <4>2. OnTrack /\ CopyOnTrack /\ target' = "copy"
        BY <1>2, <2>2, <4>1 DEF CopyOnTrack
      <4>3. /\ dir'[prog]["tree"] = dir[prog]["tree"] /\ dir'[prog]["in tree"] = dir[prog]["in tree"]
            /\ dir'[prog]["in copy"] = dir[prog]["in copy"] /\ Torn(dir'[prog]["copy"])
        BY <4>1, <4>2 DEF Places
      <4>4. OnTrack'
        BY <2>1, <4>1, <4>2, <4>3 DEF OnTrack, There, tree, AtCopy, AtMove, AtPatched
      <4>5. CopyOnTrack'
        BY <1>1, <2>1, <4>1, <4>2, <4>3 DEF CopyOnTrack, There, Torn, AtCopy
      <4>6. QED
        BY <4>4, <4>5
    <3>2. CASE Copied
      <4>1. /\ at = "copying" /\ at' \in {"patch Makefile", "make normal"}
            /\ dir'[prog]["tree"] = tree /\ dir'[prog]["in tree"] = dir[prog]["in tree"]
            /\ target = "copy" =>
                 dir'[prog]["copy"] = tree /\ dir'[prog]["in copy"] = dir[prog]["in tree"]
        BY <3>2 DEF Copied, Goto, Step
      <4>2. OnTrack /\ CopyOnTrack /\ target = "copy"
        BY <1>2, <2>2, <4>1 DEF CopyOnTrack
      <4>3. tree # NoTree /\ tree.whole /\ tree.source = {} /\ dir[prog]["in tree"] = NoTree
        BY <4>1, <4>2 DEF OnTrack, There, tree, AtCopy, AtMove
      <4>4. OnTrack'
        BY <2>1, <4>1, <4>3 DEF OnTrack, There, tree, AtCopy, AtMove, AtPatched
      <4>5. CopyOnTrack'
        BY <1>1, <2>1, <4>1, <4>2, <4>3 DEF CopyOnTrack, Unpatched, AtCopy
      <4>6. QED
        BY <4>4, <4>5
    <3>3. CASE Collects \/ BeginsRemoval \/ Removal
      <4>1. /\ at \notin AtCopy /\ at' \notin AtCopy
            /\ dir'[prog]["copy"] = dir[prog]["copy"]
            /\ dir'[prog]["in copy"] = dir[prog]["in copy"]
        <5>1. CASE Collects
          BY <5>1 DEF Collects, OnlyTree, Places, AtCopy
        <5>2. CASE BeginsRemoval
          BY <5>2 DEF BeginsRemoval, Goto, Step, OnlyTree, Places, AtCopy
        <5>3. CASE Removal
          BY <5>3 DEF Removal, Empties, Goto, Step, AtCopy
        <5>4. QED
          BY <3>3, <5>1, <5>2, <5>3
      <4>2. OnTrack /\ CopyOnTrack
        BY <1>2, <2>2
      <4>3. CopyOnTrack'
        BY <1>1, <2>1, <4>1, <4>2 DEF CopyOnTrack, Unpatched, There, AtCopy
      <4>4. QED
        BY <3>3, <4>2, <4>3, OnTrackRemoval
    <3>4. QED
      BY <1>5, <3>1, <3>2, <3>3 DEF UtilWork
  <2>3. QED
    BY <1>1, <1>4, <2>1, <2>2 DEF Undisturbed
<1>6. CASE Moves
  <2>1. /\ at = "move copy"
        /\ \/ prog = "bucts" /\ at' = "copy" /\ prog' = "flashrom" /\ outcome' = outcome
           \/ prog # "bucts" /\ at' = "idle" /\ outcome' = "ok"
        /\ dir'[prog]["tree"] = dir[prog]["copy"] /\ dir'[prog]["in tree"] = dir[prog]["in copy"]
        /\ dir'[prog]["copy"] = NoTree /\ dir'[prog]["in copy"] = NoTree
    BY <1>6 DEF Moves, Ends
  <2>2. \A p \in Programs : fresh[p] /\ p = prog => Settled(p)'
    <3>1. fresh[prog] => Unpatched(dir[prog]["copy"]) /\ dir[prog]["in copy"] = NoTree
      BY <1>1, <1>2, <2>1 DEF CopyOnTrack, AtCopy
    <3>2. QED
      BY <2>1, <3>1 DEF Settled, Alone, Unpatched, Places
  <2>3. \A p \in Programs : fresh[p] => Settled(p)'
    BY <1>4, <2>2
  <2>4. at' = "copy" /\ fresh["flashrom"] => OnTrack' /\ CopyOnTrack'
    <3>1. fresh["flashrom"] => Settled("flashrom")'
      BY <2>3 DEF Programs
    <3>2. at' = "copy" => prog' = "flashrom"
      BY <2>1
    <3>3. Settled("flashrom")' =>
            /\ Unpatched(dir'["flashrom"]["tree"]) /\ dir'["flashrom"]["in tree"] = NoTree
            /\ dir'["flashrom"]["copy"] = NoTree /\ dir'["flashrom"]["in copy"] = NoTree
      BY DEF Settled, Alone, Unpatched, Places
    <3>4. QED
      BY <1>1, <3>1, <3>2, <3>3
      DEF OnTrack, CopyOnTrack, Unpatched, There, tree, AtCopy, AtMove, AtPatched
  <2>5. QED
    BY <1>1, <2>1, <2>3, <2>4 DEF Undisturbed
<1>7. QED
  BY <1>5, <1>6

\* a download and a clean preserve it,
LEMMA UndisturbedOther ==
  ASSUME Base, Undisturbed, OtherWork
  PROVE  Undisturbed'
<1>1. /\ prog \in Programs /\ script # "util" /\ at # "idle" /\ outcome = "running"
      /\ script' = script /\ prog' = prog
  <2>1. at \in {"delete", "clone", "prepare", "clean"} /\ script' = script /\ prog' = prog
    BY DEF OtherWork, Deletion, Clones, Prepares, Cleans, Empties, Goto, Step
  <2>2. QED
    BY <2>1 DEF Base, Control, Ranges
<1>2. fresh[prog] => OnTrack /\ CopyOnTrack
  BY <1>1 DEF Undisturbed
<1>3. \A q \in Programs : q # prog => dir'[q] = dir[q]
  BY DEF OtherWork, Deletion, Clones, Prepares, Cleans, Empties, OnlyTree
<1>4. \A p \in Programs : fresh[p] /\ p # prog => Settled(p) /\ Settled(p)'
  BY <1>3 DEF Undisturbed, Settled, Alone
<1>5. CASE Deletion
  <2>1. /\ at' = "clone" /\ fresh' = fresh /\ outcome' = outcome
        /\ dir'[prog]["tree"] = NoTree /\ dir'[prog]["in tree"] = NoTree
        /\ dir'[prog]["copy"] = dir[prog]["copy"] /\ dir'[prog]["in copy"] = dir[prog]["in copy"]
    BY <1>5 DEF Deletion, Empties, Goto, Step
  <2>2. OnTrack'
    BY <1>1, <2>1 DEF OnTrack, AtCopy, AtMove, AtPatched
  <2>3. fresh[prog] => CopyOnTrack'
    BY <1>1, <1>2, <2>1 DEF CopyOnTrack, AtCopy
  <2>4. QED
    BY <1>1, <1>4, <2>1, <2>2, <2>3 DEF Undisturbed
<1>6. CASE Clones
  <2>1. /\ at = "clone" /\ at' = "prepare" /\ fresh' = fresh /\ outcome' = outcome
        /\ OnlyTree /\ NewTree = Pristine
    BY <1>6 DEF Clones, Goto, Step
  <2>2. /\ tree' = Pristine /\ Unpatched(Pristine)
        /\ \A l \in Places : l # "tree" => dir'[prog][l] = dir[prog][l]
    BY <1>1, <2>1, PristineIsTree DEF OnlyTree, NewTree, tree
  <2>3. fresh[prog] => OnTrack'
    <3>1. fresh[prog] => dir'[prog]["in tree"] = NoTree
      BY <1>2, <2>2 DEF OnTrack, Places
    <3>. QED BY <1>1, <2>1, <2>2, <3>1
         DEF OnTrack, Unpatched, There, tree, AtCopy, AtMove, AtPatched
  <2>4. fresh[prog] => CopyOnTrack'
    BY <1>1, <1>2, <2>1, <2>2 DEF CopyOnTrack, AtCopy, Places
  <2>5. QED
    BY <1>1, <1>4, <2>1, <2>3, <2>4 DEF Undisturbed
<1>7. CASE Prepares
  <2>1. /\ at = "prepare" /\ at' = "idle" /\ outcome' = "ok" /\ dir' = dir
        /\ fresh' = [fresh EXCEPT ![prog] = dir[prog]["copy"] = NoTree]
    BY <1>7 DEF Prepares, Ends
  <2>2. \A q \in Programs : q # prog => fresh'[q] = fresh[q]
    BY <2>1 DEF Base, History
  <2>3. fresh'[prog] = (dir[prog]["copy"] = NoTree)
    BY <1>1, <2>1, Zenon DEF Base, History
  <2>4. /\ Unpatched(dir[prog]["tree"]) /\ dir[prog]["in tree"] = NoTree
        /\ dir[prog]["copy"] = NoTree => dir[prog]["in copy"] = NoTree
    BY <1>1, <2>1, PristineIsTree DEF Base, Standing, Nested, There, tree
  <2>5. \A p \in Programs : fresh'[p] /\ p = prog => Settled(p)'
    <3>1. ASSUME fresh'[prog]
          PROVE  \A l \in Places \ {"tree"} : dir'[prog][l] = NoTree
      <4>1. dir[prog]["copy"] = NoTree
        BY <2>3, <3>1, Zenon
      <4>2. QED
        BY <2>1, <2>4, <4>1 DEF Places
    <3>2. Unpatched(dir'[prog]["tree"])
      BY <2>1, <2>4
    <3>3. QED
      BY <3>1, <3>2 DEF Settled, Alone, Unpatched
  <2>6. \A p \in Programs : fresh'[p] => Settled(p)'
    BY <1>4, <2>2, <2>5
  <2>7. QED
    BY <2>1, <2>6 DEF Undisturbed
<1>8. CASE Cleans
  <2>1. /\ at = "clean" /\ at' = "idle" /\ fresh' = fresh /\ outcome' = "ok"
        /\ OnlyTree /\ NewTree \in Tree /\ NewTree.source = tree.source
        /\ NewTree.whole = tree.whole
    BY <1>8 DEF Cleans, Ends, history
  <2>2. \A p \in Programs : fresh[p] /\ p = prog => Settled(p)'
    <3>1. ASSUME fresh[prog]
          PROVE  /\ Unpatched(dir'[prog]["tree"])
                 /\ \A l \in Places \ {"tree"} : dir'[prog][l] = NoTree
      <4>1. OnTrack /\ CopyOnTrack
        BY <1>2, <3>1
      <4>2. /\ tree.whole /\ tree.source = {} /\ dir[prog]["in tree"] = NoTree
            /\ dir[prog]["copy"] = NoTree /\ dir[prog]["in copy"] = NoTree
        BY <1>1, <2>1, <4>1 DEF OnTrack, CopyOnTrack, AtMove
      <4>3. NewTree # NoTree
        BY <2>1, TreeFields
      <4>4. QED
        BY <2>1, <4>2, <4>3 DEF Unpatched, NewTree, OnlyTree, Places
    <3>2. QED
      BY <3>1 DEF Settled, Alone, Unpatched
  <2>3. QED
    BY <1>4, <2>1, <2>2 DEF Undisturbed
<1>9. QED
  BY <1>5, <1>6, <1>7, <1>8 DEF OtherWork

\* and so does every step.
LEMMA UndisturbedStep ==
  ASSUME Base, Undisturbed, Next
  PROVE  Undisturbed'
<1>1. CASE Stop
  <2>1. at' = "idle" /\ outcome' = "stopped" /\ fresh' = [p \in Programs |-> FALSE]
    BY <1>1 DEF Stop, Ends
  <2>2. \A p \in Programs : ~fresh'[p]
    BY <2>1, Zenon
  <2>3. QED
    BY <2>1, <2>2 DEF Undisturbed
<1>2. CASE Gives
  <2>1. at' = "idle" /\ at # "idle" /\ ~OnTrack /\ UNCHANGED <<prog, dir, fresh>>
    BY <1>2 DEF Gives, Aborts, Ends, history
  <2>2. prog \in Programs /\ ~fresh[prog]
    BY <2>1 DEF Base, Ranges, Undisturbed
  <2>3. \A p \in Programs : fresh[p] => Settled(p)'
    BY <2>1, <2>2 DEF Undisturbed, Settled, Alone
  <2>4. QED
    BY <2>1, <2>2, <2>3 DEF Undisturbed
<1>3. ASSUME NEW s \in Scripts, NEW p \in Programs, Starts(s, p)
      PROVE  Undisturbed'
  <2>1. /\ at = "idle" /\ script' = s /\ prog' = p /\ outcome' = "running"
        /\ dir' = dir /\ fresh' = fresh
        /\ \/ s = "util" /\ at' = "copy"
           \/ s = "flashrom" /\ at' = "make normal"
           \/ s = "bucts static" /\ at' = "patch Makefile"
           \/ s = "bucts dynamic" /\ at' = "make bucts"
           \/ s = "download" /\ at' = "delete"
           \/ s = "clean" /\ at' = "clean"
    BY <1>3, StartFacts
  <2>2. \A q \in Programs : fresh[q] => Settled(q) /\ Settled(q)'
    BY <2>1 DEF Undisturbed, Settled, Alone
  <2>3. fresh[p] => OnTrack' /\ CopyOnTrack'
    <3>1. Settled(p) => /\ Unpatched(dir'[p]["tree"]) /\ dir'[p]["in tree"] = NoTree
                        /\ dir'[p]["copy"] = NoTree /\ dir'[p]["in copy"] = NoTree
      BY <2>1 DEF Settled, Alone, Places
    <3>2. QED
      BY <2>1, <2>2, <3>1
      DEF OnTrack, CopyOnTrack, Unpatched, There, tree, AtCopy, AtMove, AtPatched
  <2>4. QED
    BY <2>1, <2>2, <2>3 DEF Undisturbed
<1>4. QED
  BY <1>1, <1>2, <1>3, UndisturbedModule, UndisturbedUtil, UndisturbedOther, Steps

-----------------------------------------------------------------------------
(* What one stop leaves.                                                    *)

\* Surviving holds at first.
LEMMA SurvivingInit ==
  ASSUME Init
  PROVE  Surviving
BY DEF Init, Surviving

\* What is saved stays so when the directories do.
LEMMA SavedFrame ==
  ASSUME NEW p \in Programs, dir'[p] = dir[p], Saved(p)
  PROVE  Saved(p)'
BY DEF Saved, Good, Unpatched, Torn

\* A script that ends here leaves what is saved.
LEMMA SavingEnds ==
  ASSUME prog \in Programs, Saving, ~OnTrack, at # "copying"
  PROVE  Saved(prog)
BY DEF Saving, Saved

\* A module script preserves Saving,
LEMMA SavingModule ==
  ASSUME Base, Saving, script = "util", BuctsWork \/ FlashromWork
  PROVE  Saving'
<1> USE ModuleFrame
<1>1. /\ prog' = prog /\ at' # "idle" /\ tree' = NewTree
      /\ dir'[prog]["copy"] = dir[prog]["copy"] /\ dir'[prog]["in copy"] = dir[prog]["in copy"]
      /\ dir'[prog]["in tree"] = dir[prog]["in tree"]
  BY DEF OnlyTree, Places
<1>2. at \notin AtCopy /\ at' \notin AtCopy
  BY DEF AtBucts, AtFlashrom, AtChips, AtPatched, AtCopy
<1>3. CASE Good(dir[prog]["copy"])
  BY <1>1, <1>3 DEF Saving, Good
<1>4. CASE Torn(dir[prog]["tree"]) /\ at \in {"patch Makefile", "make normal"}
  <2>1. tree.whole
    <3>1. CASE StaticApplies \/ NormalMakes
      BY <3>1 DEF StaticApplies, NormalMakes, Makes
    <3>2. CASE BuctsMakes \/ Reverses \/ LoopWork \/ RenamesBack
      BY <1>4, <3>2 DEF BuctsMakes, Reverses, LoopWork, NormalRenames, BacksUp, ChipsApply,
         PatchedMakes, PatchedRenames, Removes, Restores, RenamesBack
    <3>3. QED
      BY <3>1, <3>2 DEF BuctsWork, FlashromWork
  <2>2. QED
    BY <1>4, <2>1 DEF Torn, tree
<1>5. CASE Torn(dir[prog]["copy"]) /\ Good(dir[prog]["in copy"]) /\ OnTrack
  BY <1>1, <1>2, <1>5, OnTrackModule DEF Saving, Good, Torn
<1>6. QED
  BY <1>2, <1>3, <1>4, <1>5 DEF Saving, AtCopy

\* and so does the release until it moves the copy.
LEMMA SavingUtil ==
  ASSUME Base, Saving, UtilWork, ~Moves
  PROVE  Saving'
<1>1. prog \in Programs
  BY DEF Base, Ranges
<1>2. CASE Copies
  <2>1. /\ at = "copy" /\ at' = "copying" /\ prog' = prog
        /\ target' = IF dir[prog]["copy"] = NoTree THEN "copy" ELSE "in copy"
        /\ \A l \in Places : l # target' => dir'[prog][l] = dir[prog][l]
    BY <1>2 DEF Copies
  <2>2. Saved(prog)
    BY <2>1 DEF Saving, Saved, AtCopy
  <2>3. /\ dir'[prog]["tree"] = dir[prog]["tree"] /\ dir'[prog]["in tree"] = dir[prog]["in tree"]
        /\ dir[prog]["copy"] = NoTree => target' = "copy"
        /\ dir[prog]["copy"] # NoTree => target' = "in copy" /\ dir'[prog]["copy"] = dir[prog]["copy"]
    BY <2>1 DEF Places
  <2>4. QED
    BY <2>1, <2>2, <2>3 DEF Saving, Saved, Good, Unpatched, Torn, AtCopy
<1>3. CASE Copied
  <2>1. /\ at = "copying" /\ at' \in {"patch Makefile", "make normal"} /\ prog' = prog
        /\ dir'[prog]["tree"] = dir[prog]["tree"] /\ dir'[prog]["in tree"] = dir[prog]["in tree"]
        /\ target = "copy" => dir'[prog]["copy"] = dir[prog]["tree"]
        /\ target # "copy" => /\ dir'[prog]["copy"] = dir[prog]["copy"]
                              /\ dir'[prog]["in copy"] = dir[prog]["tree"]
    BY <1>3 DEF Copied, Goto, Step, tree
  <2>2. target = "copy" => Torn(dir[prog]["copy"])
    BY <2>1 DEF Base, Standing
  <2>3. \/ Good(dir[prog]["copy"]) /\ target # "copy"
        \/ Torn(dir[prog]["tree"]) /\ Good(dir[prog]["in tree"])
        \/ target = "copy" /\ Good(dir[prog]["tree"])
        \/ target # "copy" /\ Torn(dir[prog]["copy"]) /\ Unpatched(dir[prog]["tree"])
             /\ dir[prog]["in tree"] = NoTree
    BY <2>1, <2>2 DEF Saving, Good, Torn, AtCopy
  <2>4. Unpatched(dir[prog]["tree"]) /\ dir[prog]["in tree"] = NoTree => OnTrack'
    BY <2>1 DEF OnTrack, Unpatched, There, tree, AtCopy, AtMove, AtPatched
  <2>5. QED
    BY <2>1, <2>3, <2>4 DEF Saving, Good, Unpatched, Torn, AtCopy
<1>4. CASE Collects \/ BeginsRemoval \/ Removal
  <2>1. /\ at \in {"collect", "remove tree", "removing tree"}
        /\ at' \in AtMove /\ prog' = prog
        /\ dir'[prog]["copy"] = dir[prog]["copy"] /\ dir'[prog]["in copy"] = dir[prog]["in copy"]
    <3>1. CASE Collects
      BY <3>1 DEF Collects, OnlyTree, Places, AtMove
    <3>2. CASE BeginsRemoval
      BY <3>2 DEF BeginsRemoval, Goto, Step, OnlyTree, Places, AtMove
    <3>3. CASE Removal
      BY <3>3 DEF Removal, Empties, Goto, Step, AtMove
    <3>4. QED
      BY <1>4, <3>1, <3>2, <3>3
  <2>2. CASE Good(dir[prog]["copy"])
    BY <2>1, <2>2 DEF Saving, Good
  <2>3. CASE Torn(dir[prog]["copy"]) /\ Good(dir[prog]["in copy"]) /\ OnTrack
    BY <1>4, <2>1, <2>3, OnTrackRemoval DEF Saving, Good, Torn, AtCopy, AtMove
  <2>4. QED
    BY <2>1, <2>2, <2>3 DEF Saving, AtCopy
<1>5. QED
  BY <1>2, <1>3, <1>4 DEF UtilWork

\* Every step preserves Surviving.
LEMMA SurvivingStep ==
  ASSUME Base, Undisturbed, Surviving, Next
  PROVE  Surviving'
<1>1. prog \in Programs /\ fresh \in [Programs -> BOOLEAN] /\ stops \in Nat
  BY DEF Base, Ranges, History
<1>2. CASE Stop
  <2>1. /\ at # "idle" /\ at' = "idle" /\ stops' = stops + 1 /\ utilOnly' = utilOnly /\ dir' = dir
    BY <1>2 DEF Stop, Ends
  <2>2. ASSUME utilOnly, stops = 0
        PROVE  \A p \in Programs : Saved(p)
    <3>1. \A p \in Programs : fresh[p]
      BY <2>2 DEF Surviving
    <3>2. \A p \in Programs : p # prog => Saved(p)
      BY <3>1 DEF Undisturbed, Settled, Alone, Saved, Unpatched, Good, Places
    <3>3. OnTrack /\ CopyOnTrack /\ script = "util"
      BY <1>1, <2>1, <2>2, <3>1 DEF Undisturbed, Surviving
    <3>4. ASSUME at = "copy"
          PROVE  Saved(prog)
      BY <3>3, <3>4 DEF OnTrack, CopyOnTrack, Saved, Good, There, tree, AtCopy, AtMove
    <3>5. ASSUME at = "copying"
          PROVE  Saved(prog)
      <4>1. Torn(dir[prog]["copy"])
        BY <3>3, <3>5 DEF CopyOnTrack, Base, Standing
      <4>2. QED
        BY <3>3, <3>5, <4>1 DEF OnTrack, Saved, Unpatched, There, tree, AtCopy, AtMove
    <3>6. ASSUME at \notin AtCopy
          PROVE  Saved(prog)
      BY <3>3, <3>6 DEF CopyOnTrack, Saved, Good, Unpatched
    <3>7. Saved(prog)
      BY <3>4, <3>5, <3>6 DEF AtCopy
    <3>8. QED
      BY <3>2, <3>7
  <2>3. utilOnly /\ stops' = 1 => \A p \in Programs : Saved(p)'
    BY <1>1, <2>1, <2>2, SavedFrame
  <2>4. stops' # 0
    BY <1>1, <2>1
  <2>5. QED
    BY <2>1, <2>3, <2>4 DEF Surviving
<1>3. CASE Gives
  <2>1. /\ at # "idle" /\ at # "copying" /\ ~OnTrack /\ at' = "idle"
        /\ UNCHANGED <<prog, dir, fresh, utilOnly, stops>>
    BY <1>3 DEF Gives, Aborts, Ends, history
  <2>2. utilOnly /\ stops = 1 => \A p \in Programs : Saved(p)
    BY <1>1, <2>1, SavingEnds DEF Surviving
  <2>3. utilOnly /\ stops = 1 => \A p \in Programs : Saved(p)'
    BY <2>1, <2>2, SavedFrame
  <2>4. QED
    BY <2>1, <2>3 DEF Surviving
<1>4. ASSUME NEW s \in Scripts, NEW p \in Programs, Starts(s, p)
      PROVE  Surviving'
  <2>1. /\ at = "idle" /\ script' = s /\ prog' = p /\ dir' = dir /\ fresh' = fresh /\ stops' = stops
        /\ utilOnly' => utilOnly /\ s = "util" /\ at' = "copy"
    <3>1. /\ at = "idle" /\ script' = s /\ prog' = p /\ dir' = dir /\ fresh' = fresh
          /\ stops' = stops /\ (s = "util" => at' = "copy")
      BY <1>4, StartFacts
    <3>2. utilOnly' = (utilOnly /\ s = "util")
      BY <1>4, StartFacts
    <3>3. utilOnly' => utilOnly /\ s = "util"
      BY <3>2, Zenon
    <3>4. QED
      BY <3>1, <3>3
  <2>2. utilOnly' /\ stops' = 1 => \A q \in Programs : Saved(q)
    BY <2>1 DEF Surviving
  <2>3. utilOnly' /\ stops' = 1 => \A q \in Programs : Saved(q)'
    BY <2>1, <2>2, SavedFrame
  <2>4. utilOnly' /\ stops' = 1 => Saving'
    BY <2>1, <2>3 DEF Saving
  <2>5. utilOnly' /\ stops' = 0 => \A q \in Programs : fresh'[q]
    BY <2>1 DEF Surviving
  <2>6. utilOnly' => script' = "util"
    BY <2>1
  <2>7. QED
    BY <2>3, <2>4, <2>5, <2>6 DEF Surviving
<1>5. CASE BuctsWork \/ FlashromWork
  <2>1. /\ prog' = prog /\ script' = script /\ fresh' = fresh /\ stops' = stops
        /\ at # "idle" /\ (script = "util" => at' # "idle")
        /\ \A q \in Programs : q # prog => dir'[q] = dir[q]
    BY <1>5, ModuleFrame DEF OnlyTree
  <2>2. utilOnly' = utilOnly
    BY <1>5, ModuleFrame
  <2>3. utilOnly' => utilOnly
    BY <2>2, Zenon
  <2>4. utilOnly' => script = "util"
    BY <2>1, <2>3 DEF Surviving
  <2>5. utilOnly' /\ stops = 1 => Saving' /\ \A q \in Programs : q # prog => Saved(q)'
    BY <1>5, <2>1, <2>3, <2>4, SavingModule, SavedFrame DEF Surviving
  <2>6. QED
    BY <2>1, <2>3, <2>4, <2>5 DEF Surviving
<1>6. CASE UtilWork
  <2>1. /\ script' = script /\ fresh' = fresh /\ stops' = stops /\ utilOnly' = utilOnly
        /\ at \in AtUtil
    <3>1. CASE Copies \/ Collects \/ Moves
      BY <3>1 DEF Copies, Collects, Moves, history, AtUtil, AtCopy, AtMove
    <3>2. CASE Copied \/ BeginsRemoval \/ Removal
      BY <3>2 DEF Copied, BeginsRemoval, Removal, Empties, Goto, Step, AtUtil, AtCopy, AtMove
    <3>3. QED
      BY <1>6, <3>1, <3>2 DEF UtilWork
  <2>2. script = "util" /\ at # "idle"
    BY <2>1 DEF Base, Control, AtUtil, AtCopy, AtMove
  <2>3. \A q \in Programs : q # prog => dir'[q] = dir[q]
    BY <1>6 DEF UtilWork, Copies, Copied, Collects, BeginsRemoval, Removal, Empties, Moves, OnlyTree
  <2>4. ASSUME utilOnly, stops = 1
        PROVE  /\ \A p \in Programs : at' = "idle" \/ p # prog' => Saved(p)'
               /\ at' # "idle" => Saving'
    <3>1. Saving /\ \A p \in Programs : p # prog => Saved(p) /\ Saved(p)'
      BY <2>2, <2>3, <2>4, SavedFrame DEF Surviving
    <3>2. CASE ~Moves
      <4>1. prog' = prog /\ at' # "idle"
        <5>1. CASE Copies \/ Collects
          BY <5>1 DEF Copies, Collects
        <5>2. CASE Copied \/ BeginsRemoval \/ Removal
          BY <5>2 DEF Copied, BeginsRemoval, Removal, Empties, Goto, Step
        <5>3. QED
          BY <1>6, <3>2, <5>1, <5>2 DEF UtilWork
      <4>2. QED
        BY <1>6, <3>1, <3>2, <4>1, SavingUtil
    <3>3. CASE Moves
      <4>1. /\ at = "move copy"
            /\ \/ prog = "bucts" /\ at' = "copy" /\ prog' = "flashrom"
               \/ prog # "bucts" /\ at' = "idle"
            /\ dir'[prog]["tree"] = dir[prog]["copy"] /\ dir'[prog]["in tree"] = dir[prog]["in copy"]
            /\ dir'[prog]["copy"] = NoTree
        BY <3>3 DEF Moves, Ends
      <4>2. \/ Good(dir[prog]["copy"])
            \/ Torn(dir[prog]["copy"]) /\ Good(dir[prog]["in copy"])
        BY <3>1, <4>1 DEF Saving, AtCopy
      <4>3. \A p \in Programs : p = prog => Saved(p)'
        BY <4>1, <4>2 DEF Saved, Good, Torn
      <4>4. \A p \in Programs : Saved(p)'
        BY <3>1, <4>3
      <4>5. at' = "copy" => Saving'
        <5>1. Saved("flashrom")'
          BY <4>4 DEF Programs
        <5>2. QED
          BY <4>1, <5>1 DEF Saving
      <4>6. QED
        BY <4>1, <4>4, <4>5
    <3>4. QED
      BY <3>2, <3>3
  <2>5. utilOnly' => utilOnly
    BY <2>1, Zenon
  <2>6. QED
    BY <2>1, <2>2, <2>4, <2>5 DEF Surviving
<1>7. CASE OtherWork
  <2>1. at \in {"delete", "clone", "prepare", "clean"} /\ utilOnly' = utilOnly
    BY <1>7 DEF OtherWork, Deletion, Clones, Prepares, Cleans, Empties, Goto, Step, history
  <2>2. ~utilOnly
    BY <2>1 DEF Base, Control, Surviving
  <2>3. ~utilOnly'
    BY <2>1, <2>2, Zenon
  <2>4. QED
    BY <2>3 DEF Surviving
<1>8. QED
  BY <1>2, <1>3, <1>4, <1>5, <1>6, <1>7, Steps

-----------------------------------------------------------------------------
(* The theorems.                                                            *)

\* After one stop at the most some unpatched sources are left.
LEMMA SurvivalImplied ==
  ASSUME Base, Undisturbed, Surviving
  PROVE  SourcesSurvive
<1>1. prog \in Programs /\ stops \in Nat
  BY DEF Base, Ranges, History
<1>2. SUFFICES ASSUME utilOnly, stops <= 1, NEW p \in Programs
               PROVE  \E l \in Places : Good(dir[p][l])
  BY Zenon DEF SourcesSurvive, Good
<1>3. SUFFICES \/ Good(dir[p]["tree"]) \/ Good(dir[p]["copy"])
               \/ Good(dir[p]["in tree"]) \/ Good(dir[p]["in copy"])
  BY DEF Places
<1>4. ASSUME stops = 1
      PROVE  \/ Good(dir[p]["tree"]) \/ Good(dir[p]["copy"])
             \/ Good(dir[p]["in tree"]) \/ Good(dir[p]["in copy"])
  <2>1. at = "idle" \/ p # prog => Saved(p)
    BY <1>2, <1>4 DEF Surviving
  <2>2. Saved(p) => Good(dir[p]["tree"]) \/ Good(dir[p]["copy"]) \/ Good(dir[p]["in tree"])
    BY DEF Saved, Good, Unpatched
  <2>3. at # "idle" /\ p = prog => Saving
    BY <1>2, <1>4 DEF Surviving
  <2>4. QED
    BY <2>1, <2>2, <2>3 DEF Saving, Good, Unpatched
<1>5. ASSUME stops = 0
      PROVE  Good(dir[p]["tree"]) \/ Good(dir[p]["copy"])
  <2>1. fresh[p]
    BY <1>2, <1>5 DEF Surviving
  <2>2. at = "idle" \/ p # prog => Good(dir[p]["tree"])
    BY <2>1 DEF Undisturbed, Settled, Unpatched, Good
  <2>3. ASSUME at # "idle", p = prog
        PROVE  Good(dir[p]["tree"]) \/ Good(dir[p]["copy"])
    <3>1. OnTrack /\ CopyOnTrack /\ script = "util"
      BY <1>2, <2>1, <2>3 DEF Undisturbed, Surviving
    <3>2. CASE at \in AtCopy
      BY <2>3, <3>1, <3>2 DEF OnTrack, Good, There, tree, AtCopy, AtMove
    <3>3. CASE at \notin AtCopy
      BY <2>3, <3>1, <3>3 DEF CopyOnTrack, Good, Unpatched
    <3>4. QED
      BY <3>2, <3>3
  <2>4. QED
    BY <2>2, <2>3
<1>6. stops = 0 \/ stops = 1
  BY <1>1, <1>2
<1>7. QED
  BY <1>4, <1>5, <1>6

\* The invariant holds at first,
LEMMA Initially ==
  ASSUME Init
  PROVE  IInv
<1>1. at = "idle" /\ outcome = "none"
  BY DEF Init
<1>2. Archiving /\ ArchiveIsTrue /\ Copying /\ UtilPutsTreesBack
  BY <1>1 DEF Archiving, ArchiveIsTrue, Copying, UtilPutsTreesBack
<1>3. QED
  BY <1>2, BaseInit, NamingInit, UndisturbedInit, SurvivingInit DEF IInv

\* and when nothing changes.
LEMMA Stutters ==
  ASSUME IInv, UNCHANGED vars
  PROVE  IInv'
<1>0. /\ UNCHANGED <<at, script, prog, left, target, dir, archive, outcome, runs, stops>>
      /\ UNCHANGED <<fresh, tidy, assented, utilOnly>>
  BY DEF vars, history
<1>1. Base'
  <2>1. Base
    BY DEF IInv
  <2>2. Control' /\ LeftPatches'
    BY <1>0, <2>1 DEF Base, Control, LeftPatches
  <2>3. Directories' /\ Nested' /\ Ranges' /\ History'
    BY <1>0, <2>1 DEF Base, Directories, Nested, Ranges, History, There
  <2>4. Standing'
    BY <1>0, <2>1 DEF Base, Standing, There, Torn, tree
  <2>5. QED
    BY <2>2, <2>3, <2>4 DEF Base
<1>2. Naming' /\ NamesAreTrue'
  <2>1. Naming /\ NamesAreTrue
    BY DEF IInv
  <2>2. tree' = tree /\ Original' = Original /\ Built' = Built
    BY <1>0 DEF tree, Original, Built
  <2>3. \A p : Named(p) => Named(p)'
    BY <1>0 DEF Named
  <2>4. assented => assented'
    BY <1>0, Zenon
  <2>5. ASSUME ~assented
        PROVE  Naming' /\ NamesAreTrue'
    <3>1. Naming'
      BY <1>0, <2>1, <2>2, <2>3, <2>5 DEF Naming
    <3>2. NamesAreTrue'
      BY <1>0, <2>1, <2>5 DEF NamesAreTrue
    <3>3. QED
      BY <3>1, <3>2
  <2>6. assented' => Naming' /\ NamesAreTrue'
    BY DEF Naming, NamesAreTrue
  <2>7. QED
    BY <2>4, <2>5, <2>6
<1>3. Archiving' /\ ArchiveIsTrue'
  BY <1>0 DEF IInv, Archiving, ArchiveIsTrue
<1>4. Copying' /\ UtilPutsTreesBack'
  BY <1>0 DEF IInv, Copying, UtilPutsTreesBack, Settled, Alone, Unpatched, Original, tree
<1>5. Undisturbed'
  BY <1>0 DEF IInv, Undisturbed, Settled, Alone, Unpatched, OnTrack, CopyOnTrack, There, tree
<1>6. Surviving'
  <2>1. Surviving
    BY DEF IInv
  <2>2. Saving => Saving'
    BY <1>0 DEF Saving, Saved, Good, Torn, Unpatched, OnTrack, There, tree
  <2>3. \A p : Saved(p) => Saved(p)'
    BY <1>0 DEF Saved, Good, Torn, Unpatched
  <2>4. utilOnly' => utilOnly
    BY <1>0, Zenon
  <2>5. QED
    BY <1>0, <2>1, <2>2, <2>3, <2>4 DEF Surviving
<1>7. QED
  BY <1>1, <1>2, <1>3, <1>4, <1>5, <1>6 DEF IInv

\* The inductive invariant, for any Scripts, MaxRuns and MaxStops: where each
\* script can be, what is in each directory by then, and what a stop leaves.
THEOREM Invariance == Spec => []IInv
<1>1. Init => IInv
  BY Initially
<1>2. IInv /\ [Next]_vars => IInv'
  <2>1. ASSUME IInv, Next
        PROVE  IInv'
    BY <2>1, BaseStep, NamingStep, ArchivingStep, CopyingStep, UndisturbedStep, SurvivingStep
    DEF IInv
  <2>2. QED
    BY <2>1, Stutters
<1>3. QED
  BY <1>1, <1>2, PTL DEF Spec

\* TypeOK, for any scripts started and stopped in any number: what is in the
\* directories, that none is in one that is not there, and that without a stop the
\* file that is patched is missing only while its backup is about to be moved back
\* (module/flashrom:68-88).
THEOREM TypeCorrect == Spec => []TypeOK
<1>1. ASSUME IInv, NEW p \in Programs, fresh[p], dir[p]["tree"] # NoTree, dir[p]["tree"].source = Gone
      PROVE  p = prog /\ at = "restore"
  <2>1. ~Settled(p)
    BY <1>1 DEF Settled, Unpatched, Gone
  <2>2. p = prog /\ at # "idle" /\ OnTrack
    BY <1>1, <2>1 DEF IInv, Undisturbed
  <2>3. at \notin {"clone", "move copy"} /\ tree.source = Gone
    BY <1>1, <2>2 DEF IInv, Base, Standing, There, tree
  <2>4. at \in {"make patched", "rename patched", "remove patched"} => Head(left) # "no such file"
    BY <1>1, ChipFacts DEF IInv, Base, LeftPatches, AtChips, AtPatched
  <2>. QED BY <1>1, <2>2, <2>3, <2>4
       DEF OnTrack, IInv, Base, Control, Gone, StaticLink, AtBucts, AtFlashrom, AtChips, AtPatched,
           AtUtil, AtCopy, AtMove, AtOther
<1>2. IInv => TypeOK
  BY <1>1 DEF IInv, Base, Directories, Nested, Ranges, There, TypeOK
<1>3. QED
  BY <1>2, Invariance, PTL

\* NamesAreTrue, for any number of runs and stops: ./build module flashrom and
\* bucts static that exit 0 have built what the programs' names say, whatever
\* earlier stopped runs left of patches, backups and half-copied trees, unless
\* patch was allowed to take a patch out (module/flashrom:55-88).
THEOREM NamesStayTrue == Spec => []NamesAreTrue
<1>1. IInv => NamesAreTrue
  BY DEF IInv
<1>2. QED
  BY <1>1, Invariance, PTL

\* ArchiveIsTrue, likewise: so has ./build release util the programs that it
\* moved into its archive (release/util:89-110).
THEOREM ArchiveStaysTrue == Spec => []ArchiveIsTrue
<1>1. IInv => ArchiveIsTrue
  BY DEF IInv
<1>2. QED
  BY <1>1, Invariance, PTL

\* UtilPutsTreesBack, for any number of runs and stops: a ./build release util
\* that found no left-over copies and exits 0 leaves unpatched trees and no
\* copies of them (release/util:89-110).
THEOREM TreesArePutBack == Spec => []UtilPutsTreesBack
<1>1. IInv => UtilPutsTreesBack
  BY DEF IInv
<1>2. QED
  BY <1>1, Invariance, PTL

\* UndisturbedNeverAborts, for any number of runs of any of the scripts: without
\* a stop no command of theirs fails, for none leaves a patch in, a directory in
\* another or a file away that a later one needs.
THEOREM UndisturbedSucceed == Spec => []UndisturbedNeverAborts
<1>1. IInv => UndisturbedNeverAborts
  BY DEF IInv, Undisturbed, UndisturbedNeverAborts
<1>2. QED
  BY <1>1, Invariance, PTL

\* SourcesSurvive, for any number of runs of ./build release util, of which one
\* is stopped anywhere: each program keeps unpatched sources in its tree, in the
\* copy, or in a tree that cp put inside one of them (release/util:89-110).
THEOREM SourcesOutliveAStop == Spec => []SourcesSurvive
<1>1. IInv => SourcesSurvive
  BY SurvivalImplied DEF IInv
<1>2. QED
  BY <1>1, Invariance, PTL
===============================================================================
