--------------------------- MODULE CorebootTreesProofs ---------------------------
(***************************************************************************)
(* What the scripts that share coreboot's trees keep up, for any boards,   *)
(* revisions and numbers of runs and stops.                                *)
(***************************************************************************)
EXTENDS CorebootTrees, TLAPS

First == BoardOrder[1]

Present(x) == tree[x] # NoTree
Made(x, p) == Present(x) /\ tree[x].repo[p] # NoRepo
HeadOf(x, p) == tree[x].repo[p].head
BranchOf(x, p, b) == tree[x].repo[p].branch[b]
Has(b, p) == Made(Revision[b], p) /\ BranchOf(Revision[b], p, b) # NoBranch
Own(b, p) == Has(b, p) /\ (patches => BranchOf(Revision[b], p, b) = {b})
Masters == \A x \in Revisions, p \in Parts : Made(x, p) => HeadOf(x, p) = "master"

AtBoard == {"create branch", "patch", "patching", "back to master"}
AtModule == AtBoard \cup {"init coreboot", "init vboot", "utilities"}
AtDownload == {"clone", "copy", "reset", "remove .git", "deblob"}

\* The first board's branch is made first.
BranchesBegin ==
  \A x \in Revisions, p \in Parts, b \in Boards :
    Made(x, p) /\ BranchOf(x, p, b) # NoBranch => Has(First, "coreboot")

\* What a download that exits 0 leaves.
DownloadedTrees ==
  downloaded => \A b \in Boards :
    LET t == tree[Revision[b]] IN t # NoTree /\ t.reset /\ ~t.upstream /\ ~t.blobs

\* What a module build that exits 0 leaves on such trees.
ReadyBranches ==
  ready => downloaded /\ \A b \in Boards, p \in Parts :
    Has(b, p) /\ BranchOf(Revision[b], p, b) = {b}

\* How far a download is: the boards that are off its list have their trees, and
\* what it has done to these.
Downloading ==
  /\ at \in AtDownload => ~downloaded
  /\ at \in {"delete", "clone"} => todo = BoardOrder
  /\ at = "clone" => \A x \in Revisions : ~Present(x)
  /\ at \in {"copy", "reset"} =>
       /\ \A b \in Boards \ ToSet(todo) : Present(Revision[b])
       /\ \A x \in Revisions : Present(x) => tree[x].reset \/ (at = "reset" /\ x = r)
  /\ at = "reset" => Present(r)
  /\ at \in {"remove .git", "deblob"} =>
       /\ \A b \in Boards : Present(Revision[b])
       /\ \A x \in Revisions : Present(x) => tree[x].reset
  /\ at = "remove .git" => \A x \in Revisions :
       (x \in revs => Present(x)) /\ (Present(x) /\ tree[x].upstream => x \in revs)
  /\ at = "deblob" =>
       /\ \A x \in Revisions : Present(x) => ~tree[x].upstream
       /\ \A b \in Boards \ ToSet(todo) : ~tree[Revision[b]].blobs

\* The module takes the boards in their order, each once.
TodoOrder ==
  /\ at \in AtModule => IsInjective(todo) /\ (First \in ToSet(todo) => Head(todo) = First)
  /\ at \in AtBoard => First \notin ToSet(todo) /\ board \notin ToSet(todo)
  /\ (at = "init vboot" \/ (at = "init coreboot" /\ revs # {})) => todo = BoardOrder
  /\ at \in AtBoard => revs = {}
  /\ at = "utilities" => todo = << >>

\* How far git init is: the trees that are off its list have both repositories.
Initialised ==
  /\ at \in {"init coreboot", "init vboot"} => \A x \in revs : Present(x)
  /\ at \in AtModule \ {"utilities"} => \A x \in Revisions :
       Present(x) => x \in revs \/ (\A p \in Parts : Made(x, p)) \/ (at = "init vboot" /\ x = r)
  /\ at = "init vboot" => Present(r) /\ (tree[r].upstream \/ Made(r, "coreboot"))
  /\ at \in AtBoard => Present(r)

\* How far the branches are: the boards that are off the list have theirs.
Progress ==
  /\ at \in AtModule =>
       \A b \in Boards \ ToSet(todo), p \in Parts : (at \in AtBoard /\ b = board) \/ Own(b, p)
  /\ at \in AtBoard /\ part = "vboot" => Own(board, "coreboot")
  /\ at \in AtBoard \ {"create branch"} => ~ready /\ HeadOf(r, part) = board
  /\ at = "utilities" => ~ready
  /\ at = "patch" => BranchOf(r, part, board) = {}
  /\ at = "patching" => BranchOf(r, part, board) = {board, "half"}
  /\ at = "back to master" => Own(board, part)

\* git branch starts at what is checked out. It must be master in every repository
\* but the one the module is in, or a branch would start with another's patches;
\* the first board needs no promise, as no branch can be checked out before its own.
OthersAtMaster ==
  /\ at \in AtBoard \ {"create branch"} =>
       \A x \in Revisions, p \in Parts :
         Made(x, p) /\ ~(x = r /\ p = part) => HeadOf(x, p) = "master"
  /\ at = "create branch" /\ (board # First \/ part = "vboot") => Masters
  /\ at = "init coreboot" /\ First \notin ToSet(todo) => Masters

AtTree == {"configure", "make", "remove .config", "take config", "menuconfig", "oldconfig"}

\* What a script for a board has checked out.
CheckedOut ==
  /\ at = "checkout" => script \in {"build", "update", "replace"}
  /\ at = "checkout" /\ part = "vboot" => Made(r, "coreboot") /\ HeadOf(r, "coreboot") = board
  /\ at \in AtTree =>
       /\ part = "vboot"
       /\ \A p \in Parts : Made(r, p) /\ HeadOf(r, p) = board
  /\ at = "leave" => \A p \in Parts : Made(r, p)

\* What an image of ready trees is built from, but for its config.
ImagesAreOwn ==
  \A b \in Boards : image[b] # NoImage /\ image[b].ready =>
    image[b].coreboot = {b} /\ image[b].vboot = {b} /\ ~image[b].blobs

-----------------------------------------------------------------------------
(* Types.                                                                   *)

TreeType == tree \in [Revisions -> Tree \cup {NoTree}]

HeadsExist ==
  \A x \in Revisions, p \in Parts :
    Made(x, p) /\ HeadOf(x, p) # "master" => BranchOf(x, p, HeadOf(x, p)) # NoBranch

MemoryType ==
  /\ board \in Boards /\ part \in Parts /\ todo \in Seq(Boards) /\ revs \subseteq Revisions
  /\ clone \in BOOLEAN
  /\ outcome \in {"none", "running", "ok", "stopped", "aborted"}
  /\ patches \in BOOLEAN /\ downloaded \in BOOLEAN /\ ready \in BOOLEAN

FlagType == failed \in BOOLEAN /\ unsaved \in BOOLEAN
ConfigType == config \in [Boards -> Boards \cup {Nobody}]
ImageType == image \in [Boards -> Image \cup {NoImage}]

\* The type invariant, in terms of repositories.
LEMMA TypeParts ==
  TypeOK <=> TreeType /\ HeadsExist /\ MemoryType /\ FlagType /\ ConfigType /\ ImageType
BY DEF TypeOK, TreeType, HeadsExist, MemoryType, FlagType, ConfigType, ImageType, Made, Present,
  HeadOf, BranchOf

-----------------------------------------------------------------------------
(* The invariant in parts: what holds between scripts, and what holds while *)
(* a download, the module or a script for a board is at a command.           *)

Trees == TreeType /\ HeadsExist /\ BranchesBegin /\ DownloadedTrees /\ ReadyBranches
Boarding == ConfigType /\ ImageType /\ ImagesAreOwn
Making == TodoOrder /\ Initialised /\ Progress /\ OthersAtMaster

\* The inductive invariant: what holds of the trees and their branches between
\* scripts, and how far the script that is running has come.  (What holds of the
\* configs rests on it: see Configs.)
IInv == Trees /\ MemoryType /\ Boarding /\ Downloading /\ Making /\ CheckedOut

-----------------------------------------------------------------------------
(* Sequences of boards.                                                     *)

\* The first board is one, and the order begins with it.
LEMMA FirstBoard ==
  /\ First \in Boards /\ Head(BoardOrder) = First
  /\ BoardOrder \in Seq(Boards) /\ IsInjective(BoardOrder) /\ BoardOrder # << >>
  /\ ToSet(BoardOrder) = Boards
<1>1. BoardOrder \in Seq(Boards) /\ IsInjective(BoardOrder) /\ BoardOrder # << >>
  BY TreesAssumption
<1>2. Head(BoardOrder) = BoardOrder[1] /\ BoardOrder[1] \in Boards
  BY <1>1
<1>. QED BY <1>1, <1>2 DEF First, Boards

\* Taking the first of a sequence of distinct boards leaves the others.
LEMMA TakeFirst ==
  ASSUME NEW s \in Seq(Boards), s # << >>
  PROVE  /\ Head(s) \in Boards /\ Tail(s) \in Seq(Boards)
         /\ ToSet(s) = {Head(s)} \cup ToSet(Tail(s))
         /\ IsInjective(s) => IsInjective(Tail(s)) /\ Head(s) \notin ToSet(Tail(s))
<1>1. /\ Len(s) \in Nat /\ Len(s) > 0 /\ DOMAIN s = 1 .. Len(s)
      /\ Head(s) = s[1] /\ \A i \in 1 .. Len(s) : s[i] \in Boards
  OBVIOUS
<1>2. /\ Tail(s) \in Seq(Boards) /\ Len(Tail(s)) = Len(s) - 1
      /\ DOMAIN Tail(s) = 1 .. Len(s) - 1
      /\ \A i \in 1 .. Len(s) - 1 : Tail(s)[i] = s[i + 1]
  BY <1>1
<1>3. ToSet(s) = {Head(s)} \cup ToSet(Tail(s))
  <2>1. ASSUME NEW i \in 1 .. Len(s)
        PROVE  s[i] \in {Head(s)} \cup ToSet(Tail(s))
    <3>1. CASE i = 1
      BY <1>1, <3>1
    <3>2. CASE i # 1
      <4>1. i - 1 \in 1 .. Len(s) - 1 /\ Tail(s)[i - 1] = s[i]
        BY <1>1, <1>2, <3>2
      <4>. QED BY <1>2, <4>1 DEF ToSet
    <3>. QED BY <3>1, <3>2
  <2>2. ASSUME NEW i \in 1 .. Len(s) - 1
        PROVE  Tail(s)[i] \in ToSet(s)
    <3>1. i + 1 \in 1 .. Len(s) /\ Tail(s)[i] = s[i + 1]
      BY <1>1, <1>2
    <3>. QED BY <1>1, <3>1 DEF ToSet
  <2>3. Head(s) \in ToSet(s)
    BY <1>1 DEF ToSet
  <2>. QED BY <1>1, <1>2, <2>1, <2>2, <2>3 DEF ToSet
<1>4. ASSUME IsInjective(s)
      PROVE  IsInjective(Tail(s)) /\ Head(s) \notin ToSet(Tail(s))
  <2>1. \A i, j \in 1 .. Len(s) : s[i] = s[j] => i = j
    BY <1>1, <1>4 DEF IsInjective
  <2>2. ASSUME NEW i \in 1 .. Len(s) - 1, NEW j \in 1 .. Len(s) - 1, Tail(s)[i] = Tail(s)[j]
        PROVE  i = j
    <3>1. s[i + 1] = s[j + 1] /\ i + 1 \in 1 .. Len(s) /\ j + 1 \in 1 .. Len(s)
      BY <1>1, <1>2, <2>2
    <3>2. i + 1 = j + 1
      BY <2>1, <3>1
    <3>. QED BY <1>1, <3>2
  <2>3. ASSUME NEW i \in 1 .. Len(s) - 1, Tail(s)[i] = Head(s)
        PROVE  FALSE
    <3>1. s[i + 1] = s[1] /\ i + 1 \in 1 .. Len(s) /\ 1 \in 1 .. Len(s) /\ i + 1 # 1
      BY <1>1, <1>2, <2>3
    <3>. QED BY <2>1, <3>1
  <2>. QED BY <1>2, <2>2, <2>3 DEF IsInjective, ToSet
<1>. QED BY <1>1, <1>2, <1>3, <1>4

-----------------------------------------------------------------------------
(* Changes of one tree.                                                     *)

WithRepo(x, p, repo) == [tree EXCEPT ![x].repo[p] = repo]
Branched(x, p, b, value, repo) ==
  /\ repo \in Repo /\ value \in Patched /\ repo.head = b
  /\ repo.branch = [tree[x].repo[p].branch EXCEPT ![b] = value]
WithConfig(x, c) == [tree EXCEPT ![x].config = c]

\* The fields of trees that the invariants speak of, but for the repositories.
SameFields ==
  \A x \in Revisions :
    /\ Present(x)' <=> Present(x)
    /\ Present(x) => /\ tree'[x].reset = tree[x].reset
                     /\ tree'[x].upstream = tree[x].upstream
                     /\ tree'[x].blobs = tree[x].blobs

SameRepos ==
  \A x \in Revisions, p \in Parts : Present(x) => tree'[x].repo[p] = tree[x].repo[p]

\* The fields of a tree have their types.
LEMMA TreeFields ==
  ASSUME TreeType, NEW x \in Revisions, Present(x)
  PROVE  /\ tree[x] \in Tree
         /\ tree[x].reset \in BOOLEAN /\ tree[x].upstream \in BOOLEAN /\ tree[x].blobs \in BOOLEAN
         /\ tree[x].config \in Boards \cup {Nobody}
         /\ \A p \in Parts : tree[x].repo[p] \in Repo \cup {NoRepo}
BY DEF TreeType, Present, Tree

\* A repository that is made has a head and branches.
LEMMA RepoFields ==
  ASSUME TreeType, NEW x \in Revisions, NEW p \in Parts, Made(x, p)
  PROVE  /\ tree[x].repo[p] \in Repo
         /\ HeadOf(x, p) \in Boards \cup {"master"}
         /\ \A b \in Boards : BranchOf(x, p, b) \in Patched \cup {NoBranch}
BY TreeFields DEF Made, HeadOf, BranchOf, Repo

\* One repository of one tree is changed.
LEMMA PutRepoChange ==
  ASSUME TreeType, NEW x \in Revisions, NEW p \in Parts, Present(x), NEW repo \in Repo,
         tree' = WithRepo(x, p, repo)
  PROVE  /\ TreeType' /\ SameFields
         /\ tree'[x].repo[p] = repo
         /\ tree'[x].config = tree[x].config
         /\ \A y \in Revisions, q \in Parts :
              Present(y) /\ (y # x \/ q # p) => tree'[y].repo[q] = tree[y].repo[q]
<1>1. tree[x] \in Tree
  BY TreeFields
<1>2. tree'[x] = [tree[x] EXCEPT !.repo[p] = repo] /\ \A y \in Revisions \ {x} : tree'[y] = tree[y]
  BY DEF TreeType, WithRepo
<1>3. tree'[x] \in Tree
  BY <1>1, <1>2 DEF Tree
<1>. QED BY <1>1, <1>2, <1>3 DEF TreeType, SameFields, WithRepo, Present, Tree, NoTree

\* A tree's .config is changed.
LEMMA PutConfigChange ==
  ASSUME TreeType, NEW x \in Revisions, Present(x), NEW c \in Boards \cup {Nobody},
         tree' = WithConfig(x, c)
  PROVE  TreeType' /\ SameFields /\ SameRepos /\ tree'[x].config = c
<1>1. tree[x] \in Tree
  BY TreeFields
<1>2. tree'[x] = [tree[x] EXCEPT !.config = c] /\ \A y \in Revisions \ {x} : tree'[y] = tree[y]
  BY DEF TreeType, WithConfig
<1>3. tree'[x] \in Tree
  BY <1>1, <1>2 DEF Tree
<1>. QED BY <1>1, <1>2, <1>3 DEF TreeType, WithConfig, SameFields, SameRepos, Present, Tree, NoTree

-----------------------------------------------------------------------------
(* What does not change what holds between scripts.                         *)

\* A part speaks only of the commands of its scripts.
LEMMA NotDownloading ==
  ASSUME at' \notin AtDownload \cup {"delete"} PROVE Downloading'
BY DEF Downloading, AtDownload

\* The module script is not running.
LEMMA NotMaking ==
  ASSUME at' \notin AtModule PROVE Making'
BY DEF Making, TodoOrder, Initialised, Progress, OthersAtMaster, AtModule, AtBoard

\* No script for a board is running.
LEMMA NotBoarding ==
  ASSUME at' \notin AtTree \cup {"checkout", "leave"} PROVE CheckedOut'
BY DEF CheckedOut, AtTree

\* Branches as they were.
SameBranches ==
  \A x \in Revisions, p \in Parts :
    /\ Made(x, p)' <=> Made(x, p)
    /\ Made(x, p) => \A b \in Boards : BranchOf(x, p, b)' = BranchOf(x, p, b)

SameHeads ==
  \A x \in Revisions, p \in Parts : Made(x, p) => HeadOf(x, p)' = HeadOf(x, p)

\* Repositories that are the same have the same heads and branches.
LEMMA ReposKept ==
  ASSUME SameFields, SameRepos PROVE SameBranches /\ SameHeads
BY DEF SameFields, SameRepos, SameBranches, SameHeads, Made, Present, HeadOf, BranchOf

\* Every board has a revision.
LEMMA RevisionOf == \A b \in Boards : Revision[b] \in Revisions
BY TreesAssumption

\* What holds of the trees between scripts does not depend on what is checked out.
LEMMA TreesKept ==
  ASSUME Trees, TreeType', HeadsExist', SameFields, SameBranches, UNCHANGED <<downloaded, ready>>
  PROVE  Trees'
<1>1. BranchesBegin'
  BY FirstBoard, RevisionOf DEF Trees, BranchesBegin, Has, SameBranches, Parts
<1>2. DownloadedTrees'
  BY RevisionOf DEF Trees, DownloadedTrees, SameFields, Present
<1>3. ReadyBranches'
  BY RevisionOf DEF Trees, ReadyBranches, Has, SameBranches
<1>. QED BY <1>1, <1>2, <1>3 DEF Trees

\* Trees that are left alone keep it.
LEMMA TreesUnchanged ==
  ASSUME Trees, UNCHANGED <<tree, downloaded, ready>> PROVE Trees' /\ SameFields /\ SameRepos
<1>1. SameFields /\ SameRepos
  BY DEF SameFields, SameRepos, Present
<1>2. SameBranches /\ SameHeads
  BY <1>1, ReposKept
<1>3. TreeType' /\ HeadsExist'
  BY DEF Trees, TreeType, HeadsExist, Made, Present, HeadOf, BranchOf
<1>. QED BY <1>1, <1>2, <1>3, TreesKept

\* A head is set to master or to a branch there is.
LEMMA HeadPut ==
  ASSUME Trees, NEW x \in Revisions, NEW p \in Parts, Made(x, p), NEW h \in Boards \cup {"master"},
         h # "master" => BranchOf(x, p, h) # NoBranch,
         tree' = WithRepo(x, p, [tree[x].repo[p] EXCEPT !.head = h]),
         UNCHANGED <<downloaded, ready>>
  PROVE  /\ Trees' /\ SameFields /\ SameBranches
         /\ HeadOf(x, p)' = h
         /\ tree'[x].config = tree[x].config
         /\ \A y \in Revisions, q \in Parts :
              Made(y, q) /\ (y # x \/ q # p) => HeadOf(y, q)' = HeadOf(y, q)
<1>. DEFINE repo == [tree[x].repo[p] EXCEPT !.head = h]
<1>1. tree[x].repo[p] \in Repo /\ Present(x) /\ TreeType
  BY RepoFields DEF Trees, Made
<1>2. /\ repo \in Repo /\ repo # NoRepo /\ repo.head = h /\ repo.branch = tree[x].repo[p].branch
  BY <1>1 DEF Repo, NoRepo
<1>. HIDE DEF repo
<1>3. /\ TreeType' /\ SameFields
      /\ tree'[x].repo[p] = repo
      /\ tree'[x].config = tree[x].config
      /\ \A y \in Revisions, q \in Parts :
           Present(y) /\ (y # x \/ q # p) => tree'[y].repo[q] = tree[y].repo[q]
  BY <1>1, <1>2, PutRepoChange DEF repo
<1>4. SameBranches
  BY <1>1, <1>2, <1>3 DEF SameBranches, SameFields, Made, BranchOf
<1>5. \A y \in Revisions, q \in Parts :
           Made(y, q) /\ (y # x \/ q # p) => HeadOf(y, q)' = HeadOf(y, q)
  BY <1>1, <1>2, <1>3 DEF SameFields, Made, HeadOf
<1>6. HeadOf(x, p)' = h
  BY <1>2, <1>3 DEF HeadOf
<1>7. HeadsExist'
  <2>. SUFFICES ASSUME NEW y \in Revisions, NEW q \in Parts, Made(y, q)', HeadOf(y, q)' # "master"
                PROVE  BranchOf(y, q, HeadOf(y, q))' # NoBranch
    BY DEF HeadsExist
  <2>1. Made(y, q)
    BY <1>4 DEF SameBranches
  <2>2. HeadOf(y, q) \in Boards \cup {"master"} /\ HeadsExist
    BY <2>1, RepoFields DEF Trees
  <2>3. CASE y = x /\ q = p
    BY <1>2, <1>3, <1>6, <2>3 DEF BranchOf, HeadOf
  <2>4. CASE y # x \/ q # p
    <3>1. HeadOf(y, q)' = HeadOf(y, q) /\ tree'[y].repo[q] = tree[y].repo[q]
      BY <1>3, <1>5, <2>1, <2>4 DEF Made
    <3>2. BranchOf(y, q, HeadOf(y, q)) # NoBranch
      BY <2>1, <2>2, <3>1 DEF HeadsExist
    <3>. QED BY <3>1, <3>2 DEF BranchOf
  <2>. QED BY <2>3, <2>4
<1>. QED BY <1>3, <1>4, <1>5, <1>6, <1>7, TreesKept

\* The same heads and branches exist.
LEMMA HeadsKept ==
  ASSUME Trees, SameBranches, SameHeads PROVE HeadsExist'
<1>. SUFFICES ASSUME NEW x \in Revisions, NEW p \in Parts, Made(x, p)', HeadOf(x, p)' # "master"
              PROVE  BranchOf(x, p, HeadOf(x, p))' # NoBranch
  BY DEF HeadsExist
<1>1. Made(x, p) /\ HeadOf(x, p)' = HeadOf(x, p)
  BY DEF SameBranches, SameHeads
<1>2. HeadOf(x, p) \in Boards /\ BranchOf(x, p, HeadOf(x, p)) # NoBranch
  BY <1>1, RepoFields DEF Trees, HeadsExist
<1>3. tree'[x].repo[p].branch[HeadOf(x, p)] = tree[x].repo[p].branch[HeadOf(x, p)]
  BY <1>1, <1>2 DEF SameBranches, BranchOf
<1>. QED BY <1>1, <1>2, <1>3 DEF BranchOf, HeadOf

\* A tree's .config has no part in what holds of its repositories.
LEMMA ConfigPut ==
  ASSUME Trees, NEW x \in Revisions, Present(x), NEW c \in Boards \cup {Nobody},
         tree' = WithConfig(x, c), UNCHANGED <<downloaded, ready>>
  PROVE  Trees' /\ SameFields /\ SameBranches /\ SameHeads /\ tree'[x].config = c
<1>1. TreeType' /\ SameFields /\ SameRepos /\ tree'[x].config = c
  BY PutConfigChange DEF Trees
<1>. QED BY <1>1, ReposKept, HeadsKept, TreesKept

BranchIsPut(x, p, b, value) ==
  /\ Trees' /\ SameFields
  /\ HeadOf(x, p)' = b /\ BranchOf(x, p, b)' = value
  /\ \A y \in Revisions, q \in Parts : Made(y, q)' <=> Made(y, q)
  /\ \A y \in Revisions, q \in Parts :
       Made(y, q) /\ (y # x \/ q # p) => HeadOf(y, q)' = HeadOf(y, q)
  /\ \A y \in Revisions, q \in Parts, c \in Boards :
       Made(y, q) /\ (y # x \/ q # p \/ c # b) => BranchOf(y, q, c)' = BranchOf(y, q, c)

\* A branch is put into a repository, and checked out, while not everything is
\* ready: it is the first board's, or the first board has one.
LEMMA BranchPut ==
  ASSUME Trees, ~ready, NEW x \in Revisions, NEW p \in Parts, Made(x, p),
         NEW b \in Boards, NEW value, NEW repo, Branched(x, p, b, value, repo),
         Has(First, "coreboot") \/ (x = Revision[First] /\ p = "coreboot" /\ b = First),
         tree' = WithRepo(x, p, repo), UNCHANGED <<downloaded, ready>>
  PROVE  BranchIsPut(x, p, b, value)
<1>1. /\ repo \in Repo /\ value \in Patched /\ repo.head = b
      /\ repo.branch = [tree[x].repo[p].branch EXCEPT ![b] = value]
  BY DEF Branched
<1>2. Present(x) /\ TreeType /\ tree[x].repo[p] \in Repo
  BY RepoFields DEF Trees, Made
<1>3. value # NoBranch /\ repo # NoRepo /\ tree[x].repo[p].branch \in [Boards -> Patched \cup {NoBranch}]
  <2>1. "no branch" \notin Boards \cup {"half"}
    BY TreesAssumption
  <2>2. "no branch" \notin value /\ "no branch" \in NoBranch
    BY <1>1, <2>1 DEF Patched, NoBranch
  <2>3. repo # NoRepo /\ tree[x].repo[p].branch \in [Boards -> Patched \cup {NoBranch}]
    BY <1>1, <1>2 DEF Repo, NoRepo
  <2>. QED BY <2>2, <2>3
<1>4. /\ TreeType' /\ SameFields
      /\ tree'[x].repo[p] = repo
      /\ \A y \in Revisions, q \in Parts :
           Present(y) /\ (y # x \/ q # p) => tree'[y].repo[q] = tree[y].repo[q]
  BY <1>1, <1>2, PutRepoChange
<1>5. \A y \in Revisions, q \in Parts : Made(y, q)' <=> Made(y, q)
  BY <1>2, <1>3, <1>4 DEF SameFields, Made
<1>6. HeadOf(x, p)' = b /\ BranchOf(x, p, b)' = value
  BY <1>1, <1>3, <1>4 DEF HeadOf, BranchOf
<1>7. \A y \in Revisions, q \in Parts : Made(y, q) /\ (y # x \/ q # p) =>
              HeadOf(y, q)' = HeadOf(y, q)
  BY <1>4 DEF SameFields, Made, HeadOf
<1>8. \A y \in Revisions, q \in Parts, c \in Boards :
        Made(y, q) /\ (y # x \/ q # p \/ c # b) => BranchOf(y, q, c)' = BranchOf(y, q, c)
  BY <1>1, <1>3, <1>4 DEF SameFields, Made, BranchOf
<1>9. HeadsExist'
  <2>. SUFFICES ASSUME NEW y \in Revisions, NEW q \in Parts, Made(y, q)', HeadOf(y, q)' # "master"
                PROVE  BranchOf(y, q, HeadOf(y, q))' # NoBranch
    BY DEF HeadsExist
  <2>1. Made(y, q)
    BY <1>5
  <2>2. HeadOf(y, q) \in Boards \cup {"master"} /\ HeadsExist
    BY <2>1, RepoFields DEF Trees
  <2>3. CASE y = x /\ q = p
    BY <1>1, <1>3, <1>6, <2>3 DEF BranchOf, HeadOf
  <2>4. CASE y # x \/ q # p
    BY <1>4, <1>7, <2>1, <2>2, <2>4 DEF HeadsExist, BranchOf, HeadOf, Made
  <2>. QED BY <2>3, <2>4
<1>10. Has(First, "coreboot")'
  BY <1>3, <1>5, <1>6, <1>8, FirstBoard, RevisionOf DEF Has, Parts
<1>11. BranchesBegin'
  BY <1>10 DEF BranchesBegin
<1>12. DownloadedTrees'
  BY <1>4, RevisionOf DEF Trees, DownloadedTrees, SameFields, Present
<1>13. ReadyBranches'
  BY DEF ReadyBranches
<1>. QED BY <1>4, <1>5, <1>6, <1>7, <1>8, <1>9, <1>11, <1>12, <1>13 DEF Trees, BranchIsPut

\* A repository is made, with nothing in it but master.
LEMMA RepoMade ==
  ASSUME Trees, NEW x \in Revisions, NEW p \in Parts, Present(x), ~Made(x, p),
         tree' = WithRepo(x, p, NewRepo), UNCHANGED <<downloaded, ready>>
  PROVE  /\ Trees' /\ SameFields /\ Made(x, p)'
         /\ \A y \in Revisions, q \in Parts : Made(y, q) => Made(y, q)'
<1>1. NewRepo \in Repo /\ NewRepo # NoRepo /\ NewRepo.head = "master"
      /\ \A b \in Boards : NewRepo.branch[b] = NoBranch
  BY DEF NewRepo, Repo, NoRepo
<1>2. /\ TreeType' /\ SameFields
      /\ tree'[x].repo[p] = NewRepo
      /\ \A y \in Revisions, q \in Parts :
           Present(y) /\ (y # x \/ q # p) => tree'[y].repo[q] = tree[y].repo[q]
  <2>1. TreeType /\ NewRepo \in Repo
    BY <1>1 DEF Trees
  <2>. QED BY <2>1, PutRepoChange, Zenon
<1>3. /\ Made(x, p)' /\ HeadOf(x, p)' = "master"
      /\ \A b \in Boards : BranchOf(x, p, b)' = NoBranch
  BY <1>1, <1>2 DEF SameFields, Made, HeadOf, BranchOf
<1>4. \A y \in Revisions, q \in Parts : (y # x \/ q # p) =>
        /\ Made(y, q)' <=> Made(y, q)
        /\ Made(y, q) => HeadOf(y, q)' = HeadOf(y, q)
        /\ Made(y, q) => \A b \in Boards : BranchOf(y, q, b)' = BranchOf(y, q, b)
  BY <1>2 DEF SameFields, Made, HeadOf, BranchOf
<1>5. HeadsExist'
  <2>. SUFFICES ASSUME NEW y \in Revisions, NEW q \in Parts, Made(y, q)', HeadOf(y, q)' # "master"
                PROVE  BranchOf(y, q, HeadOf(y, q))' # NoBranch
    BY DEF HeadsExist
  <2>1. y # x \/ q # p
    BY <1>3
  <2>2. Made(y, q) /\ tree'[y].repo[q] = tree[y].repo[q]
    BY <1>2, <1>4, <2>1 DEF Made
  <2>. QED BY <2>2 DEF Trees, HeadsExist, HeadOf, BranchOf
<1>6. \A b \in Boards, q \in Parts : Has(b, q) =>
        Has(b, q)' /\ BranchOf(Revision[b], q, b)' = BranchOf(Revision[b], q, b)
  BY <1>4, RevisionOf DEF Has
<1>7. BranchesBegin'
  <2>. SUFFICES ASSUME NEW y \in Revisions, NEW q \in Parts, NEW b \in Boards,
                       Made(y, q)', BranchOf(y, q, b)' # NoBranch
                PROVE  Has(First, "coreboot")'
    BY DEF BranchesBegin
  <2>1. Made(y, q) /\ BranchOf(y, q, b) # NoBranch
    BY <1>3, <1>4
  <2>. QED BY <1>6, <2>1, FirstBoard DEF Trees, BranchesBegin, Parts
<1>8. DownloadedTrees'
  BY <1>2, RevisionOf DEF Trees, DownloadedTrees, SameFields, Present
<1>9. ReadyBranches'
  BY <1>6 DEF Trees, ReadyBranches
<1>. QED BY <1>2, <1>3, <1>4, <1>5, <1>7, <1>8, <1>9 DEF Trees

\* While a download is under way nothing is promised of its trees but their type.
LEMMA TreesWhileDownloading ==
  ASSUME Trees, TreeType', SameBranches, SameHeads, ~downloaded', ~ready'
  PROVE  Trees'
<1>1. HeadsExist'
  BY HeadsKept
<1>2. BranchesBegin'
  BY FirstBoard, RevisionOf DEF Trees, BranchesBegin, Has, SameBranches, Parts
<1>3. DownloadedTrees' /\ ReadyBranches'
  BY DEF DownloadedTrees, ReadyBranches
<1>. QED BY <1>1, <1>2, <1>3 DEF Trees

-----------------------------------------------------------------------------
(* Steps, by where they lead.                                               *)

\* The configs and the images are left alone.
LEMMA BoardingKept ==
  ASSUME Boarding, UNCHANGED <<config, image>> PROVE Boarding'
BY DEF Boarding, ConfigType, ImageType, ImagesAreOwn

\* No script is running, or one that has nothing to do but end.
LEMMA ToIdle ==
  ASSUME Trees', MemoryType', Boarding', at' \in {"idle", "pass over", "clean"} PROVE IInv'
<1>1. at' \notin AtDownload \cup {"delete"} /\ at' \notin AtModule /\ at' \notin AtTree \cup {"checkout", "leave"}
  BY DEF AtDownload, AtModule, AtBoard, AtTree
<1>2. Downloading' /\ Making' /\ CheckedOut'
  BY <1>1, NotDownloading, NotMaking, NotBoarding
<1>. QED BY <1>2 DEF IInv

\* A download goes on.
LEMMA ToDownload ==
  ASSUME Trees', MemoryType', Boarding', Downloading', at' \in AtDownload \cup {"delete"}
  PROVE IInv'
<1>1. at' \notin AtModule /\ at' \notin AtTree \cup {"checkout", "leave"}
  BY DEF AtDownload, AtModule, AtBoard, AtTree
<1>2. Making' /\ CheckedOut'
  BY <1>1, NotMaking, NotBoarding
<1>. QED BY <1>2 DEF IInv

\* The module goes on.
LEMMA ToModule ==
  ASSUME Trees', MemoryType', Boarding', Making', at' \in AtModule PROVE IInv'
<1>1. at' \notin AtDownload \cup {"delete"} /\ at' \notin AtTree \cup {"checkout", "leave"}
  BY DEF AtDownload, AtModule, AtBoard, AtTree
<1>2. Downloading' /\ CheckedOut'
  BY <1>1, NotDownloading, NotBoarding
<1>. QED BY <1>2 DEF IInv

\* A script goes on with its board.
LEMMA ToBoard ==
  ASSUME Trees', MemoryType', Boarding', CheckedOut', at' \in AtTree \cup {"checkout",
    "leave"} PROVE IInv'
<1>1. at' \notin AtDownload \cup {"delete"} /\ at' \notin AtModule
  BY DEF AtDownload, AtModule, AtBoard, AtTree
<1>2. Downloading' /\ Making'
  BY <1>1, NotDownloading, NotMaking
<1>. QED BY <1>2 DEF IInv

\* A script that is aborted changes nothing but what it remembers.
LEMMA AbortsKeeps ==
  ASSUME IInv, Aborts PROVE IInv'
<1>1. Trees /\ MemoryType /\ Boarding
  BY DEF IInv
<1>2. Trees'
  BY <1>1, TreesUnchanged DEF Aborts
<1>3. Boarding'
  BY <1>1, BoardingKept DEF Aborts
<1>4. MemoryType'
  BY <1>1 DEF MemoryType, Aborts, Ends
<1>. QED BY <1>2, <1>3, <1>4, ToIdle DEF Aborts, Ends

\* A script can be stopped anywhere.
LEMMA StopKeeps ==
  ASSUME IInv, Stop PROVE IInv'
<1>1. Trees /\ MemoryType /\ Boarding
  BY DEF IInv
<1>2. Trees'
  BY <1>1, TreesUnchanged DEF Stop
<1>3. Boarding'
  BY <1>1, BoardingKept DEF Stop
<1>4. MemoryType'
  BY <1>1 DEF MemoryType, Stop, Ends
<1>. QED BY <1>2, <1>3, <1>4, ToIdle DEF Stop, Ends

-----------------------------------------------------------------------------
(* ./download coreboot                                                      *)

\* Before the trees are deleted only their type is known of them; then they are
\* gone, with what was promised of them.
LEMMA DeleteTreesKeeps ==
  ASSUME IInv, DeleteTrees PROVE IInv'
<1>1. Trees /\ MemoryType /\ Boarding /\ Downloading
  BY DEF IInv
<1>2. \A x \in Revisions : ~Present(x)'
  BY DEF DeleteTrees, Present
<1>3. TreeType' /\ ~downloaded' /\ ~ready' /\ at' = "clone"
  BY DEF DeleteTrees, TreeType
<1>4. Trees'
  BY <1>2, <1>3 DEF Trees, HeadsExist, BranchesBegin, DownloadedTrees, ReadyBranches, Made
<1>5. MemoryType'
  BY <1>1 DEF MemoryType, DeleteTrees, memory
<1>6. Boarding'
  BY <1>1, BoardingKept DEF DeleteTrees
<1>7. Downloading'
  BY <1>1, <1>2, <1>3 DEF Downloading, DeleteTrees, memory
<1>. QED BY <1>3, <1>4, <1>5, <1>6, <1>7, ToDownload DEF AtDownload

\* git clone, into a directory of its own.
LEMMA CloneKeeps ==
  ASSUME IInv, Clone PROVE IInv'
<1>1. Trees /\ MemoryType /\ Boarding /\ Downloading
  BY DEF IInv
<1>2. Trees' /\ SameFields
  BY <1>1, TreesUnchanged DEF Clone, Goto, history
<1>3. MemoryType'
  BY <1>1 DEF MemoryType, Clone, Goto, memory, history
<1>4. Boarding'
  BY <1>1, BoardingKept DEF Clone
<1>5. /\ at = "clone" /\ at' = "copy" /\ todo' = BoardOrder /\ ~downloaded'
      /\ \A x \in Revisions : ~Present(x)'
  BY <1>1, <1>2 DEF Downloading, AtDownload, Clone, Goto, memory, history, SameFields
<1>6. Downloading'
  BY <1>5, FirstBoard DEF Downloading
<1>. QED BY <1>2, <1>3, <1>4, <1>5, <1>6, ToDownload DEF AtDownload

\* A tree that is not there is copied; the board is off the list.
LEMMA CopyRevisionKeeps ==
  ASSUME IInv, CopyRevision PROVE IInv'
<1>1. Trees /\ MemoryType /\ Boarding /\ Downloading /\ at = "copy" /\ ~downloaded /\ ~ready
  BY DEF IInv, CopyRevision, Downloading, AtDownload, Trees, ReadyBranches
<1>2. /\ Head(todo) \in Boards /\ Tail(todo) \in Seq(Boards)
      /\ ToSet(todo) = {Head(todo)} \cup ToSet(Tail(todo))
  BY <1>1, TakeFirst DEF MemoryType, CopyRevision
<1>3. board' = Head(todo) /\ todo' = Tail(todo) /\ r' = Revision[Head(todo)]
  BY DEF CopyRevision, r
<1>4. /\ MemoryType' /\ Boarding' /\ ~downloaded' /\ ~ready'
  <2>1. UNCHANGED <<part, revs, clone, config, image, outcome, patches, downloaded, ready>>
    BY DEF CopyRevision, Goto, history
  <2>2. Boarding'
    BY <1>1, <2>1, BoardingKept
  <2>. QED BY <1>1, <1>2, <1>3, <2>1, <2>2 DEF MemoryType
<1>5. CASE tree[Revision[Head(todo)]] = NoTree
  <2>. PICK x \in Revisions : x = Revision[Head(todo)]
    BY <1>2, RevisionOf
  <2>1. ~Present(x) /\ TreeType
    BY <1>1, <1>5 DEF Present, Trees
  <2>2. tree' = [tree EXCEPT ![x] = Copied] /\ at' = "reset"
    BY <1>5 DEF CopyRevision, Goto
  <2>3. /\ Copied \in Tree /\ Copied # NoTree
        /\ \A p \in Parts : Copied.repo[p] = NoRepo
    BY DEF Copied, Tree, NoTree
  <2>4. tree'[x] = Copied /\ \A y \in Revisions \ {x} : tree'[y] = tree[y]
    BY <2>1, <2>2 DEF TreeType
  <2>5. TreeType'
    BY <2>1, <2>2, <2>3 DEF TreeType
  <2>6. SameBranches /\ SameHeads
    BY <2>1, <2>3, <2>4 DEF SameBranches, SameHeads, Made, Present, HeadOf, BranchOf
  <2>7. Trees'
    BY <1>1, <1>4, <2>5, <2>6, TreesWhileDownloading
  <2>8. /\ Present(x)' /\ x = r'
        /\ \A y \in Revisions \ {x} :
             /\ Present(y)' <=> Present(y)
             /\ tree'[y] = tree[y]
    BY <1>3, <2>3, <2>4 DEF Present
  <2>9. Downloading'
    <3>1. \A b \in Boards \ ToSet(todo') : Present(Revision[b])'
      BY <1>1, <1>2, <1>3, <2>8, RevisionOf DEF Downloading, Present
    <3>2. \A y \in Revisions : Present(y)' => tree'[y].reset \/ y = r'
      BY <1>1, <2>8 DEF Downloading
    <3>3. Present(r)'
      BY <2>8 DEF Present
    <3>. QED BY <1>4, <2>2, <3>1, <3>2, <3>3 DEF Downloading
  <2>. QED BY <1>4, <2>2, <2>7, <2>9, ToDownload DEF AtDownload
<1>6. CASE tree[Revision[Head(todo)]] # NoTree
  <2>1. UNCHANGED tree /\ at' = "copy"
    BY <1>6 DEF CopyRevision, Goto
  <2>2. Trees'
    BY <1>1, <2>1, TreesUnchanged DEF CopyRevision, Goto, history
  <2>3. \A b \in Boards \ ToSet(todo') : Present(Revision[b])'
    BY <1>1, <1>2, <1>3, <1>6, <2>1 DEF Downloading, Present
  <2>4. Downloading'
    BY <1>1, <1>4, <2>1, <2>3 DEF Downloading, Present
  <2>. QED BY <1>4, <2>1, <2>2, <2>4, ToDownload DEF AtDownload
<1>. QED BY <1>5, <1>6

\* git reset --hard, in the tree that was just copied.
LEMMA ResetRevisionKeeps ==
  ASSUME IInv, ResetRevision PROVE IInv'
<1>1. /\ Trees /\ MemoryType /\ Boarding /\ Downloading /\ at = "reset" /\ ~downloaded /\ ~ready
      /\ Present(r)
  BY DEF IInv, ResetRevision, Downloading, AtDownload, Trees, ReadyBranches
<1>2. r \in Revisions /\ TreeType
  BY <1>1, RevisionOf DEF r, MemoryType, Trees
<1>3. /\ tree' = [tree EXCEPT ![r].reset = TRUE] /\ at' = "copy" /\ r' = r
      /\ UNCHANGED <<board, part, todo, revs, clone, config, image, outcome, patches, downloaded,
        ready>>
  BY DEF ResetRevision, Goto, memory, history, r
<1>4. tree'[r] = [tree[r] EXCEPT !.reset = TRUE] /\ \A y \in Revisions \ {r} : tree'[y] = tree[y]
  BY <1>2, <1>3 DEF TreeType
<1>5. tree[r] \in Tree
  BY <1>1, <1>2, TreeFields
<1>6. tree'[r] \in Tree /\ tree'[r].reset /\ tree'[r].repo = tree[r].repo /\ tree'[r] # NoTree
  BY <1>4, <1>5 DEF Tree, NoTree
<1>7. TreeType'
  BY <1>2, <1>3, <1>6 DEF TreeType
<1>8. SameBranches /\ SameHeads /\ \A y \in Revisions : Present(y)' <=> Present(y)
  BY <1>1, <1>4, <1>6 DEF SameBranches, SameHeads, Made, Present, HeadOf, BranchOf
<1>9. Trees'
  BY <1>1, <1>3, <1>7, <1>8, TreesWhileDownloading
<1>10. MemoryType' /\ Boarding'
  BY <1>1, <1>3, BoardingKept DEF MemoryType
<1>11. Downloading'
  <2>1. \A b \in Boards \ ToSet(todo') : Present(Revision[b])'
    BY <1>1, <1>3, <1>8, RevisionOf DEF Downloading
  <2>2. \A y \in Revisions : Present(y)' => tree'[y].reset
    BY <1>1, <1>4, <1>6, <1>8 DEF Downloading
  <2>. QED BY <1>1, <1>3, <2>1, <2>2 DEF Downloading
<1>. QED BY <1>3, <1>9, <1>10, <1>11, ToDownload DEF AtDownload

\* The clone is deleted; every board's tree is there, at its revision.
LEMMA RemoveCloneKeeps ==
  ASSUME IInv, RemoveClone PROVE IInv'
<1>1. /\ Trees /\ MemoryType /\ Boarding /\ Downloading /\ at = "copy" /\ todo = << >> /\ ~downloaded
  BY DEF IInv, RemoveClone, Downloading, AtDownload
<1>2. /\ at' = "remove .git" /\ revs' = {x \in Revisions : Present(x)} /\ clone' = FALSE
      /\ UNCHANGED <<tree, board, part, todo, config, image, outcome, patches, downloaded, ready>>
  BY DEF RemoveClone, Goto, history, Present
<1>3. Trees'
  BY <1>1, <1>2, TreesUnchanged
<1>4. MemoryType' /\ Boarding'
  BY <1>1, <1>2, BoardingKept DEF MemoryType
<1>5. \A b \in Boards : Present(Revision[b])
  BY <1>1 DEF Downloading, ToSet
<1>6. Downloading'
  BY <1>1, <1>2, <1>5 DEF Downloading, Present
<1>. QED BY <1>2, <1>3, <1>4, <1>6, ToDownload DEF AtDownload

\* coreboot's history is deleted in one tree, or the blobs are next.
LEMMA RemoveHistoryKeeps ==
  ASSUME IInv, RemoveHistory PROVE IInv'
<1>1. /\ Trees /\ MemoryType /\ Boarding /\ Downloading /\ at = "remove .git" /\ ~downloaded /\ ~ready
  BY DEF IInv, RemoveHistory, Downloading, AtDownload, Trees, ReadyBranches
<1>2. UNCHANGED <<board, part, clone, config, image, outcome, patches, downloaded, ready>>
  BY DEF RemoveHistory, Goto, history
<1>3. Boarding'
  BY <1>1, <1>2, BoardingKept
<1>4. CASE revs = {}
  <2>1. UNCHANGED <<tree, revs>> /\ todo' = BoardOrder /\ at' = "deblob"
    BY <1>4 DEF RemoveHistory, Goto
  <2>2. Trees'
    BY <1>1, <1>2, <2>1, TreesUnchanged
  <2>3. MemoryType'
    BY <1>1, <1>2, <2>1, FirstBoard DEF MemoryType
  <2>4. Downloading'
    BY <1>1, <1>2, <1>4, <2>1, FirstBoard DEF Downloading, Present
  <2>. QED BY <1>3, <2>1, <2>2, <2>3, <2>4, ToDownload DEF AtDownload
<1>5. CASE revs # {}
  <2>1. PICK x \in revs : tree' = [tree EXCEPT ![x].upstream = FALSE] /\ revs' = revs \ {x}
    BY <1>5 DEF RemoveHistory
  <2>2. UNCHANGED todo /\ at' = "remove .git"
    BY <1>5 DEF RemoveHistory, Goto
  <2>3. x \in Revisions /\ Present(x) /\ TreeType
    BY <1>1 DEF MemoryType, Downloading, Trees
  <2>4. tree'[x] = [tree[x] EXCEPT !.upstream = FALSE] /\ \A y \in Revisions \ {x} : tree'[y] = tree[y]
    BY <2>1, <2>3 DEF TreeType
  <2>5. tree[x] \in Tree
    BY <2>3, TreeFields
  <2>6. /\ tree'[x] \in Tree /\ ~tree'[x].upstream /\ tree'[x].repo = tree[x].repo
        /\ tree'[x].reset = tree[x].reset /\ tree'[x] # NoTree
    BY <2>4, <2>5 DEF Tree, NoTree
  <2>7. TreeType'
    BY <2>1, <2>3, <2>6 DEF TreeType
  <2>8. SameBranches /\ SameHeads /\ \A y \in Revisions : Present(y)' <=> Present(y)
    BY <2>3, <2>4, <2>6 DEF SameBranches, SameHeads, Made, Present, HeadOf, BranchOf
  <2>9. Trees'
    BY <1>1, <1>2, <2>7, <2>8, TreesWhileDownloading
  <2>10. MemoryType'
    BY <1>1, <1>2, <2>1, <2>2 DEF MemoryType
  <2>11. Downloading'
    <3>1. \A b \in Boards : Present(Revision[b])'
      BY <1>1, <2>8, RevisionOf DEF Downloading
    <3>2. \A y \in Revisions : Present(y)' => tree'[y].reset
      BY <1>1, <2>4, <2>6, <2>8 DEF Downloading
    <3>3. \A y \in Revisions :
            (y \in revs' => Present(y)') /\ (Present(y)' /\ tree'[y].upstream => y \in revs')
      BY <1>1, <2>1, <2>4, <2>6, <2>8 DEF Downloading
    <3>. QED BY <1>1, <1>2, <2>2, <3>1, <3>2, <3>3 DEF Downloading
  <2>. QED BY <1>3, <2>2, <2>9, <2>10, <2>11, ToDownload DEF AtDownload
<1>. QED BY <1>4, <1>5

\* The blobs are deleted in the tree of one board.
LEMMA DeblobKeeps ==
  ASSUME IInv, Deblob PROVE IInv'
<1>1. /\ Trees /\ MemoryType /\ Boarding /\ Downloading /\ at = "deblob" /\ todo # << >>
      /\ ~downloaded /\ ~ready
  BY DEF IInv, Deblob, Downloading, AtDownload, Trees, ReadyBranches
<1>2. /\ Head(todo) \in Boards /\ Tail(todo) \in Seq(Boards)
      /\ ToSet(todo) = {Head(todo)} \cup ToSet(Tail(todo))
  BY <1>1, TakeFirst DEF MemoryType
<1>. PICK x \in Revisions : x = Revision[Head(todo)]
  BY <1>2, RevisionOf
<1>3. /\ tree' = [tree EXCEPT ![x].blobs = FALSE] /\ todo' = Tail(todo) /\ at' = "deblob"
      /\ UNCHANGED <<board, part, revs, clone, config, image, outcome, patches, downloaded, ready>>
  BY DEF Deblob, Goto, history
<1>4. Present(x) /\ TreeType
  BY <1>1, <1>2 DEF Downloading, Trees, Present
<1>5. tree'[x] = [tree[x] EXCEPT !.blobs = FALSE] /\ \A y \in Revisions \ {x} : tree'[y] = tree[y]
  BY <1>3, <1>4 DEF TreeType
<1>6. tree[x] \in Tree
  BY <1>4, TreeFields
<1>7. /\ tree'[x] \in Tree /\ ~tree'[x].blobs /\ tree'[x].repo = tree[x].repo
      /\ tree'[x].reset = tree[x].reset /\ tree'[x].upstream = tree[x].upstream /\ tree'[x] # NoTree
  BY <1>5, <1>6 DEF Tree, NoTree
<1>8. TreeType'
  BY <1>3, <1>4, <1>7 DEF TreeType
<1>9. SameBranches /\ SameHeads /\ \A y \in Revisions : Present(y)' <=> Present(y)
  BY <1>4, <1>5, <1>7 DEF SameBranches, SameHeads, Made, Present, HeadOf, BranchOf
<1>10. Trees'
  BY <1>1, <1>3, <1>8, <1>9, TreesWhileDownloading
<1>11. MemoryType' /\ Boarding'
  BY <1>1, <1>2, <1>3, BoardingKept DEF MemoryType
<1>12. Downloading'
  <2>1. \A b \in Boards : Present(Revision[b])'
    BY <1>1, <1>9, RevisionOf DEF Downloading
  <2>2. \A y \in Revisions : Present(y)' => tree'[y].reset /\ ~tree'[y].upstream
    BY <1>1, <1>4, <1>5, <1>7, <1>9 DEF Downloading
  <2>3. \A b \in Boards \ ToSet(todo') : ~tree'[Revision[b]].blobs
    <3>. SUFFICES ASSUME NEW b \in Boards \ ToSet(todo') PROVE ~tree'[Revision[b]].blobs
      OBVIOUS
    <3>1. CASE Revision[b] = x
      BY <1>7, <3>1
    <3>2. CASE Revision[b] # x
      <4>1. b \notin ToSet(todo)
        BY <1>2, <1>3, <3>2
      <4>. QED BY <1>1, <1>5, <3>2, <4>1, RevisionOf DEF Downloading
    <3>. QED BY <3>1, <3>2
  <2>. QED BY <1>1, <1>3, <2>1, <2>2, <2>3 DEF Downloading
<1>. QED BY <1>3, <1>10, <1>11, <1>12, ToDownload DEF AtDownload

\* The download exits 0: every board's tree is as it should be.
LEMMA DownloadEndsKeeps ==
  ASSUME IInv, DownloadEnds PROVE IInv'
<1>1. /\ Trees /\ MemoryType /\ Boarding /\ Downloading /\ at = "deblob" /\ todo = << >>
      /\ ~downloaded /\ ~ready
  BY DEF IInv, DownloadEnds, Downloading, AtDownload, Trees, ReadyBranches
<1>2. /\ at' = "idle" /\ todo' = << >> /\ revs' = {} /\ outcome' = "ok" /\ downloaded' = TRUE
      /\ UNCHANGED <<board, part, tree, clone, config, image, patches, ready>>
  BY DEF DownloadEnds, Succeeds, Ends
<1>3. DownloadedTrees'
  <2>1. ToSet(todo) = {}
    BY <1>1 DEF ToSet
  <2>2. \A b \in Boards : Present(Revision[b]) /\ ~tree[Revision[b]].blobs
    BY <1>1, <2>1 DEF Downloading
  <2>3. \A b \in Boards : tree[Revision[b]].reset /\ ~tree[Revision[b]].upstream
    BY <1>1, <2>2, RevisionOf DEF Downloading
  <2>. QED BY <1>2, <2>2, <2>3 DEF DownloadedTrees, Present
<1>4. TreeType' /\ HeadsExist' /\ BranchesBegin'
  BY <1>1, <1>2 DEF Trees, TreeType, HeadsExist, BranchesBegin, Has, Made, Present, HeadOf, BranchOf
<1>5. Trees'
  BY <1>1, <1>2, <1>3, <1>4 DEF Trees, ReadyBranches
<1>6. MemoryType' /\ Boarding'
  BY <1>1, <1>2, BoardingKept DEF MemoryType
<1>. QED BY <1>2, <1>5, <1>6, ToIdle

-----------------------------------------------------------------------------
(* ./build module coreboot                                                  *)

\* The repository of a tree is made; its vboot is next.
LEMMA InitCorebootKeeps ==
  ASSUME IInv, InitCoreboot PROVE IInv'
<1>1. /\ Trees /\ MemoryType /\ Boarding /\ Making /\ at = "init coreboot" /\ revs # {}
  BY DEF IInv, InitCoreboot
<1>2. ASSUME NEW x \in revs,
             board' \in {b \in Boards : Revision[b] = x},
             IF tree[x].repo["coreboot"] = NoRepo /\ ~tree[x].upstream
             THEN tree' = [tree EXCEPT ![x].repo["coreboot"] = NewRepo]
             ELSE UNCHANGED tree,
             revs' = revs \ {x},
             Goto("init vboot"),
             UNCHANGED <<part, todo, clone, config, image>>
      PROVE  IInv'
  <2>1. /\ x \in Revisions /\ Present(x) /\ r' = x /\ board' \in Boards /\ at' = "init vboot"
        /\ UNCHANGED <<part, todo, clone, config, image, outcome, patches, downloaded, ready>>
    BY <1>1, <1>2 DEF Making, Initialised, MemoryType, r, Goto, history
  <2>2. MemoryType' /\ Boarding'
    BY <1>1, <1>2, <2>1, BoardingKept DEF MemoryType
  <2>3. /\ Trees' /\ \A y \in Revisions : Present(y)' <=> Present(y)
        /\ \A y \in Revisions, q \in Parts : Made(y, q) => Made(y, q)'
        /\ tree'[x].upstream \/ Made(x, "coreboot")'
    <3>1. CASE tree[x].repo["coreboot"] = NoRepo /\ ~tree[x].upstream
      <4>1. tree' = WithRepo(x, "coreboot", NewRepo) /\ ~Made(x, "coreboot") /\ "coreboot" \in Parts
        BY <1>2, <3>1 DEF WithRepo, Made, Parts
      <4>. QED BY <1>1, <2>1, <4>1, RepoMade DEF SameFields
    <3>2. CASE ~(tree[x].repo["coreboot"] = NoRepo /\ ~tree[x].upstream)
      <4>1. UNCHANGED <<tree, downloaded, ready>>
        BY <1>2, <2>1, <3>2
      <4>2. Trees'
        BY <1>1, <4>1, TreesUnchanged
      <4>. QED BY <2>1, <3>2, <4>1, <4>2 DEF Made, Present
    <3>. QED BY <3>1, <3>2
  <2>4. todo' = BoardOrder /\ IsInjective(todo') /\ Head(todo') = First /\ ToSet(todo') = Boards
    BY <1>1, <2>1, FirstBoard DEF Making, TodoOrder
  <2>5. TodoOrder'
    BY <2>1, <2>4 DEF TodoOrder, AtModule, AtBoard
  <2>6. Initialised'
    <3>1. \A y \in revs' : Present(y)'
      BY <1>1, <1>2, <2>3 DEF Making, Initialised, MemoryType
    <3>2. \A y \in Revisions :
            Present(y)' => y \in revs' \/ (\A p \in Parts : Made(y, p)') \/ y = r'
      BY <1>1, <1>2, <2>1, <2>3 DEF Making, Initialised, AtModule, AtBoard
    <3>3. Present(r)' /\ (tree'[r'].upstream \/ Made(r, "coreboot")')
      BY <2>1, <2>3 DEF Present, Made
    <3>. QED BY <2>1, <3>1, <3>2, <3>3 DEF Initialised, AtBoard
  <2>7. Progress'
    BY <2>1, <2>4 DEF Progress, AtBoard
  <2>8. OthersAtMaster'
    BY <2>1 DEF OthersAtMaster, AtBoard
  <2>. QED BY <2>1, <2>2, <2>3, <2>5, <2>6, <2>7, <2>8, ToModule DEF Making, AtModule
<1>. QED BY <1>2, AbortsKeeps DEF InitCoreboot

\* The repository of its vboot is made; a tree of which both are is done.
LEMMA InitVbootKeeps ==
  ASSUME IInv, InitVboot PROVE IInv'
<1>1. /\ Trees /\ MemoryType /\ Boarding /\ Making /\ at = "init vboot"
  BY DEF IInv, InitVboot
<1>2. ASSUME IF tree[r].repo["vboot"] = NoRepo /\ ~tree[r].upstream
             THEN tree' = [tree EXCEPT ![r].repo["vboot"] = NewRepo]
             ELSE ~tree[r].upstream /\ UNCHANGED tree,
             Goto("init coreboot"),
             UNCHANGED <<memory, clone, config, image>>
      PROVE  IInv'
  <2>. PICK x \in Revisions : x = r
    BY <1>1, RevisionOf DEF MemoryType, r
  <2>1. /\ Present(x) /\ ~tree[x].upstream /\ Made(x, "coreboot") /\ at' = "init coreboot"
        /\ UNCHANGED <<board, part, todo, revs, clone, config, image, outcome, patches,
          downloaded, ready>>
    BY <1>1, <1>2 DEF Making, Initialised, Present, Made, Goto, memory, history
  <2>2. MemoryType' /\ Boarding'
    BY <1>1, <2>1, BoardingKept DEF MemoryType
  <2>3. /\ Trees' /\ \A y \in Revisions : Present(y)' <=> Present(y)
        /\ \A y \in Revisions, q \in Parts : Made(y, q) => Made(y, q)'
        /\ Made(x, "vboot")'
    <3>1. CASE tree[x].repo["vboot"] = NoRepo
      <4>1. tree' = WithRepo(x, "vboot", NewRepo) /\ ~Made(x, "vboot") /\ "vboot" \in Parts
        BY <1>2, <2>1, <3>1 DEF WithRepo, Made, Parts
      <4>. QED BY <1>1, <2>1, <4>1, RepoMade DEF SameFields
    <3>2. CASE tree[x].repo["vboot"] # NoRepo
      <4>1. UNCHANGED <<tree, downloaded, ready>>
        BY <1>2, <2>1, <3>2
      <4>2. Trees'
        BY <1>1, <4>1, TreesUnchanged
      <4>. QED BY <2>1, <3>2, <4>1, <4>2 DEF Made, Present
    <3>. QED BY <3>1, <3>2
  <2>4. todo' = BoardOrder /\ IsInjective(todo') /\ Head(todo') = First /\ ToSet(todo') = Boards
    BY <1>1, <2>1, FirstBoard DEF Making, TodoOrder
  <2>5. TodoOrder'
    BY <2>1, <2>4 DEF TodoOrder, AtModule, AtBoard
  <2>6. Initialised'
    <3>1. \A y \in revs' : Present(y)'
      BY <1>1, <2>1, <2>3 DEF Making, Initialised, MemoryType
    <3>2. \A y \in Revisions :
            Present(y)' => y \in revs' \/ (\A p \in Parts : Made(y, p)')
      BY <1>1, <2>1, <2>3 DEF Making, Initialised, AtModule, AtBoard, Parts
    <3>. QED BY <2>1, <3>1, <3>2 DEF Initialised, AtBoard
  <2>7. Progress'
    BY <2>1, <2>4 DEF Progress, AtBoard
  <2>8. OthersAtMaster'
    BY <2>1, <2>4, FirstBoard DEF OthersAtMaster, AtBoard
  <2>. QED BY <2>1, <2>2, <2>3, <2>5, <2>6, <2>7, <2>8, ToModule DEF Making, AtModule
<1>. QED BY <1>2, AbortsKeeps DEF InitVboot

\* Branches that are left alone are as much the board's own as they were.
LEMMA MakingTrees ==
  ASSUME UNCHANGED <<tree, patches>>
  PROVE  \A b \in Boards, p \in Parts : Own(b, p)' <=> Own(b, p)
BY DEF Own, Has, Made, Present, BranchOf

\* The next board of the list.
LEMMA NextBoardKeeps ==
  ASSUME IInv, NextBoard PROVE IInv'
<1>1. /\ Trees /\ MemoryType /\ Boarding /\ Making /\ at = "init coreboot"
      /\ revs = {} /\ todo # << >>
  BY DEF IInv, NextBoard
<1>2. CASE clone \/ tree[Revision[Head(todo)]] = NoTree
  BY <1>2, AbortsKeeps DEF NextBoard
<1>3. CASE ~(clone \/ tree[Revision[Head(todo)]] = NoTree)
  <2>1. /\ Head(todo) \in Boards /\ Tail(todo) \in Seq(Boards)
        /\ ToSet(todo) = {Head(todo)} \cup ToSet(Tail(todo))
        /\ IsInjective(Tail(todo)) /\ Head(todo) \notin ToSet(Tail(todo))
        /\ First \in ToSet(todo) => Head(todo) = First
    BY <1>1, TakeFirst DEF MemoryType, Making, TodoOrder, AtModule
  <2>2. /\ board' = Head(todo) /\ todo' = Tail(todo) /\ part' = "coreboot" /\ at' = "create branch"
        /\ UNCHANGED <<revs, tree, clone, config, image, outcome, patches, downloaded, ready>>
    BY <1>3 DEF NextBoard, Goto, history
  <2>3. Present(r)' /\ r' \in Revisions
    BY <1>3, <2>1, <2>2, RevisionOf DEF Present, r
  <2>4. Trees'
    BY <1>1, <2>2, TreesUnchanged
  <2>5. MemoryType' /\ Boarding'
    BY <1>1, <2>1, <2>2, BoardingKept DEF MemoryType, Parts
  <2>6. First \notin ToSet(todo') /\ board' \notin ToSet(todo') /\ IsInjective(todo')
    BY <2>1, <2>2
  <2>7. TodoOrder'
    BY <1>1, <2>2, <2>6 DEF TodoOrder, AtModule, AtBoard
  <2>8. Initialised'
    <3>1. \A y \in Revisions : Present(y)' => \A p \in Parts : Made(y, p)'
      BY <1>1, <2>2 DEF Making, Initialised, AtModule, AtBoard, Present, Made
    <3>. QED BY <1>1, <2>2, <2>3, <3>1 DEF Initialised
  <2>9. Progress'
    <3>1. \A b \in Boards \ ToSet(todo'), p \in Parts : b = board' \/ Own(b, p)'
      <4>1. \A b \in Boards \ ToSet(todo'), p \in Parts : b = board' \/ Own(b, p)
        BY <1>1, <2>1, <2>2 DEF Making, Progress, AtModule, AtBoard
      <4>. QED BY <2>2, <4>1, MakingTrees
    <3>. QED BY <2>2, <3>1 DEF Progress, AtBoard
  <2>10. OthersAtMaster'
    <3>1. ASSUME board' # First
          PROVE  Masters'
      <4>1. Masters
        BY <1>1, <2>1, <2>2, <3>1 DEF Making, OthersAtMaster
      <4>. QED BY <2>2, <4>1 DEF Masters, Made, Present, HeadOf
    <3>. QED BY <2>2, <3>1 DEF OthersAtMaster, AtBoard
  <2>. QED BY <2>2, <2>4, <2>5, <2>7, <2>8, <2>9, <2>10, ToModule DEF Making, AtModule, AtBoard
<1>. QED BY <1>2, <1>3

\* At a board, every tree that is there has both of its repositories.
LEMMA AtBoardFacts ==
  ASSUME IInv, at \in AtBoard
  PROVE  /\ Trees /\ MemoryType /\ Boarding /\ Making /\ revs = {} /\ r \in Revisions /\ Present(r)
         /\ \A x \in Revisions, p \in Parts : Present(x) => Made(x, p)
         /\ First \notin ToSet(todo) /\ board \notin ToSet(todo) /\ IsInjective(todo)
         /\ \A b \in Boards \ ToSet(todo), p \in Parts : b = board \/ Own(b, p)
         /\ part = "vboot" => Own(board, "coreboot")
<1>1. Trees /\ MemoryType /\ Boarding /\ Making
  BY DEF IInv
<1>2. at \in AtModule \ {"utilities"} /\ at \in AtModule /\ at # "init vboot"
  BY DEF AtModule, AtBoard
<1>3. /\ revs = {} /\ First \notin ToSet(todo) /\ board \notin ToSet(todo) /\ IsInjective(todo)
  BY <1>1, <1>2 DEF Making, TodoOrder
<1>4. r \in Revisions /\ Present(r) /\ \A x \in Revisions, p \in Parts : Present(x) => Made(x, p)
  BY <1>1, <1>2, <1>3, RevisionOf DEF Making, Initialised, MemoryType, r
<1>5. /\ \A b \in Boards \ ToSet(todo), p \in Parts : b = board \/ Own(b, p)
      /\ part = "vboot" => Own(board, "coreboot")
  BY <1>1, <1>2 DEF Making, Progress
<1>. QED BY <1>1, <1>3, <1>4, <1>5

\* The branch of the board is put in the repository, and checked out; everything
\* else there is at master.
GoesOn(value, repo) ==
  /\ at \in AtBoard /\ ~ready
  /\ Branched(r, part, board, value, repo) /\ tree' = WithRepo(r, part, repo)
  /\ Has(First, "coreboot") \/ (part = "coreboot" /\ board = First)
  /\ \A x \in Revisions, p \in Parts :
       Made(x, p) /\ ~(x = r /\ p = part) => HeadOf(x, p) = "master"
  /\ UNCHANGED <<board, part, todo, revs, clone, config, image, outcome, patches, downloaded,
    ready>>
  /\ at' \in AtBoard \ {"create branch"}
  /\ at' = "patch" => value = {}
  /\ at' = "patching" => value = {board, "half"}
  /\ at' = "back to master" => value = {board}

\* Then the work on this board goes on.
LEMMA BoardGoesOn ==
  ASSUME IInv, NEW value, NEW repo, GoesOn(value, repo) PROVE IInv'
<1>1. /\ Trees /\ MemoryType /\ Boarding /\ Making /\ revs = {} /\ r \in Revisions /\ Present(r)
      /\ \A x \in Revisions, p \in Parts : Present(x) => Made(x, p)
      /\ First \notin ToSet(todo) /\ board \notin ToSet(todo) /\ IsInjective(todo)
      /\ \A b \in Boards \ ToSet(todo), p \in Parts : b = board \/ Own(b, p)
      /\ part = "vboot" => Own(board, "coreboot")
  BY AtBoardFacts DEF GoesOn
<1>. PICK x \in Revisions, p \in Parts, c \in Boards : x = r /\ p = part /\ c = board
  BY <1>1 DEF MemoryType
<1>2. /\ x = Revision[c] /\ Made(x, p) /\ r' = x /\ part' = p /\ board' = c
      /\ tree' = WithRepo(x, p, repo) /\ Branched(x, p, c, value, repo)
      /\ todo' = todo /\ revs' = revs /\ patches' = patches
  BY <1>1 DEF r, GoesOn
<1>3. /\ Has(First, "coreboot") \/ (x = Revision[First] /\ p = "coreboot" /\ c = First)
      /\ UNCHANGED <<downloaded, ready>> /\ ~ready /\ ~ready'
      /\ \A y \in Revisions, q \in Parts : Made(y, q) /\ (y # x \/ q # p) => HeadOf(y, q) = "master"
      /\ at' \in AtBoard \ {"create branch"}
      /\ at' = "patch" => value = {}
      /\ at' = "patching" => value = {c, "half"}
      /\ at' = "back to master" => value = {c}
  BY <1>2 DEF GoesOn
<1>4. /\ Trees' /\ SameFields
      /\ HeadOf(x, p)' = c /\ BranchOf(x, p, c)' = value
      /\ \A y \in Revisions, q \in Parts : Made(y, q)' <=> Made(y, q)
      /\ \A y \in Revisions, q \in Parts : Made(y, q) /\ (y # x \/ q # p) =>
           HeadOf(y, q)' = HeadOf(y, q)
      /\ \A y \in Revisions, q \in Parts, b \in Boards :
           Made(y, q) /\ (y # x \/ q # p \/ b # c) => BranchOf(y, q, b)' = BranchOf(y, q, b)
  <2>1. /\ Trees /\ ~ready /\ Made(x, p) /\ Branched(x, p, c, value, repo)
        /\ Has(First, "coreboot") \/ (x = Revision[First] /\ p = "coreboot" /\ c = First)
        /\ tree' = WithRepo(x, p, repo) /\ UNCHANGED <<downloaded, ready>>
    BY <1>1, <1>2, <1>3
  <2>2. BranchIsPut(x, p, c, value)
    BY <2>1, BranchPut
  <2>. QED BY <2>2 DEF BranchIsPut
<1>5. MemoryType' /\ Boarding'
  BY <1>1, BoardingKept DEF MemoryType, GoesOn
<1>6. TodoOrder'
  <2>1. at' \in AtBoard /\ at' \notin {"init coreboot", "init vboot", "utilities"}
    BY <1>3 DEF AtBoard
  <2>2. First \notin ToSet(todo') /\ board' \notin ToSet(todo') /\ IsInjective(todo') /\ revs' = {}
    BY <1>1, <1>2
  <2>. QED BY <2>1, <2>2 DEF TodoOrder
<1>7. Present(x)' /\ Made(x, p)' /\ \A y \in Revisions, q \in Parts : Present(y)' => Made(y, q)'
  BY <1>1, <1>2, <1>4 DEF SameFields
<1>8. Initialised'
  <2>1. at' \notin {"init coreboot", "init vboot"}
    BY <1>3 DEF AtBoard
  <2>2. Present(r)'
    BY <1>2, <1>7 DEF Present
  <2>. QED BY <1>7, <2>1, <2>2 DEF Initialised
<1>9. \A b \in Boards, q \in Parts : (b # c \/ q # p) /\ Own(b, q) => Own(b, q)'
  <2>. SUFFICES ASSUME NEW b \in Boards, NEW q \in Parts, b # c \/ q # p, Own(b, q)
                PROVE  Own(b, q)'
    OBVIOUS
  <2>1. Made(Revision[b], q) /\ Revision[b] \in Revisions
    BY RevisionOf DEF Own, Has
  <2>2. Made(Revision[b], q)' /\ BranchOf(Revision[b], q, b)' = BranchOf(Revision[b], q, b)
    BY <1>4, <2>1
  <2>. QED BY <1>2, <2>2 DEF Own, Has
<1>10. Has(c, p)' /\ BranchOf(Revision[c], p, c)' = value
  <2>1. value # NoBranch
    <3>1. "no branch" \notin value /\ "no branch" \in NoBranch
      BY TreesAssumption, <1>2 DEF Branched, Patched, NoBranch
    <3>. QED BY <3>1
  <2>. QED BY <1>2, <1>4, <1>7, <2>1 DEF Has
<1>11. Progress'
  <2>1. \A b \in Boards \ ToSet(todo'), q \in Parts : b = board' \/ Own(b, q)'
    BY <1>1, <1>2, <1>9
  <2>2. part' = "vboot" => Own(c, "coreboot")'
    BY <1>1, <1>2, <1>9 DEF Parts
  <2>3. HeadOf(r, part)' = board' /\ BranchOf(r, part, board)' = value
    BY <1>2, <1>4 DEF HeadOf, BranchOf
  <2>4. at' = "back to master" => Own(c, p)'
    BY <1>2, <1>3, <1>10 DEF Own
  <2>5. at' # "utilities" /\ at' # "create branch" /\ at' \in AtBoard
    BY <1>3 DEF AtBoard
  <2>6. Own(board, part)' <=> Own(c, p)'
    BY <1>2 DEF Own, Has, Made, Present, BranchOf
  <2>7. Own(board, "coreboot")' <=> Own(c, "coreboot")'
    BY <1>2 DEF Own, Has, Made, Present, BranchOf
  <2>. QED BY <1>2, <1>3, <2>1, <2>2, <2>3, <2>4, <2>5, <2>6, <2>7 DEF Progress
<1>12. OthersAtMaster'
  <2>1. \A y \in Revisions, q \in Parts :
          Made(y, q)' /\ ~(y = r' /\ q = part') => HeadOf(y, q)' = "master"
    <3>. SUFFICES ASSUME NEW y \in Revisions, NEW q \in Parts, Made(y, q)', ~(y = r' /\ q = part')
                  PROVE  HeadOf(y, q)' = "master"
      OBVIOUS
    <3>1. Made(y, q) /\ (y # x \/ q # p)
      BY <1>2, <1>4
    <3>2. HeadOf(y, q)' = HeadOf(y, q)
      BY <1>4, <3>1
    <3>3. HeadOf(y, q) = "master"
      BY <1>3, <3>1
    <3>. QED BY <3>2, <3>3
  <2>. QED BY <1>3, <2>1 DEF OthersAtMaster, AtBoard
<1>. QED BY <1>4, <1>5, <1>6, <1>8, <1>11, <1>12, <1>3, ToModule DEF Making, AtModule

\* As long as the first board has no branch, nothing but master can be checked out.
LEMMA MastersFirst ==
  ASSUME Trees, ~Has(First, "coreboot") PROVE Masters
<1>. SUFFICES ASSUME NEW x \in Revisions, NEW p \in Parts, Made(x, p), HeadOf(x, p) # "master"
              PROVE  FALSE
  BY DEF Masters
<1>1. HeadOf(x, p) \in Boards /\ BranchOf(x, p, HeadOf(x, p)) # NoBranch
  BY RepoFields DEF Trees, HeadsExist
<1>. QED BY <1>1 DEF Trees, BranchesBegin

\* The branch is made from master, so it is without patches.
LEMMA CreateBranchKeeps ==
  ASSUME IInv, CreateBranch PROVE IInv'
<1>1. at = "create branch" /\ at \in AtBoard
  BY DEF CreateBranch, AtBoard
<1>2. /\ Trees /\ MemoryType /\ Making /\ r \in Revisions /\ Present(r)
      /\ \A x \in Revisions, p \in Parts : Present(x) => Made(x, p)
      /\ First \notin ToSet(todo)
      /\ \A b \in Boards \ ToSet(todo), p \in Parts : b = board \/ Own(b, p)
      /\ part = "vboot" => Own(board, "coreboot")
  BY <1>1, AtBoardFacts
<1>3. CASE here.branch[board] # NoBranch
  BY <1>3, AbortsKeeps DEF CreateBranch
<1>4. CASE here.branch[board] = NoBranch
  <2>1. Made(r, part) /\ ~Has(board, part)
    BY <1>2, <1>4 DEF MemoryType, Has, BranchOf, here, r
  <2>2. ~ready
    BY <1>2, <2>1 DEF MemoryType, Trees, ReadyBranches
  <2>3. Has(First, "coreboot") \/ (part = "coreboot" /\ board = First)
    BY <1>2, FirstBoard DEF MemoryType, Parts, Own
  <2>4. Masters
    <3>1. CASE Has(First, "coreboot")
      <4>1. board # First \/ part = "vboot"
        BY <1>2, <2>1, <3>1 DEF MemoryType, Parts
      <4>. QED BY <1>1, <1>2, <4>1 DEF Making, OthersAtMaster
    <3>2. CASE ~Has(First, "coreboot")
      BY <1>2, <3>2, MastersFirst
    <3>. QED BY <3>1, <3>2
  <2>5. Contents(here) = {}
    BY <1>2, <2>1, <2>4 DEF Masters, HeadOf, Contents, here, MemoryType
  <2>6. here \in Repo
    BY <1>2, <2>1, RepoFields DEF Trees, MemoryType, here
  <2>. DEFINE next == [here EXCEPT !.branch[board] = {}, !.head = board]
  <2>7. /\ next \in Repo /\ next.head = board /\ next.branch = [here.branch EXCEPT ![board] = {}]
        /\ {} \in Patched
    BY <1>2, <2>6 DEF Repo, Patched, MemoryType
  <2>8. tree' = WithRepo(r, part, next) /\ Goto("patch") /\ UNCHANGED <<memory, clone, config,
    image>>
    BY <1>4, <2>5 DEF CreateBranch, PutRepo, WithRepo
  <2>9. Branched(r, part, board, {}, next)
    BY <2>7 DEF Branched, here
  <2>. HIDE DEF next
  <2>10. PICK repo : repo = next
    OBVIOUS
  <2>11. GoesOn({}, repo)
    BY <1>1, <2>2, <2>3, <2>4, <2>8, <2>9, <2>10 DEF GoesOn, Masters, Goto, memory, history, AtBoard
  <2>. QED BY <2>11, BoardGoesOn
<1>. QED BY <1>3, <1>4

\* The branch that is checked out is the board's, and there is no other.
LEMMA AtBranchFacts ==
  ASSUME IInv, at \in AtBoard \ {"create branch"}
  PROVE  /\ Made(r, part) /\ here \in Repo /\ here.head = board /\ board \in Boards /\ ~ready
         /\ Has(First, "coreboot") \/ (part = "coreboot" /\ board = First)
         /\ \A x \in Revisions, p \in Parts :
              Made(x, p) /\ ~(x = r /\ p = part) => HeadOf(x, p) = "master"
         /\ here.branch[board] # NoBranch
<1>1. /\ Trees /\ MemoryType /\ Making /\ r \in Revisions /\ Present(r)
      /\ \A x \in Revisions, p \in Parts : Present(x) => Made(x, p)
      /\ First \notin ToSet(todo)
      /\ \A b \in Boards \ ToSet(todo), p \in Parts : b = board \/ Own(b, p)
      /\ part = "vboot" => Own(board, "coreboot")
  BY AtBoardFacts
<1>2. Made(r, part) /\ board \in Boards /\ part \in Parts
  BY <1>1 DEF MemoryType
<1>3. here \in Repo
  BY <1>1, <1>2, RepoFields DEF Trees, here
<1>4. ~ready /\ here.head = board
  BY <1>1 DEF Making, Progress, HeadOf, here
<1>5. Has(First, "coreboot") \/ (part = "coreboot" /\ board = First)
  BY <1>1, <1>2, FirstBoard DEF Parts, Own
<1>6. \A x \in Revisions, p \in Parts :
        Made(x, p) /\ ~(x = r /\ p = part) => HeadOf(x, p) = "master"
  BY <1>1 DEF Making, OthersAtMaster
<1>7. here.branch[board] # NoBranch
  <2>1. HeadOf(r, part) = board /\ board # "master"
    BY <1>2, <1>4, TreesAssumption DEF HeadOf, here
  <2>2. BranchOf(r, part, HeadOf(r, part)) # NoBranch
    BY <1>1, <1>2, <2>1 DEF Trees, HeadsExist
  <2>. QED BY <2>1, <2>2 DEF BranchOf, here
<1>. QED BY <1>2, <1>3, <1>4, <1>5, <1>6, <1>7

\* git am begins, or there is nothing to apply.
LEMMA BeginPatchesKeeps ==
  ASSUME IInv, BeginPatches PROVE IInv'
<1>1. at = "patch" /\ at \in AtBoard /\ at \in AtBoard \ {"create branch"}
  BY DEF BeginPatches, AtBoard
<1>2. /\ Made(r, part) /\ here \in Repo /\ here.head = board /\ board \in Boards /\ ~ready
      /\ Has(First, "coreboot") \/ (part = "coreboot" /\ board = First)
      /\ \A x \in Revisions, p \in Parts :
           Made(x, p) /\ ~(x = r /\ p = part) => HeadOf(x, p) = "master"
  BY <1>1, AtBranchFacts
<1>3. Trees /\ MemoryType /\ Boarding /\ Making /\ here.branch[board] = {}
  BY <1>1 DEF IInv, Making, Progress, BranchOf, here
<1>4. UNCHANGED <<board, part, todo, revs, clone, config, image, outcome, patches, downloaded,
  ready>>
  BY DEF BeginPatches, Goto, memory, history
<1>5. CASE patches
  <2>. DEFINE next == [here EXCEPT !.branch[here.head] = @ \cup {board, "half"}]
  <2>1. /\ next.head = board /\ next.branch = [here.branch EXCEPT ![board] = {board, "half"}]
        /\ next \in Repo /\ {board, "half"} \in Patched
    BY <1>2, <1>3 DEF Repo, Patched
  <2>2. tree' = WithRepo(r, part, next) /\ at' = "patching"
    BY <1>5 DEF BeginPatches, PutRepo, WithRepo, Goto
  <2>3. Branched(r, part, board, {board, "half"}, next)
    BY <2>1 DEF Branched, here
  <2>. HIDE DEF next
  <2>4. PICK repo, value : repo = next /\ value = {board, "half"}
    OBVIOUS
  <2>5. GoesOn(value, repo)
    BY <1>1, <1>2, <1>4, <2>2, <2>3, <2>4 DEF GoesOn, AtBoard
  <2>. QED BY <2>5, BoardGoesOn
<1>6. CASE ~patches
  <2>1. UNCHANGED tree /\ at' = "back to master"
    BY <1>6 DEF BeginPatches, Goto
  <2>2. Trees'
    BY <1>3, <1>4, <2>1, TreesUnchanged
  <2>3. MemoryType' /\ Boarding'
    BY <1>3, <1>4, BoardingKept DEF MemoryType
  <2>4. TodoOrder'
    BY <1>1, <1>3, <1>4, <2>1 DEF Making, TodoOrder, AtModule, AtBoard
  <2>5. Initialised'
    BY <1>1, <1>3, <1>4, <2>1 DEF Making, Initialised, AtModule, AtBoard, Present, Made, r
  <2>6. OthersAtMaster'
    BY <1>2, <1>4, <2>1 DEF OthersAtMaster, AtBoard, Made, Present, HeadOf, r
  <2>7. Progress'
    <3>1. /\ \A b \in Boards \ ToSet(todo), p \in Parts : b = board \/ Own(b, p)
          /\ part = "vboot" => Own(board, "coreboot")
      BY <1>1, AtBoardFacts
    <3>2. Own(board, part)
      BY <1>1, <1>2, <1>6, AtBranchFacts DEF Own, Has, BranchOf, here, r
    <3>3. /\ \A b \in Boards \ ToSet(todo), p \in Parts : b = board' \/ Own(b, p)'
      BY <1>4, <2>1, <3>1, MakingTrees
    <3>4. part' = "vboot" => Own(board, "coreboot")'
      BY <1>4, <2>1, <3>1 DEF Own, Has, Made, Present, BranchOf
    <3>5. Own(board, part)'
      BY <1>4, <2>1, <3>2 DEF Own, Has, Made, Present, BranchOf
    <3>6. HeadOf(r, part)' = board' /\ ~ready'
      BY <1>2, <1>4, <2>1 DEF HeadOf, here, r
    <3>. QED BY <1>4, <2>1, <3>3, <3>4, <3>5, <3>6 DEF Progress, AtBoard
  <2>. QED BY <2>1, <2>2, <2>3, <2>4, <2>5, <2>6, <2>7, ToModule DEF Making, AtModule, AtBoard
<1>. QED BY <1>5, <1>6

\* git am has applied them all.
LEMMA EndPatchesKeeps ==
  ASSUME IInv, EndPatches PROVE IInv'
<1>1. at = "patching" /\ at \in AtBoard /\ at \in AtBoard \ {"create branch"}
  BY DEF EndPatches, AtBoard
<1>2. /\ Made(r, part) /\ here \in Repo /\ here.head = board /\ board \in Boards /\ ~ready
      /\ Has(First, "coreboot") \/ (part = "coreboot" /\ board = First)
      /\ \A x \in Revisions, p \in Parts :
           Made(x, p) /\ ~(x = r /\ p = part) => HeadOf(x, p) = "master"
  BY <1>1, AtBranchFacts
<1>3. here.branch[board] = {board, "half"}
  BY <1>1 DEF IInv, Making, Progress, BranchOf, here
<1>4. {board, "half"} \ {"half"} = {board}
  BY <1>2, TreesAssumption
<1>. DEFINE next == [here EXCEPT !.branch[here.head] = @ \ {"half"}]
<1>5. /\ next.head = board /\ next.branch = [here.branch EXCEPT ![board] = {board}]
      /\ next \in Repo /\ {board} \in Patched
  BY <1>2, <1>3, <1>4 DEF Repo, Patched
<1>6. tree' = WithRepo(r, part, next) /\ at' = "back to master"
  BY DEF EndPatches, PutRepo, WithRepo, Goto
<1>7. UNCHANGED <<board, part, todo, revs, clone, config, image, outcome, patches, downloaded,
  ready>>
  BY DEF EndPatches, Goto, memory, history
<1>8. Branched(r, part, board, {board}, next)
  BY <1>5 DEF Branched, here
<1>. HIDE DEF next
<1>9. PICK repo, value : repo = next /\ value = {board}
  OBVIOUS
<1>10. GoesOn(value, repo)
  BY <1>1, <1>2, <1>6, <1>7, <1>8, <1>9 DEF GoesOn, AtBoard
<1>. QED BY <1>10, BoardGoesOn

\* master is checked out again: in the vboot of the tree the next branch is made,
\* then for the next board.
LEMMA BackToMasterKeeps ==
  ASSUME IInv, BackToMaster PROVE IInv'
<1>1. at = "back to master" /\ at \in AtBoard /\ at \in AtBoard \ {"create branch"}
  BY DEF BackToMaster, AtBoard
<1>2. /\ Trees /\ MemoryType /\ Boarding /\ Making /\ revs = {} /\ r \in Revisions /\ Present(r)
      /\ \A x \in Revisions, p \in Parts : Present(x) => Made(x, p)
      /\ First \notin ToSet(todo) /\ board \notin ToSet(todo) /\ IsInjective(todo)
      /\ \A b \in Boards \ ToSet(todo), p \in Parts : b = board \/ Own(b, p)
      /\ part = "vboot" => Own(board, "coreboot")
  BY <1>1, AtBoardFacts
<1>3. /\ Made(r, part) /\ ~ready /\ Own(board, part)
      /\ \A x \in Revisions, p \in Parts :
           Made(x, p) /\ ~(x = r /\ p = part) => HeadOf(x, p) = "master"
  BY <1>1, <1>2, AtBranchFacts DEF Making, Progress
<1>. PICK x \in Revisions, p \in Parts : x = r /\ p = part
  BY <1>2 DEF MemoryType
<1>4. /\ tree' = WithRepo(x, p, [tree[x].repo[p] EXCEPT !.head = "master"]) /\ Made(x, p)
      /\ UNCHANGED <<board, todo, revs, clone, config, image, outcome, patches, downloaded, ready>>
      /\ r' = x
  BY <1>3 DEF BackToMaster, PutRepo, WithRepo, here, Goto, history, r
<1>5. /\ Trees' /\ SameFields /\ SameBranches
      /\ HeadOf(x, p)' = "master"
      /\ \A y \in Revisions, q \in Parts :
           Made(y, q) /\ (y # x \/ q # p) => HeadOf(y, q)' = HeadOf(y, q)
  <2>1. "master" \in Boards \cup {"master"} /\ UNCHANGED <<downloaded, ready>>
    BY <1>4
  <2>. QED BY <1>2, <1>4, <2>1, HeadPut
<1>6. Masters'
  <2>. SUFFICES ASSUME NEW y \in Revisions, NEW q \in Parts, Made(y, q)'
                PROVE  HeadOf(y, q)' = "master"
    BY DEF Masters
  <2>1. Made(y, q)
    BY <1>5 DEF SameBranches
  <2>. QED BY <1>3, <1>5, <2>1
<1>7. \A b \in Boards, q \in Parts : Own(b, q) => Own(b, q)'
  BY <1>4, <1>5, RevisionOf DEF Own, Has, SameBranches
<1>8. Boarding' /\ part' \in Parts
  BY <1>2, <1>4, BoardingKept DEF BackToMaster, Parts, MemoryType
<1>9. MemoryType'
  BY <1>2, <1>4, <1>8 DEF MemoryType
<1>10. Present(r)' /\ \A y \in Revisions, q \in Parts : Present(y)' => Made(y, q)'
  <2>1. Present(x)'
    BY <1>2, <1>5 DEF SameFields
  <2>. QED BY <1>2, <1>4, <1>5, <2>1 DEF SameFields, SameBranches, Present
<1>11. CASE part = "coreboot"
  <2>1. part' = "vboot" /\ at' = "create branch"
    BY <1>11 DEF BackToMaster, Goto
  <2>2. TodoOrder'
    BY <1>2, <1>4, <2>1 DEF TodoOrder, AtModule, AtBoard
  <2>3. Initialised'
    BY <1>10, <2>1 DEF Initialised
  <2>4. Progress'
    <3>1. Own(board, "coreboot")' /\ \A b \in Boards \ ToSet(todo'),
      q \in Parts : b = board' \/ Own(b, q)'
      <4>1. Own(board, "coreboot") /\ board \in Boards
        BY <1>2, <1>3, <1>11 DEF MemoryType
      <4>2. PICK c \in Boards : c = board
        BY <4>1
      <4>3. Own(c, "coreboot")' /\ board' = c
        BY <1>4, <1>7, <4>1, <4>2 DEF Parts
      <4>4. Own(board, "coreboot")'
        BY <4>3 DEF Own, Has, Made, Present, BranchOf
      <4>. QED BY <1>2, <1>4, <1>7, <4>4
    <3>. QED BY <2>1, <3>1 DEF Progress, AtBoard
  <2>5. OthersAtMaster'
    BY <1>6, <2>1 DEF OthersAtMaster, AtBoard
  <2>. QED BY <1>5, <1>8, <1>9, <2>1, <2>2, <2>3, <2>4, <2>5, ToModule DEF Making, AtModule, AtBoard
<1>12. CASE part # "coreboot"
  <2>1. /\ part = "vboot" /\ at' = IF todo = << >> THEN "utilities" ELSE "init coreboot"
    BY <1>2, <1>12 DEF BackToMaster, Goto, MemoryType, Parts
  <2>2. TodoOrder'
    BY <1>2, <1>4, <2>1 DEF TodoOrder, AtModule, AtBoard
  <2>3. Initialised'
    BY <1>2, <1>4, <1>10, <2>1 DEF Initialised, AtBoard
  <2>4. Progress'
    <3>1. \A q \in Parts : Own(board, q)
      BY <1>2, <1>3, <2>1 DEF Parts
    <3>2. \A b \in Boards \ ToSet(todo), q \in Parts : Own(b, q)'
      BY <1>2, <1>7, <3>1
    <3>. QED BY <1>3, <1>4, <2>1, <3>2 DEF Progress, AtBoard
  <2>5. OthersAtMaster'
    BY <1>6, <2>1 DEF OthersAtMaster, AtBoard
  <2>. QED BY <1>5, <1>8, <1>9, <2>1, <2>2, <2>3, <2>4, <2>5, ToModule DEF Making, AtModule, AtBoard
<1>. QED BY <1>11, <1>12

\* The utilities and the .config files have no part in what holds of the trees.
LEMMA TreesMapped ==
  ASSUME Trees, NEW t \in BOOLEAN, NEW same \in BOOLEAN,
         tree' = [x \in Revisions |->
                    IF tree[x] = NoTree THEN NoTree
                    ELSE [tree[x] EXCEPT !.tools = t, !.config = IF same THEN @ ELSE Nobody]]
  PROVE  TreeType' /\ HeadsExist' /\ SameFields /\ SameRepos
<1>1. ASSUME NEW x \in Revisions, Present(x)
      PROVE  /\ tree'[x] \in Tree /\ Present(x)'
             /\ tree'[x].reset = tree[x].reset /\ tree'[x].upstream = tree[x].upstream
             /\ tree'[x].blobs = tree[x].blobs /\ tree'[x].repo = tree[x].repo
  <2>1. tree[x] \in Tree
    BY <1>1, TreeFields DEF Trees
  <2>2. tree'[x] = [tree[x] EXCEPT !.tools = t, !.config = IF same THEN @ ELSE Nobody]
    BY <1>1 DEF Present
  <2>. QED BY <2>1, <2>2 DEF Tree, Present, NoTree
<1>2. \A x \in Revisions : ~Present(x) => tree'[x] = NoTree /\ ~Present(x)'
  BY DEF Present
<1>3. TreeType'
  <2>1. tree' = [x \in Revisions |-> tree'[x]]
    OBVIOUS
  <2>2. \A x \in Revisions : tree'[x] \in Tree \cup {NoTree}
    BY <1>1, <1>2
  <2>. QED BY <2>1, <2>2 DEF TreeType
<1>4. SameFields /\ SameRepos
  BY <1>1, <1>2 DEF SameFields, SameRepos
<1>. QED BY <1>3, <1>4, ReposKept, HeadsKept

\* The module exits 0: every board has its branches, with its patches if there
\* are any.
LEMMA BuildUtilitiesKeeps ==
  ASSUME IInv, BuildUtilities PROVE IInv'
<1>1. Trees /\ MemoryType /\ Boarding /\ Making /\ at = "utilities"
  BY DEF IInv, BuildUtilities
<1>2. /\ at' = "idle" /\ todo' = << >> /\ revs' = {} /\ outcome' = "ok"
      /\ ready' = (downloaded /\ patches)
      /\ UNCHANGED <<board, part, clone, config, image, patches, downloaded>>
  BY DEF BuildUtilities, Succeeds, Ends
<1>3. TreeType' /\ HeadsExist' /\ SameFields /\ SameRepos
  <2>1. tree' = [x \in Revisions |->
                   IF tree[x] = NoTree THEN NoTree
                   ELSE [tree[x] EXCEPT !.tools = TRUE, !.config = IF TRUE THEN @ ELSE Nobody]]
    <3>1. \A x \in Revisions : tree[x] # NoTree =>
            [tree[x] EXCEPT !.tools = TRUE]
              = [tree[x] EXCEPT !.tools = TRUE, !.config = IF TRUE THEN @ ELSE Nobody]
      BY <1>1 DEF Trees, TreeType, Tree
    <3>. QED BY <3>1 DEF BuildUtilities
  <2>. QED BY <1>1, <2>1, TreesMapped
<1>4. SameBranches
  BY <1>3, ReposKept
<1>5. BranchesBegin'
  BY <1>1, <1>4, FirstBoard, RevisionOf DEF Trees, BranchesBegin, Has, SameBranches, Parts
<1>6. DownloadedTrees'
  BY <1>1, <1>2, <1>3, RevisionOf DEF Trees, DownloadedTrees, SameFields, Present
<1>7. ReadyBranches'
  <2>1. \A b \in Boards, p \in Parts : Own(b, p)
    BY <1>1 DEF Making, TodoOrder, Progress, AtModule, AtBoard, ToSet
  <2>2. \A b \in Boards, p \in Parts : Own(b, p)'
    BY <1>2, <1>4, <2>1, RevisionOf DEF Own, Has, SameBranches
  <2>3. ready' => downloaded' /\ patches'
    BY <1>2
  <2>. QED BY <2>2, <2>3 DEF ReadyBranches, Own
<1>8. MemoryType'
  <2>1. ready' \in BOOLEAN
    BY <1>1, <1>2 DEF MemoryType
  <2>. QED BY <1>1, <1>2, <2>1 DEF MemoryType
<1>9. Boarding'
  BY <1>1, <1>2, BoardingKept
<1>. QED BY <1>2, <1>3, <1>5, <1>6, <1>7, <1>8, <1>9, ToIdle DEF Trees

\* What ./build clean coreboot does to the trees.
LEMMA CleanedTrees ==
  ASSUME Trees, tree' = Cleaned, UNCHANGED <<downloaded, ready>> PROVE Trees'
<1>1. tree' = [x \in Revisions |->
                 IF tree[x] = NoTree THEN NoTree
                 ELSE [tree[x] EXCEPT !.tools = FALSE, !.config = IF FALSE THEN @ ELSE Nobody]]
  BY DEF Cleaned
<1>2. TreeType' /\ HeadsExist' /\ SameFields /\ SameRepos
  BY <1>1, TreesMapped
<1>. QED BY <1>2, ReposKept, TreesKept

\* ./build clean coreboot
LEMMA CleanKeeps ==
  ASSUME IInv, Clean PROVE IInv'
<1>1. Trees /\ MemoryType /\ Boarding
  BY DEF IInv
<1>2. CASE ~Cleanable
  BY <1>2, AbortsKeeps DEF Clean
<1>3. CASE Cleanable
  <2>1. tree' = Cleaned /\ Ends("ok") /\ UNCHANGED <<clone, config, image, downloaded, ready>>
    BY <1>3 DEF Clean, Succeeds
  <2>2. Trees'
    BY <1>1, <2>1, CleanedTrees
  <2>3. MemoryType' /\ Boarding'
    BY <1>1, <2>1, BoardingKept DEF MemoryType, Ends
  <2>. QED BY <2>1, <2>2, <2>3, ToIdle DEF Ends
<1>. QED BY <1>2, <1>3

\* The user goes on in an unpacked _src archive.
LEMMA UnpackSourceKeeps ==
  ASSUME IInv, UnpackSource PROVE IInv'
<1>1. Trees /\ MemoryType /\ Boarding
  BY DEF IInv
<1>2. Trees' /\ at' = "idle"
  BY <1>1, CleanedTrees DEF UnpackSource, history
<1>3. MemoryType'
  BY <1>1 DEF MemoryType, UnpackSource, memory, history
<1>4. Boarding'
  BY <1>1 DEF Boarding, ConfigType, ImageType, ImagesAreOwn, UnpackSource
<1>. QED BY <1>2, <1>3, <1>4, ToIdle

-----------------------------------------------------------------------------
(* ./build roms and ./build config, for one board.                          *)

\* The user starts a script.
LEMMA StartKeeps ==
  ASSUME IInv, NEW s \in {"download", "module", "clean", "build", "update", "replace"},
         NEW b \in Boards, Start(s, b)
  PROVE  IInv'
<1>1. Trees /\ MemoryType /\ Boarding
  BY DEF IInv
<1>2. /\ at' = FirstStep(s, b) /\ script' = s /\ board' = b /\ part' = "coreboot"
      /\ todo' = BoardOrder /\ revs' = {x \in Revisions : tree[x] # NoTree} /\ outcome' = "running"
      /\ UNCHANGED <<tree, clone, config, image, patches, downloaded, ready>>
  BY DEF Start, history
<1>3. Trees'
  BY <1>1, <1>2, TreesUnchanged
<1>4. MemoryType' /\ Boarding'
  BY <1>1, <1>2, BoardingKept, FirstBoard DEF MemoryType, Parts
<1>5. CASE s = "download"
  <2>1. at' = "delete"
    BY <1>2, <1>5 DEF FirstStep
  <2>2. Downloading'
    BY <1>2, <2>1 DEF Downloading, AtDownload
  <2>. QED BY <1>3, <1>4, <2>1, <2>2, ToDownload
<1>6. CASE s = "module"
  <2>1. at' = "init coreboot"
    BY <1>2, <1>6 DEF FirstStep
  <2>2. /\ IsInjective(todo') /\ Head(todo') = First /\ ToSet(todo') = Boards /\ First \in Boards
    BY <1>2, FirstBoard
  <2>3. TodoOrder'
    BY <1>2, <2>1, <2>2 DEF TodoOrder, AtModule, AtBoard
  <2>4. Initialised'
    BY <1>2, <2>1 DEF Initialised, AtModule, AtBoard, Present
  <2>5. Progress'
    BY <2>1, <2>2 DEF Progress, AtModule, AtBoard
  <2>6. OthersAtMaster'
    BY <2>1, <2>2 DEF OthersAtMaster, AtBoard
  <2>. QED BY <1>3, <1>4, <2>1, <2>3, <2>4, <2>5, <2>6, ToModule DEF Making, AtModule
<1>7. CASE s = "clean"
  <2>1. at' = "clean"
    BY <1>2, <1>7 DEF FirstStep
  <2>. QED BY <1>3, <1>4, <2>1, ToIdle
<1>8. CASE s \in {"build", "update", "replace"}
  <2>1. CASE s = "build" /\ config[b] = Nobody
    <3>1. at' = "pass over"
      BY <1>2, <2>1 DEF FirstStep
    <3>. QED BY <1>3, <1>4, <3>1, ToIdle
  <2>2. CASE ~(s = "build" /\ config[b] = Nobody)
    <3>1. at' = "checkout"
      BY <1>2, <1>8, <2>2 DEF FirstStep
    <3>2. CheckedOut'
      BY <1>2, <1>8, <3>1 DEF CheckedOut, AtTree
    <3>. QED BY <1>3, <1>4, <3>1, <3>2, ToBoard
  <2>. QED BY <2>1, <2>2
<1>. QED BY <1>5, <1>6, <1>7, <1>8

\* A board without config is passed over.
LEMMA PassOverKeeps ==
  ASSUME IInv, PassOver PROVE IInv'
<1>1. Trees /\ MemoryType /\ Boarding
  BY DEF IInv
<1>2. /\ at' = "idle" /\ todo' = << >> /\ revs' = {} /\ outcome' = "ok"
      /\ UNCHANGED <<board, part, tree, clone, config, image, patches, downloaded, ready>>
  BY DEF PassOver, Succeeds, Ends
<1>3. Trees'
  BY <1>1, <1>2, TreesUnchanged
<1>4. MemoryType' /\ Boarding'
  BY <1>1, <1>2, BoardingKept DEF MemoryType
<1>. QED BY <1>2, <1>3, <1>4, ToIdle

\* The board's branch is checked out, in coreboot and then in vboot.
LEMMA CheckoutKeeps ==
  ASSUME IInv, Checkout PROVE IInv'
<1>1. Trees /\ MemoryType /\ Boarding /\ CheckedOut /\ at = "checkout"
  BY DEF IInv, Checkout
<1>2. CASE tree[r] = NoTree \/ here = NoRepo \/ here.branch[board] = NoBranch
  BY <1>2, AbortsKeeps DEF Checkout
<1>3. CASE ~(tree[r] = NoTree \/ here = NoRepo \/ here.branch[board] = NoBranch)
  <2>. PICK x \in Revisions, p \in Parts, c \in Boards : x = r /\ p = part /\ c = board
    BY <1>1, RevisionOf DEF MemoryType, r
  <2>1. /\ tree' = WithRepo(x, p, [tree[x].repo[p] EXCEPT !.head = c])
        /\ part' = "vboot" /\ at' = NextStep /\ r' = x /\ board' = c
        /\ UNCHANGED <<script, todo, revs, clone, config, image, outcome, patches, downloaded,
          ready>>
    BY <1>3 DEF Checkout, PutRepo, WithRepo, here, Goto, history, r
  <2>2. Made(x, p) /\ BranchOf(x, p, c) # NoBranch
    BY <1>3 DEF Made, Present, BranchOf, here
  <2>3. /\ Trees' /\ SameFields /\ SameBranches
        /\ HeadOf(x, p)' = c
        /\ \A y \in Revisions, q \in Parts :
             Made(y, q) /\ (y # x \/ q # p) => HeadOf(y, q)' = HeadOf(y, q)
    <3>1. c \in Boards \cup {"master"} /\ UNCHANGED <<downloaded, ready>>
      BY <2>1
    <3>. QED BY <1>1, <2>1, <2>2, <3>1, HeadPut
  <2>4. MemoryType' /\ Boarding'
    BY <1>1, <2>1, BoardingKept DEF MemoryType, Parts
  <2>5. Made(x, p)'
    BY <2>2, <2>3 DEF SameBranches
  <2>6. CASE p = "coreboot"
    <3>1. at' = "checkout"
      BY <2>1, <2>6 DEF NextStep
    <3>2. Made(r, "coreboot")' /\ HeadOf(r, "coreboot")' = board'
      BY <2>1, <2>3, <2>5, <2>6 DEF Made, Present, HeadOf
    <3>3. CheckedOut'
      BY <1>1, <2>1, <3>1, <3>2 DEF CheckedOut, AtTree
    <3>. QED BY <2>3, <2>4, <3>1, <3>3, ToBoard
  <2>7. CASE p = "vboot"
    <3>1. Made(x, "coreboot") /\ HeadOf(x, "coreboot") = c
      BY <1>1, <2>7 DEF CheckedOut, Made, Present, HeadOf
    <3>2. Made(x, "coreboot")' /\ HeadOf(x, "coreboot")' = c
      BY <2>3, <2>7, <3>1 DEF SameBranches, Parts
    <3>3. \A q \in Parts : Made(r, q)' /\ HeadOf(r, q)' = board'
      <4>1. \A q \in Parts : Made(x, q)' /\ HeadOf(x, q)' = c
        BY <2>3, <2>5, <2>7, <3>2 DEF Parts
      <4>. QED BY <2>1, <4>1 DEF Made, Present, HeadOf
    <3>4. at' \in {"configure", "take config", "menuconfig"}
      BY <1>1, <2>1, <2>7 DEF CheckedOut, NextStep
    <3>5. CheckedOut'
      BY <2>1, <3>3, <3>4 DEF CheckedOut, AtTree
    <3>. QED BY <2>3, <2>4, <3>4, <3>5, ToBoard DEF AtTree
  <2>. QED BY <2>6, <2>7 DEF Parts
<1>. QED BY <1>2, <1>3

\* A .config is put into the tree of the board, whose branches stay checked out.
LEMMA ConfigPutHere ==
  ASSUME IInv, at \in AtTree, NEW c \in Boards \cup {Nobody}, tree' = WithConfig(r, c),
         UNCHANGED <<board, downloaded, ready>>
  PROVE  /\ Trees' /\ tree'[r'].config = c
         /\ \A p \in Parts : Made(r, p)' /\ HeadOf(r, p)' = board'
<1>1. Trees /\ MemoryType /\ CheckedOut
  BY DEF IInv
<1>. PICK x \in Revisions : x = r
  BY <1>1, RevisionOf DEF MemoryType, r
<1>2. \A p \in Parts : Made(x, p) /\ HeadOf(x, p) = board
  BY <1>1 DEF CheckedOut, Made, Present, HeadOf
<1>3. Present(x) /\ tree' = WithConfig(x, c) /\ UNCHANGED <<downloaded, ready>> /\ r' = x
  BY <1>2 DEF Made, Parts, r
<1>4. Trees' /\ SameFields /\ SameBranches /\ SameHeads /\ tree'[x].config = c
  BY <1>1, <1>3, ConfigPut
<1>5. \A p \in Parts : Made(x, p)' /\ HeadOf(x, p)' = board'
  BY <1>2, <1>4 DEF SameBranches, SameHeads
<1>. QED BY <1>3, <1>4, <1>5 DEF Made, Present, HeadOf

\* The board's config is copied to .config.
LEMMA ConfigureKeeps ==
  ASSUME IInv, Configure PROVE IInv'
<1>1. /\ Trees /\ MemoryType /\ Boarding /\ CheckedOut /\ at = "configure" /\ at \in AtTree
      /\ part = "vboot" /\ config[board] \in Boards \cup {Nobody}
  BY DEF IInv, Configure, AtTree, CheckedOut, MemoryType, Boarding, ConfigType
<1>2. /\ tree' = WithConfig(r, config[board]) /\ at' = "make"
      /\ UNCHANGED <<board, part, todo, revs, clone, config, image, outcome, patches, downloaded,
        ready>>
  BY <1>1 DEF Configure, WithConfig, Goto, memory, history
<1>. PICK c \in Boards \cup {Nobody} : c = config[board]
  BY <1>1
<1>3. Trees' /\ tree'[r'].config = c /\ \A p \in Parts : Made(r, p)' /\ HeadOf(r, p)' = board'
  <2>1. tree' = WithConfig(r, c) /\ c \in Boards \cup {Nobody} /\ UNCHANGED <<board, downloaded,
    ready>>
    BY <1>2
  <2>. QED BY <1>1, <2>1, ConfigPutHere
<1>4. MemoryType' /\ Boarding'
  BY <1>1, <1>2, BoardingKept DEF MemoryType
<1>5. CheckedOut'
  BY <1>1, <1>2, <1>3 DEF CheckedOut, AtTree
<1>. QED BY <1>2, <1>3, <1>4, <1>5, ToBoard DEF AtTree

\* The image is built from what is checked out, which is the board's.
LEMMA MakeImageKeeps ==
  ASSUME IInv, MakeImage PROVE IInv'
<1>1. /\ Trees /\ MemoryType /\ Boarding /\ CheckedOut /\ at = "make"
      /\ part = "vboot" /\ board \in Boards /\ r \in Revisions
      /\ \A p \in Parts : Made(r, p) /\ HeadOf(r, p) = board
  BY RevisionOf DEF IInv, MakeImage, AtTree, CheckedOut, MemoryType, r
<1>2. CASE ~tree[r].tools
  BY <1>2, AbortsKeeps DEF MakeImage
<1>3. CASE tree[r].tools
  <2>. DEFINE built ==
         [kind |-> "image", coreboot |-> Contents(tree[r].repo["coreboot"]),
          vboot |-> Contents(tree[r].repo["vboot"]), blobs |-> tree[r].blobs,
          config |-> tree[r].config, ready |-> ready]
  <2>1. /\ image' = [image EXCEPT ![board] = built] /\ at' = "remove .config"
        /\ UNCHANGED <<board, part, todo, revs, tree, clone, config, outcome, patches,
          downloaded, ready>>
    BY <1>3 DEF MakeImage, Goto, memory, history
  <2>2. Trees' /\ MemoryType'
    BY <1>1, <2>1, TreesUnchanged DEF MemoryType
  <2>3. board # "master"
    BY <1>1, TreesAssumption
  <2>4. /\ Contents(tree[r].repo["coreboot"]) = BranchOf(r, "coreboot", board)
        /\ Contents(tree[r].repo["vboot"]) = BranchOf(r, "vboot", board)
    BY <1>1, <2>3 DEF Contents, HeadOf, BranchOf, Parts
  <2>5. /\ BranchOf(r, "coreboot", board) \in Patched \cup {NoBranch}
        /\ BranchOf(r, "vboot", board) \in Patched \cup {NoBranch}
    BY <1>1, RepoFields DEF Trees, Parts
  <2>6. tree[r].blobs \in BOOLEAN /\ tree[r].config \in Boards \cup {Nobody} /\ ready \in BOOLEAN
    BY <1>1, TreeFields DEF Trees, MemoryType, Made, Parts
  <2>7. built \in Image
    BY <1>1, <2>4, <2>5, <2>6 DEF Image
  <2>8. ready => built.coreboot = {board} /\ built.vboot = {board} /\ ~built.blobs
    <3>. SUFFICES ASSUME ready
                  PROVE  built.coreboot = {board} /\ built.vboot = {board} /\ ~built.blobs
      OBVIOUS
    <3>1. \A p \in Parts : BranchOf(r, p, board) = {board}
      BY <1>1 DEF Trees, ReadyBranches, r
    <3>2. ~tree[r].blobs
      BY <1>1 DEF Trees, ReadyBranches, DownloadedTrees, r
    <3>. QED BY <1>1, <2>4, <3>1, <3>2 DEF Parts
  <2>9. built.ready = ready
    OBVIOUS
  <2>. HIDE DEF built
  <2>10. ImageType'
    BY <1>1, <2>1, <2>7 DEF Boarding, ImageType
  <2>11. ImagesAreOwn'
    <3>. SUFFICES ASSUME NEW b \in Boards, image'[b] # NoImage, image'[b].ready
                  PROVE  /\ image'[b].coreboot = {b} /\ image'[b].vboot = {b}
                         /\ ~image'[b].blobs
      BY DEF ImagesAreOwn
    <3>1. CASE b = board
      BY <1>1, <2>1, <2>8, <2>9, <3>1 DEF Boarding, ImageType
    <3>2. CASE b # board
      BY <1>1, <2>1, <3>2 DEF Boarding, ImageType, ImagesAreOwn
    <3>. QED BY <3>1, <3>2
  <2>12. Boarding'
    BY <1>1, <2>1, <2>10, <2>11 DEF Boarding, ConfigType
  <2>13. CheckedOut'
    <3>1. \A p \in Parts : Made(r, p)' /\ HeadOf(r, p)' = board'
      BY <1>1, <2>1 DEF Made, Present, HeadOf, r
    <3>. QED BY <1>1, <2>1, <3>1 DEF CheckedOut, AtTree
  <2>. QED BY <2>1, <2>2, <2>12, <2>13, ToBoard DEF AtTree
<1>. QED BY <1>2, <1>3

\* .config is deleted.
LEMMA RemoveConfigKeeps ==
  ASSUME IInv, RemoveConfig PROVE IInv'
<1>1. Trees /\ MemoryType /\ Boarding /\ at \in AtTree
  BY DEF IInv, RemoveConfig, AtTree
<1>2. /\ tree' = WithConfig(r, Nobody) /\ at' = "leave" /\ part' = "coreboot"
      /\ UNCHANGED <<board, todo, revs, clone, config, image, outcome, patches, downloaded, ready>>
  BY DEF RemoveConfig, WithConfig, Goto, history
<1>3. Trees' /\ \A p \in Parts : Made(r, p)'
  <2>1. Nobody \in Boards \cup {Nobody} /\ UNCHANGED <<board, downloaded, ready>>
    BY <1>2
  <2>. QED BY <1>1, <1>2, <2>1, ConfigPutHere
<1>4. MemoryType' /\ Boarding'
  BY <1>1, <1>2, BoardingKept DEF MemoryType, Parts
<1>5. CheckedOut'
  BY <1>2, <1>3 DEF CheckedOut, AtTree
<1>. QED BY <1>2, <1>3, <1>4, <1>5, ToBoard

\* The board's config is moved to .config.
LEMMA TakeConfigKeeps ==
  ASSUME IInv, TakeConfig PROVE IInv'
<1>1. Trees /\ MemoryType /\ Boarding /\ CheckedOut /\ at = "take config" /\ at \in AtTree
      /\ part = "vboot" /\ board \in Boards
  BY DEF IInv, TakeConfig, AtTree, CheckedOut, MemoryType
<1>2. CASE config[board] = Nobody
  BY <1>2, AbortsKeeps DEF TakeConfig
<1>3. CASE config[board] # Nobody
  <2>1. config[board] \in Boards \cup {Nobody}
    BY <1>1 DEF Boarding, ConfigType
  <2>2. /\ tree' = WithConfig(r, config[board]) /\ config' = [config EXCEPT ![board] = Nobody]
        /\ at' = "oldconfig"
        /\ UNCHANGED <<board, part, todo, revs, clone, image, outcome, patches, downloaded, ready>>
    BY <1>3, <2>1 DEF TakeConfig, WithConfig, Goto, memory, history
  <2>. PICK c \in Boards \cup {Nobody} : c = config[board]
    BY <2>1
  <2>3. Trees' /\ tree'[r'].config = c /\ \A p \in Parts : Made(r, p)' /\ HeadOf(r, p)' = board'
    <3>1. tree' = WithConfig(r, c) /\ c \in Boards \cup {Nobody} /\ UNCHANGED <<board,
      downloaded, ready>>
      BY <2>2
    <3>. QED BY <1>1, <3>1, ConfigPutHere
  <2>4. MemoryType'
    BY <1>1, <2>2 DEF MemoryType
  <2>5. Boarding'
    BY <1>1, <2>2 DEF Boarding, ConfigType, ImageType, ImagesAreOwn
  <2>6. CheckedOut'
    BY <1>1, <2>2, <2>3 DEF CheckedOut, AtTree
  <2>. QED BY <2>2, <2>3, <2>4, <2>5, <2>6, ToBoard DEF AtTree
<1>. QED BY <1>2, <1>3

\* The user makes a .config for the board, or leaves what is there.
LEMMA MenuConfigKeeps ==
  ASSUME IInv, MenuConfig PROVE IInv'
<1>1. /\ Trees /\ MemoryType /\ Boarding /\ CheckedOut /\ at = "menuconfig" /\ at \in AtTree
      /\ part = "vboot" /\ board \in Boards
  BY DEF IInv, MenuConfig, AtTree, CheckedOut, MemoryType
<1>2. /\ tree' = WithConfig(r, board) \/ tree' = tree
      /\ at' = "oldconfig"
      /\ UNCHANGED <<board, part, todo, revs, clone, config, image, outcome, patches, downloaded,
        ready>>
  BY DEF MenuConfig, WithConfig, memory
<1>3. Trees' /\ \A p \in Parts : Made(r, p)' /\ HeadOf(r, p)' = board'
  <2>1. CASE tree' = WithConfig(r, board)
    <3>. PICK c \in Boards : c = board
      BY <1>1
    <3>1. tree' = WithConfig(r, c) /\ c \in Boards \cup {Nobody} /\ UNCHANGED <<board, downloaded,
      ready>>
      BY <1>2, <2>1
    <3>. QED BY <1>1, <3>1, ConfigPutHere
  <2>2. CASE tree' = tree
    <3>1. Trees'
      BY <1>1, <1>2, <2>2, TreesUnchanged
    <3>2. \A p \in Parts : Made(r, p)' /\ HeadOf(r, p)' = board'
      BY <1>1, <1>2, <2>2 DEF CheckedOut, Made, Present, HeadOf, r
    <3>. QED BY <3>1, <3>2
  <2>. QED BY <1>2, <2>1, <2>2
<1>4. MemoryType' /\ Boarding'
  BY <1>1, <1>2, BoardingKept DEF MemoryType
<1>5. CheckedOut'
  BY <1>1, <1>2, <1>3 DEF CheckedOut, AtTree
<1>. QED BY <1>2, <1>3, <1>4, <1>5, ToBoard DEF AtTree

\* .config is moved back, if there is one.
LEMMA ReturnConfigKeeps ==
  ASSUME IInv, ReturnConfig PROVE IInv'
<1>1. /\ Trees /\ MemoryType /\ Boarding /\ CheckedOut /\ at = "oldconfig" /\ at \in AtTree
      /\ board \in Boards
  BY DEF IInv, ReturnConfig, AtTree, CheckedOut, MemoryType
<1>2. CASE tree[r].config = Nobody
  BY <1>2, AbortsKeeps DEF ReturnConfig
<1>3. CASE tree[r].config # Nobody
  <2>1. /\ tree' = WithConfig(r, Nobody) /\ at' = "leave" /\ part' = "coreboot"
        /\ config' = [config EXCEPT ![board] = tree[r].config]
        /\ UNCHANGED <<board, todo, revs, clone, image, outcome, patches, downloaded, ready>>
    BY <1>3 DEF ReturnConfig, WithConfig, Goto, history
  <2>2. Trees' /\ \A p \in Parts : Made(r, p)'
    <3>1. Nobody \in Boards \cup {Nobody} /\ UNCHANGED <<board, downloaded, ready>>
      BY <2>1
    <3>. QED BY <1>1, <2>1, <3>1, ConfigPutHere
  <2>3. MemoryType'
    BY <1>1, <2>1 DEF MemoryType, Parts
  <2>4. tree[r].config \in Boards \cup {Nobody}
    <3>1. r \in Revisions /\ Present(r)
      BY <1>1, RevisionOf DEF CheckedOut, Made, Parts, r
    <3>. QED BY <1>1, <3>1, TreeFields DEF Trees
  <2>5. Boarding'
    BY <1>1, <2>1, <2>4 DEF Boarding, ConfigType, ImageType, ImagesAreOwn
  <2>6. CheckedOut'
    BY <2>1, <2>2 DEF CheckedOut, AtTree
  <2>. QED BY <2>1, <2>2, <2>3, <2>5, <2>6, ToBoard
<1>. QED BY <1>2, <1>3

\* master is checked out in coreboot, then in vboot, and the script ends.
LEMMA LeaveKeeps ==
  ASSUME IInv, Leave PROVE IInv'
<1>1. Trees /\ MemoryType /\ Boarding /\ CheckedOut /\ at = "leave"
  BY DEF IInv, Leave
<1>. PICK x \in Revisions, p \in Parts : x = r /\ p = part
  BY <1>1, RevisionOf DEF MemoryType, r
<1>2. \A q \in Parts : Made(x, q)
  BY <1>1 DEF CheckedOut, Made, Present
<1>3. /\ tree' = WithRepo(x, p, [tree[x].repo[p] EXCEPT !.head = "master"])
      /\ UNCHANGED <<board, clone, config, image, patches, downloaded, ready>> /\ r' = x
  BY DEF Leave, PutRepo, WithRepo, here, Goto, Succeeds, Ends, history, r
<1>4. Trees' /\ SameBranches
  <2>1. "master" \in Boards \cup {"master"} /\ UNCHANGED <<downloaded, ready>> /\ Made(x, p)
    BY <1>2, <1>3
  <2>. QED BY <1>1, <1>3, <2>1, HeadPut
<1>5. Boarding'
  BY <1>1, <1>3, BoardingKept
<1>6. CASE part = "coreboot"
  <2>1. /\ part' = "vboot" /\ at' = "leave" /\ UNCHANGED <<todo, revs, outcome>>
    BY <1>6 DEF Leave, Goto
  <2>2. MemoryType'
    BY <1>1, <1>3, <2>1 DEF MemoryType, Parts
  <2>3. \A q \in Parts : Made(r, q)'
    <3>1. \A q \in Parts : Made(x, q)'
      BY <1>2, <1>4 DEF SameBranches
    <3>. QED BY <1>3, <3>1 DEF Made, Present
  <2>4. CheckedOut'
    BY <2>1, <2>3 DEF CheckedOut, AtTree
  <2>. QED BY <1>4, <1>5, <2>1, <2>2, <2>4, ToBoard
<1>7. CASE part # "coreboot"
  <2>1. at' = "idle" /\ todo' = << >> /\ revs' = {} /\ outcome' = "ok" /\ part' = part
    BY <1>7 DEF Leave, Succeeds, Ends
  <2>2. MemoryType'
    BY <1>1, <1>3, <2>1 DEF MemoryType
  <2>. QED BY <1>4, <1>5, <2>1, <2>2, ToIdle
<1>. QED BY <1>6, <1>7

-----------------------------------------------------------------------------
(* The theorems.                                                            *)

\* The trees of a release, which a download and a build of the modules have left.
AsFinished == tree = Finished /\ downloaded = TRUE /\ ready = TRUE

\* All is promised of them.
LEMMA FinishedTrees ==
  ASSUME AsFinished PROVE Trees
<1>1. ASSUME NEW x \in Revisions
      PROVE  /\ tree[x] \in Tree /\ tree[x].reset /\ ~tree[x].upstream /\ ~tree[x].blobs
             /\ \A p \in Parts :
                  /\ tree[x].repo[p] \in Repo /\ tree[x].repo[p].head = "master"
                  /\ \A b \in Boards : Revision[b] = x => tree[x].repo[p].branch[b] = {b}
  <2>. DEFINE branch == [b \in Boards |-> IF Revision[b] = x THEN {b} ELSE NoBranch]
              repo == [NewRepo EXCEPT !.branch = branch]
              repos == [p \in Parts |-> repo]
  <2>1. tree[x] = [Copied EXCEPT !.reset = TRUE, !.upstream = FALSE, !.blobs = FALSE,
    !.tools = TRUE,
                     !.repo = repos]
    BY DEF AsFinished, Finished
  <2>2. branch \in [Boards -> Patched \cup {NoBranch}]
    BY DEF Patched
  <2>3. \A b \in Boards : Revision[b] = x => branch[b] = {b}
    OBVIOUS
  <2>. HIDE DEF branch
  <2>4. repo \in Repo /\ repo.head = "master" /\ repo.branch = branch
    BY <2>2 DEF NewRepo, Repo
  <2>. HIDE DEF repo
  <2>5. repos \in [Parts -> Repo \cup {NoRepo}] /\ \A p \in Parts : repos[p] = repo
    BY <2>4
  <2>. HIDE DEF repos
  <2>6. /\ tree[x] \in Tree /\ tree[x].reset /\ ~tree[x].upstream /\ ~tree[x].blobs
        /\ tree[x].repo = repos
    BY <2>1, <2>5 DEF Copied, Tree
  <2>. QED BY <2>3, <2>4, <2>5, <2>6
<1>2. \A x \in Revisions : tree[x] # NoTree /\ \A p \in Parts : tree[x].repo[p] # NoRepo
  BY <1>1 DEF Tree, NoTree, Repo, NoRepo
<1>3. TreeType
  <2>1. tree = [x \in Revisions |-> tree[x]]
    BY DEF AsFinished, Finished
  <2>. QED BY <1>1, <2>1 DEF TreeType
<1>4. HeadsExist
  BY <1>1 DEF HeadsExist, HeadOf
<1>5. \A b \in Boards, p \in Parts : Has(b, p) /\ BranchOf(Revision[b], p, b) = {b}
  <2>. SUFFICES ASSUME NEW b \in Boards, NEW p \in Parts
                PROVE  Has(b, p) /\ BranchOf(Revision[b], p, b) = {b}
    OBVIOUS
  <2>1. BranchOf(Revision[b], p, b) = {b} /\ Made(Revision[b], p)
    <3>1. Revision[b] \in Revisions
      BY RevisionOf
    <3>2. Made(Revision[b], p)
      BY <1>2, <3>1 DEF Made, Present
    <3>3. tree[Revision[b]].repo[p].branch[b] = {b}
      BY <1>1, <3>1
    <3>. QED BY <3>2, <3>3 DEF BranchOf
  <2>2. "no branch" \notin {b} /\ "no branch" \in NoBranch
    BY TreesAssumption DEF NoBranch
  <2>. QED BY <2>1, <2>2 DEF Has
<1>6. BranchesBegin
  BY <1>5, FirstBoard DEF BranchesBegin, Parts
<1>7. DownloadedTrees /\ ReadyBranches
  BY <1>1, <1>2, <1>5, RevisionOf DEF AsFinished, DownloadedTrees, ReadyBranches
<1>. QED BY <1>3, <1>4, <1>6, <1>7 DEF Trees

\* The invariant holds before any script has run.
LEMMA InitInv == Init => IInv
<1>. SUFFICES ASSUME Init PROVE IInv
  OBVIOUS
<1>1. Trees
  <2>1. CASE tree = Finished /\ downloaded = TRUE
    BY <2>1, FinishedTrees DEF Init, AsFinished
  <2>2. CASE tree = [x \in Revisions |-> NoTree] /\ downloaded = FALSE
    <3>1. \A x \in Revisions : ~Present(x)
      BY <2>2 DEF Present
    <3>2. ~ready /\ TreeType
      BY <2>2 DEF Init, TreeType
    <3>. QED BY <2>2, <3>1, <3>2
           DEF Trees, HeadsExist, BranchesBegin, DownloadedTrees, ReadyBranches, Made
  <2>. QED BY <2>1, <2>2 DEF Init
<1>2. MemoryType
  <2>1. patches \in BOOLEAN /\ downloaded \in BOOLEAN /\ ready \in BOOLEAN /\ clone \in BOOLEAN
    BY DEF Init
  <2>2. board \in Boards /\ part \in Parts
    BY FirstBoard DEF Init, Parts, First
  <2>3. todo \in Seq(Boards)
    BY DEF Init
  <2>4. revs \subseteq Revisions /\ outcome \in {"none", "running", "ok", "stopped", "aborted"}
    BY DEF Init
  <2>. QED BY <2>1, <2>2, <2>3, <2>4 DEF MemoryType
<1>3. Boarding
  BY DEF Init, Boarding, ConfigType, ImageType, ImagesAreOwn
<1>4. Downloading /\ Making /\ CheckedOut
  BY DEF Init, Downloading, Making, TodoOrder, Initialised, Progress, OthersAtMaster, CheckedOut,
         AtDownload, AtModule, AtBoard, AtTree
<1>. QED BY <1>1, <1>2, <1>3, <1>4 DEF IInv

\* Every step of every script keeps the invariant.
LEMMA NextInv == IInv /\ [Next]_vars => IInv'
<1>. SUFFICES ASSUME IInv, [Next]_vars PROVE IInv'
  OBVIOUS
<1>1. CASE StartAny
  <2>1. CASE patches /\ Start("download", BoardOrder[1])
    BY <2>1, StartKeeps, FirstBoard DEF First
  <2>2. CASE \E s \in {"module", "clean"} : Start(s, BoardOrder[1])
    BY <2>2, StartKeeps, FirstBoard DEF First
  <2>3. CASE \E s \in {"build", "update", "replace"}, b \in Boards : Start(s, b)
    BY <2>3, StartKeeps
  <2>. QED BY <1>1, <2>1, <2>2, <2>3 DEF StartAny
<1>2. CASE DownloadStep
  BY <1>2, DeleteTreesKeeps, CloneKeeps, CopyRevisionKeeps, ResetRevisionKeeps, RemoveCloneKeeps,
     RemoveHistoryKeeps, DeblobKeeps, DownloadEndsKeeps DEF DownloadStep
<1>3. CASE ModuleStep
  BY <1>3, InitCorebootKeeps, InitVbootKeeps, NextBoardKeeps, CreateBranchKeeps, BeginPatchesKeeps,
     EndPatchesKeeps, BackToMasterKeeps, BuildUtilitiesKeeps, CleanKeeps DEF ModuleStep
<1>4. CASE BoardStep
  BY <1>4, PassOverKeeps, CheckoutKeeps, ConfigureKeeps, MakeImageKeeps, RemoveConfigKeeps,
     TakeConfigKeeps, MenuConfigKeeps, ReturnConfigKeeps, LeaveKeeps DEF BoardStep
<1>5. CASE UnpackSource \/ Stop
  BY <1>5, UnpackSourceKeeps, StopKeeps
<1>6. CASE UNCHANGED vars
  <2>1. Trees /\ MemoryType /\ Boarding /\ Downloading /\ Making /\ CheckedOut
    BY DEF IInv
  <2>2. UNCHANGED <<at, script, board, part, todo, revs, tree, clone, config, image, outcome,
                    patches, downloaded, ready>>
    BY <1>6 DEF vars, memory, history
  <2>3. Trees'
    BY <2>1, <2>2, TreesUnchanged
  <2>4. MemoryType' /\ Boarding'
    BY <2>1, <2>2, BoardingKept DEF MemoryType
  <2>5. Downloading'
    BY <2>1, <2>2 DEF Downloading, Present, r
  <2>6. CheckedOut'
    BY <2>1, <2>2 DEF CheckedOut, Made, Present, HeadOf, r
  <2>7. TodoOrder' /\ Initialised'
    BY <2>1, <2>2 DEF Making, TodoOrder, Initialised, Made, Present, r
  <2>8. OthersAtMaster'
    BY <2>1, <2>2 DEF Making, OthersAtMaster, Masters, Made, Present, HeadOf, r
  <2>9. Progress'
    BY <2>1, <2>2 DEF Making, Progress, Own, Has, Made, Present, HeadOf, BranchOf, r
  <2>10. Making'
    BY <2>7, <2>8, <2>9 DEF Making
  <2>. QED BY <2>3, <2>4, <2>5, <2>6, <2>10 DEF IInv
<1>. QED BY <1>1, <1>2, <1>3, <1>4, <1>5, <1>6 DEF Next

-----------------------------------------------------------------------------
(* The configs.                                                             *)

BoardScripts == {"build", "update", "replace"}
Away == {"make", "remove .config", "oldconfig"}

NoneMixed == \A b \in Boards : config[b] \in {b, Nobody}
ImagesOfOwnConfig ==
  \A b \in Boards : image[b] # NoImage /\ image[b].ready => image[b].config = b

\* While no menuconfig was left without saving where there was a .config, configs
\* stay with their boards on the way that the script takes them.
OnTheirWay ==
  /\ NoneMixed /\ ImagesOfOwnConfig
  /\ at \in {"configure", "make"} \/ (at = "checkout" /\ script = "build") => config[board] = board
  /\ at = "make" => tree[r].config = board
  /\ at = "oldconfig" => tree[r].config \in {board, Nobody}

\* While no script for a board has failed, there is a .config only in the tree of the
\* script that is at it, and only that of grubupdate is not in its place.
InPlace ==
  /\ \A x \in Revisions : Present(x) /\ tree[x].config # Nobody => x = r /\ at \in Away
  /\ \A b \in Boards :
       config[b] = b \/ (at = "oldconfig" /\ board = b /\ tree[Revision[b]].config = b)

\* What holds of the configs.  A .config that the user leaves as it is was there
\* because a script has failed.
Configs ==
  /\ FlagType
  /\ at \in AtTree => script \in BoardScripts
  /\ unsaved => failed
  /\ ~unsaved => OnTheirWay
  /\ ~failed => InPlace

\* No tree has come to a .config.
NoNewConfig ==
  \A x \in Revisions :
    Present(x)' /\ tree'[x].config # Nobody => Present(x) /\ tree[x].config # Nobody

\* A step of a script that is not at the configs, nor comes to them.
Quiet ==
  /\ at \notin AtTree /\ at' \notin AtTree \cup {"checkout"}
  /\ UNCHANGED <<config, unsaved>> /\ failed' \in BOOLEAN /\ (failed => failed')
  /\ \A b \in Boards : image'[b] = image[b] \/ image'[b] = NoImage
  /\ NoNewConfig

LEMMA QuietKeeps ==
  ASSUME Configs, Quiet PROVE Configs'
<1>1. at \notin AtTree /\ at' \notin AtTree \cup {"checkout"} /\ config' = config
      /\ (unsaved' <=> unsaved) /\ (failed => failed')
  BY DEF Quiet
<1>2. FlagType' /\ (unsaved' => failed')
  BY <1>1 DEF Configs, Quiet, FlagType
<1>3. ASSUME ~unsaved'
      PROVE  OnTheirWay'
  <2>1. OnTheirWay
    BY <1>1, <1>3 DEF Configs
  <2>2. NoneMixed'
    BY <1>1, <2>1 DEF OnTheirWay, NoneMixed
  <2>3. ImagesOfOwnConfig'
    BY <2>1 DEF OnTheirWay, ImagesOfOwnConfig, Quiet
  <2>. QED BY <1>1, <2>2, <2>3 DEF OnTheirWay, AtTree
<1>4. ASSUME ~failed'
      PROVE  InPlace'
  <2>1. InPlace
    BY <1>1, <1>4 DEF Configs
  <2>2. \A x \in Revisions : ~(Present(x)' /\ tree'[x].config # Nobody)
    BY <1>1, <2>1 DEF InPlace, Quiet, NoNewConfig, Away, AtTree
  <2>3. \A b \in Boards : config'[b] = b
    BY <1>1, <2>1 DEF InPlace, AtTree
  <2>. QED BY <2>2, <2>3 DEF InPlace
<1>. QED BY <1>1, <1>2, <1>3, <1>4 DEF Configs

\* A script for a board that is aborted or stopped has failed.
LEMMA EndsKeeps ==
  ASSUME Configs, NEW how, how # "ok", Ends(how), UNCHANGED <<tree, config, image>>
  PROVE  Configs'
<1>1. /\ at' = "idle" /\ (unsaved' <=> unsaved) /\ board' = board
      /\ failed' = (failed \/ script \in BoardScripts)
  BY DEF Ends, BoardScripts
<1>2. FlagType' /\ (unsaved' => failed')
  BY <1>1 DEF Configs, FlagType, Ends
<1>3. ASSUME ~unsaved'
      PROVE  OnTheirWay'
  BY <1>1, <1>3 DEF Configs, OnTheirWay, NoneMixed, ImagesOfOwnConfig
<1>4. ASSUME ~failed'
      PROVE  InPlace'
  <2>1. ~failed /\ at \notin AtTree /\ InPlace
    BY <1>1, <1>4 DEF Configs
  <2>. QED BY <1>1, <2>1 DEF InPlace, AtTree, Away, Present
<1>. QED BY <1>1, <1>2, <1>3, <1>4 DEF Configs, AtTree

LEMMA AbortsKeepConfigs ==
  ASSUME Configs, Aborts PROVE Configs'
BY EndsKeeps DEF Aborts

\* A script that succeeds leaves the flags as they are.
LEMMA SucceedsKeepsFlags ==
  ASSUME FlagType, Succeeds PROVE UNCHANGED <<failed, unsaved>>
<1>1. failed \in BOOLEAN /\ unsaved' = unsaved
  BY DEF FlagType, Succeeds, Ends
<1>2. failed' = (failed \/ ("ok" # "ok" /\ script \in {"build", "update", "replace"}))
  BY Zenon DEF Succeeds, Ends
<1>3. failed' = failed
  <2>1. CASE failed = TRUE
    BY <1>2, <2>1
  <2>2. CASE failed = FALSE
    BY <1>2, <2>2
  <2>. QED BY <1>1, <2>1, <2>2
<1>. QED BY <1>1, <1>3

\* Trees that are left alone.
LEMMA NoNewInSame ==
  ASSUME UNCHANGED tree PROVE NoNewConfig
BY DEF NoNewConfig, Present

\* A field of a tree that is no .config is changed.
LEMMA NoNewInField ==
  ASSUME TreeType, NEW x \in Revisions, Present(x), NEW v, NEW p \in Parts,
         \/ tree' = [tree EXCEPT ![x].reset = v]
         \/ tree' = [tree EXCEPT ![x].upstream = v]
         \/ tree' = [tree EXCEPT ![x].blobs = v]
         \/ tree' = [tree EXCEPT ![x].repo[p] = v]
  PROVE  NoNewConfig
<1>1. tree[x] \in Tree
  BY TreeFields
<1>2. \A y \in Revisions : tree'[y].config = tree[y].config /\ (y # x => tree'[y] = tree[y])
  BY <1>1 DEF TreeType, Tree
<1>. QED BY <1>2 DEF NoNewConfig, Present

\* No tree has a .config after ./build clean coreboot.
LEMMA CleanedConfigs ==
  ASSUME TreeType, tree' = Cleaned PROVE NoNewConfig
<1>1. ASSUME NEW x \in Revisions, Present(x)'
      PROVE  tree'[x].config = Nobody
  <2>1. Present(x)
    BY <1>1 DEF Cleaned, Present
  <2>2. tree[x] \in Tree /\ tree'[x] = [tree[x] EXCEPT !.tools = FALSE, !.config = Nobody]
    BY <2>1, TreeFields DEF Cleaned, Present
  <2>. QED BY <2>2 DEF Tree
<1>. QED BY <1>1 DEF NoNewConfig

\* A download is quiet.
LEMMA DownloadQuiet ==
  ASSUME IInv, FlagType, DownloadStep PROVE Quiet
<1>1. /\ TreeType /\ todo \in Seq(Boards) /\ revs \subseteq Revisions /\ Downloading
      /\ r \in Revisions
  BY RevisionOf DEF IInv, Trees, MemoryType, r
<1>2. /\ at \in AtDownload \cup {"delete"} /\ at' \in AtDownload \cup {"idle"}
      /\ config' = config /\ image' = image /\ UNCHANGED <<failed, unsaved>>
  BY DEF DownloadStep, DeleteTrees, Clone, CopyRevision, ResetRevision, RemoveClone, RemoveHistory,
         Deblob, DownloadEnds, Goto, Succeeds, Ends, history, AtDownload, FlagType
<1>3. NoNewConfig
  <2>1. CASE DeleteTrees
    BY <2>1 DEF DeleteTrees, NoNewConfig, Present
  <2>2. CASE Clone \/ RemoveClone \/ DownloadEnds
    BY <2>2, NoNewInSame DEF Clone, RemoveClone, DownloadEnds
  <2>3. CASE CopyRevision
    <3>1. \/ tree' = tree
          \/ \E x \in Revisions : tree' = [tree EXCEPT ![x] = Copied]
      <4>1. todo # << >>
        BY <2>3 DEF CopyRevision
      <4>2. Head(todo) \in Boards
        BY <1>1, <4>1
      <4>. QED BY <2>3, <4>2, RevisionOf DEF CopyRevision
    <3>2. Copied.config = Nobody
      BY DEF Copied
    <3>. QED BY <1>1, <3>1, <3>2 DEF NoNewConfig, TreeType, Present
  <2>4. CASE ResetRevision
    <3>1. Present(r)
      BY <1>1, <2>4 DEF ResetRevision, Downloading
    <3>2. tree' = [tree EXCEPT ![r].reset = TRUE] /\ "vboot" \in Parts
      BY <2>4 DEF ResetRevision, Parts
    <3>. QED BY <1>1, <3>1, <3>2, NoNewInField
  <2>5. CASE RemoveHistory
    <3>1. CASE revs = {}
      BY <2>5, <3>1, NoNewInSame DEF RemoveHistory
    <3>2. CASE revs # {}
      <4>1. PICK x \in revs : tree' = [tree EXCEPT ![x].upstream = FALSE]
        BY <2>5, <3>2 DEF RemoveHistory
      <4>2. Present(x) /\ x \in Revisions /\ "vboot" \in Parts
        BY <1>1, <2>5, <4>1 DEF RemoveHistory, Downloading, Parts
      <4>. QED BY <1>1, <4>1, <4>2, NoNewInField
    <3>. QED BY <3>1, <3>2
  <2>6. CASE Deblob
    <3>1. todo # << >> /\ tree' = [tree EXCEPT ![Revision[Head(todo)]].blobs = FALSE]
          /\ at = "deblob"
      BY <2>6 DEF Deblob
    <3>2. Head(todo) \in Boards
      BY <1>1, <3>1
    <3>3. Present(Revision[Head(todo)]) /\ Revision[Head(todo)] \in Revisions /\ "vboot" \in Parts
      BY <1>1, <3>1, <3>2, RevisionOf DEF Downloading, Parts
    <3>. QED BY <1>1, <3>1, <3>3, NoNewInField
  <2>. QED BY <2>1, <2>2, <2>3, <2>4, <2>5, <2>6 DEF DownloadStep
<1>. QED BY <1>2, <1>3 DEF Quiet, AtDownload, AtTree, FlagType

\* What git does to a repository has no part in the .config of its tree.
LEMMA NoNewInRepo ==
  ASSUME TreeType, NEW x \in Revisions, Present(x), NEW p \in Parts, NEW v,
         tree' = [tree EXCEPT ![x].repo[p] = v]
  PROVE  NoNewConfig
BY NoNewInField

\* The module is quiet, or it is aborted.
LEMMA ModuleQuiet ==
  ASSUME IInv, FlagType, ModuleStep PROVE Quiet \/ Aborts
<1>. SUFFICES ASSUME ~Aborts PROVE Quiet
  OBVIOUS
<1>1. /\ TreeType /\ todo \in Seq(Boards) /\ revs \subseteq Revisions /\ Initialised
      /\ r \in Revisions /\ part \in Parts
  BY RevisionOf DEF IInv, Trees, Making, MemoryType, r
<1>2. /\ at \in AtModule \cup {"clean"} /\ at' \in AtModule \cup {"idle"}
      /\ config' = config /\ image' = image /\ UNCHANGED <<failed, unsaved>>
  <2>1. CASE InitCoreboot \/ InitVboot \/ NextBoard \/ CreateBranch
    BY <2>1 DEF InitCoreboot, InitVboot, NextBoard, CreateBranch, Goto, history, AtModule, AtBoard
  <2>2. CASE BeginPatches \/ EndPatches \/ BackToMaster
    BY <2>2 DEF BeginPatches, EndPatches, BackToMaster, Goto, history, AtModule, AtBoard
  <2>3. CASE BuildUtilities \/ Clean
    BY <2>3 DEF BuildUtilities, Clean, Succeeds, Ends, AtModule, AtBoard, FlagType
  <2>. QED BY <2>1, <2>2, <2>3 DEF ModuleStep
<1>3. NoNewConfig
  <2>1. CASE InitCoreboot
    <3>1. PICK x \in revs : tree' = tree \/ tree' = [tree EXCEPT ![x].repo["coreboot"] = NewRepo]
      BY <2>1 DEF InitCoreboot
    <3>2. x \in Revisions /\ Present(x) /\ "coreboot" \in Parts
      BY <1>1, <2>1 DEF InitCoreboot, Initialised, Parts
    <3>. QED BY <1>1, <3>1, <3>2, NoNewInSame, NoNewInRepo
  <2>2. CASE InitVboot
    <3>1. tree' = tree \/ tree' = [tree EXCEPT ![r].repo["vboot"] = NewRepo]
      BY <2>2 DEF InitVboot
    <3>2. Present(r) /\ "vboot" \in Parts
      BY <1>1, <2>2 DEF InitVboot, Initialised, Parts
    <3>. QED BY <1>1, <3>1, <3>2, NoNewInSame, NoNewInRepo
  <2>3. CASE NextBoard
    BY <2>3, NoNewInSame DEF NextBoard
  <2>4. CASE CreateBranch \/ BeginPatches \/ EndPatches \/ BackToMaster
    <3>1. tree' = tree \/ \E v : tree' = [tree EXCEPT ![r].repo[part] = v]
      BY <2>4 DEF CreateBranch, BeginPatches, EndPatches, BackToMaster, PutRepo
    <3>2. Present(r)
      BY <1>1, <2>4
      DEF CreateBranch, BeginPatches, EndPatches, BackToMaster, Initialised, AtBoard
    <3>. QED BY <1>1, <3>1, <3>2, NoNewInSame, NoNewInRepo
  <2>5. CASE BuildUtilities
    <3>1. ASSUME NEW x \in Revisions, Present(x)
          PROVE  tree'[x].config = tree[x].config
      <4>1. tree[x] \in Tree /\ tree'[x] = [tree[x] EXCEPT !.tools = TRUE]
        BY <1>1, <2>5, <3>1, TreeFields DEF BuildUtilities, Present
      <4>. QED BY <4>1 DEF Tree
    <3>2. \A x \in Revisions : ~Present(x) => ~Present(x)'
      BY <2>5 DEF BuildUtilities, Present
    <3>. QED BY <3>1, <3>2 DEF NoNewConfig
  <2>6. CASE Clean
    <3>1. tree' = Cleaned
      BY <2>6 DEF Clean
    <3>. QED BY <1>1, <3>1, CleanedConfigs
  <2>. QED BY <2>1, <2>2, <2>3, <2>4, <2>5, <2>6 DEF ModuleStep
<1>. QED BY <1>2, <1>3 DEF Quiet, AtModule, AtBoard, AtTree, FlagType

\* A script is started.
LEMMA StartKeepsConfigs ==
  ASSUME IInv, Configs, NEW s \in {"download", "module", "clean", "build", "update", "replace"},
         NEW b \in Boards, Start(s, b)
  PROVE  Configs'
<1>1. /\ at = "idle" /\ at' = FirstStep(s, b) /\ script' = s /\ board' = b
      /\ tree' = tree /\ config' = config /\ image' = image
      /\ UNCHANGED <<failed, unsaved>>
  BY DEF Start, history
<1>2. CASE at' # "checkout"
  <2>1. at' \notin AtTree
    BY <1>1 DEF FirstStep, AtTree
  <2>. QED BY <1>1, <1>2, <2>1, NoNewInSame, QuietKeeps DEF Quiet, AtTree, Configs, FlagType
<1>3. CASE at' = "checkout"
  <2>1. s = "build" => config[b] # Nobody
    BY <1>1, <1>3 DEF FirstStep
  <2>2. ASSUME ~unsaved'
        PROVE  OnTheirWay'
    <3>1. NoneMixed /\ ImagesOfOwnConfig
      BY <1>1, <2>2 DEF Configs, OnTheirWay
    <3>2. NoneMixed' /\ ImagesOfOwnConfig'
      BY <1>1, <3>1 DEF NoneMixed, ImagesOfOwnConfig
    <3>. QED BY <1>1, <1>3, <2>1, <3>1, <3>2 DEF OnTheirWay, NoneMixed
  <2>3. ASSUME ~failed'
        PROVE  InPlace'
    <3>1. InPlace
      BY <1>1, <2>3 DEF Configs
    <3>. QED BY <1>1, <1>3, <3>1 DEF InPlace, Away, Present
  <2>. QED BY <1>1, <1>3, <2>2, <2>3 DEF Configs, FlagType, AtTree
<1>. QED BY <1>2, <1>3

\* The branches are checked out; what comes next is in the trees.
LEMMA CheckoutKeepsConfigs ==
  ASSUME IInv, Configs, Checkout PROVE Configs'
<1>1. CASE tree[r] = NoTree \/ here = NoRepo \/ here.branch[board] = NoBranch
  BY <1>1, AbortsKeepConfigs DEF Checkout
<1>2. CASE ~(tree[r] = NoTree \/ here = NoRepo \/ here.branch[board] = NoBranch)
  <2>1. /\ at = "checkout" /\ at' = NextStep /\ script' = script /\ board' = board
        /\ tree' = [tree EXCEPT ![r].repo[part] = [here EXCEPT !.head = board]]
        /\ config' = config /\ image' = image
        /\ UNCHANGED <<failed, unsaved>>
    BY <1>2 DEF Checkout, PutRepo, Goto, history
  <2>2. TreeType /\ r \in Revisions /\ Present(r) /\ part \in Parts /\ script \in BoardScripts
    BY <1>2, <2>1, RevisionOf DEF IInv, Trees, MemoryType, CheckedOut, BoardScripts, Present, r
  <2>3. NoNewConfig
    BY <2>1, <2>2, NoNewInRepo
  <2>4. /\ at' \in {"checkout", "configure", "take config", "menuconfig"}
        /\ at' = "configure" => script = "build"
    BY <2>1, <2>2 DEF NextStep, BoardScripts
  <2>5. ASSUME ~unsaved'
        PROVE  OnTheirWay'
    <3>1. OnTheirWay
      BY <2>1, <2>5 DEF Configs
    <3>2. NoneMixed' /\ ImagesOfOwnConfig'
      BY <2>1, <3>1 DEF OnTheirWay, NoneMixed, ImagesOfOwnConfig
    <3>. QED BY <2>1, <2>4, <3>1, <3>2 DEF OnTheirWay
  <2>6. ASSUME ~failed'
        PROVE  InPlace'
    <3>1. InPlace
      BY <2>1, <2>6 DEF Configs
    <3>2. \A x \in Revisions : ~(Present(x)' /\ tree'[x].config # Nobody)
      BY <2>1, <2>3, <3>1 DEF InPlace, NoNewConfig, Away
    <3>3. \A b \in Boards : config'[b] = b
      BY <2>1, <3>1 DEF InPlace
    <3>. QED BY <3>2, <3>3 DEF InPlace
  <2>. QED BY <2>1, <2>2, <2>5, <2>6 DEF Configs, FlagType
<1>. QED BY <1>1, <1>2

\* A .config comes into the tree of the board, or goes from it.
LEMMA ConfigOfTree ==
  ASSUME IInv, at \in AtTree, NEW c, tree' = WithConfig(r, c), board' = board
  PROVE  /\ r \in Revisions /\ r' = r /\ tree'[r].config = c /\ Present(r)
         /\ \A x \in Revisions : x # r => tree'[x] = tree[x]
<1>1. TreeType /\ r \in Revisions /\ Made(r, "vboot")
  BY RevisionOf DEF IInv, Trees, MemoryType, CheckedOut, Parts, r
<1>2. tree[r] \in Tree /\ Present(r)
  BY <1>1, TreeFields DEF Made
<1>3. tree'[r] = [tree[r] EXCEPT !.config = c] /\ \A x \in Revisions : x # r => tree'[x] = tree[x]
  BY <1>1 DEF TreeType, WithConfig
<1>4. tree'[r].config = c
  BY <1>2, <1>3 DEF Tree
<1>. QED BY <1>1, <1>2, <1>3, <1>4 DEF r

LEMMA ConfigureKeepsConfigs ==
  ASSUME IInv, Configs, Configure PROVE Configs'
<1>1. /\ at = "configure" /\ at \in AtTree /\ at' = "make" /\ script' = script /\ board' = board
      /\ tree' = WithConfig(r, config[board]) /\ config' = config /\ image' = image
      /\ UNCHANGED <<failed, unsaved>>
  BY DEF Configure, Goto, WithConfig, memory, history, AtTree
<1>2. /\ r' = r /\ tree'[r].config = config[board] /\ Present(r)
      /\ \A x \in Revisions : x # r => tree'[x] = tree[x]
  BY <1>1, ConfigOfTree
<1>3. ASSUME ~unsaved'
      PROVE  OnTheirWay'
  <2>1. OnTheirWay
    BY <1>1, <1>3 DEF Configs
  <2>2. NoneMixed' /\ ImagesOfOwnConfig'
    BY <1>1, <2>1 DEF OnTheirWay, NoneMixed, ImagesOfOwnConfig
  <2>. QED BY <1>1, <1>2, <2>1, <2>2 DEF OnTheirWay
<1>4. ASSUME ~failed'
      PROVE  InPlace'
  <2>1. InPlace
    BY <1>1, <1>4 DEF Configs
  <2>. QED BY <1>1, <1>2, <2>1 DEF InPlace, Away, Present
<1>. QED BY <1>1, <1>3, <1>4 DEF Configs, FlagType, AtTree

LEMMA MakeImageKeepsConfigs ==
  ASSUME IInv, Configs, MakeImage PROVE Configs'
<1>1. CASE ~tree[r].tools
  BY <1>1, AbortsKeepConfigs DEF MakeImage
<1>2. CASE tree[r].tools
  <2>. DEFINE built ==
         [kind |-> "image", coreboot |-> Contents(tree[r].repo["coreboot"]),
          vboot |-> Contents(tree[r].repo["vboot"]), blobs |-> tree[r].blobs,
          config |-> tree[r].config, ready |-> ready]
  <2>1. /\ at = "make" /\ at \in AtTree /\ at' = "remove .config" /\ script' = script
        /\ board' = board /\ r' = r /\ board \in Boards
        /\ tree' = tree /\ config' = config /\ image' = [image EXCEPT ![board] = built]
        /\ UNCHANGED <<failed, unsaved>>
    BY <1>2 DEF MakeImage, Goto, memory, history, AtTree, r, IInv, MemoryType
  <2>2. built.config = tree[r].config
    OBVIOUS
  <2>. HIDE DEF built
  <2>3. ASSUME ~unsaved'
        PROVE  OnTheirWay'
    <3>1. OnTheirWay
      BY <2>1, <2>3 DEF Configs
    <3>2. NoneMixed'
      BY <2>1, <3>1 DEF OnTheirWay, NoneMixed
    <3>3. \A b \in Boards : b # board => image'[b] = image[b]
      BY <2>1 DEF IInv, Boarding, ImageType
    <3>4. image'[board].config = board
      BY <2>1, <2>2, <3>1 DEF OnTheirWay, IInv, Boarding, ImageType
    <3>5. ImagesOfOwnConfig'
      BY <3>1, <3>3, <3>4 DEF OnTheirWay, ImagesOfOwnConfig
    <3>. QED BY <2>1, <3>2, <3>5 DEF OnTheirWay
  <2>4. ASSUME ~failed'
        PROVE  InPlace'
    <3>1. InPlace
      BY <2>1, <2>4 DEF Configs
    <3>. QED BY <2>1, <3>1 DEF InPlace, Away, Present
  <2>. QED BY <2>1, <2>3, <2>4 DEF Configs, FlagType, AtTree
<1>. QED BY <1>1, <1>2

LEMMA RemoveConfigKeepsConfigs ==
  ASSUME IInv, Configs, RemoveConfig PROVE Configs'
<1>1. /\ at = "remove .config" /\ at \in AtTree /\ at' = "leave" /\ board' = board
      /\ tree' = WithConfig(r, Nobody) /\ config' = config /\ image' = image
      /\ UNCHANGED <<failed, unsaved>>
  BY DEF RemoveConfig, Goto, WithConfig, history, AtTree
<1>2. /\ r' = r /\ tree'[r].config = Nobody /\ Present(r)
      /\ \A x \in Revisions : x # r => tree'[x] = tree[x]
  BY <1>1, ConfigOfTree
<1>3. ASSUME ~unsaved'
      PROVE  OnTheirWay'
  <2>1. OnTheirWay
    BY <1>1, <1>3 DEF Configs
  <2>2. NoneMixed' /\ ImagesOfOwnConfig'
    BY <1>1, <2>1 DEF OnTheirWay, NoneMixed, ImagesOfOwnConfig
  <2>. QED BY <1>1, <2>2 DEF OnTheirWay
<1>4. ASSUME ~failed'
      PROVE  InPlace'
  <2>1. InPlace
    BY <1>1, <1>4 DEF Configs
  <2>. QED BY <1>1, <1>2, <2>1 DEF InPlace, Present
<1>. QED BY <1>1, <1>3, <1>4 DEF Configs, FlagType, AtTree

LEMMA TakeConfigKeepsConfigs ==
  ASSUME IInv, Configs, TakeConfig PROVE Configs'
<1>1. CASE config[board] = Nobody
  BY <1>1, AbortsKeepConfigs DEF TakeConfig
<1>2. CASE config[board] # Nobody
  <2>1. /\ at = "take config" /\ at \in AtTree /\ at' = "oldconfig" /\ script' = script
        /\ board' = board /\ board \in Boards /\ config \in [Boards -> Boards \cup {Nobody}]
        /\ tree' = WithConfig(r, config[board]) /\ config' = [config EXCEPT ![board] = Nobody]
        /\ image' = image /\ UNCHANGED <<failed, unsaved>>
    BY <1>2 DEF TakeConfig, Goto, WithConfig, memory, history, AtTree, IInv, MemoryType, Boarding,
                ConfigType
  <2>2. /\ r' = r /\ tree'[r].config = config[board] /\ Present(r)
        /\ \A x \in Revisions : x # r => tree'[x] = tree[x]
    BY <2>1, ConfigOfTree
  <2>3. ASSUME ~unsaved'
        PROVE  OnTheirWay'
    <3>1. OnTheirWay
      BY <2>1, <2>3 DEF Configs
    <3>2. NoneMixed' /\ config[board] = board
      BY <1>2, <2>1, <3>1 DEF OnTheirWay, NoneMixed
    <3>3. ImagesOfOwnConfig'
      BY <2>1, <3>1 DEF OnTheirWay, ImagesOfOwnConfig
    <3>. QED BY <2>1, <2>2, <3>2, <3>3 DEF OnTheirWay
  <2>4. ASSUME ~failed'
        PROVE  InPlace'
    <3>1. InPlace
      BY <2>1, <2>4 DEF Configs
    <3>2. \A b \in Boards : config[b] = b
      BY <2>1, <3>1 DEF InPlace
    <3>3. \A x \in Revisions : Present(x)' /\ tree'[x].config # Nobody => x = r
      BY <2>1, <2>2, <3>1 DEF InPlace, Present, Away
    <3>4. \A b \in Boards : config'[b] = b \/ (b = board /\ tree'[Revision[b]].config = b)
      BY <2>1, <2>2, <3>2 DEF r
    <3>. QED BY <2>1, <2>2, <3>3, <3>4 DEF InPlace, Away
  <2>. QED BY <2>1, <2>3, <2>4 DEF Configs, FlagType, AtTree
<1>. QED BY <1>1, <1>2

LEMMA MenuConfigKeepsConfigs ==
  ASSUME IInv, Configs, MenuConfig PROVE Configs'
<1>1. /\ at = "menuconfig" /\ at \in AtTree /\ at' = "oldconfig" /\ script' = script
      /\ board' = board /\ board \in Boards /\ r \in Revisions /\ Present(r)
      /\ config' = config /\ image' = image /\ failed' = failed
  BY RevisionOf
  DEF MenuConfig, memory, AtTree, IInv, MemoryType, CheckedOut, Made, Parts, r
<1>2. CASE tree' = WithConfig(r, board) /\ unsaved' = unsaved
  <2>1. /\ r' = r /\ tree'[r].config = board
        /\ \A x \in Revisions : x # r => tree'[x] = tree[x]
    BY <1>1, <1>2, ConfigOfTree
  <2>2. ASSUME ~unsaved'
        PROVE  OnTheirWay'
    <3>1. OnTheirWay
      BY <1>2, <2>2 DEF Configs
    <3>2. NoneMixed' /\ ImagesOfOwnConfig'
      BY <1>1, <3>1 DEF OnTheirWay, NoneMixed, ImagesOfOwnConfig
    <3>. QED BY <1>1, <2>1, <3>2 DEF OnTheirWay
  <2>3. ASSUME ~failed'
        PROVE  InPlace'
    <3>1. InPlace
      BY <1>1, <2>3 DEF Configs
    <3>. QED BY <1>1, <2>1, <3>1 DEF InPlace, Away, Present
  <2>. QED BY <1>1, <1>2, <2>2, <2>3 DEF Configs, FlagType, AtTree
<1>3. CASE tree' = tree /\ unsaved' = (unsaved \/ tree[r].config # Nobody)
  <2>1. r' = r
    BY <1>1 DEF r
  <2>2. ASSUME ~unsaved'
        PROVE  OnTheirWay'
    <3>1. OnTheirWay /\ tree[r].config = Nobody
      BY <1>3, <2>2 DEF Configs
    <3>2. NoneMixed' /\ ImagesOfOwnConfig'
      BY <1>1, <3>1 DEF OnTheirWay, NoneMixed, ImagesOfOwnConfig
    <3>. QED BY <1>1, <1>3, <2>1, <3>1, <3>2 DEF OnTheirWay
  <2>3. ASSUME ~failed'
        PROVE  InPlace' /\ tree[r].config = Nobody
    <3>1. InPlace
      BY <1>1, <2>3 DEF Configs
    <3>. QED BY <1>1, <1>3, <2>1, <3>1 DEF InPlace, Away, Present
  <2>4. (unsaved' => failed') /\ FlagType'
    BY <1>1, <1>3, <2>3 DEF Configs, FlagType
  <2>. QED BY <1>1, <2>2, <2>3, <2>4 DEF Configs, AtTree
<1>. QED BY <1>2, <1>3 DEF MenuConfig, WithConfig

LEMMA ReturnConfigKeepsConfigs ==
  ASSUME IInv, Configs, ReturnConfig PROVE Configs'
<1>1. CASE tree[r].config = Nobody
  BY <1>1, AbortsKeepConfigs DEF ReturnConfig
<1>2. CASE tree[r].config # Nobody
  <2>1. /\ at = "oldconfig" /\ at \in AtTree /\ at' = "leave" /\ board' = board
        /\ board \in Boards /\ config \in [Boards -> Boards \cup {Nobody}]
        /\ tree' = WithConfig(r, Nobody)
        /\ config' = [config EXCEPT ![board] = tree[r].config]
        /\ image' = image /\ UNCHANGED <<failed, unsaved>>
    BY <1>2 DEF ReturnConfig, Goto, WithConfig, history, AtTree, IInv, MemoryType, Boarding,
                ConfigType
  <2>2. /\ r' = r /\ tree'[r].config = Nobody /\ Present(r)
        /\ \A x \in Revisions : x # r => tree'[x] = tree[x]
    BY <2>1, ConfigOfTree
  <2>3. ~unsaved => tree[r].config = board
    BY <1>2, <2>1 DEF Configs, OnTheirWay
  <2>4. ASSUME ~unsaved'
        PROVE  OnTheirWay'
    <3>1. OnTheirWay
      BY <2>1, <2>4 DEF Configs
    <3>2. NoneMixed' /\ ImagesOfOwnConfig'
      BY <2>1, <2>3, <2>4, <3>1 DEF OnTheirWay, NoneMixed, ImagesOfOwnConfig
    <3>. QED BY <2>1, <3>2 DEF OnTheirWay
  <2>5. ASSUME ~failed'
        PROVE  InPlace'
    <3>1. InPlace /\ tree[r].config = board
      BY <2>1, <2>3, <2>5 DEF Configs
    <3>2. \A b \in Boards : config'[b] = b
      BY <2>1, <3>1 DEF InPlace
    <3>3. \A x \in Revisions : ~(Present(x)' /\ tree'[x].config # Nobody)
      BY <2>1, <2>2, <3>1 DEF InPlace, Present
    <3>. QED BY <3>2, <3>3 DEF InPlace
  <2>. QED BY <2>1, <2>4, <2>5 DEF Configs, FlagType, AtTree
<1>. QED BY <1>1, <1>2

LEMMA LeaveQuiet ==
  ASSUME IInv, FlagType, Leave PROVE Quiet
<1>1. /\ at = "leave" /\ at' \in {"leave", "idle"} /\ config' = config /\ image' = image
      /\ tree' = [tree EXCEPT ![r].repo[part] = [here EXCEPT !.head = "master"]]
      /\ UNCHANGED <<failed, unsaved>>
  BY DEF Leave, PutRepo, Goto, Succeeds, Ends, history, FlagType
<1>2. TreeType /\ r \in Revisions /\ part \in Parts /\ Present(r)
  BY <1>1, RevisionOf DEF IInv, Trees, MemoryType, CheckedOut, Made, r
<1>3. NoNewConfig
  BY <1>1, <1>2, NoNewInRepo
<1>. QED BY <1>1, <1>3 DEF Quiet, AtTree, FlagType

\* Every step of every script keeps what holds of the configs.
LEMMA NextConfigs == IInv /\ Configs /\ [Next]_vars => Configs'
<1>. SUFFICES ASSUME IInv, Configs, [Next]_vars PROVE Configs'
  OBVIOUS
<1>0. FlagType
  BY DEF Configs
<1>1. CASE StartAny
  <2>1. CASE patches /\ Start("download", BoardOrder[1])
    BY <2>1, StartKeepsConfigs, FirstBoard DEF First
  <2>2. CASE \E s \in {"module", "clean"} : Start(s, BoardOrder[1])
    BY <2>2, StartKeepsConfigs, FirstBoard DEF First
  <2>3. CASE \E s \in {"build", "update", "replace"}, b \in Boards : Start(s, b)
    BY <2>3, StartKeepsConfigs
  <2>. QED BY <1>1, <2>1, <2>2, <2>3 DEF StartAny
<1>2. CASE DownloadStep
  BY <1>0, <1>2, DownloadQuiet, QuietKeeps
<1>3. CASE ModuleStep
  BY <1>0, <1>3, ModuleQuiet, QuietKeeps, AbortsKeepConfigs
<1>4. CASE BoardStep
  <2>1. CASE PassOver
    <3>1. /\ at = "pass over" /\ at' = "idle" /\ UNCHANGED <<tree, config, image>>
          /\ UNCHANGED <<failed, unsaved>>
      BY <1>0, <2>1 DEF PassOver, Succeeds, Ends, FlagType
    <3>. QED BY <1>0, <3>1, NoNewInSame, QuietKeeps DEF Quiet, AtTree, FlagType
  <2>2. CASE Leave
    BY <1>0, <2>2, LeaveQuiet, QuietKeeps
  <2>. QED BY <1>4, <2>1, <2>2, CheckoutKeepsConfigs, ConfigureKeepsConfigs,
              MakeImageKeepsConfigs, RemoveConfigKeepsConfigs, TakeConfigKeepsConfigs,
              MenuConfigKeepsConfigs, ReturnConfigKeepsConfigs DEF BoardStep
<1>5. CASE UnpackSource
  <2>1. /\ at = "idle" /\ at' = "idle" /\ tree' = Cleaned /\ config' = config
        /\ \A b \in Boards : image'[b] = NoImage
        /\ UNCHANGED <<failed, unsaved>>
    BY <1>5 DEF UnpackSource, history
  <2>2. NoNewConfig
    BY <2>1, CleanedConfigs DEF IInv, Trees
  <2>. QED BY <1>0, <2>1, <2>2, QuietKeeps DEF Quiet, AtTree, FlagType
<1>6. CASE Stop
  BY <1>6, EndsKeeps DEF Stop
<1>7. CASE UNCHANGED vars
  <2>1. /\ UNCHANGED <<at, script, board, tree, config, image>> /\ r' = r
        /\ UNCHANGED <<failed, unsaved>>
    BY <1>7 DEF vars, memory, history, r
  <2>2. OnTheirWay => OnTheirWay'
    BY <2>1 DEF OnTheirWay, NoneMixed, ImagesOfOwnConfig
  <2>3. InPlace => InPlace'
    BY <2>1 DEF InPlace, Present
  <2>. QED BY <2>1, <2>2, <2>3 DEF Configs, FlagType
<1>. QED BY <1>1, <1>2, <1>3, <1>4, <1>5, <1>6, <1>7 DEF Next

LEMMA InitConfigs == Init => Configs
<1>. SUFFICES ASSUME Init PROVE Configs
  OBVIOUS
<1>1. \A x \in Revisions : Present(x) => tree[x].config = Nobody
  <2>1. CASE tree = [x \in Revisions |-> NoTree]
    BY <2>1 DEF Present
  <2>2. CASE tree = Finished
    BY <2>2 DEF Finished, Copied
  <2>. QED BY <2>1, <2>2 DEF Init
<1>2. OnTheirWay
  BY DEF Init, OnTheirWay, NoneMixed, ImagesOfOwnConfig
<1>3. InPlace
  BY <1>1 DEF Init, InPlace
<1>. QED BY <1>2, <1>3 DEF Init, Configs, FlagType, AtTree

-----------------------------------------------------------------------------
(* The theorems.                                                            *)

\* So the invariant holds throughout.
THEOREM Invariance == Spec => [](IInv /\ Configs)
<1>1. Init => IInv /\ Configs
  BY InitInv, InitConfigs
<1>2. (IInv /\ Configs) /\ [Next]_vars => (IInv /\ Configs)'
  BY NextInv, NextConfigs
<1>. QED BY <1>1, <1>2, PTL DEF Spec

\* The variables have their types, and what is checked out in a repository is a
\* branch there is, whatever scripts run and wherever they stop.
THEOREM TypeCorrect == Spec => []TypeOK
<1>1. IInv /\ Configs => TypeOK
  BY TypeParts DEF IInv, Trees, Boarding, Configs
<1>. QED BY <1>1, Invariance, PTL

\* Once ./build module coreboot has exited 0 on a complete download, every board
\* has its own patches in its branches, for any boards and any number of runs
\* and stops (module/coreboot:96-183).
THEOREM TreesStayPatched == Spec => []BranchesArePatched
<1>1. IInv => BranchesArePatched
  BY DEF IInv, Trees, ReadyBranches, DownloadedTrees, BranchesArePatched, Has, Made, Present, BranchOf
<1>. QED BY <1>1, Invariance, PTL

\* Every image of such trees is built from the board's own branches and, while no
\* menuconfig was left without saving where a failed script left a .config, from its
\* own config (withgrub_helper:63-115).
THEOREM ImagesStayRight == Spec => []ImagesAreRight
<1>1. IInv /\ Configs => ImagesAreRight
  BY DEF IInv, Boarding, ImagesAreOwn, Configs, OnTheirWay, ImagesOfOwnConfig, ImagesAreRight
<1>. QED BY <1>1, Invariance, PTL

\* No board is left with the config of another, but by a menuconfig that the user leaves
\* without saving where a failed script left a .config; and none is lost while no script
\* for a board fails or is stopped, whatever happens to the others: for any boards and
\* any number of runs and stops (config/grubupdate:56-58, grubreplace:46-49).
THEOREM ConfigsStayOwn == Spec => []ConfigsAreOwn
<1>1. Configs => ConfigsAreOwn
  BY DEF Configs, OnTheirWay, NoneMixed, InPlace, ConfigsAreOwn
<1>. QED BY <1>1, Invariance, PTL

=================================================================================
