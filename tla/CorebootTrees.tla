----------------------------- MODULE CorebootTrees -----------------------------
(***************************************************************************)
(* The coreboot trees: ./download coreboot makes one per revision and      *)
(* deletes the blobs, ./build module coreboot turns each into a git        *)
(* repository (and its vboot into another) with a patched branch for every *)
(* board, and ./build roms, ./build config grubupdate, grubmodify and      *)
(* grubreplace check these branches out (src/resources/scripts/helpers/).  *)
(*                                                                         *)
(* All scripts run under set -e: the first command that fails ends them    *)
(* ("aborted"); a signal, make or git am can end them anywhere             *)
(* ("stopped"). Everything stays as it is then, and the user may start any *)
(* script. BuildRoms has the commands of a ROM build that are left out     *)
(* here, where a build is one image of one board.                          *)
(***************************************************************************)
EXTENDS Naturals, Sequences, SequencesExt

CONSTANTS
  BoardOrder,        \* boards in the order of the globs over config/*/*
  Revisions,
  Revision,          \* Revision[b]: cbrevision of b, which implies vbootrevision
  MaxRuns, MaxStops  \* bounds: scripts started, scripts stopped

Boards == ToSet(BoardOrder)
Nobody == "nobody"

ASSUME TreesAssumption ==
  /\ BoardOrder \in Seq(Boards) /\ BoardOrder # << >> /\ IsInjective(BoardOrder)
  /\ {"master", "half", "no branch", Nobody} \cap Boards = {}
  /\ Revision \in [Boards -> Revisions]
  /\ MaxRuns \in Nat /\ MaxStops \in Nat

VARIABLES
  at,          \* the command the running script has come to, or "idle"
  script,      \* the script started last
  board,       \* the board it is at
  part,        \* the repository it is in: "coreboot", or "vboot" inside
  todo,        \* boards left in its loop
  revs,        \* trees left in its loop
  tree,        \* tree[r]: coreboot/<r>/<r>/
  clone,       \* whether coreboot/coreboot/ is there
  config,      \* config[b]: whose config resources/libreboot/config/ has for b
  image,       \* image[b]: the image of b under bin/
  outcome,     \* how the last script ended
  patches,     \* resources/libreboot/patch/ is there: no unpacked _src archive
  downloaded,  \* history: the trees are of a download that exited 0
  ready,       \* history: and ./build module coreboot has exited 0 on them,
               \* with the patches there
  failed,      \* history: a build of a board or a change of its config has failed
               \* or been stopped
  unsaved,     \* history: a menuconfig that found a .config was left without saving
  runs, stops

memory == <<board, part, todo, revs>>
history == <<downloaded, ready, failed, unsaved>>
vars ==
  <<at, script, memory, tree, clone, config, image, outcome, patches, history, runs, stops>>

-----------------------------------------------------------------------------
(* A branch is the set of boards whose patches are in it, with "half" while *)
(* git am is at it.  A .config is the board whose config it was.            *)

Patched == SUBSET (Boards \cup {"half"})
NoBranch == {"no branch"}
Parts == {"coreboot", "vboot"}

NoRepo == [kind |-> "none"]
Repo ==
  [kind : {"repo"}, head : Boards \cup {"master"}, branch : [Boards -> Patched \cup {NoBranch}]]
NewRepo == [kind |-> "repo", head |-> "master", branch |-> [b \in Boards |-> NoBranch]]

NoTree == [kind |-> "none"]
Tree ==
  [kind : {"tree"},
   reset : BOOLEAN,        \* at its revision
   upstream : BOOLEAN,     \* with coreboot's own .git
   blobs : BOOLEAN,
   tools : BOOLEAN,        \* cbfstool and others, and the link to crossgcc
   config : Boards \cup {Nobody},
   repo : [Parts -> Repo \cup {NoRepo}]]

Copied ==
  [kind |-> "tree", reset |-> FALSE, upstream |-> TRUE, blobs |-> TRUE, tools |-> FALSE,
   config |-> Nobody, repo |-> [p \in Parts |-> NoRepo]]

NoImage == [kind |-> "none"]
Image ==
  [kind : {"image"}, coreboot : Patched \cup {NoBranch}, vboot : Patched \cup {NoBranch},
   blobs : BOOLEAN, config : Boards \cup {Nobody}, ready : BOOLEAN]

r == Revision[board]
here == tree[r].repo[part]       \* the repository the script is in

\* What is checked out.
Contents(repo) == IF repo.head = "master" THEN {} ELSE repo.branch[repo.head]

\* Trees as a download and a build of the modules leave them.
Finished ==
  [x \in Revisions |->
     [Copied EXCEPT !.reset = TRUE, !.upstream = FALSE, !.blobs = FALSE, !.tools = TRUE,
        !.repo = [p \in Parts |->
          [NewRepo EXCEPT !.branch =
             [b \in Boards |-> IF Revision[b] = x THEN {b} ELSE NoBranch]]]]]

-----------------------------------------------------------------------------
Init ==
  /\ at = "idle" /\ script = "none"
  /\ board = BoardOrder[1] /\ part = "coreboot" /\ todo = << >> /\ revs = {}
  /\ \/ tree = [x \in Revisions |-> NoTree] /\ downloaded = FALSE
     \/ tree = Finished /\ downloaded = TRUE
  /\ ready = downloaded /\ failed = FALSE /\ unsaved = FALSE
  /\ clone = FALSE
  /\ config = [b \in Boards |-> b]
  /\ image = [b \in Boards |-> NoImage]
  /\ outcome = "none" /\ patches = TRUE
  /\ runs = 0 /\ stops = 0

Goto(step) == at' = step /\ UNCHANGED <<script, outcome, patches, history, runs, stops>>

Ends(how) ==
  /\ at' = "idle" /\ outcome' = how
  /\ todo' = << >> /\ revs' = {}
  /\ failed' = (failed \/ (how # "ok" /\ script \in {"build", "update", "replace"}))
  /\ UNCHANGED <<script, board, part, patches, unsaved, runs>>

Aborts == Ends("aborted") /\ UNCHANGED <<tree, clone, config, image, downloaded, ready, stops>>
Succeeds == Ends("ok") /\ UNCHANGED stops

\* A board without config is passed over in silence by ./build roms.
FirstStep(s, b) ==
  CASE s = "download" -> "delete"
    [] s = "module" -> "init coreboot"
    [] s = "clean" -> "clean"
    [] s = "build" /\ config[b] = Nobody -> "pass over"
    [] OTHER -> "checkout"

Start(s, b) ==
  /\ at = "idle" /\ runs < MaxRuns
  /\ at' = FirstStep(s, b) /\ script' = s /\ board' = b /\ part' = "coreboot"
  /\ todo' = BoardOrder
  /\ revs' = {x \in Revisions : tree[x] # NoTree}
  /\ outcome' = "running"
  /\ runs' = runs + 1
  /\ UNCHANGED <<tree, clone, config, image, patches, history, stops>>

-----------------------------------------------------------------------------
(* ./download coreboot                                                      *)

DeleteTrees ==
  /\ at = "delete"
  /\ tree' = [x \in Revisions |-> NoTree] /\ clone' = FALSE
  /\ downloaded' = FALSE /\ ready' = FALSE
  /\ at' = "clone"
  /\ UNCHANGED <<script, memory, config, image, outcome, patches, failed, unsaved, runs, stops>>

Clone ==
  /\ at = "clone"
  /\ clone' = TRUE
  /\ Goto("copy")
  /\ UNCHANGED <<memory, tree, config, image>>

\* A revision that has its directory is not copied again.
CopyRevision ==
  /\ at = "copy" /\ todo # << >>
  /\ board' = Head(todo) /\ todo' = Tail(todo)
  /\ IF tree[Revision[Head(todo)]] = NoTree
     THEN tree' = [tree EXCEPT ![Revision[Head(todo)]] = Copied] /\ Goto("reset")
     ELSE UNCHANGED tree /\ Goto("copy")
  /\ UNCHANGED <<part, revs, clone, config, image>>

ResetRevision ==
  /\ at = "reset"
  /\ tree' = [tree EXCEPT ![r].reset = TRUE]
  /\ Goto("copy")
  /\ UNCHANGED <<memory, clone, config, image>>

RemoveClone ==
  /\ at = "copy" /\ todo = << >>
  /\ clone' = FALSE
  /\ revs' = {x \in Revisions : tree[x] # NoTree}
  /\ Goto("remove .git")
  /\ UNCHANGED <<board, part, todo, tree, config, image>>

\* rm -Rf of .git* and 3rdparty/*/.git*; util/crossgcc/
RemoveHistory ==
  /\ at = "remove .git"
  /\ IF revs = {}
     THEN todo' = BoardOrder /\ UNCHANGED <<tree, revs>> /\ Goto("deblob")
     ELSE /\ \E x \in revs : tree' = [tree EXCEPT ![x].upstream = FALSE] /\ revs' = revs \ {x}
          /\ UNCHANGED todo /\ Goto("remove .git")
  /\ UNCHANGED <<board, part, clone, config, image>>

\* The blobs in the list of a board's revisions.
Deblob ==
  /\ at = "deblob" /\ todo # << >>
  /\ tree' = [tree EXCEPT ![Revision[Head(todo)]].blobs = FALSE]
  /\ todo' = Tail(todo)
  /\ Goto("deblob")
  /\ UNCHANGED <<board, part, revs, clone, config, image>>

DownloadEnds ==
  /\ at = "deblob" /\ todo = << >>
  /\ downloaded' = TRUE
  /\ Succeeds
  /\ UNCHANGED <<tree, clone, config, image, ready>>

-----------------------------------------------------------------------------
(* ./build module coreboot                                                  *)

\* git init, add, commit.  In a repository that is there already git commit
\* fails, unless something new has come into it.  In coreboot/coreboot/, which a
\* download that was stopped leaves, what looks like trees has no vboot in it.
InitCoreboot ==
  /\ at = "init coreboot" /\ revs # {}
  /\ \/ \E x \in revs :
          /\ board' \in {b \in Boards : Revision[b] = x}
          /\ IF tree[x].repo["coreboot"] = NoRepo /\ ~tree[x].upstream
             THEN tree' = [tree EXCEPT ![x].repo["coreboot"] = NewRepo]
             ELSE UNCHANGED tree
          /\ revs' = revs \ {x}
          /\ Goto("init vboot")
          /\ UNCHANGED <<part, todo, clone, config, image>>
     \/ /\ clone \/ \E x \in revs : tree[x].upstream \/ tree[x].repo["coreboot"] # NoRepo
        /\ Aborts

InitVboot ==
  /\ at = "init vboot"
  /\ \/ /\ IF tree[r].repo["vboot"] = NoRepo /\ ~tree[r].upstream
           THEN tree' = [tree EXCEPT ![r].repo["vboot"] = NewRepo]
           ELSE ~tree[r].upstream /\ UNCHANGED tree
        /\ Goto("init coreboot")
        /\ UNCHANGED <<memory, clone, config, image>>
     \/ (tree[r].upstream \/ tree[r].repo["vboot"] # NoRepo) /\ Aborts

NextBoard ==
  /\ at = "init coreboot" /\ revs = {} /\ todo # << >>
  /\ IF clone \/ tree[Revision[Head(todo)]] = NoTree
     THEN Aborts
     ELSE /\ board' = Head(todo) /\ todo' = Tail(todo) /\ part' = "coreboot"
          /\ Goto("create branch")
          /\ UNCHANGED <<revs, tree, clone, config, image>>

PutRepo(repo) == tree' = [tree EXCEPT ![r].repo[part] = repo]

\* git branch starts at what is checked out; create_branch checks the branch
\* out, and master, and its caller the branch again.
CreateBranch ==
  /\ at = "create branch"
  /\ IF here.branch[board] # NoBranch
     THEN Aborts
     ELSE /\ PutRepo([here EXCEPT !.branch[board] = Contents(here), !.head = board])
          /\ Goto("patch")
          /\ UNCHANGED <<memory, clone, config, image>>

\* git am, in the branch that is checked out, of the patches there are.
BeginPatches ==
  /\ at = "patch"
  /\ IF patches
     THEN PutRepo([here EXCEPT !.branch[here.head] = @ \cup {board, "half"}]) /\ Goto("patching")
     ELSE UNCHANGED tree /\ Goto("back to master")
  /\ UNCHANGED <<memory, clone, config, image>>

EndPatches ==
  /\ at = "patching"
  /\ PutRepo([here EXCEPT !.branch[here.head] = @ \ {"half"}])
  /\ Goto("back to master")
  /\ UNCHANGED <<memory, clone, config, image>>

StayOnBranch ==
  /\ at = "back to master"
  /\ IF part = "coreboot"
     THEN part' = "vboot" /\ Goto("create branch")
     ELSE part' = part /\ Goto(IF todo = << >> THEN "utilities" ELSE "init coreboot")
  /\ UNCHANGED <<board, todo, revs, tree, clone, config, image>>

BackToMaster ==
  /\ at = "back to master"
  /\ PutRepo([here EXCEPT !.head = "master"])
  /\ IF part = "coreboot"
     THEN part' = "vboot" /\ Goto("create branch")
     ELSE part' = part /\ Goto(IF todo = << >> THEN "utilities" ELSE "init coreboot")
  /\ UNCHANGED <<board, todo, revs, clone, config, image>>

BuildUtilities ==
  /\ at = "utilities"
  /\ tree' = [x \in Revisions |->
                IF tree[x] = NoTree THEN NoTree ELSE [tree[x] EXCEPT !.tools = TRUE]]
  /\ ready' = (downloaded /\ patches)
  /\ Succeeds
  /\ UNCHANGED <<clone, config, image, downloaded>>

\* ./build clean coreboot: distclean in each tree, and the utilities.  The
\* repositories stay, with their branches.
Cleanable == ~clone /\ \E x \in Revisions : tree[x] # NoTree
Cleaned ==
  [x \in Revisions |->
     IF tree[x] = NoTree THEN NoTree ELSE [tree[x] EXCEPT !.tools = FALSE, !.config = Nobody]]

Clean ==
  /\ at = "clean"
  /\ IF Cleanable
     THEN tree' = Cleaned /\ Succeeds /\ UNCHANGED <<clone, config, image, downloaded, ready>>
     ELSE Aborts

\* ./build release src, and the user goes on in the unpacked archive: a copy in
\* which ./build clean all was run, without the patches and ./download.
UnpackSource ==
  /\ at = "idle" /\ patches /\ Cleanable
  /\ patches' = FALSE
  /\ tree' = Cleaned
  /\ image' = [b \in Boards |-> NoImage]
  /\ UNCHANGED <<at, script, memory, clone, config, outcome, history, runs, stops>>

-----------------------------------------------------------------------------
(* ./build roms and ./build config, for one board.                          *)

PassOver ==
  /\ at = "pass over"
  /\ Succeeds
  /\ UNCHANGED <<tree, clone, config, image, downloaded, ready>>

NextStep ==
  IF part = "coreboot" THEN "checkout"
  ELSE CASE script = "build" -> "configure"
         [] script = "update" -> "take config"
         [] script = "replace" -> "menuconfig"

CheckoutUntested ==
  /\ at = "checkout"
  /\ IF tree[r] = NoTree \/ here = NoRepo
     THEN Aborts
     ELSE /\ PutRepo([here EXCEPT !.head = board])
          /\ part' = "vboot"
          /\ Goto(NextStep)
          /\ UNCHANGED <<board, todo, revs, clone, config, image>>

\* git checkout <payload>_<board>, in coreboot and then in vboot.
Checkout ==
  /\ at = "checkout"
  /\ IF tree[r] = NoTree \/ here = NoRepo \/ here.branch[board] = NoBranch
     THEN Aborts
     ELSE /\ PutRepo([here EXCEPT !.head = board])
          /\ part' = "vboot"
          /\ Goto(NextStep)
          /\ UNCHANGED <<board, todo, revs, clone, config, image>>

ConfigureUnlessConfigured ==
  /\ at = "configure"
  /\ tree' = IF tree[r].config = Nobody THEN [tree EXCEPT ![r].config = config[board]] ELSE tree
  /\ Goto("make")
  /\ UNCHANGED <<memory, clone, config, image>>

\* make clean; the config is copied to .config.
Configure ==
  /\ at = "configure"
  /\ tree' = [tree EXCEPT ![r].config = config[board]]
  /\ Goto("make")
  /\ UNCHANGED <<memory, clone, config, image>>

\* make, and cbfstool; the image is moved to bin/.
MakeImage ==
  /\ at = "make"
  /\ IF ~tree[r].tools
     THEN Aborts
     ELSE /\ image' = [image EXCEPT ![board] =
                         [kind |-> "image", coreboot |-> Contents(tree[r].repo["coreboot"]),
                          vboot |-> Contents(tree[r].repo["vboot"]), blobs |-> tree[r].blobs,
                          config |-> tree[r].config, ready |-> ready]]
          /\ Goto("remove .config")
          /\ UNCHANGED <<memory, tree, clone, config>>

RemoveConfig ==
  /\ at = "remove .config"
  /\ tree' = [tree EXCEPT ![r].config = Nobody]
  /\ part' = "coreboot"
  /\ Goto("leave")
  /\ UNCHANGED <<board, todo, revs, clone, config, image>>

\* mv config .config
TakeConfigIfThere ==
  /\ at = "take config"
  /\ tree' = IF config[board] = Nobody THEN tree
             ELSE [tree EXCEPT ![r].config = config[board]]
  /\ config' = [config EXCEPT ![board] = Nobody]
  /\ Goto("oldconfig")
  /\ UNCHANGED <<memory, clone, image>>

TakeConfig ==
  /\ at = "take config"
  /\ IF config[board] = Nobody
     THEN Aborts
     ELSE /\ tree' = [tree EXCEPT ![r].config = config[board]]
          /\ config' = [config EXCEPT ![board] = Nobody]
          /\ Goto("oldconfig")
          /\ UNCHANGED <<memory, clone, image>>

\* make menuconfig, from whatever .config there is: the user makes it the board's and
\* saves it, or leaves without saving.
MenuConfig ==
  /\ at = "menuconfig"
  /\ \/ tree' = [tree EXCEPT ![r].config = board] /\ UNCHANGED unsaved
     \/ UNCHANGED tree /\ unsaved' = (unsaved \/ tree[r].config # Nobody)
  /\ at' = "oldconfig"
  /\ UNCHANGED <<script, memory, clone, config, image, outcome, patches, downloaded, ready,
                 failed, runs, stops>>

\* After make oldconfig or menuconfig: mv .config config
ReturnConfig ==
  /\ at = "oldconfig"
  /\ IF tree[r].config = Nobody
     THEN Aborts
     ELSE /\ config' = [config EXCEPT ![board] = tree[r].config]
          /\ tree' = [tree EXCEPT ![r].config = Nobody]
          /\ part' = "coreboot"
          /\ Goto("leave")
          /\ UNCHANGED <<board, todo, revs, clone, image>>

\* git checkout master
Leave ==
  /\ at = "leave"
  /\ PutRepo([here EXCEPT !.head = "master"])
  /\ IF part = "coreboot"
     THEN part' = "vboot" /\ Goto("leave") /\ UNCHANGED <<board, todo, revs>>
          /\ UNCHANGED <<clone, config, image>>
     ELSE Succeeds /\ UNCHANGED <<clone, config, image, downloaded, ready>>

-----------------------------------------------------------------------------
Stop ==
  /\ at # "idle" /\ stops < MaxStops
  /\ Ends("stopped")
  /\ stops' = stops + 1
  /\ UNCHANGED <<tree, clone, config, image, downloaded, ready>>

StartAny ==
  \/ patches /\ Start("download", BoardOrder[1])
  \/ \E s \in {"module", "clean"} : Start(s, BoardOrder[1])
  \/ \E s \in {"build", "update", "replace"}, b \in Boards : Start(s, b)

DownloadStep ==
  \/ DeleteTrees \/ Clone \/ CopyRevision \/ ResetRevision \/ RemoveClone \/ RemoveHistory
  \/ Deblob \/ DownloadEnds

ModuleStep ==
  \/ InitCoreboot \/ InitVboot \/ NextBoard \/ CreateBranch \/ BeginPatches \/ EndPatches
  \/ BackToMaster \/ BuildUtilities \/ Clean

BoardStep ==
  \/ PassOver \/ Checkout \/ Configure \/ MakeImage \/ RemoveConfig \/ TakeConfig \/ MenuConfig
  \/ ReturnConfig \/ Leave

Next == StartAny \/ DownloadStep \/ ModuleStep \/ BoardStep \/ UnpackSource \/ Stop

Spec == Init /\ [][Next]_vars

-----------------------------------------------------------------------------
(* Properties.                                                              *)

TypeOK ==
  /\ tree \in [Revisions -> Tree \cup {NoTree}]
  /\ \A x \in Revisions : tree[x] # NoTree =>
       \A p \in Parts :                     \* what is checked out exists
         LET repo == tree[x].repo[p] IN
         repo # NoRepo /\ repo.head # "master" => repo.branch[repo.head] # NoBranch
  /\ board \in Boards /\ part \in Parts /\ todo \in Seq(Boards) /\ revs \subseteq Revisions
  /\ clone \in BOOLEAN
  /\ config \in [Boards -> Boards \cup {Nobody}]
  /\ image \in [Boards -> Image \cup {NoImage}]
  /\ outcome \in {"none", "running", "ok", "stopped", "aborted"}
  /\ {patches, downloaded, ready, failed, unsaved} \subseteq BOOLEAN

\* Once ./build module coreboot has exited 0 on the trees of a download that
\* exited 0, and until the next download, every board has a branch in coreboot
\* and in vboot with its own patches, all of them, and no other board's, and no
\* tree has blobs: no order of stopped, failed and repeated scripts spoils that
\* (module/coreboot:96-183, download/coreboot:100-151).  In an unpacked _src
\* archive the patches are not there: the script then exits 0 with branches that
\* have none, unless the archive was made from trees that had them already.
BranchesArePatched ==
  ready => \A b \in Boards :
    LET t == tree[Revision[b]] IN
    /\ t # NoTree /\ t.reset /\ ~t.blobs
    /\ \A p \in Parts : t.repo[p] # NoRepo /\ t.repo[p].branch[b] = {b}

\* An image that is built on such trees is built from the board's own branches
\* in coreboot and in vboot, from its own config and without blobs, whatever
\* branch and .config earlier scripts left there (withgrub_helper:63-115): unless a
\* menuconfig made another board's config its own (see ConfigsAreOwn).
ImagesAreRight ==
  \A b \in Boards : image[b] # NoImage /\ image[b].ready =>
    /\ image[b].coreboot = {b} /\ image[b].vboot = {b} /\ ~image[b].blobs
    /\ ~unsaved => image[b].config = b

\* Configs are moved through one file in a tree that boards share
\* (config/grubupdate:56-58, grubmodify:56-58, grubreplace:46-49).  No board gets
\* another's, although scripts can be stopped while a config is away: unless the user
\* leaves menuconfig without saving where such a script left a .config.  None is lost
\* either, until a script for a board fails or is stopped: a config that is not in its
\* place is in the tree, and the script that took it is about to put it back.
ConfigsAreOwn ==
  /\ ~unsaved => \A b \in Boards : config[b] \in {b, Nobody}
  /\ ~failed => \A b \in Boards :
       config[b] = b \/ (at = "oldconfig" /\ board = b /\ tree[Revision[b]].config = b)
===============================================================================
