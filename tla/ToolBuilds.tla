------------------------------ MODULE ToolBuilds ------------------------------
(***************************************************************************)
(* Building flashrom and bucts in their source trees: ./build module       *)
(* flashrom makes three programs out of one tree by patching flashchips.c  *)
(* back and forth, ./build module bucts static patches the Makefile,       *)
(* ./build release util does both for the archive of static executables,   *)
(* on trees of which it first makes a copy, and ./download gets a tree     *)
(* anew (src/resources/scripts/helpers/).                                  *)
(*                                                                         *)
(* All scripts run under set -e: the first command that fails ends them    *)
(* ("aborted"), and a signal, a full disk or a compiler error can do so at *)
(* any command ("stopped").  Nothing is undone then, and the user starts   *)
(* the same script again, or another one.                                  *)
(*                                                                         *)
(* Left out: whether flashrom is linked statically, which each build       *)
(* decides anew; the ich9deblob part of release/util, whose sources are    *)
(* not patched; and the revision and the patches that a download gives a   *)
(* tree, which no build changes.  A tree that is not whole builds nothing  *)
(* and cannot be patched; a third level of directories within one another  *)
(* is not told from the second.                                            *)
(***************************************************************************)
EXTENDS Naturals, Sequences

CONSTANTS
  Scripts,            \* those the user runs: "flashrom", "bucts static",
                      \* "bucts dynamic", "util", "download", "clean"
  MaxRuns, MaxStops   \* bounds: scripts started, scripts stopped

Programs == {"bucts", "flashrom"}
ChipPatches == <<"lenovobios_macronix", "lenovobios_sst">>
StaticLink == "staticlink"
Patches == {"lenovobios_macronix", "lenovobios_sst", StaticLink}

\* A file that is patched is the set of patches in it; a program is the set of
\* patches in what it was built from.
Gone == {"no such file"}
Source == (SUBSET Patches) \cup {Gone}
Binaries == {"bucts", "flashrom", "flashrom_normal", "lenovobios_macronix", "lenovobios_sst"}

NoTree == [kind |-> "none"]
Tree ==
  [kind : {"tree"}, whole : BOOLEAN, source : Source, backup : Source,
   built : [Binaries -> Source]]

Pristine ==
  [kind |-> "tree", whole |-> TRUE, source |-> {}, backup |-> Gone,
   built |-> [x \in Binaries |-> Gone]]

\* <program>/, <program>_/, and a <program>/ inside each of them.
Places == {"tree", "copy", "in tree", "in copy"}

ASSUME ToolsAssumption ==
  /\ Scripts \subseteq {"flashrom", "bucts static", "bucts dynamic", "util", "download", "clean"}
  /\ MaxRuns \in Nat /\ MaxStops \in Nat

VARIABLES
  at,       \* the command the running script has come to, or "idle"
  script,   \* the script the user started last
  prog,     \* the program it is at
  left,     \* patches left in the loop of module/flashrom
  target,   \* where cp -R copies to
  dir,      \* dir[p][place]
  archive,  \* the programs in the utility archive's directory
  outcome,  \* how the last script ended
  fresh,    \* history: no script was stopped since p's tree was downloaded, when
            \* no copy of it was left over
  tidy,     \* history: no copy was left over when the last script began
  assented, \* history: patch was allowed to do the opposite of what it was told
  utilOnly, \* history: ./build release util is the only script that was started
  runs, stops

history == <<fresh, tidy, assented, utilOnly>>
vars == <<at, script, prog, left, target, dir, archive, outcome, history, runs, stops>>

NoArchive == [x \in Binaries |-> Gone]
-----------------------------------------------------------------------------
Init ==
  /\ at = "idle" /\ script = "none" /\ prog = "flashrom" /\ left = << >> /\ target = "copy"
  /\ dir = [p \in Programs |-> [l \in Places |-> IF l = "tree" THEN Pristine ELSE NoTree]]
  /\ archive = NoArchive
  /\ outcome = "none" /\ fresh = [p \in Programs |-> TRUE]
  /\ tidy = TRUE /\ assented = FALSE /\ utilOnly = TRUE
  /\ runs = 0 /\ stops = 0

tree == dir[prog]["tree"]

Step(step) ==
  at' = step /\ UNCHANGED <<script, prog, left, target, archive, outcome, fresh, tidy, utilOnly,
                            runs, stops>>
Goto(step) == Step(step) /\ UNCHANGED assented
Ends(how) == at' = "idle" /\ outcome' = how
Aborts ==
  /\ Ends("aborted")
  /\ UNCHANGED <<script, prog, left, target, dir, archive, history, runs, stops>>

FirstStep(s, p) ==
  CASE s = "util" -> "copy"
    [] s = "download" -> "delete"
    [] s = "clean" -> "clean"
    [] s = "bucts static" -> "patch Makefile"
    [] s = "bucts dynamic" -> "make bucts"
    [] s = "flashrom" -> "make normal"

Start(s, p) ==
  /\ at = "idle" /\ runs < MaxRuns
  /\ at' = FirstStep(s, p) /\ script' = s /\ prog' = p
  /\ archive' = IF s = "util" THEN NoArchive ELSE archive
  /\ left' = ChipPatches
  /\ outcome' = "running"
  /\ tidy' = \A q \in Programs : dir[q]["copy"] = NoTree
  /\ utilOnly' = (utilOnly /\ s = "util")
  /\ runs' = runs + 1
  /\ UNCHANGED <<target, dir, fresh, assented, stops>>

\* A module script ends the run, or returns to release/util.
Returns ==
  IF script = "util"
  THEN at' = "collect" /\ outcome' = outcome
  ELSE Ends("ok")

-----------------------------------------------------------------------------
(* patch and make.                                                          *)

\* What becomes of the file when q is applied: of a patch that it finds applied,
\* patch asks whether to take it out instead.
AppliedOrSkipped(source, q) ==
  IF source = Gone THEN {} ELSE {source \cup {q}}

Applied(source, q) ==
  IF source = Gone THEN {}
  ELSE IF q \in source THEN {source \ {q}} ELSE {source \cup {q}}

\* make clean fails on a directory that has the name of the program, make on
\* sources that are not all there.
Usable == tree # NoTree /\ tree.whole
Buildable == Usable /\ dir[prog]["in tree"] = NoTree /\ tree.source # Gone

PutAt(l, t) == dir' = [dir EXCEPT ![prog][l] = t]
Put(field, value) == PutAt("tree", [tree EXCEPT ![field] = value])

\* patch <file>, which fails when the user does not let it take the patch out.
Patch(q, next) ==
  \/ \E new \in Applied(tree.source, q) :
       /\ Put("source", new)
       /\ assented' = (assented \/ q \notin new)
       /\ Step(next)
  \/ q \in tree.source /\ Aborts

\* make clean; make
Make(next) ==
  IF Buildable
  THEN Put("built", [tree.built EXCEPT ![prog] = tree.source]) /\ Goto(next)
  ELSE Aborts

\* mv <program> <name>, in the tree
Rename(from, to) ==
  Put("built", [tree.built EXCEPT ![to] = tree.built[from], ![from] = Gone])

-----------------------------------------------------------------------------
(* ./build module bucts                                                     *)

PatchMakefile ==
  /\ at = "patch Makefile"
  /\ IF Usable THEN Patch(StaticLink, "make bucts") ELSE Aborts

MakeBucts ==
  /\ at = "make bucts"
  /\ Make("reverse Makefile")

\* A dynamic build has nothing to reverse.
MakefileStays ==
  /\ at = "reverse Makefile"
  /\ Returns
  /\ UNCHANGED <<script, prog, left, target, dir, archive, history, runs, stops>>

\* patch -R, which asks the opposite question.
ReverseMakefile ==
  /\ at = "reverse Makefile"
  /\ \/ /\ IF script = "bucts dynamic" THEN UNCHANGED dir
           ELSE \E new \in Applied(tree.source, StaticLink) : Put("source", new)
        /\ Returns
        /\ UNCHANGED <<script, prog, left, target, archive, history, runs, stops>>
     \/ script # "bucts dynamic" /\ StaticLink \notin tree.source /\ Aborts

-----------------------------------------------------------------------------
(* ./build module flashrom                                                  *)

MakeNormal == at = "make normal" /\ Make("rename normal")

RenameNormal ==
  /\ at = "rename normal"
  /\ Rename("flashrom", "flashrom_normal") /\ Goto("next patch")

BackUpByMove ==
  /\ at = "next patch" /\ left # << >>
  /\ PutAt("tree", [tree EXCEPT !.built = [@ EXCEPT ![Head(left)] = Gone], !.backup = tree.source,
                                !.source = Gone])
  /\ Goto("patch")

\* rm -f flashrom_<patch>; cp flashchips.c flashchips.c_
BackUp ==
  /\ at = "next patch" /\ left # << >>
  /\ PutAt("tree", [tree EXCEPT !.built = [@ EXCEPT ![Head(left)] = Gone], !.backup = tree.source])
  /\ Goto("patch")

PatchChips == at = "patch" /\ Patch(Head(left), "make patched")

MakePatched == at = "make patched" /\ Make("rename patched")

RenamePatched ==
  /\ at = "rename patched"
  /\ Rename("flashrom", Head(left)) /\ Goto("remove patched")

RemoveChips == at = "remove patched" /\ Put("source", Gone) /\ Goto("restore")

Restore ==
  /\ at = "restore"
  /\ PutAt("tree", [tree EXCEPT !.source = tree.backup, !.backup = Gone])
  /\ left' = Tail(left)
  /\ at' = "next patch"
  /\ UNCHANGED <<script, prog, target, archive, outcome, history, runs, stops>>

NormalStays ==
  /\ at = "next patch" /\ left = << >>
  /\ Returns
  /\ UNCHANGED <<script, prog, left, target, dir, archive, history, runs, stops>>

RenameBack ==
  /\ at = "next patch" /\ left = << >>
  /\ Rename("flashrom_normal", "flashrom")
  /\ Returns
  /\ UNCHANGED <<script, prog, left, target, archive, history, runs, stops>>

-----------------------------------------------------------------------------
(* ./build release util, for bucts and then for flashrom                    *)

CopyOverCopy ==
  /\ at = "copy"
  /\ IF tree = NoTree
     THEN Aborts
     ELSE /\ PutAt("copy", [tree EXCEPT !.whole = FALSE])
          /\ target' = "copy"
          /\ at' = "copying"
          /\ UNCHANGED <<script, prog, left, archive, outcome, history, runs, stops>>

\* cp -R <program>/ <program>_/: into the copy if there is one already.
CopyTree ==
  /\ at = "copy"
  /\ IF tree = NoTree
     THEN Aborts
     ELSE LET to == IF dir[prog]["copy"] = NoTree THEN "copy" ELSE "in copy" IN
          /\ PutAt(to, [tree EXCEPT !.whole = FALSE])
          /\ target' = to
          /\ at' = "copying"
          /\ UNCHANGED <<script, prog, left, archive, outcome, history, runs, stops>>

CopyEnds ==
  /\ at = "copying"
  /\ dir' = IF target = "copy"
            THEN [dir EXCEPT ![prog]["copy"] = tree, ![prog]["in copy"] = dir[prog]["in tree"]]
            ELSE [dir EXCEPT ![prog]["in copy"] = tree]
  /\ Goto(IF prog = "bucts" THEN "patch Makefile" ELSE "make normal")

Shipped == [bucts |-> {"bucts"}, flashrom |-> Binaries \ {"bucts", "flashrom_normal"}]

\* The programs are moved into the archive.
Collect ==
  /\ at = "collect"
  /\ archive' = [x \in Binaries |-> IF x \in Shipped[prog] THEN tree.built[x] ELSE archive[x]]
  /\ Put("built", [x \in Binaries |-> IF x \in Shipped[prog] THEN Gone ELSE tree.built[x]])
  /\ at' = "remove tree"
  /\ UNCHANGED <<script, prog, left, target, outcome, history, runs, stops>>

BeginRemoveTree ==
  /\ at = "remove tree"
  /\ Put("whole", FALSE)
  /\ Goto("removing tree")

EndRemoveTree ==
  /\ at = "removing tree"
  /\ dir' = [dir EXCEPT ![prog]["tree"] = NoTree, ![prog]["in tree"] = NoTree]
  /\ Goto("move copy")

CopyBack ==
  /\ at = "move copy"
  /\ PutAt("tree", dir[prog]["copy"])
  /\ IF prog = "bucts"
     THEN at' = "copy" /\ prog' = "flashrom" /\ outcome' = outcome
     ELSE Ends("ok") /\ prog' = prog
  /\ UNCHANGED <<script, left, target, archive, history, runs, stops>>

MoveCopy ==
  /\ at = "move copy"
  /\ dir' = [dir EXCEPT ![prog] =
               [l \in Places |-> CASE l = "tree" -> @["copy"]
                                   [] l = "in tree" -> @["in copy"]
                                   [] OTHER -> NoTree]]
  /\ IF prog = "bucts"
     THEN at' = "copy" /\ prog' = "flashrom" /\ outcome' = outcome
     ELSE Ends("ok") /\ prog' = prog
  /\ UNCHANGED <<script, left, target, archive, history, runs, stops>>

-----------------------------------------------------------------------------
(* ./download flashrom, ./download bucts: delete, then clone, reset, am.    *)

Delete ==
  /\ at = "delete"
  /\ dir' = [dir EXCEPT ![prog]["tree"] = NoTree, ![prog]["in tree"] = NoTree]
  /\ Goto("clone")

\* A download that is stopped after this leaves a tree that builds, of whatever
\* revision upstream is at.
Clone ==
  /\ at = "clone"
  /\ PutAt("tree", Pristine)
  /\ Goto("prepare")

\* git reset --hard; git am
Prepare ==
  /\ at = "prepare"
  /\ fresh' = [fresh EXCEPT ![prog] = dir[prog]["copy"] = NoTree]
  /\ Ends("ok")
  /\ UNCHANGED <<script, prog, left, target, dir, archive, tidy, assented, utilOnly, runs, stops>>

\* ./build clean flashrom, ./build clean bucts: the backup, the patches and
\* flashrom_normal stay.
Clean ==
  /\ at = "clean"
  /\ IF tree = NoTree \/ dir[prog]["in tree"] # NoTree
     THEN Aborts
     ELSE /\ Put("built", [x \in Binaries |->
                            IF x = "flashrom_normal" THEN tree.built[x] ELSE Gone])
          /\ Ends("ok")
          /\ UNCHANGED <<script, prog, left, target, archive, history, runs, stops>>

-----------------------------------------------------------------------------
Stop ==
  /\ at # "idle" /\ stops < MaxStops
  /\ Ends("stopped")
  /\ fresh' = [p \in Programs |-> FALSE]
  /\ stops' = stops + 1
  /\ UNCHANGED <<script, prog, left, target, dir, archive, tidy, assented, utilOnly, runs>>

StartAny ==
  \/ "util" \in Scripts /\ Start("util", "bucts")
  \/ "flashrom" \in Scripts /\ Start("flashrom", "flashrom")
  \/ \E s \in Scripts \cap {"bucts static", "bucts dynamic"} : Start(s, "bucts")
  \/ \E s \in Scripts \cap {"download", "clean"}, p \in Programs : Start(s, p)

BuildStep ==
  \/ PatchMakefile \/ MakeBucts \/ ReverseMakefile
  \/ MakeNormal \/ RenameNormal \/ BackUp \/ PatchChips \/ MakePatched \/ RenamePatched
  \/ RemoveChips \/ Restore \/ RenameBack

UtilStep ==
  \/ CopyTree \/ CopyEnds \/ Collect \/ BeginRemoveTree \/ EndRemoveTree \/ MoveCopy

Next == StartAny \/ BuildStep \/ UtilStep \/ Delete \/ Clone \/ Prepare \/ Clean \/ Stop

Spec == Init /\ [][Next]_vars

-----------------------------------------------------------------------------
(* Properties.                                                              *)

\* Unless a script was stopped, the file that is patched is missing only between the
\* rm of the patched one and the mv of its backup (module/flashrom:68-88).
TypeOK ==
  /\ \A p \in Programs : \A l \in Places : dir[p][l] = NoTree \/ dir[p][l] \in Tree
  /\ \A p \in Programs :     \* a directory is in a directory
       /\ dir[p]["in tree"] # NoTree => dir[p]["tree"] # NoTree
       /\ dir[p]["in copy"] # NoTree => dir[p]["copy"] # NoTree
       /\ fresh[p] /\ dir[p]["tree"] # NoTree /\ dir[p]["tree"].source = Gone =>
            p = prog /\ at = "restore"
  /\ archive \in [Binaries -> Source]
  /\ prog \in Programs /\ target \in {"copy", "in copy"}
  /\ outcome \in {"none", "running", "ok", "stopped", "aborted"}

\* What a program of that name should have been built from.
Right(x) ==
  CASE x = "bucts" -> {StaticLink}
    [] x \in {"lenovobios_macronix", "lenovobios_sst"} -> {x}
    [] OTHER -> {}

\* When ./build module flashrom exits 0, the program for each flash part was
\* built with the patch for it and no other, the normal one with none, in
\* whatever state of patching an earlier stopped run left the sources; likewise
\* bucts static.  This needs a user who never lets patch take a patch out: one
\* that does gets flashrom_lenovobios_* without its patch (module/flashrom:70).
NamesAreTrue ==
  outcome = "ok" /\ ~assented =>
    /\ script = "flashrom" =>
         \A x \in Shipped["flashrom"] : dir["flashrom"]["tree"].built[x] = Right(x)
    /\ script = "bucts static" => dir["bucts"]["tree"].built["bucts"] = Right("bucts")

\* The same of the programs in the utility archive when ./build release util
\* exits 0, which are moved there from trees that stopped runs may have left
\* inside one another.
ArchiveIsTrue ==
  outcome = "ok" /\ ~assented /\ script = "util" =>
    \A x \in UNION {Shipped[p] : p \in Programs} : archive[x] = Right(x)

\* ./build release util does not destroy the last unpatched copy of a program's
\* sources, wherever it is stopped, once, and however often it is started again
\* (release/util:89-110).  A second stop can: one while copying, one while the
\* tree is patched, and the next run merges the patched tree over the copy.
SourcesSurvive ==
  utilOnly /\ stops <= 1 =>
    \A p \in Programs : \E l \in Places :
      LET t == dir[p][l] IN t # NoTree /\ t.whole /\ (t.source = {} \/ t.backup = {})

\* ./build release util that exits 0 and found no left-over copies puts unpatched
\* trees back, and leaves no copy.
UtilPutsTreesBack ==
  outcome = "ok" /\ ~assented /\ script = "util" /\ tidy =>
    \A p \in Programs :
      /\ dir[p]["tree"].whole /\ dir[p]["tree"].source = {}
      /\ \A l \in Places \ {"tree"} : dir[p][l] = NoTree

\* As long as nothing stops a script, no number of builds of any kind makes a
\* later one fail: what they patch they put back.  After one that was stopped,
\* ./download does for that, unless a copy was left over: it is not deleted, and
\* the next ./build release util puts it in place of the new tree.
UndisturbedNeverAborts == outcome = "aborted" => \E p \in Programs : ~fresh[p]
===============================================================================
