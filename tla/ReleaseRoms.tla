------------------------------ MODULE ReleaseRoms ------------------------------
(***************************************************************************)
(* ./build release roms next to ./build roms: every board directory under  *)
(* bin/<payload>/ is copied, with version and change log, and packed into  *)
(* release/<version>/rom/<payload>/                                        *)
(* (src/resources/scripts/helpers/build/release/roms).                     *)
(*                                                                         *)
(* The builds are what RomShelf says of them.  The copy is made inside     *)
(* bin/<payload>/, so that one left there by a release that was stopped is *)
(* in the way of the next.  One user runs one script at a time; the        *)
(* version is the same in all releases.                                    *)
(***************************************************************************)
EXTENDS RomShelf

CONSTANTS
  Early,                           \* names that sort before those of the copies, libreboot_*
  MaxRuns, MaxReleases, MaxStops   \* bounds

NoBoard == "no board"

ASSUME ReleaseAssumption ==
  /\ NoBoard \notin Boards /\ Families \subseteq SUBSET Boards
  /\ MaxRuns \in Nat /\ MaxReleases \in Nat /\ MaxStops \in Nat

VARIABLES
  git,       \* there is a git repository: this is no unpacked _src archive
  at,        \* the command the release script has come to, or "idle"
  todo,      \* boards left in the loop
  board,     \* the board of the loop
  found,     \* early boards that had a copy when the release began
  copy,      \* copy[b]: the directory of the archive's name, None if there is none
  archive,   \* archive[b]: the images in the packed archive
  released,  \* how the last release ended; "none" again when a build begins
  tidy,      \* history: the last release found no copies, and no tar of it failed
  releases, stops

release == <<git, at, todo, board, found, copy, archive, released, tidy, releases, stops>>

\* Contents of a copy or an archive; `whole` is FALSE while it is made or when
\* it was cut short.
None == [kind |-> "none"]
Holding(images, whole) == [kind |-> "images", images |-> images, whole |-> whole]

ReleaseInit ==
  /\ Init
  /\ git \in BOOLEAN
  /\ at = "idle" /\ todo = {} /\ board = NoBoard /\ found = {}
  /\ copy = [b \in Boards |-> None] /\ archive = [b \in Boards |-> None]
  /\ released = "none" /\ tidy = TRUE
  /\ releases = 0 /\ stops = 0

StartReleaseOfNew ==
  /\ at = "idle" /\ outcome # "running" /\ releases < MaxReleases
  /\ \E b \in Boards : shelf[b] # << >>
  /\ todo' = {b \in Boards : shelf[b] # << >> /\ archive[b] = None}
  /\ found' = {b \in Boards : b \in Early /\ copy[b] # None}
  /\ at' = "next board"
  /\ released' = "running"
  /\ tidy' = \A b \in Boards : copy[b] = None
  /\ releases' = releases + 1
  /\ UNCHANGED <<board, copy, archive, stops>>

StartRelease ==
  /\ at = "idle" /\ outcome # "running" /\ releases < MaxReleases
  /\ \E b \in Boards : shelf[b] # << >>      \* else: no bin/, exit 1
  /\ todo' = {b \in Boards : shelf[b] # << >>}
  /\ found' = {b \in Boards : b \in Early /\ copy[b] # None}
  /\ at' = "next board"
  /\ released' = "running"
  /\ tidy' = \A b \in Boards : copy[b] = None
  /\ releases' = releases + 1
  /\ UNCHANGED <<board, copy, archive, stops>>

\* The old archive is deleted under a name that has no payload in it, which no
\* archive has: it stays.  (A copy in the way is taken for a board here and
\* packed under a name of its own; but see CopyIsGone.)
DeleteOldArchive ==
  /\ at = "next board"
  /\ \E b \in todo : board' = b /\ todo' = todo \ {b}
  /\ at' = "copy"
  /\ UNCHANGED <<found, copy, archive, released, tidy, releases, stops>>

\* cp -R <board>/ <archive name>/: into a directory of that name if there is
\* one, whose images then stay on top.
BeginCopy ==
  /\ at = "copy"
  /\ copy' = IF copy[board] = None
             THEN [copy EXCEPT ![board] = Holding(shelf[board], FALSE)] ELSE copy
  /\ at' = "copying"
  /\ UNCHANGED <<todo, board, found, archive, released, tidy, releases, stops>>

CopyRemovedEarly ==
  /\ at = "copying"
  /\ copy' = [copy EXCEPT ![board] = None]
  /\ at' = "change log"
  /\ UNCHANGED <<todo, board, found, archive, released, tidy, releases, stops>>

EndCopy ==
  /\ at = "copying"
  /\ copy' = IF copy[board].images = shelf[board]
             THEN [copy EXCEPT ![board].whole = TRUE] ELSE copy
  /\ at' = "change log"
  /\ UNCHANGED <<todo, board, found, archive, released, tidy, releases, stops>>

\* The test for the file `version` is made in bin/<payload>/, where it never
\* is: the change log comes from git log, even where there is no repository.
ChangeLog ==
  /\ at = "change log"
  /\ IF git
     THEN at' = "pack" /\ UNCHANGED <<released, board, todo>>
     ELSE at' = "idle" /\ released' = "aborted" /\ board' = NoBoard /\ todo' = {}
  /\ UNCHANGED <<found, copy, archive, tidy, releases, stops>>

\* tar | xz >archive
BeginPack ==
  /\ at = "pack"
  /\ archive' = [archive EXCEPT ![board] = Holding(copy[board].images, FALSE)]
  /\ at' = "packing"
  /\ UNCHANGED <<todo, board, found, copy, released, tidy, releases, stops>>

\* set -e sees the exit status of xz only, not that of a tar that fails.
EndPack ==
  /\ at = "packing"
  /\ \E complete \in BOOLEAN :
       /\ archive' = [archive EXCEPT ![board].whole = complete /\ copy[board].whole]
       /\ tidy' = (tidy /\ complete)
  /\ at' = "remove copy"
  /\ UNCHANGED <<todo, board, found, copy, released, releases, stops>>

RemoveCopy ==
  /\ at = "remove copy"
  /\ copy' = [copy EXCEPT ![board] = None]
  /\ at' = "next board" /\ board' = NoBoard
  /\ UNCHANGED <<todo, found, archive, released, tidy, releases, stops>>

\* The names in the loop are those of when it began: a copy among them that is gone
\* by then, because its board came first, cannot be copied.
GoneCopies == {b \in found : copy[b] = None}

CopyIsGone ==
  /\ at = "next board" /\ GoneCopies # {}
  /\ at' = "idle" /\ released' = "aborted" /\ todo' = {}
  /\ UNCHANGED <<board, found, copy, archive, tidy, releases, stops>>

ReleaseEnds ==
  /\ at = "next board" /\ todo = {} /\ GoneCopies = {}
  /\ at' = "idle" /\ released' = "ok"
  /\ UNCHANGED <<todo, board, found, copy, archive, tidy, releases, stops>>

StopRelease ==
  /\ at # "idle" /\ stops < MaxStops
  /\ at' = "idle" /\ released' = "stopped" /\ board' = NoBoard /\ todo' = {}
  /\ stops' = stops + 1
  /\ UNCHANGED <<found, copy, archive, tidy, releases>>

ReleaseStep ==
  \/ StartRelease \/ DeleteOldArchive \/ BeginCopy \/ EndCopy \/ ChangeLog \/ BeginPack
  \/ EndPack \/ RemoveCopy \/ CopyIsGone \/ ReleaseEnds \/ StopRelease

\* ./build roms, between releases.
BuildStep ==
  /\ at = "idle"
  /\ Next /\ runs' <= MaxRuns
  /\ released' = "none"
  /\ UNCHANGED <<git, at, todo, board, found, copy, archive, tidy, releases, stops>>

\* ./build clean rom_images: rm -Rf bin/
CleanImages ==
  /\ at = "idle" /\ outcome # "running"
  /\ shelf' = [b \in Boards |-> << >>]
  /\ copy' = [b \in Boards |-> None]
  /\ released' = "none"
  /\ UNCHANGED <<outcome, family, asked, placed, runs>>
  /\ UNCHANGED <<git, at, todo, board, found, archive, tidy, releases, stops>>

ReleaseNext ==
  \/ ReleaseStep /\ UNCHANGED <<vars, git>>
  \/ BuildStep
  \/ CleanImages

ReleaseSpec == ReleaseInit /\ [][ReleaseNext]_<<vars, release>>

-----------------------------------------------------------------------------
(* Properties.                                                              *)

ReleaseTypeOK ==
  /\ at \in {"idle", "next board", "copy", "copying", "change log", "pack", "packing",
             "remove copy"}
  /\ todo \subseteq Boards /\ found \subseteq Boards /\ board \in Boards \cup {NoBoard}
  /\ \A b \in Boards : \A d \in {copy[b], archive[b]} \ {None} :
       d.whole \in BOOLEAN /\ DOMAIN d.images \subseteq Images[b]
  /\ at \in {"idle", "next board"} <=> board = NoBoard
  /\ at \notin {"idle", "next board", "copy"} => copy[board] # None
  /\ released \in {"none", "running", "ok", "stopped", "aborted"}

\* A release that exits 0, was not preceded by one that was stopped and had no
\* tar fail leaves for every board a whole archive of the images that are under
\* bin/ (release/roms:46-86).
ArchivesAreCurrent ==
  released = "ok" /\ tidy =>
    \A b \in Boards :
      DOMAIN shelf[b] # {} => archive[b] = Holding(shelf[b], TRUE)

\* Hence after a build that exits 0 nothing unfinished is released for the
\* boards of its payload, even though the release looks at no exit status.
FinishedAreReleased ==
  released = "ok" /\ tidy /\ outcome = "ok" =>
    \A b \in family : \A n \in DOMAIN shelf[b] :
      Finishes[b] # {} => archive[b].images[n].inserted \in Finishes[b]
===============================================================================
