----------------------------- MODULE ReleasedBuilds -----------------------------
(***************************************************************************)
(* withgrub and withseabios command by command, next to ./build release    *)
(* roms, which packs what they leave under bin/, and ./build clean         *)
(* rom_images, which deletes it: the builder that ReleaseRoms leaves open  *)
(* is BuildRoms.  One user runs one script at a time.                      *)
(***************************************************************************)
EXTENDS BuildRoms

CONSTANT Early     \* names that sort before "libreboot_"

\* Of the release script, as in ReleaseRoms.
VARIABLES git, releaseAt, releaseTodo, releaseBoard, found, copy, archive, released, tidy,
          releases, releaseStops

ofRelease == <<git, releaseAt, releaseTodo, releaseBoard, found, copy, archive, released, tidy,
               releases, releaseStops>>
allVars == <<vars, ofRelease>>

\* ReleaseRoms, with what is proved of it.
Release ==
  INSTANCE ReleaseRomsProofs WITH
    Families <- {GrubBoards, SeabiosBoards},
    Images <- [b \in Boards |-> ImagesOf(b)],
    Finishes <- [b \in Boards |->
                   IF b \in BootBlockBoards THEN {"boot block"}
                   ELSE IF b \in DescriptorBoards THEN {"default address", "own address"}
                   ELSE {}],
    shelf <- [b \in Boards |->
                [n \in DOMAIN shelf[b] |->
                   [run |-> shelf[b][n].run, inserted |-> shelf[b][n].inserted]]],
    outcome <- IF outcome \in {"stopped", "aborted"} THEN "failed" ELSE outcome,
    family <- IF runs = 0 THEN {}
              ELSE IF request.payload = "grub" THEN GrubBoards ELSE SeabiosBoards,
    asked <- request.boards,
    at <- releaseAt, todo <- releaseTodo, board <- releaseBoard,
    stops <- releaseStops,
    MaxReleases <- MaxRuns     \* the bounds of the builds are those of the releases

AllInit ==
  /\ Init
  /\ git \in BOOLEAN
  /\ releaseAt = "idle" /\ releaseTodo = {} /\ releaseBoard = NoBoard /\ found = {}
  /\ copy = [b \in Boards |-> Release!None] /\ archive = [b \in Boards |-> Release!None]
  /\ released = "none" /\ tidy = TRUE
  /\ releases = 0 /\ releaseStops = 0

\* A command of a build.
BuildStep ==
  /\ releaseAt = "idle"
  /\ Next
  /\ released' = IF "running" \in {outcome, outcome'} THEN "none" ELSE released
  /\ UNCHANGED <<git, releaseAt, releaseTodo, releaseBoard, found, copy, archive, tidy,
                 releases, releaseStops>>

\* A command of a release.
ReleaseStep == Release!ReleaseStep /\ UNCHANGED <<vars, git>>

\* ./build clean rom_images: rm -Rf bin/
CleanImages ==
  /\ at = "idle" /\ releaseAt = "idle"
  /\ dirs' = {}
  /\ shelf' = [b \in Boards |-> NoFiles]
  /\ litter' = [b \in Boards |-> {}]
  /\ copy' = [b \in Boards |-> Release!None]
  /\ released' = "none"
  /\ UNCHANGED <<at, request, memory, tree, elf, address, outcome, placed, counts>>
  /\ UNCHANGED <<git, releaseAt, releaseTodo, releaseBoard, found, archive, tidy, releases,
                 releaseStops>>

AllNext == BuildStep \/ ReleaseStep \/ CleanImages

AllSpec == AllInit /\ [][AllNext]_allVars

-----------------------------------------------------------------------------
(* Properties.                                                              *)

\* The builder, the release and the cleaning together do what ReleaseRoms says.
ImplementsReleaseRoms == Release!ReleaseSpec
================================================================================
