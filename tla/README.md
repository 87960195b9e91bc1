# Verification of libreboot

Libreboot is a distribution of coreboot: scripts that download, patch and build
firmware images, a few programs of its own that handle the flash chip's
descriptor and network region on ICH9M/GM45 laptops, and the scripts that put an
image on a running machine. This directory holds TLA+ models of the parts that
have logic of their own, TLC configurations that check them on small instances,
and theorems about them that TLAPS checks for every instance.

    tlc -config Ich9ToolsChain.cfg MCIch9Tools      # one run; PROJECT.json lists all
    tlapm FlashI945Proofs.tla                       # the proofs; likewise Ich9ToolsProofs,
                                                    # CorebootTreesProofs, CrosFlashProofs, DepthchargeRomsProofs,
                                                    # BuildRomsProofs, ReleaseRomsProofs, ToolBuildsProofs

`PROJECT.json` maps every definition to the source lines it models and lists
components, runs, mutants, hazards, findings and theorems. Paths below are
relative to `src/`; U stands for `resources/utilities/ich9deblob/src`, B for
`resources/scripts/helpers`.

## 1. Inventory

| Component | State it keeps | Operations | Talks to |
|---|---|---|---|
| Descriptor functions (`U/descriptor/descriptor.[ch]`) | none (a 4 KiB struct by value) | eleven elementary changes, three composed ones, the test for a GbE region, the generator of `mkdescriptor.c` | called by the three programs |
| GbE functions (`U/gbe/gbe.[ch]`) | none (8 KiB by value) | checksum, repair of a factory region, the generator of `mkgbe.c` | called by the three programs |
| ich9deblob, demefactory, ich9gen (`U/*.c`, `U/common`, `Makefile`, `B/build/module/ich9deblob`) | files of the working directory; `src/ich9gen/`, objects and executables | one `main` each; make, make clean | each other through printed sources and ROM images; `withgrub` calls ich9gen |
| `flash` (i945: X60, T60, MacBook2,1) | the chip, BUC.TS, the running firmware | five modes, each a list of commands after checks | flashrom (three builds), bucts, the user |
| C201 installation (`resources/libreboot/install/depthcharge/cros-flash-replace`, `docs/src/install/c201.texi`) | `flash.img`, `before.img`, `after.img`, the chip | per part: cut before, cut after, concatenate, remove; read and write back by the user | flashrom, the files of `withdepthcharge`, the user |
| ROM builds (`B/build/roms/*`) | `bin/<payload>/<board>/`, branches of the coreboot trees, temporary files | build per board, copy of the boot block, insertion of descriptor and GbE; libpayload, depthcharge and coreboot linked into one another | coreboot, cbfstool, ich9gen, `gm45macaddress` |
| Module builds (`B/build/module/*`) | source trees patched in place, executables | patch, make, restore | release/util, flash |
| Release scripts (`B/build/release/*`) | `release/<version>/`, renamed source trees | copy, build, move back, tar | module builds, `bin/` |
| Downloads (`download`, `B/download/*`) | source trees, one per coreboot revision | clone, reset, patch, deblob | network, git |
| Board configuration (`B/build/config/*`) | `resources/libreboot/config/*`, the coreboot trees' branch and `.config` | update, modify, replace | the trees the ROM builds use |
| GRUB configuration, grub-assemble | none | the search for a user's configuration | the payload |
| i945-pwm | a hardware register | 16 duty cycles | PCI, `/dev/mem` |
| coreboot-libre deblob lists, patches, board configs, docs | none | - | - |

What is hard, and would not be found by trying it:

- *The tools' outputs are each other's inputs.* An image goes into a ROM which
  is a `factory.rom` again; a printed source is compiled into the next ich9gen,
  for another ROM size. Regions, straps, NR, checksum and the kind of file have to
  agree over every such chain. Whether there is a GbE region is decided twice in
  one run, on two descriptors.
- *Partial failure.* Every program writes several files one after the other with
  remove, open, write; some writes are checked, some are not. make keeps stale objects.
- *A flash script without `set -e` on a machine that cannot be restarted at every
  moment.* Two flashes with a restart in between, one bit in battery-backed CMOS, two
  programs of which one is expected to fail, power that can be lost.
- *A script without `set -e` that takes the only copy of the firmware apart and puts it
  together again in place* (C201), and can be stopped in between, on a disk that can be full.
- *Build scripts with `set -e` that change trees in place* and restore them at the
  end, or not, when something in between fails. All boards of a revision, and four kinds of
  script, share one tree and its two checked-out branches; a release copies, builds in, deletes
  and renames the very sources it ships.
- *Work done in two places for all boards at once*: boot blocks and descriptors are inserted
  in place into everything under `bin/grub/`, whichever run put it there.

What makes each component right:

- descriptor: the regions of a result partition the chip, the ME has no region and
  no access, a second application changes nothing;
- GbE: both copies are the same and their checksum is valid, after any chain;
- the tools: a success status means that the files are there and say what was
  asked; a rebuild uses the sources that are there;
- flash: no way of following the guide bricks the machine for good, the machine can
  be restarted whenever it has to be, and the installation comes to an end;
- C201: the chip holds the vendor's contents with whole parts in their places;
- ROM builds: an image in `bin/` is the board's own and finished, or the build did not report
  success; a failed build can be run again;
- tools and releases: a program is what its name says, an archive holds what was built, the
  sources survive;
- coreboot trees: every branch has its own board's patches and no others, every board its own
  config, and no image has blobs.

`PROJECT.json` "hazards" lists these one by one, with the property that covers each
or the reason why none does yet.

## 2. Modules

| Module | Contents |
|---|---|
| `Descriptor` | the descriptor as a record and an operator per C function; the vocabulary of layouts |
| `Gbe` | the GbE region and an operator per C function |
| `Layout` | EXTENDS both: the C structs, what a compiler makes of them, and the test for compilers that do it otherwise |
| `Ich9Tools` | EXTENDS `Layout`: the state machine of the three programs, files, make and user |
| `FlashI945` | the state machine of `flash` on i945 laptops, with the user and the machine |
| `CrosFlash` | `cros-flash-replace` command by command, and the guide of the C201 around it |
| `RomShelf` | abstract: what `./build roms` promises about `bin/` |
| `BuildRoms` | `withgrub`, `withseabios` and their helpers; implements `RomShelf` |
| `DepthchargeRoms` | `withdepthcharge`; implements `RomShelf` |
| `ReleaseRoms` | EXTENDS `RomShelf`: `release/roms` next to builds |
| `ReleasedBuilds` | EXTENDS `BuildRoms`: its commands next to those of `ReleaseRoms` and `clean rom_images` |
| `ToolBuilds` | the modules flashrom and bucts, `release/util`, their downloads and clean scripts |
| `CorebootTrees` | `download coreboot`, `module coreboot`, `clean coreboot`, the config scripts, builds and `release/src` as users of the trees |
| `MC<module>` | values for the constants: factory dumps and ich9gen sources of the repository, boards, layouts |
| `Ich9ToolsProofs` | the layout ich9deblob makes, the checksum of the GbE region, the invariants of the three programs, and what their test for compilers excludes |
| `FlashI945Proofs`, `CorebootTreesProofs`, `CrosFlashProofs`, `ReleaseRomsProofs`, `ToolBuildsProofs` | type correctness and invariants |
| `BuildRomsProofs`, `DepthchargeRomsProofs` | invariants, that both builders implement `RomShelf`, and that `ReleasedBuilds` implements `ReleaseRoms` |

How they compose: `Ich9Tools` uses the operators of `Descriptor`, `Gbe` and `Layout`.
`BuildRoms` and `DepthchargeRoms` implement `RomShelf`, and `ReleaseRoms` stands on
`RomShelf` alone, so that what it shows holds over either builder; `ReleasedBuilds` puts
`BuildRoms` in the place of the builder. `CorebootTrees` has the
same checkouts as `BuildRoms`, with a build shrunk to one image of one board, next to all
the other scripts that check out. The parts `CrosFlash` puts in are those `DepthchargeRoms`
leaves, and the ROMs of `FlashI945` are with or without the boot block copy of `BuildRoms`.

### Descriptor and Gbe

A descriptor is a record of the fields some function reads or writes: NR, the two
component densities, base and limit of the five regions, the access rights of
the masters, the ME, TPM and GbE straps, the OEM string. What is only copied
(signature, map addresses, clocks, the other straps, the VSCC table, paddings) is
one field, `other`. Base and limit keep their 13 bits. A region has its limit
below its base when it is removed; "in use" in the properties is `base <= limit`.

`generatedDescriptorStruct` is what the printed `mkdescriptor.c` computes: the
literals of the descriptor it was printed from, except where the generator prints
an expression in the parameters (NR, densities, BIOS and GbE regions, the two GbE
straps). A GbE copy is its address (three words), its checksum, the state of its
padding and the sum of the words in between, all modulo 2^16.

### Layout

A compiler is four choices C leaves open: byte order, order of bit-fields, whether bit-fields
of different types share a unit, and the least alignment of a struct; sixteen kinds in all.
`Struct` lays the members of every struct of `descriptor.h` and `gbe.h` out (one after the other by `Placed`), `MemoryBit` is
where a bit of a field comes to lie, and `systemOrCompilerIncompatible` is the test the
programs begin with, member for member. Ranges of flags are one operator (`Flags`).

### Ich9Tools

| Variable | Code |
|---|---|
| `dir` | the files the tools read and write: absent, cut short, or a content |
| `src`, `obj`, `built`, `gen` | `src/ich9gen/*.[ch]`; `obj/ich9gen/*.o`; the executables; the objects in the linked ich9gen |
| `proc` | the tool that runs, the files it has still to write, whether the first is open |
| `host` | the compiler, an element of `Layout!Host` |
| `status`, `runs` | how the last run ended; a bound |
| `rebuilt`, `spoiled` | history: whether ich9gen was rebuilt from the sources there; the files whose own remove() or fclose() failed in this run |

A `main` is one action up to its first write: it reads everything, computes, and
leaves the list of files to write, with their contents. Each write is then two
steps, because other things can happen in between: `RemoveOldFile` (remove, fopen)
and `WriteFile`. The failures are `RemoveFails` (untested: fopen("ab") appends to what is
there, while fopen("w+") empties a text), `OpenFails` (NULL is not tested, the first write
crashes), `WriteFails` (a tested fwrite, `return 1`), `OutputLost` (a disk found full by an
untested fprintf or fclose: the run goes on) and `Killed`; the constant `Faults` says which
of them occur. `Written` and `CutShort` are what a write leaves over what it found; of an
old image that could not be removed it leaves the old one in front. `Refuses` and
`FactoryRomUnreadable` are the early returns.

The user places dumps (`PlaceFactoryRom`), puts an output into a ROM and uses that
as `factory.rom` (`PlaceLibrebootRom`), copies printed sources to `src/ich9gen/`
(`PlaceSources`), and rebuilds: `PlainMake` is make with rules that have no
prerequisites, `BuildModule` the script with its make clean. `origin` and
`romSize` in contents are history, used in properties only.

### FlashI945

A chip is three blocks in the order flashrom writes them: everything below the
last 128 KiB, and the two 64 KiB halves of those. With BUC.TS = 0 the machine starts
the last half, with BUC.TS = 1 the one before. A ROM has its boot block in the
last block and, if `withgrub` copied it ("dd"), in the one before as well. The
machine starts when the block it begins in is a boot block and the body has the
same version.

| Variable | Meaning |
|---|---|
| `machine`, `env` | vendor and flash part; which files and rights the script finds |
| `chip`, `bucts`, `running` | the flash contents, the bit, what booted (or off, bricked) |
| `script` | mode, ROM and command number of a run of `flash` |
| `outcome` | what the last run told the user; "none" where the documentation says that the report of a failure is expected |
| `flashes`, `faults`, `happened` | bounds; history: which failures happened |

`Run` is the script up to its first command: all checks, then step 1, or nothing.
Its commands are steps of their own (`BuctsOne`, `BuctsZero`, `FlashStep`), since
the power can go between any two; `FlashStep` erases or writes one block. Nothing
tests their exit status. `Drives` is which of the three flashrom builds gets at the
chip: the patched ones find one part each; the normal one is stopped by a Lenovo
BIOS, and by a board name that differs from the running one unless forced.
`FollowGuide` is the next step of `docs/src/install/index.texi`; `Tinker` is any
mode with any ROM, except that over vendor firmware the user keeps to the guide.
`ResetByBattery` is "brick type 1" of `docs/src/install/x60_unbrick.texi`.

flashrom, bucts, the chipset and the user are not under `src/`; those definitions
are modelled from how the script and the documentation use and describe them,
and are marked external in the map.

### CrosFlash

| Variable | Code |
|---|---|
| `at`, `todo`, `part`, `flashsize` | the command `cros-flash-replace` has come to, its arguments left, `$part`, and the size of the image, read once at line 42 |
| `flash`, `before`, `after` | the three files, as sequences of blocks that know where they are from |
| `image`, `chip` | whether `<part>.img` is there and of the right size; the contents of the chip |
| `outcome`, `shown`, `asked` | what the user saw, and asked for |
| `begun`, `done`, `stale`, `suspect`, `stopped` | history: the image when the run began, the parts done, whether files of a stopped run are about or were when the run began, whether any was stopped |

All sizes of `layout.txt` are multiples of 256 bytes, and so is a block. A command that
writes can end with any beginning of what it should have written (`Goes`): the disk is full
and the script goes on (it tests no exit status), or the run is stopped there. An image that
is missing or of another size is reported and passed over. The script looks its arguments up
with a grep that is not anchored: `Lines[name]` is the parts whose lines of `layout.txt` contain
the name, and a fragment of exactly one of them ("frid") replaces that part as its whole name
would (`Acceptable`, `Found`). `ReadChip`, `GuideRun` and `WriteBack` are the guide's steps; other runs with other arguments, on whatever file is
there, and writes in spite of errors are the user's freedom. flashrom refuses a file that is
not as large as the chip.

### RomShelf, BuildRoms, DepthchargeRoms

`RomShelf` knows the images of each board, the run they are of, and what is inserted into
each. They appear all at once, are finished in place, and go only when their board is built
again; a run that succeeds built what it was asked for and leaves nothing of its payload
unfinished, other boards' images and those of stopped runs included.

| `BuildRoms` | Code |
|---|---|
| `at`, `todo`, `board`, `types`, `type`, `left`, `file`, `fd` | where the script is: its loops over boards, types, keymaps, files; the address in the images of ich9gen |
| `request`, `outcome`, `placed`, `runs`, `stops` | payload and boards of the run, how it ended, the boards it has put under `bin/`, bounds |
| `branch`, `elf`, `work`, `staged` | the shared tree: what is checked out in coreboot and in vboot, the ELFs of GRUB, its ROM files, `<board>/` |
| `dirs`, `shelf`, `litter` | `bin/<payload>/`: directories, images, other files (`top64k.bin`, what ich9gen left, a file named `*.rom`) |
| `address` | `gm45macaddress` |

Each command that changes something is an action; `Stop` is a signal or a failing command
at any of them. The command that can fail for a reason in the model, dd on what a glob left,
ends the run as "aborted". The order of a glob is free except
for `top64k.bin` among the images of an i945 board, which decides what dd reads
(`StrayFirst`).

`DepthchargeRoms` has the same kind of state; what its three stages hand on (`libpayload`,
`elf`, `imgs`) is known by the builds that are in it. A board without directory under
`config/depthcharge/` ends the run, unlike in `withgrub`. The repository has one board
there; the second in the run, veyron_minnie, is hypothetical and shows that the sharing
of the trees is safe. For `RomShelf` its images are the four files of a board, and nothing is
finished in place.

### ReleaseRoms

`git`: whether there is a repository (the script's test for a version file of a `_src`
archive); `at`, `todo`, `board`: the script; `copy[b]`: the directory of the archive's name
that it makes inside `bin/<payload>/`; `found`: the copies of stopped releases that the glob of
the loop over a payload's directories found among the boards (line 54: the names are expanded
once); `archive[b]`: what is packed; `released`: how the
release ended; `tidy`: history. A left-over copy that the loop removed (86) before it comes to its
name ends the release at `cp -R` (`CopyIsGone`): that takes a board that sorts before the copy,
whose name begins with "libreboot", which `Early` says of it (kfsn4-dre). A release packs whatever is under `bin/` at that moment,
however the builds before it ended; a tar that fails leaves a cut archive that is reported as OK.

`ReleasedBuilds` has these variables next to those of `BuildRoms`. A script begins only when no other is under
way; `CleanImages` is `rm -Rf bin/`, which takes away images, what stopped runs left, and copies of stopped releases.

### ToolBuilds

`dir[p][place]` is a source tree of flashrom or bucts: at its name, at `<name>_` (the copy
of `release/util`), or inside either of these, where `cp -R` and `mv` put a directory when
the target is there. A tree is whole or not, has a set of patches in the file that is patched, a
backup, and its programs, each known by the patches it was built with. A download is
`Delete`, `Clone` and `Prepare`, as `git clone`, and reset with `git am`, are commands of
their own: a tree that was cloned and not prepared is whole, and can be built. patch on a file that has the
patch asks; `assented` is history and remembers a user who answered yes. `archive` is the
directory of the utility archive, `at`, `script`, `prog`, `left`, `target` the script.

### CorebootTrees

`tree[r]` is coreboot of one revision: whether it is reset, has upstream's `.git`, blobs,
tools, whose `.config`, and the two repositories with what is checked out and the branches,
each the set of boards whose patches are in it ("half" while `git am` is at it). `clone`:
`coreboot/coreboot/`; `config[b]`: whose config the repository has for b; `image[b]`: the
last image; `patches`: FALSE in an unpacked `_src` archive; `downloaded`, `ready`, `failed`
(a script for configs did not come to its end), `unsaved`: history. `grubreplace` runs menuconfig on
whatever `.config` the shared tree holds (46) and moves it to the board's config (49): `MenuConfig` makes it
the board's, or, when the user leaves without saving, keeps it as it was (`unsaved`).
The dc* scripts are the grub* scripts but for the payload's name, and the map says so.

## 3. Runs

All pass runs are exhaustive for their constants.

| Run | Question | Constants | States, time |
|---|---|---|---|
| `ich9tools_faults` | What does a success status promise when writes fail, and which compilers are let through? | 2 runs, a dump cut short and ROMs with an output in them, 4 MAC arguments, 16 compilers, all five failures | 1.0 M, 70 s |
| `ich9tools_chain` | Do layout, checksum and round trips survive chains of the tools? | 3 runs, 6 dumps, no failures | 498 k, 1 min |
| `flash_i945` | Does the installation end in a machine that runs, and what may fail on the way? | 4 laptops, 5 environments, 2 versions with different board names, 2 free runs, 2 of power, battery, bucts and chip failures; fairness | 77 k, 8 s |
| `build_roms` | Is what gets under `bin/` what `RomShelf` promises? | 2 boards with GRUB (one i945, one GM45), 1 with SeaBIOS, 3 kinds of address file, 3 runs, 2 stops | 1.8 M, 40 s |
| `depthcharge_roms` | The same of withdepthcharge | 2 boards, 4 runs, 3 stops | 914 k, 20 s |
| `release_roms` | Do archives hold what is under `bin/`? | 3 boards of 2 families, one of which sorts early, 2 builds, 3 releases, 1 stop | 7.4 M, 55 s |
| `tool_builds` | Are programs what their names say, and do their sources survive? | 6 scripts, 5 runs, 2 stops | 1.7 M, 15 s |
| `coreboot_trees` | Do branches, images and configs stay their boards' own? | 3 boards of 2 revisions, 5 runs, 2 stops | 1.4 M, 18 s |
| `cros_flash` | Does the chip stay whole, and does the guide come to its end? | chip of 12 blocks, parts 0..3 and 7..7, a name of each and fragments, 2 free steps, 2 faults; fairness | 1.3 M, 45 s |
| `ich9tools_deme`, `ich9tools_mac`, `cros_flash_leftover` | Does the code do what a comment or document says? (It does not; see 6.) | one or two runs each | - |

Deadlock is not checked: in all of these the bound on runs ends the behaviour, and in
`flash_i945` a loss of power at the wrong moment can brick a machine for good, which nothing
in the model undoes.

Properties of the tools:

- `NoUninitialisedGbe`: what the second decision about the GbE region writes, the
  first one has read. It relates two tests of the same function on different
  descriptors.
- `LayoutFitsRom`: every image partitions the ROM it is for, whether it comes from
  ich9deblob, from ich9gen's default or from an ich9gen rebuilt from printed sources
  for the other size.
- `GbeCopiesValid`, `SourceRegenerates`, `DeblobIsIdempotent`: the round trips.
  `SourceRegenerates` leaves the densities out, for which it is false (6).
- `RebuildTakesEffect`: false for plain make, true for the module script, also after
  builds that stopped at a source that was cut short.
- `SuccessIsComplete`: the four images and the printed `mkgbe.c` when ich9gen returns 0: whole, and with
  the address that was asked for in those with a GbE region. Excepts the files whose own remove() or fclose()
  failed, of which the code tells nobody (6): no failure harms another file, and every other one is reported.
- `AcceptedHostsFit`: a tool that goes past the test for compilers was made by one that
  lays all fields of both structs where the chip has them. The test asks for two sizes, one
  byte order and the bits of two structs; of the sixteen kinds of compiler exactly one passes.

Properties of the flash script. Each says which failures it excepts; without the exception
it is false:

- `FirstFlashArmed`: under a Lenovo BIOS over a changed chip BUC.TS is set. Excepts a bucts that
  failed: the script goes on (6).
- `BootableDuringSecondFlash`: the bit and the chip at every command. Excepts a chip that
  failed to take a write: `bucts 0` runs all the same (`flash:130-131`), and until a retry
  succeeds the machine would start the block that is erased. What then protects it is the
  user, who does not shut down after "FAILED".
- `BricksAreSoft`: every brick on the way of the guide is of type 1, when only writes of the
  chip fail. With power, battery or bucts failures it is false; the documentation says so of the
  first two (x60_unbrick.texi, "you set BUC.TS to 0 and shut down after first flash").
- `InstallIsBatterySafe`: an action property: a second flash that ends "verified" leaves
  both positions of BUC.TS startable.
- `EventuallyInstalled`: liveness of the whole installation, over failing writes.

Properties of the C201:

- `RunsReplace`: a run that shows no error has put the parts that grep found for its arguments in their
  places, and nothing else, whatever the file was before. Excepts runs that find files of a stopped one (6).
- `ChipStaysWhole`: nothing but the vendor's contents with whole parts ever gets into the chip, over
  any full disk and any user who ignores errors, as long as nothing is stopped. The reason is
  arithmetic: a file that has lost blocks does not have the chip's size, and no later command
  gives them back, unless a part ended with the chip, which none in the repository does.
- `EventuallyInstalled`: when nothing is stopped, the guide ends in libreboot in the chip, over errors,
  missing images and careless writes.

Properties of the builds:

- `ImplementsRomShelf` (twice): the refinement. It covers the moment between the deletion of the
  old images and the arrival of the new ones, the images of other boards, and of boards a stopped
  run put there without finishing them.
- `ImagesAreOwn`, `OwnParts`: branches of the board, in coreboot and vboot, types and keymaps
  meant for it, the configuration in it; for depthcharge all three stages of one run.
- `FullRunNeverAborts`: a run for all i945 boards is never ended by what earlier runs left. Runs for
  some can be (6).
- `OneAddress`: one run gives one address to all GM45 images, also those it did not build.
- `ArchivesAreCurrent`, `FinishedAreReleased`: the archives of a release that exits 0 are whole and
  those of the present images; after a build that exits 0 these are finished. The first excepts
  copies left over by a stopped release (some of them end the release, 6), and a tar that failed.
- `NamesAreTrue`, `ArchiveIsTrue`: each flashrom and bucts was built from the sources its name says,
  in the tree and in the utility archive; unless the user lets patch take a patch out (6).
- `SourcesSurvive`: `release/util` never destroys the last pristine sources. Excepts a second stop (6).
- `UtilPutsTreesBack`, `UndisturbedNeverAborts`: after a release trees are as they were, and a
  sequence of scripts of which none was stopped never makes one of them fail.
- `BranchesArePatched`, `ImagesAreRight`, `ConfigsAreOwn`: after a complete download and a complete
  module build every branch has its own patches, whatever runs and stops afterwards; images on
  such trees are right; no board gets another's config, and only a script that failed loses one. The last
  two except, for configs, that a user left menuconfig unsaved over a `.config` in the tree (6).

**Bounds.** Two tool runs suffice to have a failure in one and a reading of what is left
by the next; three make the longest chain that changes anything (deblob, rebuilt ich9gen,
deblob of its output); the second deblob's output equals its input, which
`DeblobIsIdempotent` states, so that longer chains repeat. The six dumps differ in what a
test in the code asks: place of the GbE region, marker of 12 or 13 bits, straps, a file
that is too short. With failures a dump cut short is enough, since ich9gen needs none, and its four outputs,
put into ROMs, are dumps with and without GbE region for the other tools; what a failing write leaves does not
depend on the layout. ROM sizes are 4 and 8 MiB, the two ich9gen writes for; numbers are
the real ones. Two versions are enough for a board name that changes; two free runs of `flash` give
every pair of modes between the steps of the guide. Failures are bounded by two, so that
one can hit a retry.

The builds have one board of each kind that a script treats differently; boards of one kind only
share the trees, for which two are enough (coreboot_trees has two that share a revision and one
that does not). A third run finds what two stopped ones left. Five runs in `tool_builds` and
`coreboot_trees` are download, module build, stopped script, stopped retry, and the script that
has to come out right. Two releases may be complete around a stopped one. The parts of the C201
keep the order and the gaps of `layout.txt`: one at the start of the chip, one of one block in the middle,
none at its end; a file can be cut at every block.

**Fairness** is used in `flash_i945` and `cros_flash`. In `flash_i945` a command that runs comes to
its end (weak, on the script's steps); a machine that is off is turned on and one bricked by BUC.TS
gets its battery taken out (weak); the user goes on with the guide and shuts down when told to
(strong, since other runs of `flash` may come in between). In `cros_flash` the script's commands end
and the user goes on with the guide (weak); the transfer of the files is strong, since the user
does that when run after run reports a missing image, and is busy with a run in between. Free runs and
failures have no fairness, and are bounded.

## 4. Proofs

Each module of proofs assumes only the named assumptions on constants (types, disjoint names, order of
the parts), for any number of boards, revisions, parts, runs, stops and failures.

`FlashI945Proofs`:

- `TypeCorrect`: `Spec => []TypeOK`. `TypeOK` is not inductive: `NextCommand` adds one to
  the command number, so the invariant needs that it is at most the number of commands of
  the mode (`Typed`).
- `FirstFlashIsArmed`: `Spec => []FirstFlashArmed`. By itself the property
  says nothing of why the bit is set when flashrom starts. `Armed` adds: under a Lenovo BIOS
  only the first flash runs, with bucts present (`Required`), and past its first command the
  bit is set, unless bucts failed; nothing runs on a machine that is off; and no report of a failure
  survives a restart, since the user's retry would otherwise bring back another mode
  (`StartArmed`).
- `SecondFlashIsBootable`: `Spec => []BootableDuringSecondFlash`. `Bootable` adds, as long as no write
  of the chip failed: a machine on libreboot with BUC.TS at 0 keeps a chip that starts, but while
  flashrom writes it (`StartsOrFlashes`); flashrom does not refuse the second flash, which is of
  the version that runs, so BUC.TS is reset over a whole ROM (`SecondIsAccepted`); and where the
  lower blocks held the ROM before, only the last one is written, while BUC.TS selects the
  one below it (`OnlyTopChanges`).
- `BricksStaySoft`: `Spec => []BricksAreSoft`, and `SecondFlashIsBatterySafe`: `Spec => InstallIsBatterySafe`. The
  argument (`Guarded`) is that at every moment the machine either comes up with BUC.TS reset, or it is set
  and comes up so, or flashrom is at the chip, or has reported a failure (`Soft`): upon that the user does not shut
  down, but lets flashrom try again. The patched flashroms of the first flash report nothing; so `Soft` asks more of
  them, and has it from `Armed` and from the advice to take a ROM that was dd'd: what they leave, the block that
  the Lenovo BIOS protects, is not the one that starts. `Advice` also has that the second flash comes
  to `bucts 0` over the whole ROM or after a reported failure, which is what `InstallIsBatterySafe`
  says of the step after it.

`Ich9ToolsProofs`. About the functions, with no assumption on constants:

- `DeblobbedIsLibre`: `LibreLayout(DeblobbedDescriptor(d, romSize), romSize)` for every descriptor
  `d` whose first region is the first block, and every size of 4 to 8192 blocks. The runs have
  the dumps of `MCIch9Tools`; the theorem has all contents of all fields. The bounds are
  needed: the last block has to fit 13 bits, and the BIOS needs a block after the GbE region.
  So is the first region: no function writes it, and a dump that puts it
  elsewhere gets regions that overlap or leave a gap. The argument: each function replaces one
  region and leaves the decision's fields alone (`SetRegion`, `SameDecision`); what remains are
  two or three regions after one another (`ThreeRegions`, `TwoRegions`).
- `ChecksumRestored`: the 16-bit subtraction of `gbeGetChecksumFrom4kStruct()` makes every copy
  add up to 0xBABA, although the sum and the difference both wrap around.
- `RegionsGood`: hence both copies that ich9deblob keeps are valid and the same, and those of
  `ich9gen --macaddress`, for every region and address.

About the programs, for all dumps, addresses, machines, failures and numbers of runs:
`TypeCorrect` from `ToolsAssumption` alone; `RebuildWorks`, `UninitialisedNeverWritten`, `LayoutsFit`,
`GbeStaysValid`, `PrintedSourceIsTrue`, `DeblobbedTwice` and `SuccessComplete` also from
`SourceAssumption`, which repeats what `U/ich9gen/mkdescriptor.c` and `mkgbe.c` assign whatever their
parameters are, and `DumpAssumption`: a dump has a size that flash chips have, and its descriptor is its
first block. Without the second nobody could expect a layout that fits (see above).

None of the properties is inductive: a ROM is deblobbed, printed, compiled, generated from, inserted and read
back in any order, and each tool relies on what the one before it left. `IInv` says what every content
carries on this way (`Sound`). `Template` has the fields of the descriptor that the printed source copies,
`LaidOut` those it computes from (romSize, hasGbe), as `ich9deblob` computes them too; a template that is laid
out is libre (`LaidOutIsLibre`), is not changed by deblobbing (`NothingToDeblob`), and comes back from
its source except for the densities (`GivesBack`). Likewise a copy of the GbE region whose checksum is the one
the tools would put in (`Kept`) is good, survives printing and compiling, and is not changed by
deblobbing (`NothingToRepair`). Output of demefactory carries its origin instead: all that is asked of it is that
it still begins with the descriptor (`FirstBlock`). The jobs of a run are sound before they are
written (`JobsSound`), so that no failure can make a file unsound. `OnlyRead` says that without having read the
GbE region ich9deblob lists no file with one: the decision made on the modified descriptor is the one made on
the dump's (`DeblobbedLaidOut`). `Fresh` adds to `RebuildTakesEffect` that the objects are those of the
sources, or absent. `Completing`: each of the four images of a run for an address, and the printed source, is still in the list,
or done, or its own remove() or fclose() failed (`AllWritten`). That what is written is what was listed needs
`Cleared`: where the next write goes is nothing, or a file that could not be removed.

`AcceptedHosts` (`Spec => []AcceptedHostsFit`) follows from `AcceptedFit`, which is about the compilers alone: those that
pass the test are among `FitsFlash`. It is not a case distinction over the sixteen kinds, each of which would need the
thirty-two structs laid out, but says why two sizes are enough. A struct takes at least the bits of its
members, and if it takes just as many then no member was moved up to a boundary, inside it or inside a struct in
it (`Weighs`, `PlaceWeighs`, `StructWeighs`). The widths that `descriptor.h` and `gbe.h` give add up to 4096 and
8192 bytes (`DescriptorWeighs`, `Gbe8kWeighs`), which are the two sizes the test asks for; so what it lets
through has no padding anywhere (`WholeIsDense`). The order of bytes is tested as such, and the
order of bits by FLMAP0: bit 3 of its third field would be at bit 11, which the test finds (`MsbFirstDetected`).
How members are laid out is a recursion over a sequence. The library's induction theorems cannot be used on it, since they
take the statement as an operator; `WFMin` takes a set, and gives the induction over an interval of numbers that
the lemmas `LaidUnfolds` and `LaidWeighs` need (`Induction`).

`CorebootTreesProofs` (`TypeCorrect`, `TreesStayPatched`, `ImagesStayRight`, `ConfigsStayOwn`), from
`TreesAssumption`. A git branch starts at what is checked out. The module checks nothing of
that, so when it makes a branch every repository but the one it is in has to be at master, or the
new branch would start with another board's patches; and that is so only because the first
board's script ends by checking master out before any other begins. The inductive
invariant `IInv` is the properties, what they rest on between scripts (`BranchesBegin`,
`DownloadedTrees`, `ReadyBranches`), and how far the script that runs has come (`Downloading`,
`TodoOrder`, `Initialised`, `Progress`, `OthersAtMaster`, `CheckedOut`). `ConfigsStayOwn` adds `Configs`: while no
script failed, a `.config` is only in the tree of the script that works on it (`InPlace`), so that menuconfig has
another board's to keep only after one that did; until then, and until a user leaves menuconfig without saving,
what is on its way between tree and repository is the board's own (`OnTheirWay`).

`CrosFlashProofs` (`TypeCorrect`, `RunsAlwaysReplace`, `ChipAlwaysWhole`), from `CrosAssumption`; the
last also from `NoPartAtTheEnd`. `IInv` is `TypeOK`, `Going` (the run is a run of what was asked), `Tidy`
(only stopped runs leave files) and `SoFar` (which file holds what at each command). Lemma `PutIn` is the
script's idea: cutting at a part and joining with its image puts the part in. For the chip,
`ShortOrWhole` says that a file which lost blocks stays shorter than the chip for good.

`DepthchargeRomsProofs` (`TypeCorrect`, `PartsStayOwn`, `Refinement`), from `DepthchargeAssumption`: every step of
`withdepthcharge` is a step of `RomShelf` under the mapping or leaves it alone: `Start` is `Begin`,
`DropFile` is `Discard`, `PlaceImages` is `Place`, `UnknownBoard` and `Stop` are `Fail`, `BoardsDone` is
`Succeed`. That `Place` puts this run's complete files there needs what the trees hold at every command:
`Where`, `Checkouts`, `Linked`, `Packed`, `Loop`, `Shelved`.

`BuildRomsProofs` (`TypeCorrect`, `OwnImages`, `NeverAborts`, `OneAddressEverywhere`, `Refinement`), from
`BoardsAssumption`: a board has a type (every config in `resources/libreboot/config/grub` has txtmode or
vesafb), and there is a keymap (`resources/grub/keymap/original`); the copies of a board without either would
be none, and `Refinement` needs that a board that was built has images. The inductive invariant `IInv` has, for
every command, what the trees have checked out (`Where`, `Checkouts`), how far the loops over boards, types and
keymaps have come and what is already built (`Loop`, `Progress`, `Copying`, `Describing`), what is under `bin/`
(`Shelved`) and what a stopped run may have left there (`Litter`). `NeverAborts` rests on `Litter`:
a board that was placed in this run has nothing but its images until its own round of dd, and a run that
builds every i945 board has placed each of them when the loop over dd begins. For the refinement,
`Start` is `Begin`, `DropFile` is `Discard`, `PlaceImages` is `Place`, `CleanUp` is `Succeed`, `DdFails` and `Stop`
are `Fail`; the beginning and the end of a dd are `BeginInsert` and `EndInsert`, or leave the shelf alone where the
image has the value already.

`BuildRomsProofs` goes on to `ReleasedBuilds`: `withgrub` and `withseabios` command by command, `release/roms` and
`clean rom_images`, one script at a time. `ReleaseRefinement`: the three together implement `ReleaseRoms`, whose
builder is `RomShelf`; a command of a build is a step of `RomShelf` or a stutter by `NextRefines`, one of a
release is itself, and the release's own variables say nothing else. The invariant is `IInv` and that no release runs
during a build (`OneAtATime`). `IInv` survives the deletion of `bin/` because what it says of placed boards under `bin/`
is said while a build runs. `ArchivesOfBuilds` and `FinishedBuildsAreReleased` are then the theorems of
`ReleaseRomsProofs`, cited through the INSTANCE, and `BuildsUndisturbed` says that the invariants of `BuildRoms`
hold with releases and deletions in between. No run checks `ReleasedBuilds` itself: its commands are
checked in `build_roms` and `release_roms`.

`ReleaseRomsProofs` (`TypeCorrect`, `CurrentArchives`, `FinishedReleases`), from `ReleaseAssumption`. The module
stands on `RomShelf`, so what is proved holds next to any builder that implements it: for `withgrub` and
`withseabios` that is `ReleaseRefinement`, for `withdepthcharge` it is an argument from its refinement. `RInv` adds to the properties where the script is (`Where`), that a copy or
an archive is of its board's images (`Copies`), that a build which exits 0 finished its family (`OnShelf`),
and how far a release that nothing disturbed has come: no other board's copy is in the way, and the
boards it is done with are archived as they are under `bin/` (`Undisturbed`).

`ToolBuildsProofs` (`TypeCorrect`, `NamesStayTrue`, `ArchiveStaysTrue`, `TreesArePutBack`, `UndisturbedSucceed`,
`SourcesOutliveAStop`), from `ToolsAssumption`, for any scripts and any number of runs and stops. None is inductive:
each script begins with what stopped ones left. `Base` says where a script can be and which directories
stand there. `Naming` is the argument for the names. The loop of `module/flashrom` restores what it finds, so
`Original`, the sources at its beginning, is what the normal program and the backups were made of, with whatever
patches an earlier stop left in; but a user who does not let patch take a patch out has it put each of the loop's in, so it was not in `Original`
(`OriginalStays`), and when the loop is through with both, `Original` is unpatched (`NothingOriginal`).
`Archiving` carries the names into the archive, and `Copying` follows the copy of a release that found none, which
is of `Original` too. `Undisturbed` describes the trees of which no script was stopped: unpatched and without
directories in or next to them between scripts (`Settled`), and as the next command needs them within one (`OnTrack`,
`CopyOnTrack`). One stop of the release leaves one of four things (`Saved`): a good copy; no copy and a good
tree; a half-made copy next to a good tree; or a half-made tree, moved into place, with a good one inside. `Saving`
shows how the next runs go on from each, for instance: from a half-made copy the tree is copied into that copy, and at the
end the copy becomes the tree. The proof has one case for every kind of step (`Steps`).

Only model-checked: `EventuallyInstalled`, since liveness is out of the prover's reach. Every other property
of a run that passes is a theorem.

## 5. What is not modelled

- The text of messages, the printing of regions and checksums.
- How long a file is that has a new image behind an old one: the old one in front is what dd puts into a ROM.
- An empty printed source compiles and fails only when linked; the model lets it fail when
  compiled. Both leave no ich9gen.
- A flashrom that stops in the middle of writing the C201's chip: the vendor's recovery, not this
  repository, is what answers that.
- `i945-pwm`: one deterministic sweep of a register over sixteen fixed duty cycles; no input, no
  state that is read, nothing next to it.
- GRUB's configuration and `grub-assemble`: nested conditions of GRUB's own language, without
  state between them.
- The modules grub, seabios, crossgcc, memtest86plus, i945pwm and the downloads of grub, seabios and
  others: make in a directory, or delete and clone one. `tobuild` and `sha512sums` copy and sum
  files.
- Dispatchers, dependency scripts, fonts, configs, patches to other programs, the scripts that find blobs:
  no logic or no state of their own.

## 6. Findings

Shown by a run:

- `ich9tools_deme`: demefactory prints its sources with ich9deblob's generator, which has the
  libreboot layout wired in. The sources do not recreate the descriptor with the ME region kept,
  against the comment at `U/demefactory.c:126`.
- `ich9tools_mac`: `U/ich9gen.c:66` does not look at the last separator of an address, against
  the comment at 58.
- `cros_flash_leftover`: after a stopped run on one part, the next run puts its left-over
  `before.img` in front of a part at the start of the chip and shows no error, against
  `c201.texi:126-128`.

Met while modelling; the models have the code's behaviour, and the properties except it:

- A rebuilt ich9gen does not give "the very same 12KiB file" (`docs/src/hcl/gm45_remove_me.texi:140`) when
  the factory's second density differs.
- The first flash goes on when bucts fails (`flash:26,105-109,125`); `docs/src/archive_old.texi:739` says that
  it stops.
- After a stopped run, `withgrub` for other i945 boards can fail in dd on what that run left under `bin/`
  (`B/build/roms/withgrub:84`), until that board or all are built again.
- `gm45macaddress` is expanded without quotes (`withgrub:105`): a file that is not exactly one word gives
  the default address.
- A module build that stops between patch and restore leaves a patched backup (`B/build/module/flashrom:68`);
  the next is ended by patch, or, if the user answers yes to patch's question (70), makes programs without
  the patch their names say.
- `release/util:89`: a stop while copying and another while the copy's original is patched lose the
  pristine sources; a copy that is left over survives the download, and the next release puts it in place of
  the new tree.
- `release/roms:54`: when a stopped release left a copy and a board sorts before it, the next release removes the
  copy and is then ended by `cp -R` of it. A second one, or `./build clean rom_images`, goes through.
- `U/common/descriptor_gbe.c:34,53`: remove() and fclose() are not tested. A file that cannot be removed gets the
  new image appended, and one that a full disk cuts short at fclose is reported as written; the source
  generators test no write at all (`U/gbe/gbe.c:126`).
- `B/build/config/grubreplace:46-49`: a user who leaves menuconfig without saving makes the `.config` that an
  earlier, stopped script left in the tree, of whatever board, the board's config.
- `cros-flash-replace:45` takes any fragment of one line of `layout.txt` for a name, and replaces that part
  without a word; c201.texi only uses whole names.
- `release/roms:61` deletes the old archive under a name it never has, 67 tests for `version` in the wrong
  directory, so that in a `_src` archive no release can be made, and 84 loses tar's exit status.
- `release/src:103` deletes patches "because they are already applied": in an archive made before
  `./build module coreboot` they are not, and the module then makes branches without patches; in one made
  after it, `./build module all` fails. `docs/src/git/index.texi:316`: the coreboot module cannot be run again
  after `./build clean all`, before a new download.
- `B/build/module/grub:48` and `B/build/clean/grub:30` test for a file with `-d`.
- `cros-flash-replace` exits 0 whatever happens after its usage tests; a part that ended with the chip would
  hide that the file was cut.

## 7. Plan

Done: the GM45 tools and the flash scripts, where a mistake costs a machine; the ROM builds, the release
scripts, the tools they need, and the trees they share; and the proofs of all that these modules are checked for
but what section 4 leaves to TLC. What is left, in this order:

1. `ReleaseRoms` next to `DepthchargeRoms`, as `ReleasedBuilds` is for `BuildRoms`; section 4 argues from the refinement.
2. An abstract specification of replacing the C201's chip, and `CrosFlash` shown to implement it.
