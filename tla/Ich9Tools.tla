------------------------------- MODULE Ich9Tools -------------------------------
(***************************************************************************)
(* ich9deblob, demefactory and ich9gen on one machine: the directory they  *)
(* run in, the generated sources a user places in src/ich9gen/, the        *)
(* objects and the executable that make derives from them, and the ROM     *)
(* images the outputs are inserted into and read back from                 *)
(* (src/resources/utilities/ich9deblob/).                                  *)
(*                                                                         *)
(* A run of a tool reads everything, computes in memory, then writes its   *)
(* files one after the other; each write is two steps (remove the old      *)
(* file, write the new one), and either can fail, seen by the tool or not. *)
(***************************************************************************)
EXTENDS Layout

CONSTANTS
  FactoryRoms,     \* dumps a user may put in place as factory.rom
  DefaultSource,   \* the repository's mkdescriptor.c and mkgbe.c: [desc, gbe]
  MacArguments,    \* arguments of ich9gen --macaddress
  SomeGbe,         \* the 8 KiB that uninitialised memory or other flash holds
  Hosts,           \* machines the tools are compiled for
  Faults,          \* which failures happen: see the write actions
  MaxRuns          \* bound: how many times a tool is started

\* ich9gen --macaddress takes a string of `length` characters; in those of 17,
\* separator[k] says whether character 3k-1 is a colon, hex whether the twelve
\* digits are hexadecimal, mac what they spell.
MacArgument ==
  [length : Nat, separator : [1 .. 5 -> BOOLEAN], hex : BOOLEAN, mac : Mac]

VARIABLES
  host,     \* the machine
  dir,      \* the working directory: file name -> content
  src,      \* src/ich9gen/: the generated sources ich9gen is compiled from
  obj,      \* obj/ich9gen/: the two objects, or Absent
  built,    \* the executables present
  gen,      \* the objects that the ich9gen executable was linked from
  proc,     \* the tool that runs
  status,   \* how the last run ended
  runs,     \* how many runs were started
  rebuilt,  \* history: ./build module ich9deblob ran after the last change of src
  spoiled   \* history: files hit by a failure that no tool looks for; {} when the next
            \* run begins or the user goes on

vars == <<host, dir, src, obj, built, gen, proc, status, runs, rebuilt, spoiled>>

-----------------------------------------------------------------------------
(* Contents of files.                                                       *)

Absent == [kind |-> "absent"]
Partial == [kind |-> "partial"]         \* cut short, or begins with such a file
Header == [kind |-> "header"]

\* origin and romSize are history: the tool that made the descriptor out of a
\* dump, or "repository", and the size of the ROM the content was made for.
Origin == {"factory", "repository", "ich9deblob", "demefactory"}

Image12k(d, g8, origin, romSize) ==
  [kind |-> "image12k", desc |-> d, gbe |-> g8, origin |-> origin, romSize |-> romSize]
Image4k(d, origin, romSize) ==
  [kind |-> "image4k", desc |-> d, origin |-> origin, romSize |-> romSize]

DescriptorSource(d, origin, romSize) ==
  [kind |-> "mkdescriptor.c", desc |-> d, origin |-> origin, romSize |-> romSize]
GbeSource(g) == [kind |-> "mkgbe.c", gbe |-> g]

\* gbeAt is the block where the 8 KiB `gbe` begin; other blocks hold SomeGbe.
Rom(romSize, d, gbeAt, g8, origin) ==
  [kind |-> "rom", size |-> romSize, desc |-> d, gbeAt |-> gbeAt, gbe |-> g8,
   origin |-> origin]

Objects == {"mkdescriptor", "mkgbe"}
HeaderOf == [mkdescriptor |-> "mkdescriptor.h", mkgbe |-> "mkgbe.h"]
CodeOf == [mkdescriptor |-> "mkdescriptor.c", mkgbe |-> "mkgbe.c"]

HeaderFiles == {"mkdescriptor.h", "mkgbe.h"}
CodeFiles == {"mkdescriptor.c", "mkgbe.c"}
SourceFiles == HeaderFiles \cup CodeFiles
ImageFiles ==
  {"deblobbed_descriptor.bin", "deblobbed_4kdescriptor.bin",
   "demefactory_4kdescriptor.bin", "ich9fdgbe_4m.bin", "ich9fdgbe_8m.bin",
   "ich9fdnogbe_4m.bin", "ich9fdnogbe_8m.bin"}
Files == {"factory.rom"} \cup SourceFiles \cup ImageFiles
Tools == {"ich9deblob", "demefactory", "ich9gen"}

\* What each file may hold.
RomContent ==
  [kind : {"rom"}, size : Nat, desc : DescriptorRecord, gbeAt : 0 .. 8191,
   gbe : Gbe8k, origin : Origin]
Image12kContent ==
  [kind : {"image12k"}, desc : DescriptorRecord, gbe : Gbe8k, origin : Origin,
   romSize : Nat]
Image4kContent ==
  [kind : {"image4k"}, desc : DescriptorRecord, origin : Origin, romSize : Nat]
DescriptorSourceContent ==
  [kind : {"mkdescriptor.c"}, desc : DescriptorRecord, origin : Origin, romSize : Nat]
GbeSourceContent == [kind : {"mkgbe.c"}, gbe : Gbe4k]

WholeContentsOf(file) ==
  CASE file = "factory.rom" -> RomContent
    [] file \in HeaderFiles -> {Header}
    [] file = "mkdescriptor.c" -> DescriptorSourceContent
    [] file = "mkgbe.c" -> GbeSourceContent
    [] file \in {"deblobbed_descriptor.bin", "ich9fdgbe_4m.bin", "ich9fdgbe_8m.bin"}
         -> Image12kContent
    [] OTHER -> Image4kContent

ContentsOf(file) == {Absent, Partial} \cup WholeContentsOf(file)

ASSUME ToolsAssumption ==
  /\ DefaultSource.desc \in DescriptorRecord /\ DefaultSource.gbe \in Gbe4k
  /\ MacArguments \subseteq MacArgument
  /\ SomeGbe \in Gbe8k
  /\ FactoryRoms \subseteq ContentsOf("factory.rom")
  /\ Hosts \subseteq Host
  /\ Faults \subseteq {"remove", "open", "write", "full", "kill"}
  /\ MaxRuns \in Nat

\* What the repository's mkdescriptor.c assigns whatever its parameters are, and
\* the checksum and the padding in its mkgbe.c.
ASSUME SourceAssumption ==
  LET d == DefaultSource.desc
      g == DefaultSource.gbe
  IN  /\ d.region["fd"] = [base |-> 0, limit |-> 0]
      /\ d.region["me"] = Removed /\ d.region["pd"] = Removed
      /\ d.access["host"] = [read |-> RegionName, write |-> RegionName]
      /\ d.access["me"] = [read |-> {}, write |-> {}]
      /\ d.ichMeDisable = 1 /\ d.mchMeDisable = 1 /\ d.tpmDisable = 1
      /\ d.oem = LIBERATE
      /\ ChecksumValid(g) /\ g.padding = "ff"

\* A dump has the size of some flash chip, and its descriptor says that it is the
\* first block.
ASSUME DumpAssumption ==
  \A rom \in FactoryRoms : rom.kind = "rom" =>
    /\ rom.size \in RomSizes
    /\ rom.desc.region["fd"] = [base |-> 0, limit |-> 0]
    /\ rom.origin = "factory"
-----------------------------------------------------------------------------
(* Runs. A job is one file to write; text jobs go through fprintf, whose    *)
(* result nobody checks, the others through a checked fwrite. What fclose() *)
(* returns nobody checks in either.                                         *)

Job(file, content) == [file |-> file, text |-> FALSE, content |-> content]
TextJob(file, content) == [file |-> file, text |-> TRUE, content |-> content]

Idle == [tool |-> "none", jobs |-> << >>, opened |-> FALSE, gbeRead |-> FALSE,
         mac |-> << >>]

DescriptorSourceJobs(d, origin, romSize) ==
  << TextJob("mkdescriptor.h", Header),
     TextJob("mkdescriptor.c", DescriptorSource(d, origin, romSize)) >>

GbeSourceJobs(g) ==
  << TextJob("mkgbe.h", Header), TextJob("mkgbe.c", GbeSource(g)) >>

DeblobJobs(d, g8, romSize) ==
  IF descriptorDefinesGbeRegion(d)
  THEN << Job("deblobbed_descriptor.bin", Image12k(d, g8, "ich9deblob", romSize)) >>
         \o DescriptorSourceJobs(d, "ich9deblob", romSize)
         \o GbeSourceJobs(g8.backup)
  ELSE << Job("deblobbed_4kdescriptor.bin", Image4k(d, "ich9deblob", romSize)) >>
         \o DescriptorSourceJobs(d, "ich9deblob", romSize)

DemeJobs(d, romSize) ==
  << Job("demefactory_4kdescriptor.bin", Image4k(d, "demefactory", romSize)) >>
    \o DescriptorSourceJobs(d, "demefactory", romSize)

GenJobs(template, g8) ==
  LET Fd(romSize, hasGbe) == generatedDescriptorStruct(template.desc, romSize, hasGbe)
      With(romSize) == Image12k(Fd(romSize, TRUE), g8, template.origin, romSize)
      Without(romSize) == Image4k(Fd(romSize, FALSE), template.origin, romSize)
  IN  << Job("ich9fdgbe_4m.bin", With(ROMSIZE_4MB)),
         Job("ich9fdgbe_8m.bin", With(ROMSIZE_8MB)),
         Job("ich9fdnogbe_4m.bin", Without(ROMSIZE_4MB)),
         Job("ich9fdnogbe_8m.bin", Without(ROMSIZE_8MB)) >>

\* fread of 8 KiB at flReg3.BASE: enough bytes are there, and what they are.
GbeReadable(rom) ==
  4096 * rom.desc.region["gbe"].base + GBEREGIONSIZE_8K <= rom.size
GbeAtBase(rom) ==
  IF rom.desc.region["gbe"].base = rom.gbeAt THEN rom.gbe ELSE SomeGbe

\* Starting a tool: it either ends at once with a status, or has files to write.
EndsAtOnce(how) == proc' = Idle /\ status' = how
Begins(tool, jobs, gbeRead, mac) ==
  /\ proc' = [tool |-> tool, jobs |-> jobs, opened |-> FALSE,
              gbeRead |-> gbeRead, mac |-> mac]
  /\ status' = "running"

CanStart(tool) ==
  /\ proc = Idle /\ tool \in built /\ runs < MaxRuns
  /\ runs' = runs + 1
  /\ spoiled' = {}
  /\ UNCHANGED <<host, dir, src, obj, built, gen, rebuilt>>

Refuses(tool) ==
  /\ CanStart(tool)
  /\ host \in systemOrCompilerIncompatible
  /\ EndsAtOnce("error")

\* No factory.rom: main() calls fclose(NULL) before it returns 1, which a C
\* library may survive or not. Less than 4 KiB of it: return 1.
FactoryRomUnreadable(tool) ==
  /\ CanStart(tool)
  /\ tool \in {"ich9deblob", "demefactory"}
  /\ host \notin systemOrCompilerIncompatible
  /\ \/ dir["factory.rom"] = Absent /\ \E how \in {"error", "crash"} : EndsAtOnce(how)
     \/ dir["factory.rom"] = Partial /\ EndsAtOnce("error")

Ich9deblob ==
  LET rom == dir["factory.rom"]
      hasGbe == descriptorDefinesGbeRegion(rom.desc)
      d == DeblobbedDescriptor(rom.desc, rom.size)
      read == IF hasGbe THEN GbeAtBase(rom) ELSE SomeGbe
      g8 == IF descriptorDefinesGbeRegion(d)
            THEN deblobbedGbeStructFromFactory(read) ELSE read
  IN /\ CanStart("ich9deblob")
     /\ host \notin systemOrCompilerIncompatible
     /\ rom.kind = "rom"
     /\ IF hasGbe /\ ~GbeReadable(rom)
        THEN EndsAtOnce("error")
        ELSE Begins("ich9deblob", DeblobJobs(d, g8, rom.size), hasGbe /\ GbeReadable(rom), << >>)

Demefactory ==
  LET rom == dir["factory.rom"]
  IN /\ CanStart("demefactory")
     /\ host \notin systemOrCompilerIncompatible
     /\ rom.kind = "rom"
     /\ Begins("demefactory", DemeJobs(DemeDescriptor(rom.desc), rom.size), FALSE, << >>)

\* Without exactly two arguments, or with another option, the linked data is used.
Ich9gen ==
  /\ CanStart("ich9gen")
  /\ host \notin systemOrCompilerIncompatible
  /\ Begins("ich9gen", GenJobs(gen["mkdescriptor"], generatedGbeStruct8k(gen["mkgbe"].gbe)), TRUE, << >>)

\* The loop over the separators: for (i = 2; i < 14; i += 3).
CheckedSeparators == {k \in 1 .. 5 : 3 * k - 1 < 14}

MacAccepted(arg) ==
  /\ arg.length = 17
  /\ \A k \in CheckedSeparators : arg.separator[k]
  /\ arg.hex

Ich9genMac(arg) ==
  LET g8 == WithMac(generatedGbeStruct8k(gen["mkgbe"].gbe), arg.mac)
  IN /\ CanStart("ich9gen")
     /\ host \notin systemOrCompilerIncompatible
     /\ IF MacAccepted(arg)
        THEN Begins("ich9gen", GbeSourceJobs(g8.backup) \o GenJobs(gen["mkdescriptor"], g8),
                    TRUE, << arg >>)
        ELSE EndsAtOnce("error")

-----------------------------------------------------------------------------
(* Writing: notCreatedDescriptorGbeFile, notCreated4kDescriptorFile and the *)
(* four source generators.                                                  *)

Writing == proc.jobs # << >>
TheJob == Head(proc.jobs)

\* The file is done: go on with the next one; after the last, return 0.
NextJob ==
  IF Len(proc.jobs) = 1
  THEN proc' = Idle /\ status' = "ok"
  ELSE /\ proc' = [proc EXCEPT !.jobs = Tail(@), !.opened = FALSE]
       /\ UNCHANGED status

WriteStep == UNCHANGED <<host, src, obj, built, gen, runs, rebuilt>>

\* What a file holds once it is written. fopen("w+") empties a source that is still
\* there; fopen("ab") adds an image after the old one, and dd takes the front.
Written(old, job) ==
  CASE job.text \/ old = Absent -> {job.content}
    [] ~job.text /\ old = Partial -> {Partial, job.content}   \* it may have been empty
    [] OTHER -> {old}

CutShort(old, job) ==
  IF job.text \/ old \in {Absent, Partial} THEN Partial ELSE old

Leaves(content) == dir' = [dir EXCEPT ![TheJob.file] = content]
OldFile == dir[TheJob.file]

\* remove(), then fopen().
RemoveOldFile ==
  /\ Writing /\ ~proc.opened
  /\ Leaves(Absent)
  /\ proc' = [proc EXCEPT !.opened = TRUE]
  /\ UNCHANGED <<status, spoiled>> /\ WriteStep

\* remove() failed: nothing tests it, and the old file is opened.
RemoveFails ==
  /\ "remove" \in Faults
  /\ Writing /\ ~proc.opened /\ OldFile # Absent
  /\ proc' = [proc EXCEPT !.opened = TRUE]
  /\ spoiled' = spoiled \cup {TheJob.file}
  /\ UNCHANGED <<dir, status>> /\ WriteStep

WriteFile ==
  /\ Writing /\ proc.opened
  /\ \E content \in Written(OldFile, TheJob) : Leaves(content)
  /\ NextJob /\ UNCHANGED spoiled /\ WriteStep

\* fopen() returned NULL: nothing tests it, the first write through it crashes.
OpenFails ==
  /\ "open" \in Faults
  /\ Writing /\ proc.opened
  /\ EndsAtOnce("crash")
  /\ UNCHANGED <<dir, spoiled>> /\ WriteStep

\* Mutant of WriteFails: main() does not test what the writer returned.
WriteFailureIgnored ==
  /\ "write" \in Faults
  /\ Writing /\ proc.opened /\ ~TheJob.text
  /\ Leaves(CutShort(OldFile, TheJob))
  /\ NextJob /\ UNCHANGED spoiled /\ WriteStep

\* fwrite() wrote less: return 1, the file stays as it is.
WriteFails ==
  /\ "write" \in Faults
  /\ Writing /\ proc.opened /\ ~TheJob.text
  /\ Leaves(CutShort(OldFile, TheJob))
  /\ EndsAtOnce("error") /\ UNCHANGED spoiled /\ WriteStep

\* The disk turns out to be full in fprintf(), or only when fclose() writes what
\* fwrite() or fprintf() kept back: no result is tested, the run goes on.
OutputLost ==
  /\ "full" \in Faults
  /\ Writing /\ proc.opened
  /\ Leaves(CutShort(OldFile, TheJob))
  /\ spoiled' = spoiled \cup {TheJob.file}
  /\ NextJob /\ WriteStep

\* Before, while or after the data reach the file.
Killed ==
  /\ "kill" \in Faults
  /\ Writing
  /\ \/ UNCHANGED dir
     \/ /\ proc.opened
        /\ \E content \in Written(OldFile, TheJob) \cup {CutShort(OldFile, TheJob)} :
             Leaves(content)
  /\ EndsAtOnce("crash") /\ UNCHANGED spoiled /\ WriteStep

-----------------------------------------------------------------------------
(* The user between runs.                                                   *)

PlaceFactoryRom(rom) ==
  /\ proc = Idle
  /\ dir["factory.rom"] # rom
  /\ dir' = [dir EXCEPT !["factory.rom"] = rom]
  /\ spoiled' = {}
  /\ UNCHANGED <<host, src, obj, built, gen, proc, status, runs, rebuilt>>

\* dd an output into a libreboot ROM of the size it is for, and use that ROM as
\* factory.rom, which the documentation proposes for reading back the address.
PlaceLibrebootRom(file) ==
  /\ proc = Idle
  /\ file # "demefactory_4kdescriptor.bin"     \* that one is for a factory ROM
  /\ dir[file].kind \in {"image12k", "image4k"}
  /\ LET d == dir[file].desc
         g8 == IF dir[file].kind = "image12k" THEN dir[file].gbe ELSE SomeGbe
     IN  dir' = [dir EXCEPT !["factory.rom"] =
                    Rom(dir[file].romSize, d, Blocks(DESCRIPTORREGIONSIZE), g8, dir[file].origin)]
  /\ spoiled' = {}
  /\ UNCHANGED <<host, src, obj, built, gen, proc, status, runs, rebuilt>>

\* Copy the generated sources of one kind to src/ich9gen/.
PlaceSources(name) ==
  LET h == HeaderOf[name]
      c == CodeOf[name]
  IN /\ proc = Idle
     /\ dir[h] # Absent /\ dir[c] # Absent
     /\ src' = [src EXCEPT ![h] = dir[h], ![c] = dir[c]]
     /\ src' # src
     /\ rebuilt' = FALSE
     /\ spoiled' = {}
     /\ UNCHANGED <<host, dir, obj, built, gen, proc, status, runs>>

\* The rule of obj/ich9gen/<name>.o has no prerequisites: make runs it only when
\* the object is not there. A source that was cut short does not compile, and
\* make stops there: it does not reach the objects after it.
ObjectOf(n, o) ==
  CASE o[n] # Absent -> o[n]
    [] o[n] = Absent /\ Partial \notin {src[HeaderOf[n]], src[CodeOf[n]]} -> src[CodeOf[n]]
    [] OTHER -> Absent

Compile(o) ==
  [n \in Objects |->
     IF n = "mkgbe" /\ ObjectOf("mkdescriptor", o) = Absent THEN o[n]
     ELSE ObjectOf(n, o)]

\* `all` is ich9deblob, ich9gen, demefactory in this order; make stops at the
\* first that fails, and relinks ich9gen only when an object is new.
Make(o, executables) ==
  LET objects == Compile(o)
  IN /\ obj' = objects
     /\ IF \E n \in Objects : objects[n] = Absent
        THEN /\ built' = executables \cup {"ich9deblob"}
             /\ UNCHANGED gen
        ELSE /\ built' = Tools
             /\ gen' = IF objects = o /\ "ich9gen" \in executables THEN gen
                       ELSE objects

\* `make` in the directory of the sources.
PlainMake ==
  /\ proc = Idle
  /\ Make(obj, built)
  /\ spoiled' = {}
  /\ UNCHANGED <<host, dir, src, proc, status, runs, rebuilt>>

\* Mutant of BuildModule: without make clean.
BuildModuleWithoutClean ==
  /\ proc = Idle
  /\ Make(obj, built)
  /\ rebuilt' = TRUE
  /\ spoiled' = {}
  /\ UNCHANGED <<host, dir, src, proc, status, runs>>

\* ./build module ich9deblob: make clean, then make.
BuildModule ==
  /\ proc = Idle
  /\ Make([n \in Objects |-> Absent], {})
  /\ rebuilt' = TRUE
  /\ spoiled' = {}
  /\ UNCHANGED <<host, dir, src, proc, status, runs>>

-----------------------------------------------------------------------------
DefaultDescriptorSource == DescriptorSource(DefaultSource.desc, "repository", ROMSIZE_8MB)

\* A fresh checkout after its first ./build module ich9deblob.
Init ==
  /\ host \in Hosts
  /\ dir = [f \in Files |-> Absent]
  /\ src = [f \in SourceFiles |->
              CASE f = "mkdescriptor.c" -> DefaultDescriptorSource
                [] f = "mkgbe.c" -> GbeSource(DefaultSource.gbe)
                [] OTHER -> Header]
  /\ obj = [n \in Objects |-> src[CodeOf[n]]]
  /\ built = Tools
  /\ gen = obj
  /\ proc = Idle /\ status = "none" /\ runs = 0
  /\ rebuilt = TRUE /\ spoiled = {}

Next ==
  \/ \E tool \in Tools : Refuses(tool) \/ FactoryRomUnreadable(tool)
  \/ Ich9deblob \/ Demefactory \/ Ich9gen
  \/ \E arg \in MacArguments : Ich9genMac(arg)
  \/ RemoveOldFile \/ RemoveFails \/ WriteFile \/ OpenFails \/ WriteFails \/ OutputLost
  \/ Killed
  \/ \E rom \in FactoryRoms : PlaceFactoryRom(rom)
  \/ \E file \in ImageFiles : PlaceLibrebootRom(file)
  \/ \E name \in Objects : PlaceSources(name)
  \/ PlainMake \/ BuildModule

Spec == Init /\ [][Next]_vars

-----------------------------------------------------------------------------
(* Properties.                                                              *)

JobOK(j) ==
  /\ DOMAIN j = {"file", "text", "content"}
  /\ j.file \in Files /\ j.text \in BOOLEAN
  /\ j.content \in WholeContentsOf(j.file)

\* Every variable has its type: a file only ever holds what its writer prints
\* there, and every word, region bound and strap fits its field.
TypeOK ==
  /\ host \in Hosts
  /\ DOMAIN dir = Files /\ \A f \in Files : dir[f] \in ContentsOf(f)
  /\ DOMAIN src = SourceFiles
  /\ \A f \in SourceFiles : src[f] \in ContentsOf(f) \ {Absent}
  /\ DOMAIN obj = Objects
  /\ \A n \in Objects : obj[n] \in WholeContentsOf(CodeOf[n]) \cup {Absent}
  /\ DOMAIN gen = Objects
  /\ \A n \in Objects : gen[n] \in WholeContentsOf(CodeOf[n])
  /\ built \subseteq Tools
  /\ DOMAIN proc = {"tool", "jobs", "opened", "gbeRead", "mac"}
  /\ proc.tool \in Tools \cup {"none"}
  /\ \A i \in 1 .. Len(proc.jobs) : JobOK(proc.jobs[i])
  /\ proc.opened \in BOOLEAN /\ proc.gbeRead \in BOOLEAN
  /\ proc.mac \in {<< >>} \cup {<< arg >> : arg \in MacArguments}
  /\ status \in {"none", "running", "ok", "error", "crash"}
  /\ runs \in 0 .. MaxRuns
  /\ rebuilt \in BOOLEAN /\ spoiled \subseteq Files

HasGbe(content) == content.kind \in {"image12k", "mkgbe.c"}
IsImage(content) == content.kind \in {"image12k", "image4k"}

\* ich9deblob decides about the GbE region twice: on the factory descriptor when
\* it reads the 8 KiB, on the modified one when it writes them. What it has not
\* read is uninitialised stack, and never reaches a file.
NoUninitialisedGbe ==
  proc.tool = "ich9deblob" /\ (\E i \in 1 .. Len(proc.jobs) : HasGbe(proc.jobs[i].content))
    => proc.gbeRead

\* Every image that a run of ich9deblob wrote, or one of ich9gen from a template
\* without an ME, partitions the ROM it is for into descriptor, GbE (exactly when
\* the file brings the GbE data) and BIOS, and shuts the ME out.
LayoutFitsRom ==
  \A f \in ImageFiles :
    IsImage(dir[f]) /\ dir[f].origin # "demefactory" =>
      /\ LibreLayout(dir[f].desc, dir[f].romSize)
      /\ descriptorDefinesGbeRegion(dir[f].desc) <=> HasGbe(dir[f])

\* Every main() begins with the test for compilers, and a tool that goes on after
\* it has all fields of both structs where the chip has them: the test asks for
\* two sizes, the byte order and the bits of two structs, and nothing in it looks
\* at the other thirty structs (x86compatibility.c:33-160).
AcceptedHostsFit == proc # Idle => host \in FitsFlash

\* However many times the GbE data goes through the tools, the sources and the
\* executable, both copies in an image are the same and have a valid checksum,
\* even though the main copy of a factory dump has not.
GbeCopiesValid ==
  /\ \A f \in ImageFiles : dir[f].kind = "image12k" => GoodGbe(dir[f].gbe)
  /\ dir["mkgbe.c"].kind = "mkgbe.c" => ChecksumValid(dir["mkgbe.c"].gbe)

\* After ./build module ich9deblob, an ich9gen that is there was made from the
\* sources placed in src/ich9gen/, although make itself would keep old objects.
RebuildTakesEffect ==
  rebuilt /\ "ich9gen" \in built => gen = [n \in Objects |-> src[CodeOf[n]]]

SameButDensities(c, d) ==
  [c EXCEPT !.density1 = 0, !.density2 = 0] = [d EXCEPT !.density1 = 0, !.density2 = 0]

\* The source that ich9deblob prints computes regions and straps from (romSize,
\* hasGbe) where the descriptor it stands for got them from elsewhere: for the
\* size of the dump, both ways give the same descriptor, densities excepted.
SourceRegenerates ==
  LET c == dir["mkdescriptor.c"]
  IN  c.kind = "mkdescriptor.c" /\ c.origin = "ich9deblob" =>
        SameButDensities(
          generatedDescriptorStruct(c.desc, c.romSize, descriptorDefinesGbeRegion(c.desc)),
          c.desc)

\* ich9deblob run on a libreboot ROM gives back that ROM's descriptor and GbE
\* region, whichever tool they came from.
DeblobIsIdempotent ==
  LET rom == dir["factory.rom"]
  IN  rom.kind = "rom" /\ rom.origin \in {"repository", "ich9deblob"} =>
        /\ DeblobbedDescriptor(rom.desc, rom.size) = rom.desc
        /\ descriptorDefinesGbeRegion(rom.desc) =>
              /\ GbeReadable(rom)
              /\ deblobbedGbeStructFromFactory(GbeAtBase(rom)) = rom.gbe

MacOf(content) == IF content.kind = "mkgbe.c" THEN content.gbe.mac ELSE content.gbe.main.mac

\* When ich9gen --macaddress reports success, the printed source and all four images
\* are there, and what has a GbE region holds that address, whatever failed on the
\* way and was left by earlier runs; except the files hit by the two failures that
\* the tool does not look for, of remove() and of fclose() (descriptor_gbe.c:34-53).
SuccessIsComplete ==
  [][ (proc.mac # << >> /\ status' = "ok" /\ status # "ok") =>
        \A f \in {"ich9fdgbe_4m.bin", "ich9fdgbe_8m.bin",
                  "ich9fdnogbe_4m.bin", "ich9fdnogbe_8m.bin", "mkgbe.c"} \ spoiled' :
          /\ dir'[f] \notin {Absent, Partial}
          /\ HasGbe(dir'[f]) => MacOf(dir'[f]) = Head(proc.mac).mac
    ]_vars

-----------------------------------------------------------------------------
(* What comments and the documentation say and the code does not do.        *)

\* demefactory.c: the printed source "will recreate the deactivatedME descriptor".
DemeSourceRegenerates ==
  LET c == dir["mkdescriptor.c"]
  IN  c.kind = "mkdescriptor.c" /\ c.origin = "demefactory" =>
        \E hasGbe \in BOOLEAN :
          SameButDensities(generatedDescriptorStruct(c.desc, c.romSize, hasGbe), c.desc)

\* ich9gen.c: "if the user provides an invalid MAC address, then ich9gen will exit".
InvalidMacExits ==
  proc.mac # << >> =>
    /\ \A k \in 1 .. 5 : Head(proc.mac).separator[k]
    /\ Head(proc.mac).hex /\ Head(proc.mac).length = 17
==============================================================================
