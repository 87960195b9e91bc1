------------------------------ MODULE Descriptor ------------------------------
(***************************************************************************)
(* The 4 KiB flash descriptor of ICH9M/GM45 boards and the functions that  *)
(* ich9deblob, demefactory and ich9gen apply to it                         *)
(* (src/resources/utilities/ich9deblob/src/descriptor/descriptor.[ch]).    *)
(*                                                                         *)
(* A descriptor is a record of the fields some function reads or writes.   *)
(* Everything that is only copied (signature, map base addresses, clocks,  *)
(* the other straps, the VSCC table, every padding) is one value, `other`. *)
(***************************************************************************)
EXTENDS Integers

CONSTANTS
  OemStrings,    \* contents the OEM section may have
  LIBERATE,      \* the OEM string libreboot writes
  OtherFields    \* values of all the fields that are only copied

ASSUME OemAssumption == LIBERATE \in OemStrings

DESCRIPTORREGIONSIZE == 4096
GBEREGIONSIZE_8K == 8192
ROMSIZE_4MB == 4194304
ROMSIZE_8MB == 8388608

\* bytes >> FLREGIONBITSHIFT: the number of whole 4 KiB blocks in `bytes`.
Blocks(bytes) == bytes \div 4096

\* BASE and LIMIT are bit fields of 13 bits.
Field13(n) == n % 8192

RegionName == {"fd", "bios", "me", "gbe", "pd"}
Master == {"host", "me", "gbe"}
Bit == {0, 1}

Region == [base : 0 .. 8191, limit : 0 .. 8191]
Access == [read : SUBSET RegionName, write : SUBSET RegionName]

DescriptorRecord ==
  [ nr : 0 .. 7, density1 : 0 .. 7, density2 : 0 .. 7,
    region : [RegionName -> Region],
    access : [Master -> Access],
    ichMeDisable : Bit, mchMeDisable : Bit, tpmDisable : Bit,
    integratedGbe : Bit, lanPhy : Bit,
    oem : OemStrings, other : OtherFields ]

Removed == [base |-> 8191, limit |-> 0]

-----------------------------------------------------------------------------
(* The elementary changes, one operator per C function.                     *)

descriptorHostRegionsUnlocked(d) ==
  [d EXCEPT !.access["host"] = [read |-> RegionName, write |-> RegionName]]

descriptorMeRegionsForbidden(d) ==
  [d EXCEPT !.access["me"] = [read |-> {}, write |-> {}]]

descriptorMeRegionRemoved(d) == [d EXCEPT !.region["me"] = Removed]

descriptorPlatformRegionRemoved(d) == [d EXCEPT !.region["pd"] = Removed]

descriptorDisableMe(d) == [d EXCEPT !.ichMeDisable = 1, !.mchMeDisable = 1]

descriptorDisableTpm(d) == [d EXCEPT !.tpmDisable = 1]

\* Mutant: the limit is the last block of 8 KiB from 0, not of 8 KiB from 4 KiB.
MoveGbeLimitShort(d) ==
  [d EXCEPT !.region["gbe"] = [base  |-> Blocks(DESCRIPTORREGIONSIZE),
                               limit |-> Blocks(GBEREGIONSIZE_8K) - 1]]

descriptorMoveGbeToStart(d) ==
  [d EXCEPT !.region["gbe"] = [base  |-> Blocks(DESCRIPTORREGIONSIZE),
                               limit |-> Blocks(GBEREGIONSIZE_8K)]]

descriptorGbeRegionRemoved(d) == [d EXCEPT !.region["gbe"] = Removed]

\* Mutant: the limit is the number of blocks.
BiosToBlocks(start, romSize) ==
  [base |-> Blocks(start), limit |-> Field13(Blocks(romSize))]

\* The subtraction is of unsigned integers and is cut to the field's width.
BiosFrom(start, romSize) ==
  [base |-> Blocks(start), limit |-> Field13(Blocks(romSize) - 1)]

descriptorBiosRegionFillImageAfterGbe(d, romSize) ==
  [d EXCEPT !.region["bios"] =
              BiosFrom(DESCRIPTORREGIONSIZE + GBEREGIONSIZE_8K, romSize)]

descriptorBiosRegionFillImageAfterDescriptor(d, romSize) ==
  [d EXCEPT !.region["bios"] = BiosFrom(DESCRIPTORREGIONSIZE, romSize)]

descriptorOemString(d) == [d EXCEPT !.oem = LIBERATE]

descriptorDefinesGbeRegion(d) ==
  /\ ~(d.region["gbe"].base \in {8191, 4095} /\ d.region["gbe"].limit = 0)
  /\ d.integratedGbe # 0
  /\ d.lanPhy # 0

componentDensity(romSize) ==
  CASE romSize = 524288      -> 0
    [] romSize = 1048576     -> 1
    [] romSize = 2097152     -> 2
    [] romSize = ROMSIZE_4MB -> 3
    [] romSize = ROMSIZE_8MB -> 4
    [] romSize = 16777216    -> 5
    [] OTHER                 -> 7

-----------------------------------------------------------------------------
(* The composed changes.                                                    *)

\* Mutant: every board gets a GbE region.
SetGbeAlways(d, romSize) ==
  [descriptorBiosRegionFillImageAfterGbe(descriptorMoveGbeToStart(d), romSize)
     EXCEPT !.nr = 2, !.integratedGbe = 1, !.lanPhy = 1]

librebootSetGbeBiosDescriptorRegions(d, romSize) ==
  IF descriptorDefinesGbeRegion(d)
  THEN [descriptorBiosRegionFillImageAfterGbe(descriptorMoveGbeToStart(d), romSize)
          EXCEPT !.nr = 2, !.integratedGbe = 1, !.lanPhy = 1]
  ELSE [descriptorBiosRegionFillImageAfterDescriptor(descriptorGbeRegionRemoved(d), romSize)
          EXCEPT !.nr = 1, !.integratedGbe = 0, !.lanPhy = 0]

librebootDescriptorStructFromFactory(d, romSize) ==
  descriptorDisableTpm(descriptorDisableMe(
    descriptorPlatformRegionRemoved(descriptorMeRegionRemoved(
      librebootSetGbeBiosDescriptorRegions(d, romSize)))))

\* What ich9deblob's main() makes of the descriptor of a dump of romSize bytes.
DeblobbedDescriptor(d, romSize) ==
  descriptorOemString(descriptorHostRegionsUnlocked(descriptorMeRegionsForbidden(
    librebootDescriptorStructFromFactory(d, romSize))))

\* What demefactory's main() makes of it.
DemeDescriptor(d) ==
  descriptorMeRegionsForbidden(descriptorHostRegionsUnlocked(
    descriptorDisableTpm(descriptorDisableMe(d))))

-----------------------------------------------------------------------------
(* The mkdescriptor.c that notCreatedCFileFromDescriptorStruct() prints for d *)
(* is a function of (romSize, hasGbe).  It assigns literals, the values in d, *)
(* except where the printed code computes from its parameters.                *)

generatedFlMaps(d, hasGbe) == [d EXCEPT !.nr = IF hasGbe THEN 2 ELSE 1]

generatedComponentSection(d, romSize) ==
  [d EXCEPT !.density1 = componentDensity(romSize), !.density2 = componentDensity(romSize)]

generatedGbe(hasGbe) ==
  IF hasGbe THEN [base  |-> Blocks(DESCRIPTORREGIONSIZE), limit |-> Blocks(GBEREGIONSIZE_8K)]
            ELSE Removed

\* Mutant: the BIOS always begins after 12 KiB.
generatedRegionsWithGap(d, romSize, hasGbe) ==
  [d EXCEPT
     !.region["bios"] = BiosFrom(DESCRIPTORREGIONSIZE + GBEREGIONSIZE_8K, romSize),
     !.region["gbe"] = generatedGbe(hasGbe)]

generatedRegionSection(d, romSize, hasGbe) ==
  [d EXCEPT
     !.region["bios"] =
        BiosFrom(DESCRIPTORREGIONSIZE + (IF hasGbe THEN GBEREGIONSIZE_8K ELSE 0), romSize),
     !.region["gbe"] = generatedGbe(hasGbe)]

generatedIchStraps(d, hasGbe) ==
  LET strap == IF hasGbe THEN 1 ELSE 0
  IN  [d EXCEPT !.integratedGbe = strap, !.lanPhy = strap]

generatedDescriptorStruct(d, romSize, hasGbe) ==
  generatedIchStraps(generatedRegionSection(generatedComponentSection(
    generatedFlMaps(d, hasGbe), romSize), romSize, hasGbe), hasGbe)

-----------------------------------------------------------------------------
(* What a layout has to satisfy: vocabulary of the properties.              *)

\* Sizes of flash whose last block number fits a field of 13 bits, with room for a
\* block of BIOS after descriptor and GbE.
RomSizes == {n \in Nat : Blocks(n) \in 4 .. 8192}

InUse(r) == r.base <= r.limit

Regions(d) == {n \in RegionName : InUse(d.region[n])}

Disjoint(d) ==
  \A m, n \in Regions(d) :
    m # n => \/ d.region[m].limit < d.region[n].base
             \/ d.region[n].limit < d.region[m].base

\* Every block of the chip belongs to some region and none lies beyond it.
Fills(d, romSize) ==
  /\ \E n \in Regions(d) : d.region[n].base = 0
  /\ \A n \in Regions(d) :
       \/ d.region[n].limit = Blocks(romSize) - 1
       \/ /\ d.region[n].limit < Blocks(romSize) - 1
          /\ \E m \in Regions(d) : d.region[m].base = d.region[n].limit + 1

\* The layout libreboot promises: descriptor, GbE if there is one, BIOS; no ME,
\* no platform region, and nobody but the host CPU limits the host CPU.
LibreLayout(d, romSize) ==
  /\ Disjoint(d)
  /\ Fills(d, romSize)
  /\ Regions(d) = IF descriptorDefinesGbeRegion(d) THEN {"fd", "gbe", "bios"}
                                                   ELSE {"fd", "bios"}
  /\ d.nr + 1 = IF descriptorDefinesGbeRegion(d) THEN 3 ELSE 2
  /\ d.access["host"] = [read |-> RegionName, write |-> RegionName]
  /\ d.access["me"] = [read |-> {}, write |-> {}]
  /\ d.ichMeDisable = 1 /\ d.mchMeDisable = 1
==============================================================================
