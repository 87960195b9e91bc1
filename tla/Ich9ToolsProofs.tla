---------------------------- MODULE Ich9ToolsProofs ----------------------------
(***************************************************************************)
(* ich9deblob, demefactory and ich9gen, for every dump, address, size of   *)
(* flash, failure and number of runs: what ich9deblob makes of a           *)
(* descriptor and of a GbE region, what the printed sources keep of it,    *)
(* what holds of every file, source, object and run whatever chain of them *)
(* it came through, and where a compiler that passes the tests puts the    *)
(* fields of the structs.                                                  *)
(***************************************************************************)
EXTENDS Ich9Tools, WellFoundedInduction, TLAPS

\* What no function but the printed source's changes.
Carried(e, d) ==
  /\ e.density1 = d.density1 /\ e.density2 = d.density2 /\ e.other = d.other
  /\ e.access["gbe"] = d.access["gbe"]

\* The shape that every function which moves or removes a region has.
WithRegion(d, n, r) == [d EXCEPT !.region[n] = r]

\* The blocks that descriptor and GbE region take.
LEMMA BlocksOf ==
  /\ Blocks(DESCRIPTORREGIONSIZE) = 1
  /\ Blocks(GBEREGIONSIZE_8K) = 2
  /\ Blocks(DESCRIPTORREGIONSIZE + GBEREGIONSIZE_8K) = 3
BY DEF Blocks, DESCRIPTORREGIONSIZE, GBEREGIONSIZE_8K

\* A descriptor with one region replaced: a descriptor, and nothing else differs.
LEMMA SetRegion ==
  ASSUME NEW d \in DescriptorRecord, NEW n \in RegionName, NEW r \in Region
  PROVE  /\ WithRegion(d, n, r) \in DescriptorRecord
         /\ WithRegion(d, n, r).region[n] = r
         /\ \A m \in RegionName : m # n => WithRegion(d, n, r).region[m] = d.region[m]
         /\ WithRegion(d, n, r).nr = d.nr
         /\ WithRegion(d, n, r).integratedGbe = d.integratedGbe
         /\ WithRegion(d, n, r).lanPhy = d.lanPhy
         /\ Carried(WithRegion(d, n, r), d)
<1>. DEFINE e == WithRegion(d, n, r)
<1>1. e = [d EXCEPT !.region = [d.region EXCEPT ![n] = r]]
  BY DEF WithRegion
<1>2. d.region \in [RegionName -> Region]
  BY DEF DescriptorRecord
<1>3. [d.region EXCEPT ![n] = r] \in [RegionName -> Region]
  BY <1>2
<1>4. e \in DescriptorRecord /\ e.region = [d.region EXCEPT ![n] = r]
  BY <1>1, <1>3 DEF DescriptorRecord
<1>5. /\ e.nr = d.nr /\ e.integratedGbe = d.integratedGbe /\ e.lanPhy = d.lanPhy
      /\ Carried(e, d)
  BY <1>1 DEF DescriptorRecord, Carried
<1>. HIDE DEF e
<1>6. e.region[n] = r /\ \A m \in RegionName : m # n => e.region[m] = d.region[m]
  BY <1>2, <1>4
<1>. QED BY <1>4, <1>5, <1>6 DEF e

\* The last block of the chip, and what the 13 bits of a limit keep of it.
LastBlock(romSize) == Blocks(romSize) - 1
LastField(romSize) == Field13(LastBlock(romSize))

\* It fits the field.
FieldValue == 0 .. 8191

\* It is a field of 13 bits, whatever the size.
LEMMA LastFieldType ==
  ASSUME NEW romSize \in Nat
  PROVE  LastField(romSize) \in FieldValue
<1>1. LastBlock(romSize) \in Int
  BY DEF LastBlock, Blocks
<1>2. \A n \in Int : Field13(n) \in FieldValue
  BY DEF Field13, FieldValue
<1>. QED BY <1>1, <1>2, Zenon DEF LastField

\* For the sizes that chips have nothing is cut, and the BIOS has a block of its own.
LEMMA LastFieldWhole ==
  ASSUME NEW romSize \in RomSizes
  PROVE  romSize \in Nat /\ LastField(romSize) = LastBlock(romSize)
         /\ LastBlock(romSize) \in Nat /\ 3 <= LastBlock(romSize)
<1>. DEFINE Counts == 4 .. 8192
<1>1. romSize \in Nat /\ Blocks(romSize) \in Counts
  BY DEF RomSizes
<1>2. \A n \in Counts : n - 1 \in Nat /\ 3 <= n - 1 /\ Field13(n - 1) = n - 1
  BY DEF Field13
<1>. HIDE DEF Counts
<1>. QED BY <1>1, <1>2, Zenon DEF LastField, LastBlock

\* A region from block b to block l.
Span(b, l) == [base |-> b, limit |-> l]

\* What the functions store are regions.
LEMMA RegionTypes ==
  /\ Removed \in Region /\ Removed.base = 8191 /\ Removed.limit = 0
  /\ Span(1, 2) \in Region
  /\ \A romSize \in Nat :
       Span(1, LastField(romSize)) \in Region /\ Span(3, LastField(romSize)) \in Region
<1>1. Removed \in Region /\ Removed.base = 8191 /\ Removed.limit = 0
  BY DEF Removed, Region
<1>2. Span(1, 2) \in Region
  BY DEF Span, Region
<1>3. ASSUME NEW romSize \in Nat
      PROVE  Span(1, LastField(romSize)) \in Region /\ Span(3, LastField(romSize)) \in Region
  <2>1. LastField(romSize) \in FieldValue
    BY LastFieldType, Zenon
  <2>. QED BY <2>1 DEF Span, Region, FieldValue
<1>. QED BY <1>1, <1>2, <1>3

\* The places the GbE and the BIOS region are moved to.
LEMMA Moves ==
  ASSUME NEW d \in DescriptorRecord, NEW romSize \in Nat
  PROVE  /\ descriptorMoveGbeToStart(d) = WithRegion(d, "gbe", Span(1, 2))
         /\ descriptorGbeRegionRemoved(d) = WithRegion(d, "gbe", Removed)
         /\ descriptorMeRegionRemoved(d) = WithRegion(d, "me", Removed)
         /\ descriptorPlatformRegionRemoved(d) = WithRegion(d, "pd", Removed)
         /\ descriptorBiosRegionFillImageAfterGbe(d, romSize)
              = WithRegion(d, "bios", Span(3, LastField(romSize)))
         /\ descriptorBiosRegionFillImageAfterDescriptor(d, romSize)
              = WithRegion(d, "bios", Span(1, LastField(romSize)))
<1>2. /\ BiosFrom(DESCRIPTORREGIONSIZE + GBEREGIONSIZE_8K, romSize)
           = Span(3, LastField(romSize))
      /\ BiosFrom(DESCRIPTORREGIONSIZE, romSize)
           = Span(1, LastField(romSize))
  BY BlocksOf, Zenon DEF BiosFrom, Span, LastField, LastBlock
<1>3. /\ descriptorBiosRegionFillImageAfterGbe(d, romSize)
           = WithRegion(d, "bios", Span(3, LastField(romSize)))
      /\ descriptorBiosRegionFillImageAfterDescriptor(d, romSize)
           = WithRegion(d, "bios", Span(1, LastField(romSize)))
  BY <1>2, Zenon DEF descriptorBiosRegionFillImageAfterGbe,
                     descriptorBiosRegionFillImageAfterDescriptor, WithRegion
<1>4. descriptorMoveGbeToStart(d) = WithRegion(d, "gbe", Span(1, 2))
  BY BlocksOf, Zenon DEF descriptorMoveGbeToStart, WithRegion, Span
<1>5. /\ descriptorGbeRegionRemoved(d) = WithRegion(d, "gbe", Removed)
      /\ descriptorMeRegionRemoved(d) = WithRegion(d, "me", Removed)
      /\ descriptorPlatformRegionRemoved(d) = WithRegion(d, "pd", Removed)
  BY Zenon DEF descriptorGbeRegionRemoved, descriptorMeRegionRemoved,
               descriptorPlatformRegionRemoved, WithRegion
<1>. QED BY <1>3, <1>4, <1>5

\* Two regions replaced, as both branches of the decision about GbE do.
LEMMA SetGbeAndBios ==
  ASSUME NEW d \in DescriptorRecord, NEW g \in Region, NEW b \in Region
  PROVE  /\ WithRegion(WithRegion(d, "gbe", g), "bios", b) \in DescriptorRecord
         /\ WithRegion(WithRegion(d, "gbe", g), "bios", b).region["gbe"] = g
         /\ WithRegion(WithRegion(d, "gbe", g), "bios", b).region["bios"] = b
         /\ WithRegion(WithRegion(d, "gbe", g), "bios", b).region["fd"] = d.region["fd"]
         /\ Carried(WithRegion(WithRegion(d, "gbe", g), "bios", b), d)
<1>. DEFINE c == WithRegion(d, "gbe", g)
<1>1. /\ "gbe" \in RegionName /\ "bios" \in RegionName /\ "fd" \in RegionName
      /\ "gbe" # "bios" /\ "fd" # "gbe" /\ "fd" # "bios"
  BY DEF RegionName
<1>2. /\ c \in DescriptorRecord /\ c.region["gbe"] = g /\ c.region["fd"] = d.region["fd"]
      /\ Carried(c, d)
  BY <1>1, SetRegion
<1>. HIDE DEF c
<1>3. /\ WithRegion(c, "bios", b) \in DescriptorRecord
      /\ WithRegion(c, "bios", b).region["bios"] = b
      /\ \A m \in RegionName : m # "bios" => WithRegion(c, "bios", b).region[m] = c.region[m]
      /\ Carried(WithRegion(c, "bios", b), c)
  BY <1>1, <1>2, SetRegion
<1>4. /\ WithRegion(c, "bios", b).region["gbe"] = c.region["gbe"]
      /\ WithRegion(c, "bios", b).region["fd"] = c.region["fd"]
  BY <1>1, <1>3
<1>5. Carried(WithRegion(c, "bios", b), d)
  BY <1>2, <1>3, Zenon DEF Carried
<1>. QED BY <1>2, <1>3, <1>4, <1>5 DEF c

\* The number of regions and the two straps that go with a GbE region.
WithCount(d, n, b) == [d EXCEPT !.nr = n, !.integratedGbe = b, !.lanPhy = b]

\* They are set without a change to the regions.
LEMMA SetCount ==
  ASSUME NEW d \in DescriptorRecord, NEW n \in 0 .. 7, NEW b \in Bit
  PROVE  /\ WithCount(d, n, b) \in DescriptorRecord
         /\ WithCount(d, n, b).region = d.region
         /\ WithCount(d, n, b).nr = n
         /\ WithCount(d, n, b).integratedGbe = b
         /\ WithCount(d, n, b).lanPhy = b
         /\ Carried(WithCount(d, n, b), d)
BY DEF DescriptorRecord, WithCount, Carried

\* What the decision about the GbE region leaves in e.
Decided(d, e, romSize) ==
  /\ e \in DescriptorRecord
  /\ Carried(e, d)
  /\ e.region["fd"] = d.region["fd"]
  /\ descriptorDefinesGbeRegion(d) =>
       /\ e.region["gbe"] = Span(1, 2)
       /\ e.region["bios"] = Span(3, LastField(romSize))
       /\ e.nr = 2 /\ e.integratedGbe = 1 /\ e.lanPhy = 1
  /\ ~descriptorDefinesGbeRegion(d) =>
       /\ e.region["gbe"] = Removed
       /\ e.region["bios"] = Span(1, LastField(romSize))
       /\ e.nr = 1 /\ e.integratedGbe = 0 /\ e.lanPhy = 0

\* librebootSetGbeBiosDescriptorRegions() decides by what the factory descriptor says.
LEMMA GbeDecision ==
  ASSUME NEW d \in DescriptorRecord, NEW romSize \in Nat
  PROVE  Decided(d, librebootSetGbeBiosDescriptorRegions(d, romSize), romSize)
<1>. DEFINE last == LastField(romSize)
            with == WithRegion(WithRegion(d, "gbe", Span(1, 2)),
                               "bios", Span(3, last))
            less == WithRegion(WithRegion(d, "gbe", Removed),
                               "bios", Span(1, last))
<1>1. "gbe" \in RegionName
  BY DEF RegionName
<1>2. WithRegion(d, "gbe", Span(1, 2)) \in DescriptorRecord
      /\ WithRegion(d, "gbe", Removed) \in DescriptorRecord
  BY <1>1, RegionTypes, SetRegion
<1>3. /\ descriptorBiosRegionFillImageAfterGbe(descriptorMoveGbeToStart(d), romSize) = with
      /\ descriptorBiosRegionFillImageAfterDescriptor(descriptorGbeRegionRemoved(d), romSize)
           = less
  BY <1>2, Moves
<1>4. Span(3, last) \in Region /\ Span(1, last) \in Region
  BY RegionTypes
<1>5. /\ with \in DescriptorRecord
      /\ with.region["gbe"] = Span(1, 2)
      /\ with.region["bios"] = Span(3, last)
      /\ with.region["fd"] = d.region["fd"]
      /\ Carried(with, d)
  BY <1>4, RegionTypes, SetGbeAndBios
<1>6. /\ less \in DescriptorRecord
      /\ less.region["gbe"] = Removed
      /\ less.region["bios"] = Span(1, last)
      /\ less.region["fd"] = d.region["fd"]
      /\ Carried(less, d)
  BY <1>4, RegionTypes, SetGbeAndBios
<1>7. librebootSetGbeBiosDescriptorRegions(d, romSize)
        = IF descriptorDefinesGbeRegion(d) THEN WithCount(with, 2, 1) ELSE WithCount(less, 1, 0)
  BY <1>3, Zenon DEF librebootSetGbeBiosDescriptorRegions, WithCount
<1>. HIDE DEF with, less
<1>8. CASE descriptorDefinesGbeRegion(d)
  <2>1. /\ WithCount(with, 2, 1) \in DescriptorRecord
        /\ WithCount(with, 2, 1).region = with.region
        /\ WithCount(with, 2, 1).nr = 2
        /\ WithCount(with, 2, 1).integratedGbe = 1 /\ WithCount(with, 2, 1).lanPhy = 1
        /\ Carried(WithCount(with, 2, 1), with)
    BY <1>5, SetCount DEF Bit
  <2>2. Carried(WithCount(with, 2, 1), d)
    BY <1>5, <2>1, Zenon DEF Carried
  <2>. QED BY <1>5, <1>7, <1>8, <2>1, <2>2 DEF Decided
<1>9. CASE ~descriptorDefinesGbeRegion(d)
  <2>1. /\ WithCount(less, 1, 0) \in DescriptorRecord
        /\ WithCount(less, 1, 0).region = less.region
        /\ WithCount(less, 1, 0).nr = 1
        /\ WithCount(less, 1, 0).integratedGbe = 0 /\ WithCount(less, 1, 0).lanPhy = 0
        /\ Carried(WithCount(less, 1, 0), less)
    BY <1>6, SetCount DEF Bit
  <2>2. Carried(WithCount(less, 1, 0), d)
    BY <1>6, <2>1, Zenon DEF Carried
  <2>. QED BY <1>6, <1>7, <1>9, <2>1, <2>2 DEF Decided
<1>. QED BY <1>8, <1>9

-----------------------------------------------------------------------------
(* The rest of main() changes straps, access rights and text, and removes two *)
(* more regions.                                                              *)

\* The changes that are not to regions leave what the decision set alone.
SameDecision(e, d) ==
  /\ e \in DescriptorRecord
  /\ e.region = d.region
  /\ e.nr = d.nr /\ e.integratedGbe = d.integratedGbe /\ e.lanPhy = d.lanPhy
  /\ Carried(e, d)

\* Both ME bits are set, the rest that matters here stays.
LEMMA Disabled ==
  ASSUME NEW d \in DescriptorRecord
  PROVE  /\ SameDecision(descriptorDisableTpm(descriptorDisableMe(d)), d)
         /\ descriptorDisableTpm(descriptorDisableMe(d)).ichMeDisable = 1
         /\ descriptorDisableTpm(descriptorDisableMe(d)).mchMeDisable = 1
         /\ descriptorDisableTpm(descriptorDisableMe(d)).tpmDisable = 1
BY DEF SameDecision, descriptorDisableTpm, descriptorDisableMe, DescriptorRecord, Bit, Carried

\* The host may do everything, the ME nothing.
OnlyHost(d) ==
  /\ d.access["host"] = [read |-> RegionName, write |-> RegionName]
  /\ d.access["me"] = [read |-> {}, write |-> {}]

\* Both changes of the access rights together.
LEMMA Rights ==
  ASSUME NEW d \in DescriptorRecord
  PROVE  LET e == descriptorHostRegionsUnlocked(descriptorMeRegionsForbidden(d))
         IN  /\ SameDecision(e, d)
             /\ OnlyHost(e)
             /\ e.ichMeDisable = d.ichMeDisable /\ e.mchMeDisable = d.mchMeDisable
             /\ e.tpmDisable = d.tpmDisable
<1>. DEFINE all == [read |-> RegionName, write |-> RegionName]
            none == [read |-> {}, write |-> {}]
            acc == [d.access EXCEPT !["me"] = none, !["host"] = all]
            e == descriptorHostRegionsUnlocked(descriptorMeRegionsForbidden(d))
<1>1. all \in Access /\ none \in Access
  BY DEF Access
<1>2. d.access \in [Master -> Access]
  BY DEF DescriptorRecord
<1>. HIDE DEF all, none
<1>3. /\ acc \in [Master -> Access] /\ acc["host"] = all /\ acc["me"] = none
      /\ acc["gbe"] = d.access["gbe"]
  BY <1>1, <1>2 DEF Master
<1>4. e = [d EXCEPT !.access = acc]
  BY DEF descriptorHostRegionsUnlocked, descriptorMeRegionsForbidden, DescriptorRecord,
         all, none
<1>. HIDE DEF acc
<1>5. /\ SameDecision([d EXCEPT !.access = acc], d)
      /\ [d EXCEPT !.access = acc].access = acc
      /\ [d EXCEPT !.access = acc].ichMeDisable = d.ichMeDisable
      /\ [d EXCEPT !.access = acc].mchMeDisable = d.mchMeDisable
      /\ [d EXCEPT !.access = acc].tpmDisable = d.tpmDisable
  BY <1>3 DEF SameDecision, DescriptorRecord, Carried
<1>. QED BY <1>3, <1>4, <1>5 DEF all, none, OnlyHost

\* The OEM string is only text.
LEMMA Text ==
  ASSUME NEW d \in DescriptorRecord
  PROVE  LET e == descriptorOemString(d)
         IN  /\ SameDecision(e, d)
             /\ e.access = d.access
             /\ e.ichMeDisable = d.ichMeDisable /\ e.mchMeDisable = d.mchMeDisable
             /\ e.tpmDisable = d.tpmDisable /\ e.oem = LIBERATE
BY OemAssumption DEF SameDecision, descriptorOemString, DescriptorRecord, Carried

\* Removing the ME and the platform region leaves the other three.
LEMMA MeAndPlatformRemoved ==
  ASSUME NEW d \in DescriptorRecord
  PROVE  LET e == WithRegion(WithRegion(d, "me", Removed), "pd", Removed)
         IN  /\ e \in DescriptorRecord
             /\ e.region["me"] = Removed /\ e.region["pd"] = Removed
             /\ \A m \in {"fd", "gbe", "bios"} : e.region[m] = d.region[m]
             /\ e.nr = d.nr /\ e.integratedGbe = d.integratedGbe /\ e.lanPhy = d.lanPhy
             /\ Carried(e, d)
<1>. DEFINE c == WithRegion(d, "me", Removed)
            e == WithRegion(c, "pd", Removed)
<1>1. /\ "me" \in RegionName /\ "pd" \in RegionName /\ "me" # "pd"
      /\ \A m \in {"fd", "gbe", "bios"} : m \in RegionName /\ m # "me" /\ m # "pd"
  BY DEF RegionName
<1>2. /\ c \in DescriptorRecord
      /\ c.region["me"] = Removed
      /\ \A m \in RegionName : m # "me" => c.region[m] = d.region[m]
      /\ c.nr = d.nr /\ c.integratedGbe = d.integratedGbe /\ c.lanPhy = d.lanPhy
      /\ Carried(c, d)
  BY <1>1, RegionTypes, SetRegion
<1>. HIDE DEF c
<1>3. /\ e \in DescriptorRecord
      /\ e.region["pd"] = Removed
      /\ \A m \in RegionName : m # "pd" => e.region[m] = c.region[m]
      /\ e.nr = c.nr /\ e.integratedGbe = c.integratedGbe /\ e.lanPhy = c.lanPhy
      /\ Carried(e, c)
  BY <1>1, <1>2, RegionTypes, SetRegion
<1>. HIDE DEF e
<1>4. e.region["me"] = Removed
  BY <1>1, <1>2, <1>3
<1>5. \A m \in {"fd", "gbe", "bios"} : e.region[m] = d.region[m]
  BY <1>1, <1>2, <1>3
<1>6. Carried(e, d)
  BY <1>2, <1>3, Zenon DEF Carried
<1>. QED BY <1>2, <1>3, <1>4, <1>5, <1>6 DEF c, e

\* Everything of the result that the layout depends on.
LEMMA Deblobbed ==
  ASSUME NEW d \in DescriptorRecord, NEW romSize \in Nat
  PROVE  LET e == DeblobbedDescriptor(d, romSize)
         IN  /\ Decided(d, e, romSize)
             /\ e.region["me"] = Removed /\ e.region["pd"] = Removed
             /\ OnlyHost(e)
             /\ e.ichMeDisable = 1 /\ e.mchMeDisable = 1 /\ e.tpmDisable = 1
             /\ e.oem = LIBERATE
<1>. DEFINE a == librebootSetGbeBiosDescriptorRegions(d, romSize)
            b == WithRegion(WithRegion(a, "me", Removed), "pd", Removed)
            c == descriptorDisableTpm(descriptorDisableMe(b))
            f == descriptorHostRegionsUnlocked(descriptorMeRegionsForbidden(c))
            e == descriptorOemString(f)
<1>1. Decided(d, a, romSize) /\ a \in DescriptorRecord
  BY GbeDecision DEF Decided
<1>. HIDE DEF a
<1>2. "me" \in RegionName /\ WithRegion(a, "me", Removed) \in DescriptorRecord
  BY <1>1, RegionTypes, SetRegion DEF RegionName
<1>3. descriptorPlatformRegionRemoved(descriptorMeRegionRemoved(a)) = b
  BY <1>1, <1>2, Moves
<1>4. DeblobbedDescriptor(d, romSize) = e
  BY <1>3, Zenon DEF DeblobbedDescriptor, librebootDescriptorStructFromFactory, a
<1>5. /\ b \in DescriptorRecord
      /\ b.region["me"] = Removed /\ b.region["pd"] = Removed
      /\ \A m \in {"fd", "gbe", "bios"} : b.region[m] = a.region[m]
      /\ b.nr = a.nr /\ b.integratedGbe = a.integratedGbe /\ b.lanPhy = a.lanPhy
      /\ Carried(b, a)
  BY <1>1, MeAndPlatformRemoved
<1>. HIDE DEF b
<1>6. /\ SameDecision(c, b) /\ c \in DescriptorRecord
      /\ c.ichMeDisable = 1 /\ c.mchMeDisable = 1 /\ c.tpmDisable = 1
  BY <1>5, Disabled DEF SameDecision
<1>. HIDE DEF c
<1>7. /\ SameDecision(f, c) /\ f \in DescriptorRecord
      /\ OnlyHost(f)
      /\ f.ichMeDisable = c.ichMeDisable /\ f.mchMeDisable = c.mchMeDisable
      /\ f.tpmDisable = c.tpmDisable
  BY <1>6, Rights, Zenon DEF SameDecision
<1>. HIDE DEF f
<1>8. /\ SameDecision(e, f) /\ e \in DescriptorRecord /\ e.access = f.access
      /\ e.ichMeDisable = f.ichMeDisable /\ e.mchMeDisable = f.mchMeDisable
      /\ e.tpmDisable = f.tpmDisable /\ e.oem = LIBERATE
  BY <1>7, Text, Zenon DEF SameDecision
<1>. HIDE DEF e
<1>9. /\ e.region = b.region
      /\ e.nr = a.nr /\ e.integratedGbe = a.integratedGbe /\ e.lanPhy = a.lanPhy
  BY <1>5, <1>6, <1>7, <1>8 DEF SameDecision
<1>10. /\ e.region["fd"] = a.region["fd"]
       /\ e.region["gbe"] = a.region["gbe"]
       /\ e.region["bios"] = a.region["bios"]
  BY <1>5, <1>9
<1>11. Carried(e, d)
  <2>1. Carried(e, a)
    BY <1>5, <1>6, <1>7, <1>8, Zenon DEF SameDecision, Carried
  <2>2. Carried(a, d)
    BY <1>1 DEF Decided
  <2>. QED BY <2>1, <2>2, Zenon DEF Carried
<1>16. Decided(d, e, romSize)
  BY <1>1, <1>8, <1>9, <1>10, <1>11, Zenon DEF Decided
<1>12. e.region["me"] = Removed /\ e.region["pd"] = Removed
  BY <1>5, <1>9
<1>13. OnlyHost(e)
  BY <1>7, <1>8 DEF OnlyHost
<1>14. e.ichMeDisable = 1 /\ e.mchMeDisable = 1 /\ e.tpmDisable = 1 /\ e.oem = LIBERATE
  BY <1>6, <1>7, <1>8
<1>. QED BY <1>4, <1>12, <1>13, <1>14, <1>16, Zenon

-----------------------------------------------------------------------------
(* The layout.                                                                *)

\* Fills with the last block as the parameter.
FillsUpTo(d, last) ==
  /\ \E n \in Regions(d) : d.region[n].base = 0
  /\ \A n \in Regions(d) :
       \/ d.region[n].limit = last
       \/ /\ d.region[n].limit < last
          /\ \E m \in Regions(d) : d.region[m].base = d.region[n].limit + 1

\* It is Fills when that is the last block of the chip.
LEMMA FillsLast ==
  \A d, romSize : Fills(d, romSize) <=> FillsUpTo(d, LastBlock(romSize))
BY Zenon DEF Fills, FillsUpTo, LastBlock

\* A region from block 8191 to block 0 is not in use.
LEMMA RemovedUnused == ~InUse(Removed)
BY DEF InUse, Removed

\* In R, the regions S and no others are in use, one after another up to `last`.
Laid(R, S, last) ==
  /\ \A n \in RegionName : InUse(R[n]) <=> n \in S
  /\ \A m, n \in S : m # n => R[m].limit < R[n].base \/ R[n].limit < R[m].base
  /\ \E n \in S : R[n].base = 0
  /\ \A n \in S :
       \/ R[n].limit = last
       \/ /\ R[n].limit < last
          /\ \E m \in S : R[m].base = R[n].limit + 1

\* Descriptor, GbE and BIOS after one another.
ThreeBlocks(R, last) ==
  /\ last \in Nat /\ 3 <= last
  /\ R["fd"].base = 0 /\ R["fd"].limit = 0
  /\ R["gbe"].base = 1 /\ R["gbe"].limit = 2
  /\ R["bios"].base = 3 /\ R["bios"].limit = last
  /\ ~InUse(R["me"]) /\ ~InUse(R["pd"])

\* They are in use, disjoint and without a gap.
LEMMA ThreeRegionsChain ==
  ASSUME NEW R, NEW last, ThreeBlocks(R, last)
  PROVE  Laid(R, {"fd", "gbe", "bios"}, last)
<1>. DEFINE S == {"fd", "gbe", "bios"}
<1>. USE DEF ThreeBlocks
<1>1. /\ InUse(R["fd"]) /\ InUse(R["bios"]) /\ InUse(R["gbe"])
      /\ ~InUse(R["me"]) /\ ~InUse(R["pd"])
  BY DEF InUse
<1>2. "fd" \in S /\ "gbe" \in S /\ "bios" \in S
  BY Zenon
<1>3. \A n \in RegionName : InUse(R[n]) <=> n \in S
  <2>. HIDE DEF InUse
  <2>. QED BY <1>1 DEF RegionName
<1>4. \A m, n \in S : m # n => R[m].limit < R[n].base \/ R[n].limit < R[m].base
  OBVIOUS
<1>5. \E n \in S : R[n].base = 0
  BY <1>2
<1>6. R["fd"].limit < last /\ R["gbe"].base = R["fd"].limit + 1
  OBVIOUS
<1>7. R["gbe"].limit < last /\ R["bios"].base = R["gbe"].limit + 1
  OBVIOUS
<1>8. ASSUME NEW n \in S
      PROVE  \/ R[n].limit = last
             \/ /\ R[n].limit < last
                /\ \E m \in S : R[m].base = R[n].limit + 1
  <2>1. CASE n = "fd"
    BY <1>2, <1>6, <2>1
  <2>2. CASE n = "gbe"
    BY <1>2, <1>7, <2>2
  <2>3. CASE n = "bios"
    BY <2>3
  <2>. QED BY <2>1, <2>2, <2>3
<1>. QED BY <1>3, <1>4, <1>5, <1>8, Zenon DEF Laid

\* So a descriptor that holds them partitions the chip.
LEMMA ThreeRegions ==
  ASSUME NEW d, NEW last \in Nat, 3 <= last,
         d.region["fd"] = Span(0, 0),
         d.region["gbe"] = Span(1, 2), d.region["bios"] = Span(3, last),
         d.region["me"] = Removed, d.region["pd"] = Removed
  PROVE  Regions(d) = {"fd", "gbe", "bios"} /\ Disjoint(d) /\ FillsUpTo(d, last)
<1>. DEFINE R == d.region
            S == {"fd", "gbe", "bios"}
<1>1. ThreeBlocks(R, last)
  BY RemovedUnused DEF Span, ThreeBlocks
<1>2. Laid(R, S, last)
  BY <1>1, ThreeRegionsChain, Zenon
<1>3. Regions(d) = S
  <2>1. S \subseteq RegionName
    BY DEF RegionName
  <2>. HIDE DEF S
  <2>. QED BY <1>2, <2>1, Zenon DEF Regions, Laid
<1>. HIDE DEF S
<1>4. Disjoint(d)
  BY <1>2, <1>3, Zenon DEF Disjoint, Laid
<1>5. FillsUpTo(d, last)
  BY <1>2, <1>3, Zenon DEF FillsUpTo, Laid
<1>. QED BY <1>3, <1>4, <1>5 DEF S

\* Descriptor and BIOS.
TwoBlocks(R, last) ==
  /\ last \in Nat /\ 3 <= last
  /\ R["fd"].base = 0 /\ R["fd"].limit = 0
  /\ R["bios"].base = 1 /\ R["bios"].limit = last
  /\ ~InUse(R["gbe"]) /\ ~InUse(R["me"]) /\ ~InUse(R["pd"])

\* They are in use, disjoint and without a gap.
LEMMA TwoRegionsChain ==
  ASSUME NEW R, NEW last, TwoBlocks(R, last)
  PROVE  Laid(R, {"fd", "bios"}, last)
<1>. DEFINE S == {"fd", "bios"}
<1>. USE DEF TwoBlocks
<1>1. /\ InUse(R["fd"]) /\ InUse(R["bios"]) /\ ~InUse(R["gbe"])
      /\ ~InUse(R["me"]) /\ ~InUse(R["pd"])
  BY DEF InUse
<1>2. "fd" \in S /\ "bios" \in S
  BY Zenon
<1>3. \A n \in RegionName : InUse(R[n]) <=> n \in S
  <2>. HIDE DEF InUse
  <2>. QED BY <1>1 DEF RegionName
<1>4. \A m, n \in S : m # n => R[m].limit < R[n].base \/ R[n].limit < R[m].base
  OBVIOUS
<1>5. \E n \in S : R[n].base = 0
  BY <1>2
<1>6. R["fd"].limit < last /\ R["bios"].base = R["fd"].limit + 1
  OBVIOUS
<1>7. ASSUME NEW n \in S
      PROVE  \/ R[n].limit = last
             \/ /\ R[n].limit < last
                /\ \E m \in S : R[m].base = R[n].limit + 1
  <2>1. CASE n = "fd"
    BY <1>2, <1>6, <2>1
  <2>2. CASE n = "bios"
    BY <2>2
  <2>. QED BY <2>1, <2>2
<1>. QED BY <1>3, <1>4, <1>5, <1>7, Zenon DEF Laid

\* So a descriptor that holds them partitions the chip.
LEMMA TwoRegions ==
  ASSUME NEW d, NEW last \in Nat, 3 <= last,
         d.region["fd"] = Span(0, 0),
         d.region["gbe"] = Removed, d.region["bios"] = Span(1, last),
         d.region["me"] = Removed, d.region["pd"] = Removed
  PROVE  Regions(d) = {"fd", "bios"} /\ Disjoint(d) /\ FillsUpTo(d, last)
<1>. DEFINE R == d.region
            S == {"fd", "bios"}
<1>1. TwoBlocks(R, last)
  BY RemovedUnused DEF Span, TwoBlocks
<1>2. Laid(R, S, last)
  BY <1>1, TwoRegionsChain, Zenon
<1>3. Regions(d) = S
  <2>1. S \subseteq RegionName
    BY DEF RegionName
  <2>. HIDE DEF S
  <2>. QED BY <1>2, <2>1, Zenon DEF Regions, Laid
<1>. HIDE DEF S
<1>4. Disjoint(d)
  BY <1>2, <1>3, Zenon DEF Disjoint, Laid
<1>5. FillsUpTo(d, last)
  BY <1>2, <1>3, Zenon DEF FillsUpTo, Laid
<1>. QED BY <1>3, <1>4, <1>5 DEF S

\* Whatever the factory put into the descriptor of a board, of whatever size its flash
\* is: as long as the descriptor says it is itself the first block, ich9deblob's result
\* gives every block of the chip to exactly one of descriptor, GbE (when the factory
\* had one) and BIOS, has no ME or platform region, and lets the host do everything.
THEOREM DeblobbedIsLibre ==
  \A d \in DescriptorRecord, romSize \in RomSizes :
    d.region["fd"] = [base |-> 0, limit |-> 0] =>
      LibreLayout(DeblobbedDescriptor(d, romSize), romSize)
<1>. SUFFICES ASSUME NEW d \in DescriptorRecord, NEW romSize \in RomSizes,
                     d.region["fd"] = Span(0, 0)
              PROVE  LibreLayout(DeblobbedDescriptor(d, romSize), romSize)
  BY Zenon DEF Span
<1>. DEFINE e == DeblobbedDescriptor(d, romSize)
<1>0. /\ romSize \in Nat /\ LastField(romSize) = LastBlock(romSize)
      /\ LastBlock(romSize) \in Nat /\ 3 <= LastBlock(romSize)
  BY LastFieldWhole
<1>1. /\ Decided(d, e, romSize) /\ e \in DescriptorRecord
      /\ e.region["fd"] = Span(0, 0)
      /\ e.region["me"] = Removed /\ e.region["pd"] = Removed
      /\ e.access["host"] = [read |-> RegionName, write |-> RegionName]
      /\ e.access["me"] = [read |-> {}, write |-> {}]
      /\ e.ichMeDisable = 1 /\ e.mchMeDisable = 1
  BY <1>0, Deblobbed, Zenon DEF Decided, OnlyHost
<1>. HIDE DEF e
<1>2. CASE descriptorDefinesGbeRegion(d)
  <2>1. /\ e.region["gbe"] = Span(1, 2) /\ e.region["bios"] = Span(3, LastBlock(romSize))
        /\ e.nr = 2 /\ e.integratedGbe = 1 /\ e.lanPhy = 1
    BY <1>0, <1>1, <1>2, Zenon DEF Decided
  <2>2. Regions(e) = {"fd", "gbe", "bios"} /\ Disjoint(e) /\ FillsUpTo(e, LastBlock(romSize))
    BY <1>1, <2>1, <1>0, ThreeRegions, Zenon
  <2>3. e.region["gbe"].base = 1
    BY <2>1 DEF Span
  <2>4. descriptorDefinesGbeRegion(e)
    BY <2>1, <2>3 DEF descriptorDefinesGbeRegion
  <2>5. e.nr + 1 = 3
    BY <2>1
  <2>. QED BY <1>1, <2>2, <2>4, <2>5, FillsLast, Zenon DEF LibreLayout, e
<1>3. CASE ~descriptorDefinesGbeRegion(d)
  <2>1. /\ e.region["gbe"] = Removed /\ e.region["bios"] = Span(1, LastBlock(romSize))
        /\ e.nr = 1 /\ e.integratedGbe = 0 /\ e.lanPhy = 0
    BY <1>0, <1>1, <1>3, Zenon DEF Decided
  <2>2. Regions(e) = {"fd", "bios"} /\ Disjoint(e) /\ FillsUpTo(e, LastBlock(romSize))
    BY <1>1, <2>1, <1>0, TwoRegions, Zenon
  <2>3. ~descriptorDefinesGbeRegion(e)
    BY <2>1 DEF descriptorDefinesGbeRegion
  <2>4. e.nr + 1 = 2
    BY <2>1
  <2>. QED BY <1>1, <2>2, <2>3, <2>4, FillsLast, Zenon DEF LibreLayout, e
<1>. QED BY <1>2, <1>3

\* Cutting a number to 16 bits gives a word.
LEMMA WordFits == \A n \in Int : uint16(n) \in Word
BY SMTT(30) DEF uint16, Word

\* Words are integers, and so are the differences the checksum is cut from.
LEMMA WordsAreInts == \A w \in Word : w \in Int /\ GBECHECKSUMTOTAL - w \in Int
BY SMT DEF Word, GBECHECKSUMTOTAL

\* The sum comes out although sum and difference wrap around.
LEMMA SumFits ==
  \A t \in Word, n \in Int : uint16(t + uint16(n - t)) = uint16(n)
BY SMT DEF uint16, Word

\* 0xBABA is a word.
LEMMA TotalFits ==
  GBECHECKSUMTOTAL \in Int /\ uint16(GBECHECKSUMTOTAL) = GBECHECKSUMTOTAL
BY SMT DEF uint16, GBECHECKSUMTOTAL

\* The total of a copy is a word.
LEMMA TotalType == \A g \in Gbe4k : GbeTotal(g) \in Word
<1>. SUFFICES ASSUME NEW g \in Gbe4k
              PROVE  GbeTotal(g) \in Word
  OBVIOUS
<1>1. g.mac \in [1 .. 3 -> Word] /\ g.words \in Word
  BY DEF Gbe4k, Mac
<1>2. g.mac[1] \in Word /\ g.mac[2] \in Word /\ g.mac[3] \in Word
  BY <1>1
<1>3. g.mac[1] \in Int /\ g.mac[2] \in Int /\ g.mac[3] \in Int /\ g.words \in Int
  BY <1>1, <1>2, WordsAreInts, Zenon
<1>. QED BY <1>3, WordFits DEF GbeTotal

\* The total does not depend on the checksum.
LEMMA TotalKept == \A g \in Gbe4k : GbeTotal(WithChecksum(g)) = GbeTotal(g)
BY DEF GbeTotal, WithChecksum, Gbe4k

\* Whatever a copy holds, one subtraction in a uint16_t finds the checksum that its
\* words add up to 0xBABA with, and changes nothing else of it.
THEOREM ChecksumRestored ==
  \A g \in Gbe4k : WithChecksum(g) \in Gbe4k /\ ChecksumValid(WithChecksum(g))
<1>. SUFFICES ASSUME NEW g \in Gbe4k
              PROVE  WithChecksum(g) \in Gbe4k /\ ChecksumValid(WithChecksum(g))
  OBVIOUS
<1>. DEFINE sum == gbeGetChecksumFrom4kStruct(g, GBECHECKSUMTOTAL)
<1>1. GbeTotal(g) \in Word /\ GbeTotal(WithChecksum(g)) = GbeTotal(g)
  BY TotalType, TotalKept
<1>2. GBECHECKSUMTOTAL - GbeTotal(g) \in Int
  BY <1>1, WordsAreInts, Zenon
<1>3. sum \in Word
  BY <1>2, WordFits DEF gbeGetChecksumFrom4kStruct
<1>4. uint16(GbeTotal(g) + sum) = GBECHECKSUMTOTAL
  BY <1>1, SumFits, TotalFits, Zenon DEF gbeGetChecksumFrom4kStruct
<1>. HIDE DEF sum
<1>5. WithChecksum(g) = [g EXCEPT !.checkSum = sum]
  BY Zenon DEF WithChecksum, sum
<1>6. WithChecksum(g) \in Gbe4k /\ WithChecksum(g).checkSum = sum
  BY <1>3, <1>5 DEF Gbe4k
<1>. QED BY <1>1, <1>4, <1>6, Zenon DEF ChecksumValid

\* The region that ich9deblob keeps is good, though the factory's main copy may have
\* any checksum; so is the one that ich9gen writes for any address.
THEOREM RegionsGood ==
  /\ \A g8 \in Gbe8k : GoodGbe(deblobbedGbeStructFromFactory(g8))
  /\ \A g8 \in Gbe8k, mac \in Mac : GoodGbe(WithMac(g8, mac))
<1>1. ASSUME NEW g8 \in Gbe8k PROVE GoodGbe(deblobbedGbeStructFromFactory(g8))
  <2>. DEFINE b == [g8.backup EXCEPT !.padding = "ff"]
  <2>1. b \in Gbe4k
    BY DEF Gbe8k, Gbe4k
  <2>2. ChecksumValid(WithChecksum(b))
    BY <2>1, ChecksumRestored
  <2>. QED BY <2>2 DEF deblobbedGbeStructFromFactory, GoodGbe
<1>2. ASSUME NEW g8 \in Gbe8k, NEW mac \in Mac PROVE GoodGbe(WithMac(g8, mac))
  <2>. DEFINE m == [g8.main EXCEPT !.mac = mac]
  <2>1. m \in Gbe4k
    BY DEF Gbe8k, Gbe4k
  <2>2. ChecksumValid(WithChecksum(m))
    BY <2>1, ChecksumRestored
  <2>. QED BY <2>2 DEF WithMac, GoodGbe
<1>. QED BY <1>1, <1>2

-----------------------------------------------------------------------------
(* The tools one after another: what a deblobbed descriptor has, the printed  *)
(* sources keep, and deblobbing leaves alone.                                 *)

\* Everything but regions, number of regions and GbE straps that ich9deblob sets.
Template(d) ==
  /\ d \in DescriptorRecord
  /\ d.region["me"] = Removed /\ d.region["pd"] = Removed
  /\ OnlyHost(d)
  /\ d.ichMeDisable = 1 /\ d.mchMeDisable = 1 /\ d.tpmDisable = 1
  /\ d.oem = LIBERATE

\* The others, for a ROM of that size.
LaidOut(d, romSize) ==
  /\ descriptorDefinesGbeRegion(d) =>
       /\ d.region["gbe"] = Span(1, 2)
       /\ d.region["bios"] = Span(3, LastField(romSize))
       /\ d.nr = 2 /\ d.integratedGbe = 1 /\ d.lanPhy = 1
  /\ ~descriptorDefinesGbeRegion(d) =>
       /\ d.region["gbe"] = Removed
       /\ d.region["bios"] = Span(1, LastField(romSize))
       /\ d.nr = 1 /\ d.integratedGbe = 0 /\ d.lanPhy = 0

\* All fields but the densities are the same.
SameFields(c, d) ==
  /\ c.nr = d.nr /\ c.other = d.other /\ c.oem = d.oem
  /\ \A n \in RegionName : c.region[n] = d.region[n]
  /\ \A m \in Master : c.access[m] = d.access[m]
  /\ c.ichMeDisable = d.ichMeDisable /\ c.mchMeDisable = d.mchMeDisable
  /\ c.tpmDisable = d.tpmDisable
  /\ c.integratedGbe = d.integratedGbe /\ c.lanPhy = d.lanPhy

\* A descriptor is its fields.
LEMMA FieldsDecide ==
  ASSUME NEW c \in DescriptorRecord, NEW d \in DescriptorRecord,
         SameFields(c, d), c.density1 = d.density1, c.density2 = d.density2
  PROVE  c = d
<1>1. c.region = d.region
  BY DEF SameFields, DescriptorRecord
<1>2. c.access = d.access
  BY DEF SameFields, DescriptorRecord
<1>. QED BY <1>1, <1>2 DEF SameFields, DescriptorRecord

\* The densities do not matter for anything else.
LEMMA DensitiesAside ==
  ASSUME NEW c \in DescriptorRecord, NEW d \in DescriptorRecord, SameFields(c, d)
  PROVE  SameButDensities(c, d)
<1>. DEFINE Same0(e) == [e EXCEPT !.density1 = 0, !.density2 = 0]
            Rest == DOMAIN c \ {"density1", "density2"}
<1>1. c.region = d.region /\ c.access = d.access
  BY DEF SameFields, DescriptorRecord
<1>2. /\ DOMAIN c = DOMAIN d
      /\ Rest = {"nr", "region", "access", "ichMeDisable", "mchMeDisable", "tpmDisable",
                 "integratedGbe", "lanPhy", "oem", "other"}
  BY DEF DescriptorRecord
<1>3. \A x \in Rest : c[x] = d[x]
  BY <1>1, <1>2 DEF SameFields
<1>4. \A e : Same0(e) = [x \in DOMAIN e |-> IF x \in {"density1", "density2"} THEN 0 ELSE e[x]]
  OBVIOUS
<1>5. Same0(c) = Same0(d)
  <2>. HIDE DEF Same0
  <2>. QED BY <1>2, <1>3, <1>4
<1>. QED BY <1>5, Zenon DEF SameButDensities

\* A region from block 1 to block 2 with both straps is a GbE region; the straps
\* alone can deny it.
LEMMA GbeStraps ==
  ASSUME NEW d
  PROVE  /\ d.region["gbe"] = Span(1, 2) /\ d.integratedGbe = 1 /\ d.lanPhy = 1
              => descriptorDefinesGbeRegion(d)
         /\ d.integratedGbe = 0 => ~descriptorDefinesGbeRegion(d)
BY DEF descriptorDefinesGbeRegion, Span

\* The result is laid out as it says itself, and says what the factory's said.
LEMMA DeblobbedLaidOut ==
  ASSUME NEW d \in DescriptorRecord, NEW romSize \in Nat
  PROVE  LET e == DeblobbedDescriptor(d, romSize)
         IN  /\ Template(e) /\ LaidOut(e, romSize)
             /\ e.region["fd"] = d.region["fd"]
             /\ descriptorDefinesGbeRegion(e) <=> descriptorDefinesGbeRegion(d)
<1>. DEFINE e == DeblobbedDescriptor(d, romSize)
<1>1. /\ Decided(d, e, romSize)
      /\ e.region["me"] = Removed /\ e.region["pd"] = Removed
      /\ OnlyHost(e)
      /\ e.ichMeDisable = 1 /\ e.mchMeDisable = 1 /\ e.tpmDisable = 1
      /\ e.oem = LIBERATE
  BY Deblobbed, Zenon
<1>. HIDE DEF e
<1>2. e \in DescriptorRecord /\ e.region["fd"] = d.region["fd"]
  BY <1>1 DEF Decided
<1>3. Template(e)
  BY <1>1, <1>2, Zenon DEF Template
<1>4. descriptorDefinesGbeRegion(e) <=> descriptorDefinesGbeRegion(d)
  BY <1>1, GbeStraps, Zenon DEF Decided
<1>5. LaidOut(e, romSize)
  BY <1>1, <1>4, Zenon DEF Decided, LaidOut
<1>. QED BY <1>2, <1>3, <1>4, <1>5 DEF e

\* ich9deblob has nothing to change in what is laid out already.
LEMMA NothingToDeblob ==
  ASSUME NEW d, NEW romSize \in Nat, Template(d), LaidOut(d, romSize)
  PROVE  DeblobbedDescriptor(d, romSize) = d
<1>. DEFINE e == DeblobbedDescriptor(d, romSize)
<1>1. d \in DescriptorRecord
  BY DEF Template
<1>2. /\ Decided(d, e, romSize)
      /\ Template(e)
  BY <1>1, Deblobbed, DeblobbedLaidOut, Zenon
<1>. HIDE DEF e
<1>3. /\ e \in DescriptorRecord /\ Carried(e, d) /\ e.region["fd"] = d.region["fd"]
  BY <1>2 DEF Decided
<1>4. /\ e.region["gbe"] = d.region["gbe"] /\ e.region["bios"] = d.region["bios"]
      /\ e.nr = d.nr /\ e.integratedGbe = d.integratedGbe /\ e.lanPhy = d.lanPhy
  BY <1>2, Zenon DEF Decided, LaidOut
<1>5. /\ e.region["me"] = d.region["me"] /\ e.region["pd"] = d.region["pd"]
      /\ e.access["host"] = d.access["host"] /\ e.access["me"] = d.access["me"]
      /\ e.ichMeDisable = d.ichMeDisable /\ e.mchMeDisable = d.mchMeDisable
      /\ e.tpmDisable = d.tpmDisable /\ e.oem = d.oem
  BY <1>2, Zenon DEF Template, OnlyHost
<1>6. \A n \in RegionName : e.region[n] = d.region[n]
  BY <1>3, <1>4, <1>5 DEF RegionName
<1>7. \A m \in Master : e.access[m] = d.access[m]
  BY <1>3, <1>5 DEF Master, Carried
<1>8. SameFields(e, d) /\ e.density1 = d.density1 /\ e.density2 = d.density2
  BY <1>3, <1>4, <1>5, <1>6, <1>7 DEF SameFields, Carried
<1>. QED BY <1>1, <1>3, <1>8, FieldsDecide DEF e

\* So it partitions the chip.
LEMMA LaidOutIsLibre ==
  ASSUME NEW d, NEW romSize \in RomSizes, Template(d), LaidOut(d, romSize),
         d.region["fd"] = Span(0, 0)
  PROVE  LibreLayout(d, romSize)
<1>1. d \in DescriptorRecord /\ romSize \in Nat
  BY LastFieldWhole DEF Template
<1>2. DeblobbedDescriptor(d, romSize) = d
  BY <1>1, NothingToDeblob
<1>3. LibreLayout(DeblobbedDescriptor(d, romSize), romSize)
  BY <1>1, DeblobbedIsLibre, Zenon DEF Span
<1>. QED BY <1>2, <1>3, Zenon

-----------------------------------------------------------------------------
(* The printed sources.                                                       *)

\* A number of bytes gives a density, whatever it is.
LEMMA DensityFits == \A romSize : componentDensity(romSize) \in 0 .. 7
BY DEF componentDensity, ROMSIZE_4MB, ROMSIZE_8MB

\* Everything of the printed source's result that the layout depends on.
Generated(d, e, romSize, hasGbe) ==
  /\ e \in DescriptorRecord
  /\ \A n \in RegionName \ {"gbe", "bios"} : e.region[n] = d.region[n]
  /\ e.access = d.access
  /\ e.ichMeDisable = d.ichMeDisable /\ e.mchMeDisable = d.mchMeDisable
  /\ e.tpmDisable = d.tpmDisable /\ e.oem = d.oem /\ e.other = d.other
  /\ hasGbe =>
       /\ e.region["gbe"] = Span(1, 2) /\ e.region["bios"] = Span(3, LastField(romSize))
       /\ e.nr = 2 /\ e.integratedGbe = 1 /\ e.lanPhy = 1
  /\ ~hasGbe =>
       /\ e.region["gbe"] = Removed /\ e.region["bios"] = Span(1, LastField(romSize))
       /\ e.nr = 1 /\ e.integratedGbe = 0 /\ e.lanPhy = 0

\* The printed function assigns these fields and no others.
LEMMA GeneratedFields ==
  ASSUME NEW d \in DescriptorRecord, NEW romSize \in Nat, NEW hasGbe \in BOOLEAN
  PROVE  Generated(d, generatedDescriptorStruct(d, romSize, hasGbe), romSize, hasGbe)
<1>. DEFINE strap == IF hasGbe THEN 1 ELSE 0
            count == IF hasGbe THEN 2 ELSE 1
            gbe == IF hasGbe THEN Span(1, 2) ELSE Removed
            bios == IF hasGbe THEN Span(3, LastField(romSize)) ELSE Span(1, LastField(romSize))
            density == componentDensity(romSize)
            c == [[d EXCEPT !.nr = count] EXCEPT !.density1 = density, !.density2 = density]
            R == [c.region EXCEPT !["bios"] = bios, !["gbe"] = gbe]
            f == [c EXCEPT !.region["bios"] = bios, !.region["gbe"] = gbe]
            e == [f EXCEPT !.integratedGbe = strap, !.lanPhy = strap]
<1>1. /\ count \in 0 .. 7 /\ strap \in Bit /\ gbe \in Region /\ bios \in Region
      /\ density \in 0 .. 7
  BY RegionTypes, DensityFits DEF Bit
<1>2. generatedGbe(hasGbe) = gbe
  BY BlocksOf, Zenon DEF generatedGbe, Span
<1>3. BiosFrom(DESCRIPTORREGIONSIZE + (IF hasGbe THEN GBEREGIONSIZE_8K ELSE 0), romSize) = bios
  <2>1. Blocks(DESCRIPTORREGIONSIZE + 0) = 1
    BY DEF Blocks, DESCRIPTORREGIONSIZE
  <2>. QED BY <2>1, BlocksOf, Zenon DEF BiosFrom, Span, LastField, LastBlock
<1>4. generatedDescriptorStruct(d, romSize, hasGbe) = e
  BY <1>2, <1>3, Zenon DEF generatedDescriptorStruct, generatedIchStraps, generatedRegionSection,
     generatedComponentSection, generatedFlMaps
<1>5. /\ hasGbe => gbe = Span(1, 2) /\ bios = Span(3, LastField(romSize)) /\ count = 2 /\ strap = 1
      /\ ~hasGbe => gbe = Removed /\ bios = Span(1, LastField(romSize)) /\ count = 1 /\ strap = 0
  BY Zenon
<1>. HIDE DEF strap, count, gbe, bios, density
<1>6. /\ c \in DescriptorRecord /\ c.region = d.region /\ c.access = d.access /\ c.nr = count
      /\ c.ichMeDisable = d.ichMeDisable /\ c.mchMeDisable = d.mchMeDisable
      /\ c.tpmDisable = d.tpmDisable /\ c.oem = d.oem /\ c.other = d.other
  BY <1>1 DEF DescriptorRecord
<1>. HIDE DEF c
<1>7. f = [c EXCEPT !.region = R]
  BY <1>6 DEF DescriptorRecord
<1>8. /\ R \in [RegionName -> Region] /\ R["gbe"] = gbe /\ R["bios"] = bios
      /\ \A n \in RegionName \ {"gbe", "bios"} : R[n] = c.region[n]
  <2>1. c.region \in [RegionName -> Region] /\ "gbe" \in RegionName /\ "bios" \in RegionName
    BY <1>6 DEF DescriptorRecord, RegionName
  <2>. QED BY <1>1, <2>1
<1>. HIDE DEF R, f
<1>9. /\ f \in DescriptorRecord /\ f.region = R /\ f.access = c.access /\ f.nr = c.nr
      /\ f.ichMeDisable = c.ichMeDisable /\ f.mchMeDisable = c.mchMeDisable
      /\ f.tpmDisable = c.tpmDisable /\ f.oem = c.oem /\ f.other = c.other
  BY <1>6, <1>7, <1>8 DEF DescriptorRecord
<1>10. /\ e \in DescriptorRecord /\ e.region = f.region /\ e.access = f.access /\ e.nr = f.nr
       /\ e.ichMeDisable = f.ichMeDisable /\ e.mchMeDisable = f.mchMeDisable
       /\ e.tpmDisable = f.tpmDisable /\ e.oem = f.oem /\ e.other = f.other
       /\ e.integratedGbe = strap /\ e.lanPhy = strap
  BY <1>1, <1>9 DEF DescriptorRecord
<1>. HIDE DEF e
<1>11. /\ e.region["gbe"] = gbe /\ e.region["bios"] = bios
       /\ \A n \in RegionName \ {"gbe", "bios"} : e.region[n] = d.region[n]
  BY <1>6, <1>8, <1>9, <1>10
<1>12. /\ e.access = d.access /\ e.nr = count
       /\ e.ichMeDisable = d.ichMeDisable /\ e.mchMeDisable = d.mchMeDisable
       /\ e.tpmDisable = d.tpmDisable /\ e.oem = d.oem /\ e.other = d.other
  BY <1>6, <1>9, <1>10
<1>. QED BY <1>4, <1>5, <1>10, <1>11, <1>12, Zenon DEF Generated

\* It needs no more than a template to be laid out, with a GbE region or without.
LEMMA GeneratedLaidOut ==
  ASSUME NEW d, Template(d), NEW romSize \in Nat, NEW hasGbe \in BOOLEAN
  PROVE  LET e == generatedDescriptorStruct(d, romSize, hasGbe)
         IN  /\ Template(e) /\ LaidOut(e, romSize)
             /\ e.region["fd"] = d.region["fd"]
             /\ descriptorDefinesGbeRegion(e) <=> hasGbe
<1>. DEFINE e == generatedDescriptorStruct(d, romSize, hasGbe)
<1>1. d \in DescriptorRecord
  BY DEF Template
<1>2. Generated(d, e, romSize, hasGbe)
  BY <1>1, GeneratedFields
<1>. HIDE DEF e
<1>3. /\ e.region["me"] = d.region["me"] /\ e.region["pd"] = d.region["pd"]
      /\ e.region["fd"] = d.region["fd"]
  BY <1>2 DEF Generated, RegionName
<1>4. Template(e)
  BY <1>2, <1>3, Zenon DEF Generated, Template, OnlyHost
<1>5. descriptorDefinesGbeRegion(e) <=> hasGbe
  BY <1>2, GbeStraps, Zenon DEF Generated
<1>6. LaidOut(e, romSize)
  BY <1>2, <1>5, Zenon DEF Generated, LaidOut
<1>. QED BY <1>3, <1>4, <1>5, <1>6 DEF e

\* The source printed for a descriptor gives it back.
LEMMA GivesBack ==
  ASSUME NEW d, NEW romSize \in Nat, Template(d), LaidOut(d, romSize)
  PROVE  SameButDensities(
           generatedDescriptorStruct(d, romSize, descriptorDefinesGbeRegion(d)), d)
<1>. DEFINE h == descriptorDefinesGbeRegion(d)
            e == generatedDescriptorStruct(d, romSize, h)
<1>1. d \in DescriptorRecord /\ h \in BOOLEAN
  BY DEF Template, descriptorDefinesGbeRegion
<1>2. Generated(d, e, romSize, h)
  BY <1>1, GeneratedFields, Zenon
<1>. HIDE DEF e
<1>3. /\ e.region["gbe"] = d.region["gbe"] /\ e.region["bios"] = d.region["bios"]
      /\ e.nr = d.nr /\ e.integratedGbe = d.integratedGbe /\ e.lanPhy = d.lanPhy
  BY <1>2, Zenon DEF Generated, LaidOut
<1>4. e \in DescriptorRecord /\ \A n \in RegionName : e.region[n] = d.region[n]
  BY <1>2, <1>3 DEF Generated
<1>5. SameFields(e, d)
  BY <1>2, <1>3, <1>4 DEF Generated, SameFields
<1>6. SameButDensities(e, d)
  BY <1>1, <1>4, <1>5, DensitiesAside
<1>. QED BY <1>6 DEF e

-----------------------------------------------------------------------------
(* The GbE region from one tool to the next.                                  *)

\* A copy that deblobbing leaves alone, and a region of two of them.
Kept(g) == g \in Gbe4k /\ g.padding = "ff" /\ WithChecksum(g) = g
KeptGbe(g8) == g8 \in Gbe8k /\ g8.main = g8.backup /\ Kept(g8.backup)

\* Both copies the same.
Twice(g) == [main |-> g, backup |-> g]

\* A region of one copy that deblobbing leaves alone is left alone.
LEMMA TwiceKept ==
  ASSUME NEW g, Kept(g)
  PROVE  KeptGbe(Twice(g))
BY DEF Kept, KeptGbe, Twice, Gbe8k

\* A checksum that was put in once is not changed.
LEMMA CheckedIsKept ==
  ASSUME NEW g \in Gbe4k, g.padding = "ff"
  PROVE  Kept(WithChecksum(g))
<1>. DEFINE sum == gbeGetChecksumFrom4kStruct(g, GBECHECKSUMTOTAL)
            c == WithChecksum(g)
<1>1. c \in Gbe4k /\ GbeTotal(c) = GbeTotal(g)
  BY ChecksumRestored, TotalKept, Zenon
<1>2. gbeGetChecksumFrom4kStruct(c, GBECHECKSUMTOTAL) = sum
  BY <1>1, Zenon DEF gbeGetChecksumFrom4kStruct
<1>3. c = [g EXCEPT !.checkSum = sum] /\ WithChecksum(c) = [c EXCEPT !.checkSum = sum]
  BY <1>2, Zenon DEF WithChecksum
<1>. HIDE DEF sum, c
<1>4. c.padding = g.padding /\ [c EXCEPT !.checkSum = sum] = c
  BY <1>3 DEF Gbe4k
<1>. QED BY <1>1, <1>3, <1>4 DEF Kept, c

\* Cutting a word changes nothing, nor does cutting a sum before a difference.
LEMMA WordUncut == \A c \in Word : uint16(c) = c
<1>1. \A c \in Int : 0 <= c /\ c <= 65535 => c % 65536 = c
  OBVIOUS
<1>2. \A c \in Word : c \in Int /\ 0 <= c /\ c <= 65535
  BY DEF Word
<1>. QED BY <1>1, <1>2 DEF uint16

\* Cutting a number to a word before subtracting changes no difference.
LEMMA DifferenceUncut == \A n \in Int, m \in Int : uint16(uint16(n) - m) = uint16(n - m)
BY SMT DEF uint16

\* A checksum that is right is the one that would be put in.
LEMMA ValidIsKept ==
  ASSUME NEW g \in Gbe4k, ChecksumValid(g), g.padding = "ff"
  PROVE  Kept(g)
<1>1. ASSUME NEW t \in Word, NEW c \in Word, uint16(t + c) = GBECHECKSUMTOTAL
      PROVE  uint16(GBECHECKSUMTOTAL - t) = c
  <2>1. t \in Int /\ c \in Int /\ t + c \in Int /\ t + c - t = c
    BY WordsAreInts
  <2>2. uint16(c) = c
    BY WordUncut
  <2>3. uint16(uint16(t + c) - t) = uint16(t + c - t)
    BY <2>1, DifferenceUncut
  <2>. QED BY <1>1, <2>1, <2>2, <2>3
<1>2. GbeTotal(g) \in Word /\ g.checkSum \in Word
  BY TotalType DEF Gbe4k
<1>3. gbeGetChecksumFrom4kStruct(g, GBECHECKSUMTOTAL) = g.checkSum
  BY <1>1, <1>2, Zenon DEF ChecksumValid, gbeGetChecksumFrom4kStruct
<1>4. [g EXCEPT !.checkSum = g.checkSum] = g
  BY DEF Gbe4k
<1>. QED BY <1>3, <1>4 DEF Kept, WithChecksum

\* The controller accepts what deblobbing leaves alone.
LEMMA KeptIsGood ==
  /\ \A g : Kept(g) => ChecksumValid(g)
  /\ \A g8 : KeptGbe(g8) => GoodGbe(g8)
<1>1. ASSUME NEW g, Kept(g) PROVE ChecksumValid(g)
  BY <1>1, ChecksumRestored, Zenon DEF Kept
<1>. QED BY <1>1 DEF KeptGbe, GoodGbe

\* Each tool's region is kept.
LEMMA RegionsKept ==
  /\ \A g8 \in Gbe8k : KeptGbe(deblobbedGbeStructFromFactory(g8))
  /\ \A g : Kept(g) => KeptGbe(generatedGbeStruct8k(g))
  /\ \A g8 : \A mac \in Mac : KeptGbe(g8) =>
       KeptGbe(WithMac(g8, mac)) /\ WithMac(g8, mac).main.mac = mac
<1>1. ASSUME NEW g8 \in Gbe8k PROVE KeptGbe(deblobbedGbeStructFromFactory(g8))
  <2>. DEFINE b == [g8.backup EXCEPT !.padding = "ff"]
  <2>1. b \in Gbe4k /\ b.padding = "ff"
    BY DEF Gbe8k, Gbe4k
  <2>2. deblobbedGbeStructFromFactory(g8) = Twice(WithChecksum(b))
    BY Zenon DEF deblobbedGbeStructFromFactory, Twice
  <2>. QED BY <2>1, <2>2, CheckedIsKept, TwiceKept, Zenon
<1>2. ASSUME NEW g, Kept(g) PROVE KeptGbe(generatedGbeStruct8k(g))
  <2>1. generatedGbeStruct8k(g) = Twice(g)
    BY Zenon DEF generatedGbeStruct8k, Twice
  <2>. QED BY <1>2, <2>1, TwiceKept, Zenon
<1>3. ASSUME NEW g8, NEW mac \in Mac, KeptGbe(g8)
      PROVE  KeptGbe(WithMac(g8, mac)) /\ WithMac(g8, mac).main.mac = mac
  <2>. DEFINE m == [g8.main EXCEPT !.mac = mac]
  <2>1. m \in Gbe4k /\ m.padding = "ff" /\ m.mac = mac
    BY <1>3 DEF KeptGbe, Kept, Gbe8k, Gbe4k
  <2>2. WithMac(g8, mac) = Twice(WithChecksum(m))
    BY Zenon DEF WithMac, Twice
  <2>. HIDE DEF m
  <2>3. WithChecksum(m).mac = m.mac
    BY <2>1 DEF WithChecksum, Gbe4k
  <2>4. KeptGbe(Twice(WithChecksum(m)))
    BY <2>1, CheckedIsKept, TwiceKept, Zenon
  <2>5. Twice(WithChecksum(m)).main = WithChecksum(m)
    BY DEF Twice
  <2>. QED BY <2>1, <2>2, <2>3, <2>4, <2>5
<1>. QED BY <1>1, <1>2, <1>3

\* Deblobbing leaves them alone.
LEMMA NothingToRepair ==
  ASSUME NEW g8, KeptGbe(g8)
  PROVE  deblobbedGbeStructFromFactory(g8) = g8
<1>1. [g8.backup EXCEPT !.padding = "ff"] = g8.backup
  BY DEF KeptGbe, Kept, Gbe4k
<1>2. deblobbedGbeStructFromFactory(g8) = Twice(g8.backup)
  BY <1>1, Zenon DEF KeptGbe, Kept, deblobbedGbeStructFromFactory, Twice
<1>3. Twice(g8.backup) = g8
  BY DEF KeptGbe, Twice, Gbe8k
<1>. QED BY <1>2, <1>3

-----------------------------------------------------------------------------
(* The inductive invariant.                                                   *)

WholeContent ==
  RomContent \cup Image12kContent \cup Image4kContent \cup DescriptorSourceContent
    \cup GbeSourceContent \cup {Header}
JobSet ==
  {j \in [file : Files, text : BOOLEAN, content : WholeContent] : j.content \in WholeContentsOf(j.file)}
MacSet == {<< >>} \cup {<< arg >> : arg \in MacArguments}
ProcSet ==
  [tool : Tools \cup {"none"}, jobs : Seq(JobSet), opened : BOOLEAN, gbeRead : BOOLEAN,
   mac : MacSet]

\* Types.
DirTyped == DOMAIN dir = Files /\ \A f \in Files : dir[f] \in ContentsOf(f)
BuildTyped ==
  /\ DOMAIN src = SourceFiles
  /\ \A f \in SourceFiles : src[f] \in ContentsOf(f) \ {Absent}
  /\ DOMAIN obj = Objects
  /\ \A n \in Objects : obj[n] \in WholeContentsOf(CodeOf[n]) \cup {Absent}
  /\ DOMAIN gen = Objects
  /\ \A n \in Objects : gen[n] \in WholeContentsOf(CodeOf[n])
  /\ built \subseteq Tools
  /\ rebuilt \in BOOLEAN
RunTyped ==
  /\ host \in Hosts
  /\ proc \in ProcSet
  /\ status \in {"none", "running", "ok", "error", "crash"}
  /\ runs \in 0 .. MaxRuns
  /\ spoiled \subseteq Files

Typed == DirTyped /\ BuildTyped /\ RunTyped

\* What a file may hold that some tool wrote, whatever chain of tools, sources,
\* objects and ROMs it came through.  demefactory keeps the factory's layout, and so
\* does what comes from its output; but even that begins with the descriptor.
FirstBlock(d) == d.region["fd"] = Span(0, 0)

SoundImage(c) ==
  /\ FirstBlock(c.desc) /\ c.romSize \in RomSizes
  /\ c.origin # "demefactory" =>
       /\ Template(c.desc) /\ LaidOut(c.desc, c.romSize)
       /\ descriptorDefinesGbeRegion(c.desc) <=> c.kind = "image12k"
  /\ c.kind = "image12k" => KeptGbe(c.gbe)

SoundSource(c) ==
  /\ FirstBlock(c.desc)
  /\ c.origin # "demefactory" => Template(c.desc)
  /\ c.origin = "ich9deblob" => c.romSize \in Nat /\ LaidOut(c.desc, c.romSize)

SoundRom(c) ==
  /\ FirstBlock(c.desc) /\ c.size \in RomSizes
  /\ c.origin \in {"repository", "ich9deblob"} =>
       /\ Template(c.desc) /\ LaidOut(c.desc, c.size)
       /\ descriptorDefinesGbeRegion(c.desc) => c.gbeAt = 1 /\ KeptGbe(c.gbe)

Sound(c) ==
  /\ c.kind \in {"image12k", "image4k"} => SoundImage(c)
  /\ c.kind = "mkdescriptor.c" => SoundSource(c)
  /\ c.kind = "mkgbe.c" => Kept(c.gbe)
  /\ c.kind = "rom" => SoundRom(c)

SoundJobs == {j \in JobSet : Sound(j.content)}

DirSound == \A f \in Files : Sound(dir[f])
BuildSound ==
  /\ \A f \in SourceFiles : Sound(src[f])
  /\ \A n \in Objects : Sound(obj[n]) /\ Sound(gen[n])
JobsSound == proc.jobs \in Seq(SoundJobs)

Contents == DirSound /\ BuildSound /\ JobsSound

\* What was not read is not written.
JobsWithoutGbe == {j \in JobSet : ~HasGbe(j.content)}
OnlyRead ==
  proc.tool = "ich9deblob" /\ ~proc.gbeRead => proc.jobs \in Seq(JobsWithoutGbe)

\* The objects are those of the sources, unless these were changed since.
Fresh ==
  /\ rebuilt => \A n \in Objects : obj[n] \in {Absent, src[CodeOf[n]]}
  /\ RebuildTakesEffect

\* The four images of ich9gen --macaddress, and the source that it prints.
MacImages ==
  {"ich9fdgbe_4m.bin", "ich9fdgbe_8m.bin", "ich9fdnogbe_4m.bin", "ich9fdnogbe_8m.bin"}
MacFiles == MacImages \cup {"mkgbe.c"}
Addressed(c, mac) == c \notin {Absent, Partial} /\ (HasGbe(c) => MacOf(c) = mac)
MacJobs(mac) == {j \in JobSet : j.file \in MacFiles => Addressed(j.content, mac)}

\* A file that is still to be written.
Left(jobs, f) == \E i \in 1 .. Len(jobs) : jobs[i].file = f

\* Each of the five is written or will be, those hit by a failure excepted.
AllWritten(jobs, where, hit, mac) ==
  \A f \in MacFiles \ hit : Left(jobs, f) \/ Addressed(where[f], mac)

Completing ==
  proc.mac # << >> =>
    /\ proc.jobs \in Seq(MacJobs(Head(proc.mac).mac))
    /\ AllWritten(proc.jobs, dir, spoiled, Head(proc.mac).mac)

\* What is opened was removed, or its removal has failed.
Cleared == proc.opened => dir[TheJob.file] = Absent \/ TheJob.file \in spoiled

IInv == Typed /\ Contents /\ OnlyRead /\ Fresh /\ Completing /\ Cleared

-----------------------------------------------------------------------------
(* Contents and their types.                                                  *)

\* What each file holds when it is whole.
LEMMA ContentsByFile ==
  /\ WholeContentsOf("factory.rom") = RomContent
  /\ \A f \in HeaderFiles : WholeContentsOf(f) = {Header}
  /\ WholeContentsOf("mkdescriptor.c") = DescriptorSourceContent
  /\ WholeContentsOf("mkgbe.c") = GbeSourceContent
  /\ \A f \in {"deblobbed_descriptor.bin", "ich9fdgbe_4m.bin", "ich9fdgbe_8m.bin"} :
       WholeContentsOf(f) = Image12kContent
  /\ \A f \in {"deblobbed_4kdescriptor.bin", "demefactory_4kdescriptor.bin",
               "ich9fdnogbe_4m.bin", "ich9fdnogbe_8m.bin"} :
       WholeContentsOf(f) = Image4kContent
BY DEF WholeContentsOf, HeaderFiles

\* Absent, partial and whole files are told apart by their kind.
LEMMA Kinds ==
  /\ Absent.kind = "absent" /\ Partial.kind = "partial" /\ Header.kind = "header"
  /\ \A c \in RomContent : c.kind = "rom"
  /\ \A c \in Image12kContent : c.kind = "image12k"
  /\ \A c \in Image4kContent : c.kind = "image4k"
  /\ \A c \in DescriptorSourceContent : c.kind = "mkdescriptor.c"
  /\ \A c \in GbeSourceContent : c.kind = "mkgbe.c"
BY DEF Absent, Partial, Header, RomContent, Image12kContent, Image4kContent,
       DescriptorSourceContent, GbeSourceContent

\* The fields of the contents that the tools write.
LEMMA Image12kFields ==
  ASSUME NEW d, NEW g8, NEW origin, NEW romSize
  PROVE  LET c == Image12k(d, g8, origin, romSize)
         IN  /\ c.kind = "image12k" /\ c.desc = d /\ c.gbe = g8 /\ c.origin = origin
             /\ c.romSize = romSize
             /\ d \in DescriptorRecord /\ g8 \in Gbe8k /\ origin \in Origin /\ romSize \in Nat
                  => c \in Image12kContent
BY DEF Image12k, Image12kContent

\* A descriptor alone.
LEMMA Image4kFields ==
  ASSUME NEW d, NEW origin, NEW romSize
  PROVE  LET c == Image4k(d, origin, romSize)
         IN  /\ c.kind = "image4k" /\ c.desc = d /\ c.origin = origin /\ c.romSize = romSize
             /\ d \in DescriptorRecord /\ origin \in Origin /\ romSize \in Nat
                  => c \in Image4kContent
BY DEF Image4k, Image4kContent

\* The printed source of a descriptor.
LEMMA DescriptorSourceFields ==
  ASSUME NEW d, NEW origin, NEW romSize
  PROVE  LET c == DescriptorSource(d, origin, romSize)
         IN  /\ c.kind = "mkdescriptor.c" /\ c.desc = d /\ c.origin = origin
             /\ c.romSize = romSize
             /\ d \in DescriptorRecord /\ origin \in Origin /\ romSize \in Nat
                  => c \in DescriptorSourceContent
BY DEF DescriptorSource, DescriptorSourceContent

\* The printed source of a GbE region.
LEMMA GbeSourceFields ==
  ASSUME NEW g
  PROVE  LET c == GbeSource(g)
         IN  c.kind = "mkgbe.c" /\ c.gbe = g /\ (g \in Gbe4k => c \in GbeSourceContent)
BY DEF GbeSource, GbeSourceContent

\* A job has the file and the content it was made of.
LEMMA JobFields ==
  ASSUME NEW f, NEW c
  PROVE  /\ Job(f, c).file = f /\ Job(f, c).content = c /\ ~Job(f, c).text
         /\ TextJob(f, c).file = f /\ TextJob(f, c).content = c
BY DEF Job, TextJob

\* A job for content that belongs in its file has its type.
LEMMA JobTypes ==
  ASSUME NEW f \in Files, NEW c \in WholeContentsOf(f)
  PROVE  Job(f, c) \in JobSet /\ TextJob(f, c) \in JobSet
<1>1. c \in WholeContent
  BY ContentsByFile DEF WholeContent, Files, SourceFiles, HeaderFiles, CodeFiles, ImageFiles
<1>. HIDE DEF WholeContent
<1>2. /\ Job(f, c) \in [file : Files, text : BOOLEAN, content : WholeContent]
      /\ TextJob(f, c) \in [file : Files, text : BOOLEAN, content : WholeContent]
  BY <1>1 DEF Job, TextJob
<1>3. /\ Job(f, c).content \in WholeContentsOf(Job(f, c).file)
      /\ TextJob(f, c).content \in WholeContentsOf(TextJob(f, c).file)
  <2>1. Job(f, c).file = f /\ Job(f, c).content = c
    BY JobFields
  <2>2. TextJob(f, c).file = f /\ TextJob(f, c).content = c
    BY JobFields
  <2>. QED BY <2>1, <2>2
<1>. QED BY <1>2, <1>3 DEF JobSet

\* A job's type.
LEMMA JobSetFields ==
  ASSUME NEW j \in JobSet
  PROVE  j.file \in Files /\ j.text \in BOOLEAN /\ j.content \in WholeContentsOf(j.file)
BY DEF JobSet

-----------------------------------------------------------------------------
(* The lists of jobs: what holds for each job that a list is made of.         *)

\* The shapes that the lists are put together in.
LEMMA TuplesOf ==
  ASSUME NEW S
  PROVE  /\ \A a \in S : << a >> \in Seq(S)
         /\ \A a, b \in S : << a, b >> \in Seq(S)
         /\ \A a, b, c, d \in S : << a, b, c, d >> \in Seq(S)
         /\ \A s, t \in Seq(S) : s \o t \in Seq(S)
OBVIOUS

\* The two files of a descriptor source.
LEMMA DescriptorSourceJobsOf ==
  ASSUME NEW S, NEW d, NEW origin, NEW romSize,
         TextJob("mkdescriptor.h", Header) \in S,
         TextJob("mkdescriptor.c", DescriptorSource(d, origin, romSize)) \in S
  PROVE  DescriptorSourceJobs(d, origin, romSize) \in Seq(S)
BY TuplesOf, Zenon DEF DescriptorSourceJobs

\* The two files of a GbE source.
LEMMA GbeSourceJobsOf ==
  ASSUME NEW S, NEW g,
         TextJob("mkgbe.h", Header) \in S,
         TextJob("mkgbe.c", GbeSource(g)) \in S
  PROVE  GbeSourceJobs(g) \in Seq(S)
BY TuplesOf, Zenon DEF GbeSourceJobs

\* The files of ich9deblob.
LEMMA DeblobJobsOf ==
  ASSUME NEW S, NEW d, NEW g8, NEW romSize,
         TextJob("mkdescriptor.h", Header) \in S,
         TextJob("mkdescriptor.c", DescriptorSource(d, "ich9deblob", romSize)) \in S,
         descriptorDefinesGbeRegion(d) =>
           /\ Job("deblobbed_descriptor.bin", Image12k(d, g8, "ich9deblob", romSize)) \in S
           /\ TextJob("mkgbe.h", Header) \in S
           /\ TextJob("mkgbe.c", GbeSource(g8.backup)) \in S,
         ~descriptorDefinesGbeRegion(d) =>
           Job("deblobbed_4kdescriptor.bin", Image4k(d, "ich9deblob", romSize)) \in S
  PROVE  DeblobJobs(d, g8, romSize) \in Seq(S)
<1>1. DescriptorSourceJobs(d, "ich9deblob", romSize) \in Seq(S)
  BY DescriptorSourceJobsOf, Zenon
<1>2. CASE descriptorDefinesGbeRegion(d)
  <2>1. GbeSourceJobs(g8.backup) \in Seq(S)
    BY <1>2, GbeSourceJobsOf, Zenon
  <2>2. << Job("deblobbed_descriptor.bin", Image12k(d, g8, "ich9deblob", romSize)) >> \in Seq(S)
    BY <1>2, TuplesOf, Zenon
  <2>. QED BY <1>1, <1>2, <2>1, <2>2, TuplesOf, Zenon DEF DeblobJobs
<1>3. CASE ~descriptorDefinesGbeRegion(d)
  <2>1. << Job("deblobbed_4kdescriptor.bin", Image4k(d, "ich9deblob", romSize)) >> \in Seq(S)
    BY <1>3, TuplesOf, Zenon
  <2>. QED BY <1>1, <1>3, <2>1, TuplesOf, Zenon DEF DeblobJobs
<1>. QED BY <1>2, <1>3

\* The files of demefactory.
LEMMA DemeJobsOf ==
  ASSUME NEW S, NEW d, NEW romSize,
         TextJob("mkdescriptor.h", Header) \in S,
         TextJob("mkdescriptor.c", DescriptorSource(d, "demefactory", romSize)) \in S,
         Job("demefactory_4kdescriptor.bin", Image4k(d, "demefactory", romSize)) \in S
  PROVE  DemeJobs(d, romSize) \in Seq(S)
<1>1. DescriptorSourceJobs(d, "demefactory", romSize) \in Seq(S)
  BY DescriptorSourceJobsOf, Zenon
<1>2. << Job("demefactory_4kdescriptor.bin", Image4k(d, "demefactory", romSize)) >> \in Seq(S)
  BY TuplesOf, Zenon
<1>. QED BY <1>1, <1>2, TuplesOf, Zenon DEF DemeJobs

\* The images that ich9gen makes of a template.
GenWith(template, g8, romSize) ==
  Image12k(generatedDescriptorStruct(template.desc, romSize, TRUE), g8, template.origin, romSize)
GenWithout(template, romSize) ==
  Image4k(generatedDescriptorStruct(template.desc, romSize, FALSE), template.origin, romSize)

\* The files of ich9gen.
LEMMA GenJobsOf ==
  ASSUME NEW S, NEW template, NEW g8,
         Job("ich9fdgbe_4m.bin", GenWith(template, g8, ROMSIZE_4MB)) \in S,
         Job("ich9fdgbe_8m.bin", GenWith(template, g8, ROMSIZE_8MB)) \in S,
         Job("ich9fdnogbe_4m.bin", GenWithout(template, ROMSIZE_4MB)) \in S,
         Job("ich9fdnogbe_8m.bin", GenWithout(template, ROMSIZE_8MB)) \in S
  PROVE  GenJobs(template, g8) \in Seq(S)
<1>1. GenJobs(template, g8) =
        << Job("ich9fdgbe_4m.bin", GenWith(template, g8, ROMSIZE_4MB)),
           Job("ich9fdgbe_8m.bin", GenWith(template, g8, ROMSIZE_8MB)),
           Job("ich9fdnogbe_4m.bin", GenWithout(template, ROMSIZE_4MB)),
           Job("ich9fdnogbe_8m.bin", GenWithout(template, ROMSIZE_8MB)) >>
  BY Zenon DEF GenJobs, GenWith, GenWithout
<1>. QED BY <1>1, TuplesOf, ZenonT(30)

\* Going on with the list.
LEMMA HeadAndTail ==
  ASSUME NEW S, NEW s \in Seq(S), s # << >>
  PROVE  /\ Head(s) \in S /\ Tail(s) \in Seq(S)
         /\ Len(s) \in Nat \ {0} /\ Len(Tail(s)) = Len(s) - 1
         /\ Head(s) = s[1] /\ \A i \in 2 .. Len(s) : s[i] = Tail(s)[i - 1]
OBVIOUS

\* No list at all.
LEMMA NoJobs == \A S : << >> \in Seq(S)
OBVIOUS

-----------------------------------------------------------------------------
(* What the tools write has its type, and is sound.                           *)

\* Every name the tools write to is a file of the model.
LEMMA FileNames ==
  /\ "factory.rom" \in Files
  /\ "mkdescriptor.h" \in Files /\ "mkgbe.h" \in Files
  /\ "mkdescriptor.c" \in Files /\ "mkgbe.c" \in Files
  /\ ImageFiles \subseteq Files /\ MacFiles \subseteq Files /\ SourceFiles \subseteq Files
  /\ "deblobbed_descriptor.bin" \in Files /\ "deblobbed_4kdescriptor.bin" \in Files
  /\ "demefactory_4kdescriptor.bin" \in Files
  /\ "ich9fdgbe_4m.bin" \in Files /\ "ich9fdgbe_8m.bin" \in Files
  /\ "ich9fdnogbe_4m.bin" \in Files /\ "ich9fdnogbe_8m.bin" \in Files
BY DEF Files, SourceFiles, HeaderFiles, CodeFiles, ImageFiles, MacFiles, MacImages

\* The four origins.
LEMMA Origins ==
  "factory" \in Origin /\ "repository" \in Origin /\ "ich9deblob" \in Origin
    /\ "demefactory" \in Origin
BY DEF Origin

\* What belongs in each file that a tool writes.
LEMMA ContentsByName ==
  /\ Header \in WholeContentsOf("mkdescriptor.h") /\ Header \in WholeContentsOf("mkgbe.h")
  /\ WholeContentsOf("deblobbed_descriptor.bin") = Image12kContent
  /\ WholeContentsOf("deblobbed_4kdescriptor.bin") = Image4kContent
  /\ WholeContentsOf("demefactory_4kdescriptor.bin") = Image4kContent
  /\ WholeContentsOf("ich9fdgbe_4m.bin") = Image12kContent
  /\ WholeContentsOf("ich9fdgbe_8m.bin") = Image12kContent
  /\ WholeContentsOf("ich9fdnogbe_4m.bin") = Image4kContent
  /\ WholeContentsOf("ich9fdnogbe_8m.bin") = Image4kContent
BY ContentsByFile DEF HeaderFiles

\* Nothing is asked of headers and of files that are absent or cut short.
LEMMA NothingToAsk == Sound(Header) /\ Sound(Absent) /\ Sound(Partial)
BY Kinds DEF Sound

\* The headers are jobs.
LEMMA HeadersTyped ==
  TextJob("mkdescriptor.h", Header) \in JobSet /\ TextJob("mkgbe.h", Header) \in JobSet
BY FileNames, ContentsByName, JobTypes, Zenon

\* A job for sound content is sound.
LEMMA SoundJob ==
  ASSUME NEW f \in Files, NEW c \in WholeContentsOf(f), Sound(c)
  PROVE  Job(f, c) \in SoundJobs /\ TextJob(f, c) \in SoundJobs
<1>1. Job(f, c) \in JobSet /\ TextJob(f, c) \in JobSet
  BY JobTypes
<1>2. Job(f, c).content = c /\ TextJob(f, c).content = c
  BY JobFields
<1>3. Sound(Job(f, c).content) /\ Sound(TextJob(f, c).content)
  BY <1>2, Zenon
<1>. QED BY <1>1, <1>3, Zenon DEF SoundJobs

\* The headers are sound jobs.
LEMMA HeadersSound ==
  TextJob("mkdescriptor.h", Header) \in SoundJobs /\ TextJob("mkgbe.h", Header) \in SoundJobs
BY FileNames, ContentsByName, NothingToAsk, SoundJob, Zenon

\* ich9deblob.
LEMMA DeblobTyped ==
  ASSUME NEW d \in DescriptorRecord, NEW g8 \in Gbe8k, NEW romSize \in Nat
  PROVE  DeblobJobs(d, g8, romSize) \in Seq(JobSet)
<1>1. g8.backup \in Gbe4k
  BY DEF Gbe8k
<1>2. DescriptorSource(d, "ich9deblob", romSize) \in WholeContentsOf("mkdescriptor.c")
  BY DescriptorSourceFields, ContentsByFile, Origins, Zenon
<1>3. GbeSource(g8.backup) \in WholeContentsOf("mkgbe.c")
  BY <1>1, GbeSourceFields, ContentsByFile, Zenon
<1>4. Image12k(d, g8, "ich9deblob", romSize) \in WholeContentsOf("deblobbed_descriptor.bin")
  BY Image12kFields, ContentsByName, Origins, Zenon
<1>5. Image4k(d, "ich9deblob", romSize) \in WholeContentsOf("deblobbed_4kdescriptor.bin")
  BY Image4kFields, ContentsByName, Origins, Zenon
<1>6. /\ TextJob("mkdescriptor.c", DescriptorSource(d, "ich9deblob", romSize)) \in JobSet
      /\ TextJob("mkgbe.c", GbeSource(g8.backup)) \in JobSet
      /\ Job("deblobbed_descriptor.bin", Image12k(d, g8, "ich9deblob", romSize)) \in JobSet
      /\ Job("deblobbed_4kdescriptor.bin", Image4k(d, "ich9deblob", romSize)) \in JobSet
  BY <1>2, <1>3, <1>4, <1>5, FileNames, JobTypes, Zenon
<1>. QED BY <1>6, HeadersTyped, DeblobJobsOf, Zenon

\* Of a libre descriptor that is laid out, it writes sound files.
LEMMA DeblobSound ==
  ASSUME NEW d, NEW g8 \in Gbe8k, NEW romSize \in RomSizes,
         Template(d), LaidOut(d, romSize), FirstBlock(d),
         descriptorDefinesGbeRegion(d) => KeptGbe(g8)
  PROVE  DeblobJobs(d, g8, romSize) \in Seq(SoundJobs)
<1>0. romSize \in Nat /\ d \in DescriptorRecord
  BY LastFieldWhole DEF Template
<1>. DEFINE source == DescriptorSource(d, "ich9deblob", romSize)
            with == Image12k(d, g8, "ich9deblob", romSize)
            less == Image4k(d, "ich9deblob", romSize)
<1>1. /\ source \in WholeContentsOf("mkdescriptor.c")
      /\ source.kind = "mkdescriptor.c" /\ source.desc = d /\ source.romSize = romSize
  <2>1. source \in WholeContentsOf("mkdescriptor.c")
    BY <1>0, DescriptorSourceFields, ContentsByFile, Origins, Zenon
  <2>2. source.kind = "mkdescriptor.c" /\ source.desc = d /\ source.romSize = romSize
    BY DescriptorSourceFields
  <2>. QED BY <2>1, <2>2
<1>2. /\ with \in WholeContentsOf("deblobbed_descriptor.bin")
      /\ with.kind = "image12k" /\ with.desc = d /\ with.romSize = romSize /\ with.gbe = g8
  <2>1. with \in WholeContentsOf("deblobbed_descriptor.bin")
    BY <1>0, Image12kFields, ContentsByName, Origins, Zenon
  <2>2. with.kind = "image12k" /\ with.desc = d /\ with.romSize = romSize /\ with.gbe = g8
    BY Image12kFields
  <2>. QED BY <2>1, <2>2
<1>3. /\ less \in WholeContentsOf("deblobbed_4kdescriptor.bin")
      /\ less.kind = "image4k" /\ less.desc = d /\ less.romSize = romSize
  <2>1. less \in WholeContentsOf("deblobbed_4kdescriptor.bin")
    BY <1>0, Image4kFields, ContentsByName, Origins, Zenon
  <2>2. less.kind = "image4k" /\ less.desc = d /\ less.romSize = romSize
    BY Image4kFields
  <2>. QED BY <2>1, <2>2
<1>. HIDE DEF source, with, less
<1>4. Sound(source)
  BY <1>0, <1>1 DEF Sound, SoundSource, FirstBlock
<1>5. TextJob("mkdescriptor.c", source) \in SoundJobs
  BY <1>1, <1>4, FileNames, SoundJob, Zenon
<1>6. CASE descriptorDefinesGbeRegion(d)
  <2>1. Kept(g8.backup) /\ g8.backup \in Gbe4k
    BY <1>6 DEF KeptGbe, Kept
  <2>2. GbeSource(g8.backup) \in WholeContentsOf("mkgbe.c")
        /\ GbeSource(g8.backup).kind = "mkgbe.c" /\ GbeSource(g8.backup).gbe = g8.backup
    BY <2>1, GbeSourceFields, ContentsByFile, Zenon
  <2>3. Sound(GbeSource(g8.backup))
    BY <2>1, <2>2 DEF Sound
  <2>4. Sound(with)
    BY <1>2, <1>6 DEF Sound, SoundImage, FirstBlock
  <2>5. /\ TextJob("mkgbe.c", GbeSource(g8.backup)) \in SoundJobs
        /\ Job("deblobbed_descriptor.bin", with) \in SoundJobs
    BY <1>2, <2>2, <2>3, <2>4, FileNames, SoundJob, Zenon
  <2>. QED BY <1>5, <1>6, <2>5, HeadersSound, DeblobJobsOf, Zenon DEF source, with
<1>7. CASE ~descriptorDefinesGbeRegion(d)
  <2>1. Sound(less)
    BY <1>3, <1>7 DEF Sound, SoundImage, FirstBlock
  <2>2. Job("deblobbed_4kdescriptor.bin", less) \in SoundJobs
    BY <1>3, <2>1, FileNames, SoundJob, Zenon
  <2>. QED BY <1>5, <1>7, <2>2, HeadersSound, DeblobJobsOf, Zenon DEF source, less
<1>. QED BY <1>6, <1>7

\* Without a GbE region in the descriptor it writes none.
LEMMA DeblobWithoutGbe ==
  ASSUME NEW d \in DescriptorRecord, NEW g8, NEW romSize \in Nat, ~descriptorDefinesGbeRegion(d)
  PROVE  DeblobJobs(d, g8, romSize) \in Seq(JobsWithoutGbe)
<1>. DEFINE source == DescriptorSource(d, "ich9deblob", romSize)
            less == Image4k(d, "ich9deblob", romSize)
<1>1. /\ source \in WholeContentsOf("mkdescriptor.c")
      /\ source.kind = "mkdescriptor.c"
  <2>1. source \in WholeContentsOf("mkdescriptor.c")
    BY DescriptorSourceFields, ContentsByFile, Origins, Zenon
  <2>2. source.kind = "mkdescriptor.c"
    BY DescriptorSourceFields
  <2>. QED BY <2>1, <2>2
<1>2. /\ less \in WholeContentsOf("deblobbed_4kdescriptor.bin")
      /\ less.kind = "image4k"
  <2>1. less \in WholeContentsOf("deblobbed_4kdescriptor.bin")
    BY Image4kFields, ContentsByName, Origins, Zenon
  <2>2. less.kind = "image4k"
    BY Image4kFields
  <2>. QED BY <2>1, <2>2
<1>. HIDE DEF source, less
<1>3. /\ TextJob("mkdescriptor.c", source) \in JobSet
      /\ Job("deblobbed_4kdescriptor.bin", less) \in JobSet
  BY <1>1, <1>2, FileNames, JobTypes, Zenon
<1>4. ~HasGbe(Header) /\ ~HasGbe(source) /\ ~HasGbe(less)
  BY <1>1, <1>2, Kinds DEF HasGbe
<1>5. /\ TextJob("mkdescriptor.h", Header).content = Header
      /\ TextJob("mkdescriptor.c", source).content = source
      /\ Job("deblobbed_4kdescriptor.bin", less).content = less
  BY JobFields
<1>6. /\ TextJob("mkdescriptor.h", Header) \in JobsWithoutGbe
      /\ TextJob("mkdescriptor.c", source) \in JobsWithoutGbe
      /\ Job("deblobbed_4kdescriptor.bin", less) \in JobsWithoutGbe
  BY <1>3, <1>4, <1>5, HeadersTyped DEF JobsWithoutGbe
<1>. QED BY <1>6, DeblobJobsOf, Zenon DEF source, less

\* demefactory.
LEMMA DemeType ==
  ASSUME NEW d \in DescriptorRecord
  PROVE  DemeDescriptor(d) \in DescriptorRecord /\ DemeDescriptor(d).region = d.region
<1>. DEFINE c == descriptorDisableTpm(descriptorDisableMe(d))
            all == [read |-> RegionName, write |-> RegionName]
            none == [read |-> {}, write |-> {}]
            acc == [c.access EXCEPT !["host"] = all, !["me"] = none]
            e == descriptorMeRegionsForbidden(descriptorHostRegionsUnlocked(c))
<1>1. c \in DescriptorRecord /\ c.region = d.region
  BY Disabled, Zenon DEF SameDecision
<1>. HIDE DEF c
<1>2. all \in Access /\ none \in Access
  BY DEF Access
<1>3. c.access \in [Master -> Access]
  BY <1>1 DEF DescriptorRecord
<1>. HIDE DEF all, none
<1>4. acc \in [Master -> Access]
  BY <1>2, <1>3
<1>5. e = [c EXCEPT !.access = acc]
  BY <1>1 DEF descriptorHostRegionsUnlocked, descriptorMeRegionsForbidden, DescriptorRecord,
     all, none
<1>. HIDE DEF acc
<1>6. /\ [c EXCEPT !.access = acc] \in DescriptorRecord
      /\ [c EXCEPT !.access = acc].region = c.region
  BY <1>1, <1>4 DEF DescriptorRecord
<1>. HIDE DEF e
<1>7. e \in DescriptorRecord /\ e.region = d.region
  BY <1>1, <1>5, <1>6
<1>. QED BY <1>7 DEF DemeDescriptor, e, c

\* Its files have their types.
LEMMA DemeTyped ==
  ASSUME NEW d \in DescriptorRecord, NEW romSize \in Nat
  PROVE  DemeJobs(d, romSize) \in Seq(JobSet)
<1>1. DescriptorSource(d, "demefactory", romSize) \in WholeContentsOf("mkdescriptor.c")
  BY DescriptorSourceFields, ContentsByFile, Origins, Zenon
<1>2. Image4k(d, "demefactory", romSize) \in WholeContentsOf("demefactory_4kdescriptor.bin")
  BY Image4kFields, ContentsByName, Origins, Zenon
<1>3. /\ TextJob("mkdescriptor.c", DescriptorSource(d, "demefactory", romSize)) \in JobSet
      /\ Job("demefactory_4kdescriptor.bin", Image4k(d, "demefactory", romSize)) \in JobSet
  BY <1>1, <1>2, FileNames, JobTypes, Zenon
<1>. QED BY <1>3, HeadersTyped, DemeJobsOf, Zenon

\* They are sound when the descriptor begins with itself.
LEMMA DemeSound ==
  ASSUME NEW d \in DescriptorRecord, NEW romSize \in RomSizes, FirstBlock(d)
  PROVE  DemeJobs(d, romSize) \in Seq(SoundJobs)
<1>0. romSize \in Nat
  BY LastFieldWhole
<1>. DEFINE source == DescriptorSource(d, "demefactory", romSize)
            image == Image4k(d, "demefactory", romSize)
<1>1. /\ source \in WholeContentsOf("mkdescriptor.c")
      /\ source.kind = "mkdescriptor.c" /\ source.desc = d /\ source.origin = "demefactory"
  <2>1. source \in WholeContentsOf("mkdescriptor.c")
    BY <1>0, DescriptorSourceFields, ContentsByFile, Origins, Zenon
  <2>2. source.kind = "mkdescriptor.c" /\ source.desc = d /\ source.origin = "demefactory"
    BY DescriptorSourceFields
  <2>. QED BY <2>1, <2>2
<1>2. /\ image \in WholeContentsOf("demefactory_4kdescriptor.bin")
      /\ image.kind = "image4k" /\ image.desc = d /\ image.romSize = romSize
      /\ image.origin = "demefactory"
  <2>1. image \in WholeContentsOf("demefactory_4kdescriptor.bin")
    BY <1>0, Image4kFields, ContentsByName, Origins, Zenon
  <2>2. /\ image.kind = "image4k" /\ image.desc = d /\ image.romSize = romSize
        /\ image.origin = "demefactory"
    BY Image4kFields
  <2>. QED BY <2>1, <2>2
<1>. HIDE DEF source, image
<1>3. Sound(source)
  BY <1>1 DEF Sound, SoundSource, FirstBlock
<1>4. Sound(image)
  BY <1>2 DEF Sound, SoundImage, FirstBlock
<1>5. /\ TextJob("mkdescriptor.c", source) \in SoundJobs
      /\ Job("demefactory_4kdescriptor.bin", image) \in SoundJobs
  BY <1>1, <1>2, <1>3, <1>4, FileNames, SoundJob, Zenon
<1>. QED BY <1>5, HeadersSound, DemeJobsOf, Zenon DEF source, image

\* ich9gen.
LEMMA GenSizes ==
  ROMSIZE_4MB \in RomSizes /\ ROMSIZE_8MB \in RomSizes /\ ROMSIZE_4MB \in Nat /\ ROMSIZE_8MB \in Nat
BY DEF ROMSIZE_4MB, ROMSIZE_8MB, RomSizes, Blocks

\* The images have their types.
LEMMA GenImages ==
  ASSUME NEW template \in DescriptorSourceContent, NEW g8 \in Gbe8k, NEW romSize \in Nat
  PROVE  /\ GenWith(template, g8, romSize) \in Image12kContent
         /\ GenWith(template, g8, romSize).kind = "image12k"
         /\ GenWith(template, g8, romSize).gbe = g8
         /\ GenWithout(template, romSize) \in Image4kContent
         /\ GenWithout(template, romSize).kind = "image4k"
<1>1. template.desc \in DescriptorRecord /\ template.origin \in Origin
  BY DEF DescriptorSourceContent
<1>2. TRUE \in BOOLEAN /\ FALSE \in BOOLEAN
  OBVIOUS
<1>3. /\ generatedDescriptorStruct(template.desc, romSize, TRUE) \in DescriptorRecord
      /\ generatedDescriptorStruct(template.desc, romSize, FALSE) \in DescriptorRecord
  BY <1>1, <1>2, GeneratedFields, Zenon DEF Generated
<1>4. /\ GenWith(template, g8, romSize) \in Image12kContent
      /\ GenWithout(template, romSize) \in Image4kContent
  BY <1>1, <1>3, Image12kFields, Image4kFields, Zenon DEF GenWith, GenWithout
<1>5. /\ GenWith(template, g8, romSize).kind = "image12k"
      /\ GenWith(template, g8, romSize).gbe = g8
  BY DEF GenWith, Image12k
<1>6. GenWithout(template, romSize).kind = "image4k"
  BY DEF GenWithout, Image4k
<1>. QED BY <1>4, <1>5, <1>6

\* They are sound when the template is.
LEMMA GenImagesSound ==
  ASSUME NEW template \in DescriptorSourceContent, Sound(template),
         NEW g8, KeptGbe(g8), NEW romSize \in RomSizes
  PROVE  Sound(GenWith(template, g8, romSize)) /\ Sound(GenWithout(template, romSize))
<1>. DEFINE d == template.desc
            e == generatedDescriptorStruct(d, romSize, TRUE)
            f == generatedDescriptorStruct(d, romSize, FALSE)
            with == GenWith(template, g8, romSize)
            less == GenWithout(template, romSize)
<1>1. /\ d \in DescriptorRecord /\ FirstBlock(d)
      /\ template.origin # "demefactory" => Template(d)
      /\ romSize \in Nat
  BY Kinds, LastFieldWhole DEF DescriptorSourceContent, Sound, SoundSource
<1>2. Generated(d, e, romSize, TRUE) /\ Generated(d, f, romSize, FALSE)
  BY <1>1, GeneratedFields, Zenon
<1>3. ASSUME Template(d)
      PROVE  /\ Template(e) /\ LaidOut(e, romSize) /\ descriptorDefinesGbeRegion(e)
             /\ Template(f) /\ LaidOut(f, romSize) /\ ~descriptorDefinesGbeRegion(f)
  BY <1>1, <1>3, GeneratedLaidOut, Zenon
<1>4. /\ with.kind = "image12k" /\ with.desc = e /\ with.gbe = g8
      /\ with.origin = template.origin /\ with.romSize = romSize
  BY DEF GenWith, Image12k
<1>5. /\ less.kind = "image4k" /\ less.desc = f
      /\ less.origin = template.origin /\ less.romSize = romSize
  BY DEF GenWithout, Image4k
<1>. HIDE DEF d, e, f, with, less
<1>6. FirstBlock(e) /\ FirstBlock(f)
  <2>1. "fd" \in RegionName \ {"gbe", "bios"}
    BY DEF RegionName
  <2>2. e.region["fd"] = d.region["fd"] /\ f.region["fd"] = d.region["fd"]
    BY <1>2, <2>1, Zenon DEF Generated
  <2>. QED BY <1>1, <2>2 DEF FirstBlock
<1>7. SoundImage(with)
  BY <1>1, <1>3, <1>4, <1>6, Zenon DEF SoundImage
<1>8. SoundImage(less)
  <2>1. less.kind # "image12k"
    BY <1>5
  <2>. QED BY <1>1, <1>3, <1>5, <1>6, <2>1, Zenon DEF SoundImage
<1>9. Sound(with)
  BY <1>4, <1>7 DEF Sound
<1>10. Sound(less)
  BY <1>5, <1>8 DEF Sound
<1>. QED BY <1>9, <1>10 DEF with, less

\* The files have their types.
LEMMA GenTyped ==
  ASSUME NEW template \in DescriptorSourceContent, NEW g8 \in Gbe8k
  PROVE  GenJobs(template, g8) \in Seq(JobSet)
<1>1. /\ Job("ich9fdgbe_4m.bin", GenWith(template, g8, ROMSIZE_4MB)) \in JobSet
      /\ Job("ich9fdgbe_8m.bin", GenWith(template, g8, ROMSIZE_8MB)) \in JobSet
      /\ Job("ich9fdnogbe_4m.bin", GenWithout(template, ROMSIZE_4MB)) \in JobSet
      /\ Job("ich9fdnogbe_8m.bin", GenWithout(template, ROMSIZE_8MB)) \in JobSet
  BY GenSizes, GenImages, FileNames, ContentsByName, JobTypes, Zenon
<1>. QED BY <1>1, GenJobsOf, Zenon

\* They are sound when the template is.
LEMMA GenSound ==
  ASSUME NEW template \in DescriptorSourceContent, Sound(template), NEW g8, KeptGbe(g8)
  PROVE  GenJobs(template, g8) \in Seq(SoundJobs)
<1>1. g8 \in Gbe8k
  BY DEF KeptGbe
<1>2. /\ Job("ich9fdgbe_4m.bin", GenWith(template, g8, ROMSIZE_4MB)) \in SoundJobs
      /\ Job("ich9fdgbe_8m.bin", GenWith(template, g8, ROMSIZE_8MB)) \in SoundJobs
      /\ Job("ich9fdnogbe_4m.bin", GenWithout(template, ROMSIZE_4MB)) \in SoundJobs
      /\ Job("ich9fdnogbe_8m.bin", GenWithout(template, ROMSIZE_8MB)) \in SoundJobs
  BY <1>1, GenSizes, GenImages, GenImagesSound, FileNames, ContentsByName, SoundJob, Zenon
<1>. QED BY <1>2, GenJobsOf, Zenon

\* Whatever is left to do, the four images are in it at first.
LEMMA GenFiles ==
  ASSUME NEW template, NEW g8, NEW f \in MacImages
  PROVE  Left(GenJobs(template, g8), f)
<1>. DEFINE a == Job("ich9fdgbe_4m.bin", GenWith(template, g8, ROMSIZE_4MB))
            b == Job("ich9fdgbe_8m.bin", GenWith(template, g8, ROMSIZE_8MB))
            c == Job("ich9fdnogbe_4m.bin", GenWithout(template, ROMSIZE_4MB))
            d == Job("ich9fdnogbe_8m.bin", GenWithout(template, ROMSIZE_8MB))
<1>1. GenJobs(template, g8) = << a, b, c, d >>
  BY Zenon DEF GenJobs, GenWith, GenWithout
<1>2. /\ a.file = "ich9fdgbe_4m.bin" /\ b.file = "ich9fdgbe_8m.bin"
      /\ c.file = "ich9fdnogbe_4m.bin" /\ d.file = "ich9fdnogbe_8m.bin"
  BY JobFields, Zenon
<1>. HIDE DEF a, b, c, d
<1>3. \E i \in 1 .. 4 : << a, b, c, d >>[i].file = f
  BY <1>2 DEF MacImages
<1>4. Len(<< a, b, c, d >>) = 4
  OBVIOUS
<1>. QED BY <1>1, <1>3, <1>4 DEF Left

\* Each is of the address that the region given to it has.
LEMMA GenOfMac ==
  ASSUME NEW template \in DescriptorSourceContent, NEW g8 \in Gbe8k
  PROVE  GenJobs(template, g8) \in Seq(MacJobs(g8.main.mac))
<1>1. ASSUME NEW f \in {"ich9fdgbe_4m.bin", "ich9fdgbe_8m.bin"}, NEW romSize \in Nat
      PROVE  Job(f, GenWith(template, g8, romSize)) \in MacJobs(g8.main.mac)
  <2>. DEFINE c == GenWith(template, g8, romSize)
  <2>1. c \in Image12kContent /\ c.kind = "image12k" /\ c.gbe = g8
    BY GenImages, Zenon
  <2>2. f \in Files /\ WholeContentsOf(f) = Image12kContent
    BY FileNames, ContentsByName
  <2>. HIDE DEF c
  <2>3. Job(f, c) \in JobSet
    BY <2>1, <2>2, JobTypes
  <2>4. Addressed(c, g8.main.mac)
    BY <2>1, Kinds DEF Addressed, MacOf
  <2>5. Job(f, c).content = c /\ ~Job(f, c).text
    BY JobFields
  <2>6. Addressed(Job(f, c).content, g8.main.mac)
    BY <2>4, <2>5, Zenon
  <2>. QED BY <2>3, <2>5, <2>6, Zenon DEF MacJobs, c
<1>2. ASSUME NEW f \in {"ich9fdnogbe_4m.bin", "ich9fdnogbe_8m.bin"}, NEW romSize \in Nat
      PROVE  Job(f, GenWithout(template, romSize)) \in MacJobs(g8.main.mac)
  <2>. DEFINE c == GenWithout(template, romSize)
  <2>1. c \in Image4kContent /\ c.kind = "image4k"
    BY GenImages, Zenon
  <2>2. f \in Files /\ WholeContentsOf(f) = Image4kContent
    BY FileNames, ContentsByName
  <2>. HIDE DEF c
  <2>3. Job(f, c) \in JobSet
    BY <2>1, <2>2, JobTypes
  <2>4. Addressed(c, g8.main.mac)
    BY <2>1, Kinds DEF Addressed, HasGbe
  <2>5. Job(f, c).content = c /\ ~Job(f, c).text
    BY JobFields
  <2>6. Addressed(Job(f, c).content, g8.main.mac)
    BY <2>4, <2>5, Zenon
  <2>. QED BY <2>3, <2>5, <2>6, Zenon DEF MacJobs, c
<1>. QED BY <1>1, <1>2, GenSizes, GenJobsOf, Zenon

\* The source of the GbE region.
LEMMA GbeSourceSound ==
  ASSUME NEW g \in Gbe4k
  PROVE  /\ GbeSourceJobs(g) \in Seq(JobSet)
         /\ Kept(g) => GbeSourceJobs(g) \in Seq(SoundJobs)
         /\ GbeSourceJobs(g) \in Seq(MacJobs(g.mac))
         /\ Left(GbeSourceJobs(g), "mkgbe.c")
<1>. DEFINE c == GbeSource(g)
<1>1. c \in WholeContentsOf("mkgbe.c")
  BY GbeSourceFields, ContentsByFile, Zenon
<1>2. c.kind = "mkgbe.c" /\ c.gbe = g
  BY GbeSourceFields
<1>. HIDE DEF c
<1>3. TextJob("mkgbe.c", c) \in JobSet
  BY <1>1, FileNames, JobTypes, Zenon
<1>4. Kept(g) => TextJob("mkgbe.c", c) \in SoundJobs
  <2>1. Kept(g) => Sound(c)
    BY <1>2 DEF Sound
  <2>. QED BY <1>1, <2>1, FileNames, SoundJob, Zenon
<1>5. TextJob("mkgbe.c", c) \in MacJobs(g.mac) /\ TextJob("mkgbe.h", Header) \in MacJobs(g.mac)
  <2>1. TextJob("mkgbe.h", Header).file \notin MacFiles
    BY JobFields DEF MacFiles, MacImages
  <2>2. Addressed(c, g.mac)
    BY <1>2, Kinds DEF Addressed, MacOf
  <2>3. TextJob("mkgbe.c", c).content = c
    BY JobFields
  <2>4. Addressed(TextJob("mkgbe.c", c).content, g.mac)
    BY <2>2, <2>3, Zenon
  <2>. QED BY <1>3, <2>1, <2>4, HeadersTyped, Zenon DEF MacJobs
<1>6. Left(GbeSourceJobs(g), "mkgbe.c")
  <2>. DEFINE a == TextJob("mkgbe.h", Header)
              b == TextJob("mkgbe.c", c)
  <2>1. GbeSourceJobs(g) = << a, b >>
    BY Zenon DEF GbeSourceJobs, c
  <2>2. b.file = "mkgbe.c"
    BY JobFields, Zenon
  <2>. HIDE DEF a, b
  <2>3. 2 \in 1 .. Len(<< a, b >>) /\ << a, b >>[2] = b
    OBVIOUS
  <2>. QED BY <2>1, <2>2, <2>3 DEF Left
<1>. QED BY <1>3, <1>4, <1>5, <1>6, HeadersTyped, HeadersSound, GbeSourceJobsOf, Zenon DEF c

-----------------------------------------------------------------------------
(* The steps, by what they leave alone.                                       *)

Starts ==
  \/ \E tool \in Tools : Refuses(tool) \/ FactoryRomUnreadable(tool)
  \/ Ich9deblob \/ Demefactory \/ Ich9gen
  \/ \E arg \in MacArguments : Ich9genMac(arg)
Writes ==
  RemoveOldFile \/ RemoveFails \/ WriteFile \/ OpenFails \/ WriteFails \/ OutputLost \/ Killed
Places ==
  \/ \E rom \in FactoryRoms : PlaceFactoryRom(rom)
  \/ \E file \in ImageFiles : PlaceLibrebootRom(file)
Builds == (\E name \in Objects : PlaceSources(name)) \/ PlainMake \/ BuildModule

\* These are all the steps there are.
LEMMA StepKinds == [Next]_vars <=> Starts \/ Writes \/ Places \/ Builds \/ UNCHANGED vars
BY Zenon DEF Next, Starts, Writes, Places, Builds

\* A start changes the run only.
LEMMA StartFrame ==
  ASSUME Starts
  PROVE  proc = Idle /\ spoiled' = {} /\ UNCHANGED <<host, dir, src, obj, built, gen, rebuilt>>
<1>1. \E tool : CanStart(tool)
  BY Zenon DEF Starts, Refuses, FactoryRomUnreadable, Ich9deblob, Demefactory, Ich9gen, Ich9genMac
<1>. QED BY <1>1, Zenon DEF CanStart

\* A write changes directory and run only.
LEMMA WriteFrame ==
  ASSUME Writes
  PROVE  Writing /\ UNCHANGED <<host, src, obj, built, gen, runs, rebuilt>>
BY Zenon DEF Writes, RemoveOldFile, RemoveFails, WriteFile, OpenFails, WriteFails, OutputLost,
             Killed, WriteStep

\* Placing a ROM changes the directory only.
LEMMA PlaceFrame ==
  ASSUME Places
  PROVE  proc = Idle /\ spoiled' = {}
         /\ UNCHANGED <<host, src, obj, built, gen, proc, status, runs, rebuilt>>
BY Zenon DEF Places, PlaceFactoryRom, PlaceLibrebootRom

\* Placing sources and make change the sources and what make derives from them only.
LEMMA BuildFrame ==
  ASSUME Builds
  PROVE  proc = Idle /\ spoiled' = {} /\ UNCHANGED <<host, dir, proc, status, runs>>
BY Zenon DEF Builds, PlaceSources, PlainMake, BuildModule

\* A run that has not begun or has ended.
LEMMA IdleFields ==
  /\ Idle.tool = "none" /\ Idle.jobs = << >> /\ Idle.mac = << >>
  /\ Idle \in ProcSet
<1>. DEFINE J == Seq(JobSet)
<1>1. << >> \in J /\ << >> \in MacSet
  BY NoJobs DEF MacSet
<1>. HIDE DEF J
<1>2. Idle \in [tool : Tools \cup {"none"}, jobs : J, opened : BOOLEAN, gbeRead : BOOLEAN, mac : MacSet]
  BY <1>1 DEF Idle
<1>3. Idle.tool = "none" /\ Idle.jobs = << >> /\ Idle.mac = << >>
  BY DEF Idle
<1>. QED BY <1>2, <1>3, Zenon DEF ProcSet, J

\* A run that began.
Begun(tool, jobs, gbeRead, mac) ==
  [tool |-> tool, jobs |-> jobs, opened |-> FALSE, gbeRead |-> gbeRead, mac |-> mac]

\* It is a run of that tool.
LEMMA BegunFields ==
  ASSUME NEW tool \in Tools, NEW jobs \in Seq(JobSet), NEW gbeRead \in BOOLEAN, NEW mac \in MacSet
  PROVE  LET p == Begun(tool, jobs, gbeRead, mac)
         IN  /\ p \in ProcSet
             /\ p.tool = tool /\ p.jobs = jobs /\ p.gbeRead = gbeRead /\ p.mac = mac
<1>. DEFINE J == Seq(JobSet)
<1>1. jobs \in J
  OBVIOUS
<1>. HIDE DEF J
<1>2. Begun(tool, jobs, gbeRead, mac) \in
        [tool : Tools \cup {"none"}, jobs : J, opened : BOOLEAN, gbeRead : BOOLEAN, mac : MacSet]
  BY <1>1 DEF Begun
<1>3. LET p == Begun(tool, jobs, gbeRead, mac)
      IN  p.tool = tool /\ p.jobs = jobs /\ p.gbeRead = gbeRead /\ p.mac = mac
  BY DEF Begun
<1>. QED BY <1>2, <1>3, Zenon DEF ProcSet, J

\* What a write does to the run: it ends, waits for the file, or goes on.
Waited(p) == [p EXCEPT !.opened = TRUE]
Advanced(p) == [p EXCEPT !.jobs = Tail(@), !.opened = FALSE]

\* Waiting or going on, it stays the same run with the same jobs or fewer.
LEMMA RunFields ==
  ASSUME NEW p \in ProcSet, p.jobs # << >>
  PROVE  /\ Waited(p) \in ProcSet /\ Advanced(p) \in ProcSet
         /\ Waited(p).jobs = p.jobs /\ Advanced(p).jobs = Tail(p.jobs)
         /\ Waited(p).tool = p.tool /\ Advanced(p).tool = p.tool
         /\ Waited(p).gbeRead = p.gbeRead /\ Advanced(p).gbeRead = p.gbeRead
         /\ Waited(p).mac = p.mac /\ Advanced(p).mac = p.mac
<1>. DEFINE J == Seq(JobSet)
            T == Tools \cup {"none"}
<1>1. p.jobs \in J
  BY DEF ProcSet
<1>2. Tail(p.jobs) \in J
  BY <1>1, HeadAndTail, Zenon
<1>. HIDE DEF J, T
<1>3. p \in [tool : T, jobs : J, opened : BOOLEAN, gbeRead : BOOLEAN, mac : MacSet]
  BY Zenon DEF ProcSet, J, T
<1>4. /\ Waited(p) \in [tool : T, jobs : J, opened : BOOLEAN, gbeRead : BOOLEAN, mac : MacSet]
      /\ Waited(p).jobs = p.jobs /\ Waited(p).tool = p.tool
      /\ Waited(p).gbeRead = p.gbeRead /\ Waited(p).mac = p.mac
  BY <1>3 DEF Waited
<1>5. /\ Advanced(p) \in [tool : T, jobs : J, opened : BOOLEAN, gbeRead : BOOLEAN, mac : MacSet]
      /\ Advanced(p).jobs = Tail(p.jobs) /\ Advanced(p).tool = p.tool
      /\ Advanced(p).gbeRead = p.gbeRead /\ Advanced(p).mac = p.mac
  BY <1>2, <1>3 DEF Advanced
<1>. QED BY <1>4, <1>5, Zenon DEF ProcSet, J, T

\* These are all the ways a write leaves the run.
LEMMA WriteRun ==
  ASSUME Writes
  PROVE  /\ proc' = Idle \/ proc' = Waited(proc) \/ proc' = Advanced(proc)
         /\ status' \in {status, "ok", "error", "crash"}
         /\ spoiled' \in {spoiled, spoiled \cup {TheJob.file}}
<1>1. ASSUME NextJob
      PROVE  /\ proc' = Idle \/ proc' = Advanced(proc)
             /\ status' \in {status, "ok"}
  BY <1>1 DEF NextJob, Advanced
<1>2. CASE RemoveOldFile \/ RemoveFails
  BY <1>2 DEF RemoveOldFile, RemoveFails, Waited
<1>3. CASE WriteFile \/ OutputLost
  BY <1>1, <1>3, Zenon DEF WriteFile, OutputLost
<1>4. CASE OpenFails \/ WriteFails \/ Killed
  BY <1>4 DEF OpenFails, WriteFails, Killed, EndsAtOnce
<1>. QED BY <1>2, <1>3, <1>4 DEF Writes

\* A run that begins, goes on or has ended has no file open.
LEMMA NothingOpened ==
  /\ ~Idle.opened
  /\ \A p \in ProcSet : ~Advanced(p).opened
  /\ \A tool, jobs, gbeRead, mac : ~Begun(tool, jobs, gbeRead, mac).opened
<1>. DEFINE J == Seq(JobSet)
<1>1. ASSUME NEW p \in ProcSet PROVE ~Advanced(p).opened
  <2>. HIDE DEF J
  <2>1. p \in [tool : Tools \cup {"none"}, jobs : J, opened : BOOLEAN, gbeRead : BOOLEAN, mac : MacSet]
    BY Zenon DEF ProcSet, J
  <2>. QED BY <2>1 DEF Advanced
<1>2. ~Idle.opened /\ \A tool, jobs, gbeRead, mac : ~Begun(tool, jobs, gbeRead, mac).opened
  BY DEF Idle, Begun
<1>. QED BY <1>1, <1>2

\* What it does to the directory.
LEMMA WriteDir ==
  ASSUME Writes
  PROVE  \/ dir' = dir
         \/ \E c \in {Absent, Partial, TheJob.content, OldFile} : Leaves(c)
<1>1. /\ CutShort(OldFile, TheJob) \in {Partial, OldFile}
      /\ \A c \in Written(OldFile, TheJob) : c \in {Partial, TheJob.content, OldFile}
  BY DEF CutShort, Written
<1>. QED BY <1>1, Zenon DEF Writes, RemoveOldFile, RemoveFails, WriteFile, OpenFails, WriteFails,
                            OutputLost, Killed

\* The fields of a run's type.
LEMMA ProcFields ==
  ASSUME NEW p \in ProcSet
  PROVE  /\ p.tool \in Tools \cup {"none"} /\ p.jobs \in Seq(JobSet)
         /\ p.opened \in BOOLEAN /\ p.gbeRead \in BOOLEAN /\ p.mac \in MacSet
         /\ DOMAIN p = {"tool", "jobs", "opened", "gbeRead", "mac"}
<1>. DEFINE J == Seq(JobSet)
<1>. HIDE DEF J
<1>1. p \in [tool : Tools \cup {"none"}, jobs : J, opened : BOOLEAN, gbeRead : BOOLEAN, mac : MacSet]
  BY Zenon DEF ProcSet, J
<1>2. /\ p.tool \in Tools \cup {"none"} /\ p.jobs \in J
      /\ p.opened \in BOOLEAN /\ p.gbeRead \in BOOLEAN /\ p.mac \in MacSet
      /\ DOMAIN p = {"tool", "jobs", "opened", "gbeRead", "mac"}
  BY <1>1
<1>. QED BY <1>2, Zenon DEF J

\* What is written is one of the jobs.
LEMMA TheJobIsAJob ==
  ASSUME RunTyped, Writing
  PROVE  TheJob \in JobSet
BY ProcFields, HeadAndTail, Zenon DEF RunTyped, Writing, TheJob

\* A dump is readable data.
LEMMA DumpFields ==
  ASSUME DirTyped, dir["factory.rom"].kind = "rom"
  PROVE  LET rom == dir["factory.rom"]
         IN  /\ rom.desc \in DescriptorRecord /\ rom.size \in Nat /\ GbeAtBase(rom) \in Gbe8k
             /\ rom.gbe \in Gbe8k /\ rom.origin \in Origin
<1>. DEFINE rom == dir["factory.rom"]
<1>1. rom \in ContentsOf("factory.rom")
  BY FileNames DEF DirTyped
<1>. HIDE DEF rom
<1>2. rom \in RomContent
  BY <1>1, Kinds, ContentsByFile DEF ContentsOf, rom
<1>3. /\ rom.desc \in DescriptorRecord /\ rom.size \in Nat /\ rom.gbe \in Gbe8k
      /\ rom.origin \in Origin
  BY <1>2 DEF RomContent
<1>4. GbeAtBase(rom) \in Gbe8k
  BY <1>3, ToolsAssumption, Zenon DEF GbeAtBase
<1>. QED BY <1>3, <1>4 DEF rom

\* The executable is linked from whole sources.
LEMMA GenContents ==
  ASSUME BuildTyped
  PROVE  /\ gen["mkdescriptor"] \in DescriptorSourceContent
         /\ gen["mkgbe"] \in GbeSourceContent
         /\ gen["mkgbe"].gbe \in Gbe4k
<1>1. /\ gen["mkdescriptor"] \in WholeContentsOf("mkdescriptor.c")
      /\ gen["mkgbe"] \in WholeContentsOf("mkgbe.c")
  BY DEF BuildTyped, Objects, CodeOf
<1>2. gen["mkdescriptor"] \in DescriptorSourceContent /\ gen["mkgbe"] \in GbeSourceContent
  BY <1>1, ContentsByFile
<1>. QED BY <1>2 DEF GbeSourceContent

-----------------------------------------------------------------------------
(* Every step keeps the types.                                                *)

\* The descriptor and the region that ich9deblob writes out.
DeblobIn == DeblobbedDescriptor(dir["factory.rom"].desc, dir["factory.rom"].size)
ReadGbe ==
  IF descriptorDefinesGbeRegion(dir["factory.rom"].desc) THEN GbeAtBase(dir["factory.rom"])
  ELSE SomeGbe
DeblobGbe ==
  IF descriptorDefinesGbeRegion(DeblobIn) THEN deblobbedGbeStructFromFactory(ReadGbe) ELSE ReadGbe

\* What a tool that starts has to write.
DeblobBegins ==
  /\ dir["factory.rom"].kind = "rom"
  /\ proc' = Begun("ich9deblob", DeblobJobs(DeblobIn, DeblobGbe, dir["factory.rom"].size),
                   descriptorDefinesGbeRegion(dir["factory.rom"].desc), << >>)
DemeBegins ==
  /\ dir["factory.rom"].kind = "rom"
  /\ proc' = Begun("demefactory",
                   DemeJobs(DemeDescriptor(dir["factory.rom"].desc), dir["factory.rom"].size),
                   FALSE, << >>)
GenBegins ==
  proc' = Begun("ich9gen", GenJobs(gen["mkdescriptor"], generatedGbeStruct8k(gen["mkgbe"].gbe)),
                TRUE, << >>)
MacGbe(arg) == WithMac(generatedGbeStruct8k(gen["mkgbe"].gbe), arg.mac)
GenMacBegins(arg) ==
  proc' = Begun("ich9gen",
                GbeSourceJobs(MacGbe(arg).backup) \o GenJobs(gen["mkdescriptor"], MacGbe(arg)),
                TRUE, << arg >>)

\* These are all the ways a start ends or begins.
LEMMA StartRun ==
  ASSUME Starts
  PROVE  /\ \/ proc' = Idle /\ status' \in {"error", "crash"}
            \/ /\ DeblobBegins \/ DemeBegins \/ GenBegins \/ \E arg \in MacArguments : GenMacBegins(arg)
               /\ status' = "running"
         /\ runs < MaxRuns /\ runs' = runs + 1
<1>1. CASE \E tool \in Tools : Refuses(tool) \/ FactoryRomUnreadable(tool)
  BY <1>1 DEF Refuses, FactoryRomUnreadable, CanStart, EndsAtOnce
<1>2. CASE Ich9deblob
  <2>. DEFINE hasGbe == descriptorDefinesGbeRegion(dir["factory.rom"].desc)
              readable == GbeReadable(dir["factory.rom"])
  <2>0. ~(hasGbe /\ ~readable) => (hasGbe /\ readable) = hasGbe
    <3>1. hasGbe \in BOOLEAN /\ readable \in BOOLEAN
      BY DEF descriptorDefinesGbeRegion, GbeReadable
    <3>. HIDE DEF hasGbe, readable
    <3>. QED BY <3>1
  <2>1. \/ EndsAtOnce("error")
        \/ DeblobBegins /\ status' = "running"
    BY <1>2, <2>0, Zenon DEF Ich9deblob, Begins, DeblobBegins, Begun, DeblobIn, DeblobGbe, ReadGbe
  <2>2. runs < MaxRuns /\ runs' = runs + 1
    BY <1>2, Zenon DEF Ich9deblob, CanStart
  <2>. QED BY <2>1, <2>2 DEF EndsAtOnce
<1>3. CASE Demefactory
  <2>1. DemeBegins /\ status' = "running"
    BY <1>3, Zenon DEF Demefactory, Begins, DemeBegins, Begun
  <2>2. runs < MaxRuns /\ runs' = runs + 1
    BY <1>3, Zenon DEF Demefactory, CanStart
  <2>. QED BY <2>1, <2>2
<1>4. CASE Ich9gen
  <2>1. GenBegins /\ status' = "running"
    BY <1>4, Zenon DEF Ich9gen, Begins, GenBegins, Begun
  <2>2. runs < MaxRuns /\ runs' = runs + 1
    BY <1>4, Zenon DEF Ich9gen, CanStart
  <2>. QED BY <2>1, <2>2
<1>5. ASSUME NEW arg \in MacArguments, Ich9genMac(arg)
      PROVE  /\ EndsAtOnce("error") \/ (GenMacBegins(arg) /\ status' = "running")
             /\ runs < MaxRuns /\ runs' = runs + 1
  BY <1>5, Zenon DEF Ich9genMac, CanStart, Begins, GenMacBegins, Begun, MacGbe
<1>6. CASE \E arg \in MacArguments : Ich9genMac(arg)
  BY <1>5, <1>6 DEF EndsAtOnce
<1>. QED BY <1>1, <1>2, <1>3, <1>4, <1>6, Zenon DEF Starts

\* It opens nothing yet.
LEMMA StartOpensNothing ==
  ASSUME Starts
  PROVE  ~proc'.opened
BY StartRun, NothingOpened, Zenon DEF DeblobBegins, DemeBegins, GenBegins, GenMacBegins

\* The regions that the tools make are regions.
LEMMA GbeTypes ==
  /\ \A g \in Gbe4k : g.mac \in Mac
  /\ \A g8 \in Gbe8k : g8.main \in Gbe4k /\ g8.backup \in Gbe4k
  /\ \A g \in Gbe4k, mac \in Mac : [g EXCEPT !.mac = mac] \in Gbe4k
                                   /\ [g EXCEPT !.mac = mac].mac = mac
  /\ \A g \in Gbe4k : [g EXCEPT !.padding = "ff"] \in Gbe4k
  /\ \A g \in Gbe4k : \A sum : [g EXCEPT !.checkSum = sum].mac = g.mac
  /\ \A g \in Gbe4k, h \in Gbe4k : [main |-> g, backup |-> h] \in Gbe8k
<1>. DEFINE W == Word
<1>. HIDE DEF W
<1>1. Gbe4k = [mac : Mac, words : W, checkSum : W, padding : {"ff", "other"}]
  BY Zenon DEF Gbe4k, W
<1>2. /\ \A g \in Gbe4k : g.mac \in Mac
      /\ \A g \in Gbe4k, mac \in Mac : [g EXCEPT !.mac = mac] \in Gbe4k
                                       /\ [g EXCEPT !.mac = mac].mac = mac
      /\ \A g \in Gbe4k : [g EXCEPT !.padding = "ff"] \in Gbe4k
      /\ \A g \in Gbe4k : \A sum : [g EXCEPT !.checkSum = sum].mac = g.mac
  BY <1>1
<1>3. /\ \A g8 \in Gbe8k : g8.main \in Gbe4k /\ g8.backup \in Gbe4k
      /\ \A g \in Gbe4k, h \in Gbe4k : [main |-> g, backup |-> h] \in Gbe8k
  BY DEF Gbe8k
<1>. QED BY <1>2, <1>3

\* Each tool makes a GbE region of a GbE region.
LEMMA RegionsTyped ==
  /\ \A g8 \in Gbe8k : deblobbedGbeStructFromFactory(g8) \in Gbe8k
  /\ \A g \in Gbe4k : generatedGbeStruct8k(g) \in Gbe8k
  /\ \A g8 \in Gbe8k, mac \in Mac : WithMac(g8, mac) \in Gbe8k /\ WithMac(g8, mac).main.mac = mac
                                   /\ WithMac(g8, mac).backup.mac = mac
<1>1. \A g \in Gbe4k : WithChecksum(g) \in Gbe4k
  BY ChecksumRestored, Zenon
<1>2. ASSUME NEW g8 \in Gbe8k
      PROVE  deblobbedGbeStructFromFactory(g8) \in Gbe8k
  BY <1>1, GbeTypes, Zenon DEF deblobbedGbeStructFromFactory
<1>3. \A g \in Gbe4k : generatedGbeStruct8k(g) \in Gbe8k
  BY GbeTypes, Zenon DEF generatedGbeStruct8k
<1>4. ASSUME NEW g8 \in Gbe8k, NEW mac \in Mac
      PROVE  /\ WithMac(g8, mac) \in Gbe8k /\ WithMac(g8, mac).main.mac = mac
             /\ WithMac(g8, mac).backup.mac = mac
  <2>. DEFINE h == [g8.main EXCEPT !.mac = mac]
              main == WithChecksum(h)
  <2>1. h \in Gbe4k /\ h.mac = mac
    BY GbeTypes, Zenon
  <2>. HIDE DEF h
  <2>2. main \in Gbe4k
    BY <1>1, <2>1, Zenon
  <2>3. main.mac = mac
    BY <2>1, GbeTypes, Zenon DEF WithChecksum
  <2>4. WithMac(g8, mac) = [main |-> main, backup |-> main]
    BY Zenon DEF WithMac, h
  <2>. HIDE DEF main
  <2>5. WithMac(g8, mac) \in Gbe8k
    BY <2>2, <2>4, GbeTypes, Zenon
  <2>6. WithMac(g8, mac).main = main /\ WithMac(g8, mac).backup = main
    BY <2>4
  <2>. QED BY <2>3, <2>5, <2>6, Zenon
<1>. QED BY <1>2, <1>3, <1>4, Zenon

\* ich9deblob writes out a descriptor and a region.
LEMMA DeblobInTyped ==
  ASSUME DirTyped, dir["factory.rom"].kind = "rom"
  PROVE  DeblobIn \in DescriptorRecord /\ DeblobGbe \in Gbe8k /\ dir["factory.rom"].size \in Nat
<1>1. /\ dir["factory.rom"].desc \in DescriptorRecord /\ dir["factory.rom"].size \in Nat
      /\ GbeAtBase(dir["factory.rom"]) \in Gbe8k
  BY DumpFields, Zenon
<1>2. DeblobIn \in DescriptorRecord
  BY <1>1, DeblobbedLaidOut, Zenon DEF DeblobIn, Template
<1>3. ReadGbe \in Gbe8k
  BY <1>1, ToolsAssumption, Zenon DEF ReadGbe
<1>4. DeblobGbe \in Gbe8k
  BY <1>3, RegionsTyped, Zenon DEF DeblobGbe
<1>. QED BY <1>1, <1>2, <1>4

\* ich9gen --macaddress makes a region with that address.
LEMMA MacGbeTyped ==
  ASSUME BuildTyped, NEW arg \in MacArguments
  PROVE  /\ MacGbe(arg) \in Gbe8k /\ MacGbe(arg).backup \in Gbe4k
         /\ MacGbe(arg).main.mac = arg.mac /\ MacGbe(arg).backup.mac = arg.mac
<1>1. arg.mac \in Mac
  BY ToolsAssumption DEF MacArgument
<1>. QED BY <1>1, GenContents, RegionsTyped, GbeTypes, Zenon DEF MacGbe

\* What the run is after a tool has begun.
LEMMA StartJobs ==
  ASSUME DirTyped, BuildTyped
  PROVE  /\ DeblobBegins =>
              /\ DeblobJobs(DeblobIn, DeblobGbe, dir["factory.rom"].size) \in Seq(JobSet)
              /\ descriptorDefinesGbeRegion(dir["factory.rom"].desc) \in BOOLEAN
         /\ DemeBegins =>
              DemeJobs(DemeDescriptor(dir["factory.rom"].desc), dir["factory.rom"].size) \in Seq(JobSet)
         /\ GenJobs(gen["mkdescriptor"], generatedGbeStruct8k(gen["mkgbe"].gbe)) \in Seq(JobSet)
         /\ \A arg \in MacArguments :
              GbeSourceJobs(MacGbe(arg).backup) \o GenJobs(gen["mkdescriptor"], MacGbe(arg))
                \in Seq(JobSet)
<1>1. ASSUME DeblobBegins
      PROVE  /\ DeblobJobs(DeblobIn, DeblobGbe, dir["factory.rom"].size) \in Seq(JobSet)
             /\ descriptorDefinesGbeRegion(dir["factory.rom"].desc) \in BOOLEAN
  <2>1. descriptorDefinesGbeRegion(dir["factory.rom"].desc) \in BOOLEAN
    BY DEF descriptorDefinesGbeRegion
  <2>2. dir["factory.rom"].kind = "rom"
    BY <1>1, Zenon DEF DeblobBegins
  <2>. QED BY <2>1, <2>2, DeblobInTyped, DeblobTyped, Zenon
<1>2. ASSUME DemeBegins
      PROVE  DemeJobs(DemeDescriptor(dir["factory.rom"].desc), dir["factory.rom"].size) \in Seq(JobSet)
  <2>1. dir["factory.rom"].kind = "rom"
    BY <1>2, Zenon DEF DemeBegins
  <2>. QED BY <2>1, DumpFields, DemeType, DemeTyped, Zenon
<1>3. GenJobs(gen["mkdescriptor"], generatedGbeStruct8k(gen["mkgbe"].gbe)) \in Seq(JobSet)
  BY GenContents, RegionsTyped, GenTyped, Zenon
<1>4. ASSUME NEW arg \in MacArguments
      PROVE  GbeSourceJobs(MacGbe(arg).backup) \o GenJobs(gen["mkdescriptor"], MacGbe(arg))
               \in Seq(JobSet)
  BY GenContents, MacGbeTyped, GbeSourceSound, GenTyped, TuplesOf, Zenon
<1>. QED BY <1>1, <1>2, <1>3, <1>4, Zenon

\* What the run is afterwards.
LEMMA JobsAfterStart ==
  ASSUME DirTyped, BuildTyped, Starts
  PROVE  /\ proc' \in ProcSet
         /\ \/ proc'.jobs = << >> /\ proc'.mac = << >> /\ proc'.tool = "none"
            \/ /\ DeblobBegins
               /\ proc'.jobs = DeblobJobs(DeblobIn, DeblobGbe, dir["factory.rom"].size)
               /\ proc'.tool = "ich9deblob" /\ proc'.mac = << >>
               /\ proc'.gbeRead = descriptorDefinesGbeRegion(dir["factory.rom"].desc)
            \/ /\ DemeBegins
               /\ proc'.jobs = DemeJobs(DemeDescriptor(dir["factory.rom"].desc), dir["factory.rom"].size)
               /\ proc'.tool = "demefactory" /\ proc'.mac = << >>
            \/ /\ proc'.jobs = GenJobs(gen["mkdescriptor"], generatedGbeStruct8k(gen["mkgbe"].gbe))
               /\ proc'.tool = "ich9gen" /\ proc'.mac = << >>
            \/ \E arg \in MacArguments :
                 /\ proc'.jobs =
                      GbeSourceJobs(MacGbe(arg).backup) \o GenJobs(gen["mkdescriptor"], MacGbe(arg))
                 /\ proc'.tool = "ich9gen" /\ proc'.mac = << arg >>
<1>1. /\ << >> \in MacSet /\ \A arg \in MacArguments : << arg >> \in MacSet
      /\ "ich9deblob" \in Tools /\ "demefactory" \in Tools /\ "ich9gen" \in Tools
  BY DEF MacSet, Tools
<1>2. ASSUME NEW tool \in Tools, NEW jobs \in Seq(JobSet), NEW gbeRead \in BOOLEAN, NEW mac \in MacSet,
             proc' = Begun(tool, jobs, gbeRead, mac)
      PROVE  /\ proc' \in ProcSet
             /\ proc'.tool = tool /\ proc'.jobs = jobs /\ proc'.gbeRead = gbeRead /\ proc'.mac = mac
  BY <1>2, BegunFields
<1>3. CASE DeblobBegins
  <2>. DEFINE jobs == DeblobJobs(DeblobIn, DeblobGbe, dir["factory.rom"].size)
              read == descriptorDefinesGbeRegion(dir["factory.rom"].desc)
  <2>1. jobs \in Seq(JobSet) /\ read \in BOOLEAN
    BY <1>3, StartJobs, Zenon
  <2>2. proc' = Begun("ich9deblob", jobs, read, << >>)
    BY <1>3, Zenon DEF DeblobBegins
  <2>. HIDE DEF jobs, read
  <2>3. /\ proc' \in ProcSet
        /\ proc'.tool = "ich9deblob" /\ proc'.jobs = jobs /\ proc'.gbeRead = read /\ proc'.mac = << >>
    BY <1>1, <1>2, <2>1, <2>2
  <2>. QED BY <1>3, <2>3, Zenon DEF jobs, read
<1>4. CASE DemeBegins
  <2>. DEFINE jobs == DemeJobs(DemeDescriptor(dir["factory.rom"].desc), dir["factory.rom"].size)
  <2>1. jobs \in Seq(JobSet)
    BY <1>4, StartJobs, Zenon
  <2>2. proc' = Begun("demefactory", jobs, FALSE, << >>)
    BY <1>4, Zenon DEF DemeBegins
  <2>. HIDE DEF jobs
  <2>3. /\ proc' \in ProcSet
        /\ proc'.tool = "demefactory" /\ proc'.jobs = jobs /\ proc'.mac = << >>
    BY <1>1, <1>2, <2>1, <2>2
  <2>. QED BY <1>4, <2>3, Zenon DEF jobs
<1>5. CASE GenBegins
  <2>. DEFINE jobs == GenJobs(gen["mkdescriptor"], generatedGbeStruct8k(gen["mkgbe"].gbe))
  <2>1. jobs \in Seq(JobSet)
    BY StartJobs, Zenon
  <2>2. proc' = Begun("ich9gen", jobs, TRUE, << >>)
    BY <1>5, Zenon DEF GenBegins
  <2>. HIDE DEF jobs
  <2>3. /\ proc' \in ProcSet
        /\ proc'.tool = "ich9gen" /\ proc'.jobs = jobs /\ proc'.mac = << >>
    BY <1>1, <1>2, <2>1, <2>2
  <2>. QED BY <2>3, Zenon DEF jobs
<1>6. ASSUME NEW arg \in MacArguments, GenMacBegins(arg)
      PROVE  /\ proc' \in ProcSet
             /\ proc'.jobs =
                  GbeSourceJobs(MacGbe(arg).backup) \o GenJobs(gen["mkdescriptor"], MacGbe(arg))
             /\ proc'.tool = "ich9gen" /\ proc'.mac = << arg >>
  <2>. DEFINE jobs == GbeSourceJobs(MacGbe(arg).backup) \o GenJobs(gen["mkdescriptor"], MacGbe(arg))
  <2>1. jobs \in Seq(JobSet)
    BY StartJobs, Zenon
  <2>2. proc' = Begun("ich9gen", jobs, TRUE, << arg >>)
    BY <1>6, Zenon DEF GenMacBegins
  <2>. HIDE DEF jobs
  <2>3. /\ proc' \in ProcSet
        /\ proc'.tool = "ich9gen" /\ proc'.jobs = jobs /\ proc'.mac = << arg >>
    BY <1>1, <1>2, <2>1, <2>2
  <2>. QED BY <2>3, Zenon DEF jobs
<1>7. CASE proc' = Idle
  BY <1>7, IdleFields, Zenon
<1>. QED BY <1>3, <1>4, <1>5, <1>6, <1>7, StartRun, Zenon

\* The run keeps its type.
LEMMA RunStaysTyped ==
  ASSUME DirTyped, BuildTyped, RunTyped, [Next]_vars
  PROVE  RunTyped'
<1>1. CASE Starts
  <2>1. proc' \in ProcSet
    BY <1>1, JobsAfterStart, Zenon
  <2>2. host' = host
    BY <1>1, StartFrame
  <2>3. runs' \in 0 .. MaxRuns
    BY <1>1, StartRun, ToolsAssumption DEF RunTyped
  <2>4. status' \in {"none", "running", "ok", "error", "crash"}
    BY <1>1, StartRun
  <2>5. spoiled' \subseteq Files
    BY <1>1, StartFrame
  <2>. QED BY <2>1, <2>2, <2>3, <2>4, <2>5 DEF RunTyped
<1>2. CASE Writes
  <2>1. proc' \in ProcSet
    BY <1>2, WriteFrame, WriteRun, IdleFields, RunFields, Zenon DEF RunTyped, Writing
  <2>2. host' = host /\ runs' = runs
    BY <1>2, WriteFrame
  <2>3. status' \in {"none", "running", "ok", "error", "crash"}
    BY <1>2, WriteRun DEF RunTyped
  <2>4. spoiled' \subseteq Files
    <3>1. TheJob.file \in Files
      BY <1>2, WriteFrame, TheJobIsAJob, JobSetFields, Zenon
    <3>. QED BY <1>2, <3>1, WriteRun DEF RunTyped
  <2>. QED BY <2>1, <2>2, <2>3, <2>4 DEF RunTyped
<1>3. CASE Places \/ Builds \/ UNCHANGED vars
  <2>1. UNCHANGED <<host, proc, status, runs>> /\ spoiled' \in {spoiled, {}}
    BY <1>3, PlaceFrame, BuildFrame DEF vars
  <2>. QED BY <2>1 DEF RunTyped
<1>. QED BY <1>1, <1>2, <1>3, StepKinds, Zenon

\* A libreboot ROM made of an image is a dump.
LEMMA MadeRom ==
  ASSUME DirTyped, NEW file \in ImageFiles, dir[file].kind \in {"image12k", "image4k"}
  PROVE  LET g8 == IF dir[file].kind = "image12k" THEN dir[file].gbe ELSE SomeGbe
             rom == Rom(dir[file].romSize, dir[file].desc, Blocks(DESCRIPTORREGIONSIZE), g8,
                        dir[file].origin)
         IN  /\ rom \in RomContent /\ rom.kind = "rom" /\ rom.desc = dir[file].desc
             /\ rom.size = dir[file].romSize /\ rom.gbeAt = 1 /\ rom.gbe = g8
             /\ rom.origin = dir[file].origin
<1>. DEFINE c == dir[file]
            g8 == IF c.kind = "image12k" THEN c.gbe ELSE SomeGbe
            rom == Rom(c.romSize, c.desc, Blocks(DESCRIPTORREGIONSIZE), g8, c.origin)
<1>1. c \in ContentsOf(file)
  BY FileNames DEF DirTyped
<1>2. WholeContentsOf(file) = Image12kContent \/ WholeContentsOf(file) = Image4kContent
  BY ContentsByName DEF ImageFiles
<1>. HIDE DEF c
<1>3. c.kind \in {"image12k", "image4k"}
  BY DEF c
<1>4. c \in Image12kContent \/ c \in Image4kContent
  BY <1>1, <1>2, <1>3, Kinds DEF ContentsOf
<1>5. /\ c.desc \in DescriptorRecord /\ c.origin \in Origin /\ c.romSize \in Nat
      /\ c.kind = "image12k" => c.gbe \in Gbe8k
  BY <1>4 DEF Image12kContent, Image4kContent
<1>6. g8 \in Gbe8k
  BY <1>5, ToolsAssumption, Zenon
<1>. HIDE DEF g8
<1>7. Blocks(DESCRIPTORREGIONSIZE) = 1
  BY DEF Blocks, DESCRIPTORREGIONSIZE
<1>8. 1 \in 0 .. 8191
  OBVIOUS
<1>9. /\ rom.kind = "rom" /\ rom.desc = c.desc /\ rom.size = c.romSize /\ rom.gbeAt = 1
      /\ rom.gbe = g8 /\ rom.origin = c.origin
  BY <1>7 DEF Rom
<1>10. rom \in RomContent
  BY <1>5, <1>6, <1>7, <1>8 DEF Rom, RomContent
<1>. QED BY <1>9, <1>10, Zenon DEF c, g8

\* The directory keeps its type.
LEMMA DirStaysTyped ==
  ASSUME DirTyped, RunTyped, [Next]_vars
  PROVE  DirTyped'
<1>1. ASSUME NEW f \in Files, NEW c \in ContentsOf(f), dir' = [dir EXCEPT ![f] = c]
      PROVE  DirTyped'
  BY <1>1 DEF DirTyped
<1>2. CASE Writes
  <2>1. TheJob \in JobSet
    BY <1>2, WriteFrame, TheJobIsAJob, Zenon
  <2>2. TheJob.file \in Files /\ TheJob.content \in WholeContentsOf(TheJob.file)
    BY <2>1, JobSetFields, Zenon
  <2>3. \A c \in {Absent, Partial, TheJob.content, OldFile} : c \in ContentsOf(TheJob.file)
    BY <2>2 DEF ContentsOf, OldFile, DirTyped
  <2>4. CASE dir' = dir
    BY <2>4 DEF DirTyped
  <2>. QED BY <1>1, <1>2, <2>2, <2>3, <2>4, WriteDir, Zenon DEF Leaves
<1>3. ASSUME NEW rom \in FactoryRoms, PlaceFactoryRom(rom)
      PROVE  DirTyped'
  <2>1. rom \in ContentsOf("factory.rom")
    BY ToolsAssumption
  <2>. QED BY <1>1, <1>3, <2>1, FileNames, Zenon DEF PlaceFactoryRom
<1>4. ASSUME NEW file \in ImageFiles, PlaceLibrebootRom(file)
      PROVE  DirTyped'
  <2>. DEFINE g8 == IF dir[file].kind = "image12k" THEN dir[file].gbe ELSE SomeGbe
              rom == Rom(dir[file].romSize, dir[file].desc, Blocks(DESCRIPTORREGIONSIZE), g8,
                         dir[file].origin)
  <2>1. dir[file].kind \in {"image12k", "image4k"} /\ dir' = [dir EXCEPT !["factory.rom"] = rom]
    BY <1>4, Zenon DEF PlaceLibrebootRom
  <2>2. rom \in RomContent
    BY <2>1, MadeRom, Zenon
  <2>. HIDE DEF rom
  <2>3. rom \in ContentsOf("factory.rom")
    BY <2>2, ContentsByFile DEF ContentsOf
  <2>. QED BY <1>1, <2>1, <2>3, FileNames, Zenon
<1>5. CASE Starts \/ Builds \/ UNCHANGED vars
  <2>1. dir' = dir
    BY <1>5, StartFrame, BuildFrame DEF vars
  <2>. QED BY <2>1 DEF DirTyped
<1>. QED BY <1>2, <1>3, <1>4, <1>5, StepKinds, Zenon DEF Places

\* What make leaves: objects that were there, or new ones of whole sources; a new
\* executable of exactly these objects, or the old one.
LEMMA MakeEffects ==
  ASSUME NEW o, NEW executables, DOMAIN o = Objects, Make(o, executables)
  PROVE  /\ DOMAIN obj' = Objects /\ obj' = [n \in Objects |-> obj'[n]]
         /\ \A n \in Objects :
              \/ obj'[n] = o[n]
              \/ obj'[n] = Absent
              \/ obj'[n] = src[CodeOf[n]] /\ src[CodeOf[n]] # Partial
         /\ \/ gen' = gen /\ built' = executables \cup {"ich9deblob"}
            \/ gen' = gen /\ built' = Tools /\ obj' = o /\ "ich9gen" \in executables
                 /\ \A n \in Objects : obj'[n] # Absent
            \/ gen' = obj' /\ built' = Tools /\ \A n \in Objects : obj'[n] # Absent
<1>1. obj' = Compile(o)
  BY DEF Make
<1>2. ASSUME NEW n \in Objects
      PROVE  \/ ObjectOf(n, o) = o[n]
             \/ ObjectOf(n, o) = Absent
             \/ ObjectOf(n, o) = src[CodeOf[n]] /\ src[CodeOf[n]] # Partial
  BY DEF ObjectOf
<1>3. \A n \in Objects : Compile(o)[n] = o[n] \/ Compile(o)[n] = ObjectOf(n, o)
  BY Zenon DEF Compile
<1>4. DOMAIN Compile(o) = Objects /\ Compile(o) = [n \in Objects |-> Compile(o)[n]]
  BY DEF Compile
<1>5. \/ gen' = gen /\ built' = executables \cup {"ich9deblob"}
      \/ gen' = gen /\ built' = Tools /\ obj' = o /\ "ich9gen" \in executables
           /\ \A n \in Objects : obj'[n] # Absent
      \/ gen' = obj' /\ built' = Tools /\ \A n \in Objects : obj'[n] # Absent
  BY <1>1, Zenon DEF Make
<1>6. \A n \in Objects :
        \/ obj'[n] = o[n]
        \/ obj'[n] = Absent
        \/ obj'[n] = src[CodeOf[n]] /\ src[CodeOf[n]] # Partial
  BY <1>1, <1>2, <1>3, Zenon
<1>. QED BY <1>1, <1>4, <1>5, <1>6, Zenon

\* make clean removes all of them.
NoObjects == [n \in Objects |-> Absent]

\* Both ways of calling make.
LEMMA MakeSteps ==
  ASSUME PlainMake \/ BuildModule
  PROVE  /\ UNCHANGED <<host, dir, src, proc, status, runs>>
         /\ \/ Make(obj, built) /\ rebuilt' = rebuilt
            \/ Make(NoObjects, {}) /\ rebuilt' = TRUE
BY Zenon DEF PlainMake, BuildModule, NoObjects

\* Sources and objects belong together.
LEMMA CodeNames ==
  /\ \A n \in Objects : CodeOf[n] \in SourceFiles /\ HeaderOf[n] \in SourceFiles
  /\ \A f \in SourceFiles : f \in Files
  /\ "ich9deblob" \in Tools
BY DEF Objects, CodeOf, HeaderOf, SourceFiles, CodeFiles, HeaderFiles, Files, Tools

\* Placing sources takes over files that are there.
LEMMA PlacedSources ==
  ASSUME BuildTyped, DirTyped, NEW name \in Objects, PlaceSources(name)
  PROVE  /\ DOMAIN src' = SourceFiles
         /\ \A f \in SourceFiles : src'[f] = src[f] \/ (src'[f] = dir[f] /\ dir[f] # Absent)
         /\ rebuilt' = FALSE /\ UNCHANGED <<obj, built, gen>>
<1>. DEFINE h == HeaderOf[name]
            c == CodeOf[name]
<1>1. h \in SourceFiles /\ c \in SourceFiles
  BY CodeNames
<1>2. /\ src' = [src EXCEPT ![h] = dir[h], ![c] = dir[c]]
      /\ dir[h] # Absent /\ dir[c] # Absent
      /\ rebuilt' = FALSE /\ UNCHANGED <<obj, built, gen>>
  BY Zenon DEF PlaceSources
<1>. HIDE DEF h, c
<1>. QED BY <1>1, <1>2 DEF BuildTyped

\* Sources, objects and executable keep their types.
LEMMA BuildStaysTyped ==
  ASSUME BuildTyped, DirTyped, [Next]_vars
  PROVE  BuildTyped'
<1>1. ASSUME NEW name \in Objects, PlaceSources(name)
      PROVE  BuildTyped'
  <2>1. /\ DOMAIN src' = SourceFiles
        /\ \A f \in SourceFiles : src'[f] = src[f] \/ (src'[f] = dir[f] /\ dir[f] # Absent)
        /\ rebuilt' = FALSE /\ UNCHANGED <<obj, built, gen>>
    BY <1>1, PlacedSources, Zenon
  <2>2. \A f \in SourceFiles : src'[f] \in ContentsOf(f) \ {Absent}
    BY <2>1, CodeNames DEF BuildTyped, DirTyped
  <2>. QED BY <2>1, <2>2 DEF BuildTyped
<1>2. ASSUME NEW o, NEW executables, Make(o, executables), DOMAIN o = Objects,
             \A n \in Objects : o[n] \in WholeContentsOf(CodeOf[n]) \cup {Absent},
             executables \subseteq Tools, src' = src, rebuilt' \in BOOLEAN
      PROVE  BuildTyped'
  <2>1. \A n \in Objects : src[CodeOf[n]] \in ContentsOf(CodeOf[n]) \ {Absent}
    BY CodeNames DEF BuildTyped
  <2>2. \A n \in Objects : src[CodeOf[n]] # Partial => src[CodeOf[n]] \in WholeContentsOf(CodeOf[n])
    BY <2>1 DEF ContentsOf
  <2>3. \A n \in Objects : obj'[n] \in WholeContentsOf(CodeOf[n]) \cup {Absent}
    BY <1>2, <2>2, MakeEffects
  <2>4. DOMAIN obj' = Objects
    BY <1>2, MakeEffects
  <2>5. DOMAIN gen' = Objects /\ \A n \in Objects : gen'[n] \in WholeContentsOf(CodeOf[n])
    BY <1>2, <2>3, <2>4, MakeEffects DEF BuildTyped
  <2>6. built' \subseteq Tools
    BY <1>2, CodeNames, MakeEffects
  <2>. QED BY <1>2, <2>3, <2>4, <2>5, <2>6 DEF BuildTyped
<1>3. CASE PlainMake \/ BuildModule
  <2>1. src' = src
    BY <1>3, MakeSteps
  <2>2. CASE Make(obj, built) /\ rebuilt' = rebuilt
    BY <1>2, <2>1, <2>2 DEF BuildTyped
  <2>3. CASE Make(NoObjects, {}) /\ rebuilt' = TRUE
    <3>1. DOMAIN NoObjects = Objects /\ \A n \in Objects : NoObjects[n] = Absent
      BY DEF NoObjects
    <3>. QED BY <1>2, <2>1, <2>3, <3>1
  <2>. QED BY <1>3, <2>2, <2>3, MakeSteps
<1>4. CASE Starts \/ Writes \/ Places \/ UNCHANGED vars
  <2>1. UNCHANGED <<src, obj, built, gen, rebuilt>>
    BY <1>4, StartFrame, WriteFrame, PlaceFrame DEF vars
  <2>. QED BY <2>1 DEF BuildTyped
<1>. QED BY <1>1, <1>3, <1>4, StepKinds, Zenon DEF Builds

\* A fresh checkout.
LEMMA DefaultSources ==
  /\ DefaultDescriptorSource \in DescriptorSourceContent
  /\ DefaultDescriptorSource.kind = "mkdescriptor.c"
  /\ DefaultDescriptorSource.desc = DefaultSource.desc
  /\ DefaultDescriptorSource.origin = "repository"
  /\ GbeSource(DefaultSource.gbe) \in GbeSourceContent
  /\ GbeSource(DefaultSource.gbe).kind = "mkgbe.c"
  /\ GbeSource(DefaultSource.gbe).gbe = DefaultSource.gbe
<1>1. DefaultSource.desc \in DescriptorRecord /\ DefaultSource.gbe \in Gbe4k
  BY ToolsAssumption
<1>2. /\ DefaultDescriptorSource \in DescriptorSourceContent
  BY <1>1, DescriptorSourceFields, Origins, GenSizes, Zenon DEF DefaultDescriptorSource
<1>3. /\ DefaultDescriptorSource.kind = "mkdescriptor.c"
      /\ DefaultDescriptorSource.desc = DefaultSource.desc
      /\ DefaultDescriptorSource.origin = "repository"
  BY DescriptorSourceFields DEF DefaultDescriptorSource
<1>4. GbeSource(DefaultSource.gbe) \in GbeSourceContent
  BY <1>1, GbeSourceFields, Zenon
<1>5. /\ GbeSource(DefaultSource.gbe).kind = "mkgbe.c"
      /\ GbeSource(DefaultSource.gbe).gbe = DefaultSource.gbe
  BY GbeSourceFields
<1>. QED BY <1>2, <1>3, <1>4, <1>5

\* What is there at first.
LEMMA InitFiles ==
  ASSUME Init
  PROVE  /\ \A f \in Files : dir[f] = Absent
         /\ src["mkdescriptor.c"] = DefaultDescriptorSource
         /\ src["mkgbe.c"] = GbeSource(DefaultSource.gbe)
         /\ \A f \in HeaderFiles : src[f] = Header
         /\ \A n \in Objects : obj[n] = src[CodeOf[n]] /\ gen[n] = src[CodeOf[n]]
         /\ DOMAIN dir = Files /\ DOMAIN src = SourceFiles /\ DOMAIN obj = Objects
         /\ DOMAIN gen = Objects /\ gen = [n \in Objects |-> src[CodeOf[n]]]
BY DEF Init, SourceFiles, HeaderFiles, CodeFiles, Objects

\* The types hold at first.
LEMMA InitTyped == Init => Typed
<1>. SUFFICES ASSUME Init PROVE Typed
  OBVIOUS
<1>1. DirTyped
  BY InitFiles DEF DirTyped, ContentsOf
<1>2. /\ \A n \in Objects : src[CodeOf[n]] \in WholeContentsOf(CodeOf[n])
      /\ \A f \in SourceFiles : src[f] \in WholeContentsOf(f)
  BY InitFiles, DefaultSources, ContentsByFile DEF SourceFiles, HeaderFiles, CodeFiles, Objects, CodeOf
<1>3. \A f \in SourceFiles : src[f].kind \in {"mkdescriptor.c", "mkgbe.c", "header"}
  BY InitFiles, DefaultSources, Kinds, Zenon DEF SourceFiles, HeaderFiles, CodeFiles
<1>4. \A f \in SourceFiles : src[f] \in ContentsOf(f) \ {Absent}
  BY <1>2, <1>3, Kinds DEF ContentsOf
<1>5. built = Tools /\ rebuilt = TRUE
  BY DEF Init
<1>6. BuildTyped
  BY <1>2, <1>4, <1>5, InitFiles DEF BuildTyped
<1>7. host \in Hosts /\ proc = Idle /\ status = "none" /\ runs = 0 /\ spoiled = {}
  BY DEF Init
<1>8. RunTyped
  BY <1>7, IdleFields, ToolsAssumption DEF RunTyped
<1>. QED BY <1>1, <1>6, <1>8 DEF Typed

\* The types hold after every step.
LEMMA StepTyped == Typed /\ [Next]_vars => Typed'
BY DirStaysTyped, BuildStaysTyped, RunStaysTyped, Zenon DEF Typed

\* They are those of the checked invariant.
LEMMA TypedIsTypeOK == Typed => TypeOK
<1>. SUFFICES ASSUME Typed PROVE TypeOK
  OBVIOUS
<1>1. \A j \in JobSet : JobOK(j)
  BY DEF JobSet, JobOK
<1>2. \A i \in 1 .. Len(proc.jobs) : proc.jobs[i] \in JobSet
  BY ProcFields DEF Typed, RunTyped
<1>3. \A i \in 1 .. Len(proc.jobs) : JobOK(proc.jobs[i])
  BY <1>1, <1>2
<1>4. /\ DOMAIN proc = {"tool", "jobs", "opened", "gbeRead", "mac"}
      /\ proc.tool \in Tools \cup {"none"} /\ proc.opened \in BOOLEAN
      /\ proc.gbeRead \in BOOLEAN /\ proc.mac \in {<< >>} \cup {<< arg >> : arg \in MacArguments}
  BY ProcFields, Zenon DEF Typed, RunTyped, MacSet
<1>. QED BY <1>3, <1>4, Zenon DEF TypeOK, Typed, DirTyped, BuildTyped, RunTyped

\* They hold always; nothing is assumed but the types of the constants.
LEMMA AlwaysTyped == Spec => []Typed
<1>1. Init => Typed
  BY InitTyped
<1>2. Typed /\ [Next]_vars => Typed'
  BY StepTyped
<1>. QED BY <1>1, <1>2, PTL DEF Spec

\* TypeOK: a file only ever holds what its writer prints there, whatever the dumps,
\* the arguments and the failures, and every word, bound and strap fits its field.
THEOREM TypeCorrect == Spec => []TypeOK
BY AlwaysTyped, TypedIsTypeOK, PTL

-----------------------------------------------------------------------------
(* Every step keeps the contents sound.                                       *)

\* What is asked of a content is what is asked of its kind.
LEMMA SoundByKind ==
  /\ \A c : c.kind = "rom" => (Sound(c) <=> SoundRom(c))
  /\ \A c : c.kind \in {"image12k", "image4k"} => (Sound(c) <=> SoundImage(c))
  /\ \A c : c.kind = "mkdescriptor.c" => (Sound(c) <=> SoundSource(c))
  /\ \A c : c.kind = "mkgbe.c" => (Sound(c) <=> Kept(c.gbe))
BY DEF Sound

\* Both copies of a kept region are kept.
LEMMA KeptBackup == \A g8 : KeptGbe(g8) => Kept(g8.backup) /\ g8.backup \in Gbe4k
BY DEF KeptGbe, Kept

\* A ROM in the directory is sound.
LEMMA DumpSound ==
  ASSUME DirSound, dir["factory.rom"].kind = "rom"
  PROVE  SoundRom(dir["factory.rom"])
BY FileNames, SoundByKind, Zenon DEF DirSound

\* The executable is linked from sound sources.
LEMMA GenContentsSound ==
  ASSUME BuildTyped, BuildSound
  PROVE  /\ Sound(gen["mkdescriptor"])
         /\ Kept(gen["mkgbe"].gbe)
<1>1. "mkdescriptor" \in Objects /\ "mkgbe" \in Objects
  BY DEF Objects
<1>2. gen["mkgbe"].kind = "mkgbe.c"
  BY GenContents, Kinds
<1>. QED BY <1>1, <1>2, SoundByKind, Zenon DEF BuildSound

\* A tool that begins has sound contents to write.
LEMMA StartJobsSound ==
  ASSUME Typed, Contents
  PROVE  /\ DeblobBegins =>
              DeblobJobs(DeblobIn, DeblobGbe, dir["factory.rom"].size) \in Seq(SoundJobs)
         /\ DemeBegins =>
              DemeJobs(DemeDescriptor(dir["factory.rom"].desc), dir["factory.rom"].size) \in Seq(SoundJobs)
         /\ GenJobs(gen["mkdescriptor"], generatedGbeStruct8k(gen["mkgbe"].gbe)) \in Seq(SoundJobs)
         /\ \A arg \in MacArguments :
              GbeSourceJobs(MacGbe(arg).backup) \o GenJobs(gen["mkdescriptor"], MacGbe(arg))
                \in Seq(SoundJobs)
<1>1. DirTyped /\ BuildTyped /\ DirSound /\ BuildSound
  BY Zenon DEF Typed, Contents
<1>2. ASSUME dir["factory.rom"].kind = "rom"
      PROVE  /\ dir["factory.rom"].desc \in DescriptorRecord
             /\ dir["factory.rom"].size \in RomSizes /\ dir["factory.rom"].size \in Nat
             /\ FirstBlock(dir["factory.rom"].desc)
  BY <1>1, <1>2, DumpSound, DumpFields, Zenon DEF SoundRom
<1>3. ASSUME DeblobBegins
      PROVE  DeblobJobs(DeblobIn, DeblobGbe, dir["factory.rom"].size) \in Seq(SoundJobs)
  <2>1. dir["factory.rom"].kind = "rom"
    BY <1>3, Zenon DEF DeblobBegins
  <2>2. /\ Template(DeblobIn) /\ LaidOut(DeblobIn, dir["factory.rom"].size)
        /\ DeblobIn.region["fd"] = dir["factory.rom"].desc.region["fd"]
    BY <1>2, <2>1, DeblobbedLaidOut, Zenon DEF DeblobIn
  <2>3. FirstBlock(DeblobIn)
    BY <1>2, <2>1, <2>2, Zenon DEF FirstBlock
  <2>4. GbeAtBase(dir["factory.rom"]) \in Gbe8k
    BY <1>1, <2>1, DumpFields, Zenon
  <2>5. ReadGbe \in Gbe8k
    BY <2>4, ToolsAssumption, Zenon DEF ReadGbe
  <2>6. descriptorDefinesGbeRegion(DeblobIn) => KeptGbe(DeblobGbe)
    BY <2>5, RegionsKept, Zenon DEF DeblobGbe
  <2>7. DeblobGbe \in Gbe8k
    BY <1>1, <2>1, DeblobInTyped, Zenon
  <2>. QED BY <1>2, <2>1, <2>2, <2>3, <2>6, <2>7, DeblobSound, Zenon
<1>4. ASSUME DemeBegins
      PROVE  DemeJobs(DemeDescriptor(dir["factory.rom"].desc), dir["factory.rom"].size) \in Seq(SoundJobs)
  <2>1. dir["factory.rom"].kind = "rom"
    BY <1>4, Zenon DEF DemeBegins
  <2>2. /\ DemeDescriptor(dir["factory.rom"].desc) \in DescriptorRecord
        /\ DemeDescriptor(dir["factory.rom"].desc).region = dir["factory.rom"].desc.region
    BY <1>2, <2>1, DemeType, Zenon
  <2>3. FirstBlock(DemeDescriptor(dir["factory.rom"].desc))
    BY <1>2, <2>1, <2>2, Zenon DEF FirstBlock
  <2>. QED BY <1>2, <2>1, <2>2, <2>3, DemeSound, Zenon
<1>5. /\ gen["mkdescriptor"] \in DescriptorSourceContent /\ Sound(gen["mkdescriptor"])
      /\ KeptGbe(generatedGbeStruct8k(gen["mkgbe"].gbe))
  BY <1>1, GenContents, GenContentsSound, RegionsKept, Zenon
<1>6. ASSUME NEW arg \in MacArguments
      PROVE  GbeSourceJobs(MacGbe(arg).backup) \o GenJobs(gen["mkdescriptor"], MacGbe(arg))
               \in Seq(SoundJobs)
  <2>1. arg.mac \in Mac
    BY ToolsAssumption DEF MacArgument
  <2>2. KeptGbe(MacGbe(arg))
    BY <1>5, <2>1, RegionsKept, Zenon DEF MacGbe
  <2>. QED BY <1>5, <2>2, KeptBackup, GbeSourceSound, GenSound, TuplesOf, Zenon
<1>. QED BY <1>3, <1>4, <1>5, <1>6, GenSound, Zenon

\* What the list of jobs is after a write.
LEMMA JobsAfterWrite ==
  ASSUME Typed, Writes
  PROVE  \/ proc'.jobs = << >> /\ proc'.mac = << >> /\ proc'.tool = "none"
         \/ /\ proc'.jobs = proc.jobs \/ proc'.jobs = Tail(proc.jobs)
            /\ proc'.mac = proc.mac /\ proc'.tool = proc.tool /\ proc'.gbeRead = proc.gbeRead
<1>1. proc \in ProcSet /\ proc.jobs # << >>
  BY WriteFrame, Zenon DEF Typed, RunTyped, Writing
<1>2. CASE proc' = Idle
  BY <1>2, IdleFields, Zenon
<1>3. CASE proc' = Waited(proc)
  BY <1>1, <1>3, RunFields, Zenon
<1>4. CASE proc' = Advanced(proc)
  BY <1>1, <1>4, RunFields, Zenon
<1>. QED BY <1>2, <1>3, <1>4, WriteRun, Zenon

\* The jobs stay sound.
LEMMA JobsStaySound ==
  ASSUME Typed, Contents, [Next]_vars
  PROVE  JobsSound'
<1>1. << >> \in Seq(SoundJobs)
  BY NoJobs, Zenon
<1>2. CASE Starts
  <2>1. proc'.jobs \in Seq(SoundJobs)
    BY <1>1, <1>2, JobsAfterStart, StartJobsSound, Zenon DEF Typed
  <2>. QED BY <2>1, Zenon DEF JobsSound, SoundJobs
<1>3. CASE Writes
  <2>1. proc.jobs \in Seq(SoundJobs) /\ proc.jobs # << >>
    BY <1>3, WriteFrame, Zenon DEF Contents, JobsSound, Writing
  <2>2. Tail(proc.jobs) \in Seq(SoundJobs)
    BY <2>1, HeadAndTail, Zenon
  <2>3. proc'.jobs \in Seq(SoundJobs)
    BY <1>1, <1>3, <2>1, <2>2, JobsAfterWrite, Zenon
  <2>. QED BY <2>3, Zenon DEF JobsSound
<1>4. CASE Places \/ Builds \/ UNCHANGED vars
  <2>1. proc' = proc
    BY <1>4, PlaceFrame, BuildFrame DEF vars
  <2>. QED BY <2>1 DEF JobsSound, Contents
<1>. QED BY <1>2, <1>3, <1>4, StepKinds, Zenon

\* The files stay sound: those written, and ROMs, dumped or made of an image.
LEMMA DirStaysSound ==
  ASSUME Typed, Contents, [Next]_vars
  PROVE  DirSound'
<1>0. DirTyped /\ DirSound
  BY Zenon DEF Typed, Contents
<1>1. ASSUME NEW f \in Files, NEW c, Sound(c), dir' = [dir EXCEPT ![f] = c]
      PROVE  DirSound'
  <2>1. \A g \in Files : dir'[g] = dir[g] \/ dir'[g] = c
    BY <1>0, <1>1 DEF DirTyped
  <2>2. \A g \in Files : Sound(dir'[g])
    BY <1>0, <1>1, <2>1, Zenon DEF DirSound
  <2>. QED BY <2>2, Zenon DEF DirSound
<1>2. CASE Writes
  <2>1. TheJob \in SoundJobs
    BY <1>2, WriteFrame, HeadAndTail, Zenon DEF Contents, JobsSound, Writing, TheJob
  <2>2. TheJob.file \in Files /\ Sound(TheJob.content)
    BY <2>1, JobSetFields, Zenon DEF SoundJobs
  <2>3. \A c \in {Absent, Partial, TheJob.content, OldFile} : Sound(c)
    BY <1>0, <2>2, NothingToAsk, Zenon DEF OldFile, DirSound
  <2>4. CASE dir' = dir
    BY <1>0, <2>4 DEF DirSound
  <2>. QED BY <1>1, <1>2, <2>2, <2>3, <2>4, WriteDir, Zenon DEF Leaves
<1>3. ASSUME NEW rom \in FactoryRoms, PlaceFactoryRom(rom)
      PROVE  DirSound'
  <2>1. rom \in ContentsOf("factory.rom")
    BY ToolsAssumption
  <2>2. rom \in RomContent => Sound(rom)
    <3>1. ASSUME rom.kind = "rom"
          PROVE  SoundRom(rom)
      BY <3>1, DumpAssumption DEF SoundRom, FirstBlock, Span
    <3>. QED BY <3>1, Kinds, SoundByKind, Zenon
  <2>3. Sound(rom)
    BY <2>1, <2>2, ContentsByFile, NothingToAsk DEF ContentsOf
  <2>. QED BY <1>1, <1>3, <2>3, FileNames, Zenon DEF PlaceFactoryRom
<1>4. ASSUME NEW file \in ImageFiles, PlaceLibrebootRom(file)
      PROVE  DirSound'
  <2>. DEFINE c == dir[file]
              g8 == IF c.kind = "image12k" THEN c.gbe ELSE SomeGbe
              rom == Rom(c.romSize, c.desc, Blocks(DESCRIPTORREGIONSIZE), g8, c.origin)
  <2>1. c.kind \in {"image12k", "image4k"} /\ dir' = [dir EXCEPT !["factory.rom"] = rom]
    BY <1>4, Zenon DEF PlaceLibrebootRom
  <2>2. /\ rom.kind = "rom" /\ rom.desc = c.desc /\ rom.size = c.romSize /\ rom.gbeAt = 1
        /\ rom.gbe = g8 /\ rom.origin = c.origin
    BY <1>0, <2>1, MadeRom, Zenon
  <2>3. SoundImage(c)
    <3>1. Sound(dir[file])
      BY <1>0, FileNames DEF DirSound
    <3>. QED BY <2>1, <3>1, SoundByKind
  <2>. HIDE DEF rom
  <2>4. c.kind = "image12k" => rom.gbe = c.gbe
    BY <2>2
  <2>. HIDE DEF c, g8
  <2>5. SoundRom(rom)
    <3>1. FirstBlock(rom.desc) /\ rom.size \in RomSizes
      BY <2>2, <2>3, Zenon DEF SoundImage
    <3>2. ASSUME rom.origin \in {"repository", "ich9deblob"}
          PROVE  /\ Template(rom.desc) /\ LaidOut(rom.desc, rom.size)
                 /\ descriptorDefinesGbeRegion(rom.desc) => rom.gbeAt = 1 /\ KeptGbe(rom.gbe)
      <4>1. c.origin # "demefactory"
        BY <2>2, <3>2
      <4>. QED BY <2>2, <2>3, <2>4, <4>1, Zenon DEF SoundImage
    <3>. QED BY <3>1, <3>2, Zenon DEF SoundRom
  <2>6. Sound(rom)
    BY <2>2, <2>5, SoundByKind, Zenon
  <2>. QED BY <1>1, <2>1, <2>6, FileNames, Zenon
<1>5. CASE Starts \/ Builds \/ UNCHANGED vars
  <2>1. dir' = dir
    BY <1>5, StartFrame, BuildFrame DEF vars
  <2>. QED BY <1>0, <2>1 DEF DirSound
<1>. QED BY <1>2, <1>3, <1>4, <1>5, StepKinds, Zenon DEF Places

\* Sources, objects and executable stay sound.
LEMMA BuildStaysSound ==
  ASSUME Typed, Contents, [Next]_vars
  PROVE  BuildSound'
<1>0. DirTyped /\ BuildTyped /\ DirSound /\ BuildSound
  BY Zenon DEF Typed, Contents
<1>1. ASSUME NEW name \in Objects, PlaceSources(name)
      PROVE  BuildSound'
  <2>1. /\ \A f \in SourceFiles : src'[f] = src[f] \/ src'[f] = dir[f]
        /\ UNCHANGED <<obj, gen>>
    BY <1>0, <1>1, PlacedSources, Zenon
  <2>2. \A f \in SourceFiles : Sound(src'[f])
    BY <1>0, <2>1, CodeNames, Zenon DEF DirSound, BuildSound
  <2>. QED BY <1>0, <2>1, <2>2, Zenon DEF BuildSound
<1>2. ASSUME NEW o, NEW executables, Make(o, executables), DOMAIN o = Objects,
             \A n \in Objects : Sound(o[n]), src' = src
      PROVE  BuildSound'
  <2>1. \A n \in Objects : Sound(src[CodeOf[n]])
    BY <1>0, CodeNames, Zenon DEF BuildSound
  <2>2. \A n \in Objects : Sound(obj'[n])
    BY <1>2, <2>1, MakeEffects, NothingToAsk, Zenon
  <2>3. gen' = gen \/ gen' = obj'
    BY <1>2, MakeEffects, Zenon
  <2>4. \A n \in Objects : Sound(gen'[n])
    BY <1>0, <2>2, <2>3, Zenon DEF BuildSound
  <2>5. \A f \in SourceFiles : Sound(src'[f])
    BY <1>0, <1>2, Zenon DEF BuildSound
  <2>. QED BY <2>2, <2>4, <2>5, Zenon DEF BuildSound
<1>3. CASE PlainMake \/ BuildModule
  <2>1. src' = src
    BY <1>3, MakeSteps
  <2>2. CASE Make(obj, built) /\ rebuilt' = rebuilt
    BY <1>0, <1>2, <2>1, <2>2, Zenon DEF BuildTyped, BuildSound
  <2>3. CASE Make(NoObjects, {}) /\ rebuilt' = TRUE
    <3>1. DOMAIN NoObjects = Objects /\ \A n \in Objects : NoObjects[n] = Absent
      BY DEF NoObjects
    <3>. QED BY <1>2, <2>1, <2>3, <3>1, NothingToAsk, Zenon
  <2>. QED BY <1>3, <2>2, <2>3, MakeSteps, Zenon
<1>4. CASE Starts \/ Writes \/ Places \/ UNCHANGED vars
  <2>1. UNCHANGED <<src, obj, gen>>
    BY <1>4, StartFrame, WriteFrame, PlaceFrame DEF vars
  <2>. QED BY <1>0, <2>1 DEF BuildSound
<1>. QED BY <1>1, <1>3, <1>4, StepKinds, Zenon DEF Builds

\* All contents stay sound.
LEMMA StepContents == Typed /\ Contents /\ [Next]_vars => Contents'
BY DirStaysSound, BuildStaysSound, JobsStaySound, Zenon DEF Contents

\* They are at first: what the repository brings is libre.
LEMMA InitContents == Init => Contents
<1>. SUFFICES ASSUME Init PROVE Contents
  OBVIOUS
<1>1. DirSound
  BY InitFiles, NothingToAsk, Zenon DEF DirSound
<1>2. Sound(DefaultDescriptorSource)
  <2>1. Template(DefaultSource.desc) /\ FirstBlock(DefaultSource.desc)
    BY ToolsAssumption, SourceAssumption DEF Template, OnlyHost, FirstBlock, Span
  <2>2. SoundSource(DefaultDescriptorSource)
    BY <2>1, DefaultSources DEF SoundSource
  <2>. QED BY <2>2, DefaultSources, SoundByKind, Zenon
<1>3. Sound(GbeSource(DefaultSource.gbe))
  <2>1. Kept(DefaultSource.gbe)
    BY ToolsAssumption, SourceAssumption, ValidIsKept
  <2>. QED BY <2>1, DefaultSources, SoundByKind, Zenon
<1>4. \A f \in SourceFiles : Sound(src[f])
  BY <1>2, <1>3, InitFiles, NothingToAsk, Zenon DEF SourceFiles, CodeFiles
<1>5. \A n \in Objects : Sound(obj[n]) /\ Sound(gen[n])
  BY <1>4, InitFiles, CodeNames, Zenon
<1>6. JobsSound
  <2>1. proc = Idle
    BY Zenon DEF Init
  <2>. QED BY <2>1, IdleFields, NoJobs, Zenon DEF JobsSound
<1>. QED BY <1>1, <1>4, <1>5, <1>6, Zenon DEF Contents, BuildSound

-----------------------------------------------------------------------------
(* What ich9deblob has not read it does not write.                            *)

\* ich9deblob lists a GbE file only when the deblobbed descriptor defines the region,
\* which is when the factory descriptor does, which is when it was read.
LEMMA StepOnlyRead == Typed /\ OnlyRead /\ [Next]_vars => OnlyRead'
<1>. SUFFICES ASSUME Typed, OnlyRead, [Next]_vars PROVE OnlyRead'
  OBVIOUS
<1>0. DirTyped /\ BuildTyped /\ << >> \in Seq(JobsWithoutGbe)
  BY NoJobs, Zenon DEF Typed
<1>1. CASE Starts
  <2>1. CASE proc'.tool # "ich9deblob"
    BY <2>1 DEF OnlyRead
  <2>2. ASSUME DeblobBegins,
               proc'.jobs = DeblobJobs(DeblobIn, DeblobGbe, dir["factory.rom"].size),
               proc'.gbeRead = descriptorDefinesGbeRegion(dir["factory.rom"].desc)
        PROVE  OnlyRead'
    <3>1. /\ dir["factory.rom"].kind = "rom"
      BY <2>2, Zenon DEF DeblobBegins
    <3>2. /\ dir["factory.rom"].desc \in DescriptorRecord /\ dir["factory.rom"].size \in Nat
          /\ DeblobIn \in DescriptorRecord
      BY <1>0, <3>1, DumpFields, DeblobInTyped, Zenon
    <3>3. descriptorDefinesGbeRegion(DeblobIn) <=> descriptorDefinesGbeRegion(dir["factory.rom"].desc)
      BY <3>2, DeblobbedLaidOut, Zenon DEF DeblobIn
    <3>4. CASE descriptorDefinesGbeRegion(dir["factory.rom"].desc)
      <4>1. proc'.gbeRead
        BY <2>2, <3>4, Zenon
      <4>. QED BY <4>1, Zenon DEF OnlyRead
    <3>5. CASE ~descriptorDefinesGbeRegion(dir["factory.rom"].desc)
      <4>1. proc'.jobs \in Seq(JobsWithoutGbe)
        BY <2>2, <3>2, <3>3, <3>5, DeblobWithoutGbe, Zenon
      <4>. QED BY <4>1, Zenon DEF OnlyRead, JobsWithoutGbe
    <3>. QED BY <3>4, <3>5
  <2>3. "none" # "ich9deblob" /\ "demefactory" # "ich9deblob" /\ "ich9gen" # "ich9deblob"
    OBVIOUS
  <2>. QED BY <1>0, <1>1, <2>1, <2>2, <2>3, JobsAfterStart, Zenon
<1>2. CASE Writes
  <2>1. CASE proc'.tool = "none"
    BY <2>1 DEF OnlyRead
  <2>2. ASSUME proc'.jobs = proc.jobs \/ proc'.jobs = Tail(proc.jobs),
               proc'.tool = proc.tool, proc'.gbeRead = proc.gbeRead,
               proc.tool = "ich9deblob", ~proc.gbeRead
        PROVE  proc'.jobs \in Seq(JobsWithoutGbe)
    <3>1. proc.jobs \in Seq(JobsWithoutGbe) /\ proc.jobs # << >>
      BY <1>2, <2>2, WriteFrame, Zenon DEF OnlyRead, Writing
    <3>. QED BY <2>2, <3>1, HeadAndTail, Zenon
  <2>. QED BY <1>2, <2>1, <2>2, JobsAfterWrite, Zenon DEF OnlyRead, JobsWithoutGbe
<1>3. CASE Places \/ Builds \/ UNCHANGED vars
  <2>1. proc' = proc
    BY <1>3, PlaceFrame, BuildFrame DEF vars
  <2>. QED BY <2>1 DEF OnlyRead
<1>. QED BY <1>1, <1>2, <1>3, StepKinds, Zenon

-----------------------------------------------------------------------------
(* After ./build module ich9deblob the objects are those of the sources.      *)

\* Placing sources takes the claim back; make keeps objects that are right.
LEMMA StepFresh == BuildTyped /\ DirTyped /\ Fresh /\ [Next]_vars => Fresh'
<1>. SUFFICES ASSUME BuildTyped, DirTyped, Fresh, [Next]_vars PROVE Fresh'
  OBVIOUS
<1>1. ASSUME NEW name \in Objects, PlaceSources(name)
      PROVE  Fresh'
  <2>1. rebuilt' = FALSE
    BY <1>1, PlacedSources, Zenon
  <2>. QED BY <2>1 DEF Fresh, RebuildTakesEffect
<1>2. ASSUME NEW o, NEW executables, Make(o, executables), DOMAIN o = Objects,
             src' = src, \A n \in Objects : o[n] \in {Absent, src[CodeOf[n]]},
             "ich9gen" \in executables => gen = [n \in Objects |-> src[CodeOf[n]]]
      PROVE  Fresh'
  <2>1. \A n \in Objects : obj'[n] \in {Absent, src[CodeOf[n]]}
    BY <1>2, MakeEffects
  <2>2. "ich9gen" \in built' => gen' = [n \in Objects |-> src'[CodeOf[n]]]
    <3>1. CASE gen' = gen /\ built' = executables \cup {"ich9deblob"}
      BY <1>2, <3>1
    <3>2. CASE gen' = gen /\ "ich9gen" \in executables
      BY <1>2, <3>2
    <3>3. CASE gen' = obj' /\ \A n \in Objects : obj'[n] # Absent
      <4>1. obj' = [n \in Objects |-> obj'[n]]
        BY <1>2, MakeEffects
      <4>2. \A n \in Objects : obj'[n] = src'[CodeOf[n]]
        BY <1>2, <2>1, <3>3
      <4>. QED BY <3>3, <4>1, <4>2
    <3>. QED BY <1>2, <3>1, <3>2, <3>3, MakeEffects, Zenon
  <2>. QED BY <1>2, <2>1, <2>2 DEF Fresh, RebuildTakesEffect
<1>3. CASE PlainMake \/ BuildModule
  <2>1. src' = src
    BY <1>3, MakeSteps
  <2>2. CASE Make(obj, built) /\ rebuilt' = rebuilt
    <3>1. CASE rebuilt
      BY <1>2, <2>1, <2>2, <3>1 DEF BuildTyped, Fresh, RebuildTakesEffect
    <3>2. CASE ~rebuilt
      BY <2>2, <3>2 DEF Fresh, RebuildTakesEffect
    <3>. QED BY <3>1, <3>2
  <2>3. CASE Make(NoObjects, {}) /\ rebuilt' = TRUE
    <3>1. DOMAIN NoObjects = Objects /\ \A n \in Objects : NoObjects[n] = Absent
      BY DEF NoObjects
    <3>. QED BY <1>2, <2>1, <2>3, <3>1
  <2>. QED BY <1>3, <2>2, <2>3, MakeSteps
<1>4. CASE Starts \/ Writes \/ Places \/ UNCHANGED vars
  <2>1. UNCHANGED <<src, obj, built, gen, rebuilt>>
    BY <1>4, StartFrame, WriteFrame, PlaceFrame DEF vars
  <2>. QED BY <2>1 DEF Fresh, RebuildTakesEffect
<1>. QED BY <1>1, <1>3, <1>4, StepKinds, Zenon DEF Builds

-----------------------------------------------------------------------------
(* A run of ich9gen --macaddress writes the source and all four images.       *)

\* What the second list brings is in both together.
LEMMA LaterInBoth ==
  ASSUME NEW S, NEW s \in Seq(S), NEW t \in Seq(S), NEW f, Left(t, f)
  PROVE  Left(s \o t, f)
<1>1. PICK i \in 1 .. Len(t) : t[i].file = f
  BY DEF Left
<1>2. Len(s) + i \in 1 .. Len(s \o t) /\ (s \o t)[Len(s) + i] = t[i]
  OBVIOUS
<1>. QED BY <1>1, <1>2 DEF Left

\* And what the first brings.
LEMMA SoonerInBoth ==
  ASSUME NEW S, NEW s \in Seq(S), NEW t \in Seq(S), NEW f, Left(s, f)
  PROVE  Left(s \o t, f)
<1>1. PICK i \in 1 .. Len(s) : s[i].file = f
  BY DEF Left
<1>2. i \in 1 .. Len(s \o t) /\ (s \o t)[i] = s[i]
  OBVIOUS
<1>. QED BY <1>1, <1>2 DEF Left

\* A list after its first job.
LEMMA FirstOrLater ==
  ASSUME NEW S, NEW s \in Seq(S), s # << >>, NEW f, Left(s, f)
  PROVE  Head(s).file = f \/ Left(Tail(s), f)
<1>1. PICK i \in 1 .. Len(s) : s[i].file = f
  BY DEF Left
<1>2. CASE i = 1
  BY <1>1, <1>2, HeadAndTail
<1>3. CASE i \in 2 .. Len(s)
  <2>1. i - 1 \in 1 .. Len(Tail(s)) /\ Tail(s)[i - 1] = s[i]
    BY <1>3, HeadAndTail
  <2>. QED BY <1>1, <2>1 DEF Left
<1>4. Len(s) \in Nat
  OBVIOUS
<1>. QED BY <1>1, <1>2, <1>3, <1>4

\* A list with one job is done after it.
LEMMA NothingLeft ==
  ASSUME NEW S, NEW s \in Seq(S), Len(s) = 1, NEW f
  PROVE  ~Left(Tail(s), f)
<1>1. Len(Tail(s)) = 0
  BY HeadAndTail
<1>2. ASSUME NEW i \in 1 .. Len(Tail(s)) PROVE FALSE
  BY <1>1
<1>. QED BY <1>2, Zenon DEF Left

\* A file that was removed is written, or what is lost is noted.
LEMMA WrittenOrHit ==
  ASSUME DirTyped, Cleared, WriteFile \/ OutputLost, NEW mac, TheJob \in MacJobs(mac),
         TheJob.file \in MacFiles \ spoiled'
  PROVE  Addressed(dir'[TheJob.file], mac)
<1>1. TheJob.file \in Files /\ Addressed(TheJob.content, mac)
  BY JobSetFields, Zenon DEF MacJobs
<1>2. ~OutputLost
  BY DEF OutputLost
<1>3. WriteFile
  BY <1>2
<1>4. OldFile = Absent
  BY <1>3, Zenon DEF WriteFile, Cleared, OldFile
<1>5. Written(OldFile, TheJob) = {TheJob.content}
  BY <1>4 DEF Written, Absent, Partial
<1>6. dir' = [dir EXCEPT ![TheJob.file] = TheJob.content]
  BY <1>3, <1>5 DEF WriteFile, Leaves
<1>7. dir'[TheJob.file] = TheJob.content
  BY <1>1, <1>6 DEF DirTyped
<1>. QED BY <1>1, <1>7

\* A file written or lost takes one off the list.
LEMMA OneLess ==
  ASSUME DirTyped, Cleared, WriteFile \/ OutputLost, NEW mac, proc.jobs \in Seq(MacJobs(mac)),
         AllWritten(proc.jobs, dir, spoiled, mac)
  PROVE  AllWritten(Tail(proc.jobs), dir', spoiled', mac)
<1>1. proc.jobs # << >>
  BY Zenon DEF WriteFile, OutputLost, Writing
<1>2. TheJob \in MacJobs(mac)
  BY <1>1, HeadAndTail, Zenon DEF TheJob
<1>3. TheJob.file \in Files
  BY <1>2, JobSetFields, Zenon DEF MacJobs
<1>4. ASSUME NEW f \in MacFiles \ spoiled'
      PROVE  Left(Tail(proc.jobs), f) \/ Addressed(dir'[f], mac)
  <2>0. f \in Files
    BY FileNames
  <2>1. CASE f # TheJob.file
    <3>1. dir'[f] = dir[f]
      BY <1>3, <2>0, <2>1 DEF WriteFile, OutputLost, Leaves, DirTyped
    <3>2. f \notin spoiled
      BY <1>4 DEF WriteFile, OutputLost
    <3>3. Left(proc.jobs, f) \/ Addressed(dir[f], mac)
      BY <3>2, Zenon DEF AllWritten
    <3>. QED BY <1>1, <2>1, <3>1, <3>3, FirstOrLater, Zenon DEF TheJob
  <2>2. CASE f = TheJob.file
    BY <1>2, <1>4, <2>2, WrittenOrHit, Zenon
  <2>. QED BY <2>1, <2>2
<1>. QED BY <1>4, Zenon DEF AllWritten

\* What a step opens it has removed, or tried to.
LEMMA StepCleared == Typed /\ Cleared /\ [Next]_vars => Cleared'
<1>. SUFFICES ASSUME Typed, Cleared, [Next]_vars PROVE Cleared'
  OBVIOUS
<1>0. DirTyped /\ RunTyped /\ proc \in ProcSet
  BY Zenon DEF Typed, RunTyped
<1>1. CASE RemoveOldFile \/ RemoveFails
  <2>1. proc' = Waited(proc) /\ Writing
    BY <1>1 DEF RemoveOldFile, RemoveFails, Waited
  <2>2. proc'.jobs = proc.jobs
    BY <1>0, <2>1, RunFields, Zenon DEF Writing
  <2>3. TheJob' = TheJob
    BY <2>2, Zenon DEF TheJob
  <2>4. TheJob.file \in Files
    BY <1>0, <2>1, TheJobIsAJob, JobSetFields, Zenon
  <2>5. dir'[TheJob.file] = Absent \/ TheJob.file \in spoiled'
    BY <1>0, <1>1, <2>4 DEF RemoveOldFile, RemoveFails, Leaves, DirTyped
  <2>. QED BY <2>3, <2>5, Zenon DEF Cleared
<1>2. CASE Starts \/ WriteFile \/ OpenFails \/ WriteFails \/ OutputLost \/ Killed
  <2>1. ~proc'.opened
    <3>1. CASE Starts
      BY <3>1, StartOpensNothing, Zenon
    <3>2. CASE WriteFile \/ OutputLost
      <4>1. proc' = Idle \/ proc' = Advanced(proc)
        BY <3>2 DEF WriteFile, OutputLost, NextJob, Advanced
      <4>. QED BY <1>0, <4>1, NothingOpened, Zenon
    <3>3. CASE OpenFails \/ WriteFails \/ Killed
      BY <3>3, NothingOpened, Zenon DEF OpenFails, WriteFails, Killed, EndsAtOnce
    <3>. QED BY <1>2, <3>1, <3>2, <3>3
  <2>. QED BY <2>1, Zenon DEF Cleared
<1>3. CASE Places \/ Builds
  <2>1. proc' = Idle
    BY <1>3, PlaceFrame, BuildFrame, Zenon
  <2>. QED BY <2>1, NothingOpened, Zenon DEF Cleared
<1>4. CASE UNCHANGED vars
  <2>1. proc' = proc /\ dir' = dir /\ spoiled' = spoiled
    BY <1>4 DEF vars
  <2>. QED BY <2>1 DEF Cleared, TheJob
<1>. QED BY <1>1, <1>2, <1>3, <1>4, StepKinds, Zenon DEF Writes

\* A failure that is looked for ends the run; what goes on has written the file, or
\* the file is noted.
LEMMA StepCompleting == Typed /\ Cleared /\ Completing /\ [Next]_vars => Completing'
<1>. SUFFICES ASSUME Typed, Cleared, Completing, [Next]_vars PROVE Completing'
  OBVIOUS
<1>0. DirTyped /\ BuildTyped /\ RunTyped
  BY Zenon DEF Typed
<1>1. CASE Starts
  <2>1. CASE proc'.mac = << >>
    BY <2>1 DEF Completing
  <2>2. ASSUME NEW arg \in MacArguments, proc'.mac = << arg >>,
               proc'.jobs = GbeSourceJobs(MacGbe(arg).backup) \o GenJobs(gen["mkdescriptor"], MacGbe(arg))
        PROVE  Completing'
    <3>. DEFINE s == GbeSourceJobs(MacGbe(arg).backup)
                t == GenJobs(gen["mkdescriptor"], MacGbe(arg))
                mac == arg.mac
    <3>1. /\ MacGbe(arg) \in Gbe8k /\ MacGbe(arg).backup \in Gbe4k
          /\ MacGbe(arg).main.mac = mac /\ MacGbe(arg).backup.mac = mac
          /\ gen["mkdescriptor"] \in DescriptorSourceContent
      BY <1>0, MacGbeTyped, GenContents, Zenon
    <3>2. s \in Seq(MacJobs(mac)) /\ t \in Seq(MacJobs(mac))
      BY <3>1, GbeSourceSound, GenOfMac, Zenon
    <3>3. Left(s, "mkgbe.c") /\ \A f \in MacImages : Left(t, f)
      BY <3>1, GbeSourceSound, GenFiles, Zenon
    <3>. HIDE DEF s, t
    <3>4. s \o t \in Seq(MacJobs(mac))
      BY <3>2, TuplesOf, Zenon
    <3>5. \A f \in MacFiles : Left(s \o t, f)
      BY <3>2, <3>3, LaterInBoth, SoonerInBoth, Zenon DEF MacFiles
    <3>6. Head(proc'.mac).mac = mac /\ proc'.jobs = s \o t
      BY <2>2 DEF s, t
    <3>. HIDE DEF mac
    <3>7. proc'.jobs \in Seq(MacJobs(Head(proc'.mac).mac))
      BY <3>4, <3>6, Zenon
    <3>8. \A f \in MacFiles : Left(proc'.jobs, f)
      BY <3>5, <3>6, Zenon
    <3>. QED BY <3>7, <3>8, Zenon DEF Completing, AllWritten, MacJobs, Left
  <2>. QED BY <1>0, <1>1, <2>1, <2>2, JobsAfterStart, Zenon
<1>2. CASE Writes
  <2>1. CASE proc'.mac = << >>
    BY <2>1 DEF Completing
  <2>2. CASE proc'.mac # << >>
    <3>0. /\ proc'.mac = proc.mac
          /\ proc'.jobs = proc.jobs \/ proc'.jobs = Tail(proc.jobs)
      BY <1>2, <2>2, JobsAfterWrite, Zenon
    <3>. DEFINE mac == Head(proc.mac).mac
    <3>1. proc.jobs \in Seq(MacJobs(mac)) /\ AllWritten(proc.jobs, dir, spoiled, mac)
      BY <2>2, <3>0, Zenon DEF Completing
    <3>2. proc.jobs # << >>
      BY <1>2, WriteFrame, Zenon DEF Writing
    <3>3. proc'.jobs \in Seq(MacJobs(mac))
      BY <3>0, <3>1, <3>2, HeadAndTail, Zenon
    <3>4. AllWritten(proc'.jobs, dir', spoiled', mac)
      <4>1. CASE RemoveOldFile \/ RemoveFails
        <5>1. proc' = Waited(proc)
          BY <4>1 DEF RemoveOldFile, RemoveFails, Waited
        <5>2. proc'.jobs = proc.jobs
          BY <1>0, <3>2, <5>1, RunFields, Zenon DEF RunTyped
        <5>3. TheJob \in JobSet /\ TheJob.file \in Files
          BY <1>0, <1>2, WriteFrame, TheJobIsAJob, JobSetFields, Zenon
        <5>4. \A f \in Files : f # TheJob.file => dir'[f] = dir[f]
          BY <1>0, <4>1 DEF RemoveOldFile, RemoveFails, Leaves, DirTyped
        <5>7. \A f : f \notin spoiled' => f \notin spoiled
          BY <4>1 DEF RemoveOldFile, RemoveFails
        <5>5. Left(proc.jobs, TheJob.file)
          <6>1. 1 \in 1 .. Len(proc.jobs) /\ proc.jobs[1] = TheJob
            BY <3>1, <3>2, HeadAndTail DEF TheJob
          <6>. QED BY <6>1 DEF Left
        <5>6. \A f \in MacFiles : f \in Files
          BY FileNames
        <5>. QED BY <3>1, <5>2, <5>4, <5>5, <5>6, <5>7, Zenon DEF AllWritten
      <4>2. CASE WriteFile \/ OutputLost
        <5>1. proc' = Idle \/ proc' = Advanced(proc)
          BY <4>2 DEF WriteFile, OutputLost, NextJob, Advanced
        <5>2. proc' = Advanced(proc)
          BY <2>2, <5>1, IdleFields, Zenon
        <5>3. proc'.jobs = Tail(proc.jobs)
          BY <1>0, <3>2, <5>2, RunFields, Zenon DEF RunTyped
        <5>. QED BY <1>0, <3>1, <4>2, <5>3, OneLess, Zenon
      <4>3. CASE OpenFails \/ WriteFails \/ Killed
        <5>1. proc' = Idle
          BY <4>3, Zenon DEF OpenFails, WriteFails, Killed, EndsAtOnce
        <5>. QED BY <2>2, <5>1, IdleFields, Zenon
      <4>. QED BY <1>2, <4>1, <4>2, <4>3, Zenon DEF Writes
    <3>5. Head(proc'.mac).mac = mac
      BY <3>0, Zenon
    <3>. HIDE DEF mac
    <3>. QED BY <3>3, <3>4, <3>5, Zenon DEF Completing, AllWritten, Left, MacJobs
  <2>. QED BY <2>1, <2>2
<1>3. CASE Places \/ Builds
  <2>1. proc' = proc /\ proc.mac = << >>
    BY <1>3, PlaceFrame, BuildFrame, IdleFields, Zenon
  <2>. QED BY <2>1 DEF Completing
<1>4. CASE UNCHANGED vars
  <2>1. proc' = proc /\ dir' = dir /\ spoiled' = spoiled
    BY <1>4 DEF vars
  <2>. QED BY <2>1 DEF Completing
<1>. QED BY <1>1, <1>2, <1>3, <1>4, StepKinds, Zenon

-----------------------------------------------------------------------------
(* The properties, for any dumps, arguments, machines, failures and number of *)
(* runs.                                                                      *)

\* Every flash has room for the descriptor and the GbE region.
LEMMA RoomForGbe == \A romSize \in RomSizes : 4096 + GBEREGIONSIZE_8K <= romSize
<1>1. \A n \in Nat : n \div 4096 >= 4 => 12288 <= n
  OBVIOUS
<1>. QED BY <1>1 DEF RomSizes, Blocks, GBEREGIONSIZE_8K

\* The invariant holds at first.
LEMMA InitInv == Init => IInv
<1>. SUFFICES ASSUME Init PROVE IInv
  OBVIOUS
<1>1. proc.tool = "none" /\ proc.mac = << >>
  BY IdleFields, Zenon DEF Init
<1>2. OnlyRead
  BY <1>1 DEF OnlyRead
<1>3. Completing
  BY <1>1 DEF Completing
<1>4. Fresh
  BY InitFiles DEF Fresh, RebuildTakesEffect
<1>5. Cleared
  BY NothingOpened, Zenon DEF Init, Cleared
<1>. QED BY <1>2, <1>3, <1>4, <1>5, InitTyped, InitContents, Zenon DEF IInv

\* It holds after every step.
LEMMA StepInv == IInv /\ [Next]_vars => IInv'
<1>. SUFFICES ASSUME IInv, [Next]_vars PROVE IInv'
  OBVIOUS
<1>1. Typed /\ Contents /\ OnlyRead /\ Fresh /\ Completing /\ Cleared /\ DirTyped /\ BuildTyped
  BY Zenon DEF IInv, Typed
<1>. QED BY <1>1, StepTyped, StepContents, StepOnlyRead, StepFresh, StepCompleting, StepCleared,
            Zenon DEF IInv

\* It holds always.
LEMMA Invariance == Spec => []IInv
<1>1. Init => IInv
  BY InitInv
<1>2. IInv /\ [Next]_vars => IInv'
  BY StepInv
<1>. QED BY <1>1, <1>2, PTL DEF Spec

\* RebuildTakesEffect: whatever was placed, cut short, made or left over before,
\* after ./build module ich9deblob an ich9gen that is there is that of src/ich9gen/.
THEOREM RebuildWorks == Spec => []RebuildTakesEffect
<1>1. IInv => RebuildTakesEffect
  BY Zenon DEF IInv, Fresh
<1>. QED BY <1>1, Invariance, PTL

\* NoUninitialisedGbe: the two decisions of ich9deblob about the GbE region agree,
\* whatever the dump says, so that what it did not read reaches no file.
THEOREM UninitialisedNeverWritten == Spec => []NoUninitialisedGbe
<1>1. ASSUME IInv PROVE NoUninitialisedGbe
  <2>. SUFFICES ASSUME proc.tool = "ich9deblob", ~proc.gbeRead,
                       NEW i \in 1 .. Len(proc.jobs)
                PROVE  ~HasGbe(proc.jobs[i].content)
    BY DEF NoUninitialisedGbe
  <2>1. proc.jobs \in Seq(JobsWithoutGbe)
    BY <1>1, Zenon DEF IInv, OnlyRead
  <2>2. proc.jobs[i] \in JobsWithoutGbe
    BY <2>1
  <2>. QED BY <2>2, Zenon DEF JobsWithoutGbe
<1>. QED BY <1>1, Invariance, PTL

\* LayoutFitsRom: every image of a libre layout, whatever chain of tools, sources and
\* ROMs it came through, partitions the ROM it is for, for every size of flash.
THEOREM LayoutsFit == Spec => []LayoutFitsRom
<1>1. ASSUME IInv PROVE LayoutFitsRom
  <2>. SUFFICES ASSUME NEW f \in ImageFiles, IsImage(dir[f]), dir[f].origin # "demefactory"
                PROVE  /\ LibreLayout(dir[f].desc, dir[f].romSize)
                       /\ descriptorDefinesGbeRegion(dir[f].desc) <=> HasGbe(dir[f])
    BY Zenon DEF LayoutFitsRom
  <2>1. Sound(dir[f])
    BY <1>1, FileNames DEF IInv, Contents, DirSound
  <2>2. dir[f].kind \in {"image12k", "image4k"}
    BY DEF IsImage
  <2>3. SoundImage(dir[f])
    BY <2>1, <2>2, SoundByKind
  <2>4. /\ FirstBlock(dir[f].desc) /\ dir[f].romSize \in RomSizes
        /\ Template(dir[f].desc) /\ LaidOut(dir[f].desc, dir[f].romSize)
        /\ descriptorDefinesGbeRegion(dir[f].desc) <=> dir[f].kind = "image12k"
    BY <2>3, Zenon DEF SoundImage
  <2>5. LibreLayout(dir[f].desc, dir[f].romSize)
    BY <2>4, LaidOutIsLibre, Zenon DEF FirstBlock
  <2>6. HasGbe(dir[f]) <=> dir[f].kind = "image12k"
    BY <2>2 DEF HasGbe
  <2>. QED BY <2>4, <2>5, <2>6, Zenon
<1>. QED BY <1>1, Invariance, PTL

\* GbeCopiesValid: however many times the GbE data goes through the tools, both copies
\* stay the same and their checksum right, for every address and content.
THEOREM GbeStaysValid == Spec => []GbeCopiesValid
<1>1. ASSUME IInv PROVE GbeCopiesValid
  <2>0. \A f \in Files : Sound(dir[f])
    BY <1>1, Zenon DEF IInv, Contents, DirSound
  <2>1. ASSUME NEW f \in ImageFiles, dir[f].kind = "image12k"
        PROVE  GoodGbe(dir[f].gbe)
    <3>1. Sound(dir[f])
      BY <2>0, FileNames
    <3>2. SoundImage(dir[f])
      BY <2>1, <3>1, SoundByKind
    <3>3. KeptGbe(dir[f].gbe)
      BY <2>1, <3>2, Zenon DEF SoundImage
    <3>. QED BY <3>3, KeptIsGood, Zenon
  <2>2. ASSUME dir["mkgbe.c"].kind = "mkgbe.c"
        PROVE  ChecksumValid(dir["mkgbe.c"].gbe)
    <3>1. Kept(dir["mkgbe.c"].gbe)
      BY <2>0, <2>2, FileNames, SoundByKind, Zenon
    <3>. QED BY <3>1, KeptIsGood, Zenon
  <2>. QED BY <2>1, <2>2, Zenon DEF GbeCopiesValid
<1>. QED BY <1>1, Invariance, PTL

\* SourceRegenerates: the source that ich9deblob prints gives back the descriptor it
\* was printed from, for every dump of every size.
THEOREM PrintedSourceIsTrue == Spec => []SourceRegenerates
<1>1. ASSUME IInv PROVE SourceRegenerates
  <2>. DEFINE c == dir["mkdescriptor.c"]
  <2>. SUFFICES ASSUME c.kind = "mkdescriptor.c", c.origin = "ich9deblob"
                PROVE  SameButDensities(
                         generatedDescriptorStruct(c.desc, c.romSize, descriptorDefinesGbeRegion(c.desc)),
                         c.desc)
    BY Zenon DEF SourceRegenerates
  <2>1. Sound(c)
    BY <1>1, FileNames, Zenon DEF IInv, Contents, DirSound
  <2>. HIDE DEF c
  <2>2. SoundSource(c)
    BY <2>1, SoundByKind, Zenon
  <2>3. c.origin # "demefactory"
    OBVIOUS
  <2>4. Template(c.desc) /\ c.romSize \in Nat /\ LaidOut(c.desc, c.romSize)
    BY <2>2, <2>3, Zenon DEF SoundSource
  <2>. QED BY <2>4, GivesBack, Zenon
<1>. QED BY <1>1, Invariance, PTL

\* DeblobIsIdempotent: ich9deblob changes nothing in a libreboot ROM, of whatever
\* size it is and whichever tool and source its descriptor and GbE region came from.
THEOREM DeblobbedTwice == Spec => []DeblobIsIdempotent
<1>1. ASSUME IInv PROVE DeblobIsIdempotent
  <2>. DEFINE rom == dir["factory.rom"]
  <2>. SUFFICES ASSUME rom.kind = "rom", rom.origin \in {"repository", "ich9deblob"}
                PROVE  /\ DeblobbedDescriptor(rom.desc, rom.size) = rom.desc
                       /\ descriptorDefinesGbeRegion(rom.desc) =>
                            /\ GbeReadable(rom)
                            /\ deblobbedGbeStructFromFactory(GbeAtBase(rom)) = rom.gbe
    BY Zenon DEF DeblobIsIdempotent
  <2>1. SoundRom(rom)
    BY <1>1, DumpSound, Zenon DEF IInv, Contents
  <2>. HIDE DEF rom
  <2>2. /\ rom.size \in RomSizes /\ Template(rom.desc) /\ LaidOut(rom.desc, rom.size)
        /\ descriptorDefinesGbeRegion(rom.desc) => rom.gbeAt = 1 /\ KeptGbe(rom.gbe)
    BY <2>1, Zenon DEF SoundRom
  <2>3. rom.size \in Nat
    BY <2>2, LastFieldWhole
  <2>4. DeblobbedDescriptor(rom.desc, rom.size) = rom.desc
    BY <2>2, <2>3, NothingToDeblob, Zenon
  <2>5. ASSUME descriptorDefinesGbeRegion(rom.desc)
        PROVE  /\ GbeReadable(rom)
               /\ deblobbedGbeStructFromFactory(GbeAtBase(rom)) = rom.gbe
    <3>1. rom.desc.region["gbe"].base = 1
      <4>1. rom.desc.region["gbe"] = Span(1, 2)
        BY <2>2, <2>5, Zenon DEF LaidOut
      <4>. QED BY <4>1 DEF Span
    <3>2. GbeReadable(rom)
      <4>1. 4096 + GBEREGIONSIZE_8K <= rom.size
        BY <2>2, RoomForGbe
      <4>. QED BY <3>1, <4>1 DEF GbeReadable
    <3>3. GbeAtBase(rom) = rom.gbe
      BY <2>2, <2>5, <3>1 DEF GbeAtBase
    <3>. QED BY <2>2, <2>5, <3>2, <3>3, NothingToRepair, Zenon
  <2>. QED BY <2>4, <2>5
<1>. QED BY <1>1, Invariance, PTL

\* SuccessIsComplete: whatever failed on the way, a run of ich9gen --macaddress that
\* reports success leaves the source and the four images, with the address in each
\* that has a GbE region, except those hit by a failure that nothing looks for.
THEOREM SuccessComplete == Spec => SuccessIsComplete
<1>. DEFINE Step == proc.mac # << >> /\ status' = "ok" /\ status # "ok" =>
                      \A f \in MacFiles \ spoiled' : Addressed(dir'[f], Head(proc.mac).mac)
<1>1. ASSUME IInv, [Next]_vars PROVE Step
  <2>. SUFFICES ASSUME proc.mac # << >>, status' = "ok", status # "ok"
                PROVE  \A f \in MacFiles \ spoiled' : Addressed(dir'[f], Head(proc.mac).mac)
    OBVIOUS
  <2>. DEFINE mac == Head(proc.mac).mac
  <2>0. /\ DirTyped /\ Cleared
        /\ proc.jobs \in Seq(MacJobs(mac)) /\ AllWritten(proc.jobs, dir, spoiled, mac)
    BY <1>1, Zenon DEF IInv, Typed, Completing
  <2>. HIDE DEF mac
  <2>1. ~Starts /\ ~Places /\ ~Builds
    BY StartFrame, PlaceFrame, BuildFrame, IdleFields, Zenon
  <2>2. ~UNCHANGED vars
    BY DEF vars
  <2>3. Writes
    BY <1>1, <2>1, <2>2, StepKinds, Zenon
  <2>4. ~(RemoveOldFile \/ RemoveFails \/ OpenFails \/ WriteFails \/ Killed)
    BY DEF RemoveOldFile, RemoveFails, OpenFails, WriteFails, Killed, EndsAtOnce
  <2>5. WriteFile \/ OutputLost
    BY <2>3, <2>4, Zenon DEF Writes
  <2>6. Len(proc.jobs) = 1
    BY <2>5 DEF WriteFile, OutputLost, NextJob
  <2>7. AllWritten(Tail(proc.jobs), dir', spoiled', mac)
    BY <2>0, <2>5, OneLess, Zenon
  <2>8. \A f \in MacFiles : ~Left(Tail(proc.jobs), f)
    BY <2>0, <2>6, NothingLeft, Zenon
  <2>. QED BY <2>7, <2>8, Zenon DEF AllWritten, mac
<1>2. ASSUME Step
      PROVE  (proc.mac # << >> /\ status' = "ok" /\ status # "ok") =>
               \A f \in {"ich9fdgbe_4m.bin", "ich9fdgbe_8m.bin",
                         "ich9fdnogbe_4m.bin", "ich9fdnogbe_8m.bin", "mkgbe.c"} \ spoiled' :
                 /\ dir'[f] \notin {Absent, Partial}
                 /\ HasGbe(dir'[f]) => MacOf(dir'[f]) = Head(proc.mac).mac
  BY <1>2, Zenon DEF MacFiles, MacImages, Addressed
<1>. QED BY <1>1, <1>2, Invariance, PTL DEF Spec, SuccessIsComplete

-----------------------------------------------------------------------------
(* The structs, as every compiler lays them out.                             *)

\* Induction from 0 to N, over a set instead of a predicate.
LEMMA Induction ==
  ASSUME NEW N \in Nat, NEW S, 0 \in S, \A n \in 0 .. N - 1 : n \in S => n + 1 \in S
  PROVE  0 .. N \subseteq S
<1>. DEFINE Wrong == {n \in 0 .. N : n \notin S}
            Less == {ss \in Nat \X Nat : ss[1] < ss[2]}
<1>. SUFFICES ASSUME Wrong # {} PROVE FALSE
  OBVIOUS
<1>1. PICK n \in Wrong : \A m \in Wrong : ~ (<<m, n>> \in Less)
  <2>1. Wrong \subseteq Nat
    OBVIOUS
  <2>2. IsWellFoundedOn(Less, Nat)
    <3>1. IsWellFoundedOn(OpToRel(<, Nat), Nat)
      BY NatLessThanWellFounded
    <3>. QED BY <3>1 DEF OpToRel
  <2>. HIDE DEF Less, Wrong
  <2>. QED BY <2>1, <2>2, WFMin, Zenon
<1>2. n \in 1 .. N
  OBVIOUS
<1>3. n - 1 \in 0 .. N /\ <<n - 1, n>> \in Less
  BY <1>2
<1>4. n - 1 \in S
  BY <1>1, <1>3
<1>. QED BY <1>2, <1>4

\* What Placed is before the first member.
Empty(h) == [end |-> 0, type |-> 8, align |-> IF h.roundTo4 THEN 32 ELSE 8, fields |-> << >>]

\* Placed satisfies its recursive definition.
LEMMA LaidUnfolds ==
  ASSUME NEW h, NEW members, Len(members) \in Nat
  PROVE  /\ Placed(h, members)[0] = Empty(h)
         /\ \A n \in 1 .. Len(members) :
              Placed(h, members)[n] = Place(h, Placed(h, members)[n - 1], members[n])
<1>. DEFINE N == Len(members)
            Unfolded(g, n) == g = [i \in 0 .. n |-> IF i = 0 THEN Empty(h)
                                                   ELSE Place(h, g[i - 1], members[i])]
            S == {n \in 0 .. N : \E g : Unfolded(g, n)}
<1>1. 0 \in S
  <2>. DEFINE g == [i \in 0 .. 0 |-> Empty(h)]
  <2>1. Unfolded(g, 0)
    OBVIOUS
  <2>. HIDE DEF g, Unfolded
  <2>. QED BY <2>1
<1>2. ASSUME NEW n \in 0 .. N - 1, n \in S PROVE n + 1 \in S
  <2>1. PICK g : Unfolded(g, n)
    BY <1>2
  <2>. DEFINE k == [i \in 0 .. n + 1 |-> IF i = n + 1 THEN Place(h, g[n], members[n + 1])
                                                    ELSE g[i]]
  <2>2. Unfolded(k, n + 1)
    <3>. SUFFICES ASSUME NEW i \in 0 .. n + 1
                  PROVE  k[i] = IF i = 0 THEN Empty(h) ELSE Place(h, k[i - 1], members[i])
      OBVIOUS
    <3>1. CASE i = n + 1
      BY <3>1
    <3>2. CASE i \in 0 .. n
      BY <2>1, <3>2
    <3>. QED BY <3>1, <3>2
  <2>. HIDE DEF k, Unfolded
  <2>. QED BY <2>2
<1>3. N \in S
  <2>. HIDE DEF S
  <2>1. 0 .. N \subseteq S
    BY <1>1, <1>2, Induction
  <2>. QED BY <2>1
<1>4. \E g : Unfolded(g, N)
  BY <1>3
<1>5. Unfolded(Placed(h, members), N)
  BY <1>4 DEF Placed, Empty
<1>. QED BY <1>5

FieldType == {8, 16, 32}
Field == [first : Nat, bits : BOOLEAN, type : FieldType, size : Nat]
MemberRecord == [bits : BOOLEAN, type : FieldType, size : Nat, fields : Seq(Field)]
LaidRecord == [end : Nat, type : FieldType, align : FieldType, fields : Seq(Field)]

\* The integers among the fields are aligned, and stay so wherever they are put
\* with the alignment t.
AlignedIn(fields, t) ==
  \A i \in 1 .. Len(fields) :
    /\ fields[i].type <= t
    /\ ~fields[i].bits => fields[i].first % fields[i].type = 0

\* The fields take the bits from 0 to total, one right after the other.
Covers(fields, total) ==
  /\ fields = << >> => total = 0
  /\ fields # << >> => /\ fields[1].first = 0
                       /\ fields[Len(fields)].first + fields[Len(fields)].size = total
  /\ \A i \in 1 .. Len(fields) - 1 : fields[i + 1].first = fields[i].first + fields[i].size

\* A member of at least w bits, and of w bits only if nothing in it is padding.
Weighs(m, w) ==
  /\ m \in MemberRecord
  /\ AlignedIn(m.fields, m.type)
  /\ m.bits => \A i \in 1 .. Len(m.fields) : m.fields[i].bits
  /\ w \in Nat /\ w <= m.size
  /\ m.size = w => Covers(m.fields, w)

\* Members of together at least w bits; sums[i] is what the first i weigh.
WeighedBy(members, sums) ==
  /\ sums \in [0 .. Len(members) -> Nat]
  /\ sums[0] = 0
  /\ \A i \in 1 .. Len(members) :
       /\ sums[i - 1] <= sums[i]
       /\ Weighs(members[i], sums[i] - sums[i - 1])

AllWeigh(members, w) ==
  /\ members \in Seq(MemberRecord)
  /\ \E sums : WeighedBy(members, sums) /\ sums[Len(members)] = w

\* AlignUp never goes back, and by less than the alignment forward.
LEMMA AlignUpFits ==
  ASSUME NEW bit \in Nat, NEW n \in FieldType
  PROVE  /\ AlignUp(bit, n) \in Nat
         /\ bit <= AlignUp(bit, n)
         /\ AlignUp(bit, n) % n = 0
BY DEF AlignUp, FieldType

\* Fields moved by `first` bits.
Moved(fields, first) == [i \in DOMAIN fields |-> [fields[i] EXCEPT !.first = @ + first]]

LEMMA MovedFields ==
  ASSUME NEW fields \in Seq(Field), NEW first \in Nat
  PROVE  /\ Moved(fields, first) \in Seq(Field)
         /\ Len(Moved(fields, first)) = Len(fields)
         /\ \A i \in 1 .. Len(fields) :
              /\ Moved(fields, first)[i].first = fields[i].first + first
              /\ Moved(fields, first)[i].bits = fields[i].bits
              /\ Moved(fields, first)[i].type = fields[i].type
              /\ Moved(fields, first)[i].size = fields[i].size
<1>. DEFINE f(i) == [fields[i] EXCEPT !.first = @ + first]
<1>1. ASSUME NEW i \in 1 .. Len(fields)
      PROVE  /\ f(i) \in Field /\ f(i).first = fields[i].first + first
             /\ f(i).bits = fields[i].bits /\ f(i).type = fields[i].type
             /\ f(i).size = fields[i].size
  <2>. DEFINE e == fields[i]
  <2>1. e \in Field
    OBVIOUS
  <2>. DEFINE g == [e EXCEPT !.first = @ + first]
  <2>2. f(i) = g
    OBVIOUS
  <2>. HIDE DEF e, f
  <2>3. e.first \in Nat /\ e.first + first \in Nat
    BY <2>1 DEF Field
  <2>4. g \in Field /\ g.first = e.first + first
        /\ g.bits = e.bits /\ g.type = e.type /\ g.size = e.size
    <3>. DEFINE x == e.first + first
    <3>1. g = [e EXCEPT !.first = x] /\ x \in Nat
      BY <2>3
    <3>. HIDE DEF g, x
    <3>2. g \in Field
      BY <2>1, <3>1, Zenon DEF Field
    <3>3. g.first = x
      BY <2>1, <3>1 DEF Field
    <3>4. g.bits = e.bits
      BY <2>1, <3>1, Zenon DEF Field
    <3>5. g.type = e.type /\ g.size = e.size
      BY <2>1, <3>1 DEF Field
    <3>. QED BY <3>2, <3>3, <3>4, <3>5 DEF x
  <2>. HIDE DEF g
  <2>. QED BY <2>2, <2>4 DEF e
<1>2. Moved(fields, first) = [i \in 1 .. Len(fields) |-> f(i)]
  BY DEF Moved
<1>. HIDE DEF f
<1>3. Moved(fields, first) \in Seq(Field) /\ Len(Moved(fields, first)) = Len(fields)
  BY <1>1, <1>2
<1>. QED BY <1>1, <1>2, <1>3

\* A multiple of a multiple.
LEMMA SumOfMultiples ==
  ASSUME NEW a \in Nat, NEW b \in Nat, NEW u \in FieldType, NEW t \in FieldType,
         u <= t, a % u = 0, b % t = 0
  PROVE  (a + b) % u = 0
<1>1. CASE u = 8
  <2>1. t = 8 \/ t = 16 \/ t = 32
    BY DEF FieldType
  <2>. QED BY <1>1, <2>1
<1>2. CASE u = 16
  <2>1. t = 16 \/ t = 32
    BY <1>2 DEF FieldType
  <2>. QED BY <1>2, <2>1
<1>3. CASE u = 32
  <2>1. t = 32
    BY <1>3 DEF FieldType
  <2>. QED BY <1>3, <2>1
<1>. QED BY <1>1, <1>2, <1>3 DEF FieldType

\* Moved by a multiple of their alignment, the integers are still aligned.
LEMMA MovedAligned ==
  ASSUME NEW fields \in Seq(Field), NEW first \in Nat, NEW t \in FieldType,
         AlignedIn(fields, t), first % t = 0
  PROVE  AlignedIn(Moved(fields, first), t)
<1>. SUFFICES ASSUME NEW i \in 1 .. Len(fields)
              PROVE  LET f == Moved(fields, first)[i] IN
                     f.type <= t /\ (~f.bits => f.first % f.type = 0)
  BY MovedFields, Zenon DEF AlignedIn
<1>1. fields[i] \in Field
  OBVIOUS
<1>2. fields[i].type <= t /\ (~fields[i].bits => fields[i].first % fields[i].type = 0)
  BY DEF AlignedIn
<1>3. fields[i].type \in FieldType /\ fields[i].first \in Nat
  BY <1>1 DEF Field
<1>4. ASSUME fields[i].first % fields[i].type = 0
      PROVE  (fields[i].first + first) % fields[i].type = 0
  BY <1>2, <1>3, <1>4, SumOfMultiples
<1>. QED BY <1>2, <1>4, MovedFields, Zenon

\* Both blocks aligned, the whole is.
LEMMA AlignedAppend ==
  ASSUME NEW a \in Seq(Field), NEW b \in Seq(Field),
         NEW t \in FieldType, NEW u \in FieldType, NEW v \in FieldType, t <= v, u <= v,
         AlignedIn(a, t), AlignedIn(b, u)
  PROVE  AlignedIn(a \o b, v)
<1>. DEFINE c == a \o b
<1>. SUFFICES ASSUME NEW i \in 1 .. Len(c)
              PROVE  c[i].type <= v /\ (~c[i].bits => c[i].first % c[i].type = 0)
  BY Zenon DEF AlignedIn
<1>1. /\ \A j \in 1 .. Len(a) : a[j] \in Field
      /\ \A j \in 1 .. Len(b) : b[j] \in Field
  OBVIOUS
<1>2. CASE i <= Len(a)
  <2>1. c[i] = a[i] /\ i \in 1 .. Len(a)
    BY <1>2
  <2>2. a[i].type \in FieldType
    BY <1>1, <2>1 DEF Field
  <2>3. a[i].type <= t /\ (~a[i].bits => a[i].first % a[i].type = 0)
    BY <2>1, Zenon DEF AlignedIn
  <2>4. a[i].type <= v
    BY <2>2, <2>3 DEF FieldType
  <2>. QED BY <2>1, <2>3, <2>4, Zenon
<1>3. CASE i > Len(a)
  <2>. DEFINE j == i - Len(a)
  <2>1. c[i] = b[j] /\ j \in 1 .. Len(b)
    BY <1>3
  <2>. HIDE DEF c, j
  <2>2. b[j].type \in FieldType
    BY <1>1, <2>1 DEF Field
  <2>3. b[j].type <= u /\ (~b[j].bits => b[j].first % b[j].type = 0)
    BY <2>1, Zenon DEF AlignedIn
  <2>4. b[j].type <= v
    BY <2>2, <2>3 DEF FieldType
  <2>. QED BY <2>1, <2>3, <2>4, Zenon
<1>. QED BY <1>2, <1>3

\* One block of fields right after another covers both.
LEMMA CoversAppend ==
  ASSUME NEW a \in Seq(Field), NEW b \in Seq(Field), NEW e \in Nat, NEW w \in Nat,
         Covers(a, e), Covers(b, w)
  PROVE  Covers(a \o Moved(b, e), e + w)
<1>. DEFINE c == Moved(b, e)
            d == a \o c
            n == Len(a)
<1>1. /\ c \in Seq(Field) /\ Len(c) = Len(b)
      /\ \A i \in 1 .. Len(b) : c[i].first = b[i].first + e /\ c[i].size = b[i].size
  BY MovedFields
<1>. HIDE DEF c
<1>2. /\ d \in Seq(Field) /\ Len(d) = n + Len(b)
      /\ \A i \in 1 .. n : d[i] = a[i]
      /\ \A i \in n + 1 .. n + Len(b) : d[i] = c[i - n]
  BY <1>1
<1>3. /\ \A i \in 1 .. n : a[i].first \in Nat /\ a[i].size \in Nat
      /\ \A i \in 1 .. Len(b) : b[i].first \in Nat /\ b[i].size \in Nat
  <2>1. /\ \A i \in 1 .. n : a[i] \in Field
        /\ \A i \in 1 .. Len(b) : b[i] \in Field
    OBVIOUS
  <2>. QED BY <2>1, Zenon DEF Field
<1>. HIDE DEF d
<1>4. ASSUME NEW i \in 1 .. Len(d) - 1
      PROVE  d[i + 1].first = d[i].first + d[i].size
  <2>1. CASE i < n
    <3>1. i \in 1 .. n - 1 /\ i + 1 \in 1 .. n /\ i \in 1 .. n
      BY <2>1
    <3>2. a[i + 1].first = a[i].first + a[i].size
      BY <3>1 DEF Covers
    <3>3. d[i] = a[i] /\ d[i + 1] = a[i + 1]
      BY <1>2, <3>1
    <3>. QED BY <3>2, <3>3, Zenon
  <2>2. CASE i = n
    <3>0. /\ i \in 1 .. n /\ i + 1 \in n + 1 .. n + Len(b) /\ (i + 1) - n = 1
          /\ 1 \in 1 .. Len(b) /\ Len(b) > 0
      BY <1>2, <2>2
    <3>1. d[i] = a[n] /\ d[i + 1] = c[1] /\ a # << >> /\ b # << >> /\ 1 \in 1 .. Len(b)
      <4>1. d[i] = a[i] /\ d[i + 1] = c[1]
        BY <1>2, <3>0
      <4>2. a # << >> /\ b # << >>
        BY <3>0
      <4>. QED BY <2>2, <3>0, <4>1, <4>2
    <3>2. a[n].first + a[n].size = e /\ b[1].first = 0
      BY <3>1 DEF Covers
    <3>3. a[n].first + a[n].size = e /\ c[1].first = e
      BY <1>1, <3>1, <3>2
    <3>. QED BY <3>1, <3>3
  <2>3. CASE i > n
    <3>. DEFINE j == i - n
    <3>0. /\ i \in n + 1 .. n + Len(b) /\ i + 1 \in n + 1 .. n + Len(b)
          /\ (i + 1) - n = j + 1 /\ j \in 1 .. Len(b) - 1
      BY <1>2, <2>3
    <3>1. d[i] = c[j] /\ d[i + 1] = c[j + 1] /\ j \in 1 .. Len(b) - 1
      BY <1>2, <3>0
    <3>. HIDE DEF j
    <3>2. b[j + 1].first = b[j].first + b[j].size
      BY <3>1 DEF Covers
    <3>3. j \in 1 .. Len(b) /\ j + 1 \in 1 .. Len(b)
      BY <3>1
    <3>4. /\ c[j].first = b[j].first + e /\ c[j].size = b[j].size
          /\ c[j + 1].first = b[j + 1].first + e
          /\ b[j].first \in Nat /\ b[j].size \in Nat
      BY <1>1, <1>3, <3>3, Zenon
    <3>. QED BY <3>1, <3>2, <3>4
  <2>. QED BY <1>2, <2>1, <2>2, <2>3
<1>5. CASE b = << >>
  <2>1. d = a /\ w = 0
    BY <1>1, <1>5 DEF Covers, d
  <2>. QED BY <2>1 DEF d, c
<1>6. CASE b # << >> 
  <2>1. d # << >> /\ d[Len(d)] = c[Len(b)] /\ Len(b) \in 1 .. Len(b)
    <3>1. Len(b) >= 1 /\ Len(d) >= 1
      BY <1>1, <1>2, <1>6
    <3>. QED BY <1>1, <1>2, <3>1
  <2>2. d[Len(d)].first + d[Len(d)].size = e + w
    <3>1. b[Len(b)].first + b[Len(b)].size = w
      BY <1>6 DEF Covers
    <3>. QED BY <1>1, <1>3, <2>1, <3>1
  <2>3. d[1].first = 0
    <3>1. CASE a = << >>
      BY <1>1, <1>2, <1>6, <3>1 DEF Covers
    <3>2. CASE a # << >>
      BY <1>2, <3>2 DEF Covers
    <3>. QED BY <3>1, <3>2
  <2>4. Covers(d, e + w)
    BY <1>4, <2>1, <2>2, <2>3 DEF Covers
  <2>. QED BY <2>4 DEF d, c
<1>. QED BY <1>5, <1>6

\* Placing a member: never before the end of what is there, and if right at it
\* and without padding inside, the fields stay dense.
LEMMA PlaceWeighs ==
  ASSUME NEW h \in Host, NEW laid \in LaidRecord, NEW s \in Nat, NEW m, NEW w,
         AlignedIn(laid.fields, laid.align), s <= laid.end,
         laid.end = s => Covers(laid.fields, s),
         Weighs(m, w)
  PROVE  LET next == Place(h, laid, m) IN
         /\ next \in LaidRecord
         /\ AlignedIn(next.fields, next.align)
         /\ laid.end + m.size <= next.end
         /\ next.end = s + w => Covers(next.fields, s + w)
<1>. DEFINE free == IF h.separate /\ laid.type # m.type THEN AlignUp(laid.end, laid.type)
                                                      ELSE laid.end
            inUnit == free \div m.type = (free + m.size - 1) \div m.type
            first == IF m.bits /\ inUnit THEN free ELSE AlignUp(free, m.type)
            align == IF m.type > laid.align THEN m.type ELSE laid.align
            fields == laid.fields \o Moved(m.fields, first)
            next == Place(h, laid, m)
<1>1. /\ laid.end \in Nat /\ laid.type \in FieldType /\ laid.align \in FieldType
      /\ laid.fields \in Seq(Field)
  BY DEF LaidRecord
<1>2. /\ m.bits \in BOOLEAN /\ m.type \in FieldType /\ m.size \in Nat
      /\ m.fields \in Seq(Field) /\ AlignedIn(m.fields, m.type)
      /\ w \in Nat /\ w <= m.size /\ (m.size = w => Covers(m.fields, w))
  BY DEF Weighs, MemberRecord
<1>3. free \in Nat /\ laid.end <= free
  <2>1. /\ AlignUp(laid.end, laid.type) \in Nat
        /\ laid.end <= AlignUp(laid.end, laid.type)
    BY <1>1, AlignUpFits
  <2>. QED BY <1>1, <2>1
<1>4. first \in Nat /\ free <= first
  <2>. HIDE DEF free, inUnit
  <2>. QED BY <1>2, <1>3, AlignUpFits
<1>5. next = [end |-> first + m.size, type |-> IF m.bits THEN m.type ELSE 8,
              align |-> align, fields |-> fields]
  BY Zenon DEF Place, Moved
<1>6. align \in FieldType /\ m.type <= align /\ laid.align <= align
  BY <1>1, <1>2 DEF FieldType
<1>7. fields \in Seq(Field)
  <2>. HIDE DEF first
  <2>. QED BY <1>1, <1>2, <1>4, MovedFields
<1>8. AlignedIn(Moved(m.fields, first), m.type)
  <2>1. CASE m.bits /\ inUnit
    <3>1. \A i \in 1 .. Len(m.fields) : m.fields[i].bits
      BY <2>1 DEF Weighs
    <3>. HIDE DEF first
    <3>. QED BY <1>2, <1>4, <3>1, MovedFields DEF AlignedIn
  <2>2. CASE ~(m.bits /\ inUnit)
    <3>1. first = AlignUp(free, m.type)
      BY <2>2
    <3>2. first % m.type = 0
      <4>. HIDE DEF free, first
      <4>. QED BY <1>2, <1>3, <3>1, AlignUpFits
    <3>. HIDE DEF first
    <3>. QED BY <1>2, <1>4, <3>2, MovedAligned
  <2>. QED BY <2>1, <2>2
<1>9. AlignedIn(fields, align)
  <2>. HIDE DEF first, align
  <2>. QED BY <1>1, <1>2, <1>4, <1>6, <1>8, MovedFields, AlignedAppend
<1>10. ASSUME first + m.size = s + w PROVE Covers(fields, s + w)
  <2>1. s \in Nat /\ first = s /\ laid.end = s /\ m.size = w
    <3>. HIDE DEF first, free
    <3>. QED BY <1>1, <1>2, <1>3, <1>4, <1>10
  <2>. HIDE DEF first
  <2>. QED BY <1>1, <1>2, <2>1, CoversAppend
<1>. QED
  <2>. HIDE DEF first, align, fields
  <2>1. next \in LaidRecord
    BY <1>2, <1>4, <1>5, <1>6, <1>7 DEF LaidRecord, FieldType
  <2>2. next.end = first + m.size /\ next.align = align /\ next.fields = fields
    BY <1>5
  <2>. HIDE DEF next
  <2>3. laid.end + m.size <= next.end
    <3>. HIDE DEF free
    <3>. QED BY <1>1, <1>2, <1>3, <1>4, <2>2
  <2>4. AlignedIn(next.fields, next.align) /\ (next.end = s + w => Covers(next.fields, s + w))
    BY <1>9, <1>10, <2>2, Zenon
  <2>. QED BY <2>1, <2>3, <2>4 DEF next

\* What has been laid out: at least the bits it weighs, and dense if not more.
LaidWhole(laid, s) ==
  /\ laid \in LaidRecord
  /\ AlignedIn(laid.fields, laid.align)
  /\ s <= laid.end
  /\ laid.end = s => Covers(laid.fields, s)

LEMMA LaidWeighs ==
  ASSUME NEW h \in Host, NEW members \in Seq(MemberRecord), NEW sums,
         WeighedBy(members, sums)
  PROVE  \A n \in 0 .. Len(members) : LaidWhole(Placed(h, members)[n], sums[n])
<1>. DEFINE laid == Placed(h, members)
            N == Len(members)
            S == {n \in 0 .. N : LaidWhole(laid[n], sums[n])}
<1>1. N \in Nat /\ \A n \in 0 .. N : sums[n] \in Nat
  BY DEF WeighedBy
<1>2. 0 \in S
  <2>1. laid[0] = Empty(h) /\ sums[0] = 0
    BY <1>1, LaidUnfolds DEF WeighedBy
  <2>2. Empty(h) \in LaidRecord
    BY DEF Empty, LaidRecord, FieldType, Host
  <2>3. Empty(h).fields = << >> /\ Empty(h).end = 0
    BY DEF Empty
  <2>4. Len(<< >>) = 0
    OBVIOUS
  <2>5. AlignedIn(Empty(h).fields, Empty(h).align) /\ Covers(Empty(h).fields, 0)
    BY <2>3, <2>4 DEF AlignedIn, Covers
  <2>6. LaidWhole(Empty(h), 0)
    BY <2>2, <2>3, <2>5 DEF LaidWhole
  <2>. QED BY <1>1, <2>1, <2>6
<1>3. ASSUME NEW n \in 0 .. N - 1, n \in S PROVE n + 1 \in S
  <2>1. n + 1 \in 1 .. N /\ n + 1 \in 0 .. N /\ (n + 1) - 1 = n
    BY <1>1
  <2>2. laid[n + 1] = Place(h, laid[n], members[n + 1])
    BY <1>1, <2>1, LaidUnfolds
  <2>. DEFINE w == sums[n + 1] - sums[n]
  <2>3. Weighs(members[n + 1], w) /\ sums[n] <= sums[n + 1]
    BY <2>1 DEF WeighedBy
  <2>4. w \in Nat /\ sums[n] \in Nat /\ sums[n] + w = sums[n + 1]
    BY <1>1, <2>1, <2>3
  <2>5. LaidWhole(laid[n], sums[n])
    BY <1>3
  <2>. HIDE DEF w, laid
  <2>6. /\ laid[n + 1] \in LaidRecord
        /\ AlignedIn(laid[n + 1].fields, laid[n + 1].align)
        /\ laid[n].end + members[n + 1].size <= laid[n + 1].end
        /\ laid[n + 1].end = sums[n + 1] => Covers(laid[n + 1].fields, sums[n + 1])
    BY <2>2, <2>3, <2>4, <2>5, PlaceWeighs DEF LaidWhole
  <2>7. sums[n + 1] <= laid[n + 1].end
    <3>1. laid[n].end \in Nat /\ laid[n + 1].end \in Nat /\ sums[n] <= laid[n].end
      BY <2>5, <2>6 DEF LaidWhole, LaidRecord
    <3>2. members[n + 1].size \in Nat /\ w <= members[n + 1].size
      BY <2>3 DEF Weighs, MemberRecord
    <3>3. laid[n].end + members[n + 1].size <= laid[n + 1].end
      BY <2>6, Zenon
    <3>. HIDE DEF N
    <3>. QED BY <2>4, <3>1, <3>2, <3>3
  <2>8. LaidWhole(laid[n + 1], sums[n + 1])
    BY <2>6, <2>7 DEF LaidWhole
  <2>. QED BY <2>1, <2>8
<1>. HIDE DEF S
<1>4. 0 .. N \subseteq S
  BY <1>1, <1>2, <1>3, Induction
<1>. QED BY <1>4 DEF S

\* A struct of at least w bits, and of w bits only if nothing in it is padding.
StructWhole(s, w) ==
  /\ s.align \in FieldType /\ s.fields \in Seq(Field)
  /\ AlignedIn(s.fields, s.align)
  /\ s.size \in Nat /\ s.size % 8 = 0
  /\ w \in Nat /\ w <= s.size
  /\ s.size = w => Covers(s.fields, w)

LEMMA StructWeighs ==
  ASSUME NEW h \in Host, NEW members, NEW w, AllWeigh(members, w)
  PROVE  StructWhole(Struct(h, members), w)
<1>. DEFINE N == Len(members)
            laid == Placed(h, members)[N]
            s == Struct(h, members)
            unit == IF h.separate THEN laid.type ELSE 8
<1>1. PICK sums : WeighedBy(members, sums) /\ sums[N] = w
  BY DEF AllWeigh
<1>2. members \in Seq(MemberRecord) /\ N \in Nat /\ N \in 0 .. N
  BY DEF AllWeigh
<1>3. LaidWhole(laid, w) /\ w \in Nat
  <2>1. LaidWhole(laid, sums[N])
    BY <1>1, <1>2, LaidWeighs, Zenon
  <2>. QED BY <1>1, <1>2, <2>1 DEF WeighedBy
<1>4. s = [fields |-> laid.fields, align |-> laid.align,
           size |-> AlignUp(AlignUp(laid.end, unit), laid.align)]
  BY Zenon DEF Struct
<1>5. /\ laid.end \in Nat /\ laid.type \in FieldType /\ laid.align \in FieldType
      /\ laid.fields \in Seq(Field)
  BY <1>3 DEF LaidWhole, LaidRecord
<1>. HIDE DEF laid
<1>6. unit \in FieldType
  BY <1>5 DEF FieldType
<1>. HIDE DEF unit
<1>7. AlignUp(laid.end, unit) \in Nat /\ laid.end <= AlignUp(laid.end, unit)
  BY <1>5, <1>6, AlignUpFits
<1>8. /\ s.fields = laid.fields /\ s.align = laid.align
      /\ s.size = AlignUp(AlignUp(laid.end, unit), laid.align)
  BY <1>4
<1>. HIDE DEF s
<1>9. s.size \in Nat /\ laid.end <= s.size /\ s.size % laid.align = 0
  <2>. DEFINE end == AlignUp(laid.end, unit)
  <2>. HIDE DEF end
  <2>1. /\ AlignUp(end, laid.align) \in Nat /\ end <= AlignUp(end, laid.align)
        /\ AlignUp(end, laid.align) % laid.align = 0
    BY <1>5, <1>7, AlignUpFits DEF end
  <2>. QED BY <1>5, <1>7, <1>8, <2>1 DEF end
<1>10. s.size % 8 = 0
  BY <1>5, <1>9 DEF FieldType
<1>11. w <= s.size /\ (s.size = w => laid.end = w)
  BY <1>3, <1>5, <1>9 DEF LaidWhole
<1>. QED BY <1>3, <1>5, <1>8, <1>9, <1>10, <1>11, Zenon DEF StructWhole, LaidWhole, s

\* One member.
LEMMA OneWeighs ==
  ASSUME NEW m, NEW w, Weighs(m, w)
  PROVE  AllWeigh(<< m >>, w)
<1>. DEFINE sums == [i \in 0 .. 1 |-> IF i = 0 THEN 0 ELSE w]
<1>1. w \in Nat /\ m \in MemberRecord
  BY DEF Weighs
<1>2. Len(<< m >>) = 1 /\ << m >>[1] = m /\ << m >> \in Seq(MemberRecord)
  BY <1>1
<1>3. sums \in [0 .. 1 -> Nat] /\ sums[0] = 0 /\ sums[1] = w /\ w - 0 = w /\ 0 <= w
  BY <1>1
<1>. HIDE DEF sums
<1>4. WeighedBy(<< m >>, sums)
  BY <1>2, <1>3 DEF WeighedBy
<1>. QED BY <1>2, <1>3, <1>4, Zenon DEF AllWeigh

LEMMA SubWeighs ==
  ASSUME NEW s, NEW w, StructWhole(s, w)
  PROVE  AllWeigh(Sub(s), w)
<1>. DEFINE m == [bits |-> FALSE, type |-> s.align, size |-> s.size, fields |-> s.fields]
<1>1. Weighs(m, w)
  BY DEF StructWhole, Weighs, MemberRecord
<1>. HIDE DEF m
<1>2. AllWeigh(<< m >>, w)
  BY <1>1, OneWeighs
<1>. QED BY <1>2 DEF Sub, m

\* A member that is one field.
LEMMA FieldWeighs ==
  ASSUME NEW bits \in BOOLEAN, NEW type \in FieldType, NEW size \in Nat
  PROVE  Weighs(Member(bits, type, size), size)
<1>. DEFINE f == [first |-> 0, bits |-> bits, type |-> type, size |-> size]
            m == Member(bits, type, size)
<1>1. f \in Field
  BY DEF Field
<1>2. /\ f.first = 0 /\ f.bits = bits /\ f.type = type /\ f.size = size
      /\ m = [bits |-> bits, type |-> type, size |-> size, fields |-> << f >>]
  BY DEF Member
<1>3. m \in MemberRecord
  <2>1. << f >> \in Seq(Field)
    BY <1>1
  <2>. QED BY <1>2, <2>1 DEF MemberRecord
<1>4. /\ m.fields = << f >> /\ m.bits = bits /\ m.type = type /\ m.size = size
  BY <1>2
<1>. HIDE DEF m, f
<1>5. Len(<< f >>) = 1 /\ << f >>[1] = f /\ << f >> # << >>
  OBVIOUS
<1>6. AlignedIn(m.fields, m.type) /\ Covers(m.fields, size)
      /\ (m.bits => \A i \in 1 .. Len(m.fields) : m.fields[i].bits)
  <2>1. type \in Nat /\ type <= type /\ 0 % type = 0 /\ 0 + size = size
    BY DEF FieldType
  <2>. QED BY <1>2, <1>4, <1>5, <2>1 DEF AlignedIn, Covers
<1>. QED BY <1>3, <1>4, <1>6 DEF Weighs, m

LEMMA IntsWeigh ==
  ASSUME NEW type \in FieldType, NEW n \in Nat
  PROVE  AllWeigh(Ints(type, n), n * type)
<1>1. n * type \in Nat
  BY DEF FieldType
<1>2. Weighs(Member(FALSE, type, n * type), n * type)
  BY <1>1, FieldWeighs
<1>. QED BY <1>2, OneWeighs DEF Ints

\* Members one after the other weigh what they weigh together.
LEMMA WeighTogether ==
  ASSUME NEW a, NEW b, NEW u \in Nat, NEW v \in Nat, NEW w \in Nat,
         AllWeigh(a, u), AllWeigh(b, v), u + v = w
  PROVE  AllWeigh(a \o b, w)
<1>1. PICK sa : WeighedBy(a, sa) /\ sa[Len(a)] = u
  BY DEF AllWeigh
<1>2. PICK sb : WeighedBy(b, sb) /\ sb[Len(b)] = v
  BY DEF AllWeigh
<1>. DEFINE n == Len(a)
            k == Len(b)
            c == a \o b
            sums == [i \in 0 .. n + k |-> IF i <= n THEN sa[i] ELSE u + sb[i - n]]
<1>3. a \in Seq(MemberRecord) /\ b \in Seq(MemberRecord) /\ n \in Nat /\ k \in Nat
  BY DEF AllWeigh
<1>4. /\ c \in Seq(MemberRecord) /\ Len(c) = n + k
      /\ \A i \in 1 .. n : c[i] = a[i]
      /\ \A i \in n + 1 .. n + k : c[i] = b[i - n]
  BY <1>3
<1>5. /\ \A i \in 0 .. n : sa[i] \in Nat
      /\ \A i \in 0 .. k : sb[i] \in Nat
      /\ sa[0] = 0 /\ sb[0] = 0 /\ sa[n] = u /\ sb[k] = v /\ u \in Nat /\ v \in Nat
  <2>1. sa \in [0 .. n -> Nat] /\ sb \in [0 .. k -> Nat] /\ sa[0] = 0 /\ sb[0] = 0
    BY <1>1, <1>2 DEF WeighedBy
  <2>2. n \in 0 .. n /\ k \in 0 .. k
    BY <1>3
  <2>. QED BY <1>1, <1>2, <2>1, <2>2
<1>. HIDE DEF c, n, k
<1>6. sums \in [0 .. n + k -> Nat] /\ sums[0] = 0
  BY <1>3, <1>5
<1>7. sums[n + k] = u + v
  <2>1. CASE k = 0
    <3>1. n + k = n /\ n \in 0 .. n + k /\ n <= n /\ v = 0 /\ u + v = u
      BY <1>3, <1>5, <2>1
    <3>2. sums[n + k] = sa[n]
      BY <3>1
    <3>. QED BY <1>5, <3>1, <3>2
  <2>2. CASE k > 0
    <3>1. n + k \in 0 .. n + k /\ ~(n + k <= n) /\ (n + k) - n = k
      BY <1>3, <2>2
    <3>. QED BY <1>5, <3>1
  <2>. QED BY <1>3, <2>1, <2>2
<1>8. ASSUME NEW i \in 1 .. n + k
      PROVE  sums[i - 1] <= sums[i] /\ Weighs(c[i], sums[i] - sums[i - 1])
  <2>1. CASE i <= n
    <3>1. sums[i] = sa[i] /\ sums[i - 1] = sa[i - 1] /\ c[i] = a[i] /\ i \in 1 .. n
      BY <1>3, <1>4, <2>1
    <3>. QED BY <1>1, <3>1 DEF WeighedBy, n
  <2>2. CASE i > n
    <3>. DEFINE j == i - n
    <3>1. sums[i] = u + sb[j] /\ c[i] = b[j] /\ j \in 1 .. k
      <4>1. i \in 0 .. n + k /\ ~(i <= n) /\ i \in n + 1 .. n + k /\ i - n \in 1 .. k
        BY <1>3, <2>2
      <4>. QED BY <1>4, <4>1
    <3>2. sums[i - 1] = u + sb[j - 1]
      <4>1. CASE i = n + 1
        <5>1. i - 1 = n /\ j - 1 = 0 /\ n \in 0 .. n + k
          BY <1>3, <4>1
        <5>. QED BY <1>3, <1>5, <5>1
      <4>2. CASE i > n + 1
        <5>1. i - 1 \in 0 .. n + k /\ ~(i - 1 <= n) /\ (i - 1) - n = j - 1
          BY <1>3, <4>2
        <5>. QED BY <5>1
      <4>. QED BY <1>3, <2>2, <4>1, <4>2
    <3>. HIDE DEF sums, j
    <3>3. sb[j - 1] <= sb[j] /\ Weighs(b[j], sb[j] - sb[j - 1])
      BY <1>2, <3>1 DEF WeighedBy, k
    <3>4. sb[j] \in Nat /\ sb[j - 1] \in Nat
      <4>1. j \in 0 .. k /\ j - 1 \in 0 .. k
        BY <1>3, <3>1
      <4>. QED BY <1>5, <4>1
    <3>5. sums[i] - sums[i - 1] = sb[j] - sb[j - 1] /\ sums[i - 1] <= sums[i]
      BY <1>5, <3>1, <3>2, <3>3, <3>4
    <3>. QED BY <3>1, <3>3, <3>5
  <2>. QED BY <1>3, <2>1, <2>2
<1>. HIDE DEF sums
<1>9. WeighedBy(c, sums)
  BY <1>4, <1>6, <1>8 DEF WeighedBy
<1>. QED BY <1>4, <1>7, <1>9, Zenon DEF AllWeigh, c

\* Bit-fields weigh the sum of their widths.
SumTo(widths, sums, w) ==
  /\ widths \in Seq(Nat) /\ sums \in Seq(Nat) /\ Len(sums) = Len(widths) /\ Len(widths) > 0
  /\ sums[1] = widths[1] /\ sums[Len(sums)] = w
  /\ \A i \in 2 .. Len(widths) : sums[i] = sums[i - 1] + widths[i]

LEMMA BitsWeigh ==
  ASSUME NEW type \in FieldType, NEW widths, NEW sums, NEW w, SumTo(widths, sums, w)
  PROVE  AllWeigh(Bits(type, widths), w)
<1>. DEFINE n == Len(widths)
            m == Bits(type, widths)
            s == [i \in 0 .. n |-> IF i = 0 THEN 0 ELSE sums[i]]
<1>1. /\ n \in Nat /\ n > 0 /\ DOMAIN widths = 1 .. n
      /\ \A i \in 1 .. n : widths[i] \in Nat /\ sums[i] \in Nat
  BY DEF SumTo
<1>2. m = [i \in 1 .. n |-> Member(TRUE, type, widths[i])]
  BY <1>1 DEF Bits
<1>3. \A i \in 1 .. n : Weighs(m[i], widths[i])
  BY <1>1, <1>2, FieldWeighs
<1>. HIDE DEF m
<1>4. m \in Seq(MemberRecord) /\ Len(m) = n
  <2>1. \A i \in 1 .. n : m[i] \in MemberRecord
    BY <1>3 DEF Weighs
  <2>2. m = [i \in 1 .. n |-> m[i]]
    BY <1>2
  <2>. QED BY <1>1, <2>1, <2>2
<1>5. s \in [0 .. n -> Nat] /\ s[0] = 0 /\ s[n] = w
  BY <1>1 DEF SumTo
<1>6. ASSUME NEW i \in 1 .. n PROVE s[i - 1] <= s[i] /\ s[i] - s[i - 1] = widths[i]
  <2>1. CASE i = 1
    <3>1. s[0] = 0 /\ s[1] = widths[1] /\ widths[1] \in Nat
      BY <1>1, <2>1 DEF SumTo
    <3>. QED BY <2>1, <3>1
  <2>2. CASE i > 1
    <3>1. i \in 2 .. n /\ i - 1 \in 1 .. n /\ i - 1 \in 0 .. n /\ i \in 0 .. n
      BY <1>1, <2>2
    <3>2. s[i] = sums[i] /\ s[i - 1] = sums[i - 1] /\ sums[i] = sums[i - 1] + widths[i]
      BY <3>1 DEF SumTo
    <3>. QED BY <1>1, <3>1, <3>2
  <2>. QED BY <1>1, <2>1, <2>2
<1>. HIDE DEF s
<1>7. WeighedBy(m, s)
  BY <1>3, <1>4, <1>5, <1>6 DEF WeighedBy
<1>. QED BY <1>4, <1>5, <1>7, Zenon DEF AllWeigh, m


\* Widths of bit-fields that together are w bits, in units of whatever type.
WidthsSum(widths, w) ==
  widths \in Seq(Nat) /\ \A type \in FieldType : AllWeigh(Bits(type, widths), w)

LEMMA ListedWidths ==
  ASSUME NEW widths, NEW sums, NEW w, SumTo(widths, sums, w)
  PROVE  WidthsSum(widths, w)
<1>1. widths \in Seq(Nat)
  BY DEF SumTo
<1>. QED BY <1>1, BitsWeigh DEF WidthsSum

LEMMA FlagWidths ==
  ASSUME NEW n \in Nat \ {0}
  PROVE  WidthsSum(Flags(n), n)
<1>. DEFINE sums == [i \in 1 .. n |-> i]
<1>1. sums \in Seq(Nat) /\ Len(sums) = n /\ sums[n] = n /\ sums[1] = 1
  OBVIOUS
<1>2. Flags(n) \in Seq(Nat) /\ Len(Flags(n)) = n /\ \A i \in 1 .. n : Flags(n)[i] = 1
  BY DEF Flags
<1>3. ASSUME NEW i \in 2 .. n PROVE sums[i] = sums[i - 1] + Flags(n)[i]
  BY <1>2
<1>. HIDE DEF sums
<1>4. SumTo(Flags(n), sums, n)
  BY <1>1, <1>2, <1>3 DEF SumTo
<1>. QED BY <1>4, ListedWidths

LEMMA WidthsTogether ==
  ASSUME NEW a, NEW b, NEW u \in Nat, NEW v \in Nat, NEW w \in Nat,
         WidthsSum(a, u), WidthsSum(b, v), u + v = w
  PROVE  WidthsSum(a \o b, w)
<1>1. a \in Seq(Nat) /\ b \in Seq(Nat) /\ a \o b \in Seq(Nat)
  BY DEF WidthsSum
<1>2. ASSUME NEW type \in FieldType
      PROVE  Bits(type, a \o b) = Bits(type, a) \o Bits(type, b)
  <2>. DEFINE M(k) == Member(TRUE, type, k)
  <2>1. /\ Bits(type, a) = [i \in 1 .. Len(a) |-> M(a[i])]
        /\ Bits(type, b) = [i \in 1 .. Len(b) |-> M(b[i])]
        /\ Bits(type, a \o b) = [i \in 1 .. Len(a) + Len(b) |-> M((a \o b)[i])]
    <3>1. /\ DOMAIN a = 1 .. Len(a) /\ DOMAIN b = 1 .. Len(b)
          /\ DOMAIN (a \o b) = 1 .. Len(a) + Len(b)
      BY <1>1
    <3>. QED BY <3>1, Zenon DEF Bits
  <2>. HIDE DEF M
  <2>2. \A i \in 1 .. Len(a) + Len(b) :
          (a \o b)[i] = IF i <= Len(a) THEN a[i] ELSE b[i - Len(a)]
    BY <1>1
  <2>3. [i \in 1 .. Len(a) |-> M(a[i])] \o [i \in 1 .. Len(b) |-> M(b[i])]
          = [i \in 1 .. Len(a) + Len(b) |-> IF i <= Len(a) THEN M(a[i]) ELSE M(b[i - Len(a)])]
    BY <1>1
  <2>4. [i \in 1 .. Len(a) + Len(b) |-> IF i <= Len(a) THEN M(a[i]) ELSE M(b[i - Len(a)])]
          = [i \in 1 .. Len(a) + Len(b) |-> M((a \o b)[i])]
    BY <2>2
  <2>. QED BY <2>1, <2>3, <2>4, Zenon
<1>3. ASSUME NEW type \in FieldType PROVE AllWeigh(Bits(type, a \o b), w)
  <2>1. AllWeigh(Bits(type, a), u) /\ AllWeigh(Bits(type, b), v)
    BY DEF WidthsSum
  <2>2. AllWeigh(Bits(type, a) \o Bits(type, b), w)
    BY <2>1, WeighTogether
  <2>. QED BY <1>2, <2>2
<1>. QED BY <1>1, <1>3 DEF WidthsSum

\* Four parts at once.
LEMMA FourTogether ==
  ASSUME NEW a, NEW b, NEW c, NEW d, NEW y \in Nat,
         NEW u \in Nat, NEW v \in Nat, NEW w \in Nat, NEW x \in Nat,
         AllWeigh(a, u), AllWeigh(b, v), AllWeigh(c, w), AllWeigh(d, x), u + v + w + x = y
  PROVE  AllWeigh(a \o b \o c \o d, y)
<1>1. AllWeigh(a \o b, u + v)
  BY WeighTogether
<1>2. AllWeigh(a \o b \o c, u + v + w)
  BY <1>1, WeighTogether
<1>. QED BY <1>2, WeighTogether

\* n words of 16 bits.
LEMMA WordsWeigh ==
  ASSUME NEW n \in Nat, NEW w \in Nat, 16 * n = w
  PROVE  AllWeigh([i \in 1 .. n |-> Ints(16, 1)[1]], w)
<1>. DEFINE m == Member(FALSE, 16, 16)
            words == [i \in 1 .. n |-> m]
            sums == [i \in 0 .. n |-> 16 * i]
<1>1. Ints(16, 1)[1] = m
  BY DEF Ints
<1>2. Weighs(m, 16)
  BY FieldWeighs DEF FieldType
<1>3. m \in MemberRecord
  BY <1>2 DEF Weighs
<1>. HIDE DEF m
<1>4. words \in Seq(MemberRecord) /\ Len(words) = n /\ \A i \in 1 .. n : words[i] = m
  BY <1>3
<1>5. sums \in [0 .. n -> Nat] /\ sums[0] = 0 /\ sums[n] = 16 * n
  OBVIOUS
<1>6. \A i \in 1 .. n : sums[i - 1] <= sums[i] /\ sums[i] - sums[i - 1] = 16
  OBVIOUS
<1>. HIDE DEF words, sums
<1>7. WeighedBy(words, sums)
  BY <1>2, <1>4, <1>5, <1>6 DEF WeighedBy
<1>8. AllWeigh(words, w)
  BY <1>4, <1>5, <1>7, Zenon DEF AllWeigh
<1>. QED BY <1>1, <1>8 DEF words

\* What each struct of descriptor.h weighs: the parts of the map section.
LEMMA MapSectionWeighs ==
  ASSUME NEW h \in Host PROVE StructWhole(FLMAPS(h), 96)
<1>1. /\ WidthsSum(<<8, 2, 6, 8, 3, 5>>, 32)
      /\ WidthsSum(<<8, 3, 5, 8, 8>>, 32)
      /\ WidthsSum(<<8, 8>>, 16)
      /\ WidthsSum(<<16>>, 16)
  <2>1. SumTo(<<8, 2, 6, 8, 3, 5>>, <<8, 10, 16, 24, 27, 32>>, 32)
    BY DEF SumTo
  <2>2. SumTo(<<8, 3, 5, 8, 8>>, <<8, 11, 16, 24, 32>>, 32)
    BY DEF SumTo
  <2>3. SumTo(<<8, 8>>, <<8, 16>>, 16)
    BY DEF SumTo
  <2>4. SumTo(<<16>>, <<16>>, 16)
    BY DEF SumTo
  <2>. QED BY <2>1, <2>2, <2>3, <2>4, ListedWidths
<1>2. StructWhole(FLMAP0(h), 32) /\ StructWhole(FLMAP1(h), 32)
  BY <1>1, StructWeighs DEF WidthsSum, FieldType, FLMAP0, FLMAP1
<1>3. StructWhole(FLMAP2(h), 32)
  <2>1. AllWeigh(Bits(8, <<8, 8>>), 16) /\ AllWeigh(Bits(16, <<16>>), 16)
    BY <1>1 DEF WidthsSum, FieldType
  <2>2. AllWeigh(Bits(8, <<8, 8>>) \o Bits(16, <<16>>), 32)
    BY <2>1, WeighTogether, 16 + 16 = 32
  <2>. QED BY <2>2, StructWeighs DEF FLMAP2
<1>4. AllWeigh(Sub(FLMAP0(h)) \o Sub(FLMAP1(h)), 64)
  BY <1>2, SubWeighs, WeighTogether, 32 + 32 = 64
<1>5. AllWeigh(Sub(FLMAP0(h)) \o Sub(FLMAP1(h)) \o Sub(FLMAP2(h)), 96)
  BY <1>3, <1>4, SubWeighs, WeighTogether, 64 + 32 = 96
<1>. QED BY <1>5, StructWeighs DEF FLMAPS

LEMMA ComponentSectionWeighs ==
  ASSUME NEW h \in Host PROVE StructWhole(COMPONENTSECTIONRECORD(h), 384)
<1>1. StructWhole(FLCOMP(h), 32)
  <2>1. SumTo(<<3, 3, 2, 8, 1, 3, 1, 3, 3, 3, 2>>, <<3, 6, 8, 16, 17, 20, 21, 24, 27, 30, 32>>, 32)
    BY DEF SumTo
  <2>. QED BY <2>1, BitsWeigh, StructWeighs DEF FieldType, FLCOMP
<1>2. AllWeigh(Sub(FLCOMP(h)), 32) /\ AllWeigh(Ints(32, 1), 32) /\ AllWeigh(Ints(8, 36), 288)
  BY <1>1, SubWeighs, IntsWeigh, 1 * 32 = 32, 36 * 8 = 288 DEF FieldType
<1>3. AllWeigh(Sub(FLCOMP(h)) \o Ints(32, 1) \o Ints(32, 1) \o Ints(8, 36), 384)
  BY <1>2, FourTogether, 32 + 32 + 32 + 288 = 384
<1>. QED BY <1>3, StructWeighs DEF COMPONENTSECTIONRECORD

LEMMA RegionSectionWeighs ==
  ASSUME NEW h \in Host PROVE StructWhole(REGIONSECTIONRECORD(h), 256)
<1>1. StructWhole(FLREG(h), 32)
  <2>1. SumTo(<<13, 3, 13, 3>>, <<13, 16, 29, 32>>, 32)
    BY DEF SumTo
  <2>. QED BY <2>1, BitsWeigh, StructWeighs DEF FieldType, FLREG
<1>. DEFINE reg == Sub(FLREG(h))
<1>2. AllWeigh(reg, 32) /\ AllWeigh(Ints(8, 12), 96)
  BY <1>1, SubWeighs, IntsWeigh, 12 * 8 = 96 DEF FieldType
<1>. HIDE DEF reg
<1>3. AllWeigh(reg \o reg \o reg \o reg, 128)
  BY <1>2, FourTogether, 32 + 32 + 32 + 32 = 128
<1>4. AllWeigh(reg \o reg \o reg \o reg \o reg, 160)
  BY <1>2, <1>3, WeighTogether, 128 + 32 = 160
<1>5. AllWeigh(reg \o reg \o reg \o reg \o reg \o Ints(8, 12), 256)
  BY <1>2, <1>4, WeighTogether, 160 + 96 = 256
<1>. QED BY <1>5, StructWeighs DEF REGIONSECTIONRECORD, reg

LEMMA MasterSectionWeighs ==
  ASSUME NEW h \in Host PROVE StructWhole(MASTERACCESSSECTIONRECORD(h), 1280)
<1>1. SumTo(<<16>>, <<16>>, 16) /\ SumTo(<<3>>, <<3>>, 3)
  BY DEF SumTo
<1>2. WidthsSum(Flags(5) \o <<3>> \o Flags(5) \o <<3>>, 16)
  <2>1. WidthsSum(Flags(5), 5) /\ WidthsSum(<<3>>, 3)
    BY <1>1, ListedWidths, FlagWidths
  <2>2. WidthsSum(Flags(5) \o <<3>>, 8)
    BY <2>1, WidthsTogether, 5 + 3 = 8
  <2>3. WidthsSum(Flags(5) \o <<3>> \o Flags(5), 13)
    BY <2>1, <2>2, WidthsTogether, 8 + 5 = 13
  <2>. QED BY <2>1, <2>3, WidthsTogether, 13 + 3 = 16
<1>3. StructWhole(FLMSTR(h), 32)
  <2>1. /\ AllWeigh(Bits(16, <<16>>), 16)
        /\ AllWeigh(Bits(8, Flags(5) \o <<3>> \o Flags(5) \o <<3>>), 16)
    BY <1>1, <1>2, BitsWeigh DEF WidthsSum, FieldType
  <2>. QED BY <2>1, WeighTogether, StructWeighs, 16 + 16 = 32 DEF FLMSTR
<1>. DEFINE mstr == Sub(FLMSTR(h))
<1>4. AllWeigh(mstr, 32) /\ AllWeigh(Ints(8, 148), 1184)
  BY <1>3, SubWeighs, IntsWeigh, 148 * 8 = 1184 DEF FieldType
<1>. HIDE DEF mstr
<1>5. AllWeigh(mstr \o mstr \o mstr \o Ints(8, 148), 1280)
  BY <1>4, FourTogether, 32 + 32 + 32 + 1184 = 1280
<1>. QED BY <1>5, StructWeighs DEF MASTERACCESSSECTIONRECORD, mstr

LEMMA IchStrapsWeigh ==
  ASSUME NEW h \in Host PROVE StructWhole(ICHSTRAPSRECORD(h), 2048)
<1>1. /\ SumTo(<<1, 6, 1, 7, 1, 1, 2, 1, 1, 3, 1, 7>>,
               <<1, 7, 8, 15, 16, 17, 19, 20, 21, 24, 25, 32>>, 32)
      /\ SumTo(<<4, 1, 7>>, <<4, 5, 12>>, 12)
      /\ SumTo(<<16>>, <<16>>, 16)
  BY DEF SumTo
<1>2. StructWhole(ICHSTRAP0(h), 32)
  BY <1>1, BitsWeigh, StructWeighs DEF FieldType, ICHSTRAP0
<1>3. StructWhole(ICHSTRAP1(h), 32)
  <2>1. WidthsSum(Flags(4) \o <<4, 1, 7>>, 16)
    <3>1. WidthsSum(Flags(4), 4) /\ WidthsSum(<<4, 1, 7>>, 12)
      BY <1>1, ListedWidths, FlagWidths
    <3>. QED BY <3>1, WidthsTogether, 4 + 12 = 16
  <2>2. /\ AllWeigh(Bits(8, Flags(4) \o <<4, 1, 7>>), 16)
        /\ AllWeigh(Bits(16, <<16>>), 16)
    BY <1>1, <2>1, BitsWeigh DEF WidthsSum, FieldType
  <2>. QED BY <2>2, WeighTogether, StructWeighs, 16 + 16 = 32 DEF ICHSTRAP1
<1>4. AllWeigh(Sub(ICHSTRAP0(h)) \o Sub(ICHSTRAP1(h)), 64)
  BY <1>2, <1>3, SubWeighs, WeighTogether, 32 + 32 = 64
<1>5. AllWeigh(Ints(8, 248), 1984)
  BY IntsWeigh, 248 * 8 = 1984 DEF FieldType
<1>. QED BY <1>4, <1>5, WeighTogether, StructWeighs, 64 + 1984 = 2048 DEF ICHSTRAPSRECORD

LEMMA MchStrapsWeigh ==
  ASSUME NEW h \in Host PROVE StructWhole(MCHSTRAPSRECORD(h), 26368)
<1>1. SumTo(<<3, 1, 1, 8>>, <<3, 4, 5, 13>>, 13) /\ SumTo(<<16>>, <<16>>, 16)
  BY DEF SumTo
<1>2. StructWhole(MCHSTRAP0(h), 32)
  <2>1. WidthsSum(Flags(3) \o <<3, 1, 1, 8>>, 16)
    <3>1. WidthsSum(Flags(3), 3) /\ WidthsSum(<<3, 1, 1, 8>>, 13)
      BY <1>1, ListedWidths, FlagWidths
    <3>. QED BY <3>1, WidthsTogether, 3 + 13 = 16
  <2>2. /\ AllWeigh(Bits(8, Flags(3) \o <<3, 1, 1, 8>>), 16)
        /\ AllWeigh(Bits(16, <<16>>), 16)
    BY <1>1, <2>1, BitsWeigh DEF WidthsSum, FieldType
  <2>. QED BY <2>2, WeighTogether, StructWeighs, 16 + 16 = 32 DEF MCHSTRAP0
<1>3. AllWeigh(Ints(8, 3292), 26336)
  BY IntsWeigh, 3292 * 8 = 26336 DEF FieldType
<1>4. AllWeigh(Sub(MCHSTRAP0(h)), 32)
  BY <1>2, SubWeighs
<1>5. AllWeigh(Sub(MCHSTRAP0(h)) \o Ints(8, 3292), 26368)
  BY <1>3, <1>4, WeighTogether, 32 + 26336 = 26368
<1>. QED BY <1>5, StructWeighs DEF MCHSTRAPSRECORD

LEMMA LastSectionsWeigh ==
  ASSUME NEW h \in Host
  PROVE  /\ StructWhole(MEVSCCTABLERECORD(h), 224)
         /\ StructWhole(DESCRIPTORMAP2RECORD(h), 32)
         /\ StructWhole(OEMSECTIONRECORD(h), 2048)
<1>. DEFINE int == Ints(32, 1)
<1>1. /\ AllWeigh(int, 32) /\ AllWeigh(Ints(8, 4), 32)
      /\ AllWeigh(Ints(8, 8), 64) /\ AllWeigh(Ints(8, 248), 1984)
  BY IntsWeigh, 1 * 32 = 32, 4 * 8 = 32, 8 * 8 = 64, 248 * 8 = 1984 DEF FieldType
<1>. HIDE DEF int
<1>2. StructWhole(MEVSCCTABLERECORD(h), 224)
  <2>1. AllWeigh(int \o int \o int \o int, 128)
    BY <1>1, FourTogether, 32 + 32 + 32 + 32 = 128
  <2>2. AllWeigh(int \o int \o int \o int \o int \o int \o Ints(8, 4), 224)
    BY <1>1, <2>1, FourTogether, 128 + 32 + 32 + 32 = 224
  <2>. QED BY <2>2, StructWeighs DEF MEVSCCTABLERECORD, int
<1>3. StructWhole(DESCRIPTORMAP2RECORD(h), 32)
  <2>1. SumTo(<<8, 8>>, <<8, 16>>, 16) /\ SumTo(<<16>>, <<16>>, 16)
    BY DEF SumTo
  <2>2. AllWeigh(Bits(8, <<8, 8>>), 16) /\ AllWeigh(Bits(16, <<16>>), 16)
    BY <2>1, BitsWeigh DEF FieldType
  <2>. QED BY <2>2, WeighTogether, StructWeighs, 16 + 16 = 32 DEF DESCRIPTORMAP2RECORD
<1>4. StructWhole(OEMSECTIONRECORD(h), 2048)
  BY <1>1, WeighTogether, StructWeighs, 64 + 1984 = 2048 DEF OEMSECTIONRECORD
<1>. QED BY <1>2, <1>3, <1>4

\* The descriptor's fields are exactly its 4096 bytes: a compiler that gives the
\* struct this size has put no padding anywhere.
LEMMA DescriptorWeighs ==
  ASSUME NEW h \in Host PROVE StructWhole(DESCRIPTORREGIONRECORD(h), 32768)
<1>. DEFINE first == Ints(32, 1) \o Sub(FLMAPS(h)) \o Sub(COMPONENTSECTIONRECORD(h))
                       \o Sub(REGIONSECTIONRECORD(h))
            straps == first \o Sub(MASTERACCESSSECTIONRECORD(h))
                        \o Sub(ICHSTRAPSRECORD(h)) \o Sub(MCHSTRAPSRECORD(h))
            whole == straps \o Sub(MEVSCCTABLERECORD(h)) \o Sub(DESCRIPTORMAP2RECORD(h))
                       \o Sub(OEMSECTIONRECORD(h))
<1>1. /\ AllWeigh(Ints(32, 1), 32) /\ AllWeigh(Sub(FLMAPS(h)), 96)
      /\ AllWeigh(Sub(COMPONENTSECTIONRECORD(h)), 384)
      /\ AllWeigh(Sub(REGIONSECTIONRECORD(h)), 256)
  BY MapSectionWeighs, ComponentSectionWeighs, RegionSectionWeighs, SubWeighs, IntsWeigh,
     1 * 32 = 32 DEF FieldType
<1>2. AllWeigh(first, 768)
  BY <1>1, FourTogether, 32 + 96 + 384 + 256 = 768
<1>3. /\ AllWeigh(Sub(MASTERACCESSSECTIONRECORD(h)), 1280)
      /\ AllWeigh(Sub(ICHSTRAPSRECORD(h)), 2048)
      /\ AllWeigh(Sub(MCHSTRAPSRECORD(h)), 26368)
  BY MasterSectionWeighs, IchStrapsWeigh, MchStrapsWeigh, SubWeighs
<1>. HIDE DEF first
<1>4. AllWeigh(straps, 30464)
  BY <1>2, <1>3, FourTogether, 768 + 1280 + 2048 + 26368 = 30464
<1>5. /\ AllWeigh(Sub(MEVSCCTABLERECORD(h)), 224)
      /\ AllWeigh(Sub(DESCRIPTORMAP2RECORD(h)), 32)
      /\ AllWeigh(Sub(OEMSECTIONRECORD(h)), 2048)
  BY LastSectionsWeigh, SubWeighs
<1>. HIDE DEF straps
<1>6. AllWeigh(whole, 32768)
  BY <1>4, <1>5, FourTogether, 30464 + 224 + 32 + 2048 = 32768
<1>7. DESCRIPTORREGIONRECORD(h) = Struct(h, whole)
  BY Zenon DEF DESCRIPTORREGIONRECORD, straps, first
<1>. HIDE DEF whole
<1>. QED BY <1>6, <1>7, StructWeighs

\* The words of the GbE region that gbe.h splits into bit-fields.
LEMMA GbeWordsWeigh ==
  ASSUME NEW h \in Host
  PROVE  /\ StructWhole(GBE_RESERVED_WORD_03H(h), 16)
         /\ StructWhole(GBE_PCI_INITIALIZATION_CONTROL_WORD(h), 16)
         /\ StructWhole(GBE_LAN_POWER_CONSUMPTION(h), 16)
         /\ StructWhole(GBE_SHARED_INITIALIZATION_CONTROL_WORD(h), 16)
         /\ StructWhole(GBE_EXTENDED_CONFIGURATION_CONTROL_WORD_1(h), 16)
         /\ StructWhole(GBE_EXTENDED_CONFIGURATION_CONTROL_WORD_2(h), 16)
         /\ StructWhole(LED_CTL_1(h), 16)
         /\ StructWhole(LED_CTL_02(h), 16)
<1>1. /\ SumTo(<<8, 3, 1, 4>>, <<8, 11, 12, 16>>, 16)
      /\ SumTo(<<1, 1, 1, 3, 1, 1, 4, 4>>, <<1, 2, 3, 6, 7, 8, 12, 16>>, 16)
      /\ SumTo(<<5, 3, 8>>, <<5, 8, 16>>, 16)
      /\ SumTo(<<3, 1, 1, 3, 1, 1, 1, 3, 2>>, <<3, 4, 5, 8, 9, 10, 11, 14, 16>>, 16)
      /\ SumTo(<<8, 8>>, <<8, 16>>, 16)
  BY DEF SumTo
<1>2. /\ SumTo(<<12>>, <<12>>, 12) /\ SumTo(<<4>>, <<4>>, 4) /\ SumTo(<<2, 1, 1>>, <<2, 3, 4>>, 4)
  BY DEF SumTo
<1>3. /\ StructWhole(GBE_RESERVED_WORD_03H(h), 16)
      /\ StructWhole(GBE_PCI_INITIALIZATION_CONTROL_WORD(h), 16)
      /\ StructWhole(GBE_LAN_POWER_CONSUMPTION(h), 16)
      /\ StructWhole(GBE_SHARED_INITIALIZATION_CONTROL_WORD(h), 16)
      /\ StructWhole(GBE_EXTENDED_CONFIGURATION_CONTROL_WORD_2(h), 16)
  BY <1>1, BitsWeigh, StructWeighs
  DEF FieldType, GBE_RESERVED_WORD_03H, GBE_PCI_INITIALIZATION_CONTROL_WORD,
      GBE_LAN_POWER_CONSUMPTION, GBE_SHARED_INITIALIZATION_CONTROL_WORD,
      GBE_EXTENDED_CONFIGURATION_CONTROL_WORD_2
<1>4. /\ WidthsSum(<<12>>, 12) /\ WidthsSum(<<4>>, 4) /\ WidthsSum(<<2, 1, 1>>, 4)
      /\ WidthsSum(Flags(4), 4) /\ WidthsSum(Flags(8), 8)
  BY <1>2, ListedWidths, FlagWidths
<1>5. StructWhole(GBE_EXTENDED_CONFIGURATION_CONTROL_WORD_1(h), 16)
  <2>1. AllWeigh(Bits(16, <<12>>), 12) /\ AllWeigh(Bits(8, Flags(4)), 4)
    BY <1>4 DEF WidthsSum, FieldType
  <2>2. AllWeigh(Bits(16, <<12>>) \o Bits(8, Flags(4)), 16)
    BY <2>1, WeighTogether, 12 + 4 = 16
  <2>. QED BY <2>2, StructWeighs DEF GBE_EXTENDED_CONFIGURATION_CONTROL_WORD_1
<1>6. StructWhole(LED_CTL_1(h), 16)
  <2>1. WidthsSum(<<4>> \o Flags(8), 12)
    BY <1>4, WidthsTogether, 4 + 8 = 12
  <2>2. WidthsSum(<<4>> \o Flags(8) \o <<2, 1, 1>>, 16)
    BY <1>4, <2>1, WidthsTogether, 12 + 4 = 16
  <2>. QED BY <2>2, StructWeighs DEF LED_CTL_1, WidthsSum, FieldType
<1>7. StructWhole(LED_CTL_02(h), 16)
  <2>1. WidthsSum(<<4>> \o Flags(4), 8)
    BY <1>4, WidthsTogether, 4 + 4 = 8
  <2>2. WidthsSum(<<4>> \o Flags(4) \o <<4>>, 12)
    BY <1>4, <2>1, WidthsTogether, 8 + 4 = 12
  <2>3. WidthsSum(<<4>> \o Flags(4) \o <<4>> \o Flags(4), 16)
    BY <1>4, <2>2, WidthsTogether, 12 + 4 = 16
  <2>. QED BY <2>3, StructWeighs DEF LED_CTL_02, WidthsSum, FieldType
<1>. QED BY <1>3, <1>5, <1>6, <1>7

LEMMA SoftwareRegionWeighs ==
  ASSUME NEW h \in Host PROVE StructWhole(GBE_PXE_SOFTWARE_REGION(h), 240)
<1>1. /\ SumTo(<<2, 1, 2, 1, 2, 1, 1, 2>>, <<2, 3, 5, 6, 8, 9, 10, 12>>, 12)
      /\ SumTo(<<2, 3, 3, 2>>, <<2, 5, 8, 10>>, 10) /\ SumTo(<<4, 6, 2>>, <<4, 10, 12>>, 12)
      /\ SumTo(<<8, 4, 4>>, <<8, 12, 16>>, 16)
  BY DEF SumTo
<1>2. /\ WidthsSum(<<2, 1, 2, 1, 2, 1, 1, 2>>, 12) /\ WidthsSum(<<2, 3, 3, 2>>, 10)
      /\ WidthsSum(<<4, 6, 2>>, 12) /\ WidthsSum(Flags(4), 4) /\ WidthsSum(Flags(6), 6)
  BY <1>1, ListedWidths, FlagWidths
<1>3. /\ WidthsSum(<<2, 1, 2, 1, 2, 1, 1, 2>> \o Flags(4), 16)
      /\ WidthsSum(Flags(6) \o <<2, 3, 3, 2>>, 16)
      /\ WidthsSum(Flags(4) \o <<4, 6, 2>>, 16)
  BY <1>2, WidthsTogether, 12 + 4 = 16, 6 + 10 = 16, 4 + 12 = 16
<1>4. /\ StructWhole(MainSetupOptions(h), 16) /\ StructWhole(CustomizationOptions31h(h), 16)
      /\ StructWhole(GBE_PXE_IBA_CAPABILITIES(h), 16)
  BY <1>3, StructWeighs
  DEF MainSetupOptions, CustomizationOptions31h, GBE_PXE_IBA_CAPABILITIES, WidthsSum, FieldType
<1>5. StructWhole(CustomizationOptions32h(h), 16)
  BY <1>1, BitsWeigh, StructWeighs DEF CustomizationOptions32h, FieldType
<1>. DEFINE words == Sub(MainSetupOptions(h)) \o Sub(CustomizationOptions31h(h))
                       \o Sub(CustomizationOptions32h(h)) \o Sub(GBE_PXE_IBA_CAPABILITIES(h))
<1>6. /\ AllWeigh(Sub(MainSetupOptions(h)), 16)
      /\ AllWeigh(Sub(CustomizationOptions31h(h)), 16)
      /\ AllWeigh(Sub(CustomizationOptions32h(h)), 16)
      /\ AllWeigh(Sub(GBE_PXE_IBA_CAPABILITIES(h)), 16)
  BY <1>4, <1>5, SubWeighs
<1>7. AllWeigh(words, 64)
  BY <1>6, FourTogether, 16 + 16 + 16 + 16 = 64
<1>8. AllWeigh(Ints(16, 11), 176)
  BY IntsWeigh, 11 * 16 = 176 DEF FieldType
<1>. HIDE DEF words
<1>9. AllWeigh(words \o Ints(16, 11), 240)
  BY <1>7, <1>8, WeighTogether, 64 + 176 = 240
<1>. QED BY <1>9, StructWeighs DEF GBE_PXE_SOFTWARE_REGION, words

\* The words that gbe.h leaves whole.
LEMMA WholeWordsWeigh ==
  /\ AllWeigh(Words04hTo09h, 96) /\ AllWeigh(Words0BhTo0Fh, 80) /\ AllWeigh(Words19hTo2Fh, 368)
<1>1. /\ AllWeigh(Ints(16, 1), 16) /\ AllWeigh(Ints(16, 2), 32) /\ AllWeigh(Ints(16, 12), 192)
  BY IntsWeigh, 1 * 16 = 16, 2 * 16 = 32, 12 * 16 = 192 DEF FieldType
<1>2. AllWeigh(Words04hTo09h, 96)
  <2>1. AllWeigh(Ints(16, 1) \o Ints(16, 1) \o Ints(16, 2) \o Ints(16, 1), 80)
    BY <1>1, FourTogether, 16 + 16 + 32 + 16 = 80
  <2>. QED BY <1>1, <2>1, WeighTogether, 80 + 16 = 96 DEF Words04hTo09h
<1>3. AllWeigh(Words0BhTo0Fh, 80)
  BY WordsWeigh, 16 * 5 = 80 DEF Words0BhTo0Fh
<1>4. AllWeigh(Words19hTo2Fh, 368)
  <2>1. AllWeigh([i \in 1 .. 11 |-> Ints(16, 1)[1]], 176)
    <3>. DEFINE word == Ints(16, 1)[1]
    <3>. HIDE DEF word
    <3>1. \A n, w \in Nat : 16 * n = w => AllWeigh([i \in 1 .. n |-> word], w)
      BY WordsWeigh DEF word
    <3>2. PICK n \in Nat : n = 11
      OBVIOUS
    <3>3. AllWeigh([i \in 1 .. n |-> word], 176)
      <4>1. 16 * n = 176 /\ 176 \in Nat
        BY <3>2
      <4>. QED BY <3>1, <4>1, Zenon
    <3>. QED BY <3>2, <3>3, Zenon DEF word
  <2>. QED BY <1>1, <2>1, WeighTogether, 176 + 192 = 368 DEF Words19hTo2Fh
<1>. QED BY <1>2, <1>3, <1>4

\* The words of a 4 KiB copy before the checksum, the checksum, the padding.
Gbe4kWords(h) ==
  Ints(8, 6) \o Sub(GBE_RESERVED_WORD_03H(h)) \o Words04hTo09h
    \o Sub(GBE_PCI_INITIALIZATION_CONTROL_WORD(h)) \o Words0BhTo0Fh
    \o Sub(GBE_LAN_POWER_CONSUMPTION(h)) \o Ints(16, 2)
    \o Sub(GBE_SHARED_INITIALIZATION_CONTROL_WORD(h))
    \o Sub(GBE_EXTENDED_CONFIGURATION_CONTROL_WORD_1(h))
    \o Sub(GBE_EXTENDED_CONFIGURATION_CONTROL_WORD_2(h)) \o Ints(16, 1)
    \o Sub(LED_CTL_1(h)) \o Sub(LED_CTL_02(h)) \o Words19hTo2Fh
    \o Sub(GBE_PXE_SOFTWARE_REGION(h))

LEMMA Gbe4kWordsWeigh ==
  ASSUME NEW h \in Host PROVE AllWeigh(Gbe4kWords(h), 1008)
<1>. DEFINE upTo0A == Ints(8, 6) \o Sub(GBE_RESERVED_WORD_03H(h)) \o Words04hTo09h
                        \o Sub(GBE_PCI_INITIALIZATION_CONTROL_WORD(h))
            upTo12 == upTo0A \o Words0BhTo0Fh \o Sub(GBE_LAN_POWER_CONSUMPTION(h))
                        \o Ints(16, 2)
            upTo15 == upTo12 \o Sub(GBE_SHARED_INITIALIZATION_CONTROL_WORD(h))
                        \o Sub(GBE_EXTENDED_CONFIGURATION_CONTROL_WORD_1(h))
                        \o Sub(GBE_EXTENDED_CONFIGURATION_CONTROL_WORD_2(h))
            upTo18 == upTo15 \o Ints(16, 1) \o Sub(LED_CTL_1(h)) \o Sub(LED_CTL_02(h))
<1>1. /\ AllWeigh(Ints(8, 6), 48) /\ AllWeigh(Ints(16, 2), 32) /\ AllWeigh(Ints(16, 1), 16)
  BY IntsWeigh, 6 * 8 = 48, 2 * 16 = 32, 1 * 16 = 16 DEF FieldType
<1>2. /\ AllWeigh(Sub(GBE_RESERVED_WORD_03H(h)), 16)
      /\ AllWeigh(Sub(GBE_PCI_INITIALIZATION_CONTROL_WORD(h)), 16)
      /\ AllWeigh(Sub(GBE_LAN_POWER_CONSUMPTION(h)), 16)
      /\ AllWeigh(Sub(GBE_SHARED_INITIALIZATION_CONTROL_WORD(h)), 16)
      /\ AllWeigh(Sub(GBE_EXTENDED_CONFIGURATION_CONTROL_WORD_1(h)), 16)
      /\ AllWeigh(Sub(GBE_EXTENDED_CONFIGURATION_CONTROL_WORD_2(h)), 16)
      /\ AllWeigh(Sub(LED_CTL_1(h)), 16)
      /\ AllWeigh(Sub(LED_CTL_02(h)), 16)
      /\ AllWeigh(Sub(GBE_PXE_SOFTWARE_REGION(h)), 240)
  BY GbeWordsWeigh, SoftwareRegionWeighs, SubWeighs
<1>3. AllWeigh(upTo0A, 176)
  BY <1>1, <1>2, WholeWordsWeigh, FourTogether, 48 + 16 + 96 + 16 = 176
<1>. HIDE DEF upTo0A
<1>4. AllWeigh(upTo12, 304)
  BY <1>1, <1>2, <1>3, WholeWordsWeigh, FourTogether, 176 + 80 + 16 + 32 = 304
<1>. HIDE DEF upTo12
<1>5. AllWeigh(upTo15, 352)
  BY <1>2, <1>4, FourTogether, 304 + 16 + 16 + 16 = 352
<1>. HIDE DEF upTo15
<1>6. AllWeigh(upTo18, 400)
  BY <1>1, <1>2, <1>5, FourTogether, 352 + 16 + 16 + 16 = 400
<1>. HIDE DEF upTo18
<1>7. AllWeigh(upTo18 \o Words19hTo2Fh, 768)
  BY <1>6, WholeWordsWeigh, WeighTogether, 400 + 368 = 768
<1>8. AllWeigh(upTo18 \o Words19hTo2Fh \o Sub(GBE_PXE_SOFTWARE_REGION(h)), 1008)
  BY <1>2, <1>7, WeighTogether, 768 + 240 = 1008
<1>. QED BY <1>8, Zenon DEF Gbe4kWords, upTo18, upTo15, upTo12, upTo0A

\* The fields of a copy of the GbE region are exactly its 4096 bytes.
LEMMA Gbe4kWeighs ==
  ASSUME NEW h \in Host
  PROVE  /\ AllWeigh(Gbe4kWords(h) \o Ints(16, 1) \o Ints(8, 3968), 32768)
         /\ StructWhole(GBEREGIONRECORD_4K(h), 32768)
<1>. DEFINE words == Gbe4kWords(h)
<1>1. /\ AllWeigh(words, 1008) /\ AllWeigh(Ints(16, 1), 16) /\ AllWeigh(Ints(8, 3968), 31744)
  BY Gbe4kWordsWeigh, IntsWeigh, 1 * 16 = 16, 3968 * 8 = 31744 DEF FieldType
<1>. HIDE DEF words
<1>2. AllWeigh(words \o Ints(16, 1), 1024)
  BY <1>1, WeighTogether, 1008 + 16 = 1024
<1>3. AllWeigh(words \o Ints(16, 1) \o Ints(8, 3968), 32768)
  BY <1>1, <1>2, WeighTogether, 1024 + 31744 = 32768
<1>4. GBEREGIONRECORD_4K(h) = Struct(h, words \o Ints(16, 1) \o Ints(8, 3968))
  BY Zenon DEF GBEREGIONRECORD_4K, Gbe4kWords, words
<1>5. StructWhole(GBEREGIONRECORD_4K(h), 32768)
  BY <1>3, <1>4, StructWeighs
<1>. QED BY <1>3, <1>5 DEF words

\* In the two copies of the right size, neither has padding.
LEMMA Gbe8kWeighs ==
  ASSUME NEW h \in Host
  PROVE  /\ StructWhole(GBEREGIONRECORD_8K(h), 65536)
         /\ GBEREGIONRECORD_8K(h).size = 65536 => GBEREGIONRECORD_4K(h).size = 32768
<1>. DEFINE s == GBEREGIONRECORD_4K(h)
            copy == Sub(s)
            both == GBEREGIONRECORD_8K(h)
<1>1. StructWhole(s, 32768)
  BY Gbe4kWeighs
<1>2. both = Struct(h, copy \o copy)
  BY Zenon DEF GBEREGIONRECORD_8K
<1>. HIDE DEF s
<1>3. StructWhole(both, 65536)
  <2>1. AllWeigh(copy, 32768)
    BY <1>1, SubWeighs
  <2>. HIDE DEF copy
  <2>2. AllWeigh(copy \o copy, 65536)
    BY <2>1, WeighTogether, 32768 + 32768 = 65536
  <2>. QED BY <1>2, <2>2, StructWeighs
<1>4. ASSUME s.size # 32768 PROVE both.size # 65536
  <2>1. StructWhole(s, 32769)
    <3>1. s.size \in Nat /\ s.size % 8 = 0 /\ 32768 <= s.size
      BY <1>1 DEF StructWhole
    <3>2. 32769 <= s.size /\ s.size # 32769
      BY <1>4, <3>1
    <3>. QED BY <1>1, <3>2 DEF StructWhole
  <2>2. AllWeigh(copy, 32769)
    BY <2>1, SubWeighs
  <2>. HIDE DEF copy
  <2>3. AllWeigh(copy \o copy, 65538)
    BY <2>2, WeighTogether, 32769 + 32769 = 65538
  <2>4. StructWhole(both, 65538)
    BY <1>2, <2>3, StructWeighs
  <2>. QED BY <2>4 DEF StructWhole
<1>. QED BY <1>3, <1>4 DEF s

\* Where the bits of a field are for a compiler with the chip's byte and bit order.
LEMMA BitsInOrder ==
  ASSUME NEW h \in Host, ~h.bigEndian, ~h.msbFirst, NEW f \in Field,
         ~f.bits => f.first % f.type = 0,
         NEW k \in Nat, ~f.bits => k < f.type
  PROVE  MemoryBit(h, f, k) = f.first + k
<1>1. f.first \in Nat /\ f.type \in FieldType
  BY DEF Field
<1>2. CASE f.bits
  <2>1. MemoryBit(h, f, k) =
          (f.first - (f.first % f.type)) + 8 * (((f.first % f.type) + k) \div 8)
            + (((f.first % f.type) + k) % 8)
    BY <1>1, <1>2 DEF MemoryBit, FieldType
  <2>2. f.first % f.type \in Nat
    BY <1>1 DEF FieldType
  <2>. DEFINE r == f.first % f.type
  <2>. HIDE DEF r
  <2>3. 8 * ((r + k) \div 8) + ((r + k) % 8) = r + k
    BY <2>2 DEF r
  <2>4. MemoryBit(h, f, k) = (f.first - r) + 8 * ((r + k) \div 8) + ((r + k) % 8)
    BY <2>1 DEF r
  <2>. DEFINE q == (r + k) \div 8
              p == (r + k) % 8
  <2>5. r \in Nat /\ q \in Int /\ p \in Int
    BY <2>2 DEF r
  <2>. HIDE DEF p, q
  <2>. QED BY <1>1, <2>3, <2>4, <2>5 DEF p, q
<1>3. CASE ~f.bits
  <2>1. k % f.type = k /\ k \div f.type = 0 /\ f.first % f.type = 0
    BY <1>1, <1>3 DEF FieldType
  <2>2. MemoryBit(h, f, k) = f.first + 8 * (k \div 8) + (k % 8)
    BY <1>1, <1>3, <2>1 DEF MemoryBit, FieldType
  <2>3. 8 * (k \div 8) + (k % 8) = k
    OBVIOUS
  <2>. QED BY <1>1, <2>2, <2>3
<1>. QED BY <1>2, <1>3

\* A struct without padding is where the chip has it.
LEMMA WholeIsDense ==
  ASSUME NEW h \in Host, ~h.bigEndian, ~h.msbFirst, NEW s, NEW w, w # 0,
         StructWhole(s, w), s.size = w
  PROVE  DenselyLaid(h, s)
<1>1. s.fields \in Seq(Field) /\ AlignedIn(s.fields, s.align) /\ Covers(s.fields, w)
  BY DEF StructWhole
<1>2. s.fields # << >>
  BY <1>1 DEF Covers
<1>3. s.fields[1].first = 0
  BY <1>1, <1>2 DEF Covers
<1>4. \A i \in 1 .. Len(s.fields) - 1 :
        s.fields[i + 1].first = s.fields[i].first + s.fields[i].size
  BY <1>1 DEF Covers
<1>5. ASSUME NEW i \in DOMAIN s.fields,
             NEW k \in 0 .. (IF s.fields[i].bits THEN s.fields[i].size ELSE s.fields[i].type) - 1
      PROVE  MemoryBit(h, s.fields[i], k) = s.fields[i].first + k
  <2>. DEFINE f == s.fields[i]
  <2>1. i \in 1 .. Len(s.fields) /\ f \in Field
    BY <1>1
  <2>2. ~f.bits => f.first % f.type = 0
    BY <1>1, <2>1, Zenon DEF AlignedIn
  <2>3. f.size \in Nat /\ f.type \in Nat /\ f.bits \in BOOLEAN
    BY <2>1 DEF Field, FieldType
  <2>4. k \in Nat /\ (~f.bits => k < f.type)
    BY <2>3
  <2>. HIDE DEF f
  <2>5. MemoryBit(h, f, k) = f.first + k
    BY <2>1, <2>2, <2>4, BitsInOrder
  <2>. QED BY <2>5 DEF f
<1>. QED BY <1>3, <1>4, <1>5, Zenon DEF DenselyLaid

IntField(t, size) == Member(FALSE, t, size)

AddsField(laid, next, size) == \E f : f.size = size /\ next.fields = laid.fields \o << f >>

\* A member that is one field adds one field.
LEMMA PlaceField ==
  ASSUME NEW h, NEW l, NEW t, NEW size, NEW m, m = IntField(t, size)
  PROVE  AddsField(l, Place(h, l, m), size)
<1>. DEFINE e == [first |-> 0, bits |-> FALSE, type |-> t, size |-> size]
            free == IF h.separate /\ l.type # m.type THEN AlignUp(l.end, l.type) ELSE l.end
            inUnit == free \div m.type = (free + m.size - 1) \div m.type
            first == IF m.bits /\ inUnit THEN free ELSE AlignUp(free, m.type)
            f == [e EXCEPT !.first = @ + first]
<1>1. m.fields = << e >> /\ f.size = size
  BY DEF IntField, Member
<1>2. Place(h, l, m).fields
        = l.fields \o [i \in DOMAIN m.fields |-> [m.fields[i] EXCEPT !.first = @ + first]]
  BY DEF Place
<1>. HIDE DEF first, e
<1>3. [i \in DOMAIN << e >> |-> [<< e >>[i] EXCEPT !.first = @ + first]] = << f >>
  OBVIOUS
<1>. HIDE DEF f
<1>4. Place(h, l, m).fields = l.fields \o << f >>
  BY <1>1, <1>2, <1>3, Zenon
<1>. QED BY <1>1, <1>4, Zenon DEF AddsField

EndsIn(s, s1, s2) ==
  LET n == Len(s.fields) IN n >= 2 /\ s.fields[n - 1].size = s1 /\ s.fields[n].size = s2

\* The last two fields of a struct that ends in two arrays.
LEMMA LastFields ==
  ASSUME NEW h \in Host, NEW a, NEW w, NEW t1 \in FieldType, NEW t2 \in FieldType,
         NEW n1 \in Nat, NEW n2 \in Nat, NEW s1, NEW s2, n1 * t1 = s1, n2 * t2 = s2,
         AllWeigh(a \o Ints(t1, n1) \o Ints(t2, n2), w),
         a \in Seq(MemberRecord)
  PROVE  EndsIn(Struct(h, a \o Ints(t1, n1) \o Ints(t2, n2)), s1, s2)
<1>. DEFINE m1 == Member(FALSE, t1, n1 * t1)
            m2 == Member(FALSE, t2, n2 * t2)
            members == a \o Ints(t1, n1) \o Ints(t2, n2)
            N == Len(members)
            laid == Placed(h, members)
<1>1. /\ N \in Nat /\ N >= 2 /\ members[N - 1] = m1 /\ members[N] = m2
      /\ members \in Seq(MemberRecord)
  <2>1. members = a \o << m1 >> \o << m2 >> /\ members \in Seq(MemberRecord)
    BY Zenon DEF Ints, AllWeigh
  <2>. HIDE DEF m1, m2
  <2>2. Len(members) = Len(a) + 2 /\ Len(a) \in Nat
    BY <2>1
  <2>. QED BY <2>1, <2>2
<1>. HIDE DEF members
<1>2. /\ laid[N] = Place(h, laid[N - 1], m2) /\ laid[N - 1] = Place(h, laid[N - 2], m1)
  <2>1. N \in 1 .. N /\ N - 1 \in 1 .. N /\ (N - 1) - 1 = N - 2
    BY <1>1
  <2>2. \A n \in 1 .. N : laid[n] = Place(h, laid[n - 1], members[n])
    BY <1>1, LaidUnfolds
  <2>. HIDE DEF laid, N
  <2>3. laid[N] = Place(h, laid[N - 1], members[N])
    BY <2>1, <2>2
  <2>4. laid[N - 1] = Place(h, laid[N - 2], members[N - 1])
    BY <2>1, <2>2
  <2>. QED BY <1>1, <2>3, <2>4
<1>3. laid[N - 2].fields \in Seq(Field)
  <2>1. PICK sums : WeighedBy(members, sums)
    BY DEF AllWeigh, members
  <2>2. LaidWhole(laid[N - 2], sums[N - 2])
    BY <1>1, <2>1, LaidWeighs
  <2>. QED BY <2>2 DEF LaidWhole, LaidRecord
<1>5. PICK f1 : f1.size = n1 * t1 /\ laid[N - 1].fields = laid[N - 2].fields \o << f1 >>
  <2>. HIDE DEF laid, N
  <2>. DEFINE size == n1 * t1
              l == laid[N - 2]
  <2>0. m1 = IntField(t1, size)
    BY DEF IntField
  <2>. HIDE DEF size, l, m1
  <2>3. AddsField(l, Place(h, l, m1), size)
    BY <2>0, PlaceField, Zenon
  <2>1. PICK f : f.size = size /\ Place(h, l, m1).fields = l.fields \o << f >>
    BY <2>3, Zenon DEF AddsField
  <2>2. laid[N - 1].fields = laid[N - 2].fields \o << f >>
    BY <1>2, <2>1, Zenon DEF l
  <2>. QED BY <2>1, <2>2 DEF size
<1>6. PICK f2 : f2.size = n2 * t2 /\ laid[N].fields = laid[N - 1].fields \o << f2 >>
  <2>. HIDE DEF laid, N
  <2>. DEFINE size == n2 * t2
              l == laid[N - 1]
  <2>0. m2 = IntField(t2, size)
    BY DEF IntField
  <2>. HIDE DEF size, l, m2
  <2>3. AddsField(l, Place(h, l, m2), size)
    BY <2>0, PlaceField, Zenon
  <2>1. PICK f : f.size = size /\ Place(h, l, m2).fields = l.fields \o << f >>
    BY <2>3, Zenon DEF AddsField
  <2>2. laid[N].fields = laid[N - 1].fields \o << f >>
    BY <1>2, <2>1, Zenon DEF l
  <2>. QED BY <2>1, <2>2 DEF size
<1>7. Struct(h, members).fields = laid[N].fields
  <2>. HIDE DEF laid
  <2>. QED BY DEF Struct, laid
<1>. DEFINE before == laid[N - 2].fields
            fields == laid[N].fields
<1>8. fields = before \o << f1 >> \o << f2 >>
  BY <1>5, <1>6, Zenon
<1>. HIDE DEF before, fields
<1>9. Len(before) \in Nat /\ before \in Seq(Field)
  BY <1>3 DEF before
<1>10. Len(fields) = Len(before) + 2
       /\ fields[Len(before) + 1] = f1 /\ fields[Len(before) + 2] = f2
  BY <1>8, <1>9
<1>11. /\ Len(fields) >= 2 /\ fields[Len(fields) - 1].size = n1 * t1
       /\ fields[Len(fields)].size = n2 * t2
  BY <1>5, <1>6, <1>9, <1>10
<1>. QED BY <1>7, <1>11, Zenon DEF fields, members, EndsIn

BitField(size) == Member(TRUE, 8, size)

AddsBits(laid, next, size) ==
  LET n == Len(laid.fields) IN
  /\ next.type = 8 /\ next.end = laid.end + size
  /\ next.fields \in Seq(Field) /\ Len(next.fields) = n + 1
  /\ \A i \in 1 .. n : next.fields[i] = laid.fields[i]
  /\ next.fields[n + 1] = [first |-> laid.end, bits |-> TRUE, type |-> 8, size |-> size]

\* A bit-field of 8-bit units that fits the unit it starts in.
LEMMA PlaceBits ==
  ASSUME NEW h, NEW laid, NEW size \in Nat, NEW next,
         next = Place(h, laid, BitField(size)),
         laid.type = 8, laid.end \in Nat, laid.fields \in Seq(Field),
         laid.end \div 8 = (laid.end + size - 1) \div 8
  PROVE  AddsBits(laid, next, size)
<1>. DEFINE e == [first |-> 0, bits |-> TRUE, type |-> 8, size |-> size]
            m == BitField(size)
            f == [first |-> laid.end, bits |-> TRUE, type |-> 8, size |-> size]
<1>0. next = Place(h, laid, m)
  OBVIOUS
<1>1. m.fields = << e >> /\ m.type = 8 /\ m.size = size /\ m.bits
  BY DEF BitField, Member
<1>. HIDE DEF m, f
<1>2. /\ next.type = 8 /\ next.end = laid.end + size
      /\ next.fields
           = laid.fields \o [i \in DOMAIN m.fields |-> [m.fields[i] EXCEPT !.first = @ + laid.end]]
  <2>. DEFINE free == IF h.separate /\ laid.type # m.type THEN AlignUp(laid.end, laid.type)
                                                        ELSE laid.end
              inUnit == free \div m.type = (free + m.size - 1) \div m.type
              first == IF m.bits /\ inUnit THEN free ELSE AlignUp(free, m.type)
  <2>1. free = laid.end
    BY <1>1
  <2>2. inUnit
    BY <1>1, <2>1
  <2>3. first = laid.end
    BY <1>1, <2>1, <2>2
  <2>4. next = [end |-> first + m.size, type |-> IF m.bits THEN m.type ELSE 8,
                align |-> IF m.type > laid.align THEN m.type ELSE laid.align,
                fields |-> laid.fields \o
                  [i \in DOMAIN m.fields |-> [m.fields[i] EXCEPT !.first = @ + first]]]
    BY <1>0, Zenon DEF Place
  <2>. HIDE DEF first, inUnit, free
  <2>. DEFINE fields == laid.fields \o
                [i \in DOMAIN m.fields |-> [m.fields[i] EXCEPT !.first = @ + laid.end]]
              align == IF m.type > laid.align THEN m.type ELSE laid.align
  <2>5. next = [end |-> laid.end + size, type |-> IF m.bits THEN 8 ELSE 8, align |-> align,
                fields |-> fields]
    BY <1>1, <2>3, <2>4, Zenon
  <2>. HIDE DEF fields, align
  <2>6. next.end = laid.end + size /\ next.type = 8 /\ next.fields = fields
    BY <2>5
  <2>. QED BY <2>6 DEF fields
<1>3. [e EXCEPT !.first = @ + laid.end] = f
  <2>. DEFINE g == [e EXCEPT !.first = @ + laid.end]
  <2>1. /\ e \in Field /\ e.first = 0 /\ e.bits = TRUE /\ e.type = 8 /\ e.size = size
        /\ 0 + laid.end = laid.end
    BY DEF Field, FieldType
  <2>. HIDE DEF e
  <2>2. g \in Field /\ g.first = laid.end /\ g.bits = TRUE /\ g.type = 8 /\ g.size = size
    BY <2>1 DEF Field
  <2>. HIDE DEF g
  <2>3. g = [first |-> g.first, bits |-> g.bits, type |-> g.type, size |-> g.size]
    BY <2>2 DEF Field
  <2>. QED BY <2>2, <2>3 DEF g, f
<1>. HIDE DEF e, f
<1>4. [i \in DOMAIN << e >> |-> [<< e >>[i] EXCEPT !.first = @ + laid.end]] = << f >>
  <2>1. [i \in DOMAIN << e >> |-> [<< e >>[i] EXCEPT !.first = @ + laid.end]]
          = << [e EXCEPT !.first = @ + laid.end] >>
    OBVIOUS
  <2>. QED BY <1>3, <2>1, Zenon
<1>5. f \in Field
  BY DEF Field, FieldType, f
<1>6. next.fields = laid.fields \o << f >>
  BY <1>1, <1>2, <1>4, Zenon
<1>7. /\ next.fields \in Seq(Field) /\ Len(next.fields) = Len(laid.fields) + 1
      /\ \A i \in 1 .. Len(laid.fields) : next.fields[i] = laid.fields[i]
      /\ next.fields[Len(laid.fields) + 1] = f
  BY <1>5, <1>6
<1>. HIDE DEF m
<1>. QED BY <1>2, <1>7 DEF f, AddsBits

\* reserved1 of FLMAP0, the third bit-field, is at bits 10 to 15.
LEMMA ThirdBitfield ==
  ASSUME NEW h
  PROVE  /\ 3 \in DOMAIN FLMAP0(h).fields
         /\ FLMAP0(h).fields[3] = [first |-> 10, bits |-> TRUE, type |-> 8, size |-> 6]
<1>. DEFINE widths == <<8, 2, 6, 8, 3, 5>>
            members == Bits(8, widths)
            laid == Placed(h, members)
            f == [first |-> 10, bits |-> TRUE, type |-> 8, size |-> 6]
<1>1. Len(members) = 6 /\ \A i \in 1 .. 6 : members[i] = BitField(widths[i])
  <2>1. DOMAIN widths = 1 .. 6
    OBVIOUS
  <2>2. members = [i \in 1 .. 6 |-> BitField(widths[i])]
    BY <2>1, Zenon DEF Bits, BitField
  <2>3. SumTo(widths, <<8, 10, 16, 24, 27, 32>>, 32)
    BY DEF SumTo
  <2>4. members \in Seq(MemberRecord)
    BY <2>3, BitsWeigh DEF AllWeigh, FieldType
  <2>. HIDE DEF members, widths
  <2>. QED BY <2>2, <2>4
<1>2. /\ widths[1] = 8 /\ widths[2] = 2 /\ widths[3] = 6
      /\ widths[4] = 8 /\ widths[5] = 3 /\ widths[6] = 5
  OBVIOUS
<1>. HIDE DEF members, widths
<1>3. /\ laid[0] = Empty(h)
      /\ \A n \in 1 .. 6 : laid[n] = Place(h, laid[n - 1], BitField(widths[n]))
  <2>1. Len(members) \in Nat
    BY <1>1
  <2>2. /\ laid[0] = Empty(h)
        /\ \A n \in 1 .. Len(members) : laid[n] = Place(h, laid[n - 1], members[n])
    BY <2>1, LaidUnfolds, Zenon
  <2>. HIDE DEF laid
  <2>. QED BY <1>1, <2>2
<1>. HIDE DEF laid, f
<1>4. laid[0].type = 8 /\ laid[0].end = 0 /\ laid[0].fields = << >>
  BY <1>3 DEF Empty
<1>5. /\ laid[1].type = 8 /\ laid[1].end = 8 /\ laid[1].fields \in Seq(Field)
      /\ Len(laid[1].fields) = 1
  <2>1. laid[1] = Place(h, laid[0], BitField(8))
    BY <1>2, <1>3
  <2>2. laid[0].end \div 8 = (laid[0].end + 8 - 1) \div 8 /\ laid[0].end \in Nat
        /\ laid[0].fields \in Seq(Field) /\ Len(laid[0].fields) = 0
    BY <1>4
  <2>3. AddsBits(laid[0], laid[1], 8)
    BY <1>4, <2>1, <2>2, PlaceBits
  <2>. QED BY <1>4, <2>2, <2>3 DEF AddsBits
<1>6. /\ laid[2].type = 8 /\ laid[2].end = 10 /\ laid[2].fields \in Seq(Field)
      /\ Len(laid[2].fields) = 2
  <2>1. laid[2] = Place(h, laid[1], BitField(2))
    BY <1>2, <1>3
  <2>2. laid[1].end \div 8 = (laid[1].end + 2 - 1) \div 8 /\ laid[1].end \in Nat
        /\ laid[1].fields \in Seq(Field) /\ Len(laid[1].fields) = 1
    BY <1>5
  <2>3. AddsBits(laid[1], laid[2], 2)
    BY <1>5, <2>1, <2>2, PlaceBits
  <2>. QED BY <1>5, <2>2, <2>3 DEF AddsBits
<1>7. /\ laid[3].type = 8 /\ laid[3].end = 16 /\ laid[3].fields \in Seq(Field)
      /\ Len(laid[3].fields) = 3 /\ laid[3].fields[3] = f
  <2>1. laid[3] = Place(h, laid[2], BitField(6))
    BY <1>2, <1>3
  <2>2. laid[2].end \div 8 = (laid[2].end + 6 - 1) \div 8 /\ laid[2].end \in Nat
        /\ laid[2].fields \in Seq(Field) /\ Len(laid[2].fields) = 2
    BY <1>6
  <2>3. AddsBits(laid[2], laid[3], 6)
    BY <1>6, <2>1, <2>2, PlaceBits
  <2>. QED BY <1>6, <2>2, <2>3 DEF AddsBits, f
<1>8. /\ laid[4].type = 8 /\ laid[4].end = 24 /\ laid[4].fields \in Seq(Field)
      /\ Len(laid[4].fields) = 4 /\ laid[4].fields[3] = f
  <2>1. laid[4] = Place(h, laid[3], BitField(8))
    BY <1>2, <1>3
  <2>2. laid[3].end \div 8 = (laid[3].end + 8 - 1) \div 8 /\ laid[3].end \in Nat
        /\ laid[3].fields \in Seq(Field) /\ Len(laid[3].fields) = 3
    BY <1>7
  <2>3. AddsBits(laid[3], laid[4], 8)
    BY <1>7, <2>1, <2>2, PlaceBits
  <2>. QED BY <1>7, <2>2, <2>3 DEF AddsBits
<1>9. /\ laid[5].type = 8 /\ laid[5].end = 27 /\ laid[5].fields \in Seq(Field)
      /\ Len(laid[5].fields) = 5 /\ laid[5].fields[3] = f
  <2>1. laid[5] = Place(h, laid[4], BitField(3))
    BY <1>2, <1>3
  <2>2. laid[4].end \div 8 = (laid[4].end + 3 - 1) \div 8 /\ laid[4].end \in Nat
        /\ laid[4].fields \in Seq(Field) /\ Len(laid[4].fields) = 4
    BY <1>8
  <2>3. AddsBits(laid[4], laid[5], 3)
    BY <1>8, <2>1, <2>2, PlaceBits
  <2>. QED BY <1>8, <2>2, <2>3 DEF AddsBits
<1>10. /\ laid[6].type = 8 /\ laid[6].end = 32 /\ laid[6].fields \in Seq(Field)
      /\ Len(laid[6].fields) = 6 /\ laid[6].fields[3] = f
  <2>1. laid[6] = Place(h, laid[5], BitField(5))
    BY <1>2, <1>3
  <2>2. laid[5].end \div 8 = (laid[5].end + 5 - 1) \div 8 /\ laid[5].end \in Nat
        /\ laid[5].fields \in Seq(Field) /\ Len(laid[5].fields) = 5
    BY <1>9
  <2>3. AddsBits(laid[5], laid[6], 5)
    BY <1>9, <2>1, <2>2, PlaceBits
  <2>. QED BY <1>9, <2>2, <2>3 DEF AddsBits
<1>11. FLMAP0(h).fields = laid[6].fields
  BY <1>1 DEF FLMAP0, Struct, laid, members, widths
<1>. QED BY <1>10, <1>11 DEF f

\* A compiler with the other bit order does not pass structBitfieldWrongOrder: it
\* puts bit 3 of reserved1 = 38h at bit 11, and E2h has no bit 3.
LEMMA MsbFirstDetected ==
  ASSUME NEW h \in Host, ~h.bigEndian, h.msbFirst
  PROVE  structBitfieldWrongOrder(h)
<1>. DEFINE fields == FLMAP0(h).fields
            f == [first |-> 10, bits |-> TRUE, type |-> 8, size |-> 6]
            values == << <<162>>, <<2>>, <<56>>, <<210>>, <<5>>, <<28>> >>
            expected == BitsOf(<<162, 226, 210, 229>>)
<1>1. 3 \in DOMAIN fields /\ fields[3] = f
  BY ThirdBitfield
<1>2. MemoryBit(h, f, 3) = 11
  BY DEF MemoryBit
<1>3. 3 \in BitsOf(<<56>>)
  BY DEF BitsOf
<1>4. 11 \notin expected
  BY DEF BitsOf
<1>. HIDE DEF fields, f, expected
<1>5. 11 \in Memory(h, fields, values)
  <2>1. 11 \in {MemoryBit(h, fields[3], k) : k \in BitsOf(values[3])}
    <3>1. values[3] = <<56>>
      OBVIOUS
    <3>. QED BY <1>1, <1>2, <1>3, <3>1
  <2>. HIDE DEF values
  <2>. QED BY <1>1, <2>1 DEF Memory
<1>. QED BY <1>4, <1>5 DEF structBitfieldWrongOrder, fields, expected

\* For every compiler that C allows here, all padding and all orders of bytes and
\* bits taken together: the tests of x86compatibility.c let none pass that has a
\* field of either struct anywhere but where the chip has it.
THEOREM AcceptedFit == Host \ systemOrCompilerIncompatible \subseteq FitsFlash
<1>. SUFFICES ASSUME NEW h \in Host, h \notin systemOrCompilerIncompatible
              PROVE  h \in FitsFlash
  OBVIOUS
<1>. DEFINE desc == DESCRIPTORREGIONRECORD(h)
            gbe == GBEREGIONRECORD_8K(h)
            copy == GBEREGIONRECORD_4K(h)
<1>1. /\ desc.size = 8 * DESCRIPTORREGIONSIZE /\ gbe.size = 8 * GBEREGIONSIZE_8K
      /\ ~h.bigEndian /\ ~structBitfieldWrongOrder(h)
  BY Zenon DEF systemOrCompilerIncompatible, structSizesIncorrect
<1>2. ~h.msbFirst
  BY <1>1, MsbFirstDetected
<1>3. desc.size = 32768 /\ gbe.size = 65536
  BY <1>1 DEF DESCRIPTORREGIONSIZE, GBEREGIONSIZE_8K
<1>. HIDE DEF desc, gbe, copy
<1>4. StructWhole(desc, 32768) /\ StructWhole(gbe, 65536) /\ StructWhole(copy, 32768)
      /\ copy.size = 32768
  BY <1>3, DescriptorWeighs, Gbe4kWeighs, Gbe8kWeighs DEF desc, gbe, copy
<1>5. DenselyLaid(h, desc) /\ DenselyLaid(h, gbe)
  BY <1>1, <1>2, <1>3, <1>4, WholeIsDense
<1>6. copy.fields[Len(copy.fields) - 1].first = 16 * 63
  <2>. DEFINE n == Len(copy.fields)
  <2>1. n >= 2 /\ copy.fields[n - 1].size = 16 /\ copy.fields[n].size = 31744
    <3>1. AllWeigh(Gbe4kWords(h) \o Ints(16, 1) \o Ints(8, 3968), 32768)
      BY Gbe4kWeighs
    <3>2. copy = Struct(h, Gbe4kWords(h) \o Ints(16, 1) \o Ints(8, 3968))
      BY Zenon DEF copy, GBEREGIONRECORD_4K, Gbe4kWords
    <3>3. Gbe4kWords(h) \in Seq(MemberRecord)
      BY Gbe4kWordsWeigh DEF AllWeigh
    <3>. DEFINE s == Struct(h, Gbe4kWords(h) \o Ints(16, 1) \o Ints(8, 3968))
    <3>4. 16 \in FieldType /\ 8 \in FieldType /\ 1 * 16 = 16 /\ 3968 * 8 = 31744
          /\ 1 \in Nat /\ 3968 \in Nat
      BY DEF FieldType
    <3>5. EndsIn(s, 16, 31744)
      BY <3>1, <3>3, <3>4, LastFields
    <3>6. copy = s
      BY <3>2, Zenon
    <3>. HIDE DEF s
    <3>7. EndsIn(copy, 16, 31744)
      BY <3>5, <3>6
    <3>. QED BY <3>7 DEF EndsIn
  <2>2. copy.fields \in Seq(Field) /\ Covers(copy.fields, 32768)
    BY <1>4 DEF StructWhole
  <2>3. n \in Nat /\ copy.fields # << >> /\ n - 1 \in 1 .. n - 1 /\ (n - 1) + 1 = n
    BY <2>1, <2>2
  <2>. HIDE DEF n
  <2>6. copy.fields[n].first + copy.fields[n].size = 32768
    BY <2>2, <2>3 DEF Covers, n
  <2>7. \A i \in 1 .. n - 1 :
          copy.fields[i + 1].first = copy.fields[i].first + copy.fields[i].size
    BY <2>2 DEF Covers, n
  <2>4. copy.fields[n].first + 31744 = 32768 /\ copy.fields[n].first = copy.fields[n - 1].first + 16
    BY <2>1, <2>3, <2>6, <2>7
  <2>5. copy.fields[n].first \in Nat /\ copy.fields[n - 1].first \in Nat
    <3>1. copy.fields[n] \in Field /\ copy.fields[n - 1] \in Field
      BY <2>1, <2>2, <2>3 DEF n
    <3>. QED BY <3>1 DEF Field
  <2>. QED BY <2>4, <2>5 DEF n
<1>. QED BY <1>5, <1>6 DEF FitsFlash, desc, gbe, copy

\* The machine is one of those the constants name, and a tool that runs passed the
\* tests on it.
Tested == host \in Host /\ (proc # Idle => host \notin systemOrCompilerIncompatible)

LEMMA StepTested == Tested /\ [Next]_vars => Tested'
<1>. SUFFICES ASSUME Tested, [Next]_vars PROVE Tested'
  OBVIOUS
<1>1. CASE Starts
  <2>1. proc' = Idle \/ host \notin systemOrCompilerIncompatible
    BY <1>1, Zenon DEF Starts, Refuses, FactoryRomUnreadable, Ich9deblob, Demefactory, Ich9gen,
                      Ich9genMac, EndsAtOnce
  <2>2. host' = host
    BY <1>1, StartFrame, Zenon
  <2>. QED BY <2>1, <2>2, Zenon DEF Tested
<1>2. CASE Writes
  <2>1. proc # Idle /\ host' = host
    BY <1>2, WriteFrame, IdleFields, Zenon DEF Writing
  <2>. QED BY <2>1, Zenon DEF Tested
<1>3. CASE Places
  <2>1. proc' = proc /\ host' = host
    BY <1>3, PlaceFrame, Zenon
  <2>. QED BY <2>1, Zenon DEF Tested
<1>4. CASE Builds
  <2>1. proc' = proc /\ host' = host
    BY <1>4, BuildFrame, Zenon
  <2>. QED BY <2>1, Zenon DEF Tested
<1>5. CASE UNCHANGED vars
  <2>1. proc' = proc /\ host' = host
    BY <1>5, Zenon DEF vars
  <2>. QED BY <2>1, Zenon DEF Tested
<1>. QED BY <1>1, <1>2, <1>3, <1>4, <1>5, StepKinds, Zenon

\* AcceptedHostsFit: a tool that runs was compiled so that every field of both
\* structs is where the chip has it, whichever of the compilers that C allows
\* compiled it.
THEOREM AcceptedHosts == Spec => []AcceptedHostsFit
<1>1. Init => Tested
  <2>. SUFFICES ASSUME Init PROVE Tested
    OBVIOUS
  <2>1. host \in Host /\ proc = Idle
    BY ToolsAssumption DEF Init
  <2>. QED BY <2>1, Zenon DEF Tested
<1>2. Tested /\ [Next]_vars => Tested'
  BY StepTested
<1>3. Tested => AcceptedHostsFit
  <2>. SUFFICES ASSUME Tested, proc # Idle PROVE host \in FitsFlash
    BY Zenon DEF AcceptedHostsFit
  <2>1. host \in Host \ systemOrCompilerIncompatible
    BY Zenon DEF Tested
  <2>. QED BY <2>1, AcceptedFit, Zenon
<1>. QED BY <1>1, <1>2, <1>3, PTL DEF Spec

================================================================================
