------------------------------ MODULE MCIch9Tools ------------------------------
(***************************************************************************)
(* Values for Ich9Tools: the repository's own ich9gen sources and factory  *)
(* dumps that differ in what the tools decide on.                          *)
(***************************************************************************)
EXTENDS Ich9Tools

MCOemStrings == {"LIBERATE", "factory"}
MCLIBERATE == "LIBERATE"
MCOtherFields == {"x200"}

Mac1 == [i \in 1 .. 3 |-> CASE i = 1 -> 62720 [] i = 2 -> 16624 [] i = 3 -> 65137]
Mac2 == [i \in 1 .. 3 |-> IF i = 1 THEN 0 ELSE 65535]
Mac3 == [i \in 1 .. 3 |-> IF i = 1 THEN 30000 ELSE i]     \* the words then add up past 0xBABA

\* src/ich9gen/mkgbe.c: 00:f5:f0:40:71:fe, checksum 0x348a.
DefaultGbe == [mac |-> Mac1, words |-> 20943, checkSum |-> 13450, padding |-> "ff"]

Locked(r, w) == [read |-> r, write |-> w]
At(base, limit) == [base |-> base, limit |-> limit]
RegionMap(bios, me, gbe, pd) ==
  [n \in RegionName |-> CASE n = "fd" -> At(0, 0) [] n = "bios" -> bios
                          [] n = "me" -> me [] n = "gbe" -> gbe [] n = "pd" -> pd]

Factory(bios, me, gbe, pd, density, straps) ==
  [nr |-> 4, density1 |-> density, density2 |-> 2,
   region |-> RegionMap(bios, me, gbe, pd),
   access |-> [m \in Master |->
                 CASE m = "host" -> Locked({"fd", "bios", "gbe"}, {"bios", "gbe"})
                   [] m = "me" -> Locked({"fd", "me", "gbe"}, {"me", "gbe"})
                   [] m = "gbe" -> Locked({"gbe"}, {"gbe"})],
   ichMeDisable |-> 0, mchMeDisable |-> 0, tpmDisable |-> 0,
   integratedGbe |-> straps, lanPhy |-> straps, oem |-> "factory", other |-> "x200"]

\* src/ich9gen/mkdescriptor.c, for 8 MiB with GbE.
DefaultDescriptor ==
  generatedDescriptorStruct(
    [Factory(At(0, 0), Removed, At(0, 0), Removed, 4, 1) EXCEPT
       !.access["host"] = Locked(RegionName, RegionName),
       !.access["me"] = Locked({}, {}),
       !.ichMeDisable = 1, !.mchMeDisable = 1, !.tpmDisable = 1,
       !.oem = "LIBERATE"],
    ROMSIZE_8MB, TRUE)

MCDefaultSource == [desc |-> DefaultDescriptor, gbe |-> DefaultGbe]

\* As shipped by Lenovo: the main copy is broken, the backup's checksum is good.
FactoryGbe ==
  [main |-> [mac |-> Mac1, words |-> 1, checkSum |-> 2, padding |-> "other"],
   backup |-> [mac |-> Mac2, words |-> 65530, checkSum |-> 3, padding |-> "other"]]
MCSomeGbe == [main |-> [FactoryGbe.main EXCEPT !.words = 7],
              backup |-> [FactoryGbe.main EXCEPT !.words = 9]]

\* 8 MiB, GbE region near the end.
Rom8 == Rom(ROMSIZE_8MB,
            Factory(At(1536, 2047), At(1, 1525), At(1526, 1527), At(1528, 1535), 4, 1),
            1526, FactoryGbe, "factory")
\* 4 MiB, GbE region right after the descriptor.
Rom4 == Rom(ROMSIZE_4MB,
            Factory(At(768, 1023), At(3, 757), At(1, 2), At(758, 767), 3, 1),
            1, FactoryGbe, "factory")
\* No GbE region; the marker is the 12-bit one.
RomNoGbe == Rom(ROMSIZE_4MB,
                Factory(At(768, 1023), At(1, 757), At(4095, 0), At(758, 767), 3, 1),
                1, FactoryGbe, "factory")
\* A GbE region that the straps switch off.
RomOff == Rom(ROMSIZE_8MB,
              Factory(At(1536, 2047), At(1, 1525), At(1526, 1527), At(1528, 1535), 4, 0),
              1526, FactoryGbe, "factory")
\* A dump of 4 MiB of an 8 MiB chip: its GbE region is not in the file.
RomShort == [Rom8 EXCEPT !.size = ROMSIZE_4MB]

MCFactoryRoms == {Rom8, Rom4, RomNoGbe, RomOff, RomShort, Partial}
\* Next to the ROMs with an output in them, which take no factory dump.
ShortFactoryRoms == {Partial}

GoodMac == [length |-> 17, separator |-> [k \in 1 .. 5 |-> TRUE], hex |-> TRUE, mac |-> Mac3]
GoodMacArguments == {GoodMac}
MCMacArguments ==
  {GoodMac, [GoodMac EXCEPT !.length = 14], [GoodMac EXCEPT !.separator[2] = FALSE],
   [GoodMac EXCEPT !.hex = FALSE]}
\* The last separator is not a colon.
LooseMacArguments == {[GoodMac EXCEPT !.separator[5] = FALSE]}

X86 == [bigEndian |-> FALSE, msbFirst |-> FALSE, separate |-> FALSE, roundTo4 |-> FALSE]
MCHosts == {X86}
==============================================================================
