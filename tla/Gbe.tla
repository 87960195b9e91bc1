---------------------------------- MODULE Gbe ----------------------------------
(***************************************************************************)
(* The 8 KiB GbE (gigabit Ethernet NVM) region: two 4 KiB copies, main and *)
(* backup, each with a MAC address in its first three 16-bit words and a   *)
(* checksum in word 3Fh                                                    *)
(* (src/resources/utilities/ich9deblob/src/gbe/gbe.[ch]).                  *)
(*                                                                         *)
(* The words 03h-3Eh of a copy are only copied and added up: `words` is    *)
(* their sum modulo 2^16.                                                  *)
(***************************************************************************)
EXTENDS Integers

GBECHECKSUMTOTAL == 47802        \* 0xBABA

Word == 0 .. 65535
uint16(n) == n % 65536

Mac == [1 .. 3 -> Word]

Gbe4k == [mac : Mac, words : Word, checkSum : Word, padding : {"ff", "other"}]
Gbe8k == [main : Gbe4k, backup : Gbe4k]

\* The sum of the words 00h-3Eh, in a uint16_t.
GbeTotal(g) == uint16(g.mac[1] + g.mac[2] + g.mac[3] + g.words)

\* Mutant: the difference is not cut to 16 bits.
ChecksumUncut(g, desiredValue) == desiredValue - GbeTotal(g)

gbeGetChecksumFrom4kStruct(g, desiredValue) == uint16(desiredValue - GbeTotal(g))

\* The copy with the checksum that makes its 40h words add up to 0xBABA.
WithChecksum(g) ==
  [g EXCEPT !.checkSum = gbeGetChecksumFrom4kStruct(g, GBECHECKSUMTOTAL)]

deblobbedGbeStructFromFactory(g8) ==
  LET backup == WithChecksum([g8.backup EXCEPT !.padding = "ff"])
  IN  [main |-> backup, backup |-> backup]

\* The function that the mkgbe.c printed by notCreatedCFileFromGbeStruct4k()
\* defines: both copies are the one the source was printed from.
generatedGbeStruct8k(g) == [main |-> g, backup |-> g]

\* Mutant of WithMac: the checksum is left as it was.
WithMacOldChecksum(g8, mac) ==
  LET main == [g8.main EXCEPT !.mac = mac]
  IN  [main |-> main, backup |-> main]

\* ich9gen --macaddress: the main copy gets the address and a new checksum,
\* then overwrites the backup.
WithMac(g8, mac) ==
  LET main == WithChecksum([g8.main EXCEPT !.mac = mac])
  IN  [main |-> main, backup |-> main]

-----------------------------------------------------------------------------
ChecksumValid(g) == uint16(GbeTotal(g) + g.checkSum) = GBECHECKSUMTOTAL

\* A region the network controller accepts, whichever copy it takes.
GoodGbe(g8) ==
  /\ g8.main = g8.backup
  /\ ChecksumValid(g8.main)
==============================================================================
