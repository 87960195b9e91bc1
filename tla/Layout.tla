--------------------------------- MODULE Layout ---------------------------------
(***************************************************************************)
(* The C structs that ich9deblob lays over the descriptor and the GbE      *)
(* region, what a compiler makes of them, and the test for compilers that  *)
(* lay them out in another way than the flash chip has it                  *)
(* (src/resources/utilities/ich9deblob/src/common/x86compatibility.c).     *)
(*                                                                         *)
(* A compiler is what C leaves to it here: byte order, order of bit-fields *)
(* in their unit, whether bit-fields of types of different size share a    *)
(* unit, and the least alignment of a struct.  Bits are counted from the   *)
(* start of a struct, in each byte from the least significant.             *)
(***************************************************************************)
EXTENDS Descriptor, Gbe, Sequences

Host ==
  {[bigEndian |-> e, msbFirst |-> m, separate |-> s, roundTo4 |-> r] : e, m, s, r \in BOOLEAN}

AlignUp(bit, n) == ((bit + n - 1) \div n) * n

\* Members of a struct: bit-fields, an array of n integers, a struct.
Member(bits, type, size) ==
  [bits |-> bits, type |-> type, size |-> size,
   fields |-> << [first |-> 0, bits |-> bits, type |-> type, size |-> size] >>]

Bits(type, widths) == [i \in DOMAIN widths |-> Member(TRUE, type, widths[i])]
Ints(type, n) == << Member(FALSE, type, n * type) >>
Sub(s) == << [bits |-> FALSE, type |-> s.align, size |-> s.size, fields |-> s.fields] >>

\* A member goes after those that are laid out already.
Place(h, laid, m) ==
  LET free == IF h.separate /\ laid.type # m.type THEN AlignUp(laid.end, laid.type)
                                                  ELSE laid.end
      inUnit == free \div m.type = (free + m.size - 1) \div m.type
      first == IF m.bits /\ inUnit THEN free ELSE AlignUp(free, m.type)
  IN  [end |-> first + m.size,
       type |-> IF m.bits THEN m.type ELSE 8,
       align |-> IF m.type > laid.align THEN m.type ELSE laid.align,
       fields |-> laid.fields \o [i \in DOMAIN m.fields |-> [m.fields[i] EXCEPT !.first = @ + first]]]

\* The first n members laid out.
Placed(h, members) ==
  LET laid[n \in 0 .. Len(members)] ==
        IF n = 0
        THEN [end |-> 0, type |-> 8, align |-> IF h.roundTo4 THEN 32 ELSE 8, fields |-> << >>]
        ELSE Place(h, laid[n - 1], members[n])
  IN  laid

Struct(h, members) ==
  LET laid == Placed(h, members)[Len(members)]
  IN  [fields |-> laid.fields, align |-> laid.align,
       size |-> AlignUp(AlignUp(laid.end, IF h.separate THEN laid.type ELSE 8), laid.align)]

\* Where bit k of the value of a field is.
MemoryBit(h, f, k) ==
  LET inUnit == IF ~f.bits THEN k % f.type
                ELSE IF h.msbFirst THEN f.type - (f.first % f.type) - f.size + k
                ELSE (f.first % f.type) + k
      unit == f.first - (f.first % f.type) + (IF f.bits THEN 0 ELSE f.type * (k \div f.type))
      byte == IF h.bigEndian THEN (f.type \div 8) - 1 - (inUnit \div 8) ELSE inUnit \div 8
  IN  unit + 8 * byte + (inUnit % 8)

-----------------------------------------------------------------------------
(* descriptor.h                                                             *)

Flags(n) == [i \in 1 .. n |-> 1]

FLMAP0(h) == Struct(h, Bits(8, <<8, 2, 6, 8, 3, 5>>))
FLMAP1(h) == Struct(h, Bits(8, <<8, 3, 5, 8, 8>>))
FLMAP2(h) == Struct(h, Bits(8, <<8, 8>>) \o Bits(16, <<16>>))
FLMAPS(h) == Struct(h, Sub(FLMAP0(h)) \o Sub(FLMAP1(h)) \o Sub(FLMAP2(h)))
FLCOMP(h) == Struct(h, Bits(8, <<3, 3, 2, 8, 1, 3, 1, 3, 3, 3, 2>>))
COMPONENTSECTIONRECORD(h) ==
  Struct(h, Sub(FLCOMP(h)) \o Ints(32, 1) \o Ints(32, 1) \o Ints(8, 36))
FLREG(h) == Struct(h, Bits(16, <<13, 3, 13, 3>>))
REGIONSECTIONRECORD(h) ==
  LET reg == Sub(FLREG(h)) IN
  Struct(h, reg \o reg \o reg \o reg \o reg \o Ints(8, 12))
FLMSTR(h) ==
  Struct(h, Bits(16, <<16>>) \o Bits(8, Flags(5) \o <<3>> \o Flags(5) \o <<3>>))
MASTERACCESSSECTIONRECORD(h) ==
  LET mstr == Sub(FLMSTR(h)) IN Struct(h, mstr \o mstr \o mstr \o Ints(8, 148))
ICHSTRAP0(h) == Struct(h, Bits(8, <<1, 6, 1, 7, 1, 1, 2, 1, 1, 3, 1, 7>>))
ICHSTRAP1(h) == Struct(h, Bits(8, Flags(4) \o <<4, 1, 7>>) \o Bits(16, <<16>>))
ICHSTRAPSRECORD(h) == Struct(h, Sub(ICHSTRAP0(h)) \o Sub(ICHSTRAP1(h)) \o Ints(8, 248))
MCHSTRAP0(h) == Struct(h, Bits(8, Flags(3) \o <<3, 1, 1, 8>>) \o Bits(16, <<16>>))
MCHSTRAPSRECORD(h) == Struct(h, Sub(MCHSTRAP0(h)) \o Ints(8, 3292))
MEVSCCTABLERECORD(h) ==
  LET int == Ints(32, 1) IN
  Struct(h, int \o int \o int \o int \o int \o int \o Ints(8, 4))
DESCRIPTORMAP2RECORD(h) == Struct(h, Bits(8, <<8, 8>>) \o Bits(16, <<16>>))
OEMSECTIONRECORD(h) == Struct(h, Ints(8, 8) \o Ints(8, 248))

DESCRIPTORREGIONRECORD(h) ==
  Struct(h, Ints(32, 1) \o Sub(FLMAPS(h)) \o Sub(COMPONENTSECTIONRECORD(h))
              \o Sub(REGIONSECTIONRECORD(h)) \o Sub(MASTERACCESSSECTIONRECORD(h))
              \o Sub(ICHSTRAPSRECORD(h)) \o Sub(MCHSTRAPSRECORD(h))
              \o Sub(MEVSCCTABLERECORD(h)) \o Sub(DESCRIPTORMAP2RECORD(h))
              \o Sub(OEMSECTIONRECORD(h)))

-----------------------------------------------------------------------------
(* gbe.h                                                                    *)

GBE_RESERVED_WORD_03H(h) == Struct(h, Bits(8, <<8, 3, 1, 4>>))
GBE_PCI_INITIALIZATION_CONTROL_WORD(h) == Struct(h, Bits(8, <<1, 1, 1, 3, 1, 1, 4, 4>>))
GBE_LAN_POWER_CONSUMPTION(h) == Struct(h, Bits(8, <<5, 3, 8>>))
GBE_SHARED_INITIALIZATION_CONTROL_WORD(h) == Struct(h, Bits(8, <<3, 1, 1, 3, 1, 1, 1, 3, 2>>))
GBE_EXTENDED_CONFIGURATION_CONTROL_WORD_1(h) == Struct(h, Bits(16, <<12>>) \o Bits(8, Flags(4)))
GBE_EXTENDED_CONFIGURATION_CONTROL_WORD_2(h) == Struct(h, Bits(8, <<8, 8>>))
LED_CTL_1(h) == Struct(h, Bits(8, <<4>> \o Flags(8) \o <<2, 1, 1>>))
LED_CTL_02(h) == Struct(h, Bits(8, <<4>> \o Flags(4) \o <<4>> \o Flags(4)))
MainSetupOptions(h) == Struct(h, Bits(8, <<2, 1, 2, 1, 2, 1, 1, 2>> \o Flags(4)))
CustomizationOptions31h(h) == Struct(h, Bits(8, Flags(6) \o <<2, 3, 3, 2>>))
CustomizationOptions32h(h) == Struct(h, Bits(8, <<8, 4, 4>>))
GBE_PXE_IBA_CAPABILITIES(h) == Struct(h, Bits(8, Flags(4) \o <<4, 6, 2>>))
GBE_PXE_SOFTWARE_REGION(h) ==
  Struct(h, Sub(MainSetupOptions(h)) \o Sub(CustomizationOptions31h(h))
              \o Sub(CustomizationOptions32h(h)) \o Sub(GBE_PXE_IBA_CAPABILITIES(h))
              \o Ints(16, 11))

Words04hTo09h == Ints(16, 1) \o Ints(16, 1) \o Ints(16, 2) \o Ints(16, 1) \o Ints(16, 1)
Words0BhTo0Fh == [i \in 1 .. 5 |-> Ints(16, 1)[1]]
Words19hTo2Fh == [i \in 1 .. 11 |-> Ints(16, 1)[1]] \o Ints(16, 12)

GBEREGIONRECORD_4K(h) ==
  Struct(h, Ints(8, 6) \o Sub(GBE_RESERVED_WORD_03H(h)) \o Words04hTo09h
              \o Sub(GBE_PCI_INITIALIZATION_CONTROL_WORD(h)) \o Words0BhTo0Fh
              \o Sub(GBE_LAN_POWER_CONSUMPTION(h)) \o Ints(16, 2)
              \o Sub(GBE_SHARED_INITIALIZATION_CONTROL_WORD(h))
              \o Sub(GBE_EXTENDED_CONFIGURATION_CONTROL_WORD_1(h))
              \o Sub(GBE_EXTENDED_CONFIGURATION_CONTROL_WORD_2(h)) \o Ints(16, 1)
              \o Sub(LED_CTL_1(h)) \o Sub(LED_CTL_02(h)) \o Words19hTo2Fh
              \o Sub(GBE_PXE_SOFTWARE_REGION(h)) \o Ints(16, 1) \o Ints(8, 3968))

GBEREGIONRECORD_8K(h) ==
  LET copy == Sub(GBEREGIONRECORD_4K(h)) IN Struct(h, copy \o copy)

-----------------------------------------------------------------------------
(* x86compatibility.c                                                       *)

\* Mutant of structSizesIncorrect: the GbE struct is not measured.
descriptorSizeIncorrect(h) == DESCRIPTORREGIONRECORD(h).size # 8 * DESCRIPTORREGIONSIZE

structSizesIncorrect(h) ==
  \/ DESCRIPTORREGIONRECORD(h).size # 8 * DESCRIPTORREGIONSIZE
  \/ GBEREGIONRECORD_8K(h).size # 8 * GBEREGIONSIZE_8K

\* The bits of a value that is written as bytes, the least significant first.
BitsOf(bytes) ==
  LET powers == <<1, 2, 4, 8, 16, 32, 64, 128>>
  IN  {k \in 0 .. 8 * Len(bytes) - 1 : (bytes[k \div 8 + 1] \div powers[(k % 8) + 1]) % 2 = 1}

\* The bits that are set after values[i] was assigned to fields[i].
Memory(h, fields, values) ==
  UNION {{MemoryBit(h, fields[i], k) : k \in BitsOf(values[i])} : i \in DOMAIN fields}

\* 01020304, 10203040, 11223344, 05060708, 50607080, 55667788, AA BB CC DD
structMembersWrongOrder(h) ==
  LET values == << <<4, 3, 2, 1>>, <<64, 48, 32, 16>>, <<68, 51, 34, 17>>, <<8, 7, 6, 5>>,
                   <<128, 112, 96, 80>>, <<136, 119, 102, 85>>, <<170, 187, 204, 221>> >>
      expected == UNION {{32 * (i - 1) + k : k \in BitsOf(values[i])} : i \in DOMAIN values}
  IN  Memory(h, MEVSCCTABLERECORD(h).fields, values) # expected

\* FCBA = A2, NC = 2, reserved1 = 38, FRBA = D2, NR = 5, reserved2 = 1C have to
\* be A2 E2 D2 E5.
structBitfieldWrongOrder(h) ==
  Memory(h, FLMAP0(h).fields, << <<162>>, <<2>>, <<56>>, <<210>>, <<5>>, <<28>> >>)
    # BitsOf(<<162, 226, 210, 229>>)

systemOrCompilerIncompatible ==
  {h \in Host :
     \/ structSizesIncorrect(h)
     \/ h.bigEndian
     \/ structBitfieldWrongOrder(h)
     \/ structMembersWrongOrder(h)}

-----------------------------------------------------------------------------
(* What the flash chip has: every field right after the one before it, least *)
(* significant bit first, and the checksum in word 3Fh.                      *)

DenselyLaid(h, s) ==
  /\ s.fields[1].first = 0
  /\ \A i \in 1 .. Len(s.fields) - 1 :
       s.fields[i + 1].first = s.fields[i].first + s.fields[i].size
  /\ \A i \in DOMAIN s.fields :
       LET f == s.fields[i] IN
       \A k \in 0 .. (IF f.bits THEN f.size ELSE f.type) - 1 : MemoryBit(h, f, k) = f.first + k

FitsFlash ==
  {h \in Host :
     /\ DenselyLaid(h, DESCRIPTORREGIONRECORD(h))
     /\ DenselyLaid(h, GBEREGIONRECORD_8K(h))
     /\ LET copy == GBEREGIONRECORD_4K(h).fields IN copy[Len(copy) - 1].first = 16 * 63}
===============================================================================
