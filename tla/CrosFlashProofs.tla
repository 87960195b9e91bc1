----------------------------- MODULE CrosFlashProofs -----------------------------
(***************************************************************************)
(* What cros-flash-replace does to flash.img and to the chip, for any      *)
(* sizes, layouts, arguments and numbers of runs and faults.               *)
(***************************************************************************)
EXTENDS CrosFlash, SequenceTheorems, TLAPS

Busy == {"before", "after", "concatenate", "remove"}

-----------------------------------------------------------------------------
(* Files.                                                                   *)

LEMMA Layout ==
  ASSUME NEW p \in Parts
  PROVE  /\ Start[p] \in Nat /\ Stop[p] \in Nat /\ Start[p] <= Stop[p] /\ Stop[p] < ChipSize
         /\ Size(p) \in Nat \ {0} /\ Size(p) = Stop[p] - Start[p] + 1
         /\ ChipSize \in Nat /\ p # "vendor"
         /\ \A q \in Parts : p # q => Stop[p] < Start[q] \/ Stop[q] < Start[p]
BY CrosAssumption, SMTT(30) DEF CrosAssumption, Size

LEMMA Images ==
  ASSUME NEW p \in Parts
  PROVE  /\ PartImage(p) \in File /\ Len(PartImage(p)) = Size(p)
         /\ \A i \in 1 .. Size(p) : PartImage(p)[i] = [of |-> p, no |-> i]
<1>1. Size(p) \in Nat
  BY Layout
<1>2. \A i \in 1 .. Size(p) : [of |-> p, no |-> i] \in Block
  BY <1>1 DEF Block
<1>3. PartImage(p) \in [1 .. Size(p) -> Block]
  BY <1>2 DEF PartImage
<1>4. PartImage(p) \in Seq(Block) /\ Len(PartImage(p)) = Size(p)
  BY <1>1, <1>3
<1>. QED BY <1>4 DEF PartImage, File

LEMMA Vendors == Vendor \in File /\ Len(Vendor) = ChipSize
BY CrosAssumption DEF CrosAssumption, Vendor, File, Block

LEMMA Written ==
  ASSUME NEW p \in Parts
  PROVE  Contents(p) \in File
<1>1. << [of |-> p, no |-> 0] >> \in File
  BY DEF File, Block
<1>2. << [of |-> p, no |-> 0] >> \o PartImage(p) \in File
  BY <1>1, Images, ConcatProperties DEF File
<1>. QED BY <1>2, Images DEF Contents

\* A file cut to its first blocks.
LEMMA Cut ==
  ASSUME NEW f \in File, NEW m \in Nat, NEW n \in Nat, n <= Len(f)
  PROVE  /\ SubSeq(f, m + 1, n) \in File
         /\ Len(SubSeq(f, m + 1, n)) = (IF m <= n THEN n - m ELSE 0)
         /\ \A i \in 1 .. n - m : SubSeq(f, m + 1, n)[i] = f[m + i]
<1>1. \A i \in m + 1 .. n : f[i] \in Block
  BY ElementOfSeq, LenProperties DEF File
<1>2. m + 1 \in Int /\ n \in Int
  OBVIOUS
<1>. QED BY <1>1, <1>2, SubSeqProperties DEF File

LEMMA CutFirst ==
  ASSUME NEW f \in File, NEW n \in Nat, n <= Len(f)
  PROVE  /\ SubSeq(f, 1, n) \in File /\ Len(SubSeq(f, 1, n)) = n
         /\ \A i \in 1 .. n : SubSeq(f, 1, n)[i] = f[i]
<1>1. \A i \in 1 .. n : f[i] \in Block
  BY ElementOfSeq, LenProperties DEF File
<1>2. /\ SubSeq(f, 1, n) \in Seq(Block)
      /\ Len(SubSeq(f, 1, n)) = IF 1 <= n THEN n - 1 + 1 ELSE 0
      /\ \A i \in 1 .. n - 1 + 1 : SubSeq(f, 1, n)[i] = f[1 + i - 1]
  BY <1>1, SubSeqProperties
<1>. QED BY <1>2 DEF File

LEMMA FirstPart ==
  ASSUME NEW f \in File, NEW n \in Nat
  PROVE  /\ FirstBlocks(f, n) \in File
         /\ Len(FirstBlocks(f, n)) = Least(n, Len(f))
         /\ n <= Len(f) => FirstBlocks(f, n) = SubSeq(f, 1, n)
<1>1. Len(f) \in Nat
  BY LenProperties DEF File
<1>2. Least(n, Len(f)) \in Nat /\ Least(n, Len(f)) <= Len(f)
  BY <1>1 DEF Least
<1>3. /\ SubSeq(f, 1, Least(n, Len(f))) \in File
      /\ Len(SubSeq(f, 1, Least(n, Len(f)))) = Least(n, Len(f))
  BY <1>2, CutFirst
<1>4. n <= Len(f) => Least(n, Len(f)) = n
  BY <1>1 DEF Least
<1>. QED BY <1>3, <1>4 DEF FirstBlocks

LEMMA LastPart ==
  ASSUME NEW f \in File, NEW m \in Nat, NEW n \in Nat
  PROVE  /\ BlocksAfter(f, m, n) \in File
         /\ Len(BlocksAfter(f, m, n)) =
              (IF m <= Least(n, Len(f)) THEN Least(n, Len(f)) - m ELSE 0)
         /\ n <= Len(f) => BlocksAfter(f, m, n) = SubSeq(f, m + 1, n)
<1>1. Len(f) \in Nat
  BY LenProperties DEF File
<1>2. Least(n, Len(f)) \in Nat /\ Least(n, Len(f)) <= Len(f)
  BY <1>1 DEF Least
<1>3. n <= Len(f) => Least(n, Len(f)) = n
  BY <1>1 DEF Least
<1>. QED BY <1>2, <1>3, Cut DEF BlocksAfter

\* The first k blocks of what a command writes.
LEMMA Shortened ==
  ASSUME NEW f \in File, NEW k \in 0 .. Len(f)
  PROVE  /\ SubSeq(f, 1, k) \in File
         /\ Len(SubSeq(f, 1, k)) = k
         /\ k = Len(f) => SubSeq(f, 1, k) = f
<1>1. Len(f) \in Nat
  BY LenProperties DEF File
<1>2. SubSeq(f, 1, k) \in File /\ Len(SubSeq(f, 1, k)) = k
  BY <1>1, CutFirst
<1>3. SubSeq(f, 1, Len(f)) = f
  BY SubSeqFull DEF File
<1>. QED BY <1>2, <1>3

LEMMA Joined ==
  ASSUME NEW f \in File, NEW g \in File, NEW h \in File
  PROVE  /\ f \o g \o h \in File
         /\ Len(f \o g \o h) = Len(f) + Len(g) + Len(h)
         /\ \A i \in 1 .. Len(f) + Len(g) + Len(h) : (f \o g \o h)[i] =
              IF i <= Len(f) THEN f[i]
              ELSE IF i <= Len(f) + Len(g) THEN g[i - Len(f)] ELSE h[i - Len(f) - Len(g)]
<1>1. Len(f) \in Nat /\ Len(g) \in Nat /\ Len(h) \in Nat
  BY LenProperties DEF File
<1>2. /\ f \o g \in File /\ Len(f \o g) = Len(f) + Len(g)
      /\ \A i \in 1 .. Len(f) + Len(g) : (f \o g)[i] =
           IF i <= Len(f) THEN f[i] ELSE g[i - Len(f)]
  BY ConcatProperties DEF File
<1>3. /\ f \o g \o h \in File /\ Len(f \o g \o h) = Len(f \o g) + Len(h)
      /\ \A i \in 1 .. Len(f \o g) + Len(h) : (f \o g \o h)[i] =
           IF i <= Len(f \o g) THEN (f \o g)[i] ELSE h[i - Len(f \o g)]
  BY <1>2, ConcatProperties DEF File
<1>. QED BY <1>1, <1>2, <1>3

\* What is at a place of a file with replaced parts.
LEMMA ReplacedAt ==
  ASSUME NEW f \in File, NEW S
  PROVE  /\ Replaced(f, S) \in File /\ Len(Replaced(f, S)) = Len(f)
         /\ \A i \in 1 .. Len(f) :
              /\ \A p \in S \cap Parts :
                   Holds(p, i) => Replaced(f, S)[i] = [of |-> p, no |-> i - Start[p]]
              /\ (\A p \in S \cap Parts : ~Holds(p, i)) => Replaced(f, S)[i] = f[i]
<1>1. Len(f) \in Nat
  BY LenProperties DEF File
<1>2. ASSUME NEW i \in 1 .. Len(f), NEW p \in S \cap Parts, Holds(p, i)
      PROVE  Replaced(f, S)[i] = [of |-> p, no |-> i - Start[p]]
  <2>1. ASSUME NEW q \in S \cap Parts, Holds(q, i)
        PROVE  q = p
    BY <1>2, <2>1, Layout, <1>1 DEF Holds
  <2>2. (CHOOSE q \in S \cap Parts : Holds(q, i)) = p
    BY <1>2, <2>1
  <2>. QED BY <1>2, <2>2 DEF Replaced
<1>3. ASSUME NEW i \in 1 .. Len(f), \A p \in S \cap Parts : ~Holds(p, i)
      PROVE  Replaced(f, S)[i] = f[i]
  BY <1>3 DEF Replaced
<1>4. \A i \in 1 .. Len(f) : Replaced(f, S)[i] \in Block
  <2>. SUFFICES ASSUME NEW i \in 1 .. Len(f) PROVE Replaced(f, S)[i] \in Block
    OBVIOUS
  <2>1. CASE \E p \in S \cap Parts : Holds(p, i)
    <3>1. PICK p \in S \cap Parts : Holds(p, i)
      BY <2>1
    <3>2. i - Start[p] \in Nat
      BY <3>1, Layout, <1>1 DEF Holds
    <3>3. p \in S \cap Parts /\ Holds(p, i)
      BY <3>1
    <3>4. Replaced(f, S)[i] = [of |-> p, no |-> i - Start[p]]
      BY <1>2, <3>3
    <3>. QED BY <3>2, <3>3, <3>4 DEF Block
  <2>2. CASE \A p \in S \cap Parts : ~Holds(p, i)
    BY <1>3, <2>2, ElementOfSeq DEF File
  <2>. QED BY <2>1, <2>2
<1>5. Replaced(f, S) \in [1 .. Len(f) -> Block]
  BY <1>4 DEF Replaced
<1>6. Replaced(f, S) \in Seq(Block) /\ Len(Replaced(f, S)) = Len(f)
  BY <1>1, <1>5
<1>. QED BY <1>2, <1>3, <1>6 DEF File

\* Cutting a file at a part and joining it with the part's image puts the part in.
LEMMA PutIn ==
  ASSUME NEW g \in File, Len(g) = ChipSize, NEW S, NEW p \in Parts, NEW f, f = Replaced(g, S)
  PROVE  SubSeq(f, 1, Start[p]) \o PartImage(p) \o SubSeq(f, Stop[p] + 2, ChipSize)
           = Replaced(g, S \cup {p})
<1>. DEFINE l == SubSeq(f, 1, Start[p])
            c == PartImage(p)
            r == SubSeq(f, Stop[p] + 2, ChipSize)
            t == Replaced(g, S \cup {p})
<1>1. f \in File /\ Len(f) = ChipSize /\ t \in File /\ Len(t) = ChipSize
  BY ReplacedAt
<1>2. /\ l \in File /\ Len(l) = Start[p]
      /\ \A i \in 1 .. Start[p] : l[i] = f[i]
  <2>1. Start[p] \in Nat /\ Start[p] <= Len(f)
    BY <1>1, Layout
  <2>. QED BY <1>1, <2>1, CutFirst
<1>3. /\ r \in File /\ Len(r) = ChipSize - Stop[p] - 1
      /\ \A i \in 1 .. ChipSize - Stop[p] - 1 : r[i] = f[Stop[p] + 1 + i]
  <2>. DEFINE m == Stop[p] + 1
  <2>1. m \in Nat /\ m <= ChipSize /\ m + 1 = Stop[p] + 2 /\ ChipSize \in Nat
    BY Layout
  <2>. HIDE DEF m
  <2>2. /\ SubSeq(f, m + 1, ChipSize) \in File
        /\ Len(SubSeq(f, m + 1, ChipSize)) = IF m <= ChipSize THEN ChipSize - m ELSE 0
        /\ \A i \in 1 .. ChipSize - m : SubSeq(f, m + 1, ChipSize)[i] = f[m + i]
    BY <1>1, <2>1, Cut
  <2>3. r = SubSeq(f, m + 1, ChipSize)
    BY <2>1
  <2>. HIDE DEF r
  <2>4. Len(r) = ChipSize - m /\ \A i \in 1 .. ChipSize - m : r[i] = f[m + i]
    BY <2>1, <2>2, <2>3
  <2>. QED BY <2>2, <2>3, <2>4, Layout DEF m
<1>4. c \in File /\ Len(c) = Size(p) /\ \A i \in 1 .. Size(p) : c[i] = [of |-> p, no |-> i]
  BY Images
<1>. HIDE DEF l, c, r, t
<1>5. /\ l \o c \o r \in File /\ Len(l \o c \o r) = ChipSize
      /\ \A i \in 1 .. ChipSize : (l \o c \o r)[i] =
           IF i <= Start[p] THEN f[i]
           ELSE IF i <= Stop[p] + 1 THEN [of |-> p, no |-> i - Start[p]] ELSE f[i]
  <2>1. Len(l) + Len(c) = Stop[p] + 1 /\ Len(l) + Len(c) + Len(r) = ChipSize
    BY <1>2, <1>3, <1>4, Layout
  <2>2. /\ l \o c \o r \in File
        /\ Len(l \o c \o r) = ChipSize
        /\ \A i \in 1 .. ChipSize : (l \o c \o r)[i] =
             IF i <= Len(l) THEN l[i]
             ELSE IF i <= Stop[p] + 1 THEN c[i - Len(l)] ELSE r[i - (Stop[p] + 1)]
    <3>1. \A i \in 1 .. ChipSize : i - Len(l) - Len(c) = i - (Stop[p] + 1)
      BY <2>1, <1>2, <1>4, Layout
    <3>2. /\ l \o c \o r \in File
          /\ Len(l \o c \o r) = Len(l) + Len(c) + Len(r)
          /\ \A i \in 1 .. Len(l) + Len(c) + Len(r) : (l \o c \o r)[i] =
               IF i <= Len(l) THEN l[i]
               ELSE IF i <= Len(l) + Len(c) THEN c[i - Len(l)] ELSE r[i - Len(l) - Len(c)]
      BY <1>2, <1>3, <1>4, Joined
    <3>. QED BY <2>1, <3>1, <3>2
  <2>3. ASSUME NEW i \in 1 .. ChipSize
        PROVE  (l \o c \o r)[i] =
                 IF i <= Start[p] THEN f[i]
                 ELSE IF i <= Stop[p] + 1 THEN [of |-> p, no |-> i - Start[p]] ELSE f[i]
    <3>1. CASE i <= Start[p]
      BY <3>1, <2>2, <1>2, Layout
    <3>2. CASE Start[p] < i /\ i <= Stop[p] + 1
      <4>1. i - Start[p] \in 1 .. Size(p)
        BY <3>2, Layout
      <4>. QED BY <3>2, <4>1, <2>2, <1>2, <1>4, Layout
    <3>3. CASE Stop[p] + 1 < i
      <4>1. i - (Stop[p] + 1) \in 1 .. ChipSize - Stop[p] - 1
        BY <3>3, Layout
      <4>2. r[i - (Stop[p] + 1)] = f[i]
        BY <4>1, <1>3, Layout
      <4>3. ~(i <= Start[p]) /\ ~(i <= Stop[p] + 1)
        BY <3>3, Layout
      <4>. QED BY <4>2, <4>3, <2>2, <1>2
    <3>4. i <= Start[p] \/ (Start[p] < i /\ i <= Stop[p] + 1) \/ Stop[p] + 1 < i
      BY Layout
    <3>. QED BY <3>1, <3>2, <3>3, <3>4
  <2>. QED BY <2>2, <2>3
<1>6. ASSUME NEW i \in 1 .. ChipSize
      PROVE  t[i] = (l \o c \o r)[i]
  <2>1. CASE Holds(p, i)
    <3>1. t[i] = [of |-> p, no |-> i - Start[p]]
      BY <2>1, ReplacedAt DEF t
    <3>. QED BY <2>1, <3>1, <1>5, Layout DEF Holds
  <2>2. CASE ~Holds(p, i)
    <3>1. (l \o c \o r)[i] = f[i]
      <4>1. i <= Start[p] \/ ~(i <= Stop[p] + 1)
        BY <2>2, Layout DEF Holds
      <4>2. Start[p] <= Stop[p] + 1
        BY Layout
      <4>. QED BY <4>1, <4>2, <1>5, Layout
    <3>2. CASE \E q \in S \cap Parts : Holds(q, i)
      <4>1. PICK q \in S \cap Parts : Holds(q, i)
        BY <3>2
      <4>2. f[i] = [of |-> q, no |-> i - Start[q]]
        BY <4>1, ReplacedAt
      <4>3. t[i] = [of |-> q, no |-> i - Start[q]]
        BY <4>1, ReplacedAt DEF t
      <4>. QED BY <3>1, <4>2, <4>3
    <3>3. CASE \A q \in S \cap Parts : ~Holds(q, i)
      <4>1. \A q \in (S \cup {p}) \cap Parts : ~Holds(q, i)
        BY <2>2, <3>3
      <4>. QED BY <3>1, <3>3, <4>1, ReplacedAt DEF t
    <3>. QED BY <3>2, <3>3
  <2>. QED BY <2>1, <2>2
<1>7. l \o c \o r = t
  BY <1>1, <1>5, <1>6, SeqEqual DEF File
<1>. QED BY <1>7 DEF l, c, r, t

-----------------------------------------------------------------------------
(* The runs.                                                                *)

\* A run is a run of what was asked, and its parts are done one after the other.
Going ==
  /\ at # "idle" =>
       /\ flashsize = Len(begun) /\ (stale => suspect)
       /\ Found(todo) \subseteq Found(asked)
  /\ at \in Busy => part \in Found(asked) /\ image[part] = "good"
  /\ at = "next" /\ ~shown => Found(asked) = done \cup Found(todo)
  /\ at \in Busy /\ ~shown => Found(asked) = done \cup {part} \cup Found(todo)
  /\ outcome = "ended" /\ ~shown => Found(asked) = done

\* Only a run that was stopped leaves before.img or after.img.
Tidy ==
  /\ ~stale /\ at \in {"idle", "next", "before"} => before = << >>
  /\ ~stale /\ at \in {"idle", "next", "before", "after"} => after = << >>

\* How far a run is that has shown no error.
SoFar ==
  ~shown /\ ~suspect /\ Len(begun) = ChipSize =>
    /\ at \in {"next", "before", "after", "concatenate"} => flash = Replaced(begun, done)
    /\ at \in {"after", "concatenate"} => before = SubSeq(flash, 1, Start[part])
    /\ at = "concatenate" => after = SubSeq(flash, Stop[part] + 2, ChipSize)
    /\ at = "remove" => flash = Replaced(begun, done \cup {part})
    /\ outcome = "ended" => flash = Replaced(begun, done)

IInv == TypeOK /\ Going /\ Tidy /\ SoFar

LEMMA ReplaceNone ==
  ASSUME NEW f \in File
  PROVE  Replaced(f, {}) = f
<1>1. \A i \in 1 .. Len(f) : Replaced(f, {})[i] = f[i]
  BY ReplacedAt
<1>. QED BY <1>1, ReplacedAt, SeqEqual DEF File

LEMMA Elements ==
  ASSUME NEW s \in Seq(Names), s # << >>
  PROVE  /\ Head(s) \in Names /\ Tail(s) \in Seq(Names)
         /\ ToSet(s) = {Head(s)} \cup ToSet(Tail(s))
<1>1. /\ Len(s) \in Nat \ {0} /\ DOMAIN s = 1 .. Len(s)
      /\ Head(s) = s[1]
  BY LenProperties, EmptySeq
<1>2. /\ Head(s) \in Names /\ Tail(s) \in Seq(Names) /\ Len(Tail(s)) = Len(s) - 1
      /\ \A i \in 1 .. Len(Tail(s)) : Tail(s)[i] = s[i + 1]
  BY HeadTailProperties
<1>3. DOMAIN Tail(s) = 1 .. Len(s) - 1
  BY <1>2, LenProperties
<1>4. ASSUME NEW x \in ToSet(s)
      PROVE  x \in {Head(s)} \cup ToSet(Tail(s))
  <2>1. PICK i \in 1 .. Len(s) : x = s[i]
    BY <1>1 DEF ToSet
  <2>2. CASE i # 1
    <3>1. i - 1 \in 1 .. Len(s) - 1 /\ Tail(s)[i - 1] = s[i]
      BY <2>2, <1>1, <1>2
    <3>. QED BY <2>1, <3>1, <1>3 DEF ToSet
  <2>. QED BY <2>1, <2>2, <1>1
<1>5. ASSUME NEW x \in {Head(s)} \cup ToSet(Tail(s))
      PROVE  x \in ToSet(s)
  <2>1. CASE x = Head(s)
    BY <2>1, <1>1 DEF ToSet
  <2>2. CASE x \in ToSet(Tail(s))
    <3>1. PICK i \in 1 .. Len(s) - 1 : x = Tail(s)[i]
      BY <2>2, <1>3 DEF ToSet
    <3>2. i + 1 \in 1 .. Len(s) /\ x = s[i + 1]
      BY <3>1, <1>1, <1>2
    <3>. QED BY <3>2, <1>1 DEF ToSet
  <2>. QED BY <2>1, <2>2
<1>. QED BY <1>2, <1>4, <1>5

LEMMA NoElements == Found(<< >>) = {} /\ << >> \in Seq(Names) /\ << >> \in File
<1>1. ToSet(<< >>) = {}
  BY EmptySeq DEF ToSet
<1>. QED BY <1>1, EmptySeq DEF Found, File

\* What grep finds for the names of a run, one after the other.
LEMMA FoundElements ==
  ASSUME NEW s \in Seq(Names), s # << >>
  PROVE  /\ Tail(s) \in Seq(Names)
         /\ Found(s) = Lines[Head(s)] \cup Found(Tail(s))
<1>1. Tail(s) \in Seq(Names) /\ ToSet(s) = {Head(s)} \cup ToSet(Tail(s))
  BY Elements
<1>. QED BY <1>1 DEF Found

LEMMA InitInv == Init => IInv
<1>. SUFFICES ASSUME Init PROVE IInv
  OBVIOUS
<1>1. TypeOK
  BY CrosAssumption, NoElements, Vendors DEF Init, TypeOK, CrosAssumption
<1>. QED BY <1>1, NoElements DEF Init, IInv, Going, Tidy, SoFar, Busy

LEMMA BeginKeeps ==
  ASSUME IInv, NEW names \in Seq(Names), Begin(names)
  PROVE  IInv'
<1>1. TypeOK'
  <2>1. Len(flash) \in Nat
    BY LenProperties DEF IInv, TypeOK, File
  <2>. QED BY <2>1, NoElements DEF IInv, TypeOK, Begin, files
<1>2. Going'
  BY DEF IInv, Going, TypeOK, Begin, files, Busy
<1>3. Tidy'
  BY DEF IInv, Tidy, Begin, files
<1>4. SoFar'
  BY ReplaceNone DEF IInv, TypeOK, SoFar, Begin, files
<1>. QED BY <1>1, <1>2, <1>3, <1>4 DEF IInv

LEMMA PassOverKeeps ==
  ASSUME IInv, PassOver
  PROVE  IInv'
<1>1. todo \in Seq(Names) /\ todo # << >>
  BY DEF IInv, TypeOK, PassOver
<1>2. /\ Tail(todo) \in Seq(Names)
      /\ Found(Tail(todo)) \subseteq Found(todo)
  BY <1>1, FoundElements
<1>3. TypeOK'
  BY <1>2 DEF IInv, TypeOK, PassOver, files, history
<1>4. Going'
  BY <1>2 DEF IInv, TypeOK, Going, PassOver, files, history, Busy
<1>5. Tidy' /\ SoFar'
  BY DEF IInv, Tidy, SoFar, PassOver, files, history
<1>. QED BY <1>3, <1>4, <1>5 DEF IInv

LEMMA TakeKeeps ==
  ASSUME IInv, Take
  PROVE  IInv'
<1>1. todo \in Seq(Names) /\ todo # << >>
  BY DEF IInv, TypeOK, Take
<1>2. /\ part' \in Parts /\ image[part'] = "good" /\ Lines[Head(todo)] = {part'}
      /\ at' = "before" /\ todo' = Tail(todo)
      /\ UNCHANGED <<flashsize, files, image, chip, outcome, shown, asked, history, runs, faults>>
  BY DEF Take, Acceptable
<1>3. /\ Tail(todo) \in Seq(Names)
      /\ Found(todo) = {part'} \cup Found(Tail(todo))
  BY <1>1, <1>2, FoundElements
<1>4. /\ at = "next" /\ at' = "before" /\ outcome # "ended"
      /\ UNCHANGED <<flashsize, flash, before, after, image, outcome, shown, asked>>
      /\ UNCHANGED <<begun, done, stale, suspect>>
  BY <1>2 DEF IInv, TypeOK, Take, files, history
<1>5. TypeOK'
  <2>1. done' \subseteq Found(asked') /\ UNCHANGED <<chip, stopped>> /\ outcome = "running"
    BY <1>2, <1>4 DEF IInv, TypeOK, history
  <2>. QED BY <1>2, <1>3, <1>4, <2>1 DEF IInv, TypeOK
<1>6. Going'
  BY <1>2, <1>3, <1>4 DEF IInv, Going, Busy
<1>7. Tidy' /\ SoFar'
  BY <1>4 DEF IInv, Tidy, SoFar
<1>. QED BY <1>5, <1>6, <1>7 DEF IInv

\* What the commands that write a file have in common.
LEMMA WritesKeep ==
  ASSUME IInv, at \in Busy, NEW whole, NEW next \in Busy, NEW error, Goes(whole, next, error),
         UNCHANGED Rest, flash' \in File, before' \in File, after' \in File
  PROVE  /\ TypeOK' /\ Going'
         /\ \/ at' = next /\ UNCHANGED <<outcome, stale>> /\ (~shown' => whole /\ ~shown)
            \/ at' = "idle" /\ outcome' = "stopped" /\ stale'
<1>1. \/ at' = next /\ UNCHANGED <<todo, outcome, stale>> /\ shown' \in BOOLEAN
         /\ (~shown' => whole /\ ~shown)
      \/ at' = "idle" /\ outcome' = "stopped" /\ todo' = << >> /\ stale' = TRUE /\ UNCHANGED shown
  BY DEF Goes
<1>2. TypeOK'
  <2>1. stopped' \in BOOLEAN
    BY DEF Goes, IInv, TypeOK
  <2>. QED BY <1>1, <2>1, NoElements DEF IInv, TypeOK, Rest, Busy
<1>3. Going'
  <2>1. CASE at' = next
    <3>1. at # "idle" /\ at \in Busy /\ at' # "idle" /\ at' # "next" /\ outcome' # "ended"
      BY <1>1, <2>1 DEF IInv, TypeOK, Busy
    <3>2. ~shown' => Found(asked) = done \cup {part} \cup Found(todo)
      BY <1>1, <3>1 DEF IInv, Going, Busy
    <3>3. todo' = todo /\ stale' = stale
      BY <1>1, <3>1
    <3>4. /\ flashsize = Len(begun) /\ (stale => suspect) /\ Found(todo) \subseteq Found(asked)
          /\ part \in Found(asked) /\ image[part] = "good"
      BY <3>1 DEF IInv, Going
    <3>. QED BY <3>1, <3>2, <3>3, <3>4 DEF Going, Rest
  <2>2. CASE at' = "idle" /\ outcome' = "stopped"
    BY <2>2 DEF Going, Busy
  <2>. QED BY <1>1, <2>1, <2>2
<1>. QED BY <1>1, <1>2, <1>3

LEMMA CutBeforeKeeps ==
  ASSUME IInv, CutBefore
  PROVE  IInv'
<1>1. /\ at = "before" /\ part \in Parts /\ UNCHANGED <<flash, after>> /\ UNCHANGED Rest
      /\ flash \in File /\ before \in File /\ after \in File
  BY DEF IInv, TypeOK, CutBefore
<1>2. Start[part] \in Nat /\ Start[part] < ChipSize
  BY <1>1, Layout
<1>3. PICK whole : /\ Goes(whole, "after", FALSE) /\ before' \in File
                   /\ whole => before' = (IF Start[part] > 0 THEN FirstBlocks(flash, Start[part])
                                          ELSE before)
  <2>1. CASE Start[part] > 0
    <3>. DEFINE new == FirstBlocks(flash, Start[part])
    <3>1. new \in File
      BY <1>1, <1>2, FirstPart
    <3>2. PICK k \in 0 .. Len(new) :
            before' = SubSeq(new, 1, k) /\ Goes(k = Len(new), "after", FALSE)
      BY <2>1 DEF CutBefore
    <3>3. before' \in File /\ (k = Len(new) => before' = new)
      BY <3>1, <3>2, Shortened
    <3>. QED BY <2>1, <3>2, <3>3
  <2>2. CASE ~(Start[part] > 0)
    BY <1>1, <2>2 DEF CutBefore
  <2>. QED BY <2>1, <2>2
<1>4. /\ TypeOK' /\ Going'
      /\ \/ at' = "after" /\ UNCHANGED <<outcome, stale>> /\ (~shown' => whole /\ ~shown)
         \/ at' = "idle" /\ outcome' = "stopped" /\ stale'
  BY <1>1, <1>3, WritesKeep DEF Busy
<1>5. Tidy'
  BY <1>1, <1>4 DEF IInv, Tidy
<1>6. SoFar'
  <2>. SUFFICES ASSUME ~shown', ~suspect', Len(begun') = ChipSize, at' = "after"
                PROVE  /\ flash' = Replaced(begun', done') /\ outcome' # "ended"
                       /\ before' = SubSeq(flash', 1, Start[part'])
    BY <1>4 DEF SoFar
  <2>1. whole /\ ~shown /\ ~suspect /\ Len(begun) = ChipSize /\ outcome' = outcome
    BY <1>1, <1>4 DEF Rest
  <2>2. flash = Replaced(begun, done) /\ ~stale /\ begun \in File /\ outcome # "ended"
    BY <1>1, <2>1 DEF IInv, SoFar, Going, TypeOK
  <2>3. Len(flash) = ChipSize
    BY <2>1, <2>2, ReplacedAt
  <2>4. before' = SubSeq(flash, 1, Start[part])
    <3>1. CASE Start[part] > 0
      <4>1. Start[part] <= Len(flash)
        BY <1>2, <2>3, Layout, <1>1
      <4>2. FirstBlocks(flash, Start[part]) = SubSeq(flash, 1, Start[part])
        BY <1>1, <1>2, <4>1, FirstPart
      <4>. QED BY <1>3, <2>1, <3>1, <4>2
    <3>2. CASE Start[part] = 0
      <4>1. before' = << >>
        BY <1>1, <1>3, <2>1, <2>2, <3>2 DEF IInv, Tidy
      <4>2. SubSeq(flash, 1, 0) = << >>
        BY SubSeqEmpty
      <4>. QED BY <3>2, <4>1, <4>2
    <3>. QED BY <3>1, <3>2, <1>2
  <2>. QED BY <1>1, <2>1, <2>2, <2>4 DEF Rest
<1>. QED BY <1>4, <1>5, <1>6 DEF IInv

LEMMA CutAfterKeeps ==
  ASSUME IInv, CutAfter
  PROVE  IInv'
<1>1. /\ at = "after" /\ part \in Parts /\ UNCHANGED <<flash, before>> /\ UNCHANGED Rest
      /\ flash \in File /\ before \in File /\ after \in File /\ flashsize \in Nat
  BY DEF IInv, TypeOK, CutAfter
<1>2. Stop[part] \in Nat /\ Stop[part] + 1 \in Nat /\ Stop[part] < ChipSize /\ ChipSize \in Nat
  BY <1>1, Layout
<1>3. PICK whole, error :
        /\ Goes(whole, "concatenate", error) /\ after' \in File
        /\ whole => after' = (IF Stop[part] + 1 < flashsize
                              THEN BlocksAfter(flash, Stop[part] + 1, flashsize) ELSE after)
  <2>1. CASE Stop[part] + 1 < flashsize
    <3>. DEFINE new == BlocksAfter(flash, Stop[part] + 1, flashsize)
    <3>1. new \in File
      BY <1>1, <1>2, LastPart
    <3>2. PICK k \in 0 .. Len(new) :
            /\ after' = SubSeq(new, 1, k)
            /\ Goes(k = Len(new), "concatenate", Len(flash) < Stop[part] + 1)
      BY <2>1 DEF CutAfter
    <3>3. after' \in File /\ (k = Len(new) => after' = new)
      BY <3>1, <3>2, Shortened
    <3>. QED BY <2>1, <3>2, <3>3
  <2>2. CASE ~(Stop[part] + 1 < flashsize)
    BY <1>1, <2>2 DEF CutAfter
  <2>. QED BY <2>1, <2>2
<1>4. /\ TypeOK' /\ Going'
      /\ \/ at' = "concatenate" /\ UNCHANGED <<outcome, stale>> /\ (~shown' => whole /\ ~shown)
         \/ at' = "idle" /\ outcome' = "stopped" /\ stale'
  BY <1>1, <1>3, WritesKeep DEF Busy
<1>5. Tidy'
  BY <1>1, <1>4 DEF IInv, Tidy
<1>6. SoFar'
  <2>. SUFFICES ASSUME ~shown', ~suspect', Len(begun') = ChipSize, at' = "concatenate"
                PROVE  /\ flash' = Replaced(begun', done') /\ outcome' # "ended"
                       /\ before' = SubSeq(flash', 1, Start[part'])
                       /\ after' = SubSeq(flash', Stop[part'] + 2, ChipSize)
    BY <1>4 DEF SoFar
  <2>1. whole /\ ~shown /\ ~suspect /\ Len(begun) = ChipSize /\ outcome' = outcome
    BY <1>1, <1>4 DEF Rest
  <2>2. /\ flash = Replaced(begun, done) /\ before = SubSeq(flash, 1, Start[part])
        /\ ~stale /\ begun \in File /\ outcome # "ended" /\ flashsize = ChipSize
    BY <1>1, <2>1 DEF IInv, SoFar, Going, TypeOK
  <2>3. Len(flash) = ChipSize
    BY <2>1, <2>2, ReplacedAt
  <2>4. after' = SubSeq(flash, Stop[part] + 2, ChipSize)
    <3>1. CASE Stop[part] + 1 < ChipSize
      <4>1. BlocksAfter(flash, Stop[part] + 1, ChipSize)
              = SubSeq(flash, Stop[part] + 1 + 1, ChipSize)
        <5>1. ChipSize <= Len(flash)
          BY <1>2, <2>3
        <5>. QED BY <1>1, <1>2, <5>1, LastPart
      <4>2. Stop[part] + 1 + 1 = Stop[part] + 2
        BY <1>2
      <4>3. after' = BlocksAfter(flash, Stop[part] + 1, ChipSize)
        BY <1>3, <2>1, <2>2, <3>1
      <4>. QED BY <4>1, <4>2, <4>3
    <3>2. CASE ~(Stop[part] + 1 < ChipSize)
      <4>1. after' = << >>
        BY <1>1, <1>3, <2>1, <2>2, <3>2 DEF IInv, Tidy
      <4>2. Stop[part] + 2 \in Int /\ ChipSize \in Int /\ ChipSize < Stop[part] + 2
        BY <1>2, <3>2
      <4>3. SubSeq(flash, Stop[part] + 2, ChipSize) = << >>
        BY <4>2, SubSeqEmpty
      <4>. QED BY <4>1, <4>3
    <3>. QED BY <3>1, <3>2
  <2>. QED BY <1>1, <2>1, <2>2, <2>4 DEF Rest
<1>. QED BY <1>4, <1>5, <1>6 DEF IInv

LEMMA ConcatenateKeeps ==
  ASSUME IInv, Concatenate
  PROVE  IInv'
<1>1. /\ at = "concatenate" /\ part \in Parts /\ UNCHANGED <<before, after>> /\ UNCHANGED Rest
      /\ before \in File /\ after \in File /\ image[part] = "good"
  BY DEF IInv, TypeOK, Going, Concatenate, Busy
<1>. DEFINE new == before \o Contents(part) \o after
<1>2. new \in File
  BY <1>1, Written, Joined
<1>3. PICK k \in 0 .. Len(new) :
        flash' = SubSeq(new, 1, k) /\ Goes(k = Len(new), "remove", FALSE)
  BY DEF Concatenate
<1>4. flash' \in File /\ (k = Len(new) => flash' = new)
  BY <1>2, <1>3, Shortened
<1>5. /\ TypeOK' /\ Going'
      /\ \/ at' = "remove" /\ UNCHANGED <<outcome, stale>> /\ (~shown' => k = Len(new) /\ ~shown)
         \/ at' = "idle" /\ outcome' = "stopped" /\ stale'
  <2>. HIDE DEF new
  <2>. QED BY <1>1, <1>3, <1>4, WritesKeep DEF Busy
<1>6. Tidy'
  BY <1>5 DEF Tidy
<1>7. SoFar'
  <2>. SUFFICES ASSUME ~shown', ~suspect', Len(begun') = ChipSize, at' = "remove"
                PROVE  flash' = Replaced(begun', done' \cup {part'}) /\ outcome' # "ended"
    BY <1>5 DEF SoFar
  <2>1. k = Len(new) /\ ~shown /\ ~suspect /\ Len(begun) = ChipSize /\ outcome' = outcome
    BY <1>1, <1>5 DEF Rest
  <2>2. /\ flash = Replaced(begun, done) /\ before = SubSeq(flash, 1, Start[part])
        /\ after = SubSeq(flash, Stop[part] + 2, ChipSize)
        /\ begun \in File /\ outcome # "ended"
    BY <1>1, <2>1 DEF IInv, SoFar, Going, TypeOK
  <2>3. Contents(part) = PartImage(part)
    BY <1>1 DEF Contents
  <2>4. SubSeq(flash, 1, Start[part]) \o PartImage(part) \o SubSeq(flash, Stop[part] + 2, ChipSize)
          = Replaced(begun, done \cup {part})
    <3>1. part \in Parts /\ begun \in File /\ Len(begun) = ChipSize
      BY <1>1, <2>1, <2>2
    <3>2. flash = Replaced(begun, done)
      BY <2>2
    <3>. QED BY <3>1, <3>2, PutIn
  <2>5. new = Replaced(begun, done \cup {part})
    BY <2>2, <2>3, <2>4
  <2>. HIDE DEF new
  <2>. QED BY <1>1, <1>4, <2>1, <2>2, <2>5 DEF Rest
<1>. QED BY <1>5, <1>6, <1>7 DEF IInv

LEMMA RemoveTemporaryKeeps ==
  ASSUME IInv, RemoveTemporary
  PROVE  IInv'
<1>1. TypeOK'
  BY NoElements DEF IInv, TypeOK, Going, RemoveTemporary, Busy
<1>2. Going'
  BY DEF IInv, TypeOK, Going, RemoveTemporary, Busy
<1>3. Tidy' /\ SoFar'
  BY DEF IInv, TypeOK, Tidy, SoFar, RemoveTemporary
<1>. QED BY <1>1, <1>2, <1>3 DEF IInv

LEMMA EndKeeps ==
  ASSUME IInv, End
  PROVE  IInv'
<1>1. TypeOK' /\ Going'
  BY NoElements DEF IInv, TypeOK, Going, End, Busy, files, history
<1>2. Tidy' /\ SoFar'
  BY DEF IInv, TypeOK, Tidy, SoFar, End, files, history
<1>. QED BY <1>1, <1>2 DEF IInv

LEMMA StopBetweenKeeps ==
  ASSUME IInv, StopBetween
  PROVE  IInv'
<1>1. before' \in File
  BY NoElements DEF IInv, TypeOK, StopBetween
<1>2. TypeOK'
  BY <1>1, NoElements DEF IInv, TypeOK, StopBetween
<1>3. Going' /\ Tidy' /\ SoFar'
  BY DEF Going, Tidy, SoFar, StopBetween, Busy
<1>. QED BY <1>2, <1>3 DEF IInv

LEMMA ReadChipKeeps ==
  ASSUME IInv, ReadChip
  PROVE  IInv'
<1>1. TypeOK'
  BY DEF IInv, TypeOK, ReadChip, UserStep, history
<1>2. Going' /\ Tidy' /\ SoFar'
  BY DEF IInv, Going, Tidy, SoFar, ReadChip, UserStep, history, Busy
<1>. QED BY <1>1, <1>2 DEF IInv

LEMMA WriteKeeps ==
  ASSUME IInv, Write, at = "idle"
  PROVE  IInv'
<1>1. outcome' \in {"written", "refused"} /\ (chip' = chip \/ (chip' = flash /\ Len(flash) = ChipSize))
  BY DEF Write
<1>2. TypeOK'
  BY <1>1 DEF IInv, TypeOK, Write, UserStep, history
<1>3. Going' /\ Tidy' /\ SoFar'
  BY <1>1 DEF IInv, Going, Tidy, SoFar, Write, UserStep, history, Busy
<1>. QED BY <1>2, <1>3 DEF IInv

LEMMA TransferKeeps ==
  ASSUME IInv, Transfer
  PROVE  IInv'
<1>1. TypeOK'
  BY DEF IInv, TypeOK, Transfer, UserStep, history
<1>2. Going' /\ Tidy' /\ SoFar'
  BY DEF IInv, Going, Tidy, SoFar, Transfer, UserStep, history, Busy
<1>. QED BY <1>1, <1>2 DEF IInv

LEMMA NextInv == IInv /\ [Next]_vars => IInv'
<1>. SUFFICES ASSUME IInv, [Next]_vars
              PROVE  IInv'
  OBVIOUS
<1>1. CASE Script
  BY <1>1, PassOverKeeps, TakeKeeps, CutBeforeKeeps, CutAfterKeeps, ConcatenateKeeps,
     RemoveTemporaryKeeps, EndKeeps DEF Script
<1>2. CASE StopBetween \/ ReadChip \/ Transfer
  BY <1>2, StopBetweenKeeps, ReadChipKeeps, TransferKeeps
<1>3. CASE GuideRun
  <2>1. Guide \in Seq(Names)
    BY CrosAssumption, SeqMonotonic DEF CrosAssumption, Names
  <2>. QED BY <1>3, <2>1, BeginKeeps DEF GuideRun
<1>4. CASE OtherRun
  BY <1>4, CrosAssumption, BeginKeeps DEF OtherRun, CrosAssumption
<1>5. CASE WriteBack \/ CarelessWrite
  BY <1>5, WriteKeeps DEF WriteBack, CarelessWrite
<1>6. CASE UNCHANGED vars
  BY <1>6 DEF vars, files, history, IInv, TypeOK, Going, Tidy, SoFar, Busy
<1>. QED BY <1>1, <1>2, <1>3, <1>4, <1>5, <1>6 DEF Next

THEOREM Invariance == Spec => []IInv
BY InitInv, NextInv, PTL DEF Spec

\* The variables have their types, for any chip, layout and numbers of runs and faults.
THEOREM TypeCorrect == Spec => []TypeOK
<1>1. IInv => TypeOK
  BY DEF IInv
<1>. QED BY <1>1, Invariance, PTL

\* A run that shows no error has put the parts that grep finds for its arguments into
\* flash.img at their places and changed nothing else, for any layout and any patterns,
\* whatever was stopped or cut short before it, unless the left-overs of a stopped run
\* were there when it began
\* (cros-flash-replace:44-96).
THEOREM RunsAlwaysReplace == Spec => []RunsReplace
<1>1. IInv => RunsReplace
  BY DEF IInv, Going, SoFar, RunsReplace
<1>. QED BY <1>1, Invariance, PTL

-----------------------------------------------------------------------------
(* The chip, while no run was stopped, when no part ends with the chip.      *)

NoPartAtTheEnd == \A p \in Parts : Stop[p] + 1 < ChipSize

Whole(f) == \E S \in SUBSET Parts : f = Replaced(Vendor, S)

\* A file that has lost blocks never gets them back.
ShortOrWhole ==
  /\ ~stale
  /\ Len(flash) < ChipSize \/ Whole(flash)
  /\ Whole(chip)
  /\ at \in {"after", "concatenate"} =>
       /\ Len(before) <= Start[part]
       /\ Len(before) = Start[part] => before = SubSeq(flash, 1, Start[part])
  /\ at = "concatenate" =>
       /\ Len(after) <= ChipSize - Stop[part] - 1
       /\ Len(after) = ChipSize - Stop[part] - 1 =>
            Len(flash) = ChipSize /\ after = SubSeq(flash, Stop[part] + 2, ChipSize)

LEMMA WholeSize ==
  ASSUME NEW f, Whole(f)
  PROVE  f \in File /\ Len(f) = ChipSize
BY Vendors, ReplacedAt DEF Whole

LEMMA InitWhole ==
  ASSUME NoPartAtTheEnd, Init
  PROVE  ShortOrWhole
<1>1. Len(flash) < ChipSize
  <2>1. flash = << >> /\ part \in Parts
    BY DEF Init
  <2>2. Stop[part] \in Nat /\ ChipSize \in Nat /\ Stop[part] < ChipSize
    BY <2>1, Layout
  <2>. QED BY <2>1, <2>2
<1>2. Whole(chip)
  BY Vendors, ReplaceNone DEF Init, Whole
<1>. QED BY <1>1, <1>2 DEF Init, ShortOrWhole

\* What a command that writes a file does when it is not stopped.
LEMMA GoesOn ==
  ASSUME ~stopped', NEW whole, NEW next, NEW error, Goes(whole, next, error)
  PROVE  at' = next /\ stale' = stale
BY DEF Goes

LEMMA CutBeforeShortOrWhole ==
  ASSUME ~stopped', IInv, ShortOrWhole, CutBefore
  PROVE  ShortOrWhole'
<1>1. /\ at = "before" /\ part \in Parts /\ UNCHANGED <<flash, after>> /\ UNCHANGED Rest
      /\ flash \in File /\ Len(flash) \in Nat /\ before = << >>
  BY LenProperties DEF IInv, TypeOK, Tidy, ShortOrWhole, CutBefore, File
<1>2. Start[part] \in Nat
  BY <1>1, Layout
<1>3. at' = "after" /\ stale' = stale
  BY GoesOn DEF CutBefore
<1>4. /\ Len(before') <= Start[part]
      /\ Len(before') = Start[part] => before' = SubSeq(flash, 1, Start[part])
  <2>1. CASE Start[part] > 0
    <3>. DEFINE new == FirstBlocks(flash, Start[part])
    <3>1. /\ new \in File /\ Len(new) = Least(Start[part], Len(flash))
          /\ Start[part] <= Len(flash) => new = SubSeq(flash, 1, Start[part])
      BY <1>1, <1>2, FirstPart
    <3>2. PICK k \in 0 .. Len(new) : before' = SubSeq(new, 1, k)
      BY <2>1 DEF CutBefore
    <3>. HIDE DEF new
    <3>3. Len(before') = k /\ (k = Len(new) => before' = new)
      BY <3>1, <3>2, Shortened
    <3>4. Len(new) <= Start[part] /\ (Len(new) = Start[part] => Start[part] <= Len(flash))
      BY <3>1, <1>1, <1>2 DEF Least
    <3>5. Len(new) \in Nat
      BY <3>1, LenProperties DEF File
    <3>. QED BY <1>2, <3>1, <3>2, <3>3, <3>4, <3>5
  <2>2. CASE Start[part] = 0
    <3>1. before' = << >>
      BY <1>1, <2>2 DEF CutBefore
    <3>2. SubSeq(flash, 1, 0) = << >>
      BY SubSeqEmpty
    <3>. QED BY <2>2, <3>1, <3>2, EmptySeq
  <2>. QED BY <2>1, <2>2, <1>2
<1>5. part' = part /\ chip' = chip /\ flash' = flash
  BY <1>1 DEF Rest
<1>. QED BY <1>3, <1>4, <1>5 DEF ShortOrWhole

LEMMA CutAfterShortOrWhole ==
  ASSUME ~stopped', NoPartAtTheEnd, IInv, ShortOrWhole, CutAfter
  PROVE  ShortOrWhole'
<1>1. /\ at = "after" /\ part \in Parts /\ UNCHANGED <<flash, before>> /\ UNCHANGED Rest
      /\ flash \in File /\ Len(flash) \in Nat /\ flashsize \in Nat /\ after = << >>
  BY LenProperties DEF IInv, TypeOK, Tidy, ShortOrWhole, CutAfter, File
<1>2. Stop[part] \in Nat /\ ChipSize \in Nat /\ Stop[part] + 1 < ChipSize
  BY <1>1, Layout DEF NoPartAtTheEnd
<1>3. at' = "concatenate" /\ stale' = stale
  BY GoesOn DEF CutAfter
<1>4. Len(flash) <= ChipSize
  BY <1>1, <1>2, WholeSize DEF ShortOrWhole
<1>5. /\ Len(after') <= ChipSize - Stop[part] - 1
      /\ Len(after') = ChipSize - Stop[part] - 1 =>
           Len(flash) = ChipSize /\ after' = SubSeq(flash, Stop[part] + 2, ChipSize)
  <2>1. CASE Stop[part] + 1 < flashsize
    <3>. DEFINE m == Stop[part] + 1
                new == BlocksAfter(flash, m, flashsize)
    <3>1. m \in Nat /\ m < ChipSize /\ m + 1 = Stop[part] + 2 /\ m < flashsize
          /\ ChipSize - Stop[part] - 1 = ChipSize - m
      BY <1>2, <2>1
    <3>2. PICK k \in 0 .. Len(new) : after' = SubSeq(new, 1, k)
      BY <2>1 DEF CutAfter
    <3>. HIDE DEF m
    <3>3. /\ new \in File
          /\ Len(new) = (IF m <= Least(flashsize, Len(flash))
                         THEN Least(flashsize, Len(flash)) - m ELSE 0)
      BY <1>1, <3>1, LastPart
    <3>. HIDE DEF new
    <3>4. Len(after') = k /\ (k = Len(new) => after' = new) /\ Len(new) \in Nat
      BY <3>2, <3>3, Shortened, LenProperties DEF File
    <3>5. /\ Len(new) <= ChipSize - m
          /\ Len(new) = ChipSize - m => Len(flash) = ChipSize /\ flashsize >= ChipSize
      BY <1>1, <1>2, <1>4, <3>1, <3>3 DEF Least
    <3>6. ASSUME Len(flash) = ChipSize, flashsize >= ChipSize
          PROVE  new = SubSeq(flash, m + 1, ChipSize)
      <4>1. Least(flashsize, Len(flash)) = ChipSize
        BY <1>1, <1>2, <3>6 DEF Least
      <4>. QED BY <4>1 DEF new, BlocksAfter
    <3>7. k \in Nat /\ k <= Len(new)
      BY <3>2, <3>4
    <3>8. Len(after') <= ChipSize - m
      BY <1>2, <3>1, <3>4, <3>5, <3>7
    <3>9. ASSUME Len(after') = ChipSize - m
          PROVE  Len(flash) = ChipSize /\ after' = SubSeq(flash, m + 1, ChipSize)
      <4>1. k = Len(new) /\ Len(new) = ChipSize - m
        BY <1>2, <3>1, <3>4, <3>5, <3>7, <3>9
      <4>. QED BY <4>1, <3>4, <3>5, <3>6
    <3>. QED BY <3>1, <3>8, <3>9
  <2>2. CASE ~(Stop[part] + 1 < flashsize)
    <3>1. after' = << >>
      BY <1>1, <2>2 DEF CutAfter
    <3>. QED BY <1>2, <3>1, EmptySeq
  <2>. QED BY <2>1, <2>2
<1>6. part' = part /\ chip' = chip /\ flash' = flash /\ before' = before
  BY <1>1 DEF Rest
<1>. QED BY <1>1, <1>3, <1>5, <1>6 DEF ShortOrWhole

\* Neither side of a part can make up for the other.
LEMMA Tight ==
  ASSUME NEW l \in Nat, NEW r \in Nat, NEW i \in Nat, NEW j \in Nat, NEW n \in Nat,
         l <= i, r <= n - j - 1, l + (j - i + 1) + r = n
  PROVE  l = i /\ r = n - j - 1
OBVIOUS

LEMMA ConcatenateShortOrWhole ==
  ASSUME ~stopped', IInv, ShortOrWhole, Concatenate
  PROVE  ShortOrWhole'
<1>1. /\ at = "concatenate" /\ part \in Parts /\ UNCHANGED Rest
      /\ flash \in File /\ before \in File /\ after \in File /\ image[part] = "good"
  BY DEF IInv, TypeOK, Going, Concatenate, Busy
<1>2. Start[part] \in Nat /\ Stop[part] \in Nat /\ ChipSize \in Nat
      /\ Size(part) = Stop[part] - Start[part] + 1
  BY <1>1, Layout
<1>3. at' = "remove" /\ stale' = stale
  BY GoesOn DEF Concatenate
<1>. DEFINE new == before \o Contents(part) \o after
<1>4. Contents(part) = PartImage(part)
  BY <1>1 DEF Contents
<1>5. new \in File /\ Len(new) = Len(before) + Size(part) + Len(after)
  <2>1. PartImage(part) \in File /\ Len(PartImage(part)) = Size(part)
    BY <1>1, Images
  <2>2. /\ before \o PartImage(part) \o after \in File
        /\ Len(before \o PartImage(part) \o after)
             = Len(before) + Len(PartImage(part)) + Len(after)
    BY <1>1, <2>1, Joined
  <2>. QED BY <1>4, <2>1, <2>2
<1>6. PICK k \in 0 .. Len(new) : flash' = SubSeq(new, 1, k)
  BY DEF Concatenate
<1>. HIDE DEF new
<1>7. Len(flash') = k /\ (k = Len(new) => flash' = new)
  BY <1>5, <1>6, Shortened
<1>8. /\ Len(before) \in Nat /\ Len(after) \in Nat
      /\ Len(before) <= Start[part] /\ Len(after) <= ChipSize - Stop[part] - 1
  BY <1>1, LenProperties DEF ShortOrWhole, File
<1>9. Len(new) <= ChipSize
  BY <1>2, <1>5, <1>8
<1>10. ASSUME Len(new) = ChipSize
       PROVE  Whole(new)
  <2>1. Len(before) = Start[part] /\ Len(after) = ChipSize - Stop[part] - 1
    <3>1. Len(before) + (Stop[part] - Start[part] + 1) + Len(after) = ChipSize
      BY <1>2, <1>5, <1>10
    <3>. QED BY <1>2, <1>8, <3>1, Tight
  <2>2. /\ before = SubSeq(flash, 1, Start[part]) /\ Len(flash) = ChipSize
        /\ after = SubSeq(flash, Stop[part] + 2, ChipSize)
    BY <1>1, <2>1 DEF ShortOrWhole
  <2>3. PICK S \in SUBSET Parts : flash = Replaced(Vendor, S)
    BY <2>2, <1>2 DEF ShortOrWhole, Whole
  <2>4. SubSeq(flash, 1, Start[part]) \o PartImage(part) \o SubSeq(flash, Stop[part] + 2, ChipSize)
          = Replaced(Vendor, S \cup {part})
    <3>1. part \in Parts /\ Vendor \in File /\ Len(Vendor) = ChipSize
      BY <1>1, Vendors
    <3>. QED BY <2>3, <3>1, PutIn
  <2>5. new = Replaced(Vendor, S \cup {part})
    BY <1>4, <2>2, <2>4 DEF new
  <2>6. S \cup {part} \in SUBSET Parts
    BY <1>1
  <2>. QED BY <2>5, <2>6 DEF Whole
<1>11. Len(flash') < ChipSize \/ Whole(flash')
  <2>1. CASE k = Len(new) /\ Len(new) = ChipSize
    BY <2>1, <1>7, <1>10
  <2>2. CASE ~(k = Len(new) /\ Len(new) = ChipSize)
    <3>1. Len(new) \in Nat
      BY <1>5, LenProperties DEF File
    <3>. QED BY <2>2, <3>1, <1>2, <1>6, <1>7, <1>9
  <2>. QED BY <2>1, <2>2
<1>. QED BY <1>1, <1>3, <1>11 DEF ShortOrWhole, Rest

LEMMA NextWhole ==
  ASSUME ~stopped', NoPartAtTheEnd, IInv, ShortOrWhole, [Next]_vars
  PROVE  ShortOrWhole'
<1>1. CASE PassOver \/ Take \/ End
  BY <1>1 DEF PassOver, Take, End, files, history, ShortOrWhole
<1>2. CASE CutBefore \/ CutAfter \/ Concatenate
  BY <1>2, CutBeforeShortOrWhole, CutAfterShortOrWhole, ConcatenateShortOrWhole
<1>3. CASE RemoveTemporary
  BY <1>3 DEF RemoveTemporary, ShortOrWhole
<1>4. CASE StopBetween
  BY <1>4 DEF StopBetween
<1>5. CASE ReadChip \/ Transfer
  <2>1. CASE ReadChip
    <3>1. at' = "idle" /\ Whole(flash') /\ Whole(chip') /\ ~stale'
      BY <2>1 DEF ReadChip, UserStep, history, ShortOrWhole
    <3>. QED BY <3>1 DEF ShortOrWhole
  <2>2. CASE Transfer
    BY <2>2 DEF Transfer, UserStep, history, ShortOrWhole
  <2>. QED BY <1>5, <2>1, <2>2
<1>6. CASE GuideRun \/ OtherRun
  BY <1>6 DEF GuideRun, OtherRun, Begin, files, ShortOrWhole
<1>7. CASE WriteBack \/ CarelessWrite
  <2>1. at = "idle" /\ Write
    BY <1>7 DEF WriteBack, CarelessWrite
  <2>2. Whole(chip')
    <3>1. CASE Len(flash) = ChipSize
      <4>1. ~(Len(flash) < ChipSize)
        BY <3>1, CrosAssumption DEF CrosAssumption
      <4>. QED BY <2>1, <3>1, <4>1 DEF Write, ShortOrWhole
    <3>2. CASE Len(flash) # ChipSize
      BY <2>1, <3>2 DEF Write, ShortOrWhole
    <3>. QED BY <3>1, <3>2
  <2>. QED BY <2>1, <2>2 DEF Write, UserStep, history, ShortOrWhole
<1>8. CASE UNCHANGED vars
  BY <1>8 DEF vars, files, history, ShortOrWhole
<1>. QED BY <1>1, <1>2, <1>3, <1>4, <1>5, <1>6, <1>7, <1>8 DEF Next, Script

\* Nothing undoes that a run was stopped.
LEMMA StoppedStays ==
  ASSUME [Next]_vars, stopped
  PROVE  stopped'
<1>1. CASE PassOver \/ Take \/ RemoveTemporary \/ End
  BY <1>1 DEF PassOver, Take, RemoveTemporary, End, history
<1>2. ASSUME NEW whole, NEW next, NEW error, Goes(whole, next, error)
      PROVE  stopped'
  BY <1>2 DEF Goes
<1>3. CASE CutBefore \/ CutAfter \/ Concatenate
  BY <1>2, <1>3 DEF CutBefore, CutAfter, Concatenate
<1>4. CASE StopBetween
  BY <1>4 DEF StopBetween
<1>5. CASE ReadChip \/ Transfer \/ WriteBack \/ CarelessWrite
  BY <1>5 DEF ReadChip, Transfer, WriteBack, CarelessWrite, Write, UserStep, history
<1>6. CASE GuideRun \/ OtherRun
  BY <1>6 DEF GuideRun, OtherRun, Begin
<1>7. CASE UNCHANGED vars
  BY <1>7 DEF vars, history
<1>. QED BY <1>1, <1>3, <1>4, <1>5, <1>6, <1>7 DEF Next, Script

\* As long as no run was stopped, the chip holds the vendor's contents with some of the
\* parts whole and in their places, for any layout in which no part ends with the chip,
\* however often the disk is full and whatever the user writes in spite of errors.
THEOREM ChipAlwaysWhole ==
  ASSUME NoPartAtTheEnd
  PROVE  Spec => []ChipStaysWhole
<1>. DEFINE Inv == IInv /\ (~stopped => ShortOrWhole)
<1>1. Init => Inv
  BY InitInv, InitWhole
<1>2. Inv /\ [Next]_vars => Inv'
  <2>. SUFFICES ASSUME Inv, [Next]_vars, ~stopped'
                PROVE  ShortOrWhole'
    BY NextInv
  <2>1. ~stopped
    BY StoppedStays
  <2>. QED BY <2>1, NextWhole
<1>3. Inv => ChipStaysWhole
  BY DEF ShortOrWhole, Whole, ChipStaysWhole
<1>. QED BY <1>1, <1>2, <1>3, PTL DEF Spec

=================================================================================
