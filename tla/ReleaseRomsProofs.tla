--------------------------- MODULE ReleaseRomsProofs ---------------------------
(***************************************************************************)
(* A release that was not disturbed leaves an archive of what is under     *)
(* bin/ for every board, and after a build that exits 0 nothing unfinished *)
(* in it: for any boards and images, whatever builds, releases and cleans  *)
(* of bin/ came before.                                                    *)
(***************************************************************************)
EXTENDS ReleaseRoms, TLAPS

AtCopied == {"change log", "pack", "packing", "remove copy"}
AtBoard == {"copy", "copying"} \cup AtCopied

Unfinished(images) == Holding(images, FALSE)
Whole(images) == Holding(images, TRUE)

\* The images of one board, and what a copy or an archive of them may be.
ImagesOnly(f, b) == DOMAIN f \subseteq Images[b]
CopyOf(d, b) ==
  \/ d = None
  \/ d \in {Unfinished(d.images), Whole(d.images)} /\ ImagesOnly(d.images, b)

\* What the builds leave under bin/.
OnShelf ==
  /\ DOMAIN shelf = Boards
  /\ \A b \in Boards : ImagesOnly(shelf[b], b)
  /\ family \subseteq Boards
  /\ outcome = "ok" => \A b \in family : Finished(b)

Where ==
  /\ at \in {"idle", "next board"} \cup AtBoard
  /\ todo \subseteq Boards /\ found \subseteq Boards /\ board \in Boards \cup {NoBoard}
  /\ at \in {"idle", "next board"} <=> board = NoBoard
  /\ released \in {"none", "running", "ok", "stopped", "aborted"}
  /\ released = "running" <=> at # "idle"

Copies ==
  /\ DOMAIN copy = Boards /\ DOMAIN archive = Boards
  /\ \A b \in Boards : CopyOf(copy[b], b) /\ CopyOf(archive[b], b)
  /\ at \in AtBoard \ {"copy"} => copy[board] # None
  /\ at = "packing" => archive[board] # None

\* What is under bin/ for b is in its archive.
Archived(b) == DOMAIN shelf[b] # {} => archive[b] = Whole(shelf[b])

\* How far an undisturbed release has come: it is in nobody's way, not even its own.
Undisturbed ==
  /\ at # "idle" /\ tidy =>
       /\ \A b \in Boards \ {board} : copy[b] = None
       /\ \A b \in Boards \ (todo \cup {board}) : Archived(b)
  /\ tidy =>
       /\ at = "copy" => copy[board] = None
       /\ at = "copying" => copy[board] = Unfinished(shelf[board])
       /\ at \in AtCopied => copy[board] = Whole(shelf[board])
       /\ at = "packing" => archive[board] = Unfinished(shelf[board])
       /\ at = "remove copy" => archive[board] = Whole(shelf[board])
  /\ released = "ok" /\ tidy => \A b \in Boards : Archived(b)

\* The inductive invariant.
RInv == OnShelf /\ Where /\ Copies /\ Undisturbed

USE DEF AtCopied, AtBoard

-----------------------------------------------------------------------------
LEMMA Nothing == DOMAIN << >> = {}
OBVIOUS

LEMMA ANew ==
  \A i : /\ Unfinished(i) # None /\ Unfinished(i).images = i /\ Unfinished(i).whole = FALSE
         /\ Whole(i) # None /\ Whole(i).images = i /\ Whole(i).whole = TRUE
BY DEF Holding, None, Unfinished, Whole

\* A copy is completed, or an archive: its last field is written.
Completed(d) == [d EXCEPT !.whole = TRUE]
CutShort(d) == [d EXCEPT !.whole = FALSE]

LEMMA LastField ==
  ASSUME NEW d, NEW i, d \in {Unfinished(i), Whole(i)}
  PROVE  Completed(d) = Whole(i) /\ CutShort(d) = Unfinished(i)
<1>1. \A v, w : [Holding(i, v) EXCEPT !.whole = w] = Holding(i, w)
  BY DEF Holding
<1>2. Completed(Unfinished(i)) = Whole(i) /\ CutShort(Unfinished(i)) = Unfinished(i)
  BY <1>1, Zenon DEF Unfinished, Whole, Completed, CutShort
<1>3. Completed(Whole(i)) = Whole(i) /\ CutShort(Whole(i)) = Unfinished(i)
  BY <1>1, Zenon DEF Unfinished, Whole, Completed, CutShort
<1>. QED BY <1>2, <1>3

LEMMA ImagesHeld ==
  ASSUME NEW i, NEW b, ImagesOnly(i, b)
  PROVE  CopyOf(Unfinished(i), b) /\ CopyOf(Whole(i), b)
BY ANew DEF CopyOf

\* What is written in the directory of one board leaves the others alone.
LEMMA OneWritten ==
  ASSUME NEW f, DOMAIN f = Boards, \A b \in Boards : CopyOf(f[b], b),
         NEW c \in Boards, NEW d, CopyOf(d, c), NEW g, g = [f EXCEPT ![c] = d]
  PROVE  /\ DOMAIN g = Boards /\ g[c] = d
         /\ \A b \in Boards : CopyOf(g[b], b)
         /\ \A b \in Boards \ {c} : g[b] = f[b]
OBVIOUS

LEMMA InitInv == ReleaseInit => RInv
<1>. SUFFICES ASSUME ReleaseInit PROVE RInv
  OBVIOUS
<1>1. OnShelf
  BY Nothing DEF ReleaseInit, Init, OnShelf, ImagesOnly
<1>2. Where
  BY DEF ReleaseInit, Where
<1>3. Copies
  BY DEF ReleaseInit, Copies, CopyOf
<1>4. Undisturbed
  BY DEF ReleaseInit, Undisturbed
<1>. QED BY <1>1, <1>2, <1>3, <1>4 DEF RInv

-----------------------------------------------------------------------------
(* The builds.                                                              *)

LEMMA InsertionKeepsShelf ==
  ASSUME OnShelf, NEW b \in Boards, NEW n \in DOMAIN shelf[b], NEW v,
         shelf' = [shelf EXCEPT ![b][n].inserted = v], UNCHANGED family, outcome' # "ok"
  PROVE  OnShelf'
<1>1. DOMAIN shelf' = Boards /\ \A d \in Boards : DOMAIN shelf'[d] = DOMAIN shelf[d]
  BY DEF OnShelf
<1>. QED BY <1>1 DEF OnShelf, ImagesOnly

LEMMA BuildKeepsShelf == OnShelf /\ Next => OnShelf'
<1>. SUFFICES ASSUME OnShelf, Next
              PROVE  OnShelf'
  OBVIOUS
<1>1. ASSUME NEW F \in Families, NEW R \in SUBSET F, Begin(F, R)
      PROVE  OnShelf'
  BY <1>1, ReleaseAssumption DEF OnShelf, Begin
<1>2. ASSUME NEW b \in Boards, Place(b)
      PROVE  OnShelf'
  <2>1. /\ DOMAIN shelf' = Boards /\ DOMAIN shelf'[b] = Images[b]
        /\ \A d \in Boards \ {b} : shelf'[d] = shelf[d]
    BY <1>2 DEF OnShelf, Place
  <2>. QED BY <1>2, <2>1 DEF OnShelf, ImagesOnly, Place
<1>3. ASSUME NEW b \in Boards, NEW n \in DOMAIN shelf[b], Discard(b, n)
      PROVE  OnShelf'
  <2>1. /\ DOMAIN shelf' = Boards /\ DOMAIN shelf'[b] = DOMAIN shelf[b] \ {n}
        /\ \A d \in Boards \ {b} : shelf'[d] = shelf[d]
    BY <1>3 DEF OnShelf, Discard
  <2>. QED BY <1>3, <2>1 DEF OnShelf, ImagesOnly, Discard
<1>4. ASSUME NEW b \in Boards, NEW v \in Finishes[b], NEW n \in DOMAIN shelf[b],
             BeginInsert(b, n, v) \/ EndInsert(b, n, v)
      PROVE  OnShelf'
  <2>1. UNCHANGED family /\ outcome' # "ok"
    BY <1>4 DEF BeginInsert, EndInsert
  <2>2. PICK w : shelf' = [shelf EXCEPT ![b][n].inserted = w]
    BY <1>4 DEF BeginInsert, EndInsert
  <2>. QED BY <2>1, <2>2, InsertionKeepsShelf
<1>5. CASE Succeed
  BY <1>5 DEF OnShelf, Succeed, Finished
<1>6. CASE Fail
  BY <1>6 DEF OnShelf, Fail
<1>. QED BY <1>1, <1>2, <1>3, <1>4, <1>5, <1>6 DEF Next

LEMMA BuildInv == RInv /\ BuildStep => RInv'
<1>. SUFFICES ASSUME RInv, BuildStep
              PROVE  RInv'
  OBVIOUS
<1>1. /\ at = "idle" /\ released' = "none" /\ Next
      /\ UNCHANGED <<at, todo, board, found, copy, archive, tidy>>
  BY DEF BuildStep
<1>2. OnShelf'
  BY <1>1, BuildKeepsShelf DEF RInv
<1>. QED
  BY <1>1, <1>2 DEF RInv, Where, Copies, CopyOf, ImagesOnly, Undisturbed

LEMMA CleanInv == RInv /\ CleanImages => RInv'
<1>. SUFFICES ASSUME RInv, CleanImages
              PROVE  RInv'
  OBVIOUS
<1>1. /\ at = "idle" /\ released' = "none"
      /\ shelf' = [b \in Boards |-> << >>] /\ copy' = [b \in Boards |-> None]
      /\ UNCHANGED <<at, todo, board, found, archive, tidy, outcome, family>>
  BY DEF CleanImages
<1>2. OnShelf'
  <2>1. \A b \in Boards : DOMAIN shelf'[b] = {}
    BY <1>1, Nothing
  <2>. QED BY <1>1, <2>1 DEF RInv, OnShelf, ImagesOnly, Finished
<1>3. Copies'
  BY <1>1 DEF RInv, Copies, CopyOf, ImagesOnly
<1>. QED BY <1>1, <1>2, <1>3 DEF RInv, Where, Undisturbed

-----------------------------------------------------------------------------
(* The release.  It leaves bin/ as it is, but for its copies.               *)

LEMMA ShelfStays ==
  ASSUME OnShelf, UNCHANGED vars
  PROVE  OnShelf'
BY DEF OnShelf, ImagesOnly, Finished, vars

LEMMA WhereKept ==
  ASSUME RInv, ReleaseStep
  PROVE  Where'
<1>0. Where /\ NoBoard \notin Boards
  BY ReleaseAssumption DEF RInv
<1>. USE DEF Where
<1>1. CASE StartRelease
  BY <1>0, <1>1 DEF StartRelease
<1>2. CASE DeleteOldArchive
  BY <1>0, <1>2 DEF DeleteOldArchive
<1>3. CASE BeginCopy \/ EndCopy \/ BeginPack \/ EndPack \/ RemoveCopy
  BY <1>0, <1>3 DEF BeginCopy, EndCopy, BeginPack, EndPack, RemoveCopy
<1>4. CASE ChangeLog \/ CopyIsGone \/ ReleaseEnds \/ StopRelease
  BY <1>0, <1>4 DEF ChangeLog, CopyIsGone, ReleaseEnds, StopRelease
<1>. QED BY <1>1, <1>2, <1>3, <1>4 DEF ReleaseStep

\* What cp and tar leave.
LEMMA BeginCopyWrites ==
  ASSUME RInv, BeginCopy
  PROVE  /\ board \in Boards
         /\ IF copy[board] = None
            THEN /\ copy' = [copy EXCEPT ![board] = Unfinished(shelf[board])]
                 /\ CopyOf(Unfinished(shelf[board]), board)
            ELSE copy' = copy
BY ImagesHeld DEF RInv, Where, OnShelf, BeginCopy, Unfinished

LEMMA EndCopyWrites ==
  ASSUME RInv, EndCopy
  PROVE  /\ board \in Boards
         /\ IF copy[board].images = shelf[board]
            THEN /\ copy' = [copy EXCEPT ![board] = Whole(shelf[board])]
                 /\ CopyOf(Whole(shelf[board]), board)
            ELSE copy' = copy
<1>1. board \in Boards /\ copy[board] # None /\ CopyOf(copy[board], board)
  BY DEF RInv, Where, Copies, EndCopy
<1>2. copy[board] \in {Unfinished(copy[board].images), Whole(copy[board].images)}
  BY <1>1 DEF CopyOf
<1>3. CASE copy[board].images = shelf[board]
  <2>1. copy' = [copy EXCEPT ![board] = Completed(copy[board])]
    BY <1>3 DEF EndCopy, Completed
  <2>2. Completed(copy[board]) = Whole(shelf[board])
    BY <1>2, <1>3, LastField
  <2>. QED BY <1>1, <1>3, <2>1, <2>2, ImagesHeld DEF RInv, OnShelf
<1>4. CASE copy[board].images # shelf[board]
  BY <1>1, <1>4 DEF EndCopy
<1>. QED BY <1>3, <1>4

LEMMA BeginPackWrites ==
  ASSUME RInv, BeginPack
  PROVE  /\ board \in Boards /\ copy[board] # None
         /\ archive' = [archive EXCEPT ![board] = Unfinished(copy[board].images)]
         /\ CopyOf(Unfinished(copy[board].images), board)
<1>1. board \in Boards /\ copy[board] # None /\ CopyOf(copy[board], board)
  BY DEF RInv, Where, Copies, BeginPack
<1>2. CopyOf(Unfinished(copy[board].images), board)
  BY <1>1, ImagesHeld DEF CopyOf
<1>. QED BY <1>1, <1>2 DEF BeginPack, Unfinished

LEMMA EndPackWrites ==
  ASSUME RInv, EndPack
  PROVE  /\ board \in Boards /\ copy[board] # None
         /\ \E d \in {Unfinished(archive[board].images), Whole(archive[board].images)} :
              /\ archive' = [archive EXCEPT ![board] = d]
              /\ CopyOf(d, board)
              /\ tidy' => tidy /\ (copy[board].whole => d = Whole(archive[board].images))
<1>1. /\ board \in Boards
      /\ copy[board] # None /\ CopyOf(copy[board], board)
      /\ archive[board] # None /\ CopyOf(archive[board], board)
  BY DEF RInv, Where, Copies, EndPack
<1>2. PICK complete \in BOOLEAN :
        /\ archive' = [archive EXCEPT ![board].whole = complete /\ copy[board].whole]
        /\ tidy' = (tidy /\ complete)
  BY DEF EndPack
<1>3. /\ Completed(archive[board]) = Whole(archive[board].images)
      /\ CutShort(archive[board]) = Unfinished(archive[board].images)
  BY <1>1, LastField DEF CopyOf
<1>4. /\ CopyOf(Whole(archive[board].images), board)
      /\ CopyOf(Unfinished(archive[board].images), board)
  BY <1>1, ImagesHeld DEF CopyOf
<1>5. CASE complete /\ copy[board].whole
  <2>1. archive' = [archive EXCEPT ![board] = Completed(archive[board])]
    BY <1>2, <1>5 DEF Completed
  <2>. QED BY <1>1, <1>2, <1>3, <1>4, <2>1
<1>6. CASE ~ (complete /\ copy[board].whole)
  <2>1. archive' = [archive EXCEPT ![board] = CutShort(archive[board])]
    BY <1>2, <1>6 DEF CutShort
  <2>. QED BY <1>1, <1>2, <1>3, <1>4, <1>6, <2>1
<1>. QED BY <1>5, <1>6

LEMMA CopiesKept ==
  ASSUME RInv, ReleaseStep
  PROVE  Copies'
<1>0. Copies
  BY DEF RInv
<1>1. CASE StartRelease \/ DeleteOldArchive \/ ChangeLog \/ CopyIsGone \/ ReleaseEnds \/ StopRelease
  <2>1. /\ UNCHANGED <<copy, archive>>
        /\ at' \in AtBoard \ {"copy"} => at \in AtBoard \ {"copy"} /\ board' = board
        /\ at' # "packing"
    BY <1>1 DEF StartRelease, DeleteOldArchive, ChangeLog, CopyIsGone, ReleaseEnds, StopRelease
  <2>. QED BY <1>0, <2>1 DEF Copies, CopyOf, ImagesOnly
<1>2. CASE BeginCopy
  <2>1. /\ at' = "copying" /\ UNCHANGED <<board, archive>>
    BY <1>2 DEF BeginCopy
  <2>2. /\ DOMAIN copy' = Boards /\ copy'[board] # None
        /\ \A b \in Boards : CopyOf(copy'[b], b)
    <3>1. CASE copy[board] = None
      <4>1. /\ board \in Boards /\ CopyOf(Unfinished(shelf[board]), board)
            /\ copy' = [copy EXCEPT ![board] = Unfinished(shelf[board])]
        BY <1>2, <3>1, BeginCopyWrites
      <4>. QED BY <1>0, <4>1, OneWritten, ANew DEF Copies
    <3>2. CASE ~ (copy[board] = None)
      <4>1. copy' = copy /\ copy[board] # None
        BY <1>0, <1>2, <3>2, BeginCopyWrites DEF Copies
      <4>. QED BY <1>0, <4>1 DEF Copies
    <3>. QED BY <3>1, <3>2
  <2>. QED BY <1>0, <2>1, <2>2 DEF Copies, CopyOf, ImagesOnly
<1>3. CASE EndCopy
  <2>1. /\ at = "copying" /\ at' = "change log" /\ UNCHANGED <<board, archive>>
    BY <1>3 DEF EndCopy
  <2>2. /\ DOMAIN copy' = Boards /\ copy'[board] # None
        /\ \A b \in Boards : CopyOf(copy'[b], b)
    <3>1. CASE copy[board].images = shelf[board]
      <4>1. /\ board \in Boards /\ CopyOf(Whole(shelf[board]), board)
            /\ copy' = [copy EXCEPT ![board] = Whole(shelf[board])]
        BY <1>3, <3>1, EndCopyWrites
      <4>. QED BY <1>0, <4>1, OneWritten, ANew DEF Copies
    <3>2. CASE ~ (copy[board].images = shelf[board])
      <4>1. copy' = copy /\ copy[board] # None
        BY <1>0, <1>3, <2>1, <3>2, EndCopyWrites DEF Copies
      <4>. QED BY <1>0, <4>1 DEF Copies
    <3>. QED BY <3>1, <3>2
  <2>. QED BY <1>0, <2>1, <2>2 DEF Copies, CopyOf, ImagesOnly
<1>4. CASE BeginPack
  <2>1. /\ at' = "packing" /\ UNCHANGED <<board, copy>>
    BY <1>4 DEF BeginPack
  <2>2. /\ DOMAIN archive' = Boards /\ archive'[board] # None
        /\ \A b \in Boards : CopyOf(archive'[b], b)
    <3>1. /\ board \in Boards /\ CopyOf(Unfinished(copy[board].images), board)
          /\ archive' = [archive EXCEPT ![board] = Unfinished(copy[board].images)]
      BY <1>4, BeginPackWrites
    <3>. QED BY <1>0, <3>1, OneWritten, ANew DEF Copies
  <2>. QED BY <1>0, <1>4, <2>1, <2>2, BeginPackWrites DEF Copies, CopyOf, ImagesOnly
<1>5. CASE EndPack
  <2>1. /\ at' = "remove copy" /\ UNCHANGED <<board, copy>>
    BY <1>5 DEF EndPack
  <2>2. DOMAIN archive' = Boards /\ \A b \in Boards : CopyOf(archive'[b], b)
    BY <1>0, <1>5, EndPackWrites, OneWritten DEF Copies
  <2>. QED BY <1>0, <1>5, <2>1, <2>2, EndPackWrites DEF Copies, CopyOf, ImagesOnly
<1>6. CASE RemoveCopy
  <2>1. /\ at = "remove copy" /\ at' = "next board" /\ UNCHANGED archive
        /\ copy' = [copy EXCEPT ![board] = None] /\ board \in Boards
    BY <1>6 DEF RInv, Where, RemoveCopy
  <2>2. DOMAIN copy' = Boards /\ \A b \in Boards : CopyOf(copy'[b], b)
    BY <1>0, <2>1, OneWritten DEF Copies, CopyOf
  <2>. QED BY <1>0, <2>1, <2>2 DEF Copies, CopyOf, ImagesOnly
<1>. QED BY <1>1, <1>2, <1>3, <1>4, <1>5, <1>6 DEF ReleaseStep

LEMMA UndisturbedKept ==
  ASSUME RInv, ReleaseStep, UNCHANGED vars
  PROVE  Undisturbed'
<1>0. /\ Undisturbed /\ Where /\ Copies /\ NoBoard \notin Boards /\ UNCHANGED shelf
  BY ReleaseAssumption DEF RInv, vars
<1>1. CASE StartRelease
  <2>1. /\ at' = "next board" /\ released' = "running" /\ UNCHANGED <<board, copy, archive>>
        /\ tidy' = \A b \in Boards : copy[b] = None
        /\ todo' = {b \in Boards : shelf[b] # << >>}
    BY <1>1 DEF StartRelease
  <2>2. \A b \in Boards \ todo' : Archived(b)'
    BY <1>0, <2>1, Nothing DEF Archived
  <2>. QED BY <1>0, <2>1, <2>2 DEF Undisturbed
<1>2. CASE DeleteOldArchive
  <2>1. PICK b \in todo : board' = b /\ todo' = todo \ {b}
    BY <1>2 DEF DeleteOldArchive
  <2>2. /\ at = "next board" /\ at' = "copy" /\ UNCHANGED <<copy, archive, released, tidy>>
        /\ board = NoBoard /\ b \in Boards /\ released = "running"
    BY <1>0, <1>2, <2>1 DEF Where, DeleteOldArchive
  <2>3. Boards \ (todo' \cup {board'}) \subseteq Boards \ (todo \cup {board})
    BY <1>0, <2>1, <2>2
  <2>4. tidy => \A c \in Boards : copy[c] = None
    BY <1>0, <2>2 DEF Undisturbed
  <2>5. tidy => \A c \in Boards \ (todo \cup {board}) : Archived(c)
    BY <1>0, <2>2 DEF Undisturbed
  <2>6. tidy => \A c \in Boards \ (todo' \cup {board'}) : Archived(c)'
    BY <1>0, <2>2, <2>3, <2>5 DEF Archived
  <2>. QED BY <2>1, <2>2, <2>4, <2>6 DEF Undisturbed
<1>3. CASE BeginCopy \/ EndCopy \/ BeginPack \/ EndPack \/ RemoveCopy
  <2>1. /\ at \in AtBoard /\ released = "running" /\ board \in Boards
        /\ UNCHANGED <<todo, released>> /\ (tidy' => tidy)
        /\ tidy => /\ \A b \in Boards \ {board} : copy[b] = None
                   /\ \A b \in Boards \ (todo \cup {board}) : Archived(b)
    <3>1. at \in AtBoard /\ UNCHANGED <<todo, released>>
      BY <1>3 DEF BeginCopy, EndCopy, BeginPack, EndPack, RemoveCopy
    <3>2. released = "running" /\ board \in Boards
      BY <1>0, <3>1 DEF Where
    <3>3. CASE EndPack
      BY <1>0, <3>1, <3>3, EndPackWrites DEF Where, Undisturbed
    <3>4. CASE BeginCopy \/ EndCopy \/ BeginPack \/ RemoveCopy
      <4>1. UNCHANGED tidy
        BY <3>4 DEF BeginCopy, EndCopy, BeginPack, RemoveCopy
      <4>. QED BY <1>0, <3>1, <3>2, <4>1 DEF Undisturbed
    <3>. QED BY <1>3, <3>3, <3>4
  <2>2. CASE BeginCopy
    <3>1. /\ at = "copy" /\ at' = "copying" /\ UNCHANGED <<board, archive, tidy>>
          /\ tidy => copy[board] = None
      BY <1>0, <2>2 DEF BeginCopy, Undisturbed
    <3>2. tidy => /\ copy'[board] = Unfinished(shelf[board])
                  /\ \A b \in Boards \ {board} : copy'[b] = None
      BY <1>0, <2>1, <2>2, <3>1, BeginCopyWrites, OneWritten DEF Copies
    <3>3. tidy => \A b \in Boards \ (todo \cup {board}) : Archived(b)'
      BY <1>0, <2>1, <3>1 DEF Archived
    <3>. QED BY <1>0, <2>1, <3>1, <3>2, <3>3 DEF Undisturbed
  <2>3. CASE EndCopy
    <3>1. /\ at = "copying" /\ at' = "change log" /\ UNCHANGED <<board, archive, tidy>>
          /\ tidy => copy[board] = Unfinished(shelf[board])
      BY <1>0, <2>3 DEF EndCopy, Undisturbed
    <3>2. tidy => /\ copy'[board] = Whole(shelf[board])
                  /\ \A b \in Boards \ {board} : copy'[b] = None
      <4>1. tidy => copy[board].images = shelf[board]
        BY <3>1, ANew
      <4>. QED BY <1>0, <2>1, <2>3, <4>1, EndCopyWrites, OneWritten DEF Copies
    <3>3. tidy => \A b \in Boards \ (todo \cup {board}) : Archived(b)'
      BY <1>0, <2>1, <3>1 DEF Archived
    <3>. QED BY <1>0, <2>1, <3>1, <3>2, <3>3 DEF Undisturbed
  <2>4. CASE BeginPack
    <3>1. /\ at = "pack" /\ at' = "packing" /\ UNCHANGED <<board, copy, tidy>>
          /\ tidy => copy[board] = Whole(shelf[board])
      BY <1>0, <2>4 DEF BeginPack, Undisturbed
    <3>2. /\ tidy => archive'[board] = Unfinished(shelf[board])
          /\ \A b \in Boards \ {board} : archive'[b] = archive[b]
      <4>1. tidy => copy[board].images = shelf[board]
        BY <3>1, ANew
      <4>2. archive' = [archive EXCEPT ![board] = Unfinished(copy[board].images)]
        BY <2>4, BeginPackWrites
      <4>. QED BY <1>0, <2>1, <4>1, <4>2 DEF Copies
    <3>3. tidy => \A b \in Boards \ (todo \cup {board}) : Archived(b)'
      BY <1>0, <2>1, <3>1, <3>2 DEF Archived
    <3>. QED BY <1>0, <2>1, <3>1, <3>2, <3>3 DEF Undisturbed
  <2>5. CASE EndPack
    <3>1. /\ at = "packing" /\ at' = "remove copy" /\ UNCHANGED <<board, copy>>
          /\ tidy => /\ copy[board] = Whole(shelf[board])
                     /\ archive[board] = Unfinished(shelf[board])
      BY <1>0, <2>5 DEF EndPack, Undisturbed
    <3>2. PICK d \in {Unfinished(archive[board].images), Whole(archive[board].images)} :
            /\ archive' = [archive EXCEPT ![board] = d]
            /\ tidy' => tidy /\ (copy[board].whole => d = Whole(archive[board].images))
      BY <2>5, EndPackWrites
    <3>3. /\ tidy' => archive'[board] = Whole(shelf[board])
          /\ \A b \in Boards \ {board} : archive'[b] = archive[b]
      <4>1. tidy' => copy[board].whole = TRUE /\ archive[board].images = shelf[board]
        BY <3>1, <3>2, ANew
      <4>. QED BY <1>0, <2>1, <3>2, <4>1 DEF Copies
    <3>4. tidy' => \A b \in Boards \ (todo \cup {board}) : Archived(b)'
      BY <1>0, <2>1, <3>1, <3>3 DEF Archived
    <3>. QED BY <1>0, <2>1, <3>1, <3>3, <3>4 DEF Undisturbed
  <2>6. CASE RemoveCopy
    <3>1. /\ at = "remove copy" /\ at' = "next board" /\ board' = NoBoard
          /\ UNCHANGED <<archive, tidy>> /\ copy' = [copy EXCEPT ![board] = None]
          /\ tidy => archive[board] = Whole(shelf[board])
      BY <1>0, <2>6 DEF RemoveCopy, Undisturbed
    <3>2. tidy => \A b \in Boards : copy'[b] = None
      BY <1>0, <2>1, <3>1 DEF Copies
    <3>3. tidy => \A b \in Boards \ todo : Archived(b)'
      BY <1>0, <2>1, <3>1 DEF Archived
    <3>. QED BY <1>0, <2>1, <3>1, <3>2, <3>3 DEF Undisturbed
  <2>. QED BY <1>3, <2>2, <2>3, <2>4, <2>5, <2>6
<1>4. CASE ChangeLog
  BY <1>0, <1>4 DEF Where, Undisturbed, Archived, ChangeLog
<1>5. CASE ReleaseEnds
  <2>1. /\ at = "next board" /\ todo = {} /\ at' = "idle" /\ board = NoBoard
        /\ UNCHANGED <<todo, board, copy, archive, tidy>>
    BY <1>0, <1>5 DEF Where, ReleaseEnds
  <2>2. tidy => \A b \in Boards : Archived(b)'
    BY <1>0, <2>1 DEF Undisturbed, Archived
  <2>. QED BY <2>1, <2>2 DEF Undisturbed
<1>6. CASE CopyIsGone \/ StopRelease
  BY <1>6 DEF CopyIsGone, StopRelease, Undisturbed
<1>. QED BY <1>1, <1>2, <1>3, <1>4, <1>5, <1>6 DEF ReleaseStep

LEMMA NextInv == RInv /\ [ReleaseNext]_<<vars, release>> => RInv'
<1>. SUFFICES ASSUME RInv, [ReleaseNext]_<<vars, release>>
              PROVE  RInv'
  OBVIOUS
<1>1. CASE ReleaseStep /\ UNCHANGED vars
  BY <1>1, ShelfStays, WhereKept, CopiesKept, UndisturbedKept DEF RInv
<1>2. CASE BuildStep \/ CleanImages
  BY <1>2, BuildInv, CleanInv
<1>3. CASE UNCHANGED <<vars, release>>
  BY <1>3
  DEF RInv, OnShelf, Where, Copies, Undisturbed, CopyOf, ImagesOnly, Finished, Archived, vars,
      release
<1>. QED BY <1>1, <1>2, <1>3 DEF ReleaseNext

LEMMA Invariance == ReleaseSpec => []RInv
BY InitInv, NextInv, PTL DEF ReleaseSpec

-----------------------------------------------------------------------------
\* The type invariant, for any boards and images (release/roms:30-90).
THEOREM TypeCorrect == ReleaseSpec => []ReleaseTypeOK
<1>1. RInv => ReleaseTypeOK
  <2>. SUFFICES ASSUME RInv PROVE ReleaseTypeOK
    OBVIOUS
  <2>1. ASSUME NEW b \in Boards, NEW d \in {copy[b], archive[b]} \ {None}
        PROVE  d.whole \in BOOLEAN /\ DOMAIN d.images \subseteq Images[b]
    <3>1. CopyOf(d, b) /\ d # None
      BY DEF RInv, Copies
    <3>2. d \in {Unfinished(d.images), Whole(d.images)} /\ ImagesOnly(d.images, b)
      BY <3>1 DEF CopyOf
    <3>3. d.whole \in BOOLEAN
      BY <3>2, ANew
    <3>. QED BY <3>2, <3>3 DEF ImagesOnly
  <2>. QED BY <2>1 DEF RInv, Where, Copies, ReleaseTypeOK
<1>. QED BY <1>1, Invariance, PTL

\* ArchivesAreCurrent, for any boards and images: no release that was not disturbed
\* exits 0 with an archive missing, cut short or of an earlier build
\* (release/roms:46-86).
THEOREM CurrentArchives == ReleaseSpec => []ArchivesAreCurrent
<1>1. RInv => ArchivesAreCurrent
  BY DEF RInv, Undisturbed, Archived, ArchivesAreCurrent, Whole
<1>. QED BY <1>1, Invariance, PTL

\* FinishedAreReleased, for any boards, images and finishes: the promise of RomShelf
\* about a build that exits 0 holds for what is in the archives (release/roms:46-86).
THEOREM FinishedReleases == ReleaseSpec => []FinishedAreReleased
<1>1. RInv => FinishedAreReleased
  <2>. SUFFICES ASSUME RInv, released = "ok", tidy, outcome = "ok",
                       NEW b \in family, NEW n \in DOMAIN shelf[b], Finishes[b] # {}
                PROVE  archive[b].images[n].inserted \in Finishes[b]
    BY DEF FinishedAreReleased
  <2>1. b \in Boards /\ shelf[b][n].inserted \in Finishes[b]
    BY DEF RInv, OnShelf, Finished
  <2>2. archive[b].images = shelf[b]
    <3>1. DOMAIN shelf[b] # {}
      OBVIOUS
    <3>2. archive[b] = Whole(shelf[b])
      BY <2>1, <3>1 DEF RInv, Undisturbed, Archived
    <3>. QED BY <3>2, ANew
  <2>. QED BY <2>1, <2>2
<1>. QED BY <1>1, Invariance, PTL
================================================================================
