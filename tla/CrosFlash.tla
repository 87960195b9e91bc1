-------------------------------- MODULE CrosFlash --------------------------------
(***************************************************************************)
(* Installing libreboot on the ASUS Chromebook C201: the user reads the    *)
(* flash chip into flash.img, cros-flash-replace puts the parts that       *)
(* withdepthcharge built into it, and the user writes flash.img back       *)
(* (src/resources/libreboot/install/depthcharge/cros-flash-replace).       *)
(*                                                                         *)
(* The script runs without set -e and tests no exit status.  It cuts       *)
(* flash.img into before.img and after.img, and puts it together again in  *)
(* place.  It can be stopped at any command, and in the middle of one; the *)
(* disk can be full at any write.  A file is the sequence of its blocks of *)
(* 256 bytes, in which all sizes are; a part is a file <part>.img and a    *)
(* line of layout.txt.  An argument is a pattern that grep looks for in    *)
(* the lines: any fragment that is on one of them names its part.          *)
(***************************************************************************)
EXTENDS Naturals, Sequences, SequencesExt

CONSTANTS
  ChipSize,           \* blocks of the flash chip
  Parts,              \* names in layout.txt
  Start, Stop,        \* Start[p] .. Stop[p]: the blocks of part p, from 0
  Guide,              \* the parts the guide says, in its order
  Asked,              \* arguments of other runs: sequences of names
  Lines,              \* Lines[name]: the parts on whose lines grep finds the name
  Faults,             \* what can happen: "full", "stop"
  MaxRuns, MaxFaults  \* bounds: things the user does beside the guide, faults

Names == Parts \cup UNION {ToSet(names) : names \in Asked}

Holds(p, i) == Start[p] < i /\ i <= Stop[p] + 1    \* block number i of a sequence

ASSUME CrosAssumption ==
  /\ ChipSize \in Nat
  /\ Start \in [Parts -> Nat] /\ Stop \in [Parts -> Nat]
  /\ \A p \in Parts : Start[p] <= Stop[p] /\ Stop[p] < ChipSize
  /\ \A p, q \in Parts : p # q => Stop[p] < Start[q] \/ Stop[q] < Start[p]
  /\ "vendor" \notin Parts
  /\ Guide \in Seq(Parts)
  /\ \A names \in Asked : names \in Seq(Names)
  /\ Lines \in [Names -> SUBSET Parts]
  /\ \A p \in ToSet(Guide) : Lines[p] = {p}
  /\ Faults \subseteq {"full", "stop"}
  /\ MaxRuns \in Nat /\ MaxFaults \in Nat

VARIABLES
  at,         \* the command the script has come to, or "idle"
  todo,       \* arguments left
  part,       \* the one it is at
  flashsize,  \* the size of flash.img when the script began
  flash, before, after,   \* files; << >> when there is none
  image,      \* image[p]: <p>.img is "good", "missing" or of "other size"
  chip,
  outcome,    \* of the user's last step: "none", "read", "running", "ended",
              \* "stopped", "refused" or "written"
  shown,      \* the script has shown an error
  asked,      \* arguments of the last run
  begun,      \* history: flash.img when that run began
  done,       \* history: parts that it put in
  stale,      \* history: a run was stopped, and none came to its rm since
  suspect,    \* history: so it was when the last run began
  stopped,    \* history: some run was stopped
  runs, faults

files == <<flash, before, after>>
history == <<begun, done, stale, suspect, stopped>>
vars ==
  <<at, todo, part, flashsize, files, image, chip, outcome, shown, asked, history, runs, faults>>

-----------------------------------------------------------------------------
(* Files.                                                                   *)

Block == [of : Parts \cup {"vendor"}, no : Nat]
File == Seq(Block)

Vendor == [i \in 1 .. ChipSize |-> [of |-> "vendor", no |-> i]]

Size(p) == Stop[p] - Start[p] + 1
PartImage(p) == [i \in 1 .. Size(p) |-> [of |-> p, no |-> i]]

\* What is in <p>.img.
Contents(p) == IF image[p] = "good" THEN PartImage(p) ELSE << [of |-> p, no |-> 0] >> \o PartImage(p)

\* What the script is for: file f with the parts of S in their places.
Replaced(f, S) ==
  [i \in 1 .. Len(f) |->
     IF \E p \in S \cap Parts : Holds(p, i)
     THEN LET p == CHOOSE q \in S \cap Parts : Holds(q, i) IN [of |-> p, no |-> i - Start[p]]
     ELSE f[i]]

Least(m, n) == IF m < n THEN m ELSE n

\* dd count=n, and dd skip=m with a count that ends at block n.
FirstBlocks(f, n) == SubSeq(f, 1, Least(n, Len(f)))
BlocksAfter(f, m, n) == SubSeq(f, m + 1, Least(n, Len(f)))

-----------------------------------------------------------------------------
Init ==
  /\ at = "idle" /\ todo = << >> /\ part \in Parts /\ flashsize = 0
  /\ flash = << >> /\ before = << >> /\ after = << >>
  /\ image \in [Parts -> {"good", "missing", "other size"}]
  /\ chip = Vendor
  /\ outcome = "none" /\ shown = FALSE /\ asked = << >>
  /\ begun = << >> /\ done = {} /\ stale = FALSE /\ suspect = FALSE /\ stopped = FALSE
  /\ runs = 0 /\ faults = 0

-----------------------------------------------------------------------------
(* The script.                                                              *)

\* The script begins, in a directory that has flash.img and layout.txt.
Begin(names) ==
  /\ at = "idle"
  /\ at' = "next" /\ todo' = names /\ asked' = names
  /\ flashsize' = Len(flash)
  /\ outcome' = "running" /\ shown' = FALSE
  /\ begun' = flash /\ done' = {} /\ suspect' = stale
  /\ UNCHANGED <<part, files, image, chip, stale, stopped, faults>>

AcceptableUnmeasured(name, p) ==
  Lines[name] = {p} /\ image[p] # "missing" /\ Size(p) <= flashsize

\* The tests before anything is written; all of them only go on to the next name.
\* A name that is on no line, or on several, gives no file.
Acceptable(name, p) ==
  /\ Lines[name] = {p}
  /\ image[p] = "good"
  /\ Size(p) <= flashsize

PassOver ==
  /\ at = "next" /\ todo # << >> /\ \A p \in Parts : ~Acceptable(Head(todo), p)
  /\ todo' = Tail(todo) /\ shown' = TRUE
  /\ UNCHANGED <<at, part, flashsize, files, image, chip, outcome, asked, history, runs, faults>>

Take ==
  /\ at = "next" /\ todo # << >>
  /\ \E p \in Parts : Acceptable(Head(todo), p) /\ part' = p
  /\ todo' = Tail(todo)
  /\ at' = "before"
  /\ UNCHANGED <<flashsize, files, image, chip, outcome, shown, asked, history, runs, faults>>

\* How a command that writes a file ends: the file is whole, or it was cut short
\* by a full disk and the script goes on, or the script was stopped.
Goes(whole, next, error) ==
  \/ /\ whole
     /\ at' = next /\ shown' = (shown \/ error)
     /\ UNCHANGED <<todo, outcome, stale, stopped, faults>>
  \/ /\ ~whole /\ "full" \in Faults /\ faults < MaxFaults
     /\ at' = next /\ shown' = TRUE /\ faults' = faults + 1
     /\ UNCHANGED <<todo, outcome, stale, stopped>>
  \/ /\ "stop" \in Faults /\ faults < MaxFaults
     /\ at' = "idle" /\ outcome' = "stopped" /\ todo' = << >>
     /\ stale' = TRUE /\ stopped' = TRUE /\ faults' = faults + 1
     /\ UNCHANGED shown

Rest == <<part, flashsize, image, chip, asked, begun, done, suspect, runs>>

\* dd to before.img; touch, which keeps what is in it, for a part at the start.
CutBefore ==
  /\ at = "before"
  /\ IF Start[part] > 0
     THEN LET new == FirstBlocks(flash, Start[part]) IN
          \E k \in 0 .. Len(new) :
            before' = SubSeq(new, 1, k) /\ Goes(k = Len(new), "after", FALSE)
     ELSE UNCHANGED before /\ Goes(TRUE, "after", FALSE)
  /\ UNCHANGED <<flash, after>> /\ UNCHANGED Rest

\* dd to after.img of what follows the part, up to the size that flash.img had when
\* the script began; touch if it ends with the part.
CutAfter ==
  /\ at = "after"
  /\ IF Stop[part] + 1 < flashsize
     THEN LET new == BlocksAfter(flash, Stop[part] + 1, flashsize) IN
          \E k \in 0 .. Len(new) :
            /\ after' = SubSeq(new, 1, k)
            /\ Goes(k = Len(new), "concatenate", Len(flash) < Stop[part] + 1)
     ELSE UNCHANGED after /\ Goes(TRUE, "concatenate", FALSE)
  /\ UNCHANGED <<flash, before>> /\ UNCHANGED Rest

\* cat to flash.img, which it empties first.
Concatenate ==
  /\ at = "concatenate"
  /\ LET new == before \o Contents(part) \o after IN
     \E k \in 0 .. Len(new) :
       flash' = SubSeq(new, 1, k) /\ Goes(k = Len(new), "remove", FALSE)
  /\ UNCHANGED <<before, after>> /\ UNCHANGED Rest

KeepTemporary ==
  /\ at = "remove"
  /\ at' = "next"
  /\ done' = done \cup {part} /\ stale' = FALSE
  /\ UNCHANGED <<todo, part, flashsize, files, image, chip, outcome, shown, asked, begun, suspect,
                 stopped, runs, faults>>

\* rm before.img after.img
RemoveTemporary ==
  /\ at = "remove"
  /\ before' = << >> /\ after' = << >>
  /\ at' = "next"
  /\ done' = done \cup {part} /\ stale' = FALSE
  /\ UNCHANGED <<todo, part, flashsize, flash, image, chip, outcome, shown, asked, begun, suspect,
                 stopped, runs, faults>>

End ==
  /\ at = "next" /\ todo = << >>
  /\ at' = "idle" /\ outcome' = "ended"
  /\ UNCHANGED <<todo, part, flashsize, files, image, chip, shown, asked, history, runs, faults>>

\* Stopped between two commands, or between the two files of rm.
StopBetween ==
  /\ at # "idle" /\ "stop" \in Faults /\ faults < MaxFaults
  /\ before' \in IF at = "remove" THEN {before, << >>} ELSE {before}
  /\ at' = "idle" /\ outcome' = "stopped" /\ todo' = << >>
  /\ stale' = TRUE /\ stopped' = TRUE /\ faults' = faults + 1
  /\ UNCHANGED <<part, flashsize, flash, after, image, chip, shown, asked, begun, done, suspect,
                 runs>>

Script ==
  PassOver \/ Take \/ CutBefore \/ CutAfter \/ Concatenate \/ RemoveTemporary \/ End

-----------------------------------------------------------------------------
(* The user, flashrom and the guide (docs/src/install/c201.texi:120-132).   *)

UserStep == UNCHANGED <<at, todo, part, flashsize, before, after, asked, history, faults>>

Installed == asked = Guide /\ ~shown

\* flashrom -r flash.img
ReadChip ==
  /\ at = "idle"
  /\ \/ outcome \in {"none", "stopped", "refused"}
     \/ outcome = "ended" /\ shown
     \/ outcome = "written" /\ ~Installed
  /\ flash' = chip
  /\ outcome' = "read" /\ shown' = FALSE
  /\ UserStep /\ UNCHANGED <<image, chip, runs>>

GuideRun == outcome = "read" /\ Begin(Guide) /\ UNCHANGED runs

WriteAny ==
  /\ chip' = flash /\ outcome' = "written"
  /\ UserStep /\ UNCHANGED <<flash, image, shown>>

\* flashrom -w flash.img, which takes only a file of the size of the chip.
Write ==
  /\ IF Len(flash) = ChipSize
     THEN chip' = flash /\ outcome' = "written"
     ELSE chip' = chip /\ outcome' = "refused"
  /\ UserStep /\ UNCHANGED <<flash, image, shown>>

\* If any error is shown, the guide says not to go further.
WriteBack == at = "idle" /\ outcome = "ended" /\ ~shown /\ Write /\ UNCHANGED runs

\* All files are transferred again.
Transfer ==
  /\ at = "idle"
  /\ \E p \in Parts : image[p] # "good"
  /\ image' = [p \in Parts |-> "good"]
  /\ UserStep /\ UNCHANGED <<flash, chip, outcome, shown, runs>>

\* The user runs the script again, with any arguments, on what is in flash.img,
\* or writes that to the chip although an error was shown.
OtherRun ==
  /\ outcome # "none" /\ runs < MaxRuns
  /\ \E names \in Asked : Begin(names)
  /\ runs' = runs + 1

CarelessWrite ==
  /\ at = "idle" /\ runs < MaxRuns
  /\ outcome = "stopped" \/ (outcome = "ended" /\ shown)
  /\ Write
  /\ runs' = runs + 1

Next ==
  \/ Script \/ StopBetween
  \/ ReadChip \/ GuideRun \/ WriteBack \/ Transfer
  \/ OtherRun \/ CarelessWrite

Spec == Init /\ [][Next]_vars

\* The script's commands come to their ends, and the user goes on with the guide;
\* when run after run finds an image missing, the user transfers the files again.
Fairness ==
  /\ WF_vars(Script)
  /\ WF_vars(ReadChip) /\ WF_vars(GuideRun) /\ WF_vars(WriteBack) /\ SF_vars(Transfer)

FairSpec == Spec /\ Fairness

-----------------------------------------------------------------------------
(* Properties.                                                              *)

\* The parts that names stand for, as grep finds them.
Found(names) == UNION {Lines[name] : name \in ToSet(names)}

TypeOK ==
  /\ at \in {"idle", "next", "before", "after", "concatenate", "remove"}
  /\ at = "idle" <=> outcome # "running"
  /\ at = "idle" => todo = << >>
  /\ part \in Parts /\ flashsize \in Nat
  /\ flash \in File /\ before \in File /\ after \in File /\ begun \in File
  /\ chip \in File /\ Len(chip) = ChipSize
  /\ image \in [Parts -> {"good", "missing", "other size"}]
  /\ todo \in Seq(Names) /\ asked \in Seq(Names)
  /\ {shown, stale, suspect, stopped} \subseteq BOOLEAN
  /\ done \subseteq Found(asked)

\* A run that ends without showing an error has put the parts whose lines have the
\* names it was given into flash.img, at their places, and changed nothing else,
\* whatever the runs before it did to the file: unless the last of those was
\* stopped.  (A name need not be a part's: a fragment is as good.)
RunsReplace ==
  outcome = "ended" /\ ~shown /\ ~suspect /\ Len(begun) = ChipSize =>
    flash = Replaced(begun, Found(asked))

\* What the guide promises of every run: when no error is shown, the resulting
\* image can be flashed back (c201.texi:126-128).
ResultCanBeFlashedBack ==
  outcome = "ended" /\ ~shown /\ Len(begun) = ChipSize =>
    flash = Replaced(begun, Found(asked))

\* As long as no run is stopped, the chip never holds anything but the vendor's
\* contents with some of the parts replaced, each of them whole and in its place,
\* although a full disk can cut short every file and the user may go on in spite of
\* errors: flashrom refuses what has not the size of the chip, and no file of that
\* size is anything else.  (It would be if a part ended with the chip: none does.)
ChipStaysWhole == ~stopped => \E S \in SUBSET Parts : chip = Replaced(Vendor, S)

\* As long as no run is stopped, the guide leads to libreboot in the chip over any
\* errors on the way, whatever else the user tries, and there it stays.
EventuallyInstalled == []~stopped => <>[](chip = Replaced(Vendor, ToSet(Guide)))
===============================================================================
