------------------------------- MODULE FlashI945 -------------------------------
(***************************************************************************)
(* The ./flash script on i945 laptops (ThinkPad X60/T60, MacBook2,1): the  *)
(* first installation over the factory firmware in two flashes, and later  *)
(* updates (src/flash).                                                    *)
(*                                                                         *)
(* A Lenovo BIOS keeps the top 64 KiB of the chip write-protected, and the *)
(* CPU starts from there. With BUC.TS = 1 it starts from the 64 KiB below  *)
(* instead: the first flash sets it and writes everything but the top, the *)
(* second, under libreboot, writes the top and clears it.                  *)
(*                                                                         *)
(* External, and modelled from how src/ uses and describes it: flashrom,   *)
(* bucts, the chipset, and what a user does between two runs.              *)
(***************************************************************************)
EXTENDS Integers, Sequences

CONSTANTS
  Machines,      \* laptops: [board, part]
  Environments,  \* what is there when the script is run: sets of Prerequisites
  Versions,      \* versions of libreboot for this laptop
  Renamed,       \* those that call the board by its new name
  Faults,        \* which failures happen
  MaxFlashes,    \* bound: runs of the script
  MaxFaults      \* bound: failures

Prerequisites == {"root", "x86", "romfile", "flashrom", "bucts", "sst", "macronix"}
Boards == {"lenovo", "apple"}
Parts == {"sst", "macronix", "other"}

ASSUME FlashAssumption ==
  /\ Machines \subseteq [board : Boards, part : Parts]
  /\ Environments \subseteq SUBSET Prerequisites
  /\ Versions \cap {"off", "bricked", "factory", "none"} = {}
  /\ Renamed \subseteq Versions
  /\ Faults \subseteq {"power", "battery", "bucts", "flash"}
  /\ MaxFlashes \in Nat /\ MaxFaults \in Nat

VARIABLES
  machine,   \* the laptop
  env,       \* what is there
  chip,      \* the contents of the flash chip
  bucts,     \* the BUC.TS bit, kept by the CMOS battery
  running,   \* the firmware that booted the machine, or "off", "bricked"
  script,    \* the run of ./flash: see Script
  outcome,   \* what its last output told the user
  flashes,   \* how many runs were started
  faults,    \* how many failures happened
  happened   \* history: which

vars == <<machine, env, chip, bucts, running, script, outcome, flashes, faults, happened>>

-----------------------------------------------------------------------------
(* The chip, in the order flashrom writes it: 1 is everything below the     *)
(* last 128 KiB, 2 and 3 are its two 64 KiB halves.                         *)

Block == 1 .. 3
Content == [what : {"factory", "erased"}, version : {"none"}]
             \cup [what : {"body", "boot"}, version : Versions]

Erased == [what |-> "erased", version |-> "none"]
FactoryChip == [b \in Block |-> [what |-> "factory", version |-> "none"]]

\* dd: the boot block was copied to the 64 KiB below it, as withgrub does with the
\* ROMs for the X60 and the T60.
Rom == [version : Versions, dd : BOOLEAN]

RomBlock(rom, b) ==
  [what |-> IF b = 3 \/ (b = 2 /\ rom.dd) THEN "boot" ELSE "body",
   version |-> rom.version]

RomImage(rom) == [b \in Block |-> RomBlock(rom, b)]

\* What a machine with these chip contents and this BUC.TS bit starts.
Boots(c, ts) ==
  LET start == c[IF ts = 1 THEN 2 ELSE 3]
  IN  CASE ts = 0 /\ c = FactoryChip -> "factory"
        [] start.what = "boot" /\ c[1] = [what |-> "body", version |-> start.version]
             -> start.version
        [] OTHER -> "bricked"

Factory == running = "factory"
Libreboot == running \in Versions

-----------------------------------------------------------------------------
(* The script.                                                              *)

Modes == {"update", "forceupdate", "i945lenovo_firstflash",
          "i945lenovo_secondflash", "i945apple_firstflash"}

LenovoModes == {"i945lenovo_firstflash", "i945lenovo_secondflash"}

\* Mutant of Required: without the anti-bricking precaution.
RequiredWithoutBucts(mode) ==
  {"root", "x86", "romfile", "flashrom"}
    \cup (IF mode \in LenovoModes THEN {"sst", "macronix"} ELSE {})

Required(mode) ==
  {"root", "x86", "romfile", "flashrom"}
    \cup (IF mode \in LenovoModes THEN {"bucts", "sst", "macronix"} ELSE {})

\* Mutants of Commands: BUC.TS not set before the first flash; cleared before the
\* second; not cleared after it.
CommandsWithoutBuctsOne(mode) ==
  CASE mode = "i945lenovo_firstflash"  -> << "sst", "macronix" >>
    [] mode = "i945lenovo_secondflash" -> << "flashrom", "bucts 0" >>
    [] OTHER                           -> << "flashrom" >>

CommandsClearFirst(mode) ==
  CASE mode = "i945lenovo_firstflash"  -> << "bucts 1", "sst", "macronix" >>
    [] mode = "i945lenovo_secondflash" -> << "bucts 0", "flashrom" >>
    [] OTHER                           -> << "flashrom" >>

CommandsWithoutBuctsZero(mode) ==
  CASE mode = "i945lenovo_firstflash"  -> << "bucts 1", "sst", "macronix" >>
    [] OTHER                           -> << "flashrom" >>

Commands(mode) ==
  CASE mode = "i945lenovo_firstflash"  -> << "bucts 1", "sst", "macronix" >>
    [] mode = "i945lenovo_secondflash" -> << "flashrom", "bucts 0" >>
    [] OTHER                           -> << "flashrom" >>

\* step counts the commands of the mode, 0 when none runs. same is history: the
\* lower two blocks held this ROM before the run.
Script == [mode : Modes, rom : Rom, step : 0 .. 3, same : BOOLEAN]

Idle == script.step = 0
Command == Commands(script.mode)[script.step]

\* The checks before the first command: on failure, exit 1 with nothing done.
Run(mode, rom) ==
  /\ Idle /\ (Factory \/ Libreboot)
  /\ IF Required(mode) \subseteq env
     THEN /\ script' = [mode |-> mode, rom |-> rom, step |-> 1,
                        same |-> \A b \in {1, 2} : chip[b] = RomBlock(rom, b)]
          /\ outcome' = "none"
     ELSE UNCHANGED <<script, outcome>>
  /\ UNCHANGED <<machine, env, chip, bucts, running, faults, happened>>

NextCommand ==
  script' = [script EXCEPT !.step =
               IF @ = Len(Commands(script.mode)) THEN 0 ELSE @ + 1]

\* No command's exit status is tested.
\* Mutant of BuctsOne: adds to the register instead of setting the bit.
BuctsOneAdds ==
  /\ ~Idle /\ Command = "bucts 1"
  /\ bucts' = IF "bucts" \in env THEN bucts + 1 ELSE bucts
  /\ NextCommand
  /\ UNCHANGED <<machine, env, chip, running, outcome, flashes, faults, happened>>

BuctsOne ==
  /\ ~Idle /\ Command = "bucts 1"
  /\ bucts' = IF "bucts" \in env THEN 1 ELSE bucts
  /\ NextCommand
  /\ UNCHANGED <<machine, env, chip, running, outcome, flashes, faults, happened>>

BuctsZero ==
  /\ ~Idle /\ Command = "bucts 0"
  /\ bucts' = IF "bucts" \in env THEN 0 ELSE bucts
  /\ NextCommand
  /\ UNCHANGED <<machine, env, chip, running, outcome, flashes, faults, happened>>

\* The patched flashroms find one part each; the normal one does not get its
\* probe past a Lenovo BIOS, and refuses a ROM for a board of another name than
\* the running coreboot's unless it is called with boardmismatch=force.
Drives(command) ==
  CASE command = "sst"      -> machine.part = "sst"
    [] command = "macronix" -> machine.part = "macronix"
    [] command = "flashrom" ->
         /\ ~(Factory /\ machine.board = "lenovo")
         /\ \/ Factory \/ script.mode = "forceupdate"
            \/ running \in Renamed <=> script.rom.version \in Renamed

\* Mutant of Dirty: the last block is never compared.
DirtyButTop == {b \in {1, 2} : chip[b] # RomBlock(script.rom, b)}

Dirty == {b \in Block : chip[b] # RomBlock(script.rom, b)}
Lowest == CHOOSE b \in Dirty : \A c \in Dirty : b <= c
Protected(b) == Factory /\ machine.board = "lenovo" /\ b = 3

Flashing == ~Idle /\ Command \in {"sst", "macronix", "flashrom"}

FlashStops(how) ==
  /\ outcome' = IF Command = "flashrom" THEN how ELSE "none"
  /\ NextCommand

\* flashrom leaves the blocks alone that are as they should be, erases and then
\* writes the others from the lowest, and stops at the first that it cannot erase.
Stuck == ~Drives(Command) \/ (Dirty # {} /\ Protected(Lowest))

FlashStep ==
  /\ Flashing
  /\ \/ Stuck /\ FlashStops("failed") /\ UNCHANGED chip
     \/ ~Stuck /\ Dirty = {} /\ FlashStops("verified") /\ UNCHANGED chip
     \/ /\ ~Stuck /\ Dirty # {}
        /\ chip' = [chip EXCEPT ![Lowest] =
                       IF @ # Erased THEN Erased ELSE RomBlock(script.rom, Lowest)]
        /\ UNCHANGED <<script, outcome>>
  /\ UNCHANGED <<machine, env, bucts, running, flashes, faults, happened>>

-----------------------------------------------------------------------------
(* The user, as the installation guide says.                                *)

\* yourrom.rom for a laptop that still runs the Lenovo BIOS has to be one of
\* those that were dd'd; later it is again the one of the first flash.
Advised(mode, rom) ==
  /\ Factory =>
       mode = IF machine.board = "lenovo" THEN "i945lenovo_firstflash"
                                          ELSE "i945apple_firstflash"
  /\ mode = "i945lenovo_firstflash" => rom.dd
  /\ mode = "i945lenovo_secondflash" => running = rom.version /\ rom.dd

Tinker == \E mode \in Modes, rom \in Rom :
  /\ outcome # "failed" /\ Advised(mode, rom)
  /\ flashes < MaxFlashes /\ flashes' = flashes + 1
  /\ Run(mode, rom)

\* The next step of the guide; after "failed", once more, by force if it was an
\* update. These runs are not counted.
Guided(mode, rom) ==
  \/ /\ Factory /\ chip = FactoryChip /\ bucts = 0
     /\ Advised(mode, rom) /\ rom.dd
  \/ /\ Libreboot /\ bucts = 1 /\ outcome # "failed"
     /\ mode = "i945lenovo_secondflash" /\ Advised(mode, rom)
  \/ /\ outcome = "failed" /\ rom = script.rom
     /\ mode = IF Libreboot /\ script.mode # "i945lenovo_secondflash"
               THEN "forceupdate" ELSE script.mode

FollowGuide == \E mode \in Modes, rom \in Rom :
  /\ Guided(mode, rom) /\ Required(mode) \subseteq env
  /\ Run(mode, rom)
  /\ UNCHANGED flashes

\* Not after a flash that was reported as failed, except the first one over a
\* Lenovo BIOS, where the guide says that the report means success.
ShutDown ==
  /\ Idle /\ (Factory \/ Libreboot) /\ outcome # "failed"
  /\ running' = "off"
  /\ UNCHANGED <<machine, env, chip, bucts, script, outcome, flashes, faults, happened>>

PowerOn ==
  /\ running = "off"
  /\ running' = Boots(chip, bucts)
  /\ UNCHANGED <<machine, env, chip, bucts, script, outcome, flashes, faults, happened>>

\* "Brick type 1": take the CMOS battery out for a minute.
ResetByBattery ==
  /\ running = "bricked" /\ bucts = 1
  /\ bucts' = 0 /\ running' = "off"
  /\ UNCHANGED <<machine, env, chip, script, outcome, flashes, faults, happened>>

-----------------------------------------------------------------------------
(* Failures.                                                                *)

Fault(name) ==
  /\ name \in Faults /\ faults < MaxFaults
  /\ faults' = faults + 1 /\ happened' = happened \cup {name}
  /\ UNCHANGED <<machine, env, flashes>>

PowerLoss ==
  /\ Fault("power")
  /\ Factory \/ Libreboot
  /\ running' = "off" /\ outcome' = "none"
  /\ script' = [script EXCEPT !.step = 0]
  /\ UNCHANGED <<chip, bucts>>

BatteryDies ==
  /\ Fault("battery")
  /\ running = "off" /\ bucts = 1
  /\ bucts' = 0
  /\ UNCHANGED <<chip, running, script, outcome>>

\* bucts cannot get at the chipset, and says so; the script goes on.
BuctsFails ==
  /\ Fault("bucts")
  /\ ~Idle /\ Command \in {"bucts 1", "bucts 0"}
  /\ NextCommand
  /\ UNCHANGED <<chip, bucts, running, outcome>>

\* flashrom fails to write a block it erased. (With the patched ones nobody could
\* tell this from the failure that is expected of them.)
FlashFails ==
  /\ Fault("flash")
  /\ ~Idle /\ Command = "flashrom" /\ Drives(Command)
  /\ Dirty # {} /\ chip[Lowest] = Erased
  /\ FlashStops("failed")
  /\ UNCHANGED <<chip, bucts, running>>

-----------------------------------------------------------------------------
Init ==
  /\ machine \in Machines /\ env \in Environments
  /\ chip = FactoryChip /\ bucts = 0 /\ running = "factory"
  /\ script \in Script /\ script.mode = "update" /\ Idle /\ ~script.same
  /\ outcome = "none" /\ flashes = 0 /\ faults = 0 /\ happened = {}

ScriptStep == BuctsOne \/ BuctsZero \/ FlashStep
User == Tinker \/ FollowGuide \/ ShutDown \/ PowerOn \/ ResetByBattery
Failure == PowerLoss \/ BatteryDies \/ BuctsFails \/ FlashFails

Next == ScriptStep \/ User \/ Failure

Spec == Init /\ [][Next]_vars

\* A command that runs comes to its end; the user goes on with the guide, shuts
\* the laptop down when it says so, and turns it on again.
Fairness ==
  /\ WF_vars(ScriptStep) /\ WF_vars(PowerOn)
  /\ WF_vars(ResetByBattery) /\ SF_vars(FollowGuide) /\ SF_vars(ShutDown)

FairSpec == Spec /\ Fairness

-----------------------------------------------------------------------------
(* Properties.                                                              *)

\* Every variable has its type.
TypeOK ==
  /\ machine \in Machines /\ env \in Environments
  /\ chip \in [Block -> Content] /\ bucts \in {0, 1}
  /\ running \in {"off", "bricked", "factory"} \cup Versions
  /\ script \in Script
  /\ outcome \in {"none", "failed", "verified"}
  /\ flashes \in 0 .. MaxFlashes /\ faults \in 0 .. MaxFaults /\ happened \subseteq Faults

\* While a Lenovo BIOS runs over a chip that is no longer its own, BUC.TS is set:
\* unless bucts itself failed, the first flash never leaves a machine that would
\* start its leftover boot block (flash:125, "needed to prevent bricks").
FirstFlashArmed ==
  "bucts" \notin happened =>
    (Factory /\ machine.board = "lenovo" /\ chip # FactoryChip => bucts = 1)

\* What a user who follows the guide bricks, also with ROMs that were not dd'd on
\* later flashes, a chip that fails to write or a part that no flashrom knows,
\* taking out the battery cures.
OnlyWritesFailed == happened \subseteq {"flash"}

BricksAreSoft ==
  OnlyWritesFailed /\ running = "bricked" => bucts = 1 /\ Boots(chip, 0) # "bricked"

\* The second flash of the ROM of the first leaves a machine that starts whatever
\* happens to the CMOS battery afterwards.
InstallIsBatterySafe ==
  [][ (~Idle /\ script.mode = "i945lenovo_secondflash" /\ script'.step = 0
        /\ running' = running /\ outcome = "verified") =>
      \A ts \in {0, 1} : Boots(chip', ts) = script.rom.version ]_vars

\* At every moment of a second flash of the ROM of the first, the machine would
\* start again after a loss of power, whatever failed before: unless the chip failed
\* to take a write, after which the script resets BUC.TS all the same.
BootableDuringSecondFlash ==
  "flash" \notin happened /\ ~Idle /\ script.mode = "i945lenovo_secondflash" /\ script.same =>
    Boots(chip, bucts) = script.rom.version

\* A laptop with a known flash part and everything the script asks for ends up with
\* libreboot in the whole chip and with BUC.TS reset, when nothing fails but writes
\* of the chip.
EventuallyInstalled ==
  (machine.board = "apple" \/ machine.part # "other") /\ Prerequisites \subseteq env
      /\ []OnlyWritesFailed
    => <>[](bucts = 0 /\ Boots(chip, 0) \in Versions)
==============================================================================
