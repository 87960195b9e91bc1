---------------------------- MODULE FlashI945Proofs ----------------------------
(***************************************************************************)
(* Type correctness of FlashI945; that the first flash never leaves a      *)
(* Lenovo BIOS over a changed chip without BUC.TS set, unless bucts itself *)
(* failed; that the machine would start again at every command of a        *)
(* second flash of the first one's ROM, unless the chip failed a write,    *)
(* and with either value of BUC.TS once it was verified; and that what the *)
(* guide's user bricks, the battery cures.                                 *)
(***************************************************************************)
EXTENDS FlashI945, TLAPS

USE DEF Block, Modes, Rom

\* What Commands gives for each mode, and how a command is followed.
LEMMA CommandsOfFirst ==
  /\ Len(Commands("i945lenovo_firstflash")) = 3
  /\ Commands("i945lenovo_firstflash")[1] = "bucts 1"
  /\ Commands("i945lenovo_firstflash")[2] = "sst"
  /\ Commands("i945lenovo_firstflash")[3] = "macronix"
BY DEF Commands

\* A mode has at most three commands.
LEMMA CommandsLength == \A mode \in Modes : Len(Commands(mode)) \in {1, 2, 3}
BY DEF Commands

\* The blocks of an image are contents a block of the chip can have.
LEMMA RomBlockType == \A rom \in Rom, b \in Block : RomBlock(rom, b) \in Content
BY DEF RomBlock, Content

\* So are those of the factory's chip.
LEMMA FactoryChipType == FactoryChip \in [Block -> Content]
BY DEF FactoryChip, Content

\* And so is an erased block.
LEMMA ErasedType == Erased \in Content
BY DEF Erased, Content

\* What a machine can come up with; the Lenovo BIOS only from an untouched chip.
LEMMA BootsType ==
  ASSUME NEW c \in [Block -> Content], NEW ts \in {0, 1}
  PROVE  /\ Boots(c, ts) \in {"factory", "bricked"} \cup Versions
         /\ Boots(c, ts) = "factory" => ts = 0 /\ c = FactoryChip
<1>1. c[IF ts = 1 THEN 2 ELSE 3] \in Content
  OBVIOUS
<1>2. c[IF ts = 1 THEN 2 ELSE 3].what = "boot" =>
        c[IF ts = 1 THEN 2 ELSE 3].version \in Versions
  BY <1>1 DEF Content
<1>3. "factory" \notin Versions
  BY FlashAssumption
<1>. QED BY <1>2, <1>3 DEF Boots

\* The lowest block that differs is a block.
LEMMA LowestType ==
  ASSUME Dirty # {}
  PROVE  Lowest \in Block
<1>1. Dirty \subseteq 1 .. 3
  BY DEF Dirty
<1>2. \E b \in Dirty : \A d \in Dirty : b <= d
  <2>1. CASE 1 \in Dirty
    BY <1>1, <2>1
  <2>2. CASE 1 \notin Dirty /\ 2 \in Dirty
    BY <1>1, <2>2
  <2>3. CASE 1 \notin Dirty /\ 2 \notin Dirty
    <3>1. \A d \in Dirty : d = 3
      BY <1>1, <2>3
    <3>. QED BY <3>1
  <2>. QED BY <2>1, <2>2, <2>3
<1>. QED BY <1>1, <1>2 DEF Lowest

\* The type invariant alone is not inductive: a step beyond the mode's last command
\* would be followed by one beyond 3.
Typed == TypeOK /\ script.step <= Len(Commands(script.mode))

\* Going on with the next command keeps the script's record as it should be.
LEMMA NextCommandType ==
  ASSUME Typed, NextCommand
  PROVE  /\ script' \in Script
         /\ script'.step <= Len(Commands(script'.mode))
<1>1. script \in Script /\ script.mode \in Modes
  BY DEF Typed, TypeOK, Script
<1>2. PICK n \in {1, 2, 3} : n = Len(Commands(script.mode))
  BY <1>1, CommandsLength
<1>3. script.step \in 0 .. 3 /\ script.step <= n
  BY <1>1, <1>2 DEF Typed, Script
<1>4. PICK k \in 0 .. 3 : k <= n /\ script' = [script EXCEPT !.step = k]
  <2>1. CASE script.step = n
    BY <1>2, <2>1 DEF NextCommand
  <2>2. CASE script.step # n
    <3>1. script.step + 1 \in 0 .. 3 /\ script.step + 1 <= n
      BY <1>3, <2>2
    <3>. QED BY <1>2, <2>2, <3>1 DEF NextCommand
  <2>. QED BY <2>1, <2>2
<1>5. script' \in Script
  BY <1>1, <1>4 DEF Script
<1>6. script'.mode = script.mode /\ script'.step = k
  BY <1>1, <1>4 DEF Script
<1>. QED BY <1>2, <1>4, <1>5, <1>6

\* So does starting a mode.
LEMMA RunType ==
  ASSUME Typed, NEW mode \in Modes, NEW rom \in Rom, Run(mode, rom)
  PROVE  /\ script' \in Script
         /\ script'.step <= Len(Commands(script'.mode))
         /\ outcome' \in {"none", "failed", "verified"}
<1>1. CASE UNCHANGED <<script, outcome>>
  BY <1>1 DEF Typed, TypeOK
<1>2. CASE /\ script' = [mode |-> mode, rom |-> rom, step |-> 1,
                         same |-> \A b \in {1, 2} : chip[b] = RomBlock(rom, b)]
           /\ outcome' = "none"
  <2>1. Len(Commands(mode)) \in {1, 2, 3}
    BY CommandsLength
  <2>2. \A same \in BOOLEAN :
          [mode |-> mode, rom |-> rom, step |-> 1, same |-> same] \in Script
    BY DEF Script
  <2>3. PICK same \in BOOLEAN :
          script' = [mode |-> mode, rom |-> rom, step |-> 1, same |-> same]
    BY <1>2
  <2>4. script'.mode = mode /\ script'.step = 1
    BY <2>3
  <2>5. 1 <= Len(Commands(script'.mode))
    <3>1. PICK n \in {1, 2, 3} : n = Len(Commands(mode))
      BY <2>1
    <3>2. 1 <= n
      BY <3>1
    <3>. QED BY <2>4, <3>1, <3>2
  <2>. QED BY <1>2, <2>2, <2>3, <2>4, <2>5
<1>3. CASE Required(mode) \subseteq env
  BY <1>2, <1>3 DEF Run
<1>4. CASE ~(Required(mode) \subseteq env)
  BY <1>1, <1>4 DEF Run
<1>. QED BY <1>3, <1>4

\* The types hold at the start.
LEMMA InitTyped == Init => Typed
<1>. SUFFICES ASSUME Init PROVE Typed
  OBVIOUS
<1>1. script \in Script /\ script.step = 0 /\ script.mode \in Modes
  BY DEF Init, Idle, Script
<1>2. script.step <= Len(Commands(script.mode))
  BY <1>1, CommandsLength
<1>. QED BY <1>1, <1>2, FactoryChipType, FlashAssumption DEF Init, Typed, TypeOK

\* Every step keeps the types.
LEMMA StepTyped == Typed /\ [Next]_vars => Typed'
<1>. SUFFICES ASSUME Typed, [Next]_vars PROVE Typed'
  OBVIOUS
<1>. USE DEF Typed, TypeOK
<1>1. CASE BuctsOne
  BY <1>1, NextCommandType DEF BuctsOne
<1>2. CASE BuctsZero
  BY <1>2, NextCommandType DEF BuctsZero
<1>3. CASE FlashStep
  <2>1. /\ script' \in Script
        /\ script'.step <= Len(Commands(script'.mode))
        /\ outcome' \in {"none", "failed", "verified"}
    BY <1>3, NextCommandType DEF FlashStep, FlashStops
  <2>2. chip' \in [Block -> Content]
    BY <1>3, LowestType, RomBlockType, ErasedType DEF FlashStep, Script
  <2>. QED BY <1>3, <2>1, <2>2 DEF FlashStep
<1>4. CASE Tinker
  <2>1. PICK mode \in Modes, rom \in Rom : flashes < MaxFlashes /\ Run(mode, rom)
    BY <1>4 DEF Tinker
  <2>2. flashes' \in 0 .. MaxFlashes
    BY <1>4, <2>1, FlashAssumption DEF Tinker
  <2>. QED BY <2>1, <2>2, RunType DEF Run
<1>5. CASE FollowGuide
  <2>1. PICK mode \in Modes, rom \in Rom : Run(mode, rom) /\ UNCHANGED flashes
    BY <1>5 DEF FollowGuide
  <2>. QED BY <2>1, RunType DEF Run
<1>6. CASE ShutDown
  BY <1>6 DEF ShutDown
<1>7. CASE PowerOn
  BY <1>7, BootsType DEF PowerOn
<1>8. CASE ResetByBattery
  BY <1>8 DEF ResetByBattery
<1>9. CASE Failure
  <2>1. /\ faults' \in 0 .. MaxFaults /\ happened' \subseteq Faults
        /\ UNCHANGED <<machine, env, flashes>>
    <3>1. PICK name : Fault(name)
      BY <1>9 DEF Failure, PowerLoss, BatteryDies, BuctsFails, FlashFails
    <3>. QED BY <3>1, FlashAssumption DEF Fault
  <2>2. CASE PowerLoss
    <3>1. script' \in Script /\ script'.step = 0 /\ script'.mode \in Modes
      BY <2>2 DEF PowerLoss, Script
    <3>2. script'.step <= Len(Commands(script'.mode))
      BY <3>1, CommandsLength
    <3>. QED BY <2>1, <2>2, <3>1, <3>2 DEF PowerLoss
  <2>3. CASE BatteryDies
    BY <2>1, <2>3 DEF BatteryDies
  <2>4. CASE BuctsFails
    BY <2>1, <2>4, NextCommandType DEF BuctsFails
  <2>5. CASE FlashFails
    BY <2>1, <2>5, NextCommandType DEF FlashFails, FlashStops
  <2>. QED BY <1>9, <2>2, <2>3, <2>4, <2>5 DEF Failure
<1>10. CASE UNCHANGED vars
  BY <1>10 DEF vars
<1>. QED
  BY <1>1, <1>2, <1>3, <1>4, <1>5, <1>6, <1>7, <1>8, <1>9, <1>10
  DEF Next, ScriptStep, User

\* Every variable keeps its type, for every set of laptops, versions and failures.
THEOREM TypeCorrect == Spec => []TypeOK
<1>1. Typed => TypeOK
  BY DEF Typed
<1>. QED BY InitTyped, StepTyped, <1>1, PTL DEF Spec

-----------------------------------------------------------------------------
(* The first flash. FirstFlashArmed is not inductive: whether BUC.TS is set  *)
(* before the chip changes depends on the commands that ran before.          *)

LenovoBios == Factory /\ machine.board = "lenovo"
Running == Factory \/ Libreboot

\* Under a Lenovo BIOS only the first flash ever runs, with bucts at hand, and past
\* its first command the bit is set if bucts works; nothing runs on a machine that is off, and no
\* report of a failure, which the user would act upon, survives a restart.
Arming ==
  /\ LenovoBios /\ ~Idle =>
       /\ script.mode = "i945lenovo_firstflash" /\ "bucts" \in env
       /\ "bucts" \notin happened /\ script.step # 1 => bucts = 1
  /\ ~Running => Idle
  /\ LenovoBios \/ ~Running => outcome # "failed"

Armed == Typed /\ Arming /\ FirstFlashArmed

\* The command of a first flash in progress.
LEMMA FirstFlashCommand ==
  ASSUME Armed, LenovoBios, ~Idle
  PROVE  /\ script.step \in {1, 2, 3}
         /\ Command = IF script.step = 1 THEN "bucts 1"
                      ELSE IF script.step = 2 THEN "sst" ELSE "macronix"
<1>1. script.mode = "i945lenovo_firstflash"
  BY DEF Armed, Arming
<1>2. script.step \in 0 .. 3
  BY DEF Armed, Typed, TypeOK, Script
<1>3. script.step \in {1, 2, 3}
  BY <1>2 DEF Idle
<1>. QED BY <1>1, <1>3, CommandsOfFirst DEF Command

\* Going on in the script stays in its mode and never goes back to its first command.
LEMMA NextCommandEffect ==
  ASSUME Typed, ~Idle, NextCommand
  PROVE  script'.mode = script.mode /\ script'.step # 1
<1>1. script \in Script /\ script.step \in 0 .. 3
  BY DEF Typed, TypeOK, Script
<1>2. PICK k \in 0 .. 3 : k # 1 /\ script' = [script EXCEPT !.step = k]
  <2>1. CASE script.step = Len(Commands(script.mode))
    BY <2>1 DEF NextCommand
  <2>2. CASE script.step # Len(Commands(script.mode))
    <3>1. PICK n \in {1, 2, 3} : n = Len(Commands(script.mode))
      BY <1>1, CommandsLength DEF Script
    <3>2. script.step <= n /\ script.step # n
      BY <2>2, <3>1 DEF Typed
    <3>3. n \in 1 .. 3
      BY <3>1
    <3>4. script.step + 1 \in 0 .. 3 /\ script.step + 1 # 1
      BY <1>1, <3>2, <3>3 DEF Idle
    <3>. QED BY <2>2, <3>4 DEF NextCommand
  <2>. QED BY <2>1, <2>2
<1>. QED BY <1>1, <1>2 DEF Script

\* So does the invariant of the first flash.
LEMMA InitArmed == Init => Armed
BY InitTyped, FlashAssumption
DEF Init, Armed, Arming, FirstFlashArmed, Factory, Libreboot, LenovoBios, Running

\* By either of the user's rules, a run that starts under a Lenovo BIOS is a first
\* flash.
LEMMA StartArmed ==
  ASSUME Armed, NEW mode \in Modes, NEW rom \in Rom, Run(mode, rom),
         Advised(mode, rom) \/ Guided(mode, rom)
  PROVE  Arming' /\ FirstFlashArmed'
<1>1. UNCHANGED <<machine, env, chip, bucts, running, happened>> /\ Idle /\ Running
  BY DEF Run, Running
<1>2. LenovoBios => mode = "i945lenovo_firstflash"
  <2>1. Factory => running \notin Versions
    BY FlashAssumption DEF Factory
  <2>. QED BY <2>1 DEF Armed, Arming, LenovoBios, Advised, Guided, Libreboot
<1>3. CASE UNCHANGED <<script, outcome>>
  BY <1>1, <1>3
  DEF Armed, Arming, FirstFlashArmed, LenovoBios, Running, Factory, Libreboot, Idle
<1>4. CASE /\ Required(mode) \subseteq env
           /\ script'.mode = mode /\ script'.step = 1 /\ outcome' = "none"
  <2>1. LenovoBios => "bucts" \in env
    BY <1>2, <1>4 DEF Required, LenovoModes
  <2>. QED BY <1>1, <1>2, <1>4, <2>1
    DEF Armed, Arming, FirstFlashArmed, LenovoBios, Running, Factory, Libreboot, Idle
<1>. QED BY <1>3, <1>4 DEF Run

\* Every step keeps the invariant.
LEMMA StepArmed == Armed /\ [Next]_vars => Armed'
<1>. SUFFICES ASSUME Armed, [Next]_vars PROVE Arming' /\ FirstFlashArmed'
  BY StepTyped DEF Armed
<1>. USE DEF FirstFlashArmed, LenovoBios, Running, Factory, Libreboot, Idle
<1>1. CASE BuctsOne
  BY <1>1, NextCommandEffect DEF BuctsOne, Armed, Arming
<1>2. CASE BuctsZero
  BY <1>2, FirstFlashCommand, NextCommandEffect DEF BuctsZero, Armed, Arming
<1>3. CASE FlashStep
  <2>1. UNCHANGED <<machine, env, bucts, running, happened>>
    BY <1>3 DEF FlashStep
  <2>2. CASE LenovoBios
    <3>1. Command # "flashrom" /\ script.step # 1 /\ ("bucts" \in happened \/ bucts = 1)
      BY <1>3, <2>2, FirstFlashCommand DEF FlashStep, Flashing, Armed, Arming
    <3>2. \/ NextCommand /\ outcome' = "none"
          \/ UNCHANGED <<script, outcome>>
      BY <1>3, <3>1 DEF FlashStep, FlashStops
    <3>3. ~Idle
      BY <1>3 DEF FlashStep, Flashing
    <3>. QED BY <2>1, <2>2, <3>1, <3>2, <3>3, NextCommandEffect DEF Armed, Arming
  <2>3. CASE ~LenovoBios
    <3>1. Running
      BY <1>3 DEF FlashStep, Flashing, Armed, Arming
    <3>. QED BY <2>1, <2>3, <3>1 DEF Armed, Arming
  <2>. QED BY <2>2, <2>3
<1>4. CASE Tinker
  BY <1>4, StartArmed DEF Tinker
<1>5. CASE FollowGuide
  BY <1>5, StartArmed DEF FollowGuide
<1>6. CASE ShutDown
  <2>1. "off" # "factory" /\ "off" \notin Versions
    BY FlashAssumption
  <2>. QED BY <1>6, <2>1 DEF ShutDown, Armed, Arming
<1>7. CASE PowerOn
  <2>1. ~Running
    BY <1>7, FlashAssumption DEF PowerOn
  <2>2. running' = "factory" => chip = FactoryChip
    BY <1>7, BootsType DEF PowerOn, Armed, Typed, TypeOK
  <2>. QED BY <1>7, <2>1, <2>2 DEF PowerOn, Armed, Arming
<1>8. CASE ResetByBattery
  BY <1>8, FlashAssumption DEF ResetByBattery, Armed, Arming
<1>9. CASE PowerLoss
  <2>1. script'.step = 0
    BY <1>9 DEF PowerLoss, Armed, Typed, TypeOK, Script
  <2>. QED BY <1>9, <2>1, FlashAssumption DEF PowerLoss, Fault, Armed, Arming
<1>10. CASE BatteryDies
  BY <1>10, FlashAssumption DEF BatteryDies, Fault, Armed, Arming
<1>11. CASE BuctsFails
  <2>1. "bucts" \in happened' /\ script'.mode = script.mode
    BY <1>11, NextCommandEffect DEF BuctsFails, Fault, Armed
  <2>. QED BY <1>11, <2>1 DEF BuctsFails, Fault, Armed, Arming
<1>12. CASE FlashFails
  <2>1. ~LenovoBios /\ Running
    BY <1>12, FirstFlashCommand DEF FlashFails, Drives, Armed, Arming
  <2>. QED BY <1>12, <2>1 DEF FlashFails, Fault, Armed, Arming
<1>13. CASE UNCHANGED vars
  BY <1>13 DEF vars, Armed, Arming
<1>. QED
  BY <1>1, <1>2, <1>3, <1>4, <1>5, <1>6, <1>7, <1>8, <1>9, <1>10, <1>11, <1>12, <1>13
  DEF Next, ScriptStep, User, Failure

\* The first flash never leaves a Lenovo BIOS over a changed chip without BUC.TS
\* set, whatever the power, the battery and the chip do, unless bucts itself failed
\* (flash:125, "needed to prevent bricks").
THEOREM FirstFlashIsArmed == Spec => []FirstFlashArmed
<1>1. Armed => FirstFlashArmed
  BY DEF Armed
<1>. QED BY InitArmed, StepArmed, <1>1, PTL DEF Spec

-----------------------------------------------------------------------------
(* The second flash. Whether the machine would start depends on the block    *)
(* that BUC.TS selects, which was written by this run or by one before.      *)

NoWriteFailed == "flash" \notin happened
SecondFlash == ~Idle /\ script.mode = "i945lenovo_secondflash"

\* The last block starts the body that is there.
Startable ==
  chip[3].what = "boot" /\ chip[1] = [what |-> "body", version |-> chip[3].version]

\* A chip that libreboot was started from with BUC.TS = 0 stays so, but for the
\* time of a flash that flashrom does not refuse.
StartsOrFlashes ==
  Libreboot /\ bucts = 0 => Startable \/ (Flashing /\ Drives(Command))

\* The user runs the second flash with a ROM of the version that runs, so that
\* flashrom does not refuse it, and BUC.TS is reset over the whole ROM.
SecondIsAccepted ==
  /\ SecondFlash => running = script.rom.version /\ script.rom.dd
  /\ script.mode = "i945lenovo_secondflash" => outcome # "failed"
  /\ SecondFlash /\ script.step = 2 => \A b \in Block : chip[b] = RomBlock(script.rom, b)

\* Where the lower blocks held the ROM before, only the last is written, and that
\* only while BUC.TS selects the one below it.
OnlyTopChanges ==
  SecondFlash /\ script.same =>
    /\ \A b \in {1, 2} : chip[b] = RomBlock(script.rom, b)
    /\ bucts = 1 \/ chip[3] = RomBlock(script.rom, 3)

Bootable == Typed /\ (NoWriteFailed => StartsOrFlashes /\ SecondIsAccepted /\ OnlyTopChanges)

\* The second flash is two commands, the other modes have none of them.
LEMMA CommandsOfSecond ==
  /\ Len(Commands("i945lenovo_secondflash")) = 2
  /\ Commands("i945lenovo_secondflash")[1] = "flashrom"
  /\ Commands("i945lenovo_secondflash")[2] = "bucts 0"
  /\ \A mode \in Modes : \A k \in 1 .. Len(Commands(mode)) :
       Commands(mode)[k] = "bucts 0" => mode = "i945lenovo_secondflash" /\ k = 2
<1>1. /\ Len(Commands("i945lenovo_secondflash")) = 2
      /\ Commands("i945lenovo_secondflash")[1] = "flashrom"
      /\ Commands("i945lenovo_secondflash")[2] = "bucts 0"
  BY DEF Commands
<1>2. ASSUME NEW mode \in Modes, NEW k \in 1 .. Len(Commands(mode)),
             Commands(mode)[k] = "bucts 0"
      PROVE  mode = "i945lenovo_secondflash" /\ k = 2
  <2>1. CASE mode = "i945lenovo_firstflash"
    <3>1. k \in {1, 2, 3}
      <4>1. Len(Commands(mode)) = 3
        BY <2>1, CommandsOfFirst
      <4>2. k \in 1 .. 3
        BY <1>2, <4>1
      <4>. QED BY <4>2
    <3>. QED BY <1>2, <2>1, <3>1, CommandsOfFirst
  <2>2. CASE mode = "i945lenovo_secondflash"
    <3>1. k \in {1, 2}
      <4>1. Len(Commands(mode)) = 2
        BY <1>1, <2>2
      <4>2. k \in 1 .. 2
        BY <1>2, <4>1
      <4>. QED BY <4>2
    <3>. QED BY <1>1, <1>2, <2>2, <3>1
  <2>3. CASE mode \notin {"i945lenovo_firstflash", "i945lenovo_secondflash"}
    <3>1. Len(Commands(mode)) = 1 /\ Commands(mode)[1] = "flashrom"
      BY <2>3 DEF Commands
    <3>2. k = 1
      <4>1. k \in 1 .. 1
        BY <1>2, <3>1
      <4>. QED BY <4>1
    <3>. QED BY <1>2, <3>1, <3>2
  <2>. QED BY <2>1, <2>2, <2>3
<1>. QED BY <1>1, <1>2

\* The command of a second flash in progress, and which commands are its own.
LEMMA SecondFlashCommand ==
  ASSUME Typed, ~Idle
  PROVE  /\ script.mode = "i945lenovo_secondflash" =>
              \/ script.step = 1 /\ Command = "flashrom"
              \/ script.step = 2 /\ Command = "bucts 0"
         /\ Command = "bucts 0" => script.mode = "i945lenovo_secondflash" /\ script.step = 2
<1>1. script.mode \in Modes /\ script.step \in 0 .. 3
  BY DEF Typed, TypeOK, Script
<1>2. PICK n \in {1, 2, 3} : n = Len(Commands(script.mode))
  BY <1>1, CommandsLength
<1>3. script.step \in 1 .. n
  BY <1>1, <1>2 DEF Typed, Idle
<1>4. script.mode = "i945lenovo_secondflash" => script.step \in {1, 2}
  <2>. SUFFICES ASSUME script.mode = "i945lenovo_secondflash" PROVE script.step \in {1, 2}
    OBVIOUS
  <2>1. n = 2
    BY <1>2, CommandsOfSecond
  <2>. QED BY <1>3, <2>1
<1>. QED BY <1>1, <1>2, <1>3, <1>4, CommandsOfSecond DEF Command

\* How the second flash goes on: with bucts after flashrom, and after that not at all.
LEMMA NextOfSecond ==
  ASSUME Typed, ~Idle, NextCommand
  PROVE  /\ script'.mode = script.mode /\ script'.rom = script.rom /\ script'.same = script.same
         /\ script.mode = "i945lenovo_secondflash" /\ script.step = 1 => script'.step = 2
         /\ script.mode = "i945lenovo_secondflash" /\ script.step = 2 => script'.step = 0
<1>1. script \in Script /\ script.mode \in Modes /\ script.step \in 0 .. 3
  BY DEF Typed, TypeOK, Script
<1>2. /\ script'.mode = script.mode /\ script'.rom = script.rom /\ script'.same = script.same
      /\ script'.step = IF script.step = Len(Commands(script.mode)) THEN 0 ELSE script.step + 1
  BY <1>1 DEF NextCommand, Script
<1>3. script.mode = "i945lenovo_secondflash" => script.step \in {1, 2}
  BY SecondFlashCommand
<1>4. ASSUME script.mode = "i945lenovo_secondflash"
      PROVE  /\ script.step = 1 => script'.step = 2
             /\ script.step = 2 => script'.step = 0
  <2>1. Len(Commands(script.mode)) = 2
    BY <1>4, CommandsOfSecond
  <2>2. script.step \in {1, 2}
    BY <1>3, <1>4
  <2>. QED BY <1>2, <2>1, <2>2
<1>. QED BY <1>2, <1>4

\* A chip that holds all of a ROM starts it from the last block.
LEMMA RomStarts ==
  ASSUME NEW rom \in Rom, \A b \in Block : chip[b] = RomBlock(rom, b)
  PROVE  Startable
BY DEF RomBlock, Startable

\* What is no version.
LEMMA NoVersion == \A v \in {"off", "bricked", "factory", "none"} : v \notin Versions
BY FlashAssumption

\* Firmware that was started with BUC.TS = 0 is libreboot only from such a chip.
LEMMA StartedFromTop ==
  ASSUME Boots(chip, 0) \in Versions
  PROVE  Startable
BY NoVersion DEF Boots, Startable

\* The invariant holds at the start.
LEMMA InitBootable == Init => Bootable
<1>. SUFFICES ASSUME Init PROVE StartsOrFlashes /\ SecondIsAccepted /\ OnlyTopChanges
  BY InitTyped DEF Bootable
<1>1. ~Libreboot /\ Idle /\ outcome = "none"
  BY NoVersion DEF Init, Libreboot
<1>. QED BY <1>1 DEF StartsOrFlashes, SecondIsAccepted, OnlyTopChanges, SecondFlash

\* By either of the user's rules, a second flash starts under the version it
\* writes, and one that failed was disturbed.
LEMMA StartBootable ==
  ASSUME Bootable, NoWriteFailed, NEW mode \in Modes, NEW rom \in Rom, Run(mode, rom),
         (outcome # "failed" /\ Advised(mode, rom)) \/ Guided(mode, rom)
  PROVE  StartsOrFlashes' /\ SecondIsAccepted' /\ OnlyTopChanges'
<1>1. UNCHANGED <<machine, chip, bucts, running>> /\ Idle /\ Typed
  BY DEF Run, Bootable
<1>2. Libreboot /\ bucts = 0 => Startable
  BY <1>1 DEF Bootable, StartsOrFlashes, Flashing
<1>3. StartsOrFlashes'
  BY <1>1, <1>2 DEF StartsOrFlashes, Startable, Libreboot
<1>4. CASE UNCHANGED <<script, outcome>>
  BY <1>1, <1>3, <1>4
  DEF Bootable, SecondIsAccepted, OnlyTopChanges, SecondFlash, Idle
<1>5. CASE ~UNCHANGED <<script, outcome>>
  <2>1. /\ script'.mode = mode /\ script'.rom = rom /\ script'.step = 1
        /\ script'.same = (\A b \in {1, 2} : chip[b] = RomBlock(rom, b))
        /\ outcome' = "none"
    <3>1. Required(mode) \subseteq env
      BY <1>5 DEF Run
    <3>2. /\ script' = [mode |-> mode, rom |-> rom, step |-> 1,
                        same |-> \A b \in {1, 2} : chip[b] = RomBlock(rom, b)]
          /\ outcome' = "none"
      BY <3>1 DEF Run
    <3>. QED BY <3>2
  <2>2. mode = "i945lenovo_secondflash" => running = rom.version /\ rom.dd
    <3>1. SUFFICES ASSUME mode = "i945lenovo_secondflash" PROVE Advised(mode, rom)
      BY DEF Advised
    <3>2. ~(outcome = "failed" /\ script.mode = "i945lenovo_secondflash")
      BY DEF Bootable, SecondIsAccepted
    <3>. QED BY <3>1, <3>2 DEF Guided
  <2>3. SecondIsAccepted'
    BY <2>1, <2>2, <1>1 DEF SecondIsAccepted, SecondFlash
  <2>4. ASSUME mode = "i945lenovo_secondflash", \A b \in {1, 2} : chip[b] = RomBlock(rom, b)
        PROVE  bucts = 1 \/ chip[3] = RomBlock(rom, 3)
    <3>1. bucts \in {0, 1} /\ chip[3] \in Content
      BY <1>1 DEF Typed, TypeOK
    <3>2. SUFFICES ASSUME bucts = 0 PROVE chip[3] = RomBlock(rom, 3)
      BY <3>1
    <3>3. Startable
      BY <1>2, <2>2, <2>4, <3>2 DEF Libreboot
    <3>4. chip[1] = [what |-> "body", version |-> rom.version]
      BY <2>4 DEF RomBlock
    <3>5. chip[3].what = "boot" /\ chip[3].version = rom.version
      BY <3>3, <3>4 DEF Startable
    <3>. QED BY <3>1, <3>5 DEF Content, RomBlock
  <2>5. OnlyTopChanges'
    BY <1>1, <2>1, <2>4 DEF OnlyTopChanges, SecondFlash
  <2>. QED BY <1>3, <2>3, <2>5
<1>. QED BY <1>4, <1>5

\* A flash keeps the invariant: flashrom either refuses the ROM before it changes
\* anything, or writes all of it.
LEMMA FlashBootable ==
  ASSUME Bootable, NoWriteFailed, FlashStep
  PROVE  StartsOrFlashes' /\ SecondIsAccepted' /\ OnlyTopChanges'
<1>1. /\ UNCHANGED <<machine, bucts, running>> /\ ~Idle /\ Flashing /\ Typed
      /\ script.rom \in Rom /\ script.step \in 0 .. 3 /\ chip \in [Block -> Content]
  BY DEF FlashStep, Flashing, Bootable, Typed, TypeOK, Script
<1>2. SecondFlash =>
        /\ Command = "flashrom" /\ script.step = 1
        /\ running = script.rom.version /\ script.rom.dd
        /\ Libreboot /\ ~Factory /\ Drives(Command) /\ ~Stuck
  <2>. SUFFICES ASSUME SecondFlash PROVE /\ Command = "flashrom" /\ script.step = 1
        /\ running = script.rom.version /\ script.rom.dd
        /\ Libreboot /\ ~Factory /\ Drives(Command) /\ ~Stuck
    OBVIOUS
  <2>1. Command = "flashrom" /\ script.step = 1
    BY <1>1, SecondFlashCommand DEF SecondFlash, Flashing
  <2>2. running = script.rom.version /\ script.rom.dd
    BY DEF Bootable, SecondIsAccepted
  <2>3. Libreboot /\ ~Factory
    BY <1>1, <2>2, NoVersion DEF Libreboot, Factory
  <2>. QED BY <2>1, <2>2, <2>3 DEF Drives, Stuck, Protected
<1>3. Libreboot => ~Factory /\ (Stuck <=> ~Drives(Command))
  BY NoVersion DEF Libreboot, Factory, Stuck, Protected
<1>4. CASE Stuck /\ FlashStops("failed") /\ UNCHANGED chip
  <2>1. ~SecondFlash
    BY <1>2, <1>4
  <2>2. script.mode # "i945lenovo_secondflash" /\ script'.mode = script.mode
    BY <1>1, <1>4, <2>1, NextOfSecond DEF SecondFlash, FlashStops
  <2>3. StartsOrFlashes'
    BY <1>1, <1>3, <1>4 DEF Bootable, StartsOrFlashes, Startable, Libreboot
  <2>. QED BY <2>2, <2>3 DEF SecondIsAccepted, OnlyTopChanges, SecondFlash
<1>5. CASE ~Stuck /\ Dirty = {} /\ FlashStops("verified") /\ UNCHANGED chip
  <2>1. \A b \in Block : chip[b] = RomBlock(script.rom, b)
    BY <1>5 DEF Dirty
  <2>2. Startable
    BY <1>1, <2>1, RomStarts
  <2>3. /\ script'.mode = script.mode /\ script'.rom = script.rom /\ script'.same = script.same
        /\ outcome' # "failed"
    BY <1>1, <1>5, NextOfSecond DEF FlashStops
  <2>4. StartsOrFlashes'
    BY <1>5, <2>2 DEF StartsOrFlashes, Startable
  <2>5. SecondIsAccepted'
    BY <1>1, <1>2, <1>5, <2>1, <2>3 DEF SecondIsAccepted, SecondFlash
  <2>6. OnlyTopChanges'
    BY <1>1, <1>5, <2>1, <2>3 DEF OnlyTopChanges, SecondFlash
  <2>. QED BY <2>4, <2>5, <2>6
<1>6. CASE /\ ~Stuck /\ Dirty # {} /\ UNCHANGED <<script, outcome>>
           /\ chip' = [chip EXCEPT ![Lowest] =
                          IF @ # Erased THEN Erased ELSE RomBlock(script.rom, Lowest)]
  <2>1. StartsOrFlashes'
    <3>1. Libreboot => Drives(Command)
      BY <1>3, <1>6
    <3>2. Flashing'
      BY <1>1, <1>6 DEF Flashing, Idle, Command
    <3>3. Drives(Command) => Drives(Command)'
      BY <1>1, <1>6 DEF Drives, Command, Factory
    <3>. QED BY <1>1, <3>1, <3>2, <3>3 DEF StartsOrFlashes, Libreboot
  <2>2. SecondIsAccepted'
    BY <1>1, <1>2, <1>6 DEF Bootable, SecondIsAccepted, SecondFlash, Idle
  <2>3. OnlyTopChanges'
    <3>. SUFFICES ASSUME SecondFlash, script.same
                  PROVE  /\ \A b \in {1, 2} : chip'[b] = RomBlock(script.rom, b)
                         /\ bucts = 1 \/ chip'[3] = RomBlock(script.rom, 3)
      BY <1>1, <1>6 DEF OnlyTopChanges, SecondFlash, Idle
    <3>1. /\ \A b \in {1, 2} : chip[b] = RomBlock(script.rom, b)
          /\ bucts = 1 \/ chip[3] = RomBlock(script.rom, 3)
      BY DEF Bootable, OnlyTopChanges
    <3>2. Dirty \subseteq {3}
      BY <3>1 DEF Dirty
    <3>3. Dirty = {3} /\ chip[3] # RomBlock(script.rom, 3)
      BY <1>6, <3>2 DEF Dirty
    <3>4. Lowest = 3
      BY <3>3 DEF Lowest
    <3>. QED BY <1>1, <1>6, <3>1, <3>3, <3>4
  <2>. QED BY <2>1, <2>2, <2>3
<1>. QED BY <1>4, <1>5, <1>6 DEF FlashStep

\* Commands of bucts, the one that fails included, keep the invariant.
LEMMA BuctsBootable ==
  ASSUME Bootable, NoWriteFailed, ~Idle, Command \in {"bucts 0", "bucts 1"}, NextCommand,
         UNCHANGED machine, UNCHANGED chip, UNCHANGED running, UNCHANGED outcome,
         bucts' = 0 => bucts = 0 \/ Command = "bucts 0"
  PROVE  StartsOrFlashes' /\ SecondIsAccepted' /\ OnlyTopChanges'
<1>1. Typed /\ script.rom \in Rom
  BY DEF Bootable, Typed, TypeOK, Script
<1>2. CASE Command = "bucts 0"
  <2>1. script.mode = "i945lenovo_secondflash" /\ script.step = 2
    BY <1>1, <1>2, SecondFlashCommand
  <2>2. Startable
    BY <1>1, <2>1, RomStarts DEF Bootable, SecondIsAccepted, SecondFlash
  <2>3. script'.mode = script.mode /\ script'.step = 0
    BY <1>1, <2>1, NextOfSecond
  <2>4. outcome # "failed"
    BY <2>1 DEF Bootable, SecondIsAccepted
  <2>. QED BY <2>2, <2>3, <2>4
    DEF StartsOrFlashes, Startable, SecondIsAccepted, OnlyTopChanges, SecondFlash, Idle
<1>3. CASE Command = "bucts 1"
  <2>1. script.mode # "i945lenovo_secondflash" /\ script'.mode = script.mode
    <3>1. script.mode # "i945lenovo_secondflash"
      BY <1>1, <1>3, SecondFlashCommand
    <3>. QED BY <1>1, <3>1, NextOfSecond
  <2>2. Libreboot /\ bucts = 0 => Startable
    BY <1>3 DEF Bootable, StartsOrFlashes, Flashing
  <2>3. StartsOrFlashes'
    BY <1>3, <2>2 DEF StartsOrFlashes, Startable, Libreboot
  <2>. QED BY <2>1, <2>3 DEF SecondIsAccepted, OnlyTopChanges, SecondFlash
<1>. QED BY <1>2, <1>3

\* What is off or bricked runs no script: the invariant says nothing of it.
LEMMA OffBootable ==
  ASSUME Bootable, NoWriteFailed, Idle', running' \notin Versions, UNCHANGED chip,
         UNCHANGED script.mode, outcome' \in {outcome, "none"}
  PROVE  StartsOrFlashes' /\ SecondIsAccepted' /\ OnlyTopChanges'
BY DEF Bootable, StartsOrFlashes, Libreboot, SecondIsAccepted, OnlyTopChanges, SecondFlash

\* Every step keeps the invariant.
LEMMA StepBootable == Armed /\ Bootable /\ [Next]_vars => Bootable'
<1>. SUFFICES ASSUME Armed, Bootable, [Next]_vars, NoWriteFailed'
              PROVE  StartsOrFlashes' /\ SecondIsAccepted' /\ OnlyTopChanges'
  BY StepTyped DEF Bootable
<1>0. NoWriteFailed
  <2>1. happened \subseteq happened'
    BY DEF Next, ScriptStep, User, Failure, BuctsOne, BuctsZero, FlashStep, Tinker, FollowGuide,
           Run, ShutDown, PowerOn, ResetByBattery, PowerLoss, BatteryDies, BuctsFails,
           FlashFails, Fault, vars
  <2>. QED BY <2>1 DEF NoWriteFailed
<1>1. CASE BuctsOne
  <2>1. bucts' = 0 => bucts = 0
    <3>1. bucts \in {0, 1}
      BY DEF Bootable, Typed, TypeOK
    <3>2. bucts' = IF "bucts" \in env THEN 1 ELSE bucts
      BY <1>1 DEF BuctsOne
    <3>. QED BY <3>1, <3>2
  <2>. QED BY <1>0, <1>1, <2>1, BuctsBootable DEF BuctsOne
<1>2. CASE BuctsZero
  BY <1>0, <1>2, BuctsBootable DEF BuctsZero
<1>3. CASE FlashStep
  BY <1>0, <1>3, FlashBootable
<1>4. CASE Tinker
  BY <1>0, <1>4, StartBootable DEF Tinker
<1>5. CASE FollowGuide
  BY <1>0, <1>5, StartBootable DEF FollowGuide
<1>6. CASE ShutDown
  BY <1>0, <1>6, NoVersion, OffBootable DEF ShutDown, Idle
<1>7. CASE PowerOn
  <2>1. Idle
    BY <1>7, NoVersion DEF PowerOn, Armed, Arming, Running, Factory, Libreboot
  <2>2. Libreboot' /\ bucts' = 0 => Startable'
    BY <1>7, StartedFromTop DEF PowerOn, Libreboot, Startable
  <2>. QED BY <1>0, <1>7, <2>1, <2>2
    DEF PowerOn, Bootable, StartsOrFlashes, SecondIsAccepted, OnlyTopChanges, SecondFlash, Idle
<1>8. CASE ResetByBattery
  <2>1. Idle
    BY <1>8, NoVersion DEF ResetByBattery, Armed, Arming, Running, Factory, Libreboot
  <2>. QED BY <1>0, <1>8, <2>1, NoVersion, OffBootable DEF ResetByBattery, Idle
<1>9. CASE PowerLoss
  <2>1. script'.step = 0 /\ script'.mode = script.mode
    BY <1>9 DEF PowerLoss, Bootable, Typed, TypeOK, Script
  <2>. QED BY <1>0, <1>9, <2>1, NoVersion, OffBootable DEF PowerLoss, Idle
<1>10. CASE BatteryDies
  <2>1. Idle
    BY <1>10, NoVersion DEF BatteryDies, Armed, Arming, Running, Factory, Libreboot
  <2>. QED BY <1>0, <1>10, <2>1, NoVersion, OffBootable DEF BatteryDies, Idle
<1>11. CASE BuctsFails
  BY <1>0, <1>11, BuctsBootable DEF BuctsFails, Fault
<1>12. CASE FlashFails
  BY <1>12 DEF FlashFails, Fault, NoWriteFailed
<1>13. CASE UNCHANGED vars
  BY <1>0, <1>13
  DEF vars, Bootable, StartsOrFlashes, Startable, Libreboot, Flashing, Drives, Command, Factory,
      SecondIsAccepted, OnlyTopChanges, SecondFlash, Idle
<1>. QED
  BY <1>1, <1>2, <1>3, <1>4, <1>5, <1>6, <1>7, <1>8, <1>9, <1>10, <1>11, <1>12, <1>13
  DEF Next, ScriptStep, User, Failure

\* At every command of a second flash of the ROM of the first the machine would
\* start again, whatever the power, the battery and bucts do, unless the chip failed
\* to take a write (flash:130-131).
THEOREM SecondFlashIsBootable == Spec => []BootableDuringSecondFlash
<1>1. Bootable => BootableDuringSecondFlash
  <2>. SUFFICES ASSUME Bootable, NoWriteFailed, SecondFlash, script.same
                PROVE  Boots(chip, bucts) = script.rom.version
    BY DEF BootableDuringSecondFlash, NoWriteFailed, SecondFlash
  <2>1. /\ \A b \in {1, 2} : chip[b] = RomBlock(script.rom, b)
        /\ bucts = 1 \/ chip[3] = RomBlock(script.rom, 3)
        /\ script.rom.dd
    BY DEF Bootable, OnlyTopChanges, SecondIsAccepted
  <2>2. /\ chip[1] = [what |-> "body", version |-> script.rom.version]
        /\ chip[2] = [what |-> "boot", version |-> script.rom.version]
    BY <2>1 DEF RomBlock
  <2>3. chip # FactoryChip
    BY <2>2 DEF FactoryChip
  <2>4. bucts \in {0, 1}
    BY DEF Bootable, Typed, TypeOK
  <2>5. bucts = 0 => chip[3] = [what |-> "boot", version |-> script.rom.version]
    BY <2>1 DEF RomBlock
  <2>. QED BY <2>2, <2>3, <2>4, <2>5 DEF Boots
<1>2. Armed /\ Bootable /\ [Next]_vars => Armed' /\ Bootable'
  BY StepArmed, StepBootable
<1>. QED BY InitArmed, InitBootable, <1>1, <1>2, PTL DEF Spec

-----------------------------------------------------------------------------
(* What a user who follows the guide is left with. Whether the machine comes *)
(* up again is decided at every command by what it will report, and by what  *)
(* the user does upon that.                                                  *)

StartsFromTop == Boots(chip, 0) # "bricked"
StartsBelow == bucts = 1 /\ Boots(chip, 1) # "bricked"
HoldsRom == \A b \in Block : chip[b] = RomBlock(script.rom, b)

\* A ROM for the two Lenovo flashes was dd'd; the first flash reports nothing; and
\* the second resets BUC.TS over the whole ROM, or reported a failure before.
Advice ==
  /\ script.mode \in LenovoModes => script.rom.dd
  /\ outcome = "failed" => script.mode # "i945lenovo_firstflash"
  /\ SecondFlash /\ script.step = 1 => outcome = "none"
  /\ SecondFlash /\ script.step = 2 /\ outcome # "failed" => HoldsRom

\* A command that may change the chip, or the user's knowledge of it.
Writing ==
  ~Idle /\ (Command = "flashrom" \/ (Command \in {"sst", "macronix"} /\ Drives(Command)))

Soft ==
  OnlyWritesFailed =>
    /\ outcome = "failed" \/ Writing \/ StartsFromTop \/ StartsBelow
    /\ running = "bricked" => bucts = 1 /\ StartsFromTop

Guarded == Armed /\ Advice /\ Soft

\* Which blocks of a ROM a machine starts from.
LEMMA RomBoots ==
  ASSUME NEW rom \in Rom, NEW c, c[1] = RomBlock(rom, 1)
  PROVE  /\ c[3] = RomBlock(rom, 3) => Boots(c, 0) = rom.version
         /\ rom.dd /\ c[2] = RomBlock(rom, 2) => Boots(c, 1) = rom.version
         /\ rom.version # "bricked"
<1>1. c[1] = [what |-> "body", version |-> rom.version] /\ rom.version \in Versions
  BY DEF RomBlock
<1>2. c # FactoryChip
  BY <1>1 DEF FactoryChip
<1>3. c[3] = RomBlock(rom, 3) => Boots(c, 0) = rom.version
  BY <1>1, <1>2 DEF RomBlock, Boots
<1>4. rom.dd /\ c[2] = RomBlock(rom, 2) => Boots(c, 1) = rom.version
  BY <1>1, <1>2 DEF RomBlock, Boots
<1>. QED BY <1>1, <1>3, <1>4, NoVersion

\* No block below the lowest that differs does.
LEMMA LowestIsLeast ==
  ASSUME Dirty # {}, Lowest = 3
  PROVE  1 \notin Dirty /\ 2 \notin Dirty
<1>1. Dirty \subseteq 1 .. 3
  BY DEF Dirty
<1>2. \E b \in Dirty : \A d \in Dirty : b <= d
  <2>1. CASE 1 \in Dirty
    BY <1>1, <2>1
  <2>2. CASE 1 \notin Dirty /\ 2 \in Dirty
    BY <1>1, <2>2
  <2>3. CASE 1 \notin Dirty /\ 2 \notin Dirty
    <3>1. \A d \in Dirty : d = 3
      BY <1>1, <2>3
    <3>. QED BY <3>1
  <2>. QED BY <2>1, <2>2, <2>3
<1>3. \A d \in Dirty : Lowest <= d
  BY <1>2 DEF Lowest
<1>. QED BY <1>3

\* The first flash does not run the normal flashrom; every other mode begins with it.
LEMMA CommandsOfModes ==
  ASSUME Typed, ~Idle
  PROVE  /\ script.mode = "i945lenovo_firstflash" => Command \in {"bucts 1", "sst", "macronix"}
         /\ script.mode = "i945lenovo_firstflash" /\ Command # "bucts 1" => script.step # 1
         /\ Command \in {"bucts 1", "sst", "macronix"} => script.mode = "i945lenovo_firstflash"
         /\ script.mode # "i945lenovo_firstflash" /\ script.step = 1 => Command = "flashrom"
<1>1. script.mode \in Modes /\ script.step \in 0 .. 3
  BY DEF Typed, TypeOK, Script
<1>2. PICK n \in {1, 2, 3} : n = Len(Commands(script.mode))
  BY <1>1, CommandsLength
<1>3. script.step \in 1 .. n
  BY <1>1, <1>2 DEF Typed, Idle
<1>4. CASE script.mode = "i945lenovo_firstflash"
  <2>1. script.step \in {1, 2, 3}
    BY <1>1, <1>3
  <2>. QED BY <1>4, <2>1, CommandsOfFirst DEF Command
<1>5. CASE script.mode = "i945lenovo_secondflash"
  <2>1. \/ script.step = 1 /\ Command = "flashrom"
        \/ script.step = 2 /\ Command = "bucts 0"
    BY <1>5, SecondFlashCommand
  <2>2. Command \notin {"bucts 1", "sst", "macronix"}
    BY <2>1
  <2>3. script.step = 1 => Command = "flashrom"
    BY <2>1
  <2>. QED BY <1>5, <2>2, <2>3
<1>6. CASE script.mode \notin LenovoModes
  <2>1. Len(Commands(script.mode)) = 1 /\ Commands(script.mode)[1] = "flashrom"
    BY <1>1, <1>6 DEF Commands, LenovoModes
  <2>2. script.step = 1
    BY <1>2, <1>3, <2>1
  <2>. QED BY <1>6, <2>1, <2>2 DEF Command, LenovoModes
<1>. QED BY <1>4, <1>5, <1>6 DEF LenovoModes

\* The invariant holds at the start.
LEMMA InitGuarded == Init => Guarded
<1>. SUFFICES ASSUME Init PROVE Advice /\ Soft
  BY InitArmed DEF Guarded
<1>1. Idle /\ outcome = "none" /\ script.mode = "update" /\ running = "factory"
  BY DEF Init
<1>2. Boots(chip, 0) = "factory"
  <2>1. chip = FactoryChip
    BY DEF Init
  <2>2. FactoryChip[3].what # "boot"
    BY DEF FactoryChip
  <2>. QED BY <2>1, <2>2 DEF Boots
<1>. QED BY <1>1, <1>2 DEF Advice, Soft, SecondFlash, LenovoModes, StartsFromTop

\* A run that the user starts keeps it; after a failure it is another try of
\* flashrom.
LEMMA StartGuarded ==
  ASSUME Guarded, NEW mode \in Modes, NEW rom \in Rom, Run(mode, rom),
         (outcome # "failed" /\ Advised(mode, rom)) \/ Guided(mode, rom)
  PROVE  Advice' /\ Soft'
<1>1. /\ UNCHANGED <<machine, env, chip, bucts, running, happened>> /\ Idle
      /\ Factory \/ Libreboot
  BY DEF Run
<1>2. running # "bricked"
  BY <1>1, NoVersion DEF Factory, Libreboot
<1>3. CASE UNCHANGED <<script, outcome>>
  BY <1>1, <1>2, <1>3
  DEF Guarded, Advice, Soft, SecondFlash, Idle, HoldsRom, Writing, StartsFromTop, StartsBelow,
      OnlyWritesFailed
<1>4. CASE ~UNCHANGED <<script, outcome>>
  <2>1. /\ script'.mode = mode /\ script'.rom = rom /\ script'.step = 1 /\ outcome' = "none"
    BY <1>4 DEF Run
  <2>2. mode \in LenovoModes => rom.dd
    BY DEF Guided, Advised, Guarded, Advice, LenovoModes
  <2>3. Advice'
    BY <2>1, <2>2 DEF Advice, SecondFlash
  <2>4. outcome = "failed" => mode # "i945lenovo_firstflash"
    BY DEF Guided, Advised, Guarded, Advice, Armed, Arming, LenovoBios
  <2>5. mode # "i945lenovo_firstflash" => Commands(mode)[1] = "flashrom"
    BY DEF Commands
  <2>6. outcome = "failed" => Writing'
    BY <2>1, <2>4, <2>5 DEF Writing, Idle, Command
  <2>7. ~Writing
    BY <1>1 DEF Writing
  <2>. QED BY <1>1, <1>2, <2>3, <2>6, <2>7
    DEF Guarded, Soft, StartsFromTop, StartsBelow, OnlyWritesFailed
<1>. QED BY <1>3, <1>4

\* flashrom keeps it: it reports that it failed, or has written all of the ROM; or it
\* leaves the Lenovo BIOS's block, with BUC.TS set before.
LEMMA FlashGuarded ==
  ASSUME Guarded, FlashStep
  PROVE  Advice' /\ Soft'
<1>1. /\ UNCHANGED <<machine, env, bucts, running, happened>> /\ ~Idle /\ Flashing /\ Typed
      /\ script.rom \in Rom /\ (Factory \/ Libreboot)
  BY DEF FlashStep, Flashing, Guarded, Armed, Arming, Running, Typed, TypeOK, Script
<1>2. running # "bricked"
  BY <1>1, NoVersion DEF Factory, Libreboot, Guarded, Armed, Arming, Running
<1>3. /\ script.mode = "i945lenovo_firstflash" => Command # "flashrom"
      /\ Command \in {"sst", "macronix"} => script.mode = "i945lenovo_firstflash" /\ script.step # 1
      /\ SecondFlash => script.step = 1 /\ Command = "flashrom"
  BY <1>1, CommandsOfModes, SecondFlashCommand DEF Flashing, SecondFlash
<1>4. ASSUME NEW how \in {"failed", "verified"}, FlashStops(how), UNCHANGED chip,
             how = "verified" => HoldsRom
      PROVE  Advice'
  <2>1. /\ script'.mode = script.mode /\ script'.rom = script.rom
        /\ SecondFlash => script'.step = 2
    BY <1>1, <1>3, <1>4, NextOfSecond DEF FlashStops, SecondFlash
  <2>2. /\ outcome' = "failed" => Command = "flashrom"
        /\ Command = "flashrom" => outcome' = how
    BY <1>4 DEF FlashStops
  <2>3. script'.mode = "i945lenovo_secondflash" => SecondFlash
    BY <1>1, <2>1 DEF SecondFlash
  <2>4. HoldsRom => HoldsRom'
    BY <1>4, <2>1 DEF HoldsRom
  <2>. QED BY <1>3, <1>4, <2>1, <2>2, <2>3, <2>4 DEF Guarded, Advice, SecondFlash
<1>5. CASE ~Stuck /\ Dirty = {} /\ FlashStops("verified") /\ UNCHANGED chip
  <2>1. HoldsRom
    BY <1>5 DEF Dirty, HoldsRom
  <2>2. StartsFromTop
    BY <1>1, <2>1, RomBoots DEF StartsFromTop, HoldsRom
  <2>. QED BY <1>1, <1>2, <1>4, <1>5, <2>1, <2>2 DEF Soft, StartsFromTop
<1>6. CASE Stuck /\ FlashStops("failed") /\ UNCHANGED chip
  <2>1. Advice'
    BY <1>4, <1>6
  <2>2. CASE Command = "flashrom"
    BY <1>1, <1>2, <1>6, <2>1, <2>2 DEF FlashStops, Soft
  <2>3. CASE Command # "flashrom" /\ ~Drives(Command)
    <3>1. outcome # "failed" /\ ~Writing
      BY <1>1, <1>3, <2>3 DEF Guarded, Advice, Writing, Flashing
    <3>. QED BY <1>1, <1>2, <1>6, <2>1, <3>1
      DEF Guarded, Soft, StartsFromTop, StartsBelow, OnlyWritesFailed
  <2>4. CASE Command # "flashrom" /\ Drives(Command)
    <3>1. Dirty # {} /\ LenovoBios /\ Lowest = 3
      BY <1>6, <2>4 DEF Stuck, Protected, LenovoBios
    <3>2. \A b \in {1, 2} : chip[b] = RomBlock(script.rom, b)
      BY <3>1, LowestIsLeast DEF Dirty
    <3>3. script.rom.dd
      BY <1>1, <1>3, <2>4 DEF Guarded, Advice, LenovoModes, Flashing
    <3>4. Boots(chip, 1) # "bricked"
      BY <1>1, <3>2, <3>3, RomBoots
    <3>5. OnlyWritesFailed => bucts = 1
      BY <1>1, <1>3, <2>4, <3>1 DEF Guarded, Armed, Arming, OnlyWritesFailed, Flashing
    <3>. QED BY <1>1, <1>2, <1>6, <2>1, <3>4, <3>5 DEF Soft, StartsBelow, OnlyWritesFailed
  <2>. QED BY <2>2, <2>3, <2>4
<1>7. CASE /\ ~Stuck /\ Dirty # {} /\ UNCHANGED <<script, outcome>>
           /\ chip' = [chip EXCEPT ![Lowest] =
                          IF @ # Erased THEN Erased ELSE RomBlock(script.rom, Lowest)]
  <2>1. Advice'
    BY <1>1, <1>3, <1>7 DEF Guarded, Advice, SecondFlash, Idle
  <2>2. Drives(Command) /\ (Drives(Command) => Drives(Command)')
    BY <1>1, <1>7 DEF Stuck, Drives, Command, Factory
  <2>3. Writing'
    BY <1>1, <1>7, <2>2 DEF Writing, Flashing, Idle, Command
  <2>. QED BY <1>1, <1>2, <2>1, <2>3 DEF Soft
<1>. QED BY <1>5, <1>6, <1>7 DEF FlashStep

\* Every step keeps it.
LEMMA StepGuarded == Guarded /\ [Next]_vars => Guarded'
<1>. SUFFICES ASSUME Guarded, [Next]_vars PROVE Advice' /\ Soft'
  BY StepArmed DEF Guarded
<1>. USE DEF OnlyWritesFailed
<1>0. /\ Typed /\ (~(Factory \/ Libreboot) => Idle) /\ bucts \in {0, 1}
      /\ ~Idle => running # "bricked"
  <2>1. Typed /\ (~(Factory \/ Libreboot) => Idle)
    BY DEF Guarded, Armed, Arming, Running
  <2>. QED BY <2>1, NoVersion DEF Typed, TypeOK, Factory, Libreboot
<1>1. CASE BuctsOne
  <2>1. /\ script.mode = "i945lenovo_firstflash"
        /\ script'.mode = script.mode /\ script'.rom = script.rom
    BY <1>0, <1>1, CommandsOfModes, NextOfSecond DEF BuctsOne
  <2>2. Advice'
    BY <1>1, <2>1 DEF Guarded, Advice, SecondFlash, BuctsOne
  <2>3. bucts' = IF "bucts" \in env THEN 1 ELSE bucts
    BY <1>1 DEF BuctsOne
  <2>4. bucts = 1 => bucts' = 1
    BY <2>3
  <2>. QED BY <1>0, <1>1, <2>2, <2>4
    DEF BuctsOne, Guarded, Soft, Writing, StartsFromTop, StartsBelow
<1>2. CASE BuctsZero
  <2>1. SecondFlash /\ script.step = 2
    BY <1>0, <1>2, SecondFlashCommand DEF BuctsZero, SecondFlash
  <2>2. script'.mode = script.mode /\ script'.rom = script.rom /\ script'.step = 0
    BY <1>0, <1>2, <2>1, NextOfSecond DEF BuctsZero, SecondFlash
  <2>3. Advice'
    BY <1>2, <2>1, <2>2 DEF Guarded, Advice, SecondFlash, Idle, BuctsZero
  <2>4. outcome = "failed" \/ StartsFromTop
    <3>1. script.rom \in Rom
      BY <1>0 DEF Typed, TypeOK, Script
    <3>. QED BY <2>1, <3>1, RomBoots DEF Guarded, Advice, HoldsRom, StartsFromTop
  <2>. QED BY <1>0, <1>2, <2>3, <2>4 DEF BuctsZero, Soft, StartsFromTop
<1>3. CASE FlashStep
  BY <1>3, FlashGuarded
<1>4. CASE Tinker
  BY <1>4, StartGuarded DEF Tinker
<1>5. CASE FollowGuide
  BY <1>5, StartGuarded DEF FollowGuide
<1>6. CASE ShutDown
  BY <1>6 DEF ShutDown, Guarded, Advice, Soft, SecondFlash, Idle, HoldsRom, Writing,
              StartsFromTop, StartsBelow
<1>7. CASE PowerOn
  <2>1. Idle /\ outcome # "failed"
    BY <1>7, NoVersion DEF PowerOn, Guarded, Armed, Arming, Running, Factory, Libreboot
  <2>2. Advice'
    BY <1>7, <2>1 DEF PowerOn, Guarded, Advice, SecondFlash, Idle
  <2>3. OnlyWritesFailed => StartsFromTop \/ StartsBelow
    BY <2>1 DEF Guarded, Soft, Writing
  <2>4. OnlyWritesFailed /\ running' = "bricked" => bucts = 1 /\ StartsFromTop
    BY <1>0, <1>7, <2>3 DEF PowerOn, StartsFromTop, StartsBelow
  <2>. QED BY <1>7, <2>2, <2>3, <2>4 DEF PowerOn, Soft, StartsFromTop, StartsBelow
<1>8. CASE ResetByBattery
  <2>1. Idle
    BY <1>0, <1>8, NoVersion DEF ResetByBattery, Factory, Libreboot
  <2>2. Advice'
    BY <1>8, <2>1 DEF ResetByBattery, Guarded, Advice, SecondFlash, Idle
  <2>. QED BY <1>8, <2>2 DEF ResetByBattery, Guarded, Soft, StartsFromTop
<1>9. CASE PowerLoss
  <2>1. script'.step = 0 /\ script'.mode = script.mode /\ script'.rom = script.rom
    BY <1>0, <1>9 DEF PowerLoss, Typed, TypeOK, Script
  <2>2. Advice'
    BY <1>9, <2>1 DEF PowerLoss, Guarded, Advice, SecondFlash, Idle
  <2>. QED BY <1>9, <2>2 DEF PowerLoss, Fault, Soft
<1>10. CASE BatteryDies
  <2>1. Idle
    BY <1>0, <1>10, NoVersion DEF BatteryDies, Factory, Libreboot
  <2>2. Advice'
    BY <1>10, <2>1 DEF BatteryDies, Guarded, Advice, SecondFlash, Idle
  <2>. QED BY <1>10, <2>2 DEF BatteryDies, Fault, Soft
<1>11. CASE BuctsFails
  <2>1. /\ script'.mode = script.mode /\ script'.rom = script.rom
        /\ SecondFlash => script'.step = 0
    <3>1. SecondFlash => script.step = 2
      BY <1>0, <1>11, SecondFlashCommand DEF BuctsFails, SecondFlash
    <3>. QED BY <1>0, <1>11, <3>1, NextOfSecond DEF BuctsFails, SecondFlash
  <2>2. Advice'
    BY <1>11, <2>1 DEF BuctsFails, Guarded, Advice, SecondFlash, Idle
  <2>. QED BY <1>11, <2>2 DEF BuctsFails, Fault, Soft
<1>12. CASE FlashFails
  <2>1. /\ script'.mode = script.mode /\ script'.rom = script.rom /\ outcome' = "failed"
        /\ SecondFlash => script'.step = 2
    <3>1. SecondFlash => script.step = 1
      BY <1>0, <1>12, SecondFlashCommand DEF FlashFails, SecondFlash
    <3>. QED BY <1>0, <1>12, <3>1, NextOfSecond DEF FlashFails, FlashStops, SecondFlash
  <2>2. script.mode # "i945lenovo_firstflash"
    BY <1>0, <1>12, CommandsOfModes DEF FlashFails
  <2>3. Advice'
    BY <1>12, <2>1, <2>2 DEF FlashFails, Guarded, Advice, SecondFlash, Idle
  <2>. QED BY <1>0, <1>12, <2>1, <2>3 DEF FlashFails, Soft
<1>13. CASE UNCHANGED vars
  BY <1>13
  DEF vars, Guarded, Advice, Soft, SecondFlash, Idle, HoldsRom, Writing, Drives, Command,
      Factory, StartsFromTop, StartsBelow
<1>. QED
  BY <1>1, <1>2, <1>3, <1>4, <1>5, <1>6, <1>7, <1>8, <1>9, <1>10, <1>11, <1>12, <1>13
  DEF Next, ScriptStep, User, Failure

\* What a user who follows the guide bricks, taking out the battery cures, unless
\* something other than a write of the chip failed: for every part, environment and
\* ROM, and any number of runs (docs: "brick type 1").
THEOREM BricksStaySoft == Spec => []BricksAreSoft
<1>1. Guarded => BricksAreSoft
  BY DEF Guarded, Soft, StartsFromTop, BricksAreSoft
<1>. QED BY InitGuarded, StepGuarded, <1>1, PTL DEF Spec

\* A second flash that was verified leaves a machine that starts the ROM with either
\* value of BUC.TS, so that a CMOS battery that dies later does no harm
\* (flash:130-131).
THEOREM SecondFlashIsBatterySafe == Spec => InstallIsBatterySafe
<1>. DEFINE Safe ==
       (~Idle /\ script.mode = "i945lenovo_secondflash" /\ script'.step = 0
          /\ running' = running /\ outcome = "verified") =>
         \A ts \in {0, 1} : Boots(chip', ts) = script.rom.version
<1>1. Guarded /\ [Next]_vars => [Safe]_vars
  <2>. SUFFICES ASSUME Guarded, Next, SecondFlash, script'.step = 0, running' = running,
                       outcome = "verified"
                PROVE  \A ts \in {0, 1} : Boots(chip', ts) = script.rom.version
    BY DEF SecondFlash
  <2>1. Typed /\ script.rom \in Rom /\ script.rom.dd
    BY DEF Guarded, Armed, Typed, TypeOK, Script, Advice, SecondFlash, LenovoModes
  <2>2. script.step = 2 /\ Command = "bucts 0"
    BY <2>1, SecondFlashCommand DEF SecondFlash, Guarded, Advice
  <2>3. HoldsRom
    BY <2>2 DEF Guarded, Advice
  <2>4. UNCHANGED chip
    <3>1. Running
      BY DEF SecondFlash, Guarded, Armed, Arming
    <3>. QED BY <2>2, <3>1, NoVersion
      DEF Next, ScriptStep, User, Failure, BuctsOne, BuctsZero, FlashStep, Flashing, Tinker,
          FollowGuide, Run, ShutDown, PowerOn, ResetByBattery, PowerLoss, BatteryDies, BuctsFails,
          FlashFails
  <2>5. Boots(chip, 0) = script.rom.version /\ Boots(chip, 1) = script.rom.version
    BY <2>1, <2>3, RomBoots DEF HoldsRom
  <2>. QED BY <2>4, <2>5
<1>. QED BY InitGuarded, StepGuarded, <1>1, PTL DEF Spec, InstallIsBatterySafe
===============================================================================
