---------------------------- MODULE BoardProofs -----------------------------
(***************************************************************************)
(* What holds of the parts of the board for every value of their           *)
(* constants: an update leaves the board bootable wherever power goes, the *)
(* boot scripts copy whole images, the watchdog and the console do what    *)
(* their callers rely on, a write to a register of the card is whole or a  *)
(* prefix, an access to the switch is made before it is reported, and the  *)
(* NAND controller is set up for each transfer; pins are set alone, the    *)
(* timer waits as long as it is asked to, the divisors of the console give *)
(* the rate asked for, and the calibration of the TRGMII ends in the       *)
(* middle of each window.                                                  *)
(***************************************************************************)
EXTENDS MCBoard, DivisionLemmas, SequenceTheorems, NaturalsInduction, WellFoundedInduction

-----------------------------------------------------------------------------
(* The steps of the board are those of its parts.                          *)

LEMMA BoardPartsStart ==
  BoardInit => AbInit /\ CmdInit /\ WdtInit /\ UartInit /\ RegInit /\ MiiInit /\ ControllerInit
BY DEF BoardInit

LEMMA AbPartsStep == [BoardNext]_boardVars => [AbNext]_abVars
BY DEF BoardNext, boardVars, PinsPart, TimerPart, UartPart, WdtPart, MiiPart, CalPart,
       SetupPart, PagesPart, NandPart, ChipPart, ArithPart, RegPart, CmdPart, AbPart,
       OnlyWdt, OnlyMii, OnlyCal, OnlySetup, Booting

LEMMA CmdPartsStep == [BoardNext]_boardVars => [CmdNext]_cmdVars
BY DEF BoardNext, boardVars, PinsPart, TimerPart, UartPart, WdtPart, MiiPart, CalPart,
       SetupPart, PagesPart, NandPart, ChipPart, ArithPart, RegPart, CmdPart, AbPart,
       OnlyWdt, OnlyMii, OnlyCal, OnlySetup, Booting

LEMMA WdtPartsStep == [BoardNext]_boardVars => [WdtNext]_wdtVars
BY DEF BoardNext, boardVars, PinsPart, TimerPart, UartPart, WdtPart, MiiPart, CalPart,
       SetupPart, PagesPart, NandPart, ChipPart, ArithPart, RegPart, CmdPart, AbPart,
       OnlyWdt, OnlyMii, OnlyCal, OnlySetup, SmallParts

LEMMA UartPartsStep == [BoardNext]_boardVars => [UartNext]_uartVars
BY DEF BoardNext, boardVars, PinsPart, TimerPart, UartPart, WdtPart, MiiPart, CalPart,
       SetupPart, PagesPart, NandPart, ChipPart, ArithPart, RegPart, CmdPart, AbPart,
       OnlyWdt, OnlyMii, OnlyCal, OnlySetup, SmallParts

LEMMA NandPartsStep == [BoardNext]_boardVars => [ControllerNext]_ncVars
BY DEF BoardNext, boardVars, PinsPart, TimerPart, UartPart, WdtPart, MiiPart, CalPart,
       SetupPart, PagesPart, NandPart, ChipPart, ArithPart, RegPart, CmdPart, AbPart,
       OnlyWdt, OnlyMii, OnlyCal, OnlySetup, Storage

LEMMA RegPartsStep == [BoardNext]_boardVars => [RegNext]_regVars
BY DEF BoardNext, boardVars, PinsPart, TimerPart, UartPart, WdtPart, MiiPart, CalPart,
       SetupPart, PagesPart, NandPart, ChipPart, ArithPart, RegPart, CmdPart, AbPart,
       OnlyWdt, OnlyMii, OnlyCal, OnlySetup, Storage
-----------------------------------------------------------------------------
(* The update.  From preinst to postinst the environment names the system  *)
(* that runs, if every update so far began so; the other partition is the  *)
(* one written to, and it holds a system before postinst names it.         *)

Contents == {"old", "new", "empty", "mixed", "part"}

AbTypes ==
  /\ rootfs \in [Parts -> Contents]
  /\ boot_part \in 0 .. 2 /\ running \in 0 .. 2 /\ dev_update \in 0 .. 2
  /\ stage \in {"idle", "preinst", "unpack", "postinst", "setenv"}

\* An update runs in a system, and /dev/update leads to the other one.
OtherIsWritten ==
  /\ stage # "idle" => running # 0
  /\ stage \in {"unpack", "postinst", "setenv"} => dev_update = UpdatePart

NamedUntilPostinst == usual /\ stage \in {"preinst", "unpack", "postinst"} => boot_part = running

WholeBeforeNamed ==
  /\ stage \in {"postinst", "setenv"} => Bootable(UpdatePart)
  /\ stage = "setenv" => boot_part = 0

AbInv == AbTypes /\ OtherIsWritten /\ NamedUntilPostinst /\ WholeBeforeNamed /\ BootsUnlessTorn

LEMMA AbStarts == AbInit => AbInv
<1> SUFFICES ASSUME AbInit PROVE AbInv
  OBVIOUS
<1>1. rootfs \in [Parts -> Contents] /\ rootfs[1] = "old"
  BY DEF AbInit, Contents
<1> QED
  BY <1>1 DEF AbInit, AbInv, AbTypes, OtherIsWritten, NamedUntilPostinst, WholeBeforeNamed,
              BootsUnlessTorn, Bootable, Parts

\* The partition an update writes to is not the one that runs.
LEMMA OtherThanRunning ==
  ASSUME AbTypes, running # 0
  PROVE  UpdatePart \in Parts /\ UpdatePart # running /\ running \in Parts
BY DEF AbTypes, UpdatePart, Parts

LEMMA AbKept == AbInv /\ [AbNext]_abVars => AbInv'
<1> SUFFICES ASSUME AbInv, [AbNext]_abVars PROVE AbInv'
  OBVIOUS
<1> USE DEF AbInv, AbTypes, OtherIsWritten, NamedUntilPostinst, WholeBeforeNamed, BootsUnlessTorn
<1>1. CASE UNCHANGED abVars
  BY <1>1 DEF abVars, UpdatePart, Bootable
<1>2. CASE StartUpdate
  BY <1>2 DEF StartUpdate, UpdatePart, Bootable
<1>3. CASE Preinst
  <2>1. UpdatePart \in Parts /\ UpdatePart # running /\ running \in Parts
    BY <1>3, OtherThanRunning DEF Preinst
  <2>2. PICK c \in Contents : rootfs' = [rootfs EXCEPT ![UpdatePart] = c]
    BY <1>3, <2>1 DEF Preinst, Contents
  <2>3. /\ stage = "preinst" /\ stage' = "unpack" /\ dev_update' = UpdatePart
        /\ UNCHANGED <<boot_part, running, usual>>
    BY <1>3 DEF Preinst
  <2>4. rootfs' \in [Parts -> Contents] /\ rootfs'[running] = rootfs[running]
    BY <2>1, <2>2
  <2>5. BootsUnlessTorn'
    BY <2>1, <2>3, <2>4 DEF Bootable, Parts
  <2> QED BY <2>1, <2>3, <2>4, <2>5 DEF UpdatePart, Parts
<1>4. CASE Unpack
  <2>1. UpdatePart \in Parts /\ UpdatePart # running /\ running \in Parts /\ dev_update = UpdatePart
    BY <1>4, OtherThanRunning DEF Unpack
  <2>2. stage = "unpack" /\ UNCHANGED <<boot_part, running, dev_update, usual>>
    BY <1>4 DEF Unpack
  <2>3. CASE stage' = "idle" /\ rootfs' = [rootfs EXCEPT ![dev_update] = "part"]
    <3>1. rootfs' \in [Parts -> Contents] /\ rootfs'[running] = rootfs[running]
      BY <2>1, <2>3 DEF Contents
    <3> QED BY <2>1, <2>2, <2>3, <3>1 DEF Bootable
  <2>4. CASE /\ stage' = "postinst"
             /\ rootfs' = [rootfs EXCEPT ![dev_update] = IF @ = "empty" THEN "new" ELSE "mixed"]
    <3>1. /\ rootfs' \in [Parts -> Contents] /\ rootfs'[running] = rootfs[running]
          /\ rootfs'[UpdatePart] \in {"new", "mixed"}
      BY <2>1, <2>4 DEF Contents
    <3>2. UpdatePart' = UpdatePart
      BY <2>2 DEF UpdatePart
    <3> QED BY <2>1, <2>2, <2>4, <3>1, <3>2 DEF Bootable
  <2> QED BY <1>4, <2>3, <2>4 DEF Unpack
<1>5. CASE Postinst
  <2>1. UpdatePart \in Parts /\ Parts = {running, UpdatePart} /\ UpdatePart' = UpdatePart
    BY <1>5, OtherThanRunning DEF Postinst, Unpacked, UpdatePart, Parts
  <2>2. /\ stage = "postinst" /\ stage' = "setenv" /\ boot_part' = 0
        /\ UNCHANGED <<rootfs, running, dev_update, usual>>
    BY <1>5 DEF Postinst, Unpacked
  <2>3. Bootable(UpdatePart) /\ (usual => Bootable(running))
    BY <2>1, <2>2 DEF Parts
  <2> QED BY <2>1, <2>2, <2>3 DEF Bootable, Parts
<1>6. CASE Setenv
  BY <1>6, OtherThanRunning DEF Setenv, UpdatePart, Bootable
<1>7. CASE PowerOff
  <2>1. UpdatePart \in Parts /\ UpdatePart # running /\ running \in Parts
    BY <1>7, OtherThanRunning DEF PowerOff
  <2>2. running' = 0 /\ dev_update' = 0 /\ stage' = "idle" /\ UNCHANGED <<boot_part, usual>>
    BY <1>7 DEF PowerOff
  <2>3. rootfs' \in [Parts -> Contents]
    BY <1>7, <2>1 DEF PowerOff, Contents
  <2>4. CASE stage \in {"preinst", "unpack"}
    <3>1. rootfs'[running] = rootfs[running]
      BY <1>7, <2>1, <2>4 DEF PowerOff
    <3> QED BY <2>2, <2>3, <2>4, <3>1 DEF Bootable
  <2>5. CASE stage \notin {"preinst", "unpack"}
    BY <1>7, <2>2, <2>3, <2>5 DEF PowerOff, Bootable
  <2> QED BY <2>4, <2>5
<1>8. CASE bootcmd \/ boot_pri \/ boot_sec
  <2>1. PICK p \in Parts : Boot(p)
    BY <1>8 DEF bootcmd, boot_pri, boot_sec, Boot, Parts
  <2> QED BY <2>1 DEF Boot, Bootable, Parts
<1> QED BY <1>1, <1>2, <1>3, <1>4, <1>5, <1>6, <1>7, <1>8 DEF AbNext
-----------------------------------------------------------------------------
(* The commands of the boot scripts.                                       *)

CmdTypes ==
  /\ loaded \in Images /\ img_blks \in Nat
  /\ cmd_for.blk \in Nat /\ cmd_for.size \in Nat

CmdInv == CmdTypes /\ BlocksHoldImage

\* The quotient rounded up covers the size, and no block more.
LEMMA BlocksCover ==
  ASSUME NEW size \in Nat, NEW blk \in Nat \ {0}
  PROVE  /\ BlocksOf(size, blk) \in Nat
         /\ size + blk <= Modulus => BlocksOf(size, blk) * blk \in size .. size + blk - 1
<1> DEFINE s == size + blk - 1
           w == s % Modulus
           n == w \div blk
           t == blk * n
<1>1. s \in Nat
  OBVIOUS
<1>2. w \in Nat /\ (s < Modulus => w = s)
  BY <1>1, ModulusAssumption, SMT
<1>3. n \in Nat /\ w % blk \in 0 .. blk - 1 /\ w = t + (w % blk)
  <2> HIDE DEF w
  <2> QED BY <1>2, DivMod
<1>4. BlocksOf(size, blk) = n
  BY DEF BlocksOf
<1>5. n * blk = t
  <2> HIDE DEF n
  <2> QED BY <1>3, SMT
<1>6. t \in Int
  <2> HIDE DEF n
  <2> QED BY <1>3
<1>7. ASSUME size + blk <= Modulus PROVE t \in size .. size + blk - 1
  <2>1. s < Modulus
    BY <1>7, ModulusAssumption, SMT
  <2>2. w = size + blk - 1
    BY <2>1, <1>2
  <2> HIDE DEF t, w
  <2> QED BY <2>2, <1>3, <1>6, SMT
<1> QED BY <1>3, <1>4, <1>5, <1>7

LEMMA CmdStarts == CmdInit => CmdInv
BY DEF CmdInit, CmdInv, CmdTypes, BlocksHoldImage

LEMMA CmdKept == CmdInv /\ [CmdNext]_cmdVars => CmdInv'
<1> SUFFICES ASSUME CmdInv, [CmdNext]_cmdVars PROVE CmdInv'
  OBVIOUS
<1> USE DEF CmdInv, CmdTypes, BlocksHoldImage
<1>1. CASE UNCHANGED cmdVars
  BY <1>1 DEF cmdVars
<1>2. CASE Load
  BY <1>2 DEF Load
<1>3. CASE do_read_image_blks
  <2>1. PICK blk \in BlkSizes, arg \in ImgSizes \cup {0}, filesize \in ImgSizes \cup {0} :
          /\ blk > 0
          /\ img_blks' = IF loaded.kind = "junk" THEN BadMagic ELSE BlocksOf(SizeOf(arg, filesize), blk)
          /\ img_align_size' = (img_blks' * blk) % Modulus
          /\ cmd_for' = [blk |-> blk, size |-> SizeOf(arg, filesize)]
    BY <1>3 DEF do_read_image_blks
  <2>2. blk \in Nat \ {0} /\ arg \in Nat /\ filesize \in Nat /\ loaded.size \in Nat
    <3>1. blk \in Nat \ {0} /\ arg \in Nat /\ filesize \in Nat
      BY <2>1, ModulusAssumption
    <3>2. loaded.size \in ImgSizes
      BY DEF Images
    <3>3. \A i \in ImgSizes : i \in Nat
      BY ModulusAssumption
    <3> QED BY <3>1, <3>2, <3>3
  <2>3. UNCHANGED loaded
    BY <1>3 DEF do_read_image_blks
  <2>4. PICK size \in Nat : size = SizeOf(arg, filesize) /\ (loaded.kind = "junk" => size = 0)
    <3>1. SizeOf(arg, filesize) \in Nat
      BY <2>2, ModulusAssumption DEF SizeOf, HeaderSize, Images
    <3> QED BY <3>1 DEF SizeOf
  <2>5. /\ img_blks' \in Nat
        /\ size + blk <= Modulus => img_blks' * blk \in size .. size + blk - 1
    <3>1. CASE loaded.kind = "junk"
      <4>1. img_blks' = 0 /\ size = 0 /\ 0 * blk = 0
        BY <2>1, <2>2, <2>4, <3>1 DEF BadMagic
      <4> QED BY <4>1, <2>2
    <3>2. CASE loaded.kind # "junk"
      <4>1. img_blks' = BlocksOf(size, blk)
        BY <2>1, <2>4, <3>2
      <4> QED BY <4>1, <2>2, BlocksCover
    <3> QED BY <3>1, <3>2
  <2>6. PICK bytes : bytes = img_blks' * blk
    OBVIOUS
  <2>7. size + blk <= Modulus => img_align_size' = bytes
    <3>1. ASSUME size + blk <= Modulus PROVE bytes % Modulus = bytes
      <4>1. bytes \in size .. size + blk - 1
        BY <2>5, <2>6, <3>1
      <4>2. bytes \in Nat /\ bytes < Modulus
        BY <2>2, <4>1, <3>1, ModulusAssumption
      <4> QED BY <4>2, ModulusAssumption
    <3> QED BY <2>1, <2>6, <3>1
  <2>8. cmd_for'.blk = blk /\ cmd_for'.size = size
    BY <2>1, <2>4
  <2> QED BY <2>2, <2>3, <2>5, <2>6, <2>7, <2>8
<1>4. CASE do_image_check
  BY <1>4 DEF do_image_check
<1>5. CASE do_uboot_check
  BY <1>5 DEF do_uboot_check
<1> QED BY <1>1, <1>2, <1>3, <1>4, <1>5 DEF CmdNext
-----------------------------------------------------------------------------
(* Both, of the board.                                                     *)

\* Wherever power goes in an update but while fw_setenv writes the environment,
\* boot_part names a system that boots; a loss of power there leaves no
\* environment and two whole systems (update.sh:65).  And the blocks a boot
\* script copies hold all of the image, for any sizes of images and blocks
\* below the modulus of unsigned long.
THEOREM BoardBoots == BoardSpec => []BootInv
<1>1. BoardInit => AbInv /\ CmdInv
  BY BoardPartsStart, AbStarts, CmdStarts
<1>2. (AbInv /\ CmdInv) /\ [BoardNext]_boardVars => (AbInv /\ CmdInv)'
  <2> SUFFICES ASSUME AbInv, CmdInv, [BoardNext]_boardVars PROVE AbInv' /\ CmdInv'
    OBVIOUS
  <2> QED BY AbPartsStep, CmdPartsStep, AbKept, CmdKept
<1>3. AbInv /\ CmdInv => BootInv
  BY DEF AbInv, CmdInv, BootInv
<1> QED BY <1>1, <1>2, <1>3, PTL DEF BoardSpec

LEMMA AbAlways == BoardSpec => []AbInv
<1>1. BoardInit => AbInv
  BY BoardPartsStart, AbStarts
<1>2. AbInv /\ [BoardNext]_boardVars => AbInv'
  BY AbPartsStep, AbKept
<1> QED BY <1>1, <1>2, PTL DEF BoardSpec

\* No step of an update formats or writes to the partition of the system that
\* runs, also when boot_part names another one.
THEOREM UpdateSparesRunning == BoardSpec => RunningSpared
<1> DEFINE Spared == running # 0 /\ running' = running => rootfs'[running] = rootfs[running]
<1>1. AbInv /\ [BoardNext]_boardVars => [Spared]_abVars
  <2> SUFFICES ASSUME AbInv, [AbNext]_abVars, running # 0, running' = running
               PROVE  rootfs'[running] = rootfs[running] \/ UNCHANGED abVars
    BY AbPartsStep
  <2>1. UpdatePart # running /\ running \in Parts /\ UpdatePart \in Parts
    BY OtherThanRunning DEF AbInv
  <2>2. CASE Preinst
    <3>1. PICK c : rootfs' = [rootfs EXCEPT ![UpdatePart] = c]
      BY <2>2 DEF Preinst
    <3> QED BY <2>1, <3>1 DEF AbInv, AbTypes
  <2>3. CASE Unpack
    <3>1. dev_update = UpdatePart
      BY <2>3 DEF Unpack, AbInv, OtherIsWritten
    <3>2. PICK c : rootfs' = [rootfs EXCEPT ![UpdatePart] = c]
      BY <2>3, <3>1 DEF Unpack
    <3> QED BY <2>1, <3>2 DEF AbInv, AbTypes
  <2> QED BY <2>2, <2>3 DEF AbNext, StartUpdate, Postinst, Setenv, PowerOff,
             bootcmd, boot_pri, boot_sec, Boot
<1>2. RunningSpared <=> [][Spared]_abVars
  BY DEF RunningSpared
<1> HIDE DEF Spared
<1> QED BY <1>1, <1>2, AbAlways, PTL DEF BoardSpec
-----------------------------------------------------------------------------
(* The watchdog: off at the prompt until mtk_wdt_init, and the note of the *)
(* preloader is about the last reset for as long as it is there.           *)

WdtPlaces ==
  /\ wd_pc \in {"preloader", "start", "prompt", "reset"}
  /\ wd_pc = "start" => wd_interval.stage = "preloader"
  /\ wd_pc \in {"prompt", "reset"} => wd_interval.stage \in {"preloader", "uboot"}

OffAtPrompt == wd_pc = "prompt" /\ wd_interval.stage = "preloader" => "ENABLE" \notin wd_mode

NoteIsRight ==
  wd_pc # "preloader" =>
    /\ wd_interval.stage = "preloader" => (wd_interval.on <=> wd_last = "power")
    /\ wd_interval.stage = "uboot" => (is_rgu_trigger_rst <=> wd_last # "power")

WdtInv == WdtPlaces /\ OffAtPrompt /\ NoteIsRight

LEMMA WdtStarts == WdtInit => WdtInv
BY DEF WdtInit, WdtInv, WdtPlaces, OffAtPrompt, NoteIsRight

\* A reset, of whatever reason, leads back to the preloader.
LEMMA ResetKeeps == ASSUME NEW why, WdtReset(why) PROVE WdtInv'
BY DEF WdtReset, WdtInv, WdtPlaces, OffAtPrompt, NoteIsRight

LEMMA WdtKept == WdtInv /\ [WdtNext]_wdtVars => WdtInv'
<1> SUFFICES ASSUME WdtInv, [WdtNext]_wdtVars PROVE WdtInv'
  OBVIOUS
<1> USE DEF WdtInv, WdtPlaces, OffAtPrompt, NoteIsRight
<1>1. CASE UNCHANGED wdtVars
  BY <1>1 DEF wdtVars
<1>2. CASE Preloader
  BY <1>2 DEF Preloader
<1>3. CASE board_init
  BY <1>3 DEF board_init, Disabled
<1>4. CASE mtk_wdt_init
  <2>1. /\ wd_pc = "prompt" /\ wd_pc' = "prompt" /\ wd_interval.stage = "preloader"
        /\ wd_interval'.stage = "uboot" /\ wd_last' = wd_last
        /\ is_rgu_trigger_rst' = ~wd_interval.on
    BY <1>4 DEF mtk_wdt_init, TriggeredByRgu
  <2>2. wd_interval.on <=> wd_last = "power"
    BY <2>1
  <2> QED BY <2>1, <2>2
<1>5. CASE mtk_wdt_hw_reset
  BY <1>5 DEF mtk_wdt_hw_reset
<1>6. CASE mtk_wdt_reset
  <2>1. PICK bypass \in BOOLEAN :
          \/ /\ wd_pc' = "reset" /\ UNCHANGED <<wd_interval, is_rgu_trigger_rst, wd_last>>
          \/ WdtReset("asked")
    BY <1>6 DEF mtk_wdt_reset
  <2>2. CASE WdtReset("asked")
    BY <2>2, ResetKeeps
  <2>3. CASE wd_pc' = "reset" /\ UNCHANGED <<wd_interval, is_rgu_trigger_rst, wd_last>>
    <3>1. wd_pc = "prompt"
      BY <1>6 DEF mtk_wdt_reset
    <3> QED BY <2>3, <3>1
  <2> QED BY <2>1, <2>2, <2>3
<1>7. CASE Tick
  BY <1>7 DEF Tick
<1>8. CASE Bite
  <2>1. CASE "IRQ" \in wd_mode /\ ~wd_barked
    BY <1>8, <2>1 DEF Bite
  <2>2. CASE ~("IRQ" \in wd_mode /\ ~wd_barked)
    BY <1>8, <2>2, ResetKeeps DEF Bite
  <2> QED BY <2>1, <2>2
<1>9. CASE Repower
  BY <1>9 DEF Repower
<1> QED BY <1>1, <1>2, <1>3, <1>4, <1>5, <1>6, <1>7, <1>8, <1>9 DEF WdtNext, WdtWork
-----------------------------------------------------------------------------
(* The console.  uart_putc writes up to two characters after one wait: the *)
(* FIFO is on and has room for them.                                       *)

Characters == {"c", "cr", "nl"}

UartTypes ==
  /\ thr \in Seq(Characters) /\ sent \in Seq(Characters) /\ said \in Seq(Characters)
  /\ utext \in Seq({"c", "nl"}) /\ u_pc \in {"start", "putc"}

\* What the preloader has left, until uart_init_early.
AsFound ==
  u_pc = "start" =>
    /\ ureg \in [highspeed : {0, 3}, dl : {1, 14}, count : {0, 27}, point : {13}, fifo : BOOLEAN]
    /\ thr = <<>> /\ sent = <<>> /\ said = <<>>

UartInv == UartTypes /\ AsFound /\ (u_pc = "putc" => ureg.fifo = TRUE) /\ NothingLost

LEMMA UartStarts == UartInit => UartInv
<1> SUFFICES ASSUME UartInit PROVE UartInv
  OBVIOUS
<1>1. utext \in Seq({"c", "nl"}) /\ <<>> \in Seq(Characters)
  <2>1. \A x, y \in {"c", "nl"} : <<x, y>> \in Seq({"c", "nl"})
    OBVIOUS
  <2>2. \A x, y, z \in {"c", "nl"} : <<x, y, z>> \in Seq({"c", "nl"})
    OBVIOUS
  <2>3. /\ <<"c", "nl">> \in Seq({"c", "nl"}) /\ <<"nl", "nl">> \in Seq({"c", "nl"})
        /\ <<"nl", "c", "nl">> \in Seq({"c", "nl"})
    BY <2>1, <2>2
  <2>4. utext \in {<<"c", "nl">>, <<"nl", "nl">>, <<"nl", "c", "nl">>}
    BY DEF UartInit
  <2>5. <<>> \in Seq(Characters)
    OBVIOUS
  <2> QED BY <2>3, <2>4, <2>5, Zenon
<1>2. UartTypes
  BY <1>1 DEF UartInit, UartTypes
<1> QED BY <1>2 DEF UartInit, UartInv, AsFound, NothingLost

\* Whatever rate is set, the FIFO is as it was.
LEMMA RateKeepsFifo ==
  ASSUME NEW r, "fifo" \in DOMAIN r
  PROVE  uart_setbrg(FifoOn(r)).fifo = TRUE
<1> DEFINE f == FifoOn(r)
<1>1. f.fifo = TRUE /\ "fifo" \in DOMAIN f
  BY DEF FifoOn
<1> HIDE DEF f
<1>2. LowSpeed(f, g_brg).fifo = TRUE
  BY <1>1 DEF LowSpeed
<1>3. HighSpeed(f, g_brg).fifo = TRUE
  BY <1>1 DEF HighSpeed
<1>4. uart_setbrg(f) = LowSpeed(f, g_brg) \/ uart_setbrg(f) = HighSpeed(f, g_brg)
  BY DEF uart_setbrg
<1> QED BY <1>2, <1>3, <1>4 DEF f

LEMMA UartKept == UartInv /\ [UartNext]_uartVars => UartInv'
<1> SUFFICES ASSUME UartInv, [UartNext]_uartVars PROVE UartInv'
  OBVIOUS
<1>1. CASE UNCHANGED uartVars
  BY <1>1 DEF uartVars, UartInv, UartTypes, AsFound, NothingLost
<1>2. CASE uart_init_early
  <2>1. u_pc = "start" /\ u_pc' = "putc" /\ UNCHANGED <<thr, sent, said, utext>>
    BY <1>2 DEF uart_init_early
  <2>2. "fifo" \in DOMAIN ureg /\ thr = <<>> /\ sent = <<>> /\ said = <<>>
    BY <2>1 DEF UartInv, AsFound
  <2>3. ureg'.fifo = TRUE
    BY <1>2, <2>2, RateKeepsFifo DEF uart_init_early
  <2> QED BY <2>1, <2>2, <2>3 DEF UartInv, UartTypes, AsFound, NothingLost
<1>3. CASE uart_putc
  <2>1. /\ u_pc = "putc" /\ utext # <<>> /\ thr = <<>> /\ utext' = Tail(utext)
        /\ UNCHANGED <<ureg, sent, u_pc>>
    BY <1>3 DEF uart_putc, Empty
  <2>2. ureg.fifo = TRUE /\ sent = said /\ sent \in Seq(Characters)
    BY <2>1 DEF UartInv, UartTypes, NothingLost
  <2> DEFINE c == Head(utext)
  <2>3. c \in {"c", "nl"} /\ utext' \in Seq({"c", "nl"})
    BY <2>1 DEF UartInv, UartTypes
  <2>4. /\ thr' = (IF c = "nl" THEN Held(Held(thr, "cr"), "nl") ELSE Held(thr, c))
        /\ said' = said \o (IF c = "nl" THEN <<"cr", "nl">> ELSE <<c>>)
    BY <1>3 DEF uart_putc
  <2> HIDE DEF c
  <2>5. Held(<<>>, c) = <<c>> /\ Held(<<>>, "cr") = <<"cr">>
    BY <2>2, <2>3, RoomAssumption DEF Held, Places
  <2>6. Held(<<"cr">>, "nl") = <<"cr", "nl">>
    <3>1. 1 < Places
      BY <2>2, RoomAssumption DEF Places
    <3>2. <<"cr">> \in Seq(Characters) /\ Len(<<"cr">>) = 1
      BY DEF Characters
    <3>3. Append(<<"cr">>, "nl") = <<"cr", "nl">>
      <4> DEFINE a == Append(<<"cr">>, "nl")
                 b == <<"cr", "nl">>
      <4>1. a \in Seq(Characters) /\ Len(a) = 2 /\ a[1] = "cr" /\ a[2] = "nl"
        <5>1. "nl" \in Characters
          BY DEF Characters
        <5>2. <<"cr">>[1] = "cr"
          OBVIOUS
        <5> QED BY <3>2, <5>1, <5>2, AppendProperties
      <4>2. b \in Seq(Characters) /\ Len(b) = 2 /\ b[1] = "cr" /\ b[2] = "nl"
        BY DEF Characters
      <4> HIDE DEF a, b
      <4>3. \A i \in 1 .. Len(a) : a[i] = b[i]
        BY <4>1, <4>2
      <4>4. a = b
        BY <4>1, <4>2, <4>3, SeqEqual
      <4> QED BY <4>4 DEF a, b
    <3> QED BY <3>1, <3>2, <3>3 DEF Held
  <2>7. thr' = (IF c = "nl" THEN <<"cr", "nl">> ELSE <<c>>)
    BY <2>1, <2>4, <2>5, <2>6
  <2>8. thr' \in Seq(Characters)
    <3>1. <<"cr", "nl">> \in Seq(Characters)
      BY DEF Characters
    <3>2. <<c>> \in Seq(Characters)
      <4>1. c \in Characters
        BY <2>3 DEF Characters
      <4> QED BY <4>1
    <3> QED BY <2>7, <3>1, <3>2
  <2>9. said' = sent \o thr'
    BY <2>2, <2>4, <2>7
  <2> QED BY <2>1, <2>2, <2>3, <2>8, <2>9 DEF UartInv, UartTypes, AsFound, NothingLost
<1>4. CASE ShiftOut
  <2>1. /\ thr # <<>> /\ sent' = Append(sent, Head(thr)) /\ thr' = Tail(thr)
        /\ UNCHANGED <<ureg, said, utext, u_pc>>
    BY <1>4 DEF ShiftOut
  <2>2. thr \in Seq(Characters) /\ sent \in Seq(Characters)
    BY DEF UartInv, UartTypes
  <2>3. thr' \in Seq(Characters) /\ sent' \in Seq(Characters)
    BY <2>1, <2>2
  <2>4. sent' \o thr' = sent \o thr
    BY <2>1, <2>2, SMTT(30)
  <2>5. u_pc # "start"
    BY <2>1 DEF UartInv, AsFound
  <2> QED BY <2>1, <2>3, <2>4, <2>5 DEF UartInv, UartTypes, AsFound, NothingLost
<1> QED BY <1>1, <1>2, <1>3, <1>4 DEF UartNext
-----------------------------------------------------------------------------
(* The registers of the card: while a call goes on, the bytes before the   *)
(* next one are written and those behind it are as they were.              *)

\* The bytes a register has.
BytesOf(r) == 0 .. Width[r] - 1

RegTypes ==
  /\ \A r \in Regs : r \in DOMAIN card_reg /\ \A i \in BytesOf(r) : i \in DOMAIN card_reg[r]
  /\ reg_call.r \in Regs /\ reg_call.next \in BytesOf(reg_call.r) /\ reg_call.at \in 0 .. 2
  /\ DOMAIN reg_call = {"r", "value", "next", "at"}

WrittenSoFar ==
  reg_call.at # 0 =>
    \A i \in BytesOf(reg_call.r) :
      i < reg_call.next => card_reg[reg_call.r][i] = Byte(reg_call.value, i)

RestUntouched ==
  \A i \in BytesOf(reg_call.r) :
    i > reg_call.next => card_reg[reg_call.r][i] = reg_old[reg_call.r][i]

WholeOnSuccess ==
  reg_call.at = 0 /\ reg_err = "NONE" =>
    /\ \A i \in BytesOf(reg_call.r) : card_reg[reg_call.r][i] = Byte(reg_call.value, i)
    /\ reg_copy = card_reg

RegInv == RegTypes /\ WrittenSoFar /\ RestUntouched /\ WholeOnSuccess

LEMMA WidthsKnown ==
  /\ Regs = {"size", "start", "attr", "grp_def"}
  /\ \A r \in Regs : Width[r] \in Nat \ {0} /\ 0 \in BytesOf(r)
BY DEF Regs, Width, BytesOf

LEMMA RegStarts == RegInit => RegInv
<1> SUFFICES ASSUME RegInit PROVE RegInv
  OBVIOUS
<1>1. /\ reg_call = [r |-> "attr", value |-> 0, next |-> 0, at |-> 0]
      /\ reg_old = card_reg /\ reg_err = "none"
  BY DEF RegInit
<1>2. \A r \in Regs : Zero[r] = [i \in BytesOf(r) |-> 0]
  BY DEF Zero, BytesOf
<1>3. card_reg \in [size : {Zero.size}, start : {Zero.start}, attr : [{0} -> 0 .. Q - 1],
                    grp_def : [{0} -> 0 .. Q - 1]]
  BY DEF RegInit
<1>4. DOMAIN card_reg = {"size", "start", "attr", "grp_def"}
  BY <1>3
<1>5. \A i \in BytesOf("size") : i \in DOMAIN card_reg["size"]
  BY <1>2, <1>3, WidthsKnown
<1>6. \A i \in BytesOf("start") : i \in DOMAIN card_reg["start"]
  BY <1>2, <1>3, WidthsKnown
<1>7. BytesOf("attr") = {0} /\ BytesOf("grp_def") = {0}
  BY DEF BytesOf, Width
<1>8. 0 \in DOMAIN card_reg["attr"] /\ 0 \in DOMAIN card_reg["grp_def"]
  BY <1>3
<1>9. \A r \in Regs : r \in DOMAIN card_reg /\ \A i \in BytesOf(r) : i \in DOMAIN card_reg[r]
  BY <1>4, <1>5, <1>6, <1>7, <1>8, WidthsKnown
<1> QED BY <1>1, <1>9, WidthsKnown DEF RegInv, RegTypes, WrittenSoFar, RestUntouched, WholeOnSuccess

LEMMA RegKept == RegInv /\ [RegNext]_regVars => RegInv'
<1> SUFFICES ASSUME RegInv, [RegNext]_regVars PROVE RegInv'
  OBVIOUS
<1> USE DEF RegInv
<1>1. CASE UNCHANGED regVars
  BY <1>1 DEF regVars, RegTypes, WrittenSoFar, RestUntouched, WholeOnSuccess
<1>2. CASE \E r \in Regs : \E value \in {1, Q^Width[r] - 2} : CallRegister(r, value)
  <2>1. PICK r \in Regs : \E value : CallRegister(r, value)
    BY <1>2
  <2>2. PICK value : CallRegister(r, value)
    BY <2>1
  <2>3. card_reg' = card_reg /\ reg_old' = card_reg /\ reg_call.at = 0
    BY <2>2 DEF CallRegister
  <2>4. PICK v, a : /\ reg_call' = [r |-> r, value |-> v, next |-> 0, at |-> a] /\ a \in 0 .. 1
                    /\ a = 0 => reg_err' = "FAILED"
    BY <2>2 DEF CallRegister
  <2>5. reg_call'.r = r /\ reg_call'.next = 0 /\ reg_call'.at = a
    BY <2>4
  <2>6. DOMAIN reg_call' = {"r", "value", "next", "at"}
    BY <2>4
  <2>7. RegTypes'
    BY <2>3, <2>4, <2>5, <2>6, WidthsKnown DEF RegTypes
  <2>8. WrittenSoFar' /\ RestUntouched' /\ WholeOnSuccess'
    BY <2>3, <2>4, <2>5 DEF WrittenSoFar, RestUntouched, WholeOnSuccess, BytesOf
  <2> QED BY <2>7, <2>8
<1> DEFINE r == reg_call.r
           n == reg_call.next
           b == Byte(reg_call.value, n)
<1>3. CASE SwitchByte
  <2>1. reg_call.at = 1 /\ UNCHANGED <<reg_copy, reg_old>>
    BY <1>3 DEF SwitchByte
  <2>2. r \in DOMAIN card_reg /\ n \in DOMAIN card_reg[r] /\ n \in BytesOf(r) /\ n \in Int
    BY DEF RegTypes, BytesOf
  <2>3. card_reg' = card_reg \/ card_reg' = [card_reg EXCEPT ![r][n] = b]
    BY <1>3 DEF SwitchByte, Written, Ends
  <2>4. PICK a \in {0, 2} : reg_call' = [reg_call EXCEPT !.at = a] /\ (a = 0 => reg_err' = "TIMEOUT")
    BY <1>3 DEF SwitchByte, Ends
  <2>5. reg_call'.r = r /\ reg_call'.next = n /\ reg_call'.value = reg_call.value /\ reg_call'.at = a
    BY <2>4 DEF RegTypes
  <2>6. DOMAIN reg_call' = {"r", "value", "next", "at"}
    BY <2>4 DEF RegTypes
  <2>7. /\ DOMAIN card_reg' = DOMAIN card_reg
        /\ \A q \in Regs : DOMAIN card_reg'[q] = DOMAIN card_reg[q]
        /\ \A i : i # n => card_reg'[r][i] = card_reg[r][i]
    <3>1. CASE card_reg' = card_reg
      BY <3>1
    <3>2. CASE card_reg' = [card_reg EXCEPT ![r][n] = b]
      <4> HIDE DEF r, n, b
      <4>1. DOMAIN card_reg' = DOMAIN card_reg
        BY <3>2
      <4>2. card_reg'[r] = [card_reg[r] EXCEPT ![n] = b]
        BY <2>2, <3>2
      <4>3. \A q \in Regs : q # r => card_reg'[q] = card_reg[q]
        BY <3>2 DEF RegTypes
      <4>4. \A i : i # n => card_reg'[r][i] = card_reg[r][i]
        BY <3>2 DEF RegTypes
      <4> QED BY <4>1, <4>2, <4>3, <4>4
    <3> QED BY <2>3, <3>1, <3>2
  <2>8. RegTypes'
    BY <2>2, <2>4, <2>5, <2>6, <2>7 DEF RegTypes
  <2>9. \A i \in BytesOf(r) : i < n => card_reg'[r][i] = card_reg[r][i]
    BY <2>7, <2>2 DEF BytesOf
  <2>10. WrittenSoFar'
    BY <2>1, <2>5, <2>9 DEF WrittenSoFar
  <2>11. \A i \in BytesOf(r) : i > n => card_reg'[r][i] = card_reg[r][i]
    BY <2>7, <2>2 DEF BytesOf
  <2>12. RestUntouched'
    BY <2>1, <2>5, <2>11 DEF RestUntouched
  <2>13. WholeOnSuccess'
    BY <2>4, <2>5 DEF WholeOnSuccess
  <2> QED BY <2>8, <2>10, <2>12, <2>13
<1>4. CASE ReadBack
  <2>1. reg_call.at = 2 /\ UNCHANGED <<card_reg, reg_old>>
    BY <1>4 DEF ReadBack
  <2>2. n \in BytesOf(r) /\ n \in Nat /\ Width[r] \in Nat \ {0}
    BY WidthsKnown DEF RegTypes, BytesOf
  <2>3. CASE reg_copy' = Zero /\ Ends("TIMEOUT")
    BY <2>1, <2>3 DEF Ends, RegTypes, WrittenSoFar, RestUntouched, WholeOnSuccess
  <2>4. CASE reg_copy' = card_reg /\ ~Confirmed(card_reg) /\ Ends("FAILED")
    BY <2>1, <2>4 DEF Ends, RegTypes, WrittenSoFar, RestUntouched, WholeOnSuccess
  <2>5. ASSUME Confirmed(card_reg)
        PROVE  \A i \in BytesOf(r) : i < n + 1 => card_reg[r][i] = Byte(reg_call.value, i)
    <3>1. \A i \in BytesOf(r) : i < n => card_reg[r][i] = Byte(reg_call.value, i)
      BY <2>1 DEF WrittenSoFar
    <3>2. card_reg[r][n] = Byte(reg_call.value, n)
      BY <2>5 DEF Confirmed
    <3>3. \A i \in BytesOf(r) : i < n + 1 => i < n \/ i = n
      BY <2>2 DEF BytesOf
    <3> QED BY <3>1, <3>2, <3>3
  <2>6. CASE /\ reg_copy' = card_reg /\ Confirmed(card_reg) /\ n + 1 < Width[r]
             /\ reg_call' = [reg_call EXCEPT !.next = @ + 1, !.at = 1]
    <3>1. reg_call'.r = r /\ reg_call'.next = n + 1 /\ reg_call'.value = reg_call.value /\ reg_call'.at = 1
      BY <2>6 DEF RegTypes
    <3>2. DOMAIN reg_call' = {"r", "value", "next", "at"} /\ n + 1 \in BytesOf(r)
      BY <2>2, <2>6 DEF RegTypes, BytesOf
    <3>3. RegTypes'
      BY <2>1, <3>1, <3>2 DEF RegTypes
    <3>4. WrittenSoFar'
      BY <2>1, <2>5, <2>6, <3>1 DEF WrittenSoFar
    <3>5. \A i \in BytesOf(r) : i > n + 1 => i > n
      BY <2>2 DEF BytesOf
    <3>6. RestUntouched'
      BY <2>1, <3>1, <3>5 DEF RestUntouched
    <3> QED BY <3>1, <3>3, <3>4, <3>6 DEF WholeOnSuccess
  <2>7. CASE reg_copy' = card_reg /\ Confirmed(card_reg) /\ ~(n + 1 < Width[r]) /\ Ends("NONE")
    <3>1. /\ reg_call'.r = r /\ reg_call'.next = n /\ reg_call'.value = reg_call.value
          /\ reg_call'.at = 0 /\ DOMAIN reg_call' = {"r", "value", "next", "at"}
      BY <2>7 DEF RegTypes, Ends
    <3>2. RegTypes' /\ WrittenSoFar' /\ RestUntouched'
      BY <2>1, <3>1 DEF RegTypes, WrittenSoFar, RestUntouched
    <3>3. \A i \in BytesOf(r) : i < n + 1
      BY <2>2, <2>7 DEF BytesOf
    <3>4. \A i \in BytesOf(r) : card_reg[r][i] = Byte(reg_call.value, i)
      BY <2>5, <2>7, <3>3
    <3>5. WholeOnSuccess'
      BY <2>1, <2>7, <3>1, <3>4 DEF WholeOnSuccess
    <3> QED BY <3>2, <3>5
  <2> QED BY <1>4, <2>3, <2>4, <2>6, <2>7 DEF ReadBack
<1> QED BY <1>1, <1>2, <1>3, <1>4 DEF RegNext

\* Success means the whole value is in the card and in the copy, failure that
\* the bytes behind the one that failed are untouched.
LEMMA RegTruth == RegInv => WholeOrPrefix
<1> SUFFICES ASSUME RegInv, reg_call.at = 0
             PROVE  LET r == reg_call.r  last == Width[r] - 1 IN
                    /\ reg_err = "NONE" => /\ \A i \in 0 .. last : card_reg[r][i] = (reg_call.value \div Q^i) % Q
                                           /\ reg_copy = card_reg
                    /\ \A i \in 0 .. last : i > reg_call.next => card_reg[r][i] = reg_old[r][i]
  BY DEF WholeOrPrefix
<1> QED BY DEF RegInv, WholeOnSuccess, RestUntouched, BytesOf, Byte
-----------------------------------------------------------------------------
(* The accesses to the switch: how far the call is, counted by the parts   *)
(* that are left of it, and what each part has brought about.              *)

\* What can be asked of the controller.
IsWord(w) ==
  \/ \E p \in Pages : w = Word("page", TRUE, p)
  \/ \E d \in Half : w = Word("low", TRUE, d) \/ w = Word("high", TRUE, d)
  \/ w = Word("low", FALSE, 0) \/ w = Word("high", FALSE, 0)

Gots == [low : Half \cup {Junk}, high : Half \cup {Junk}]

MiiTypes ==
  /\ mdio.busy \in BOOLEAN /\ IsWord(mdio.now) /\ mdio.page \in Pages /\ mdio.sw \in [Pages -> Values]
  /\ mdio.low \in Half /\ mdio.high \in Half /\ mdio.data \in Half
  /\ DOMAIN mdio = {"busy", "now", "page", "sw", "low", "high", "data"}
  /\ mii.pc \in {"idle", "wait_idle", "wait_done"} /\ mii.kind \in {"read", "write", "wb"}
  /\ mii.r \in Pages /\ mii.v \in Values /\ mii.got \in Gots
  /\ DOMAIN mii = {"pc", "kind", "r", "v", "todo", "got"}
  /\ mii_seen \in [could : [Pages -> SUBSET Values], told : {"none", "ok", "failed"}]

\* The n-th part from the end, and the parts when n of them are left.
Part(n) ==
  IF n = 3 THEN Word("page", TRUE, mii.r)
  ELSE IF mii.kind = "write"
       THEN IF n = 2 THEN Word("low", TRUE, mii.v.low) ELSE Word("high", TRUE, mii.v.high)
       ELSE IF n = 2 THEN Word("low", FALSE, 0) ELSE Word("high", FALSE, 0)

Coming(n) == IF n = 3 THEN <<Part(3), Part(2), Part(1)>>
             ELSE IF n = 2 THEN <<Part(2), Part(1)>> ELSE <<Part(1)>>

\* The controller is done with the part at hand.
Served == mii.pc = "wait_done" /\ ~mdio.busy

\* The part numbered k from the end is over, for the controller.
Over(n, k) == n < k \/ (n = k /\ Served)

Reached(n) ==
  /\ mii.todo = Coming(n)
  /\ mii.pc = "wait_idle" /\ n < 3 => ~mdio.busy
  /\ mii.pc = "wait_done" /\ mdio.busy => mdio.now = Head(mii.todo)
  /\ Over(n, 3) => mdio.page = mii.r
  /\ mii.kind = "write" => /\ Over(n, 2) => mdio.low = mii.v.low
                           /\ Over(n, 1) => mdio.sw[mii.r] = mii.v
  /\ mii.kind # "write" => /\ Over(n, 2) => mdio.high = mdio.sw[mii.r].high
                           /\ n = 2 /\ Served => mdio.data = mdio.sw[mii.r].low
                           /\ n < 2 => mii.got.low = mdio.sw[mii.r].low
                           /\ Over(n, 1) => mdio.data = mdio.sw[mii.r].high

InCall == mii.pc # "idle" => \E n \in 1 .. 3 : Reached(n)

\* Nothing is under way after a success.
AfterSuccess ==
  mii.pc = "idle" /\ mii_seen.told = "ok" =>
    ~mdio.busy /\ mii.kind \in {"read", "write"} /\ MiiTruth

BitKept == mii.kind = "write" /\ mii.got.high # Junk => mii.v.high = mii.got.high

Meant(r) == mii_seen.could[r] \cup (IF mii.kind = "write" /\ mii.r = r THEN {mii.v} ELSE {})

\* What a register is and what it will be after the access under way, also
\* that of a call that has failed, is one of the values it may have.
NothingElse ==
  /\ \A r \in Pages : mdio.sw[r] \in Meant(r)
  /\ mdio.busy /\ mdio.now = Word("high", TRUE, mdio.now.data) =>
       [low |-> mdio.low, high |-> mdio.now.data] \in Meant(mdio.page)

MiiInv == MiiTypes /\ InCall /\ AfterSuccess /\ BitKept /\ NothingElse

\* A call that is made has all of its parts to come.
LEMMA AllComing ==
  /\ mii.kind = "write" => WriteParts(mii.r, mii.v) = Coming(3)
  /\ mii.kind # "write" => ReadParts(mii.r) = Coming(3)
<1>1. Part(3) = Word("page", TRUE, mii.r)
  BY DEF Part
<1>2. mii.kind = "write" => /\ Part(2) = Word("low", TRUE, mii.v.low)
                           /\ Part(1) = Word("high", TRUE, mii.v.high)
  BY DEF Part
<1>3. mii.kind # "write" => Part(2) = Word("low", FALSE, 0) /\ Part(1) = Word("high", FALSE, 0)
  BY DEF Part
<1>4. Coming(3) = <<Part(3), Part(2), Part(1)>>
  BY DEF Coming
<1> QED BY <1>1, <1>2, <1>3, <1>4, Zenon DEF WriteParts, ReadParts

LEMMA ComingTakesTurns ==
  ASSUME NEW n \in 1 .. 3
  PROVE  /\ Head(Coming(n)) = Part(n)
         /\ n > 1 => Len(Coming(n)) > 1 /\ Tail(Coming(n)) = Coming(n - 1)
         /\ n = 1 => ~(Len(Coming(n)) > 1)
<1>1. \A a, b, c : Len(<<a, b, c>>) = 3 /\ Head(<<a, b, c>>) = a /\ Tail(<<a, b, c>>) = <<b, c>>
  OBVIOUS
<1>2. \A a, b : Len(<<a, b>>) = 2 /\ Head(<<a, b>>) = a /\ Tail(<<a, b>>) = <<b>>
  OBVIOUS
<1>3. \A a : Len(<<a>>) = 1 /\ Head(<<a>>) = a
  OBVIOUS
<1>4. CASE n = 3
  BY <1>1, <1>4 DEF Coming
<1>5. CASE n = 2
  BY <1>2, <1>5 DEF Coming
<1>6. CASE n = 1
  BY <1>3, <1>6 DEF Coming
<1> QED BY <1>4, <1>5, <1>6

LEMMA WordsDiffer ==
  \A r1, w1, d1, r2, w2, d2 :
    Word(r1, w1, d1) = Word(r2, w2, d2) <=> r1 = r2 /\ w1 = w2 /\ d1 = d2
BY DEF Word

LEMMA PartsAreWords ==
  ASSUME MiiTypes, NEW n \in 1 .. 3
  PROVE  IsWord(Part(n))
<1>1. mii.v.low \in Half /\ mii.v.high \in Half /\ mii.r \in Pages
  BY DEF MiiTypes, Values
<1>2. \/ Part(n) = Word("page", TRUE, mii.r)
      \/ Part(n) = Word("low", TRUE, mii.v.low) \/ Part(n) = Word("high", TRUE, mii.v.high)
      \/ Part(n) = Word("low", FALSE, 0) \/ Part(n) = Word("high", FALSE, 0)
  BY Zenon DEF Part
<1> QED BY <1>1, <1>2, Zenon DEF IsWord

LEMMA MiiStarts == MiiInit => MiiInv
<1> SUFFICES ASSUME MiiInit PROVE MiiInv
  OBVIOUS
<1>1. Cleared \in Values /\ IsWord(Word("page", TRUE, 0))
  BY MiiAssumption DEF Cleared, Values, IsWord
<1>2. [p \in Pages |-> Cleared] \in [Pages -> Values] /\ [p \in Pages |-> {Cleared}] \in [Pages -> SUBSET Values]
  BY <1>1
<1>3. /\ mdio.busy = FALSE /\ mdio.now = Word("page", TRUE, 0) /\ mdio.page = 0
      /\ mdio.sw = [p \in Pages |-> Cleared] /\ mdio.low = 0 /\ mdio.high = 0 /\ mdio.data = 0
      /\ DOMAIN mdio = {"busy", "now", "page", "sw", "low", "high", "data"}
  BY DEF MiiInit
<1>4. mii_seen \in [could : [Pages -> SUBSET Values], told : {"none", "ok", "failed"}]
  BY <1>2 DEF MiiInit
<1>5. [low |-> Junk, high |-> Junk] \in Gots
  BY DEF Gots
<1>6. /\ mii.pc = "idle" /\ mii.kind = "read" /\ mii.r = 0 /\ mii.v = Cleared
      /\ mii.got = [low |-> Junk, high |-> Junk] /\ DOMAIN mii = {"pc", "kind", "r", "v", "todo", "got"}
  BY DEF MiiInit
<1>7. MiiTypes
  BY <1>1, <1>2, <1>3, <1>4, <1>5, <1>6, MiiAssumption DEF MiiTypes
<1>8. mdio.busy = FALSE /\ mdio.sw = [p \in Pages |-> Cleared] /\ mii_seen.could = [p \in Pages |-> {Cleared}]
      /\ mii_seen.told = "none"
  BY DEF MiiInit
<1>9. NothingElse
  BY <1>6, <1>8 DEF NothingElse, Meant
<1> QED BY <1>6, <1>7, <1>8, <1>9 DEF MiiInv, InCall, AfterSuccess, BitKept

\* What the controller does, by the word it is given.
LEMMA ServeDoes ==
  ASSUME MiiTypes, Serve
  PROVE  /\ mdio.busy /\ mdio'.busy = FALSE /\ mdio'.now = mdio.now
         /\ DOMAIN mdio' = {"busy", "now", "page", "sw", "low", "high", "data"}
         /\ \/ /\ \E p \in Pages : mdio.now = Word("page", TRUE, p) /\ mdio'.page = p
               /\ mdio'.sw = mdio.sw /\ mdio'.low = mdio.low /\ mdio'.high = mdio.high
               /\ mdio'.data = mdio.data
            \/ /\ \E d \in Half : mdio.now = Word("low", TRUE, d) /\ mdio'.low = d
               /\ mdio'.sw = mdio.sw /\ mdio'.page = mdio.page /\ mdio'.high = mdio.high
               /\ mdio'.data = mdio.data
            \/ /\ mdio.now = Word("low", FALSE, 0)
               /\ mdio'.data = mdio.sw[mdio.page].low /\ mdio'.high = mdio.sw[mdio.page].high
               /\ mdio'.sw = mdio.sw /\ mdio'.page = mdio.page /\ mdio'.low = mdio.low
            \/ /\ \E d \in Half : /\ mdio.now = Word("high", TRUE, d)
                                  /\ mdio'.sw = [mdio.sw EXCEPT ![mdio.page] = [low |-> mdio.low, high |-> d]]
               /\ mdio'.page = mdio.page /\ mdio'.low = mdio.low /\ mdio'.high = mdio.high
               /\ mdio'.data = mdio.data
            \/ /\ mdio.now = Word("high", FALSE, 0) /\ mdio'.data = mdio.high
               /\ mdio'.sw = mdio.sw /\ mdio'.page = mdio.page /\ mdio'.low = mdio.low
               /\ mdio'.high = mdio.high
<1> DEFINE w == mdio.now
           s == mdio.sw[mdio.page]
           idle == [mdio EXCEPT !.busy = FALSE]
<1>1. mdio.busy
  BY DEF Serve
<1>2. /\ w.reg = "page" => mdio' = [idle EXCEPT !.page = w.data]
      /\ w.reg = "low" /\ w.write = TRUE => mdio' = [idle EXCEPT !.low = w.data]
      /\ w.reg = "low" /\ w.write = FALSE => mdio' = [idle EXCEPT !.data = s.low, !.high = s.high]
      /\ w.reg = "high" /\ w.write = TRUE =>
           mdio' = [idle EXCEPT !.sw[mdio.page] = [low |-> mdio.low, high |-> w.data]]
      /\ w.reg = "high" /\ w.write = FALSE => mdio' = [idle EXCEPT !.data = mdio.high]
  BY DEF Serve
<1>3. DOMAIN mdio = {"busy", "now", "page", "sw", "low", "high", "data"} /\ IsWord(w)
  BY DEF MiiTypes
<1>4. /\ idle.busy = FALSE /\ idle.now = mdio.now /\ idle.page = mdio.page /\ idle.sw = mdio.sw
      /\ idle.low = mdio.low /\ idle.high = mdio.high /\ idle.data = mdio.data
      /\ DOMAIN idle = {"busy", "now", "page", "sw", "low", "high", "data"}
  BY <1>3
<1> HIDE DEF idle, s, w
<1>5. ASSUME NEW p \in Pages, w = Word("page", TRUE, p) PROVE mdio' = [idle EXCEPT !.page = p]
  <2>1. w.reg = "page" /\ w.data = p
    BY <1>5 DEF Word
  <2> QED BY <1>2, <2>1
<1>6. ASSUME NEW d \in Half, w = Word("low", TRUE, d) PROVE mdio' = [idle EXCEPT !.low = d]
  <2>1. w.reg = "low" /\ w.write = TRUE /\ w.data = d
    BY <1>6 DEF Word
  <2> QED BY <1>2, <2>1
<1>7. ASSUME w = Word("low", FALSE, 0) PROVE mdio' = [idle EXCEPT !.data = s.low, !.high = s.high]
  <2>1. w.reg = "low" /\ w.write = FALSE
    BY <1>7 DEF Word
  <2> QED BY <1>2, <2>1
<1>8. ASSUME NEW d \in Half, w = Word("high", TRUE, d)
      PROVE mdio' = [idle EXCEPT !.sw[mdio.page] = [low |-> mdio.low, high |-> d]]
  <2>1. w.reg = "high" /\ w.write = TRUE /\ w.data = d
    BY <1>8 DEF Word
  <2> QED BY <1>2, <2>1
<1>9. ASSUME w = Word("high", FALSE, 0) PROVE mdio' = [idle EXCEPT !.data = mdio.high]
  <2>1. w.reg = "high" /\ w.write = FALSE
    BY <1>9 DEF Word
  <2> QED BY <1>2, <2>1
<1>10. CASE \E p \in Pages : w = Word("page", TRUE, p)
  <2>1. PICK p \in Pages : w = Word("page", TRUE, p)
    BY <1>10
  <2>2. mdio' = [idle EXCEPT !.page = p]
    BY <2>1, <1>5
  <2>3. /\ mdio'.busy = FALSE /\ mdio'.now = mdio.now /\ mdio'.page = p /\ mdio'.sw = mdio.sw
        /\ mdio'.low = mdio.low /\ mdio'.high = mdio.high /\ mdio'.data = mdio.data
        /\ DOMAIN mdio' = {"busy", "now", "page", "sw", "low", "high", "data"}
    BY <2>2, <1>4
  <2> QED BY <1>1, <2>1, <2>3 DEF w
<1>11. CASE \E d \in Half : w = Word("low", TRUE, d)
  <2>1. PICK d \in Half : w = Word("low", TRUE, d)
    BY <1>11
  <2>2. mdio' = [idle EXCEPT !.low = d]
    BY <2>1, <1>6
  <2>3. /\ mdio'.busy = FALSE /\ mdio'.now = mdio.now /\ mdio'.low = d /\ mdio'.sw = mdio.sw
        /\ mdio'.page = mdio.page /\ mdio'.high = mdio.high /\ mdio'.data = mdio.data
        /\ DOMAIN mdio' = {"busy", "now", "page", "sw", "low", "high", "data"}
    BY <2>2, <1>4
  <2> QED BY <1>1, <2>1, <2>3 DEF w
<1>12. CASE w = Word("low", FALSE, 0)
  <2>1. mdio' = [idle EXCEPT !.data = s.low, !.high = s.high]
    BY <1>12, <1>7
  <2>2. /\ mdio'.busy = FALSE /\ mdio'.now = mdio.now /\ mdio'.low = mdio.low /\ mdio'.sw = mdio.sw
        /\ mdio'.page = mdio.page /\ mdio'.high = s.high /\ mdio'.data = s.low
        /\ DOMAIN mdio' = {"busy", "now", "page", "sw", "low", "high", "data"}
    BY <2>1, <1>4
  <2> QED BY <1>1, <1>12, <2>2 DEF w, s
<1>13. CASE \E d \in Half : w = Word("high", TRUE, d)
  <2>1. PICK d \in Half : w = Word("high", TRUE, d)
    BY <1>13
  <2>2. mdio' = [idle EXCEPT !.sw[mdio.page] = [low |-> mdio.low, high |-> d]]
    BY <2>1, <1>8
  <2>3. /\ mdio'.busy = FALSE /\ mdio'.now = mdio.now /\ mdio'.low = mdio.low
        /\ mdio'.sw = [mdio.sw EXCEPT ![mdio.page] = [low |-> mdio.low, high |-> d]]
        /\ mdio'.page = mdio.page /\ mdio'.high = mdio.high /\ mdio'.data = mdio.data
        /\ DOMAIN mdio' = {"busy", "now", "page", "sw", "low", "high", "data"}
    BY <2>2, <1>4
  <2> QED BY <1>1, <2>1, <2>3 DEF w
<1>14. CASE w = Word("high", FALSE, 0)
  <2>1. mdio' = [idle EXCEPT !.data = mdio.high]
    BY <1>14, <1>9
  <2>2. /\ mdio'.busy = FALSE /\ mdio'.now = mdio.now /\ mdio'.low = mdio.low /\ mdio'.sw = mdio.sw
        /\ mdio'.page = mdio.page /\ mdio'.high = mdio.high /\ mdio'.data = mdio.high
        /\ DOMAIN mdio' = {"busy", "now", "page", "sw", "low", "high", "data"}
    BY <2>1, <1>4
  <2> QED BY <1>1, <1>14, <2>2 DEF w
<1> QED BY <1>3, <1>10, <1>11, <1>12, <1>13, <1>14 DEF IsWord

\* A step that leaves the call what it is leaves its parts what they are.
LEMMA SameCall ==
  ASSUME mii'.kind = mii.kind, mii'.r = mii.r, mii'.v = mii.v
  PROVE  \A n : Part(n)' = Part(n) /\ Coming(n)' = Coming(n)
BY DEF Part, Coming

\* How far a call is, when the controller has nothing to do.
LEMMA BeginKeeps ==
  ASSUME MiiInv, NEW kind \in {"read", "write", "wb"}, NEW r \in Pages, NEW v \in Writes,
         BeginMii(kind, r, v)
  PROVE  MiiInv'
<1>1. /\ mdio' = mdio /\ mii.pc = "idle"
      /\ mii' = [pc |-> "wait_idle", kind |-> kind, r |-> r, v |-> v,
                 todo |-> IF kind = "write" THEN WriteParts(r, v) ELSE ReadParts(r),
                 got |-> [low |-> Junk, high |-> Junk]]
      /\ mii_seen' = [could |-> [p \in Pages |-> Possible(p)], told |-> "none"]
  BY DEF BeginMii
<1>2. /\ mii'.pc = "wait_idle" /\ mii'.kind = kind /\ mii'.r = r /\ mii'.v = v
      /\ mii'.todo = (IF kind = "write" THEN WriteParts(r, v) ELSE ReadParts(r))
      /\ mii'.got = [low |-> Junk, high |-> Junk]
      /\ DOMAIN mii' = {"pc", "kind", "r", "v", "todo", "got"}
  BY <1>1
<1>3. mii_seen'.could = [p \in Pages |-> Possible(p)] /\ mii_seen'.told = "none"
  BY <1>1
<1>4. \A p \in Pages : Possible(p) \subseteq Values /\ mdio.sw[p] \in Possible(p)
  <2> TAKE p \in Pages
  <2>1. mdio.sw[p] \in Values /\ mdio.low \in Half
    BY DEF MiiInv, MiiTypes
  <2>2. ASSUME mdio.now = Word("high", TRUE, mdio.now.data) PROVE mdio.now.data \in Half
    <3>1. IsWord(mdio.now)
      BY DEF MiiInv, MiiTypes
    <3>2. mdio.now.reg = "high" /\ mdio.now.write = TRUE
      BY <2>2 DEF Word
    <3>3. PICK d \in Half : mdio.now = Word("high", TRUE, d)
      <4>1. \A p1 \in Pages : mdio.now # Word("page", TRUE, p1)
        BY <3>2 DEF Word
      <4>2. \A d \in Half : mdio.now # Word("low", TRUE, d)
        BY <3>2 DEF Word
      <4>3. mdio.now # Word("low", FALSE, 0) /\ mdio.now # Word("high", FALSE, 0)
        BY <3>2 DEF Word
      <4> QED BY <3>1, <4>1, <4>2, <4>3, Zenon DEF IsWord
    <3> QED BY <3>3 DEF Word
  <2>3. Possible(p) \subseteq {mdio.sw[p]} \cup {[low |-> mdio.low, high |-> mdio.now.data]}
    BY DEF Possible
  <2>4. mdio.sw[p] \in Possible(p)
    BY DEF Possible
  <2>5. CASE mdio.now = Word("high", TRUE, mdio.now.data)
    BY <2>1, <2>2, <2>3, <2>4, <2>5 DEF Values
  <2>6. CASE ~(mdio.now = Word("high", TRUE, mdio.now.data))
    BY <2>1, <2>4, <2>6 DEF Possible
  <2> QED BY <2>5, <2>6
<1>5. MiiTypes'
  <2>1. [low |-> Junk, high |-> Junk] \in Gots
    BY DEF Gots
  <2>2. v \in Values
    BY MiiAssumption
  <2>3. [p \in Pages |-> Possible(p)] \in [Pages -> SUBSET Values]
    BY <1>4
  <2>4. mii_seen' \in [could : [Pages -> SUBSET Values], told : {"none", "ok", "failed"}]
    BY <1>1, <2>3
  <2> QED BY <1>1, <1>2, <2>1, <2>2, <2>4 DEF MiiInv, MiiTypes
<1>6. InCall'
  <2>1. (mii.todo = Coming(3))'
    <3>1. (/\ mii.kind = "write" => WriteParts(mii.r, mii.v) = Coming(3)
           /\ mii.kind # "write" => ReadParts(mii.r) = Coming(3))'
      BY AllComing, PTL
    <3> QED BY <1>2, <3>1
  <2>2. Reached(3)'
    BY <1>2, <2>1 DEF Reached, Over, Served
  <2> QED BY <2>2 DEF InCall
<1>7. BitKept'
  BY <1>2 DEF BitKept
<1>8. NothingElse'
  <2>1. \A p \in Pages : Possible(p) \subseteq Meant(p)'
    BY <1>3 DEF Meant
  <2>2. \A p \in Pages : mdio'.sw[p] \in Meant(p)'
    BY <1>1, <1>4, <2>1
  <2>3. ASSUME mdio.busy, mdio.now = Word("high", TRUE, mdio.now.data)
        PROVE  [low |-> mdio.low, high |-> mdio.now.data] \in Possible(mdio.page)
    BY <2>3 DEF Possible
  <2>4. mdio.page \in Pages
    BY DEF MiiInv, MiiTypes
  <2> QED BY <1>1, <2>1, <2>2, <2>3, <2>4 DEF NothingElse
<1>9. AfterSuccess'
  BY <1>2 DEF AfterSuccess
<1> QED BY <1>5, <1>6, <1>7, <1>8, <1>9 DEF MiiInv

\* The call under way, and how many of its parts are left.
LEMMA WhereTheCallIs ==
  ASSUME MiiInv, mii.pc # "idle"
  PROVE  \E n \in 1 .. 3 : Reached(n) /\ mii.todo = Coming(n) /\ Head(mii.todo) = Part(n)
<1>1. PICK n \in 1 .. 3 : Reached(n)
  BY DEF MiiInv, InCall
<1>2. mii.todo = Coming(n)
  BY <1>1 DEF Reached
<1>3. Head(Coming(n)) = Part(n)
  BY ComingTakesTurns
<1> QED BY <1>1, <1>2, <1>3

LEMMA IssueKeeps == ASSUME MiiInv, Issue PROVE MiiInv'
<1>1. /\ mii.pc = "wait_idle" /\ ~mdio.busy /\ mii_seen' = mii_seen
      /\ mdio' = [mdio EXCEPT !.busy = TRUE, !.now = Head(mii.todo)]
      /\ mii' = [mii EXCEPT !.pc = "wait_done"]
  BY DEF Issue
<1>2. PICK n \in 1 .. 3 : Reached(n) /\ mii.todo = Coming(n) /\ Head(mii.todo) = Part(n)
  BY <1>1, WhereTheCallIs
<1>3. /\ mdio'.busy = TRUE /\ mdio'.now = Part(n) /\ mdio'.page = mdio.page /\ mdio'.sw = mdio.sw
      /\ mdio'.low = mdio.low /\ mdio'.high = mdio.high /\ mdio'.data = mdio.data
      /\ DOMAIN mdio' = {"busy", "now", "page", "sw", "low", "high", "data"}
  BY <1>1, <1>2 DEF MiiInv, MiiTypes
<1>4. /\ mii'.pc = "wait_done" /\ mii'.kind = mii.kind /\ mii'.r = mii.r /\ mii'.v = mii.v
      /\ mii'.todo = mii.todo /\ mii'.got = mii.got
      /\ DOMAIN mii' = {"pc", "kind", "r", "v", "todo", "got"}
  BY <1>1 DEF MiiInv, MiiTypes
<1>5. MiiTypes'
  BY <1>1, <1>3, <1>4, PartsAreWords DEF MiiInv, MiiTypes
<1>6. Coming(n)' = Coming(n)
  BY <1>4, SameCall
<1>7. /\ ~Served /\ ~Served'
      /\ \A k \in 1 .. 3 : Over(n, k)' => Over(n, k)
  BY <1>1, <1>3, <1>4 DEF Served, Over
<1>8. Reached(n)'
  <2>1. mii'.pc = "wait_done" /\ mdio'.busy => mdio'.now = Head(mii'.todo)
    BY <1>2, <1>3, <1>4
  <2>2. /\ Over(n, 3)' => mdio'.page = mii'.r
        /\ mii'.kind = "write" => /\ Over(n, 2)' => mdio'.low = mii'.v.low
                                  /\ Over(n, 1)' => mdio'.sw[mii'.r] = mii'.v
        /\ mii'.kind # "write" => /\ Over(n, 2)' => mdio'.high = mdio'.sw[mii'.r].high
                                  /\ n < 2 => mii'.got.low = mdio'.sw[mii'.r].low
                                  /\ Over(n, 1)' => mdio'.data = mdio'.sw[mii'.r].high
    BY <1>2, <1>3, <1>4, <1>7 DEF Reached
  <2>3. mii'.todo = Coming(n)'
    BY <1>2, <1>4, <1>6
  <2> QED BY <1>4, <1>7, <2>1, <2>2, <2>3 DEF Reached
<1>9. InCall'
  BY <1>8 DEF InCall
<1>10. BitKept' /\ AfterSuccess'
  BY <1>4 DEF MiiInv, BitKept, AfterSuccess
<1>11. NothingElse'
  <2>1. \A p \in Pages : Meant(p)' = Meant(p)
    BY <1>1, <1>4 DEF Meant
  <2>2. mdio.page \in Pages /\ mdio.page \in Pages
    BY DEF MiiInv, MiiTypes
  <2>3. ASSUME Part(n) = Word("high", TRUE, Part(n).data)
        PROVE  [low |-> mdio.low, high |-> Part(n).data] \in Meant(mdio.page)
    <3>1. Part(n).reg = "high" /\ Part(n).write = TRUE
      BY <2>3 DEF Word
    <3>2. n = 1 /\ mii.kind = "write"
      <4>1. CASE n = 3
        BY <3>1, <4>1 DEF Part, Word
      <4>2. CASE n = 2
        BY <3>1, <4>2 DEF Part, Word
      <4>3. CASE n = 1 /\ mii.kind # "write"
        BY <3>1, <4>3 DEF Part, Word
      <4> QED BY <4>1, <4>2, <4>3
    <3>3. Part(n).data = mii.v.high
      BY <3>2 DEF Part, Word
    <3>4. mdio.low = mii.v.low /\ mdio.page = mii.r
      BY <1>2, <3>2 DEF Reached, Over
    <3>5. mii.v = [low |-> mii.v.low, high |-> mii.v.high]
      BY DEF MiiInv, MiiTypes, Values
    <3> QED BY <3>2, <3>3, <3>4, <3>5 DEF Meant
  <2> QED BY <1>3, <2>1, <2>2, <2>3 DEF MiiInv, NothingElse
<1> QED BY <1>5, <1>9, <1>10, <1>11 DEF MiiInv

LEMMA TimesOutKeeps == ASSUME MiiInv, TimesOut PROVE MiiInv'
<1>1. /\ mdio' = mdio /\ mii' = [mii EXCEPT !.pc = "idle", !.todo = <<>>]
      /\ mii_seen' = [mii_seen EXCEPT !.told = "failed"]
  BY DEF TimesOut
<1>2. /\ mii'.pc = "idle" /\ mii'.kind = mii.kind /\ mii'.r = mii.r /\ mii'.v = mii.v
      /\ mii'.got = mii.got /\ DOMAIN mii' = {"pc", "kind", "r", "v", "todo", "got"}
  BY <1>1 DEF MiiInv, MiiTypes
<1>3. mii_seen'.could = mii_seen.could /\ mii_seen'.told = "failed"
  BY <1>1 DEF MiiInv, MiiTypes
<1>4. mii_seen' \in [could : [Pages -> SUBSET Values], told : {"none", "ok", "failed"}]
  BY <1>1 DEF MiiInv, MiiTypes
<1>5. MiiTypes'
  BY <1>1, <1>2, <1>4 DEF MiiInv, MiiTypes
<1>6. NothingElse'
  <2>1. \A p \in Pages : Meant(p)' = Meant(p)
    BY <1>2, <1>3 DEF Meant
  <2>2. mdio.page \in Pages
    BY DEF MiiInv, MiiTypes
  <2> QED BY <1>1, <2>1, <2>2 DEF MiiInv, NothingElse
<1> QED BY <1>2, <1>3, <1>5, <1>6 DEF MiiInv, InCall, BitKept, AfterSuccess

LEMMA DistinctWords ==
  /\ \A a, b : Word("page", TRUE, a) # Word("low", TRUE, b) /\ Word("page", TRUE, a) # Word("high", TRUE, b)
  /\ \A a, b : Word("low", TRUE, a) # Word("high", TRUE, b)
  /\ \A a, h : Word("page", TRUE, a) # Word(h, FALSE, 0)
  /\ \A a, h : Word("low", TRUE, a) # Word(h, FALSE, 0) /\ Word("high", TRUE, a) # Word(h, FALSE, 0)
  /\ Word("low", FALSE, 0) # Word("high", FALSE, 0)
  /\ \A a, b : (Word("page", TRUE, a) = Word("page", TRUE, b) => a = b)
  /\ \A a, b : (Word("low", TRUE, a) = Word("low", TRUE, b) => a = b)
  /\ \A a, b : (Word("high", TRUE, a) = Word("high", TRUE, b) => a = b)
<1>1. \A a, b : Word("page", TRUE, a) # Word("low", TRUE, b) /\ Word("page", TRUE, a) # Word("high", TRUE, b)
  BY DEF Word
<1>2. \A a, b : Word("low", TRUE, a) # Word("high", TRUE, b)
  BY DEF Word
<1>3. \A a, h : Word("page", TRUE, a) # Word(h, FALSE, 0)
  BY DEF Word
<1>4. \A a, h : Word("low", TRUE, a) # Word(h, FALSE, 0) /\ Word("high", TRUE, a) # Word(h, FALSE, 0)
  BY DEF Word
<1>5. Word("low", FALSE, 0) # Word("high", FALSE, 0)
  BY DEF Word
<1>6. \A a, b : (Word("page", TRUE, a) = Word("page", TRUE, b) => a = b)
  BY DEF Word
<1>7. \A a, b : (Word("low", TRUE, a) = Word("low", TRUE, b) => a = b)
  BY DEF Word
<1>8. \A a, b : (Word("high", TRUE, a) = Word("high", TRUE, b) => a = b)
  BY DEF Word
<1> QED BY <1>1, <1>2, <1>3, <1>4, <1>5, <1>6, <1>7, <1>8

\* A part is done once the controller has served it.
LEMMA ServedPart ==
  ASSUME MiiInv, Serve, mii' = mii, NEW n \in 1 .. 3, Reached(n), mii.pc = "wait_done"
  PROVE  Reached(n)'
<1>1. MiiTypes
  BY DEF MiiInv
<1>2. mdio.busy /\ mdio'.busy = FALSE
  BY <1>1, ServeDoes
<1>3. mdio.now = Part(n)
  BY <1>2, ComingTakesTurns DEF Reached
<1>4. /\ mii'.pc = "wait_done" /\ mii'.kind = mii.kind /\ mii'.r = mii.r /\ mii'.v = mii.v
      /\ mii'.todo = mii.todo /\ mii'.got = mii.got
  OBVIOUS
<1>5. mii'.todo = Coming(n)'
  BY <1>4, SameCall DEF Reached
<1>6. mii.v = [low |-> mii.v.low, high |-> mii.v.high] /\ mii.r \in Pages
  BY <1>1 DEF MiiTypes, Values
<1>7. CASE n = 3
  <2>1. mdio.now = Word("page", TRUE, mii.r)
    BY <1>3, <1>7 DEF Part
  <2>2. mdio'.page = mii.r
    BY <1>1, <2>1, ServeDoes, DistinctWords, ZenonT(60)
  <2>3. ~Over(n, 2)' /\ ~Over(n, 1)' /\ ~(n = 2) /\ ~(n < 2)
    BY <1>7 DEF Over
  <2> QED BY <1>2, <1>4, <1>5, <2>2, <2>3 DEF Reached
<1>8. CASE n = 2 /\ mii.kind = "write"
  <2>1. mdio.now = Word("low", TRUE, mii.v.low)
    BY <1>3, <1>8 DEF Part
  <2>2. mdio'.page = mdio.page /\ mdio'.low = mii.v.low
    BY <1>1, <2>1, ServeDoes, DistinctWords, ZenonT(60)
  <2>3. mdio.page = mii.r /\ ~Over(n, 1)'
    BY <1>8 DEF Reached, Over
  <2> QED BY <1>2, <1>4, <1>5, <1>8, <2>2, <2>3 DEF Reached
<1>9. CASE n = 2 /\ mii.kind # "write"
  <2>1. mdio.now = Word("low", FALSE, 0)
    BY <1>3, <1>9 DEF Part
  <2>2. /\ mdio'.page = mdio.page /\ mdio'.sw = mdio.sw
        /\ mdio'.data = mdio.sw[mdio.page].low /\ mdio'.high = mdio.sw[mdio.page].high
    BY <1>1, <2>1, ServeDoes, DistinctWords, ZenonT(60)
  <2>3. mdio.page = mii.r /\ ~Over(n, 1)' /\ ~(n < 2)
    BY <1>9 DEF Reached, Over
  <2> QED BY <1>2, <1>4, <1>5, <1>9, <2>2, <2>3 DEF Reached
<1>10. CASE n = 1 /\ mii.kind = "write"
  <2>1. mdio.now = Word("high", TRUE, mii.v.high)
    BY <1>3, <1>10 DEF Part
  <2>2. /\ mdio'.page = mdio.page /\ mdio'.low = mdio.low
        /\ mdio'.sw = [mdio.sw EXCEPT ![mdio.page] = [low |-> mdio.low, high |-> mii.v.high]]
    BY <1>1, <2>1, ServeDoes, DistinctWords, ZenonT(60)
  <2>3. mdio.page = mii.r /\ mdio.low = mii.v.low
    BY <1>10 DEF Reached, Over
  <2>4. mdio'.sw[mii.r] = mii.v
    BY <1>1, <1>6, <2>2, <2>3 DEF MiiTypes
  <2> QED BY <1>2, <1>4, <1>5, <1>10, <2>2, <2>3, <2>4 DEF Reached
<1>11. CASE n = 1 /\ mii.kind # "write"
  <2>1. mdio.now = Word("high", FALSE, 0)
    BY <1>3, <1>11 DEF Part
  <2>2. /\ mdio'.page = mdio.page /\ mdio'.sw = mdio.sw /\ mdio'.high = mdio.high
        /\ mdio'.data = mdio.high
    BY <1>1, <2>1, ServeDoes, DistinctWords, ZenonT(200)
  <2>3. /\ mdio.page = mii.r /\ mdio.high = mdio.sw[mii.r].high
        /\ mii.got.low = mdio.sw[mii.r].low
    BY <1>11 DEF Reached, Over
  <2> QED BY <1>2, <1>4, <1>5, <1>11, <2>2, <2>3 DEF Reached
<1> QED BY <1>7, <1>8, <1>9, <1>10, <1>11

LEMMA ServeKeeps == ASSUME MiiInv, Serve PROVE MiiInv'
<1>1. MiiTypes /\ mii' = mii /\ mii_seen' = mii_seen
  BY DEF MiiInv, Serve
<1>2. mdio.busy /\ mdio'.busy = FALSE /\ mdio'.now = mdio.now
  BY <1>1, ServeDoes
<1>3. mdio.page \in Pages /\ mdio.low \in Half /\ \A p \in Pages : mdio.sw[p] \in Values
  BY <1>1 DEF MiiTypes
<1>4. \A p \in Pages : mdio.sw[p].low \in Half /\ mdio.sw[p].high \in Half
  BY <1>3 DEF Values
<1>5. \A d \in Half : [mdio.sw EXCEPT ![mdio.page] = [low |-> mdio.low, high |-> d]] \in [Pages -> Values]
  BY <1>1, <1>3 DEF MiiTypes, Values
<1>6. MiiTypes'
  <2>1. /\ mdio.page \in Pages /\ mdio.low \in Half /\ mdio.high \in Half /\ mdio.data \in Half
        /\ mdio.sw \in [Pages -> Values]
        /\ mdio.sw[mdio.page].low \in Half /\ mdio.sw[mdio.page].high \in Half
    BY <1>1, <1>3, <1>4 DEF MiiTypes
  <2>3. /\ mdio'.page \in Pages /\ mdio'.low \in Half /\ mdio'.high \in Half /\ mdio'.data \in Half
        /\ mdio'.sw \in [Pages -> Values]
    BY <1>1, <1>5, <2>1, ServeDoes, ZenonT(60)
  <2>2. DOMAIN mdio' = {"busy", "now", "page", "sw", "low", "high", "data"}
    BY <1>1, ServeDoes
  <2> QED BY <1>1, <1>2, <2>2, <2>3 DEF MiiTypes
<1>7. InCall'
  <2>1. CASE mii.pc = "idle"
    BY <1>1, <2>1 DEF InCall
  <2>2. CASE mii.pc = "wait_done"
    BY <1>1, <2>2, ServedPart DEF MiiInv, InCall
  <2>3. CASE mii.pc = "wait_idle"
    <3>1. PICK n \in 1 .. 3 : Reached(n)
      BY <2>3 DEF MiiInv, InCall
    <3>2. n = 3
      BY <1>2, <2>3, <3>1 DEF Reached
    <3>3. mii.todo = Coming(n)'
      BY <1>1, <3>1, SameCall DEF Reached
    <3>4. Reached(n)'
      BY <1>1, <2>3, <3>2, <3>3 DEF Reached, Over, Served
    <3> QED BY <3>4 DEF InCall
  <2> QED BY <1>1, <2>1, <2>2, <2>3 DEF MiiTypes
<1>8. AfterSuccess' /\ BitKept'
  BY <1>1, <1>2 DEF MiiInv, AfterSuccess, BitKept
<1>9. NothingElse'
  <2>1. \A p \in Pages : Meant(p)' = Meant(p)
    BY <1>1 DEF Meant
  <2>2. CASE mdio'.sw = mdio.sw
    BY <1>2, <2>1, <2>2 DEF MiiInv, NothingElse
  <2>3. CASE \E d \in Half : /\ mdio.now = Word("high", TRUE, d)
                             /\ mdio'.sw = [mdio.sw EXCEPT ![mdio.page] = [low |-> mdio.low, high |-> d]]
    <3>1. PICK d \in Half : /\ mdio.now = Word("high", TRUE, d)
                            /\ mdio'.sw = [mdio.sw EXCEPT ![mdio.page] = [low |-> mdio.low, high |-> d]]
      BY <2>3
    <3>2. mdio.now.data = d
      BY <3>1 DEF Word
    <3>3. [low |-> mdio.low, high |-> d] \in Meant(mdio.page)
      BY <1>2, <3>1, <3>2 DEF MiiInv, NothingElse
    <3>4. mdio'.sw[mdio.page] = [low |-> mdio.low, high |-> d]
      BY <1>1, <1>3, <3>1 DEF MiiTypes
    <3>5. \A p \in Pages : p # mdio.page => mdio'.sw[p] = mdio.sw[p]
      BY <1>1, <3>1 DEF MiiTypes
    <3>6. \A p \in Pages : mdio'.sw[p] \in Meant(p)
      BY <3>3, <3>4, <3>5 DEF MiiInv, NothingElse
    <3> QED BY <1>2, <2>1, <3>6 DEF NothingElse
  <2> QED BY <1>1, <2>2, <2>3, ServeDoes
<1> QED BY <1>6, <1>7, <1>8, <1>9 DEF MiiInv

\* What the variables of a read hold after each part.
LEMMA GotIs ==
  ASSUME MiiTypes, NEW n \in 1 .. 3, Head(mii.todo) = Part(n)
  PROVE  /\ Got \in Gots
         /\ n = 3 \/ mii.kind = "write" => Got = mii.got
         /\ n = 2 /\ mii.kind # "write" => Got.low = mdio.data /\ Got.high = mii.got.high
         /\ n = 1 /\ mii.kind # "write" => Got.high = mdio.data /\ Got.low = mii.got.low
<1>1. /\ mii.got \in Gots /\ mdio.data \in Half
      /\ mii.got = [low |-> mii.got.low, high |-> mii.got.high]
  BY DEF MiiTypes, Gots
<1>2. /\ [mii.got EXCEPT !["low"] = mdio.data] = [low |-> mdio.data, high |-> mii.got.high]
      /\ [mii.got EXCEPT !["high"] = mdio.data] = [low |-> mii.got.low, high |-> mdio.data]
  BY <1>1
<1>3. mii.got.low \in Half \cup {Junk} /\ mii.got.high \in Half \cup {Junk}
  BY <1>1 DEF Gots
<1>4. CASE n = 3 \/ mii.kind = "write"
  <2>1. Part(n).write = TRUE
    BY <1>4 DEF Part, Word
  <2>2. Got = mii.got
    BY <2>1 DEF Got
  <2> QED BY <1>1, <1>4, <2>2
<1>5. CASE n = 2 /\ mii.kind # "write"
  <2>1. Part(n).write = FALSE /\ Part(n).reg = "low"
    BY <1>5 DEF Part, Word
  <2>2. Got = [mii.got EXCEPT !["low"] = mdio.data]
    BY <2>1 DEF Got
  <2>3. Got = [low |-> mdio.data, high |-> mii.got.high]
    BY <1>2, <2>2
  <2> QED BY <1>1, <1>3, <1>5, <2>3 DEF Gots
<1>6. CASE n = 1 /\ mii.kind # "write"
  <2>1. Part(n).write = FALSE /\ Part(n).reg = "high"
    BY <1>6 DEF Part, Word
  <2>2. Got = [mii.got EXCEPT !["high"] = mdio.data]
    BY <2>1 DEF Got
  <2>3. Got = [low |-> mii.got.low, high |-> mdio.data]
    BY <1>2, <2>2
  <2> QED BY <1>1, <1>3, <1>6, <2>3 DEF Gots
<1> QED BY <1>4, <1>5, <1>6

\* One part more is done.
LEMMA NextPart ==
  ASSUME MiiInv, NEW n \in {2, 3}, Reached(n), mii.pc = "wait_done", ~mdio.busy, mdio' = mdio,
         mii' = [mii EXCEPT !.pc = "wait_idle", !.todo = Tail(@), !.got = Got], mii_seen' = mii_seen
  PROVE  MiiInv'
<1>1. MiiTypes /\ n \in 1 .. 3
  BY DEF MiiInv
<1>2. mii.todo = Coming(n) /\ Head(mii.todo) = Part(n) /\ Tail(mii.todo) = Coming(n - 1)
  BY <1>1, ComingTakesTurns DEF Reached
<1>3. /\ mii'.pc = "wait_idle" /\ mii'.kind = mii.kind /\ mii'.r = mii.r /\ mii'.v = mii.v
      /\ mii'.todo = Coming(n - 1) /\ mii'.got = Got
      /\ DOMAIN mii' = {"pc", "kind", "r", "v", "todo", "got"}
  BY <1>1, <1>2 DEF MiiTypes
<1>4. Got \in Gots /\ (mii.kind = "write" => Got = mii.got)
      /\ (n = 2 /\ mii.kind # "write" => Got.low = mdio.data)
  BY <1>1, <1>2, GotIs
<1>5. MiiTypes'
  BY <1>1, <1>3, <1>4 DEF MiiTypes
<1>6. mii'.todo = Coming(n - 1)'
  BY <1>3, SameCall
<1>7. /\ Served /\ ~Served'
      /\ \A k \in 1 .. 3 : Over(n - 1, k)' => Over(n, k)
  BY <1>3 DEF Served, Over
<1>8. Reached(n - 1)'
  <2>1. /\ Over(n - 1, 3)' => mdio'.page = mii'.r
        /\ mii'.kind = "write" => /\ Over(n - 1, 2)' => mdio'.low = mii'.v.low
                                  /\ Over(n - 1, 1)' => mdio'.sw[mii'.r] = mii'.v
    BY <1>3, <1>7 DEF Reached
  <2>2. mii'.kind # "write" => /\ Over(n - 1, 2)' => mdio'.high = mdio'.sw[mii'.r].high
                               /\ Over(n - 1, 1)' => mdio'.data = mdio'.sw[mii'.r].high
    BY <1>3, <1>7 DEF Reached
  <2>3. mii'.kind # "write" /\ n - 1 < 2 => mii'.got.low = mdio'.sw[mii'.r].low
    BY <1>3, <1>4, <1>7 DEF Reached
  <2> QED BY <1>3, <1>6, <1>7, <2>1, <2>2, <2>3 DEF Reached
<1>9. InCall'
  BY <1>8 DEF InCall
<1>10. AfterSuccess' /\ BitKept'
  BY <1>3, <1>4 DEF MiiInv, AfterSuccess, BitKept
<1>11. NothingElse'
  <2>1. \A p \in Pages : Meant(p)' = Meant(p)
    BY <1>3 DEF Meant
  <2> QED BY <2>1, ZenonT(40) DEF MiiInv, NothingElse, MiiTypes
<1> QED BY <1>5, <1>9, <1>10, <1>11 DEF MiiInv

\* The read of mdio.wb is done and its write begins.
LEMMA WriteAfterRead ==
  ASSUME MiiInv, Reached(1), mii.pc = "wait_done", ~mdio.busy, mii.kind = "wb", mdio' = mdio,
         mii' = [mii EXCEPT !.pc = "wait_idle", !.kind = "write", !.v = WithBit(Got, @),
                   !.got = Got, !.todo = WriteParts(mii.r, WithBit(Got, mii.v))],
         mii_seen' = mii_seen
  PROVE  MiiInv'
<1>1. MiiTypes /\ 1 \in 1 .. 3
  BY DEF MiiInv
<1>2. Head(mii.todo) = Part(1)
  BY <1>1, ComingTakesTurns DEF Reached
<1> DEFINE v == WithBit(Got, mii.v)
<1>3. /\ mii'.pc = "wait_idle" /\ mii'.kind = "write" /\ mii'.r = mii.r /\ mii'.v = v
      /\ mii'.todo = WriteParts(mii.r, v) /\ mii'.got = Got
      /\ DOMAIN mii' = {"pc", "kind", "r", "v", "todo", "got"}
  BY <1>1 DEF MiiTypes
<1>4. Got \in Gots /\ Got.high = mdio.data
  BY <1>1, <1>2, GotIs
<1>5. mii.v.low \in Half /\ mdio.data \in Half
  BY <1>1 DEF MiiTypes, Values
<1>6. v = [low |-> mii.v.low, high |-> mdio.data]
  BY <1>4 DEF WithBit, Gots
<1>7. v \in Values
  BY <1>5, <1>6 DEF Values
<1> HIDE DEF v
<1>8. MiiTypes'
  BY <1>1, <1>3, <1>4, <1>7 DEF MiiTypes
<1>9. (mii.todo = Coming(3))'
  <2>1. (mii.kind = "write" => WriteParts(mii.r, mii.v) = Coming(3))'
    <3>1. (/\ mii.kind = "write" => WriteParts(mii.r, mii.v) = Coming(3)
           /\ mii.kind # "write" => ReadParts(mii.r) = Coming(3))'
      BY AllComing, PTL
    <3> QED BY <3>1
  <2> QED BY <1>3, <2>1
<1>10. Reached(3)'
  BY <1>3, <1>9 DEF Reached, Over, Served
<1>11. InCall'
  BY <1>10 DEF InCall
<1>12. AfterSuccess' /\ BitKept'
  BY <1>3, <1>4, <1>6 DEF AfterSuccess, BitKept
<1>13. NothingElse'
  <2>1. \A p \in Pages : Meant(p) \subseteq Meant(p)'
    BY DEF Meant
  <2> QED BY <2>1 DEF MiiInv, NothingElse
<1> QED BY <1>8, <1>11, <1>12, <1>13 DEF MiiInv

\* The call has made its last part.
LEMMA CallEnds ==
  ASSUME MiiInv, Reached(1), mii.pc = "wait_done", ~mdio.busy, mii.kind # "wb", mdio' = mdio,
         Returns("ok")
  PROVE  MiiInv'
<1>1. MiiTypes /\ 1 \in 1 .. 3
  BY DEF MiiInv
<1>2. Head(mii.todo) = Part(1)
  BY <1>1, ComingTakesTurns DEF Reached
<1>3. /\ mii'.pc = "idle" /\ mii'.kind = mii.kind /\ mii'.r = mii.r /\ mii'.v = mii.v /\ mii'.got = Got
      /\ DOMAIN mii' = {"pc", "kind", "r", "v", "todo", "got"}
  BY <1>1 DEF Returns, MiiTypes
<1>4. /\ mii_seen'.could = mii_seen.could
      /\ mii_seen' \in [could : [Pages -> SUBSET Values], told : {"none", "ok", "failed"}]
  BY <1>1 DEF Returns, MiiTypes
<1>5. /\ Got \in Gots /\ (mii.kind = "write" => Got = mii.got)
      /\ (mii.kind # "write" => Got.high = mdio.data /\ Got.low = mii.got.low)
  BY <1>1, <1>2, GotIs
<1>6. MiiTypes'
  BY <1>1, <1>3, <1>4, <1>5 DEF MiiTypes
<1>7. Over(1, 1) /\ Over(1, 2)
  BY DEF Over, Served
<1>8. mii.kind = "write" => mdio.sw[mii.r] = mii.v
  BY <1>7 DEF Reached
<1>9. mii.kind = "read" => Got = mdio.sw[mii.r]
  <2>1. SUFFICES ASSUME mii.kind = "read" PROVE Got = mdio.sw[mii.r]
    OBVIOUS
  <2>2. Got.low = mdio.sw[mii.r].low /\ Got.high = mdio.sw[mii.r].high
    BY <1>5, <1>7, <2>1 DEF Reached
  <2>3. mdio.sw[mii.r] \in Values
    BY <1>1 DEF MiiTypes
  <2>4. Got = [low |-> Got.low, high |-> Got.high]
    BY <1>5 DEF Gots
  <2>5. mdio.sw[mii.r] = [low |-> mdio.sw[mii.r].low, high |-> mdio.sw[mii.r].high]
    BY <2>3 DEF Values
  <2> QED BY <2>2, <2>4, <2>5
<1>10. AfterSuccess'
  <2>1. MiiTruth'
    BY <1>3, <1>8, <1>9 DEF MiiTruth
  <2>2. mii.kind \in {"read", "write"}
    BY <1>1 DEF MiiTypes
  <2> QED BY <1>3, <2>1, <2>2 DEF AfterSuccess
<1>11. BitKept'
  BY <1>3, <1>5 DEF MiiInv, BitKept
<1>12. NothingElse'
  <2>1. \A p \in Pages : Meant(p)' = Meant(p)
    BY <1>3, <1>4 DEF Meant
  <2> QED BY <2>1, ZenonT(40) DEF MiiInv, NothingElse, MiiTypes
<1> QED BY <1>3, <1>6, <1>10, <1>11, <1>12 DEF MiiInv, InCall

LEMMA PartDoneKeeps == ASSUME MiiInv, PartDone PROVE MiiInv'
<1>1. mii.pc = "wait_done" /\ ~mdio.busy /\ mdio' = mdio
  BY DEF PartDone
<1>2. PICK n \in 1 .. 3 : Reached(n) /\ mii.todo = Coming(n) /\ Head(mii.todo) = Part(n)
  BY <1>1, WhereTheCallIs
<1>3. CASE n > 1
  <2>1. Len(mii.todo) > 1 /\ n \in {2, 3}
    BY <1>2, <1>3, ComingTakesTurns
  <2>2. mii' = [mii EXCEPT !.pc = "wait_idle", !.todo = Tail(@), !.got = Got] /\ mii_seen' = mii_seen
    BY <2>1 DEF PartDone
  <2> QED BY <1>1, <1>2, <2>1, <2>2, NextPart
<1>4. CASE n = 1
  <2>1. ~(Len(mii.todo) > 1)
    BY <1>2, <1>4, ComingTakesTurns
  <2>2. CASE mii.kind = "wb"
    BY <1>1, <1>2, <1>4, <2>1, <2>2, WriteAfterRead DEF PartDone
  <2>3. CASE mii.kind # "wb"
    BY <1>1, <1>2, <1>4, <2>1, <2>3, CallEnds DEF PartDone
  <2> QED BY <2>2, <2>3
<1> QED BY <1>3, <1>4

LEMMA MiiKept == MiiInv /\ [MiiNext]_miiVars => MiiInv'
<1> SUFFICES ASSUME MiiInv, [MiiNext]_miiVars PROVE MiiInv'
  OBVIOUS
<1>1. CASE UNCHANGED miiVars
  <2>1. mdio' = mdio /\ mii' = mii /\ mii_seen' = mii_seen
    BY <1>1 DEF miiVars
  <2>2. \A n : Reached(n)' <=> Reached(n)
    BY <2>1 DEF Reached, Coming, Part, Over, Served
  <2>3. InCall'
    BY <2>1, <2>2 DEF MiiInv, InCall
  <2>4. MiiTypes'
    BY <2>1 DEF MiiInv, MiiTypes
  <2>5. AfterSuccess' /\ BitKept'
    BY <2>1 DEF MiiInv, AfterSuccess, BitKept, MiiTruth
  <2>6. NothingElse'
    <3>1. \A p \in Pages : Meant(p)' = Meant(p)
      BY <2>1 DEF Meant
    <3> QED BY <2>1, <3>1, ZenonT(40) DEF MiiInv, NothingElse, MiiTypes
  <2> QED BY <2>3, <2>4, <2>5, <2>6 DEF MiiInv
<1>2. CASE MiiNext
  BY <1>2, BeginKeeps, IssueKeeps, PartDoneKeeps, TimesOutKeeps, ServeKeeps DEF MiiNext, MiiWork
<1> QED BY <1>1, <1>2
-----------------------------------------------------------------------------
(* Of the board.                                                           *)

LEMMA MiiPartsStep == [BoardNext]_boardVars => [MiiNext]_miiVars
BY DEF BoardNext, boardVars, PinsPart, TimerPart, UartPart, WdtPart, MiiPart, CalPart,
       SetupPart, PagesPart, NandPart, ChipPart, ArithPart, RegPart, CmdPart, AbPart,
       OnlyWdt, OnlyMii, OnlyCal, OnlySetup, Networking

AccessInv == MiiInv /\ RegInv /\ UartInv /\ WdtInv

LEMMA AccessAlways == BoardSpec => []AccessInv
<1>1. BoardInit => AccessInv
  BY BoardPartsStart, MiiStarts, RegStarts, UartStarts, WdtStarts DEF AccessInv
<1>2. AccessInv /\ [BoardNext]_boardVars => AccessInv'
  <2> SUFFICES ASSUME AccessInv, [BoardNext]_boardVars PROVE AccessInv'
    OBVIOUS
  <2>1. MiiInv'
    BY MiiPartsStep, MiiKept DEF AccessInv
  <2>2. RegInv'
    BY RegPartsStep, RegKept DEF AccessInv
  <2>3. UartInv'
    BY UartPartsStep, UartKept DEF AccessInv
  <2>4. WdtInv'
    BY WdtPartsStep, WdtKept DEF AccessInv
  <2> QED BY <2>1, <2>2, <2>3, <2>4 DEF AccessInv
<1> QED BY <1>1, <1>2, PTL DEF BoardSpec

\* What a caller is told of a device is so, through time-outs and accesses
\* that are carried out after their call has failed, for any number of switch
\* registers of any width, any room in the transmitter and any number of
\* commands that fail.
THEOREM AccessesTellTruth == BoardSpec => []AccessesTrue
<1>1. AccessInv => AccessesTrue
  <2> SUFFICES ASSUME AccessInv PROVE AccessesTrue
    OBVIOUS
  <2>1. MiiTruth
    <3>1. CASE mii.pc = "idle" /\ mii_seen.told = "ok"
      BY <3>1 DEF AccessInv, MiiInv, AfterSuccess
    <3>2. CASE ~(mii.pc = "idle" /\ mii_seen.told = "ok")
      BY <3>2 DEF MiiTruth
    <3> QED BY <3>1, <3>2
  <2>2. NoHalfWrites
    BY DEF AccessInv, MiiInv, NothingElse, Meant, NoHalfWrites
  <2>3. OneBitOnly
    BY <2>1 DEF AccessInv, MiiInv, BitKept, MiiTruth, OneBitOnly
  <2>4. WholeOrPrefix
    BY RegTruth DEF AccessInv
  <2>5. NothingLost
    BY DEF AccessInv, UartInv
  <2>6. ReasonRight
    BY DEF AccessInv, WdtInv, NoteIsRight, ReasonRight
  <2> QED BY <2>1, <2>2, <2>3, <2>4, <2>5, <2>6 DEF AccessesTrue
<1> QED BY <1>1, AccessAlways, PTL

\* At the prompt the watchdog does not bite, however long it takes, until
\* mtk_wdt_init is called.
THEOREM WatchdogIsQuiet == BoardSpec => NoStrayReset
<1> DEFINE Quiet == wd_pc = "prompt" /\ wd_interval.stage = "preloader" /\ wd_pc' = "preloader"
                      => wd_last' # "stray"
<1>1. AccessInv /\ [BoardNext]_boardVars => [Quiet]_wdtVars
  <2> SUFFICES ASSUME WdtInv, [WdtNext]_wdtVars, wd_pc = "prompt", wd_interval.stage = "preloader",
                      wd_pc' = "preloader"
               PROVE  wd_last' # "stray"
    BY WdtPartsStep DEF AccessInv
  <2>1. ~Bite /\ ~UNCHANGED wdtVars
    BY DEF WdtInv, OffAtPrompt, Bite, wdtVars
  <2> QED BY <2>1 DEF WdtNext, WdtWork, Preloader, board_init, mtk_wdt_init, mtk_wdt_hw_reset,
             mtk_wdt_reset, WdtReset, Tick, Repower
<1>2. NoStrayReset <=> [][Quiet]_wdtVars
  BY DEF NoStrayReset
<1> HIDE DEF Quiet
<1> QED BY <1>1, <1>2, AccessAlways, PTL DEF BoardSpec
-----------------------------------------------------------------------------
(* The registers of the NAND controller.                                   *)

Bit7      == {"AHB", "HW_ECC", "AUTO_FMT", "READ_EN", "BYTE_RW", "RAN_SEL", "RAN_SEC"}
Modes     == {"0", "read", "prgm", "erase", "reset", "srd", "cust"}
Bursts    == {"0", "BRD", "BWR", "SRD"}
Registers == [mode : Modes, cnfg : SUBSET Bit7, con : Bursts,
              rand : {"off", "decode", "encode"}, dec : BOOLEAN, enc : BOOLEAN]

\* What each function on the registers changes, and what it leaves.
LEMMA ConWrites ==
  ASSUME NEW r \in Registers, NEW c \in Bursts
  PROVE  /\ Con(r, c) \in Registers /\ Con(r, c).con = c /\ Con(r, c).mode = r.mode
         /\ Con(r, c).cnfg = r.cnfg /\ Con(r, c).rand = r.rand
         /\ Con(r, c).dec = r.dec /\ Con(r, c).enc = r.enc
BY DEF Con, Registers

LEMMA ModeWrites ==
  ASSUME NEW r \in Registers, NEW m \in Modes
  PROVE  /\ Mode(r, m) \in Registers /\ Mode(r, m).mode = m /\ Mode(r, m).con = r.con
         /\ Mode(r, m).cnfg = r.cnfg /\ Mode(r, m).rand = r.rand
         /\ Mode(r, m).dec = r.dec /\ Mode(r, m).enc = r.enc
BY DEF Mode, Registers

\* What a function leaves alone: the randomizer and the engines of the ECC.
SameEngines(r, s) == s.rand = r.rand /\ s.dec = r.dec /\ s.enc = r.enc

\* The configuration r has once the bits off are cleared and the bits on set.
BitsWritten(r, on, off, s) ==
  /\ s \in Registers /\ s.cnfg = (r.cnfg \ off) \cup on
  /\ s.mode = r.mode /\ s.con = r.con /\ SameEngines(r, s)

LEMMA BitsWrite ==
  ASSUME NEW r \in Registers, NEW on \in SUBSET Bit7, NEW off
  PROVE  BitsWritten(r, on, off, Bits(r, on, off))
<1> DEFINE w == (r.cnfg \ off) \cup on
<1>1. w \in SUBSET Bit7
  BY DEF Registers
<1>2. Bits(r, on, off) = [r EXCEPT !.cnfg = w]
  BY DEF Bits
<1> HIDE DEF w
<1>3. /\ [r EXCEPT !.cnfg = w] \in Registers /\ [r EXCEPT !.cnfg = w].cnfg = w
      /\ [r EXCEPT !.cnfg = w].mode = r.mode /\ [r EXCEPT !.cnfg = w].con = r.con
      /\ [r EXCEPT !.cnfg = w].rand = r.rand
      /\ [r EXCEPT !.cnfg = w].dec = r.dec /\ [r EXCEPT !.cnfg = w].enc = r.enc
  BY <1>1 DEF Registers
<1> QED BY <1>2, <1>3 DEF w, BitsWritten, SameEngines

LEMMA EngineWrites ==
  ASSUME NEW r \in Registers, NEW on \in BOOLEAN
  PROVE  /\ Decoder(r, on) \in Registers /\ Decoder(r, on).dec = on
         /\ Decoder(r, on).enc = r.enc
         /\ Decoder(r, on).mode = r.mode /\ Decoder(r, on).con = r.con
         /\ Decoder(r, on).cnfg = r.cnfg /\ Decoder(r, on).rand = r.rand
         /\ Encoder(r, on) \in Registers /\ Encoder(r, on).enc = on
         /\ Encoder(r, on).dec = r.dec
         /\ Encoder(r, on).mode = r.mode /\ Encoder(r, on).con = r.con
         /\ Encoder(r, on).cnfg = r.cnfg /\ Encoder(r, on).rand = r.rand
BY DEF Decoder, Encoder, Registers

LEMMA RandWrites ==
  ASSUME NEW r \in Registers, NEW t \in {"off", "decode", "encode"}
  PROVE  /\ [r EXCEPT !.rand = t] \in Registers /\ [r EXCEPT !.rand = t].rand = t
         /\ [r EXCEPT !.rand = t].mode = r.mode /\ [r EXCEPT !.rand = t].cnfg = r.cnfg
         /\ [r EXCEPT !.rand = t].dec = r.dec /\ [r EXCEPT !.rand = t].enc = r.enc
BY DEF Registers

LEMMA ResetWrites ==
  ASSUME NEW r \in Registers
  PROVE  /\ NfiReset(r) \in Registers /\ NfiReset(r).mode = r.mode
         /\ NfiReset(r).cnfg = r.cnfg /\ SameEngines(r, NfiReset(r))
BY ConWrites DEF NfiReset, Bursts, SameEngines

LEMMA CustomWrites ==
  ASSUME NEW r \in Registers, NEW b \in SUBSET Bit7
  PROVE  /\ Custom(r, b) \in Registers /\ Custom(r, b).mode = "cust"
         /\ Custom(r, b).cnfg = b /\ SameEngines(r, Custom(r, b))
BY DEF Custom, SameEngines, Registers, Modes

LEMMA DmaWrites ==
  ASSUME NEW r \in Registers, NEW c \in Bursts
  PROVE  /\ Dma(r, c) \in Registers /\ Dma(r, c).con = c /\ Dma(r, c).mode = r.mode
         /\ Dma(r, c).cnfg = r.cnfg \ {"BYTE_RW"} /\ SameEngines(r, Dma(r, c))
<1> DEFINE b == Bits(r, {}, {"BYTE_RW"})
<1>1. {} \in SUBSET Bit7
  OBVIOUS
<1>2. BitsWritten(r, {}, {"BYTE_RW"}, b)
  BY <1>1, BitsWrite
<1>3. Dma(r, c) = Con(b, c)
  BY DEF Dma
<1> HIDE DEF b
<1>4. b \in Registers /\ b.cnfg = r.cnfg \ {"BYTE_RW"} /\ b.mode = r.mode /\ SameEngines(r, b)
  BY <1>2 DEF BitsWritten
<1> QED BY <1>3, <1>4, ConWrites DEF SameEngines

LEMMA OffWrites ==
  ASSUME NEW r \in Registers
  PROVE  /\ RandomizerOff(r) \in Registers /\ RandomizerOff(r).rand = "off"
         /\ RandomizerOff(r).mode = r.mode
         /\ RandomizerOff(r).cnfg = r.cnfg \ {"RAN_SEL", "RAN_SEC"}
         /\ RandomizerOff(r).dec = r.dec /\ RandomizerOff(r).enc = r.enc
<1> DEFINE s == Bits(r, {}, {"RAN_SEL", "RAN_SEC"})
<1>1. BitsWritten(r, {}, {"RAN_SEL", "RAN_SEC"}, s)
  <2>1. {} \in SUBSET Bit7
    OBVIOUS
  <2> QED BY <2>1, BitsWrite
<1>2. RandomizerOff(r) = [s EXCEPT !.rand = "off"]
  BY DEF RandomizerOff
<1> HIDE DEF s
<1>3. /\ s \in Registers /\ s.cnfg = r.cnfg \ {"RAN_SEL", "RAN_SEC"} /\ s.mode = r.mode
      /\ s.dec = r.dec /\ s.enc = r.enc
  BY <1>1 DEF BitsWritten, SameEngines
<1>4. /\ [s EXCEPT !.rand = "off"] \in Registers /\ [s EXCEPT !.rand = "off"].rand = "off"
      /\ [s EXCEPT !.rand = "off"].mode = s.mode /\ [s EXCEPT !.rand = "off"].cnfg = s.cnfg
      /\ [s EXCEPT !.rand = "off"].dec = s.dec /\ [s EXCEPT !.rand = "off"].enc = s.enc
  BY <1>3, RandWrites, Zenon
<1> QED BY <1>2, <1>3, <1>4, Zenon

LEMMA OnWrites ==
  ASSUME NEW r \in Registers, NEW t \in {"decode", "encode"}
  PROVE  /\ RandomizerOn(r, t) \in Registers
         /\ RandomizerOn(r, t).dec = r.dec /\ RandomizerOn(r, t).enc = r.enc
         /\ nc_cfg.rand => RandomizerOn(r, t).rand = t /\ "RAN_SEL" \in RandomizerOn(r, t).cnfg
         /\ ~nc_cfg.rand => RandomizerOn(r, t) = r
<1> DEFINE s == Bits(r, {"RAN_SEL", "RAN_SEC"}, {})
<1>1. BitsWritten(r, {"RAN_SEL", "RAN_SEC"}, {}, s)
  <2>1. {"RAN_SEL", "RAN_SEC"} \in SUBSET Bit7
    BY DEF Bit7
  <2> QED BY <2>1, BitsWrite
<1>2. RandomizerOn(r, t) = IF nc_cfg.rand THEN [s EXCEPT !.rand = t] ELSE r
  BY DEF RandomizerOn
<1> HIDE DEF s
<1>3. s \in Registers /\ "RAN_SEL" \in s.cnfg /\ s.dec = r.dec /\ s.enc = r.enc
  BY <1>1 DEF BitsWritten, SameEngines
<1>4. /\ [s EXCEPT !.rand = t] \in Registers /\ [s EXCEPT !.rand = t].rand = t
      /\ [s EXCEPT !.rand = t].cnfg = s.cnfg
      /\ [s EXCEPT !.rand = t].dec = s.dec /\ [s EXCEPT !.rand = t].enc = s.enc
  <2>1. t \in {"off", "decode", "encode"}
    OBVIOUS
  <2> QED BY <1>3, <2>1, RandWrites, ZenonT(40)
<1>5. CASE nc_cfg.rand
  BY <1>2, <1>3, <1>4, <1>5, Zenon
<1>6. CASE ~nc_cfg.rand
  BY <1>2, <1>6, Zenon
<1> QED BY <1>5, <1>6

LEMMA PageOffWrites ==
  ASSUME NEW r \in Registers
  PROVE  /\ PageRandomizerOff(r) \in Registers
         /\ PageRandomizerOff(r).dec = r.dec /\ PageRandomizerOff(r).enc = r.enc
         /\ nc_cfg.rand => PageRandomizerOff(r).rand = "off"
         /\ ~nc_cfg.rand => PageRandomizerOff(r) = r
BY OffWrites DEF PageRandomizerOff

LEMMA SpareWrites ==
  ASSUME NEW r \in Registers
  PROVE  /\ Spare(r) \in Registers /\ Spare(r).mode = r.mode
         /\ Spare(r).cnfg = r.cnfg \ PageBits /\ SameEngines(r, Spare(r))
<1>1. {} \in SUBSET Bit7
  OBVIOUS
<1>2. BitsWritten(r, {}, PageBits, Spare(r))
  BY <1>1, BitsWrite DEF Spare
<1> QED BY <1>2 DEF BitsWritten, SameEngines

LEMMA ReadSetup ==
  ASSUME NEW r \in Registers
  PROVE  /\ ReadyForRead(r, TRUE) \in Registers /\ ReadyForRead(r, TRUE).mode = "read"
         /\ ReadyForRead(r, TRUE).cnfg = r.cnfg \cup {"READ_EN"} \cup PageBits
         /\ ReadyForRead(r, TRUE).rand = r.rand /\ ReadyForRead(r, TRUE).enc = r.enc
         /\ ReadyForRead(r, TRUE).dec = TRUE
         /\ ReadyForRead(r, FALSE) \in Registers /\ ReadyForRead(r, FALSE).mode = "read"
         /\ ReadyForRead(r, FALSE).cnfg = (r.cnfg \cup {"READ_EN"}) \ PageBits
         /\ SameEngines(r, ReadyForRead(r, FALSE))
<1> DEFINE m == Mode(NfiReset(r), "read")
           s == Bits(m, {"READ_EN"}, {})
           p == Bits(s, PageBits, {})
<1>1. m \in Registers /\ m.mode = "read" /\ m.cnfg = r.cnfg /\ SameEngines(r, m)
  BY ResetWrites, ModeWrites DEF SameEngines, Modes
<1>2. {"READ_EN"} \in SUBSET Bit7 /\ PageBits \in SUBSET Bit7
  BY DEF Bit7, PageBits
<1>3. ReadyForRead(r, TRUE) = Decoder(p, TRUE) /\ ReadyForRead(r, FALSE) = Spare(s)
  BY DEF ReadyForRead
<1> HIDE DEF m
<1>4. BitsWritten(m, {"READ_EN"}, {}, s)
  BY <1>1, <1>2, BitsWrite
<1> HIDE DEF s
<1>5. s \in Registers /\ s.mode = "read" /\ s.cnfg = r.cnfg \cup {"READ_EN"} /\ SameEngines(r, s)
  BY <1>1, <1>4 DEF BitsWritten, SameEngines
<1>6. BitsWritten(s, PageBits, {}, p)
  BY <1>2, <1>5, BitsWrite
<1> HIDE DEF p
<1>7. /\ p \in Registers /\ p.mode = "read" /\ p.cnfg = r.cnfg \cup {"READ_EN"} \cup PageBits
      /\ SameEngines(r, p)
  BY <1>5, <1>6 DEF BitsWritten, SameEngines
<1>8. /\ Decoder(p, TRUE) \in Registers /\ Decoder(p, TRUE).mode = p.mode
      /\ Decoder(p, TRUE).cnfg = p.cnfg /\ Decoder(p, TRUE).rand = p.rand
      /\ Decoder(p, TRUE).enc = p.enc /\ Decoder(p, TRUE).dec = TRUE
  BY <1>7, EngineWrites
<1>9. /\ Spare(s) \in Registers /\ Spare(s).mode = s.mode
      /\ Spare(s).cnfg = s.cnfg \ PageBits /\ SameEngines(s, Spare(s))
  BY <1>5, SpareWrites
<1> QED BY <1>3, <1>5, <1>7, <1>8, <1>9 DEF SameEngines

LEMMA WriteSetup ==
  ASSUME NEW r \in Registers
  PROVE  /\ ReadyForWrite(r, TRUE) \in Registers /\ ReadyForWrite(r, TRUE).mode = "prgm"
         /\ ReadyForWrite(r, TRUE).cnfg = (r.cnfg \ {"READ_EN"}) \cup PageBits
         /\ ReadyForWrite(r, TRUE).rand = r.rand /\ ReadyForWrite(r, TRUE).dec = r.dec
         /\ ReadyForWrite(r, TRUE).enc = TRUE
         /\ ReadyForWrite(r, FALSE) \in Registers /\ ReadyForWrite(r, FALSE).mode = "prgm"
         /\ ReadyForWrite(r, FALSE).cnfg = (r.cnfg \ {"READ_EN"}) \ PageBits
         /\ SameEngines(r, ReadyForWrite(r, FALSE))
<1> DEFINE m == Mode(NfiReset(r), "prgm")
           s == Bits(m, {}, {"READ_EN"})
           p == Bits(s, PageBits, {})
<1>1. m \in Registers /\ m.mode = "prgm" /\ m.cnfg = r.cnfg /\ SameEngines(r, m)
  BY ResetWrites, ModeWrites DEF SameEngines, Modes
<1>2. {} \in SUBSET Bit7 /\ PageBits \in SUBSET Bit7
  BY DEF Bit7, PageBits
<1>3. ReadyForWrite(r, TRUE) = Encoder(p, TRUE) /\ ReadyForWrite(r, FALSE) = Spare(s)
  BY DEF ReadyForWrite, Writing
<1> HIDE DEF m
<1>4. BitsWritten(m, {}, {"READ_EN"}, s)
  BY <1>1, <1>2, BitsWrite
<1> HIDE DEF s
<1>5. s \in Registers /\ s.mode = "prgm" /\ s.cnfg = r.cnfg \ {"READ_EN"} /\ SameEngines(r, s)
  BY <1>1, <1>4 DEF BitsWritten, SameEngines
<1>6. BitsWritten(s, PageBits, {}, p)
  BY <1>2, <1>5, BitsWrite
<1> HIDE DEF p
<1>7. /\ p \in Registers /\ p.mode = "prgm" /\ p.cnfg = (r.cnfg \ {"READ_EN"}) \cup PageBits
      /\ SameEngines(r, p)
  BY <1>5, <1>6 DEF BitsWritten, SameEngines
<1>8. /\ Encoder(p, TRUE) \in Registers /\ Encoder(p, TRUE).mode = p.mode
      /\ Encoder(p, TRUE).cnfg = p.cnfg /\ Encoder(p, TRUE).rand = p.rand
      /\ Encoder(p, TRUE).dec = p.dec /\ Encoder(p, TRUE).enc = TRUE
  BY <1>7, EngineWrites
<1>9. /\ Spare(s) \in Registers /\ Spare(s).mode = s.mode
      /\ Spare(s).cnfg = s.cnfg \ PageBits /\ SameEngines(s, Spare(s))
  BY <1>5, SpareWrites
<1> QED BY <1>3, <1>5, <1>7, <1>8, <1>9 DEF SameEngines

LEMMA StatusWrites ==
  ASSUME NEW r \in Registers
  PROVE  /\ Status(r) \in Registers /\ Status(r).con = "SRD" /\ Status(r).rand = "off"
         /\ Status(r).cnfg \cap {"READ_EN", "AHB", "HW_ECC", "BYTE_RW"} = {"READ_EN"}
         /\ Status(r).dec = r.dec /\ Status(r).enc = r.enc
<1> DEFINE n == IF r.rand = "off" THEN NfiReset(r) ELSE RandomizerOff(NfiReset(r))
           m == Mode(n, "0")
           b == Bits(m, {"READ_EN"}, {"BYTE_RW", "AHB", "HW_ECC"})
<1>1. n \in Registers /\ n.rand = "off" /\ n.dec = r.dec /\ n.enc = r.enc
  BY ResetWrites, OffWrites DEF SameEngines
<1>2. {"READ_EN"} \in SUBSET Bit7
  BY DEF Bit7
<1>3. Status(r) = Con(b, "SRD")
  BY DEF Status
<1> HIDE DEF n
<1>4. m \in Registers /\ m.rand = "off" /\ m.dec = r.dec /\ m.enc = r.enc
  BY <1>1, ModeWrites DEF Modes
<1> HIDE DEF m
<1>5. BitsWritten(m, {"READ_EN"}, {"BYTE_RW", "AHB", "HW_ECC"}, b)
  BY <1>2, <1>4, BitsWrite
<1> HIDE DEF b
<1>6. b.cnfg \cap {"READ_EN", "AHB", "HW_ECC", "BYTE_RW"} = {"READ_EN"}
  BY <1>5 DEF BitsWritten
<1>7. b \in Registers /\ b.rand = "off" /\ b.dec = r.dec /\ b.enc = r.enc
  BY <1>4, <1>5 DEF BitsWritten, SameEngines
<1> QED BY <1>3, <1>6, <1>7, ConWrites DEF Bursts

LEMMA StatusReadWrites ==
  ASSUME NEW r \in Registers
  PROVE  StatusRead(r) \in Registers /\ SameEngines(r, StatusRead(r))
<1>1. {"AHB", "HW_ECC"} \in SUBSET Bit7
  BY DEF Bit7
<1>2. NfiReset(r) \in Registers /\ SameEngines(r, NfiReset(r))
  BY ResetWrites
<1>3. BitsWritten(NfiReset(r), {"AHB", "HW_ECC"}, {}, StatusRead(r))
  BY <1>1, <1>2, BitsWrite DEF StatusRead
<1> QED BY <1>2, <1>3 DEF BitsWritten, SameEngines

LEMMA IdWrites ==
  ASSUME NEW r \in Registers
  PROVE  /\ ReadId(r) \in Registers /\ ReadId(r).con = "SRD" /\ "READ_EN" \in ReadId(r).cnfg
         /\ "HW_ECC" \notin ReadId(r).cnfg /\ SameEngines(r, ReadId(r))
<1> DEFINE m == Mode(NfiReset(r), "srd")
           b == Bits(m, {"READ_EN", "BYTE_RW"}, {"HW_ECC", "AHB"})
<1>1. m \in Registers /\ SameEngines(r, m)
  BY ResetWrites, ModeWrites DEF SameEngines, Modes
<1>2. {"READ_EN", "BYTE_RW"} \in SUBSET Bit7
  BY DEF Bit7
<1>3. ReadId(r) = Con(b, "SRD")
  BY DEF ReadId
<1> HIDE DEF m
<1>4. BitsWritten(m, {"READ_EN", "BYTE_RW"}, {"HW_ECC", "AHB"}, b)
  BY <1>1, <1>2, BitsWrite
<1> HIDE DEF b
<1>5. b \in Registers /\ "READ_EN" \in b.cnfg /\ "HW_ECC" \notin b.cnfg /\ SameEngines(r, b)
  BY <1>1, <1>4 DEF BitsWritten, SameEngines
<1> QED BY <1>3, <1>5, ConWrites DEF Bursts, SameEngines

LEMMA StopWrites ==
  ASSUME NEW r \in Registers
  PROVE  /\ StopRead(r) \in Registers /\ StopRead(r).rand = r.rand
         /\ StopRead(r).dec = FALSE /\ StopRead(r).enc = r.enc
         /\ StopWrite(r) \in Registers /\ StopWrite(r).rand = r.rand
         /\ StopWrite(r).enc = FALSE /\ StopWrite(r).dec = r.dec
<1>1. NfiReset(r) = Con(r, "0") /\ "0" \in Bursts
  BY DEF NfiReset, Bursts
<1> DEFINE n == Con(r, "0")
<1>2. n \in Registers /\ n.rand = r.rand /\ n.dec = r.dec /\ n.enc = r.enc
  BY <1>1, ConWrites
<1>3. StopRead(r) = Decoder(n, FALSE) /\ StopWrite(r) = Encoder(n, FALSE)
  BY <1>1 DEF StopRead, StopWrite
<1> HIDE DEF n
<1>4. /\ Decoder(n, FALSE) \in Registers /\ Decoder(n, FALSE).rand = n.rand
      /\ Decoder(n, FALSE).dec = FALSE /\ Decoder(n, FALSE).enc = n.enc
      /\ Encoder(n, FALSE) \in Registers /\ Encoder(n, FALSE).rand = n.rand
      /\ Encoder(n, FALSE).enc = FALSE /\ Encoder(n, FALSE).dec = n.dec
  BY <1>2, EngineWrites, Zenon
<1> QED BY <1>2, <1>3, <1>4, Zenon

LEMMA McuWrites ==
  ASSUME NEW r \in Registers, NEW c \in Bursts, NEW s \in Mcu(r, c)
  PROVE  /\ s \in Registers /\ s.con = c /\ s.mode = r.mode /\ SameEngines(r, s)
         /\ s.cnfg \ {"BYTE_RW", "RAN_SEL", "RAN_SEC"} = r.cnfg \ {"BYTE_RW", "RAN_SEL", "RAN_SEC"}
<1>1. PICK b \in {Bits(r, {"BYTE_RW"}, {}), Bits(r, {}, {"BYTE_RW"})} : s = Con(b, c)
  BY DEF Mcu
<1>2. {"BYTE_RW"} \in SUBSET Bit7 /\ {} \in SUBSET Bit7
  BY DEF Bit7
<1>3. BitsWritten(r, {"BYTE_RW"}, {}, b) \/ BitsWritten(r, {}, {"BYTE_RW"}, b)
  BY <1>1, <1>2, BitsWrite
<1>4. b.cnfg \ {"BYTE_RW", "RAN_SEL", "RAN_SEC"} = r.cnfg \ {"BYTE_RW", "RAN_SEL", "RAN_SEC"}
  BY <1>3 DEF BitsWritten
<1>5. b \in Registers /\ b.mode = r.mode /\ SameEngines(r, b)
  BY <1>3 DEF BitsWritten
<1> QED BY <1>1, <1>4, <1>5, ConWrites DEF SameEngines
-----------------------------------------------------------------------------
(* The invariant of the controller.  The steps rely on the randomizer and   *)
(* the ECC engines being at rest between the pages, also after a wait that  *)
(* ran out: that is what the properties do not say by themselves.           *)

ReadingOrWriting == {"read", "write"}

\* A page moves just while the driver reads or writes one.
PagesMove == (xfer = "page_in" <=> nc_pc = "read") /\ (xfer = "page_out" <=> nc_pc = "write")

\* Between the pages the randomizer is off, on a chip without it always.
RandomizerRests ==
  /\ ~nc_cfg.rand => reg.rand = "off"
  /\ ~given_up /\ nc_pc \notin ReadingOrWriting => reg.rand = "off"

\* Each engine is on only while its page moves.
EnginesRest ==
  ~nc_late => /\ reg.enc => nc_pc = "write"
              /\ ~given_up /\ reg.dec => nc_pc = "read"

\* Success of a raw access means that all of it moved.
OkIsMoved == told = "ok" /\ ~Random => moved

NcInv == /\ reg \in Registers /\ PagesMove /\ RandomizerRests /\ EnginesRest /\ OkIsMoved
         /\ SetUpForTransfer

LEMMA NcStarts == ControllerInit => NcInv
<1> SUFFICES ASSUME ControllerInit PROVE NcInv
  OBVIOUS
<1>1. reg \in Registers /\ reg.rand = "off" /\ ~reg.enc /\ ~reg.dec
  BY DEF ControllerInit, Registers, Modes, Bursts, Bit7
<1>2. nc_pc = "boot" /\ xfer = "none" /\ told = "none"
  BY DEF ControllerInit
<1>3. SetUpForTransfer
  BY <1>2 DEF SetUpForTransfer
<1> QED BY <1>1, <1>2, <1>3 DEF NcInv, PagesMove, RandomizerRests, EnginesRest, OkIsMoved, ReadingOrWriting

\* Where no data moves nothing has to be set up.
LEMMA NothingMoves == (xfer' = "none") => SetUpForTransfer'
BY DEF SetUpForTransfer

\* A step that leaves the randomizer and the engines alone, and moves no page.
LEMMA PassesBy ==
  ASSUME NcInv, reg' \in Registers, SameEngines(reg, reg'), UNCHANGED <<nc_cfg, given_up>>,
         nc_late' = nc_late \/ nc_late' = TRUE,
         nc_pc \notin ReadingOrWriting, nc_pc' \notin ReadingOrWriting,
         xfer' \notin {"page_in", "page_out"}, OkIsMoved', SetUpForTransfer'
  PROVE  NcInv'
<1>1. PagesMove'
  BY DEF PagesMove, ReadingOrWriting
<1>2. RandomizerRests'
  BY DEF NcInv, RandomizerRests, SameEngines
<1>3. EnginesRest'
  BY DEF NcInv, EnginesRest, SameEngines, ReadingOrWriting
<1> QED BY <1>1, <1>2, <1>3 DEF NcInv

\* The same report, and what it says.
LEMMA ReportKept == OkIsMoved /\ UNCHANGED <<nc_cfg, told, moved>> => OkIsMoved'
BY DEF OkIsMoved, Random

LEMMA ReadPageKeeps == NcInv /\ ReadPage => NcInv'
<1> SUFFICES ASSUME NcInv, ReadPage PROVE NcInv'
  OBVIOUS
<1> DEFINE r == RandomizerOn(reg, "decode")
<1>1. /\ r \in Registers /\ r.dec = reg.dec /\ r.enc = reg.enc
      /\ nc_cfg.rand => r.rand = "decode" /\ "RAN_SEL" \in r.cnfg
      /\ ~nc_cfg.rand => r = reg
  BY OnWrites DEF NcInv
<1>2. nc_pc \in {"idle", "again"} /\ UNCHANGED <<nc_cfg, told, moved, given_up>>
  BY DEF ReadPage, SameReport
<1>3. OkIsMoved'
  BY <1>2, ReportKept DEF NcInv
<1>4. \/ reg' = Dma(ReadyForRead(r, TRUE), "BRD") /\ Goto("read", "page_in") /\ OnTime
      \/ reg' \in {PageRandomizerOff(x) : x \in {NfiReset(r), ReadyForRead(r, TRUE)}}
         /\ Goto("idle", "none") /\ Late
  BY DEF ReadPage
<1> DEFINE f == ReadyForRead(r, TRUE)
<1>5. /\ f \in Registers /\ f.mode = "read" /\ f.cnfg = r.cnfg \cup {"READ_EN"} \cup PageBits
      /\ f.rand = r.rand /\ f.enc = r.enc /\ f.dec = TRUE
  <2> HIDE DEF r
  <2> QED BY <1>1, ReadSetup
<1>6. ~nc_cfg.rand => r.rand = "off"
  BY <1>1 DEF NcInv, RandomizerRests
<1>7. ~nc_late => ~reg.enc /\ (~given_up => ~reg.dec)
  BY <1>2 DEF NcInv, EnginesRest
<1>8. CASE reg' = Dma(f, "BRD") /\ Goto("read", "page_in") /\ OnTime
  <2> DEFINE d == Dma(f, "BRD")
  <2>1. /\ d \in Registers /\ d.con = "BRD" /\ d.mode = f.mode
        /\ d.cnfg = f.cnfg \ {"BYTE_RW"} /\ SameEngines(f, d)
    <3> HIDE DEF f
    <3> QED BY <1>5, DmaWrites DEF Bursts
  <2>2. reg' = d /\ nc_pc' = "read" /\ xfer' = "page_in" /\ nc_late' = nc_late
    BY <1>8 DEF Goto, OnTime
  <2> HIDE DEF d, f, r
  <2>3. Wants({"read"}, "BRD", PageBits \cup {"READ_EN"})' /\ "BYTE_RW" \notin reg'.cnfg
    <3>1. r.cnfg \subseteq Bit7
      BY <1>1 DEF Registers
    <3>2. d.cnfg \ {"BYTE_RW", "RAN_SEL", "RAN_SEC"} = PageBits \cup {"READ_EN"}
      BY <1>5, <2>1, <3>1 DEF PageBits, Bit7
    <3> QED BY <1>5, <2>1, <2>2, <3>2 DEF Wants
  <2>4. /\ nc_cfg'.rand => "RAN_SEL" \in reg'.cnfg
        /\ reg'.rand = "decode" <=> nc_cfg'.rand
    BY <1>1, <1>2, <1>5, <1>6, <2>1, <2>2 DEF SameEngines
  <2>5. reg'.dec = TRUE /\ reg'.enc = reg.enc
    BY <1>1, <1>5, <2>1, <2>2 DEF SameEngines
  <2>6. SetUpForTransfer'
    BY <2>2, <2>3, <2>4, <2>5 DEF SetUpForTransfer
  <2>7. PagesMove'
    BY <2>2 DEF PagesMove
  <2>8. RandomizerRests'
    BY <1>2, <1>5, <1>6, <2>1, <2>2 DEF RandomizerRests, SameEngines, ReadingOrWriting
  <2>9. EnginesRest'
    BY <1>2, <1>7, <2>2, <2>5 DEF EnginesRest
  <2> QED BY <1>3, <2>1, <2>2, <2>6, <2>7, <2>8, <2>9 DEF NcInv
<1>9. CASE /\ reg' \in {PageRandomizerOff(x) : x \in {NfiReset(r), f}}
           /\ Goto("idle", "none") /\ Late
  <2>1. PICK x \in {NfiReset(r), f} : reg' = PageRandomizerOff(x)
    BY <1>9
  <2>2. x \in Registers /\ x.rand = r.rand
    <3> HIDE DEF f
    <3>1. NfiReset(r) \in Registers /\ NfiReset(r).rand = r.rand
      <4> HIDE DEF r
      <4> QED BY <1>1, ResetWrites DEF SameEngines
    <3> QED BY <1>5, <2>1, <3>1
  <2> HIDE DEF f, r
  <2>3. reg' \in Registers /\ reg'.rand = "off"
    BY <1>6, <2>1, <2>2, PageOffWrites
  <2>4. nc_pc' = "idle" /\ xfer' = "none" /\ nc_late' = TRUE
    BY <1>9 DEF Goto, Late
  <2> QED BY <1>3, <2>3, <2>4, NothingMoves
          DEF NcInv, PagesMove, RandomizerRests, EnginesRest
<1> QED BY <1>4, <1>8, <1>9
LEMMA ReadPageEndKeeps == NcInv /\ ReadPageEnd => NcInv'
<1> SUFFICES ASSUME NcInv, ReadPageEnd PROVE NcInv'
  OBVIOUS
<1>1. /\ nc_pc = "read" /\ UNCHANGED <<nc_cfg, told, moved>> /\ xfer' = "none"
      /\ nc_pc' \in {"idle", "retry"} /\ (nc_late' = nc_late \/ nc_late' = TRUE)
      /\ \/ reg' = PageRandomizerOff(StopRead(reg)) /\ given_up' = FALSE
         \/ reg' = reg /\ given_up' = TRUE
  BY DEF ReadPageEnd, SameReport, Goto, OnTime, Late
<1>2. OkIsMoved' /\ SetUpForTransfer'
  BY <1>1, ReportKept, NothingMoves DEF NcInv
<1>3. PagesMove'
  BY <1>1 DEF PagesMove
<1>4. CASE reg' = PageRandomizerOff(StopRead(reg)) /\ given_up' = FALSE
  <2> DEFINE s == StopRead(reg)
  <2>1. s \in Registers /\ s.rand = reg.rand /\ s.dec = FALSE /\ s.enc = reg.enc
    BY StopWrites DEF NcInv
  <2>2. reg' = PageRandomizerOff(s)
    BY <1>4
  <2> HIDE DEF s
  <2>3. /\ reg' \in Registers /\ reg'.dec = s.dec /\ reg'.enc = s.enc
        /\ nc_cfg.rand => reg'.rand = "off"
        /\ ~nc_cfg.rand => reg' = s
    BY <2>1, <2>2, PageOffWrites
  <2>4. reg'.rand = "off"
    BY <2>1, <2>3 DEF NcInv, RandomizerRests
  <2>5. EnginesRest'
    BY <1>1, <2>1, <2>3 DEF NcInv, EnginesRest
  <2> QED BY <1>2, <1>3, <2>3, <2>4, <2>5 DEF NcInv, RandomizerRests
<1>5. CASE reg' = reg /\ given_up' = TRUE
  <2>1. RandomizerRests'
    BY <1>1, <1>5 DEF NcInv, RandomizerRests
  <2>2. EnginesRest'
    BY <1>1, <1>5 DEF NcInv, EnginesRest
  <2> QED BY <1>2, <1>3, <1>5, <2>1, <2>2 DEF NcInv
<1> QED BY <1>1, <1>4, <1>5

LEMMA SettingKeeps == NcInv /\ Setting => NcInv'
<1> SUFFICES ASSUME NcInv, Setting PROVE NcInv'
  OBVIOUS
<1> DEFINE a == Sandisk19(reg)
           c == Custom(NfiReset(a), {"BYTE_RW"})
<1>1. /\ nc_pc \in {"retry", "set"} /\ nc_pc' = "setting" /\ xfer' = "feature_out"
      /\ reg' = Con(c, "BWR") /\ UNCHANGED <<nc_cfg, told, moved, nc_late, given_up>>
  BY DEF Setting, Goto, SameReport
<1>2. a \in Registers /\ a.rand \in {reg.rand, "off"} /\ a.dec = reg.dec /\ a.enc = reg.enc
  BY RandWrites DEF NcInv, Sandisk19
<1> HIDE DEF a
<1>3. c \in Registers /\ c.mode = "cust" /\ c.cnfg = {"BYTE_RW"} /\ SameEngines(a, c)
  <2>1. NfiReset(a) \in Registers /\ SameEngines(a, NfiReset(a))
    BY <1>2, ResetWrites
  <2>2. {"BYTE_RW"} \in SUBSET Bit7
    BY DEF Bit7
  <2> QED BY <2>1, <2>2, CustomWrites DEF SameEngines
<1> HIDE DEF c
<1>4. /\ reg' \in Registers /\ reg'.con = "BWR" /\ reg'.mode = "cust" /\ reg'.cnfg = {"BYTE_RW"}
      /\ SameEngines(a, reg')
  BY <1>1, <1>3, ConWrites DEF SameEngines, Bursts
<1>5. SetUpForTransfer'
  BY <1>1, <1>4 DEF SetUpForTransfer, Wants
<1>6. OkIsMoved'
  BY <1>1, ReportKept DEF NcInv
<1>7. PagesMove'
  BY <1>1 DEF PagesMove
<1>8. RandomizerRests'
  BY <1>1, <1>2, <1>4 DEF NcInv, RandomizerRests, SameEngines, ReadingOrWriting
<1>9. EnginesRest'
  BY <1>1, <1>2, <1>4 DEF NcInv, EnginesRest, SameEngines
<1> QED BY <1>4, <1>5, <1>6, <1>7, <1>8, <1>9 DEF NcInv

LEMMA SettingEndKeeps == NcInv /\ SettingEnd => NcInv'
<1> SUFFICES ASSUME NcInv, SettingEnd PROVE NcInv'
  OBVIOUS
<1>1. /\ nc_pc = "setting" /\ xfer' = "none" /\ nc_pc' \in {"set", "again", "idle"}
      /\ nc_late' = nc_late \/ nc_late' = TRUE
      /\ UNCHANGED <<nc_cfg, told, moved, given_up>>
  BY DEF SettingEnd, Goto, SameReport, OnTime, Late
<1>2. reg' \in {reg, NfiReset(reg), Mode(NfiReset(reg), "reset")}
  BY DEF SettingEnd, ToshibaLeaves, HynixLeaves
<1>3. reg' \in Registers /\ SameEngines(reg, reg')
  <2>1. NfiReset(reg) \in Registers /\ SameEngines(reg, NfiReset(reg))
    BY ResetWrites DEF NcInv
  <2> DEFINE n == NfiReset(reg)
  <2>2. reg' \in {reg, n, Mode(n, "reset")}
    BY <1>2
  <2> HIDE DEF n
  <2>3. Mode(n, "reset") \in Registers /\ SameEngines(reg, Mode(n, "reset"))
    BY <2>1, ModeWrites DEF n, SameEngines, Modes
  <2> QED BY <2>1, <2>2, <2>3 DEF n, NcInv, SameEngines
<1> QED BY <1>1, <1>3, ReportKept, NothingMoves, PassesBy DEF NcInv, ReadingOrWriting

LEMMA WritePageKeeps == NcInv /\ WritePage => NcInv'
<1> SUFFICES ASSUME NcInv, WritePage PROVE NcInv'
  OBVIOUS
<1> DEFINE r == RandomizerOn(reg, "encode")
           f == ReadyForWrite(r, TRUE)
<1>1. /\ r \in Registers /\ r.dec = reg.dec /\ r.enc = reg.enc
      /\ nc_cfg.rand => r.rand = "encode" /\ "RAN_SEL" \in r.cnfg
      /\ ~nc_cfg.rand => r = reg
  BY OnWrites DEF NcInv
<1>2. nc_pc = "idle" /\ UNCHANGED <<nc_cfg, told, moved, given_up>>
  BY DEF WritePage, SameReport
<1>3. OkIsMoved'
  BY <1>2, ReportKept DEF NcInv
<1>4. \/ reg' = Dma(f, "BWR") /\ Goto("write", "page_out") /\ OnTime
      \/ reg' \in {Status(PageRandomizerOff(x)) : x \in {NfiReset(r), f}}
         /\ Goto("status", "status") /\ Late
  BY DEF WritePage
<1>5. /\ f \in Registers /\ f.mode = "prgm" /\ f.cnfg = (r.cnfg \ {"READ_EN"}) \cup PageBits
      /\ f.rand = r.rand /\ f.dec = r.dec /\ f.enc = TRUE
  <2> HIDE DEF r
  <2> QED BY <1>1, WriteSetup
<1>6. ~nc_cfg.rand => r.rand = "off"
  BY <1>1 DEF NcInv, RandomizerRests
<1>7. ~nc_late /\ ~given_up => ~reg.dec
  BY <1>2 DEF NcInv, EnginesRest
<1>8. CASE reg' = Dma(f, "BWR") /\ Goto("write", "page_out") /\ OnTime
  <2> DEFINE d == Dma(f, "BWR")
  <2>1. /\ d \in Registers /\ d.con = "BWR" /\ d.mode = f.mode
        /\ d.cnfg = f.cnfg \ {"BYTE_RW"} /\ SameEngines(f, d)
    <3> HIDE DEF f
    <3> QED BY <1>5, DmaWrites DEF Bursts
  <2>2. reg' = d /\ nc_pc' = "write" /\ xfer' = "page_out" /\ nc_late' = nc_late
    BY <1>8 DEF Goto, OnTime
  <2> HIDE DEF d, f, r
  <2>3. Wants({"prgm"}, "BWR", PageBits)' /\ "BYTE_RW" \notin reg'.cnfg
    <3>1. r.cnfg \subseteq Bit7
      BY <1>1 DEF Registers
    <3>2. d.cnfg \ {"BYTE_RW", "RAN_SEL", "RAN_SEC"} = PageBits
      BY <1>5, <2>1, <3>1 DEF PageBits, Bit7
    <3> QED BY <1>5, <2>1, <2>2, <3>2 DEF Wants
  <2>4. /\ nc_cfg'.rand => "RAN_SEL" \in reg'.cnfg
        /\ reg'.rand = "encode" <=> nc_cfg'.rand
    BY <1>1, <1>2, <1>5, <1>6, <2>1, <2>2 DEF SameEngines
  <2>5. reg'.enc = TRUE /\ reg'.dec = reg.dec
    BY <1>1, <1>5, <2>1, <2>2 DEF SameEngines
  <2>6. SetUpForTransfer'
    BY <2>2, <2>3, <2>4, <2>5 DEF SetUpForTransfer
  <2>7. PagesMove'
    BY <2>2 DEF PagesMove
  <2>8. RandomizerRests'
    BY <1>2, <1>5, <1>6, <2>1, <2>2 DEF RandomizerRests, SameEngines, ReadingOrWriting
  <2>9. EnginesRest'
    BY <1>2, <1>7, <2>2, <2>5 DEF EnginesRest
  <2> QED BY <1>3, <2>1, <2>2, <2>6, <2>7, <2>8, <2>9 DEF NcInv
<1>9. CASE /\ reg' \in {Status(PageRandomizerOff(x)) : x \in {NfiReset(r), f}}
           /\ Goto("status", "status") /\ Late
  <2>1. PICK x \in {NfiReset(r), f} : reg' = Status(PageRandomizerOff(x))
    BY <1>9
  <2>2. x \in Registers
    <3> HIDE DEF f
    <3>1. NfiReset(r) \in Registers
      <4> HIDE DEF r
      <4> QED BY <1>1, ResetWrites
    <3> QED BY <1>5, <2>1, <3>1
  <2> HIDE DEF f, r
  <2> DEFINE p == PageRandomizerOff(x)
  <2>3. p \in Registers /\ reg' = Status(p)
    BY <2>1, <2>2, PageOffWrites
  <2> HIDE DEF p
  <2>4. /\ reg' \in Registers /\ reg'.con = "SRD" /\ reg'.rand = "off"
        /\ reg'.cnfg \cap {"READ_EN", "AHB", "HW_ECC", "BYTE_RW"} = {"READ_EN"}
    BY <2>3, StatusWrites
  <2>5. nc_pc' = "status" /\ xfer' = "status" /\ nc_late' = TRUE
    BY <1>9 DEF Goto, Late
  <2>6. SetUpForTransfer'
    BY <2>4, <2>5 DEF SetUpForTransfer
  <2> QED BY <1>3, <2>4, <2>5, <2>6 DEF NcInv, PagesMove, RandomizerRests, EnginesRest
<1> QED BY <1>4, <1>8, <1>9

\* The command for the status sets itself up, whatever was set before it.
LEMMA StatusSetUp ==
  ASSUME NEW r \in Registers, reg' = Status(r), xfer' = "status"
  PROVE  /\ SetUpForTransfer' /\ reg' \in Registers /\ reg'.rand = "off"
         /\ reg'.dec = r.dec /\ reg'.enc = r.enc
<1>1. /\ reg' \in Registers /\ reg'.con = "SRD" /\ reg'.rand = "off"
      /\ reg'.cnfg \cap {"READ_EN", "AHB", "HW_ECC", "BYTE_RW"} = {"READ_EN"}
      /\ reg'.dec = r.dec /\ reg'.enc = r.enc
  BY StatusWrites
<1>2. SetUpForTransfer'
  BY <1>1 DEF SetUpForTransfer
<1> QED BY <1>1, <1>2

LEMMA WritePageEndKeeps == NcInv /\ WritePageEnd => NcInv'
<1> SUFFICES ASSUME NcInv, WritePageEnd PROVE NcInv'
  OBVIOUS
<1> DEFINE s == StopWrite(reg)
           p == PageRandomizerOff(s)
<1>1. /\ nc_pc = "write" /\ nc_pc' = "status" /\ xfer' = "status" /\ reg' = Status(p)
      /\ nc_late' = nc_late \/ nc_late' = TRUE
      /\ UNCHANGED <<nc_cfg, told, moved, given_up>>
  BY DEF WritePageEnd, Goto, SameReport, OnTime, Late
<1>2. s \in Registers /\ s.enc = FALSE /\ s.dec = reg.dec
  BY StopWrites DEF NcInv
<1> HIDE DEF s
<1>3. p \in Registers /\ p.enc = s.enc /\ p.dec = s.dec
  BY <1>2, PageOffWrites
<1> HIDE DEF p
<1>4. /\ SetUpForTransfer' /\ reg' \in Registers /\ reg'.rand = "off"
      /\ reg'.dec = p.dec /\ reg'.enc = p.enc
  BY <1>1, <1>3, StatusSetUp
<1>5. OkIsMoved'
  BY <1>1, ReportKept DEF NcInv
<1>6. EnginesRest'
  BY <1>1, <1>2, <1>3, <1>4 DEF NcInv, EnginesRest
<1> QED BY <1>1, <1>4, <1>5, <1>6 DEF NcInv, PagesMove, RandomizerRests

LEMMA EraseBlockKeeps == NcInv /\ EraseBlock => NcInv'
<1> SUFFICES ASSUME NcInv, EraseBlock PROVE NcInv'
  OBVIOUS
<1> DEFINE m == Mode(NfiReset(reg), "erase")
<1>1. /\ nc_pc = "idle" /\ nc_pc' = "status" /\ xfer' = "status" /\ reg' = Status(m)
      /\ nc_late' = nc_late \/ nc_late' = TRUE
      /\ UNCHANGED <<nc_cfg, told, moved, given_up>>
  BY DEF EraseBlock, Goto, SameReport, OnTime, Late
<1>2. m \in Registers /\ SameEngines(reg, m)
  BY ResetWrites, ModeWrites DEF NcInv, SameEngines, Modes
<1> HIDE DEF m
<1>3. /\ SetUpForTransfer' /\ reg' \in Registers /\ reg'.rand = "off"
      /\ reg'.dec = m.dec /\ reg'.enc = m.enc
  BY <1>1, <1>2, StatusSetUp
<1>4. OkIsMoved'
  BY <1>1, ReportKept DEF NcInv
<1>5. EnginesRest'
  BY <1>1, <1>2, <1>3 DEF NcInv, EnginesRest, SameEngines
<1> QED BY <1>1, <1>3, <1>4, <1>5 DEF NcInv, PagesMove, RandomizerRests

LEMMA StatusEndKeeps == NcInv /\ StatusEnd => NcInv'
<1> SUFFICES ASSUME NcInv, StatusEnd PROVE NcInv'
  OBVIOUS
<1>1. /\ nc_pc = "status" /\ nc_pc' \in {"spare_out", "idle"} /\ xfer' = "none"
      /\ reg' = StatusRead(reg) /\ UNCHANGED <<nc_cfg, told, moved, nc_late, given_up>>
  BY DEF StatusEnd, Goto, SameReport
<1>2. reg' \in Registers /\ SameEngines(reg, reg')
  BY <1>1, StatusReadWrites DEF NcInv
<1> QED BY <1>1, <1>2, ReportKept, NothingMoves, PassesBy DEF NcInv, ReadingOrWriting

LEMMA StartSpareKeeps ==
  ASSUME NEW pc \in {"spare_in", "spare_out"}, NcInv, StartSpare(pc)
  PROVE  NcInv'
<1>1. /\ nc_pc = "idle" /\ nc_pc' = pc /\ told' = "none"
      /\ UNCHANGED <<nc_cfg, reg, xfer, nc_late, given_up>>
  BY DEF StartSpare
<1>2. SetUpForTransfer'
  BY <1>1 DEF NcInv, SetUpForTransfer, Wants
<1>3. PagesMove' /\ OkIsMoved' /\ reg' \in Registers
  BY <1>1 DEF NcInv, PagesMove, OkIsMoved
<1>4. RandomizerRests'
  BY <1>1 DEF NcInv, RandomizerRests, ReadingOrWriting
<1>5. EnginesRest'
  BY <1>1 DEF NcInv, EnginesRest
<1> QED BY <1>2, <1>3, <1>4, <1>5 DEF NcInv
LEMMA SpareSetupWrites ==
  ASSUME reg \in Registers
  PROVE  /\ SpareSetup \in Registers /\ SpareSetup.mode \in {"read", "cust"}
         /\ SpareSetup.cnfg \ {"BYTE_RW", "RAN_SEL", "RAN_SEC"} = {"READ_EN"}
         /\ SameEngines(reg, SpareSetup)
<1>1. CASE Random
  <2> DEFINE m == Mode(NfiReset(reg), "cust")
             s == Spare(m)
             b == Bits(s, {"READ_EN"}, {})
  <2>1. m \in Registers /\ m.mode = "cust" /\ SameEngines(reg, m)
    BY ResetWrites, ModeWrites DEF SameEngines, Modes
  <2>2. SpareSetup = b
    BY <1>1 DEF SpareSetup
  <2> HIDE DEF m
  <2>3. s \in Registers /\ s.mode = "cust" /\ s.cnfg = m.cnfg \ PageBits /\ SameEngines(reg, s)
    BY <2>1, SpareWrites DEF SameEngines
  <2> HIDE DEF s
  <2>4. BitsWritten(s, {"READ_EN"}, {}, b)
    <3>1. {"READ_EN"} \in SUBSET Bit7
      BY DEF Bit7
    <3> QED BY <2>3, <3>1, BitsWrite
  <2> HIDE DEF b
  <2>5. b \in Registers /\ b.mode = "cust" /\ SameEngines(reg, b) /\ b.cnfg = s.cnfg \cup {"READ_EN"}
    BY <2>3, <2>4 DEF BitsWritten, SameEngines
  <2>6. b.cnfg \ {"BYTE_RW", "RAN_SEL", "RAN_SEC"} = {"READ_EN"}
    <3>1. m.cnfg \subseteq Bit7
      BY <2>1 DEF Registers
    <3> QED BY <2>3, <2>5, <3>1 DEF PageBits, Bit7
  <2> QED BY <2>2, <2>5, <2>6
<1>2. CASE ~Random
  <2> DEFINE b == ReadyForRead(reg, FALSE)
  <2>1. SpareSetup = b
    BY <1>2 DEF SpareSetup
  <2>2. /\ b \in Registers /\ b.mode = "read" /\ SameEngines(reg, b)
        /\ b.cnfg = (reg.cnfg \cup {"READ_EN"}) \ PageBits
    BY ReadSetup
  <2> HIDE DEF b
  <2>3. b.cnfg \ {"BYTE_RW", "RAN_SEL", "RAN_SEC"} = {"READ_EN"}
    <3>1. reg.cnfg \subseteq Bit7
      BY DEF Registers
    <3> QED BY <2>2, <3>1 DEF PageBits, Bit7
  <2> QED BY <2>1, <2>2, <2>3
<1> QED BY <1>1, <1>2

LEMMA ReadSpareKeeps == NcInv /\ ReadSpare => NcInv'
<1> SUFFICES ASSUME NcInv, ReadSpare PROVE NcInv'
  OBVIOUS
<1> DEFINE u == SpareSetup
<1>1. /\ u \in Registers /\ u.mode \in {"read", "cust"}
      /\ u.cnfg \ {"BYTE_RW", "RAN_SEL", "RAN_SEC"} = {"READ_EN"}
      /\ SameEngines(reg, u)
  BY SpareSetupWrites DEF NcInv
<1>2. nc_pc = "spare_in" /\ UNCHANGED <<nc_cfg, given_up>>
  BY DEF ReadSpare
<1>3. \/ /\ reg' \in Mcu(u, "BRD") /\ nc_pc' = "moving_in" /\ xfer' = "spare_in"
         /\ UNCHANGED <<nc_late, told, moved>>
      \/ /\ reg' \in {NfiReset(reg), u} /\ nc_pc' = "idle" /\ xfer' = "none" /\ nc_late' = TRUE
         /\ told' = LateReport /\ UNCHANGED moved
  BY DEF ReadSpare, McuRead, Goto, OnTime, Late
<1> HIDE DEF u
<1>4. CASE /\ reg' \in Mcu(u, "BRD") /\ nc_pc' = "moving_in" /\ xfer' = "spare_in"
           /\ UNCHANGED <<nc_late, told, moved>>
  <2>1. /\ reg' \in Registers /\ reg'.con = "BRD" /\ reg'.mode = u.mode /\ SameEngines(u, reg')
        /\ reg'.cnfg \ {"BYTE_RW", "RAN_SEL", "RAN_SEC"} = u.cnfg \ {"BYTE_RW", "RAN_SEL", "RAN_SEC"}
    BY <1>1, <1>4, McuWrites DEF Bursts
  <2>2. SetUpForTransfer'
    <3>1. Wants({"read", "cust"}, "BRD", {"READ_EN"})'
      BY <1>1, <2>1 DEF Wants
    <3> QED BY <1>4, <3>1 DEF SetUpForTransfer
  <2>3. OkIsMoved'
    BY <1>2, <1>4, ReportKept DEF NcInv
  <2>4. SameEngines(reg, reg')
    BY <1>1, <2>1 DEF SameEngines
  <2> QED BY <1>2, <1>4, <2>1, <2>2, <2>3, <2>4, PassesBy DEF ReadingOrWriting
<1>5. CASE /\ reg' \in {NfiReset(reg), u} /\ nc_pc' = "idle" /\ xfer' = "none" /\ nc_late' = TRUE
           /\ told' = LateReport /\ UNCHANGED moved
  <2>1. reg' \in Registers /\ SameEngines(reg, reg')
    BY <1>1, <1>5, ResetWrites DEF NcInv
  <2>2. OkIsMoved'
    BY <1>2, <1>5 DEF OkIsMoved, LateReport, Random
  <2> QED BY <1>2, <1>5, <2>1, <2>2, NothingMoves, PassesBy DEF ReadingOrWriting
<1> QED BY <1>3, <1>4, <1>5

LEMMA ReadSpareEndKeeps == NcInv /\ ReadSpareEnd => NcInv'
<1> SUFFICES ASSUME NcInv, ReadSpareEnd PROVE NcInv'
  OBVIOUS
<1>1. nc_pc = "moving_in" /\ UNCHANGED <<nc_cfg, given_up>>
  BY DEF ReadSpareEnd
<1>2. /\ xfer' = "none" /\ nc_pc' \in {"idle", "spare_in"}
      /\ (told' = "ok" /\ moved' = TRUE) \/ UNCHANGED <<told, moved>> \/ told' = "error"
      /\ \/ reg' = StopRead(reg) /\ UNCHANGED nc_late
         \/ reg' = Con(reg, "0") /\ nc_late' = TRUE
  BY DEF ReadSpareEnd, Goto, OnTime, Late
<1>3. OkIsMoved'
  BY <1>1, <1>2, ReportKept DEF NcInv, OkIsMoved
<1>4. CASE reg' = Con(reg, "0") /\ nc_late' = TRUE
  <2>1. reg' \in Registers /\ SameEngines(reg, reg')
    BY <1>4, ConWrites DEF NcInv, SameEngines, Bursts
  <2> QED BY <1>1, <1>2, <1>3, <1>4, <2>1, NothingMoves, PassesBy DEF ReadingOrWriting
<1>5. CASE reg' = StopRead(reg) /\ UNCHANGED nc_late
  <2>1. reg' \in Registers /\ reg'.rand = reg.rand /\ reg'.dec = FALSE /\ reg'.enc = reg.enc
    BY <1>5, StopWrites DEF NcInv
  <2>2. RandomizerRests'
    BY <1>1, <1>2, <2>1 DEF NcInv, RandomizerRests, ReadingOrWriting
  <2>3. EnginesRest'
    BY <1>1, <1>5, <2>1 DEF NcInv, EnginesRest
  <2> QED BY <1>2, <1>3, <2>1, <2>2, <2>3, NothingMoves DEF NcInv, PagesMove
<1> QED BY <1>2, <1>4, <1>5

LEMMA WriteSpareKeeps == NcInv /\ WriteSpare => NcInv'
<1> SUFFICES ASSUME NcInv, WriteSpare PROVE NcInv'
  OBVIOUS
<1> DEFINE u == ReadyForWrite(reg, FALSE)
<1>1. /\ u \in Registers /\ u.mode = "prgm" /\ u.cnfg = (reg.cnfg \ {"READ_EN"}) \ PageBits
      /\ SameEngines(reg, u)
  BY WriteSetup DEF NcInv
<1>2. nc_pc = "spare_out" /\ UNCHANGED <<nc_cfg, moved, given_up>>
  BY DEF WriteSpare
<1>3. \/ /\ reg' \in Mcu(u, "BWR") /\ nc_pc' = "moving_out" /\ xfer' = "spare_out"
         /\ UNCHANGED <<nc_late, told>>
      \/ /\ reg' \in {NfiReset(reg), u} /\ nc_pc' = "idle" /\ xfer' = "none" /\ nc_late' = TRUE
         /\ told' = "error"
  BY DEF WriteSpare, McuWrite, Goto, OnTime, Late
<1> HIDE DEF u
<1>4. u.cnfg \ {"BYTE_RW", "RAN_SEL", "RAN_SEC"} = {}
  <2>1. reg.cnfg \subseteq Bit7
    BY DEF NcInv, Registers
  <2> QED BY <1>1, <2>1 DEF PageBits, Bit7
<1>5. CASE /\ reg' \in Mcu(u, "BWR") /\ nc_pc' = "moving_out" /\ xfer' = "spare_out"
           /\ UNCHANGED <<nc_late, told>>
  <2>1. /\ reg' \in Registers /\ reg'.con = "BWR" /\ reg'.mode = u.mode /\ SameEngines(u, reg')
        /\ reg'.cnfg \ {"BYTE_RW", "RAN_SEL", "RAN_SEC"} = u.cnfg \ {"BYTE_RW", "RAN_SEL", "RAN_SEC"}
    BY <1>1, <1>5, McuWrites DEF Bursts
  <2>2. SetUpForTransfer'
    <3>1. Wants({"prgm"}, "BWR", {})'
      BY <1>1, <1>4, <2>1 DEF Wants
    <3> QED BY <1>5, <3>1 DEF SetUpForTransfer
  <2>3. OkIsMoved'
    BY <1>2, <1>5, ReportKept DEF NcInv
  <2>4. SameEngines(reg, reg')
    BY <1>1, <2>1 DEF SameEngines
  <2> QED BY <1>2, <1>5, <2>1, <2>2, <2>3, <2>4, PassesBy DEF ReadingOrWriting
<1>6. CASE /\ reg' \in {NfiReset(reg), u} /\ nc_pc' = "idle" /\ xfer' = "none" /\ nc_late' = TRUE
           /\ told' = "error"
  <2>1. reg' \in Registers /\ SameEngines(reg, reg')
    BY <1>1, <1>6, ResetWrites DEF NcInv
  <2>2. OkIsMoved'
    BY <1>6 DEF OkIsMoved
  <2> QED BY <1>2, <1>6, <2>1, <2>2, NothingMoves, PassesBy DEF ReadingOrWriting
<1> QED BY <1>3, <1>5, <1>6

LEMMA WriteSpareEndKeeps == NcInv /\ WriteSpareEnd => NcInv'
<1> SUFFICES ASSUME NcInv, WriteSpareEnd PROVE NcInv'
  OBVIOUS
<1> DEFINE c == Con(reg, "0")
<1>1. nc_pc = "moving_out" /\ UNCHANGED <<nc_cfg, given_up>>
  BY DEF WriteSpareEnd
<1>2. \/ /\ reg' = Status(c) /\ nc_pc' = "status" /\ xfer' = "status"
         /\ nc_late' = nc_late \/ nc_late' = TRUE
         /\ (told' = "ok" /\ moved' = TRUE) \/ UNCHANGED <<told, moved>>
      \/ /\ reg' = reg /\ nc_pc' = "idle" /\ xfer' = "none" /\ nc_late' = TRUE /\ told' = "error"
  BY DEF WriteSpareEnd, Goto, OnTime, Late
<1>3. c \in Registers /\ SameEngines(reg, c)
  BY ConWrites DEF NcInv, SameEngines, Bursts
<1> HIDE DEF c
<1>4. OkIsMoved'
  BY <1>1, <1>2, ReportKept DEF NcInv, OkIsMoved
<1>5. CASE /\ reg' = Status(c) /\ nc_pc' = "status" /\ xfer' = "status"
           /\ nc_late' = nc_late \/ nc_late' = TRUE
  <2>1. /\ SetUpForTransfer' /\ reg' \in Registers /\ reg'.rand = "off"
        /\ reg'.dec = c.dec /\ reg'.enc = c.enc
    BY <1>3, <1>5, StatusSetUp
  <2>2. EnginesRest'
    BY <1>1, <1>3, <1>5, <2>1 DEF NcInv, EnginesRest, SameEngines
  <2> QED BY <1>4, <1>5, <2>1, <2>2 DEF NcInv, PagesMove, RandomizerRests
<1>6. CASE reg' = reg /\ nc_pc' = "idle" /\ xfer' = "none" /\ nc_late' = TRUE
  <2>1. reg' \in Registers /\ SameEngines(reg, reg')
    BY <1>6 DEF NcInv, SameEngines
  <2> QED BY <1>1, <1>4, <1>6, <2>1, NothingMoves, PassesBy DEF ReadingOrWriting
<1> QED BY <1>2, <1>5, <1>6

LEMMA IdentifyKeeps == NcInv /\ (Identify \/ FastInterface \/ GetFeature \/ Identified) => NcInv'
<1>1. ASSUME NcInv, Identify PROVE NcInv'
  <2>1. /\ nc_pc = "boot" /\ nc_pc' = "identify" /\ xfer' = "id" /\ reg' = ReadId(reg)
        /\ UNCHANGED <<nc_cfg, told, moved, nc_late, given_up>>
    BY <1>1 DEF Identify, Goto, SameReport
  <2>2. /\ reg' \in Registers /\ reg'.con = "SRD" /\ "READ_EN" \in reg'.cnfg
        /\ "HW_ECC" \notin reg'.cnfg /\ SameEngines(reg, reg')
    BY <1>1, <2>1, IdWrites DEF NcInv
  <2>3. SetUpForTransfer'
    BY <2>1, <2>2 DEF SetUpForTransfer
  <2>4. OkIsMoved'
    BY <1>1, <2>1, ReportKept DEF NcInv
  <2> QED BY <1>1, <2>1, <2>2, <2>3, <2>4, PassesBy DEF ReadingOrWriting
<1>2. ASSUME NcInv, NEW b \in SUBSET Bit7, NEW k \in Bursts,
             reg' = Con(Custom(NfiReset(reg), b), k)
      PROVE  /\ reg' \in Registers /\ reg'.con = k /\ reg'.mode = "cust" /\ reg'.cnfg = b
             /\ SameEngines(reg, reg')
  <2> DEFINE n == NfiReset(reg)
             c == Custom(n, b)
  <2>1. n \in Registers /\ SameEngines(reg, n)
    BY <1>2, ResetWrites DEF NcInv
  <2> HIDE DEF n
  <2>2. c \in Registers /\ c.mode = "cust" /\ c.cnfg = b /\ SameEngines(n, c)
    BY <2>1, CustomWrites
  <2>3. reg' = Con(c, k)
    BY <1>2 DEF n
  <2> HIDE DEF c
  <2> QED BY <2>1, <2>2, <2>3, ConWrites DEF SameEngines
<1>3. ASSUME NcInv, FastInterface PROVE NcInv'
  <2>1. /\ nc_pc = "boot" /\ nc_pc' = "identify" /\ xfer' = "feature_out"
        /\ reg' = Con(Custom(NfiReset(reg), {"BYTE_RW"}), "BWR")
        /\ nc_late' = nc_late \/ nc_late' = TRUE
        /\ UNCHANGED <<nc_cfg, told, moved, given_up>>
    BY <1>3 DEF FastInterface, Goto, SameReport, OnTime, Late
  <2>2. {"BYTE_RW"} \in SUBSET Bit7 /\ "BWR" \in Bursts
    BY DEF Bit7, Bursts
  <2>3. /\ reg' \in Registers /\ reg'.con = "BWR" /\ reg'.mode = "cust" /\ reg'.cnfg = {"BYTE_RW"}
        /\ SameEngines(reg, reg')
    BY <1>2, <1>3, <2>1, <2>2
  <2>4. SetUpForTransfer'
    BY <2>1, <2>3 DEF SetUpForTransfer, Wants
  <2>5. OkIsMoved'
    BY <1>3, <2>1, ReportKept DEF NcInv
  <2> QED BY <1>3, <2>1, <2>3, <2>4, <2>5, PassesBy DEF ReadingOrWriting
<1>4. ASSUME NcInv, GetFeature PROVE NcInv'
  <2>1. /\ nc_pc \in {"boot", "identify"} /\ nc_pc' = "identify" /\ xfer' = "feature_in"
        /\ reg' = Con(Custom(NfiReset(reg), {"BYTE_RW", "READ_EN"}), "SRD")
        /\ nc_late' = nc_late \/ nc_late' = TRUE
        /\ UNCHANGED <<nc_cfg, told, moved, given_up>>
    BY <1>4 DEF GetFeature, Goto, SameReport, OnTime, Late
  <2>2. {"BYTE_RW", "READ_EN"} \in SUBSET Bit7 /\ "SRD" \in Bursts
    BY DEF Bit7, Bursts
  <2>3. /\ reg' \in Registers /\ reg'.con = "SRD" /\ reg'.mode = "cust"
        /\ reg'.cnfg = {"BYTE_RW", "READ_EN"} /\ SameEngines(reg, reg')
    BY <1>2, <1>4, <2>1, <2>2
  <2>4. SetUpForTransfer'
    <3>1. {"BYTE_RW", "READ_EN"} \ {"BYTE_RW", "RAN_SEL", "RAN_SEC"} = {"READ_EN"}
      OBVIOUS
    <3> QED BY <2>1, <2>3, <3>1 DEF SetUpForTransfer, Wants
  <2>5. OkIsMoved'
    BY <1>4, <2>1, ReportKept DEF NcInv
  <2> QED BY <1>4, <2>1, <2>3, <2>4, <2>5, PassesBy DEF ReadingOrWriting
<1>5. ASSUME NcInv, Identified PROVE NcInv'
  <2>1. /\ nc_pc = "identify" /\ nc_pc' \in {"boot", "idle"} /\ xfer' = "none" /\ reg' = reg
        /\ UNCHANGED <<nc_cfg, told, moved, nc_late, given_up>>
    BY <1>5 DEF Identified, Goto, SameReport
  <2>2. reg' \in Registers /\ SameEngines(reg, reg') /\ OkIsMoved'
    BY <1>5, <2>1, ReportKept DEF NcInv, SameEngines
  <2> QED BY <1>5, <2>1, <2>2, NothingMoves, PassesBy DEF ReadingOrWriting
<1> QED BY <1>1, <1>3, <1>4, <1>5

LEMMA NcKept == NcInv /\ [ControllerNext]_ncVars => NcInv'
<1> SUFFICES ASSUME NcInv, [ControllerNext]_ncVars PROVE NcInv'
  OBVIOUS
<1>1. CASE UNCHANGED ncVars
  <2>1. UNCHANGED <<nc_cfg, reg, nc_pc, xfer, told, moved, nc_late, given_up>>
    BY <1>1 DEF ncVars
  <2>2. SetUpForTransfer'
    BY <2>1 DEF NcInv, SetUpForTransfer, Wants
  <2>3. RandomizerRests'
    BY <2>1 DEF NcInv, RandomizerRests
  <2>4. EnginesRest'
    BY <2>1 DEF NcInv, EnginesRest
  <2> QED BY <2>1, <2>2, <2>3, <2>4 DEF NcInv, PagesMove, OkIsMoved, Random
<1>2. CASE Identify \/ FastInterface \/ GetFeature \/ Identified
  BY <1>2, IdentifyKeeps
<1>3. CASE ReadPage \/ ReadPageEnd
  BY <1>3, ReadPageKeeps, ReadPageEndKeeps
<1>4. CASE Setting \/ SettingEnd
  BY <1>4, SettingKeeps, SettingEndKeeps
<1>5. CASE WritePage \/ WritePageEnd \/ EraseBlock \/ StatusEnd
  BY <1>5, WritePageKeeps, WritePageEndKeeps, EraseBlockKeeps, StatusEndKeeps
<1>6. CASE StartSpare("spare_in") \/ StartSpare("spare_out")
  BY <1>6, StartSpareKeeps
<1>7. CASE ReadSpare \/ ReadSpareEnd \/ WriteSpare \/ WriteSpareEnd
  BY <1>7, ReadSpareKeeps, ReadSpareEndKeeps, WriteSpareKeeps, WriteSpareEndKeeps
<1> QED BY <1>1, <1>2, <1>3, <1>4, <1>5, <1>6, <1>7 DEF ControllerNext

LEMMA NcTruth ==
  NcInv => SetUpForTransfer /\ RandomizerForPagesOnly /\ OneEngine /\ SpareReportsTruth
<1> SUFFICES ASSUME NcInv
             PROVE  SetUpForTransfer /\ RandomizerForPagesOnly /\ OneEngine /\ SpareReportsTruth
  OBVIOUS
<1>1. RandomizerForPagesOnly
  BY DEF NcInv, PagesMove, RandomizerRests, RandomizerForPagesOnly, ReadingOrWriting
<1>2. OneEngine
  BY DEF NcInv, PagesMove, EnginesRest, OneEngine
<1>3. SpareReportsTruth
  BY DEF NcInv, OkIsMoved, SpareReportsTruth
<1> QED BY <1>1, <1>2, <1>3 DEF NcInv

\* Whatever the driver did before, and wherever it gave up, the controller is
\* set up for each transfer as that transfer wants it, the randomizer and the
\* ECC engine of the other way keep out of it, and a raw access that reports
\* success has moved the whole spare area.
THEOREM ControllerFitsTransfer == BoardSpec => []NandInv
<1>1. BoardInit => NcInv
  BY BoardPartsStart, NcStarts
<1>2. NcInv /\ [BoardNext]_boardVars => NcInv'
  BY NandPartsStep, NcKept
<1>3. NcInv => NandInv
  BY NcTruth DEF NandInv
<1> QED BY <1>1, <1>2, <1>3, PTL DEF BoardSpec
-----------------------------------------------------------------------------
(* The timer.  One of the three readings of a look at the counter may be   *)
(* wrong, and the counter and the milliseconds made of it wrap at          *)
(* different ticks.                                                         *)

\* The counter has at least one value.
LEMMA CountKnown == Count \in Nat \ {0} /\ Count \in Int
BY GptSizes

\* The median of three readings of which one is wrong is the counter at one of
\* the two ticks.
LEMMA ReadingIs ==
  ASSUME NEW n \in Nat, NEW m \in {n, n + 1}, NEW r \in Readings(n, m)
  PROVE  \E k \in {n, m} : r = Counter(k)
<1> DEFINE a == Counter(n)
           b == Counter(m)
<1>1. a \in Nat /\ b \in Nat
  BY GptSizes, DivMod DEF Counter
<1>2. Count \div 2 \in Int /\ Count - 1 \in Int
  BY GptSizes
<1>3. ASSUME NEW x \in Int, NEW y \in Int PROVE Max({x, y}) = IF x >= y THEN x ELSE y
  <2> DEFINE z == IF x >= y THEN x ELSE y
  <2>1. \A v : v \in {x, y} /\ (\A u \in {x, y} : v >= u) <=> v = z
    OBVIOUS
  <2>2. (CHOOSE v \in {x, y} : \A u \in {x, y} : v >= u) = z
    BY <2>1
  <2> QED BY <2>2 DEF Max
<1>4. /\ Median(a, a, b) = a \/ Median(a, a, b) = b
      /\ Median(a, b, b) = a \/ Median(a, b, b) = b
  BY <1>1, <1>3 DEF Median
<1>5. ASSUME a <= b, NEW w \in Int
      PROVE  {Median(w, a, b), Median(a, w, b), Median(a, b, w)} \subseteq {a, b} \/ b > a + 1
  <2>1. CASE b = a \/ b = a + 1
    <3>1. Median(w, a, b) \in {a, b}
      BY <1>1, <1>3, <2>1 DEF Median
    <3>2. Median(a, w, b) \in {a, b}
      BY <1>1, <1>3, <2>1 DEF Median
    <3>3. Median(a, b, w) \in {a, b}
      BY <1>1, <1>3, <2>1 DEF Median
    <3> QED BY <3>1, <3>2, <3>3
  <2> QED BY <1>1, <1>5, <2>1
<1>6. a <= b => b <= a + 1
  <2>1. CASE m = n
    BY <1>1, <2>1
  <2>2. CASE m = n + 1
    <3>1. a \in 0 .. Count - 1
      BY CountKnown, DivMod DEF Counter
    <3>2. (n + 1) % Count = IF a + 1 < Count THEN a + 1 ELSE 0
      BY CountKnown, ModNext DEF Counter
    <3> QED BY <1>1, <2>2, <3>1, <3>2 DEF Counter
  <2> QED BY <2>1, <2>2
<1>7. r \in {a, b}
  <2> HIDE DEF a, b
  <2>1. CASE r \in {Median(a, a, b), Median(a, b, b)}
    BY <1>4, <2>1
  <2>2. CASE r \notin {Median(a, a, b), Median(a, b, b)}
    <3>1. PICK w \in {0, Count \div 2, Count - 1} :
            a <= b /\ r \in {Median(w, a, b), Median(a, w, b), Median(a, b, w)}
      BY <2>2 DEF Readings, a, b
    <3>2. w \in Int
      BY <1>2
    <3> QED BY <1>1, <1>5, <1>6, <3>1, <3>2
  <2> QED BY <2>1, <2>2
<1> QED BY <1>7

\* Ticks that go by are not overrated, and underrated by one if the counter wraps.
LEMMA ElapsedIs ==
  ASSUME NEW k \in Nat, NEW d \in Nat
  PROVE  /\ Elapsed(Counter(k), Counter(k + d)) <= d
         /\ d < Count => d - 1 <= Elapsed(Counter(k), Counter(k + d))
         /\ Elapsed(Counter(k), Counter(k + d)) \in Nat
<1>1. PICK q : q = k \div Count
  OBVIOUS
<1>2. PICK a : a = k % Count
  OBVIOUS
<1>3. PICK s : s = (k + d) \div Count
  OBVIOUS
<1>4. PICK b : b = (k + d) % Count
  OBVIOUS
<1>5. PICK u : u = Count * (s - q)
  OBVIOUS
<1>6. /\ q \in Nat /\ a \in 0 .. Count - 1 /\ k = Count * q + a
      /\ s \in Nat /\ b \in 0 .. Count - 1 /\ k + d = Count * s + b
  <2>1. q \in Nat /\ a \in 0 .. Count - 1 /\ k = Count * q + a
    BY <1>1, <1>2, CountKnown, DivMod
  <2>2. k + d \in Nat
    OBVIOUS
  <2>3. s \in Nat /\ b \in 0 .. Count - 1 /\ k + d = Count * s + b
    BY <1>3, <1>4, <2>2, CountKnown, DivMod
  <2> QED BY <2>1, <2>3
<1>7. Count * (s - q) = Count * s - Count * q /\ Count * s \in Int /\ Count * q \in Int
  BY <1>6, CountKnown
<1>8. u \in Int /\ d = u + b - a
  <2>1. u = Count * s - Count * q
    BY <1>5, <1>7
  <2>2. PICK x : x = Count * s
    OBVIOUS
  <2>3. PICK y : y = Count * q
    OBVIOUS
  <2>4. x \in Int /\ y \in Int /\ u = x - y /\ k = y + a /\ k + d = x + b
    BY <1>6, <1>7, <2>1, <2>2, <2>3
  <2>5. a \in Int /\ b \in Int
    BY <1>6, CountKnown
  <2> QED BY <2>4, <2>5
<1>9. s - q >= 0
  <2>1. Count * q < Count * s + Count
    BY <1>6, <1>7, CountKnown
  <2> QED BY <1>6, <2>1, CountKnown, FactorBelow
<1>10. u = 0 \/ u >= Count
  <2>1. CASE s = q
    BY <1>5, <1>6, <1>7, <2>1
  <2>2. CASE s # q
    <3>1. s - q - 1 >= 0
      BY <1>6, <1>9, <2>2
    <3>2. Count * (s - q - 1) >= 0
      BY <1>6, <3>1, CountKnown
    <3>3. Count * (s - q - 1) = u - Count
      BY <1>5, <1>6, CountKnown
    <3> QED BY <1>8, <3>2, <3>3, CountKnown
  <2> QED BY <2>1, <2>2
<1>11. u = 0 \/ u = Count \/ d >= Count
  <2>1. CASE s <= q + 1
    <3>1. s = q \/ s = q + 1
      BY <1>6, <1>9, <2>1
    <3>2. Count * 1 = Count /\ Count * 0 = 0
      BY CountKnown
    <3>3. s - q = 0 \/ s - q = 1
      BY <1>6, <3>1
    <3> QED BY <1>5, <3>2, <3>3
  <2>2. CASE s > q + 1
    <3>1. Count * (s - q - 2) >= 0
      BY <1>6, <2>2, CountKnown
    <3>2. Count * (s - q - 2) = u - Count - Count
      BY <1>5, <1>6, CountKnown
    <3> QED BY <1>6, <1>8, <3>1, <3>2, CountKnown
  <2> QED BY <1>6, <2>1, <2>2
<1>12. Elapsed(a, b) = IF a <= b THEN b - a ELSE Count - 1 - a + b
  BY CountKnown, <1>6 DEF Elapsed, GPT4_MAX_TICK_CNT
<1>13. Elapsed(a, b) <= d /\ (d < Count => d - 1 <= Elapsed(a, b)) /\ Elapsed(a, b) \in Nat
  BY <1>6, <1>8, <1>10, <1>11, <1>12, CountKnown
<1> QED BY <1>2, <1>4, <1>13 DEF Counter
-----------------------------------------------------------------------------
(* The types of the timer's variables.                                      *)

GptTypes ==
  /\ gpt_now \in Nat
  /\ gpt_wait \in [pc : {"idle", "wait", "done", "clock"}, unit : {"us", "ms"}, t : Nat,
                   start : Nat, since : Nat, ticks : Nat]
  /\ gpt_clock \in [timestamp : Int, lastinc : Int, reset : 0 .. Count - 1]

\* A wait has as many ticks as it needs, ...
TicksKnown ==
  gpt_wait.pc \in {"wait", "done"} /\ Waitable =>
    gpt_wait.ticks >= gpt_wait.t * (IF gpt_wait.unit = "us" THEN UsTick ELSE MsTick)

\* ... it began and was looked at where it says, ...
Looked(first, last) ==
  /\ first \in Nat /\ last \in Nat /\ gpt_wait.since <= first /\ first <= gpt_wait.since + 1
  /\ first <= last /\ last <= gpt_now /\ gpt_now <= last + 1
  /\ gpt_wait.start = Counter(first)
  /\ gpt_wait.ticks + Pause + 2 < Count => last - first <= gpt_wait.ticks

\* ... and when it is over the ticks have gone by.
WaitKnown ==
  /\ gpt_wait.pc = "wait" => \E first, last \in Nat : Looked(first, last)
  /\ gpt_wait.pc = "done" => gpt_now - gpt_wait.since >= gpt_wait.ticks

GptWaitInv == GptTypes /\ TicksKnown /\ WaitKnown

\* The limits of the waits are numbers, and below them the ticks are as many as
\* meant.
LEMMA LimitsKnown ==
  /\ GPT4_MAX_US_TIMEOUT \in Nat /\ GPT4_MAX_MS_TIMEOUT \in Nat
  /\ GPT4_MAX_US_TIMEOUT >= 3 /\ GPT4_MAX_MS_TIMEOUT >= 2
<1>1. Count - 1 \in Nat /\ UsTick \in Nat \ {0} /\ MsTick \in Nat \ {0}
  BY GptSizes
<1>2. UsTick * 3 + 0 <= Count - 1 /\ MsTick * 2 + 0 <= Count - 1
  BY GptSizes
<1>3. 0 \in 0 .. UsTick - 1 /\ 0 \in 0 .. MsTick - 1
  BY <1>1
<1>4. (UsTick * 3 + 0) \div UsTick = 3
  BY <1>1, <1>3, DivModUnique
<1>5. (MsTick * 2 + 0) \div MsTick = 2
  BY <1>1, <1>3, DivModUnique
<1>6. UsTick * 3 + 0 \in Nat /\ MsTick * 2 + 0 \in Nat
  BY <1>1
<1>7. 3 <= (Count - 1) \div UsTick /\ 2 <= (Count - 1) \div MsTick
  BY <1>1, <1>2, <1>4, <1>5, <1>6, DivMonotone
<1>8. (Count - 1) \div UsTick \in Nat /\ (Count - 1) \div MsTick \in Nat
  BY <1>1, DivMod
<1> QED BY <1>7, <1>8 DEF GPT4_MAX_US_TIMEOUT, GPT4_MAX_MS_TIMEOUT, GPT4_MAX_TICK_CNT

\* A wait that begins.
LEMMA StartWaitKeeps ==
  ASSUME GptWaitInv, NEW unit \in {"us", "ms"}, NEW t \in Nat, StartGptWait(unit, t)
  PROVE  GptWaitInv'
<1> DEFINE ticks == IF unit = "us" THEN gpt4_time2tick_us(t) ELSE gpt4_time2tick_ms(t)
<1>1. PICK m \in Later(gpt_now) \cap {gpt_now, gpt_now + 1} : \E r \in Readings(gpt_now, m) :
        /\ gpt_now' = m
        /\ gpt_wait' = [pc |-> "wait", unit |-> unit, t |-> t, start |-> r, since |-> gpt_now,
                        ticks |-> ticks]
  BY DEF StartGptWait
<1>2. PICK r \in Readings(gpt_now, m) :
        /\ gpt_now' = m
        /\ gpt_wait' = [pc |-> "wait", unit |-> unit, t |-> t, start |-> r, since |-> gpt_now,
                        ticks |-> ticks]
  BY <1>1
<1>3. gpt_now \in Nat /\ m \in {gpt_now, gpt_now + 1}
  BY <1>1 DEF GptWaitInv, GptTypes
<1>4. PICK k \in {gpt_now, m} : r = Counter(k)
  BY <1>3, ReadingIs
<1>5. /\ GPT4_MAX_US_TIMEOUT <= t \/ ticks = t * UsTick \/ unit = "ms"
      /\ GPT4_MAX_MS_TIMEOUT <= t \/ unit = "us" \/ ticks = Counter(t * MsTick + (t + 1) \div 2)
  BY DEF gpt4_time2tick_us, gpt4_time2tick_ms
<1>6. t * MsTick \in Nat /\ (t + 1) \div 2 \in Nat /\ t * UsTick \in Nat
  BY GptSizes
<1>7. ticks \in Nat
  <2>1. Counter(t * MsTick + (t + 1) \div 2) \in Nat
    BY <1>6, CountKnown, DivMod DEF Counter
  <2> QED BY <1>6, <2>1, LimitsKnown, CountKnown
          DEF gpt4_time2tick_us, gpt4_time2tick_ms, GPT4_MAX_TICK_CNT
<1> HIDE DEF ticks
<1>8. k \in Nat /\ r \in Nat
  <2>1. k \in Nat
    BY <1>3
  <2> QED BY <1>4, <2>1, CountKnown, DivMod DEF Counter
<1>9. GptTypes'
  BY <1>2, <1>3, <1>7, <1>8 DEF StartGptWait, GptWaitInv, GptTypes
<1>10. TicksKnown'
  <2> SUFFICES ASSUME Waitable'
               PROVE  ticks >= t * (IF unit = "us" THEN UsTick ELSE MsTick)
    BY <1>2 DEF TicksKnown
  <2>1. CASE unit = "us"
    <3>1. t < GPT4_MAX_US_TIMEOUT
      BY <1>2, <2>1 DEF Waitable
    <3> QED BY <1>5, <1>6, <2>1, <3>1, LimitsKnown
  <2>2. CASE unit = "ms"
    <3>1. t < GPT4_MAX_MS_TIMEOUT /\ t * MsTick + (t + 1) \div 2 < Count
      BY <1>2, <2>2 DEF Waitable
    <3>2. PICK x : x = t * MsTick + (t + 1) \div 2
      OBVIOUS
    <3>3. x \in 0 .. Count - 1 /\ x >= t * MsTick
      BY <1>6, <3>1, <3>2, CountKnown
    <3>4. Counter(x) = x
      BY <3>3, CountKnown DEF Counter
    <3> QED BY <1>5, <1>6, <2>2, <3>1, <3>2, <3>3, <3>4, LimitsKnown
  <2> QED BY <2>1, <2>2
<1>11. WaitKnown'
  <2>1. Looked(k, k)'
    BY <1>2, <1>3, <1>4, <1>7, <1>8, GptSizes DEF Looked
  <2> QED BY <1>2, <1>8, <2>1 DEF WaitKnown
<1> QED BY <1>9, <1>10, <1>11 DEF GptWaitInv

\* A look at the counter.
LEMMA PollKeeps == ASSUME GptWaitInv, PollGpt PROVE GptWaitInv'
<1>1. PICK n \in Later(gpt_now) \ {gpt_now} : \E m \in Later(n) \cap {n, n + 1} :
        \E r \in Readings(n, m) :
          /\ gpt_now' = m
          /\ gpt_wait' = IF gpt_wait.ticks <= Elapsed(gpt_wait.start, r)
                         THEN [gpt_wait EXCEPT !.pc = "done"] ELSE gpt_wait
  BY DEF PollGpt
<1>2. PICK m \in Later(n) \cap {n, n + 1} : \E r \in Readings(n, m) :
          /\ gpt_now' = m
          /\ gpt_wait' = IF gpt_wait.ticks <= Elapsed(gpt_wait.start, r)
                         THEN [gpt_wait EXCEPT !.pc = "done"] ELSE gpt_wait
  BY <1>1
<1>3. PICK r \in Readings(n, m) :
          /\ gpt_now' = m
          /\ gpt_wait' = IF gpt_wait.ticks <= Elapsed(gpt_wait.start, r)
                         THEN [gpt_wait EXCEPT !.pc = "done"] ELSE gpt_wait
  BY <1>2
<1>4. /\ gpt_now \in Nat /\ n \in Nat /\ m \in {n, n + 1} /\ gpt_now < n /\ n <= gpt_now + Pause
      /\ gpt_wait.ticks \in Nat /\ gpt_wait.since \in Nat /\ gpt_wait.pc = "wait"
  BY <1>1, <1>2, GptSizes DEF GptWaitInv, GptTypes, Later, PollGpt
<1>5. PICK k \in {n, m} : r = Counter(k)
  BY <1>4, ReadingIs
<1>6. PICK first \in Nat, last \in Nat : Looked(first, last)
  BY <1>4 DEF GptWaitInv, WaitKnown
<1>7. PICK d : d = k - first
  OBVIOUS
<1>8. d \in Nat /\ k = first + d /\ k \in Nat /\ k <= last + Pause + 2 /\ m - 1 <= k /\ k <= m
  BY <1>4, <1>5, <1>6, <1>7, GptSizes DEF Looked
<1>9. PICK e : e = Elapsed(gpt_wait.start, r)
  OBVIOUS
<1>10. e <= d /\ e \in Nat /\ (d < Count => d - 1 <= e)
  BY <1>5, <1>6, <1>8, <1>9, ElapsedIs DEF Looked
<1>11. GptTypes' /\ TicksKnown'
  <2>1. GptTypes'
    BY <1>3, <1>4 DEF GptWaitInv, GptTypes, PollGpt
  <2>2. /\ gpt_wait'.t = gpt_wait.t /\ gpt_wait'.unit = gpt_wait.unit /\ gpt_wait'.ticks = gpt_wait.ticks
    BY <1>3 DEF GptWaitInv, GptTypes
  <2> QED BY <1>4, <2>1, <2>2 DEF GptWaitInv, TicksKnown, Waitable
<1>12. CASE gpt_wait.ticks <= e
  <2>1. gpt_wait' = [gpt_wait EXCEPT !.pc = "done"]
    BY <1>3, <1>9, <1>12
  <2>2. gpt_wait'.pc = "done" /\ gpt_wait'.since = gpt_wait.since /\ gpt_wait'.ticks = gpt_wait.ticks
    BY <2>1 DEF GptWaitInv, GptTypes
  <2>3. gpt_now' - gpt_wait.since >= gpt_wait.ticks
    BY <1>3, <1>4, <1>6, <1>8, <1>10, <1>12 DEF Looked
  <2> QED BY <1>11, <2>2, <2>3 DEF GptWaitInv, WaitKnown
<1>13. CASE ~(gpt_wait.ticks <= e)
  <2>1. gpt_wait' = gpt_wait
    BY <1>3, <1>9, <1>13
  <2>2. Looked(first, k)'
    <3>1. gpt_wait.ticks + Pause + 2 < Count => k - first <= gpt_wait.ticks
      <4> SUFFICES ASSUME gpt_wait.ticks + Pause + 2 < Count PROVE d <= gpt_wait.ticks
        BY <1>7
      <4>1. last - first <= gpt_wait.ticks
        BY <1>6 DEF Looked
      <4>2. d < Count
        BY <1>4, <1>7, <1>8, <4>1, CountKnown, GptSizes
      <4> QED BY <1>4, <1>8, <1>10, <1>13, <4>2
    <3>2. first <= k /\ k <= m /\ m <= k + 1
      BY <1>4, <1>8
    <3> QED BY <1>3, <1>6, <1>8, <2>1, <3>1, <3>2 DEF Looked
  <2>3. gpt_wait'.pc = "wait"
    BY <1>4, <2>1
  <2> QED BY <1>8, <1>11, <2>2, <2>3 DEF GptWaitInv, WaitKnown
<1> QED BY <1>12, <1>13
-----------------------------------------------------------------------------
(* The millisecond clock.  gpt4_tick2time_ms rounds up, in a word, so that  *)
(* its result wraps MsTick - 1 ticks before the counter does: of tick k it  *)
(* is a matter of Ahead(k).                                                  *)

Ahead(k)  == k + MsTick - 1
Turns(k) == Ahead(k) \div Count
Place(k) == Ahead(k) % Count
Ms(k)    == Place(k) \div MsTick
MsOver(k)  == Place(k) % MsTick

\* What a turn of the counter has more than MAX_REG_MS, which is added for it.
Missed == Count - MsTick * GPT4_MAX_MS_TIMEOUT

\* The milliseconds of a tick.
LEMMA ClockWord == ASSUME NEW k \in Nat PROVE gpt4_tick2time_ms(Counter(k)) = Ms(k)
<1>1. PICK q : q = k \div Count
  OBVIOUS
<1>2. PICK a : a = k % Count
  OBVIOUS
<1>3. q \in Nat /\ a \in 0 .. Count - 1 /\ k = Count * q + a
  BY <1>1, <1>2, CountKnown, DivMod
<1>4. PICK x : x = a + MsTick - 1
  OBVIOUS
<1>5. PICK d : d = Count * q
  OBVIOUS
<1>6. x \in Nat /\ d \in Nat /\ k = d + a /\ Ahead(k) = x + d
  BY <1>3, <1>4, <1>5, GptSizes DEF Ahead
<1>7. d % Count = 0
  <2>1. 0 \in 0 .. Count - 1 /\ d = Count * q + 0
    BY <1>3, <1>5, CountKnown
  <2> QED BY <1>3, <2>1, CountKnown, DivModUnique
<1>8. (x + d) % Count = x % Count
  BY <1>6, <1>7, CountKnown, ModShift
<1>9. Place(k) = Counter(x)
  BY <1>6, <1>8 DEF Place, Counter
<1> QED BY <1>2, <1>4, <1>9 DEF gpt4_tick2time_ms, Ms, Counter

\* A tick in turns of the counter, milliseconds and what is over.
LEMMA ClockParts ==
  ASSUME NEW k \in Nat
  PROVE  /\ Turns(k) \in Nat /\ Place(k) \in 0 .. Count - 1 /\ Ahead(k) = Count * Turns(k) + Place(k)
         /\ Ms(k) \in Nat /\ MsOver(k) \in 0 .. MsTick - 1 /\ Place(k) = MsTick * Ms(k) + MsOver(k)
         /\ Ahead(k) \in Nat /\ Count * Turns(k) \in Nat /\ MsTick * Ms(k) \in Nat
<1>1. Ahead(k) \in Nat
  BY GptSizes DEF Ahead
<1>2. Turns(k) \in Nat /\ Place(k) \in 0 .. Count - 1 /\ Ahead(k) = Count * Turns(k) + Place(k)
  BY <1>1, CountKnown, DivMod DEF Turns, Place
<1>3. MsTick \in Nat \ {0} /\ Place(k) \in Nat
  BY <1>2, GptSizes
<1>4. Ms(k) \in Nat /\ MsOver(k) \in 0 .. MsTick - 1 /\ Place(k) = MsTick * Ms(k) + MsOver(k)
  BY <1>3, DivMod DEF Ms, MsOver
<1>5. Count * Turns(k) \in Nat /\ MsTick * Ms(k) \in Nat
  BY <1>2, <1>3, <1>4, CountKnown
<1> QED BY <1>1, <1>2, <1>4, <1>5

\* What a turn of the counter is longer than its milliseconds.
LEMMA MissedKnown == Missed \in 1 .. MsTick
<1>1. MsTick \in Nat \ {0} /\ Count - 1 \in Nat
  BY GptSizes
<1>2. PICK g : g = (Count - 1) % MsTick
  OBVIOUS
<1>3. PICK p : p = MsTick * GPT4_MAX_MS_TIMEOUT
  OBVIOUS
<1>4. g \in 0 .. MsTick - 1 /\ p \in Int /\ Count - 1 = p + g
  <2>1. PICK q : q = (Count - 1) \div MsTick
    OBVIOUS
  <2>2. q \in Nat /\ g \in 0 .. MsTick - 1 /\ Count - 1 = MsTick * q + g
    BY <1>1, <1>2, <2>1, DivMod
  <2>3. p = MsTick * q
    BY <1>3, <2>1 DEF GPT4_MAX_MS_TIMEOUT, GPT4_MAX_TICK_CNT
  <2> QED BY <1>1, <2>2, <2>3
<1>5. Missed = g + 1
  <2>1. Missed = Count - p
    BY <1>3 DEF Missed
  <2> QED BY <1>1, <1>4, <2>1, CountKnown
<1> QED BY <1>1, <1>4, <1>5

\* The clock is never above the limit, ...
LEMMA MsBounded == ASSUME NEW k \in Nat PROVE Ms(k) <= GPT4_MAX_MS_TIMEOUT
<1>1. Place(k) \in Nat /\ Place(k) <= Count - 1 /\ Count - 1 \in Nat /\ MsTick \in Nat \ {0}
  BY ClockParts, GptSizes, CountKnown
<1> QED BY <1>1, DivMonotone DEF Ms, GPT4_MAX_MS_TIMEOUT, GPT4_MAX_TICK_CNT

\* ... and between two looks it goes on, or wraps and is seen to.
LEMMA NextMs ==
  ASSUME NEW k \in Nat, NEW j \in Nat, k <= j, j <= k + Pause + 2
  PROVE  \/ Turns(j) = Turns(k) /\ Ms(k) <= Ms(j)
         \/ Turns(j) = Turns(k) + 1 /\ Ms(j) < Ms(k)
<1>1. PICK w : w = Turns(k)
  OBVIOUS
<1>2. PICK x : x = Place(k)
  OBVIOUS
<1>3. PICK d : d = j - k
  OBVIOUS
<1>4. PICK z : z = Count * w
  OBVIOUS
<1>5. /\ w \in Nat /\ x \in 0 .. Count - 1 /\ z \in Nat /\ Ahead(k) = z + x
      /\ d \in 0 .. Pause + 2 /\ Ahead(j) = z + (x + d) /\ MsTick \in Nat \ {0} /\ Pause \in Nat
      /\ MsTick + 2 * Pause + 3 <= Count
  <2>1. w \in Nat /\ x \in 0 .. Count - 1 /\ z \in Nat /\ Ahead(k) = z + x
    BY <1>1, <1>2, <1>4, ClockParts
  <2>2. d \in 0 .. Pause + 2 /\ Ahead(j) = Ahead(k) + d
    BY <1>3, GptSizes DEF Ahead
  <2> QED BY <2>1, <2>2, GptSizes
<1>6. CASE x + d < Count
  <2>1. x + d \in 0 .. Count - 1
    BY <1>5, <1>6, CountKnown
  <2>2. Turns(j) = w /\ Place(j) = x + d
    <3>1. (Count * w + (x + d)) % Count = x + d /\ (Count * w + (x + d)) \div Count = w
      BY <1>5, <2>1, CountKnown, DivModUnique
    <3> QED BY <1>4, <1>5, <3>1 DEF Turns, Place
  <2>3. x \in Nat /\ x + d \in Nat /\ x <= x + d
    BY <1>5
  <2>4. Ms(k) <= Ms(j)
    BY <1>2, <1>5, <2>2, <2>3, DivMonotone DEF Ms
  <2> QED BY <1>1, <2>2, <2>4
<1>7. CASE ~(x + d < Count)
  <2>1. x + d - Count \in 0 .. Count - 1 /\ w + 1 \in Nat
    BY <1>5, <1>7, CountKnown
  <2>2. Count * (w + 1) = z + Count
    BY <1>4, <1>5, CountKnown
  <2>3. Ahead(j) = Count * (w + 1) + (x + d - Count)
    BY <1>5, <2>2, CountKnown
  <2>4. Turns(j) = w + 1 /\ Place(j) = x + d - Count
    <3>1. PICK y : y = x + d - Count
      OBVIOUS
    <3>2. (Count * (w + 1) + y) % Count = y /\ (Count * (w + 1) + y) \div Count = w + 1
      BY <2>1, <3>1, CountKnown, DivModUnique
    <3> QED BY <2>3, <3>1, <3>2 DEF Turns, Place
  <2>5. Place(j) + MsTick <= x
    BY <1>5, <1>7, <2>4, CountKnown
  <2>6. PICK f : f = Ms(k)
    OBVIOUS
  <2>7. PICK h : h = Ms(j)
    OBVIOUS
  <2>8. /\ f \in Nat /\ h \in Nat /\ MsTick * f \in Nat /\ MsTick * h \in Nat
        /\ MsTick * h <= Place(j) /\ x < MsTick * f + MsTick
    <3>1. /\ f \in Nat /\ MsOver(k) \in 0 .. MsTick - 1 /\ x = MsTick * f + MsOver(k) /\ MsTick * f \in Nat
      BY <1>2, <2>6, ClockParts
    <3>2. h \in Nat /\ MsOver(j) \in 0 .. MsTick - 1 /\ Place(j) = MsTick * h + MsOver(j) /\ MsTick * h \in Nat
      BY <2>7, ClockParts
    <3> QED BY <1>5, <3>1, <3>2
  <2>9. MsTick * (h + 1) = MsTick * h + MsTick
    BY <1>5, <2>8
  <2>10. MsTick * (h + 1) < MsTick * f + MsTick
    BY <1>5, <2>1, <2>4, <2>5, <2>8, <2>9
  <2>11. h + 1 <= f
    BY <1>5, <2>8, <2>10, FactorBelow
  <2> QED BY <1>1, <2>4, <2>6, <2>7, <2>8, <2>11
<1> QED BY <1>6, <1>7

\* The clock shows the ticks since the reset, but for the turns and the roundings.
ClockAt(k) ==
  /\ k \in Nat /\ gpt_clock.reset <= k /\ k <= gpt_now /\ gpt_now <= k + 1
  /\ gpt_clock.lastinc = Ms(k) /\ Turns(k) - Turns(gpt_clock.reset) \in Nat
  /\ MsTick * gpt_clock.timestamp =
       (k - gpt_clock.reset) - Missed * (Turns(k) - Turns(gpt_clock.reset))
         - (MsOver(k) - MsOver(gpt_clock.reset))

ClockKnown == gpt_wait.pc = "clock" => \E k \in Nat : ClockAt(k)

GptInv == GptWaitInv /\ ClockKnown

\* What get_timer_masked reads.
LEMMA LookIs ==
  ASSUME GptTypes, get_timer_masked, NEW k \in Nat, k <= gpt_now, gpt_now <= k + 1
  PROVE  \E j \in Nat :
           /\ k <= j /\ j <= k + Pause + 2 /\ j <= gpt_now' /\ gpt_now' <= j + 1 /\ gpt_now' \in Nat
           /\ gpt_clock' = [gpt_clock EXCEPT
                              !.timestamp = gpt_clock.timestamp + Advance(Ms(j), gpt_clock.lastinc),
                              !.lastinc = Ms(j)]
<1>1. PICK n \in Later(gpt_now) : \E m \in Later(n) \cap {n, n + 1} : \E r \in Readings(n, m) :
        LET now == gpt4_tick2time_ms(r) IN
        /\ gpt_now' = m
        /\ gpt_clock' = [gpt_clock EXCEPT !.timestamp = @ + Advance(now, gpt_clock.lastinc), !.lastinc = now]
  BY DEF get_timer_masked
<1>2. PICK m \in Later(n) \cap {n, n + 1} : \E r \in Readings(n, m) :
        LET now == gpt4_tick2time_ms(r) IN
        /\ gpt_now' = m
        /\ gpt_clock' = [gpt_clock EXCEPT !.timestamp = @ + Advance(now, gpt_clock.lastinc), !.lastinc = now]
  BY <1>1
<1>3. PICK r \in Readings(n, m) :
        LET now == gpt4_tick2time_ms(r) IN
        /\ gpt_now' = m
        /\ gpt_clock' = [gpt_clock EXCEPT !.timestamp = @ + Advance(now, gpt_clock.lastinc), !.lastinc = now]
  BY <1>2
<1>4. n \in Nat /\ gpt_now <= n /\ n <= gpt_now + Pause /\ m \in {n, n + 1} /\ m \in Nat
  BY <1>1, <1>2, GptSizes DEF GptTypes, Later
<1>5. PICK j \in {n, m} : r = Counter(j)
  BY <1>4, ReadingIs
<1>6. j \in Nat
  BY <1>4
<1>7. gpt4_tick2time_ms(r) = Ms(j)
  BY <1>5, <1>6, ClockWord
<1>8. k <= j /\ j <= k + Pause + 2 /\ j <= m /\ m <= j + 1
  BY <1>4, <1>6, GptSizes DEF GptTypes
<1> QED BY <1>3, <1>4, <1>6, <1>7, <1>8

\* A turn of the counter or none, the clock goes on by what the counter does.
LEMMA TimestampGoesOn ==
  ASSUME NEW k \in Nat, NEW j \in Nat, k <= j, j <= k + Pause + 2
  PROVE  /\ Advance(Ms(j), Ms(k)) \in Nat /\ Turns(j) - Turns(k) \in Nat
         /\ MsTick * Advance(Ms(j), Ms(k)) =
              (j - k) - Missed * (Turns(j) - Turns(k)) - (MsOver(j) - MsOver(k))
<1>1. PICK f : f = Ms(k)
  OBVIOUS
<1>2. PICK h : h = Ms(j)
  OBVIOUS
<1>3. PICK x : x = MsTick * f
  OBVIOUS
<1>4. PICK y : y = MsTick * h
  OBVIOUS
<1>5. PICK z : z = MsTick * GPT4_MAX_MS_TIMEOUT
  OBVIOUS
<1>6. PICK v : v = Count * Turns(k)
  OBVIOUS
<1>7. /\ f \in Nat /\ h \in Nat /\ x \in Nat /\ y \in Nat /\ v \in Nat
      /\ MsOver(k) \in Int /\ MsOver(j) \in Int /\ Turns(k) \in Nat /\ Turns(j) \in Nat
      /\ k + MsTick - 1 = v + x + MsOver(k) /\ j + MsTick - 1 = Count * Turns(j) + y + MsOver(j)
      /\ f <= GPT4_MAX_MS_TIMEOUT
  <2>1. /\ Turns(k) \in Nat /\ Ahead(k) = Count * Turns(k) + Place(k) /\ Place(k) = MsTick * Ms(k) + MsOver(k)
        /\ Ms(k) \in Nat /\ MsOver(k) \in 0 .. MsTick - 1
        /\ Count * Turns(k) \in Nat /\ MsTick * Ms(k) \in Nat
    BY ClockParts
  <2>2. /\ Turns(j) \in Nat /\ Ahead(j) = Count * Turns(j) + Place(j) /\ Place(j) = MsTick * Ms(j) + MsOver(j)
        /\ Ms(j) \in Nat /\ MsOver(j) \in 0 .. MsTick - 1
        /\ Count * Turns(j) \in Nat /\ MsTick * Ms(j) \in Nat
    BY ClockParts
  <2>3. MsOver(k) \in Int /\ MsOver(j) \in Int
    BY <2>1, <2>2, GptSizes
  <2>4. k + MsTick - 1 = v + x + MsOver(k)
    <3>1. Ahead(k) = v + (x + MsOver(k))
      BY <1>1, <1>3, <1>6, <2>1
    <3>2. v \in Nat /\ x \in Nat
      BY <1>1, <1>3, <1>6, <2>1
    <3> QED BY <2>3, <3>1, <3>2, GptSizes DEF Ahead
  <2>5. j + MsTick - 1 = Count * Turns(j) + y + MsOver(j)
    <3>1. PICK u : u = Count * Turns(j)
      OBVIOUS
    <3>2. Ahead(j) = u + (y + MsOver(j)) /\ u \in Nat /\ y \in Nat
      BY <1>2, <1>4, <2>2, <3>1
    <3> QED BY <2>3, <3>1, <3>2, GptSizes DEF Ahead
  <2> QED BY <1>1, <1>2, <1>3, <1>4, <1>6, <2>1, <2>2, <2>3, <2>4, <2>5, MsBounded
<1>8. z \in Int /\ Missed = Count - z /\ MsTick \in Nat \ {0} /\ Count \in Nat /\ Missed \in Int
  BY <1>5, MissedKnown, LimitsKnown, GptSizes DEF Missed
<1>9. CASE Turns(j) = Turns(k) /\ f <= h
  <2>1. Advance(h, f) = h - f /\ h - f \in Nat
    BY <1>7, <1>9 DEF Advance
  <2>2. MsTick * (h - f) = y - x
    BY <1>3, <1>4, <1>7, <1>8
  <2>3. Missed * (Turns(j) - Turns(k)) = 0 /\ Turns(j) - Turns(k) \in Nat
    BY <1>7, <1>8, <1>9
  <2>4. y - x = j - k - (MsOver(j) - MsOver(k))
    BY <1>6, <1>7, <1>8, <1>9
  <2>5. MsTick * Advance(h, f) = (j - k) - Missed * (Turns(j) - Turns(k)) - (MsOver(j) - MsOver(k))
    BY <1>7, <2>1, <2>2, <2>3, <2>4
  <2> QED BY <1>1, <1>2, <2>1, <2>3, <2>5
<1>10. CASE Turns(j) = Turns(k) + 1 /\ h < f
  <2>1. /\ Advance(h, f) = GPT4_MAX_MS_TIMEOUT - f + h
        /\ GPT4_MAX_MS_TIMEOUT - f + h \in Nat
    BY <1>7, <1>10, LimitsKnown DEF Advance
  <2>2. MsTick * (GPT4_MAX_MS_TIMEOUT - f + h) = z - x + y
    BY <1>3, <1>4, <1>5, <1>7, <1>8, LimitsKnown
  <2>3. Missed * (Turns(j) - Turns(k)) = Missed /\ Turns(j) - Turns(k) \in Nat
    BY <1>7, <1>8, <1>10
  <2>4. Count * Turns(j) = v + Count
    <3>1. Count * (Turns(k) + 1) = Count * Turns(k) + Count
      BY <1>7, <1>8
    <3> QED BY <1>6, <1>10, <3>1
  <2>5. y - x = j - k - (MsOver(j) - MsOver(k)) - Count
    <3>1. j + MsTick - 1 = (v + Count) + y + MsOver(j)
      BY <1>7, <2>4
    <3>2. k + MsTick - 1 = v + x + MsOver(k)
      BY <1>7
    <3>3. /\ v \in Int /\ x \in Int /\ y \in Int /\ MsOver(k) \in Int /\ MsOver(j) \in Int
          /\ Count \in Int /\ MsTick \in Int
      BY <1>7, <1>8
    <3> QED BY <3>1, <3>2, <3>3
  <2>6. MsTick * Advance(h, f) = (j - k) - Missed * (Turns(j) - Turns(k)) - (MsOver(j) - MsOver(k))
    BY <1>7, <1>8, <2>1, <2>2, <2>3, <2>5
  <2> QED BY <1>1, <1>2, <2>1, <2>3, <2>6
<1> QED BY <1>1, <1>2, <1>9, <1>10, NextMs

\* get_timer_masked.
LEMMA LookKeeps == ASSUME GptInv, get_timer_masked PROVE GptInv' /\ gpt_clock'.timestamp >= gpt_clock.timestamp
<1>1. PICK k \in Nat : ClockAt(k)
  BY DEF GptInv, ClockKnown, get_timer_masked
<1>2. PICK j \in Nat :
        /\ k <= j /\ j <= k + Pause + 2 /\ j <= gpt_now' /\ gpt_now' <= j + 1 /\ gpt_now' \in Nat
        /\ gpt_clock' = [gpt_clock EXCEPT
                           !.timestamp = gpt_clock.timestamp + Advance(Ms(j), gpt_clock.lastinc),
                           !.lastinc = Ms(j)]
  BY <1>1, LookIs DEF ClockAt, GptInv, GptWaitInv
<1>3. PICK c : c = gpt_clock.reset
  OBVIOUS
<1>4. PICK adv : adv = Advance(Ms(j), Ms(k))
  OBVIOUS
<1>5. PICK old : old = gpt_clock.timestamp
  OBVIOUS
<1>6. c \in Nat /\ c \in 0 .. Count - 1 /\ old \in Int
  BY <1>3, <1>5, CountKnown DEF GptInv, GptWaitInv, GptTypes
<1>7. /\ gpt_clock'.reset = c /\ gpt_clock'.lastinc = Ms(j) /\ gpt_clock'.timestamp = old + adv
      /\ gpt_clock' \in [timestamp : {old + adv}, lastinc : {Ms(j)}, reset : {c}]
  BY <1>1, <1>2, <1>3, <1>4, <1>5 DEF ClockAt, GptInv, GptWaitInv, GptTypes
<1>8. /\ adv \in Nat /\ Turns(j) - Turns(k) \in Nat
      /\ MsTick * adv = (j - k) - Missed * (Turns(j) - Turns(k)) - (MsOver(j) - MsOver(k))
  BY <1>2, <1>4, TimestampGoesOn
<1>9. /\ Turns(k) - Turns(c) \in Nat /\ c <= k
      /\ MsTick * old = (k - c) - Missed * (Turns(k) - Turns(c)) - (MsOver(k) - MsOver(c))
  BY <1>1, <1>3, <1>5 DEF ClockAt
<1>10. /\ Turns(j) \in Nat /\ Turns(k) \in Nat /\ Turns(c) \in Nat /\ Ms(j) \in Nat
       /\ MsOver(j) \in Int /\ MsOver(k) \in Int /\ MsOver(c) \in Int
       /\ MsTick \in Nat /\ Missed \in Int
  BY <1>6, ClockParts, MissedKnown, GptSizes
<1>11. MsTick * (old + adv) = (j - c) - Missed * (Turns(j) - Turns(c)) - (MsOver(j) - MsOver(c))
  <2>1. MsTick * (old + adv) = MsTick * old + MsTick * adv
    BY <1>6, <1>8, <1>10
  <2>2. Missed * (Turns(j) - Turns(c)) = Missed * (Turns(j) - Turns(k)) + Missed * (Turns(k) - Turns(c))
    BY <1>10
  <2>3. PICK p : p = Missed * (Turns(j) - Turns(k))
    OBVIOUS
  <2>4. PICK q : q = Missed * (Turns(k) - Turns(c))
    OBVIOUS
  <2>5. p \in Int /\ q \in Int
    BY <1>10, <2>3, <2>4
  <2>6. MsTick * old + MsTick * adv = (j - c) - (p + q) - (MsOver(j) - MsOver(c))
    <3>1. MsTick * old = (k - c) - q - (MsOver(k) - MsOver(c))
      BY <1>9, <2>4
    <3>2. MsTick * adv = (j - k) - p - (MsOver(j) - MsOver(k))
      BY <1>8, <2>3
    <3> QED BY <1>6, <1>10, <2>5, <3>1, <3>2
  <2> QED BY <2>1, <2>2, <2>3, <2>4, <2>6
<1>12. ClockAt(j)'
  <2>1. c <= j /\ Turns(j) - Turns(c) \in Nat
    BY <1>2, <1>6, <1>8, <1>9, <1>10
  <2> QED BY <1>2, <1>7, <1>11, <2>1 DEF ClockAt
<1>13. GptTypes'
  <2>1. old + adv \in Int /\ Ms(j) \in Int
    BY <1>6, <1>8, <1>10
  <2> QED BY <1>2, <1>6, <1>7, <2>1 DEF GptInv, GptWaitInv, GptTypes, get_timer_masked
<1>14. TicksKnown' /\ WaitKnown' /\ gpt_wait'.pc = "clock"
  BY DEF get_timer_masked, TicksKnown, WaitKnown
<1>15. gpt_clock'.timestamp >= gpt_clock.timestamp
  BY <1>5, <1>6, <1>7, <1>8
<1> QED BY <1>12, <1>13, <1>14, <1>15 DEF GptInv, GptWaitInv, ClockKnown

\* So it begins.
LEMMA GptStarts == GptInit => GptInv
<1> SUFFICES ASSUME GptInit PROVE GptInv
  OBVIOUS
<1>1. PICK pc \in {"idle", "clock"} :
        gpt_wait = [pc |-> pc, unit |-> "us", t |-> 0, start |-> 0, since |-> 0, ticks |-> 0]
  BY DEF GptInit
<1>2. /\ gpt_now \in 0 .. Count - 1 /\ gpt_now \in Nat
      /\ gpt_clock = [timestamp |-> 0, lastinc |-> gpt4_tick2time_ms(Counter(gpt_now)), reset |-> gpt_now]
  BY CountKnown DEF GptInit
<1>3. gpt4_tick2time_ms(Counter(gpt_now)) = Ms(gpt_now) /\ Ms(gpt_now) \in Int
  BY <1>2, ClockWord, ClockParts
<1>4. GptTypes
  BY <1>1, <1>2, <1>3 DEF GptTypes
<1>5. GptWaitInv
  BY <1>1, <1>4 DEF GptWaitInv, TicksKnown, WaitKnown
<1>6. PICK n : n = gpt_now
  OBVIOUS
<1>7. Turns(n) \in Int /\ MsOver(n) \in Int /\ n \in Nat
  BY <1>2, <1>6, ClockParts, GptSizes
<1>8. Missed * (Turns(n) - Turns(n)) = 0 /\ MsTick * 0 = 0
  BY <1>7, MissedKnown, GptSizes
<1>9. /\ MsTick * gpt_clock.timestamp = 0 /\ gpt_clock.reset = n /\ gpt_clock.lastinc = Ms(n)
  BY <1>2, <1>3, <1>6, <1>8
<1>10. ClockAt(n)
  BY <1>6, <1>7, <1>8, <1>9 DEF ClockAt
<1> QED BY <1>5, <1>7, <1>10 DEF GptInv, ClockKnown

\* The times a wait is called with are numbers.
LEMMA TimesKnown ==
  /\ {0, 1, 5, GPT4_MAX_US_TIMEOUT - 3, GPT4_MAX_US_TIMEOUT} \subseteq Nat
  /\ {1, GPT4_MAX_MS_TIMEOUT - 2, GPT4_MAX_MS_TIMEOUT} \subseteq Nat
BY LimitsKnown

\* No wait and no look at the clock ends it.
LEMMA GptKept == GptInv /\ [GptNext]_gptVars => GptInv'
<1> SUFFICES ASSUME GptInv, [GptNext]_gptVars PROVE GptInv'
  OBVIOUS
<1>1. CASE UNCHANGED gptVars
  BY <1>1 DEF gptVars, GptInv, GptWaitInv, GptTypes, TicksKnown, Waitable, WaitKnown, Looked,
              ClockKnown, ClockAt
<1>2. CASE \E t \in {0, 1, 5, GPT4_MAX_US_TIMEOUT - 3, GPT4_MAX_US_TIMEOUT} : StartGptWait("us", t)
  <2>1. PICK t \in Nat : StartGptWait("us", t)
    BY <1>2, TimesKnown
  <2>2. gpt_wait'.pc = "wait"
    BY <2>1 DEF StartGptWait
  <2> QED BY <2>1, <2>2, StartWaitKeeps DEF GptInv, ClockKnown
<1>3. CASE \E t \in {1, GPT4_MAX_MS_TIMEOUT - 2, GPT4_MAX_MS_TIMEOUT} : StartGptWait("ms", t)
  <2>1. PICK t \in Nat : StartGptWait("ms", t)
    BY <1>3, TimesKnown
  <2>2. gpt_wait'.pc = "wait"
    BY <2>1 DEF StartGptWait
  <2> QED BY <2>1, <2>2, StartWaitKeeps DEF GptInv, ClockKnown
<1>4. CASE PollGpt
  <2>1. gpt_wait'.pc # "clock"
    <3>1. gpt_wait.pc = "wait" /\ (gpt_wait' = gpt_wait \/ gpt_wait' = [gpt_wait EXCEPT !.pc = "done"])
      BY <1>4 DEF PollGpt
    <3> QED BY <3>1 DEF GptInv, GptWaitInv, GptTypes
  <2> QED BY <1>4, <2>1, PollKeeps DEF GptInv, ClockKnown
<1>5. CASE get_timer_masked
  BY <1>5, LookKeeps
<1> QED BY <1>1, <1>2, <1>3, <1>4, <1>5 DEF GptNext

\* Waits.
LEMMA WaitsAreRight == GptInv => WaitNotEarly /\ WaitInTime
<1> SUFFICES ASSUME GptInv PROVE WaitNotEarly /\ WaitInTime
  OBVIOUS
<1> DEFINE unit == IF gpt_wait.unit = "us" THEN UsTick ELSE MsTick
<1>1. /\ gpt_now \in Nat /\ gpt_wait.since \in Nat /\ gpt_wait.ticks \in Nat /\ gpt_wait.t \in Nat
      /\ UsTick \in Nat /\ MsTick \in Nat /\ Pause \in Nat
  BY GptSizes DEF GptInv, GptWaitInv, GptTypes
<1>2. gpt_wait.t * unit \in Nat
  BY <1>1
<1>3. WaitNotEarly
  <2> SUFFICES ASSUME gpt_wait.pc = "done", Waitable
               PROVE  gpt_now - gpt_wait.since >= gpt_wait.t * unit
    BY DEF WaitNotEarly
  <2>1. gpt_wait.ticks >= gpt_wait.t * unit /\ gpt_now - gpt_wait.since >= gpt_wait.ticks
    BY DEF GptInv, GptWaitInv, TicksKnown, WaitKnown
  <2> HIDE DEF unit
  <2> QED BY <1>1, <1>2, <2>1
<1>4. WaitInTime
  <2> SUFFICES ASSUME gpt_wait.pc = "wait", gpt_wait.ticks + Pause + 2 < Count
               PROVE  gpt_now - gpt_wait.since <= gpt_wait.ticks + 2
    BY DEF WaitInTime
  <2>1. PICK first \in Nat, last \in Nat : Looked(first, last)
    BY DEF GptInv, GptWaitInv, WaitKnown
  <2> QED BY <1>1, <2>1 DEF Looked
<1> QED BY <1>3, <1>4

\* The clock.
LEMMA ClockIsRight == GptInv => ClockRight
<1> SUFFICES ASSUME GptInv, gpt_wait.pc = "clock"
             PROVE  gpt_clock.timestamp \in ((gpt_now - gpt_clock.reset) \div MsTick) - (gpt_now \div Count) - 1
                                            .. ((gpt_now - gpt_clock.reset) \div MsTick) + 1
  BY DEF ClockRight
<1>1. PICK k \in Nat : ClockAt(k)
  BY DEF GptInv, ClockKnown
<1>2. PICK c : c = gpt_clock.reset
  OBVIOUS
<1>3. PICK n : n = gpt_now
  OBVIOUS
<1>4. PICK ts : ts = gpt_clock.timestamp
  OBVIOUS
<1>5. c \in Nat /\ c <= k /\ k <= n /\ n <= k + 1 /\ n \in Nat /\ ts \in Int /\ n - c \in Nat
  BY <1>1, <1>2, <1>3, <1>4, CountKnown DEF ClockAt, GptInv, GptWaitInv, GptTypes
<1>6. PICK exact : exact = (n - c) \div MsTick
  OBVIOUS
<1>7. PICK wraps : wraps = n \div Count
  OBVIOUS
<1>8. PICK p : p = MsTick * exact
  OBVIOUS
<1>9. exact \in Nat /\ p \in Nat /\ p <= n - c /\ n - c < p + MsTick /\ MsTick \in Nat \ {0}
  <2>1. MsTick \in Nat \ {0}
    BY GptSizes
  <2>2. PICK g : g = (n - c) % MsTick
    OBVIOUS
  <2>3. exact \in Nat /\ g \in 0 .. MsTick - 1 /\ n - c = p + g
    BY <1>5, <1>6, <1>8, <2>1, <2>2, DivMod
  <2>4. p \in Nat
    BY <1>8, <2>1, <2>3
  <2> QED BY <1>5, <2>1, <2>3, <2>4
<1>10. PICK w : w = Turns(k) - Turns(c)
  OBVIOUS
<1>11. PICK e : e = Missed * w
  OBVIOUS
<1>12. PICK t : t = MsTick * ts
  OBVIOUS
<1>13. /\ w \in Nat /\ e \in Nat /\ e <= MsTick * w /\ t = (k - c) - e - (MsOver(k) - MsOver(c)) /\ t \in Int
       /\ MsOver(k) \in 0 .. MsTick - 1 /\ MsOver(c) \in 0 .. MsTick - 1
  <2>1. w \in Nat /\ t = (k - c) - e - (MsOver(k) - MsOver(c))
    BY <1>1, <1>2, <1>4, <1>10, <1>11, <1>12 DEF ClockAt
  <2>2. MsOver(k) \in 0 .. MsTick - 1 /\ MsOver(c) \in 0 .. MsTick - 1
    BY <1>5, ClockParts
  <2>3. Missed \in Nat /\ MsTick - Missed \in Nat
    BY <1>9, MissedKnown
  <2>4. e \in Nat
    BY <1>11, <2>1, <2>3
  <2>5. (MsTick - Missed) * w >= 0 /\ (MsTick - Missed) * w = MsTick * w - Missed * w
    BY <1>9, <2>1, <2>3
  <2>6. MsTick * w \in Nat /\ t \in Int
    BY <1>5, <1>9, <1>12, <2>1
  <2>7. e <= MsTick * w
    BY <1>11, <2>4, <2>5, <2>6
  <2> QED BY <2>1, <2>2, <2>4, <2>6, <2>7
<1>14. ts <= exact + 1
  <2>1. MsTick * (exact + 1) = p + MsTick
    BY <1>8, <1>9
  <2>2. t < p + MsTick + MsTick
    BY <1>5, <1>9, <1>13
  <2>3. MsTick * ts < MsTick * (exact + 1) + MsTick
    BY <1>12, <2>1, <2>2
  <2> QED BY <1>5, <1>9, <2>3, FactorBelow
<1>15. wraps \in Nat /\ (w <= wraps \/ (w = wraps + 1 /\ MsOver(k) <= MsTick - 2))
  <2>1. PICK q : q = k \div Count
    OBVIOUS
  <2>2. PICK a : a = k % Count
    OBVIOUS
  <2>3. q \in Nat /\ a \in 0 .. Count - 1 /\ k = Count * q + a
    BY <2>1, <2>2, CountKnown, DivMod
  <2>4. q <= wraps /\ wraps \in Nat
    BY <1>5, <1>7, <2>1, CountKnown, DivMonotone, DivMod
  <2>5. Turns(c) \in Nat /\ Turns(k) \in Nat
    BY <1>5, ClockParts
  <2>6. MsTick + 3 <= Count
    BY GptSizes
  <2>7. PICK b : b = a + MsTick - 1
    OBVIOUS
  <2>8. PICK z : z = Count * q
    OBVIOUS
  <2>9. b \in Nat /\ z \in Nat /\ Ahead(k) = z + b /\ b < Count + MsTick - 1
    BY <1>9, <2>3, <2>7, <2>8, CountKnown DEF Ahead
  <2>10. CASE b < Count
    <3>1. b \in 0 .. Count - 1
      BY <2>9, <2>10, CountKnown
    <3>2. (Count * q + b) \div Count = q
      BY <2>3, <3>1, CountKnown, DivModUnique
    <3>3. Turns(k) = q
      BY <2>8, <2>9, <3>2 DEF Turns
    <3> QED BY <1>10, <1>13, <2>3, <2>4, <2>5, <3>3
  <2>11. CASE ~(b < Count)
    <3>1. PICK y : y = b - Count
      OBVIOUS
    <3>2. y \in 0 .. Count - 1 /\ q + 1 \in Nat /\ y <= MsTick - 2
      BY <1>9, <2>3, <2>6, <2>9, <2>11, <3>1, CountKnown
    <3>3. (Count * (q + 1) + y) \div Count = q + 1 /\ (Count * (q + 1) + y) % Count = y
      BY <3>2, CountKnown, DivModUnique
    <3>4. Count * (q + 1) + y = z + b
      <4>1. Count * (q + 1) = z + Count
        BY <2>3, <2>8, CountKnown
      <4> QED BY <2>9, <3>1, <4>1, CountKnown
    <3>5. Turns(k) = q + 1 /\ Place(k) = y
      BY <2>9, <3>3, <3>4 DEF Turns, Place
    <3>6. MsOver(k) <= y
      <4>1. PICK u : u = MsTick * Ms(k)
        OBVIOUS
      <4>2. u \in Nat /\ y = u + MsOver(k)
        BY <3>5, <4>1, ClockParts
      <4> QED BY <1>9, <1>13, <3>2, <4>2
    <3> QED BY <1>9, <1>10, <1>13, <2>3, <2>4, <2>5, <3>2, <3>5, <3>6
  <2> QED BY <2>10, <2>11
<1>16. exact - wraps - 1 <= ts
  <2>1. PICK v : v = MsTick * wraps
    OBVIOUS
  <2>2. MsTick * (exact - wraps - 1) = p - v - MsTick /\ v \in Nat
    BY <1>8, <1>9, <1>15, <2>1
  <2>3. e + MsOver(k) + 1 < v + MsTick + MsTick
    <3>1. CASE w <= wraps
      <4>1. MsTick * (wraps - w) >= 0 /\ MsTick * (wraps - w) = v - MsTick * w
        BY <1>9, <1>13, <1>15, <2>1, <3>1
      <4>2. MsTick * w \in Nat
        BY <1>9, <1>13
      <4> QED BY <1>9, <1>13, <2>2, <4>1, <4>2
    <3>2. CASE w = wraps + 1 /\ MsOver(k) <= MsTick - 2
      <4>1. MsTick * w = v + MsTick
        BY <1>9, <1>15, <2>1, <3>2
      <4> QED BY <1>9, <1>13, <2>2, <3>2, <4>1
    <3> QED BY <1>15, <3>1, <3>2
  <2>4. p - v - MsTick < t + MsTick
    BY <1>5, <1>9, <1>13, <2>2, <2>3
  <2>5. MsTick * (exact - wraps - 1) < MsTick * ts + MsTick
    BY <1>12, <2>2, <2>4
  <2>6. exact - wraps - 1 \in Int
    <3>1. exact \in Nat /\ wraps \in Nat
      BY <1>9, <1>15
    <3>2. exact - wraps \in Int
      BY <3>1
    <3> QED BY <3>2
  <2> QED BY <1>5, <1>9, <2>5, <2>6, FactorBelow
<1> QED BY <1>2, <1>3, <1>4, <1>5, <1>6, <1>7, <1>9, <1>14, <1>15, <1>16
-----------------------------------------------------------------------------
(* The calibration of the TRGMII.                                           *)

CalTypes ==
  /\ cal_lane \in [Lanes -> [lo : Int, hi : Int]] /\ cal_side \in Sides
  /\ cal \in [pc : {"clock", "start", "end", "done"}, ck : Nat, tap : [Lanes -> Nat],
              flag : [Lanes -> BOOLEAN], seen : [Lanes -> BOOLEAN], tap_a : [Lanes -> Nat \cup {Unset}],
              i : Nat, rd : Nat, err : BOOLEAN, final : [Lanes -> Nat]]
  /\ cal.i \in Lanes \/ cal.pc = "done"

\* The clock is not delayed further than some lane needs.
DelayNeeded == cal.ck = 0 \/ \E m \in Lanes : cal_lane[m].lo + cal.ck <= CkStep

\* While it is delayed nothing else is done; afterwards every window opens
\* behind tap 0.
ClockFirst ==
  IF cal.pc = "clock"
  THEN \A l \in Lanes : cal.tap[l] = 0 /\ cal.tap_a[l] = Unset
  ELSE \A l \in Lanes : Open(l) > 0

EndsLater == cal.pc \in {"clock", "start"} => cal.i = 1 /\ cal.rd = 0 /\ cal.err = FALSE

\* A lane is on its way to the start of its window, ...
Approaching(l) ==
  /\ cal.tap[l] <= Open(l)
  /\ cal.tap_a[l] = IF cal.tap[l] = 0 THEN Unset ELSE cal.tap[l]
  /\ cal_side = "7530" => (cal.seen[l] <=> ~Good(l, cal.tap[l]))

\* ... or has found it, and is a little way inside.
StartKnown(l) ==
  /\ cal.tap[l] = Open(l) + Skip /\ cal.tap_a[l] = Open(l)
  /\ cal_side = "7530" => cal.seen[l] = FALSE

StartsKnown ==
  cal.pc = "start" => \A l \in Lanes : IF cal.flag[l] THEN Approaching(l) ELSE StartKnown(l)

\* The last answer was an error.
ErrorSeen(l) == IF cal_side = "7623" THEN cal.err ELSE cal.seen[l]

\* A lane is on its way to the end of its window, or has passed it.
Leaving(l) ==
  /\ cal.tap_a[l] = Open(l)
  /\ \/ cal.rd = 0 /\ cal.tap[l] = Open(l) + Skip
     \/ cal.rd > Open(l) /\ cal.rd <= Close(l) /\ cal.tap[l] = cal.rd % Taps
  /\ cal.rd # Close(l) => cal.err = FALSE /\ ErrorSeen(l) = FALSE
  /\ cal.rd = Close(l) => ErrorSeen(l) = TRUE \/ cal.rd = Taps

EndsKnown ==
  cal.pc = "end" =>
    /\ Leaving(cal.i)
    /\ \A l \in Lanes : l > cal.i => StartKnown(l)
    /\ \A l \in Lanes : l < cal.i => cal.final[l] = (Open(l) + Close(l)) \div 2

CalKnown == DelayNeeded /\ ClockFirst /\ EndsLater /\ StartsKnown /\ EndsKnown /\ Centred

CalInv == CalTypes /\ (Calibratable => CalKnown)

\* There are lanes, and taps to try.
LEMMA SizesKnown ==
  /\ Taps \in Nat \ {0} /\ Skip \in Nat /\ LaneCount \in Nat \ {0} /\ CkEnd \in Nat
  /\ Lanes \subseteq Nat /\ 1 \in Lanes
BY CalSizes DEF Lanes

\* A calibration begins with no tap tried.
LEMMA CalStarts == CalInit => CalInv
<1> SUFFICES ASSUME CalInit PROVE CalInv
  OBVIOUS
<1>1. CalTypes
  BY SizesKnown, CalSizes DEF CalInit, CalTypes
<1>2. cal.pc = "clock" /\ DelayNeeded /\ ClockFirst /\ EndsLater
  BY DEF CalInit, DelayNeeded, ClockFirst, EndsLater
<1>3. StartsKnown /\ EndsKnown /\ Centred
  BY <1>2 DEF StartsKnown, EndsKnown, Centred
<1> QED BY <1>1, <1>2, <1>3 DEF CalInv, CalKnown

\* The lane whose turn it is has not found its start.
LEMMA CurrentIs ==
  ASSUME CalTypes, NEW k \in Lanes, cal.flag[k]
  PROVE  Current \in Lanes /\ cal.flag[Current]
<1> DEFINE S == {l \in Lanes : cal.flag[l]}
<1>1. k \in S /\ S \subseteq Nat
  BY SizesKnown
<1>2. PICK x \in S : \A y \in S : ~(<<y, x>> \in OpToRel(<, Nat))
  <2> HIDE DEF S
  <2> QED BY <1>1, NatLessThanWellFounded, WFMin, Zenon
<1>3. \A y \in S : x <= y
  <2> SUFFICES ASSUME NEW y \in S PROVE x <= y
    OBVIOUS
  <2> HIDE DEF S
  <2>1. x \in Nat /\ y \in Nat
    BY <1>1
  <2>2. ~(y < x)
    BY <1>2, <2>1, Zenon DEF OpToRel
  <2> QED BY <2>1, <2>2
<1>4. Current \in S
  <2> HIDE DEF S
  <2>1. (CHOOSE m \in S : \A y \in S : m <= y) \in S
    BY <1>3
  <2> QED BY <2>1 DEF Current, Min, S
<1> QED BY <1>4

\* The window of a lane, once the clock is set.
LEMMA WindowIs ==
  ASSUME CalTypes, Calibratable, DelayNeeded, NEW l \in Lanes
  PROVE  /\ Open(l) \in Int /\ Close(l) \in Int /\ CkStep \in Nat \ {0}
         /\ Open(l) + Skip < Close(l) /\ Open(l) + Skip < Taps /\ Close(l) <= Taps
         /\ \A t \in Nat : Good(l, t) <=> Open(l) <= t /\ (t < Close(l) \/ (t >= Taps /\ t < cal_lane[l].hi + cal.ck))
         /\ ~Good(l, Close(l)) \/ Close(l) = Taps
<1>1. PICK lo \in Int : lo = cal_lane[l].lo
  BY DEF CalTypes
<1>2. PICK hi \in Int : hi = cal_lane[l].hi
  BY DEF CalTypes
<1>3. PICK ck \in Nat : ck = cal.ck
  BY DEF CalTypes
<1>4. CkStep \in Nat \ {0} /\ Taps \in Nat \ {0} /\ Skip \in Nat
  BY CalSizes DEF CkStep, CalTypes
<1>5. hi - lo > Skip /\ lo + Skip < Taps /\ \A m \in Lanes : lo - cal_lane[m].lo + CkStep + Skip < Taps
  BY <1>1, <1>2 DEF Calibratable
<1>6. Open(l) = lo + ck
  BY <1>1, <1>3 DEF Open
<1>7. Close(l) = IF hi + ck <= Taps THEN hi + ck ELSE Taps
  <2> DEFINE z == IF hi + ck <= Taps THEN hi + ck ELSE Taps
  <2>1. \A v : v \in {hi + ck, Taps} /\ (\A u \in {hi + ck, Taps} : v <= u) <=> v = z
    BY <1>4
  <2>2. (CHOOSE v \in {hi + ck, Taps} : \A u \in {hi + ck, Taps} : v <= u) = z
    BY <2>1
  <2> QED BY <1>2, <1>3, <2>2 DEF Close, Min
<1>8. lo + ck + Skip < Taps
  <2>1. CASE ck = 0
    BY <1>4, <1>5, <2>1
  <2>2. CASE ck # 0
    <3>1. PICK m \in Lanes : cal_lane[m].lo + ck <= CkStep
      BY <1>3, <2>2 DEF DelayNeeded
    <3>2. cal_lane[m].lo \in Int /\ lo - cal_lane[m].lo + CkStep + Skip < Taps
      BY <1>5, <3>1 DEF CalTypes
    <3> QED BY <1>4, <3>1, <3>2
  <2> QED BY <2>1, <2>2
<1>9. \A t \in Int : Good(l, t) <=> lo + ck <= t /\ t < hi + ck
  BY <1>1, <1>2, <1>3 DEF Good
<1> HIDE DEF Good
<1> QED BY <1>2, <1>3, <1>4, <1>5, <1>6, <1>7, <1>8, <1>9

\* A tap that is turned stays in the field of the register.
LEMMA TurnIs ==
  ASSUME CalTypes, NEW l \in Lanes, NEW n \in Nat
  PROVE  /\ Turn(l, n) \in [Lanes -> Nat] /\ n % Taps \in Nat
         /\ Turn(l, n)[l] = n % Taps /\ (n < Taps => n % Taps = n)
         /\ \A k \in Lanes : k # l => Turn(l, n)[k] = cal.tap[k]
<1>1. PICK r \in Nat : r = n % Taps /\ (n < Taps => r = n)
  <2>1. n % Taps \in Nat /\ (n < Taps => n % Taps = n)
    BY SizesKnown
  <2> QED BY <2>1
<1>2. cal.tap \in [Lanes -> Nat]
  BY DEF CalTypes
<1>3. Turn(l, n) = [cal.tap EXCEPT ![l] = r]
  BY <1>1 DEF Turn
<1> QED BY <1>1, <1>2, <1>3

\* The middle between two taps is one.
LEMMA MiddleIs ==
  ASSUME CalTypes, NEW l \in Lanes, NEW f \in Middle(l)
  PROVE  f \in Nat /\ (cal.tap_a[l] # Unset => f = (cal.tap_a[l] + cal.rd) \div 2)
<1>1. PICK a \in Nat : f = (a + cal.rd) \div 2 /\ (cal.tap_a[l] # Unset => a = cal.tap_a[l])
  <2>1. cal.tap_a[l] \in Nat \cup {Unset} /\ Taps \in Nat
    BY SizesKnown DEF CalTypes
  <2> QED BY <2>1 DEF Middle
<1>2. PICK s \in Nat : s = a + cal.rd
  BY <1>1 DEF CalTypes
<1>3. s \div 2 \in Nat
  BY <1>2
<1> QED BY <1>1, <1>2, <1>3

\* The variables of the routines keep their types when a lane is done with.
LEMMA NextLaneTypes ==
  ASSUME CalTypes, cal.i \in Lanes, NextLane(cal.i), UNCHANGED <<cal_lane, cal_side>>
  PROVE  CalTypes'
<1>1. PICK f \in Middle(cal.i) :
        cal' = [cal EXCEPT !.final[cal.i] = f, !.tap = Turn(cal.i, f), !.i = cal.i + 1, !.rd = 0, !.err = FALSE,
                  !.pc = IF cal.i + 1 \in Lanes THEN @ ELSE "done"]
  BY DEF NextLane
<1>2. f \in Nat /\ Turn(cal.i, f) \in [Lanes -> Nat] /\ cal.i + 1 \in Nat
  <2>1. f \in Nat
    BY MiddleIs
  <2>2. Turn(cal.i, f) \in [Lanes -> Nat]
    BY <2>1, TurnIs
  <2>3. cal.i + 1 \in Nat
    BY DEF CalTypes
  <2> QED BY <2>1, <2>2, <2>3
<1> HIDE DEF Middle
<1> QED BY <1>1, <1>2 DEF CalTypes

\* Whatever the windows are, the variables of the routines keep their types.
LEMMA CalTypesKept == CalTypes /\ CalNext => CalTypes'
<1> SUFFICES ASSUME CalTypes, CalNext PROVE CalTypes'
  OBVIOUS
<1>1. UNCHANGED <<cal_lane, cal_side>>
  BY DEF CalNext, AdjustClock, FindStart7623, FindStart7530, StartsFound, FindEnd7623, FindEnd7530
<1>2. CkStep \in Nat \ {0} /\ Skip \in Nat /\ Taps \in Nat \ {0}
  BY CalSizes DEF CkStep, CalTypes
<1>3. CASE AdjustClock
  <2>1. PICK F \in [Lanes -> BOOLEAN] : F = Flags
    BY DEF Flags, Good
  <2>2. PICK ck \in Nat : /\ ck = (IF AllBad(F) THEN cal.ck ELSE cal.ck + CkStep)
                          /\ cal' = [cal EXCEPT !.flag = F, !.ck = ck, !.seen = F,
                                       !.pc = IF AllBad(F) \/ ck = CkEnd THEN "start" ELSE @]
    <3>1. cal.ck \in Nat /\ cal.ck + CkStep \in Nat
      BY <1>2 DEF CalTypes
    <3>2. PICK ck \in Nat : ck = IF AllBad(F) THEN cal.ck ELSE cal.ck + CkStep
      BY <3>1
    <3> HIDE DEF AllBad
    <3>3. cal' = [cal EXCEPT !.flag = F, !.ck = ck, !.seen = F,
                    !.pc = IF AllBad(F) \/ ck = CkEnd THEN "start" ELSE @]
      BY <1>3, <2>1, <3>2 DEF AdjustClock
    <3> QED BY <3>2, <3>3
  <2>3. PICK pc \in {"clock", "start"} : cal' = [cal EXCEPT !.flag = F, !.ck = ck, !.seen = F, !.pc = pc]
    <3>1. cal.pc = "clock"
      BY <1>3 DEF AdjustClock
    <3> QED BY <2>2, <3>1
  <2>4. cal.i \in Lanes
    BY <1>3 DEF AdjustClock, CalTypes
  <2> QED BY <1>1, <2>1, <2>2, <2>3, <2>4 DEF CalTypes
<1>4. ASSUME NEW k \in Lanes, cal.flag[k]
      PROVE  Current \in Lanes /\ cal.tap[Current] \in Nat
  <2>1. Current \in Lanes
    BY <1>4, CurrentIs
  <2> QED BY <2>1 DEF CalTypes
<1>5. CASE FindStart7623
  <2>1. PICK l \in Lanes : l = Current /\ cal.tap[l] \in Nat
    BY <1>4, <1>5 DEF FindStart7623
  <2>2. PICK t \in Nat : t = cal.tap[l]
    BY <2>1
  <2>3. Turn(l, t + Skip) \in [Lanes -> Nat] /\ Turn(l, t + 1) \in [Lanes -> Nat]
    <3>1. t + Skip \in Nat /\ t + 1 \in Nat
      BY <1>2, <2>2
    <3> QED BY <3>1, TurnIs
  <2>4. \/ cal' = [cal EXCEPT !.flag[l] = FALSE, !.tap = Turn(l, t + Skip)]
        \/ cal' = [cal EXCEPT !.tap = Turn(l, t + 1), !.tap_a[l] = t + 1]
    BY <1>5, <2>1, <2>2 DEF FindStart7623, StartStep
  <2>5. CASE cal' = [cal EXCEPT !.flag[l] = FALSE, !.tap = Turn(l, t + Skip)]
    BY <1>1, <2>3, <2>5 DEF CalTypes
  <2>6. CASE cal' = [cal EXCEPT !.tap = Turn(l, t + 1), !.tap_a[l] = t + 1]
    <3>1. PICK c \in Nat : c = t + 1
      BY <2>2
    <3>2. cal' = [cal EXCEPT !.tap = Turn(l, c), !.tap_a[l] = c] /\ Turn(l, c) \in [Lanes -> Nat]
      BY <2>3, <2>6, <3>1
    <3> QED BY <1>1, <3>2 DEF CalTypes
  <2> QED BY <2>4, <2>5, <2>6
<1>6. CASE FindStart7530
  <2>1. PICK l \in Lanes : l = Current /\ cal.tap[l] \in Nat
    BY <1>4, <1>6 DEF FindStart7530
  <2>2. PICK t \in Nat : t = cal.tap[l]
    BY <2>1
  <2>3. PICK n \in Nat : n = IF cal.seen[l] THEN t + 1 ELSE t + Skip
    BY <1>2, <2>2
  <2>4. PICK b \in BOOLEAN : b = ~Good(l, n % Taps)
    OBVIOUS
  <2>5. Turn(l, n) \in [Lanes -> Nat]
    BY <2>3, TurnIs
  <2>6. PICK c \in Nat : c = IF cal.seen[l] THEN t + 1 ELSE t
    BY <2>2
  <2>7. cal' = [cal EXCEPT !.flag[l] = cal.seen[l], !.tap = Turn(l, n), !.tap_a[l] = c, !.seen[l] = b]
    BY <1>6, <2>1, <2>2, <2>3, <2>4, <2>6 DEF FindStart7530, StartStep
  <2> QED BY <1>1, <2>4, <2>5, <2>6, <2>7 DEF CalTypes
<1>7. CASE StartsFound
  BY <1>1, <1>7 DEF StartsFound, CalTypes
<1>8. CASE FindEnd7623 \/ FindEnd7530
  <2>1. cal.i \in Lanes
    BY <1>8 DEF FindEnd7623, FindEnd7530, CalTypes
  <2>2. CASE NextLane(cal.i)
    BY <1>1, <2>1, <2>2, NextLaneTypes
  <2>3. PICK n \in Nat : n = cal.tap[cal.i] + 1
    BY <2>1 DEF CalTypes
  <2>4. PICK b \in BOOLEAN : b = ~Good(cal.i, n % Taps)
    OBVIOUS
  <2>5. Turn(cal.i, n) \in [Lanes -> Nat]
    BY <2>1, <2>3, TurnIs
  <2>6. CASE cal' = [cal EXCEPT !.tap = Turn(cal.i, n), !.rd = n, !.err = b]
    BY <1>1, <2>1, <2>5, <2>6 DEF CalTypes
  <2>7. CASE cal' = [cal EXCEPT !.err = TRUE]
    BY <1>1, <2>1, <2>7 DEF CalTypes
  <2>8. CASE cal' = [cal EXCEPT !.tap = Turn(cal.i, n), !.rd = n, !.seen[cal.i] = b]
    BY <1>1, <2>1, <2>5, <2>8 DEF CalTypes
  <2>9. CASE FindEnd7623
    BY <2>2, <2>3, <2>4, <2>6, <2>9 DEF FindEnd7623
  <2>10. CASE FindEnd7530
    BY <2>2, <2>3, <2>4, <2>7, <2>8, <2>10 DEF FindEnd7530
  <2> QED BY <1>8, <2>9, <2>10
<1> QED BY <1>3, <1>5, <1>6, <1>7, <1>8 DEF CalNext

\* Only the first part of the calibration moves the windows.
LEMMA WindowsStay ==
  ASSUME UNCHANGED <<cal_lane, cal_side>>, cal'.ck = cal.ck
  PROVE  /\ Calibratable' <=> Calibratable
         /\ DelayNeeded' <=> DelayNeeded
         /\ \A l : Open(l)' = Open(l) /\ Close(l)' = Close(l)
<1>1. CkStep' = CkStep
  BY DEF CkStep
<1>2. \A l : Open(l)' = Open(l) /\ Close(l)' = Close(l)
  BY DEF Open, Close
<1>3. Calibratable' <=> Calibratable
  BY <1>1 DEF Calibratable
<1>4. DelayNeeded' <=> DelayNeeded
  BY <1>1 DEF DelayNeeded
<1> QED BY <1>2, <1>3, <1>4

\* The clock is delayed until every lane fails at tap 0, which is before the
\* delay is at its limit.
LEMMA AdjustClockKeeps ==
  ASSUME CalTypes, Calibratable, CalKnown, AdjustClock
  PROVE  CalKnown'
<1>1. CkStep \in Nat \ {0} /\ CkStep' = CkStep /\ CkEnd \in Nat
  BY CalSizes DEF CkStep, CalTypes, AdjustClock
<1>2. /\ UNCHANGED <<cal_lane, cal_side>> /\ cal.pc = "clock"
      /\ cal.i = 1 /\ cal.rd = 0 /\ cal.err = FALSE
      /\ \A l \in Lanes : cal.tap[l] = 0 /\ cal.tap_a[l] = Unset
  BY DEF AdjustClock, CalKnown, ClockFirst, EndsLater
<1>3. PICK ck \in Nat : ck = cal.ck
  BY DEF CalTypes
<1>4. PICK next : next = IF AllBad(Flags) THEN ck ELSE ck + CkStep
  OBVIOUS
<1>5. PICK pc : pc = IF AllBad(Flags) \/ next = CkEnd THEN "start" ELSE "clock"
  OBVIOUS
<1>6. cal' = [cal EXCEPT !.flag = Flags, !.ck = next, !.seen = Flags, !.pc = pc]
  BY <1>2, <1>3, <1>4, <1>5 DEF AdjustClock
<1>7. /\ cal'.flag = Flags /\ cal'.ck = next /\ cal'.seen = Flags /\ cal'.pc = pc
      /\ cal'.i = 1 /\ cal'.rd = 0 /\ cal'.err = FALSE
      /\ \A l \in Lanes : cal'.tap[l] = 0 /\ cal'.tap_a[l] = Unset
  BY <1>2, <1>6 DEF CalTypes
<1>8. \A l \in Lanes : cal_lane[l].lo \in Int /\ cal_lane[l].hi \in Int
  BY DEF CalTypes
<1>9. \A l \in Lanes : cal_lane[l].hi > 0 /\ cal_lane[l].lo + CkEnd - CkStep > 0
  BY DEF Calibratable
<1>10. \A l \in Lanes : Flags[l] <=> cal_lane[l].lo + ck > 0
  <2> SUFFICES ASSUME NEW l \in Lanes PROVE Flags[l] <=> cal_lane[l].lo + ck > 0
    OBVIOUS
  <2>1. Flags[l] <=> ~(cal_lane[l].lo + ck <= 0 /\ 0 < cal_lane[l].hi + ck)
    BY <1>2, <1>3 DEF Flags, Good
  <2>2. cal_lane[l].lo \in Int /\ cal_lane[l].hi \in Int /\ cal_lane[l].hi > 0
    BY <1>8, <1>9
  <2> QED BY <2>1, <2>2
<1>11. EndsLater' /\ EndsKnown' /\ Centred'
  <2>1. pc # "end" /\ pc # "done"
    BY <1>5
  <2> QED BY <1>7, <2>1 DEF EndsLater, EndsKnown, Centred
<1>12. CASE AllBad(Flags)
  <2>1. next = ck /\ pc = "start" /\ \A l \in Lanes : Flags[l] /\ cal_lane[l].lo + ck > 0
    BY <1>4, <1>5, <1>10, <1>12 DEF AllBad
  <2>2. DelayNeeded'
    <3>1. DelayNeeded
      BY DEF CalKnown
    <3> QED BY <1>1, <1>2, <1>3, <1>7, <2>1, <3>1, WindowsStay
  <2>3. \A l \in Lanes : Open(l)' > 0
    BY <1>2, <1>7, <2>1 DEF Open
  <2>4. ClockFirst'
    BY <1>7, <2>1, <2>3 DEF ClockFirst
  <2>5. StartsKnown'
    <3> SUFFICES ASSUME NEW l \in Lanes PROVE cal'.flag[l] /\ Approaching(l)'
      BY DEF StartsKnown
    <3>1. cal'.flag[l] /\ cal'.seen[l] /\ cal'.tap[l] = 0 /\ cal'.tap_a[l] = Unset
      BY <1>7, <2>1
    <3>2. Open(l)' \in Int /\ Open(l)' > 0
      BY <1>2, <1>7, <1>8, <2>1, <2>3 DEF Open
    <3>3. ~Good(l, cal.tap[l])'
      <4>1. Open(l)' = cal_lane[l].lo + ck
        BY <1>2, <1>7, <2>1 DEF Open
      <4>2. ~(cal_lane[l].lo + ck <= 0)
        BY <3>2, <4>1
      <4> QED BY <1>2, <1>7, <2>1, <3>1, <4>2 DEF Good
    <3>4. 0 <= Open(l)'
      BY <3>2
    <3> QED BY <3>1, <3>3, <3>4 DEF Approaching
  <2> QED BY <1>11, <2>2, <2>4, <2>5 DEF CalKnown
<1>13. CASE ~AllBad(Flags)
  <2>1. PICK m \in Lanes : ~Flags[m]
    BY <1>13 DEF AllBad
  <2>2. cal_lane[m].lo + ck <= 0 /\ cal_lane[m].lo \in Int
    BY <1>3, <1>8, <1>10, <2>1
  <2>3. next = ck + CkStep
    BY <1>4, <1>13
  <2>4. cal_lane[m].lo + CkEnd - CkStep > 0
    BY <1>9
  <2>5. next # CkEnd
    BY <1>1, <1>3, <2>2, <2>3, <2>4
  <2>6. pc = "clock"
    BY <1>5, <1>13, <2>5
  <2>7. DelayNeeded'
    <3>1. cal_lane[m].lo + next <= CkStep
      BY <1>1, <1>3, <2>2, <2>3
    <3> QED BY <1>1, <1>2, <1>7, <3>1 DEF DelayNeeded
  <2>8. ClockFirst' /\ StartsKnown'
    BY <1>7, <2>6 DEF ClockFirst, StartsKnown
  <2> QED BY <1>11, <2>7, <2>8 DEF CalKnown
<1> QED BY <1>12, <1>13

\* While the starts are looked for only the lane whose turn it is changes.
LEMMA StartStepKeeps ==
  ASSUME CalTypes, Calibratable, CalKnown, UNCHANGED <<cal_lane, cal_side>>,
         cal.pc = "start", cal'.pc = "start", cal'.ck = cal.ck,
         cal'.i = cal.i, cal'.rd = cal.rd, cal'.err = cal.err,
         NEW l \in Lanes,
         \A k \in Lanes : k # l => /\ cal'.flag[k] = cal.flag[k] /\ cal'.tap[k] = cal.tap[k]
                                   /\ cal'.tap_a[k] = cal.tap_a[k] /\ cal'.seen[k] = cal.seen[k],
         IF cal'.flag[l] THEN Approaching(l)' ELSE StartKnown(l)'
  PROVE  CalKnown'
<1>1. /\ DelayNeeded' <=> DelayNeeded
      /\ \A k : Open(k)' = Open(k) /\ Close(k)' = Close(k)
  BY WindowsStay
<1>2. \A k \in Lanes : Open(k)' > 0
  BY <1>1 DEF CalKnown, ClockFirst
<1>3. DelayNeeded' /\ ClockFirst' /\ EndsLater' /\ EndsKnown' /\ Centred'
  BY <1>1, <1>2 DEF CalKnown, ClockFirst, EndsLater, EndsKnown, Centred
<1>4. StartsKnown'
  <2> SUFFICES ASSUME NEW k \in Lanes PROVE IF cal'.flag[k] THEN Approaching(k)' ELSE StartKnown(k)'
    BY DEF StartsKnown
  <2>1. CASE k = l
    BY <2>1
  <2>2. CASE k # l
    <3>1. IF cal.flag[k] THEN Approaching(k) ELSE StartKnown(k)
      BY DEF CalKnown, StartsKnown
    <3>2. Good(k, cal.tap[k])' <=> Good(k, cal.tap[k])
      BY <2>2 DEF Good
    <3> HIDE DEF Good
    <3>3. Approaching(k)' <=> Approaching(k)
      BY <1>1, <2>2, <3>2 DEF Approaching
    <3>4. StartKnown(k)' <=> StartKnown(k)
      BY <1>1, <2>2 DEF StartKnown
    <3> QED BY <2>2, <3>1, <3>3, <3>4
  <2> QED BY <2>1, <2>2
<1> QED BY <1>3, <1>4 DEF CalKnown

\* Up to the start of its window a lane fails; there, and for the skip, it
\* is received.
LEMMA UpToTheStart ==
  ASSUME CalTypes, Calibratable, CalKnown, NEW l \in Lanes, cal.pc = "start", cal.tap[l] <= Open(l)
  PROVE  /\ Good(l, cal.tap[l]) <=> cal.tap[l] = Open(l)
         /\ cal.tap[l] + Skip < Taps /\ Good(l, Open(l) + Skip) /\ Open(l) > 0
         /\ cal.tap[l] # Open(l) => cal.tap[l] + 1 <= Open(l) /\ cal.tap[l] + 1 < Taps
<1>1. PICK t \in Nat : t = cal.tap[l]
  BY DEF CalTypes
<1>2. DelayNeeded
  BY DEF CalKnown
<1>3. PICK o \in Int : o = Open(l)
  BY <1>2, WindowIs
<1>4. PICK c \in Int : c = Close(l)
  BY <1>2, WindowIs
<1>5. /\ o + Skip < c /\ o + Skip < Taps /\ c <= Taps /\ Taps \in Nat /\ Skip \in Nat
      /\ \A u \in Nat : Good(l, u) <=> o <= u /\ (u < c \/ (u >= Taps /\ u < cal_lane[l].hi + cal.ck))
  BY <1>2, <1>3, <1>4, WindowIs, SizesKnown
<1>6. t <= o /\ o > 0
  BY <1>1, <1>3 DEF CalKnown, ClockFirst
<1>7. Good(l, t) <=> t = o
  BY <1>5, <1>6
<1>8. Good(l, o + Skip)
  <2>1. o + Skip \in Nat /\ o <= o + Skip
    BY <1>5, <1>6
  <2> QED BY <1>5, <2>1
<1>9. /\ t + Skip < Taps
      /\ t # o => t + 1 <= o /\ t + 1 < Taps
  BY <1>5, <1>6
<1> QED BY <1>1, <1>3, <1>6, <1>7, <1>8, <1>9

\* The lane whose turn it is has not found its start.
LEMMA CurrentApproaches ==
  ASSUME CalTypes, CalKnown, cal.pc = "start", NEW k \in Lanes, cal.flag[k]
  PROVE  Current \in Lanes /\ Approaching(Current)
<1>1. Current \in Lanes /\ cal.flag[Current]
  BY CurrentIs
<1> QED BY <1>1 DEF CalKnown, StartsKnown

\* Looking for the starts: a lane with an error has found its own.
LEMMA FindStart7623Keeps ==
  ASSUME CalTypes, Calibratable, CalKnown, FindStart7623
  PROVE  CalKnown'
<1>1. cal_side = "7623" /\ cal.pc = "start" /\ UNCHANGED <<cal_lane, cal_side>>
  BY DEF FindStart7623
<1>2. PICK l \in Lanes : l = Current /\ Approaching(l)
  BY CurrentApproaches DEF FindStart7623
<1>3. PICK t \in Nat : t = cal.tap[l]
  BY DEF CalTypes
<1>4. t <= Open(l) /\ cal.tap_a[l] = IF t = 0 THEN Unset ELSE t
  BY <1>2, <1>3 DEF Approaching
<1>5. /\ Good(l, t) <=> t = Open(l)
      /\ t + Skip < Taps /\ Good(l, Open(l) + Skip) /\ Open(l) > 0
      /\ t # Open(l) => t + 1 <= Open(l) /\ t + 1 < Taps
  BY <1>1, <1>3, <1>4, UpToTheStart
<1>6. Skip \in Nat /\ t + Skip \in Nat /\ t + 1 \in Nat
  BY SizesKnown
<1>7. CASE Good(l, t)
  <2>1. PICK T \in [Lanes -> Nat] : T = Turn(l, t + Skip)
    BY <1>6, TurnIs
  <2>2. T[l] = t + Skip /\ \A k \in Lanes : k # l => T[k] = cal.tap[k]
    BY <1>5, <1>6, <2>1, TurnIs
  <2>3. cal' = [cal EXCEPT !.flag[l] = FALSE, !.tap = T]
    BY <1>2, <1>3, <1>7, <2>1 DEF FindStart7623
  <2>4. /\ cal'.flag[l] = FALSE /\ cal'.tap[l] = t + Skip /\ cal'.tap_a[l] = t
        /\ cal'.ck = cal.ck /\ cal'.pc = "start"
        /\ cal'.i = cal.i /\ cal'.rd = cal.rd /\ cal'.err = cal.err
        /\ \A k \in Lanes : k # l => /\ cal'.flag[k] = cal.flag[k] /\ cal'.tap[k] = cal.tap[k]
                                     /\ cal'.tap_a[k] = cal.tap_a[k] /\ cal'.seen[k] = cal.seen[k]
    <3>1. t # 0
      BY <1>5, <1>7
    <3> QED BY <1>1, <1>4, <2>2, <2>3, <3>1 DEF CalTypes
  <2>5. StartKnown(l)'
    <3>1. Open(l)' = Open(l)
      BY <1>1, <2>4, WindowsStay
    <3> QED BY <1>1, <1>5, <1>7, <2>4, <3>1 DEF StartKnown
  <2> QED BY <1>1, <2>4, <2>5, StartStepKeeps
<1>8. CASE ~Good(l, t)
  <2>1. PICK T \in [Lanes -> Nat] : T = Turn(l, t + 1)
    BY <1>6, TurnIs
  <2>2. T[l] = t + 1 /\ \A k \in Lanes : k # l => T[k] = cal.tap[k]
    BY <1>5, <1>6, <1>8, <2>1, TurnIs
  <2>3. cal' = [cal EXCEPT !.tap = T, !.tap_a[l] = t + 1]
    BY <1>2, <1>3, <1>8, <2>1 DEF FindStart7623, StartStep
  <2>4. /\ cal'.flag[l] = cal.flag[l] /\ cal'.tap[l] = t + 1 /\ cal'.tap_a[l] = t + 1
        /\ cal'.ck = cal.ck /\ cal'.pc = "start"
        /\ cal'.i = cal.i /\ cal'.rd = cal.rd /\ cal'.err = cal.err
        /\ \A k \in Lanes : k # l => /\ cal'.flag[k] = cal.flag[k] /\ cal'.tap[k] = cal.tap[k]
                                     /\ cal'.tap_a[k] = cal.tap_a[k] /\ cal'.seen[k] = cal.seen[k]
    BY <1>1, <2>2, <2>3 DEF CalTypes
  <2>5. Approaching(l)'
    <3>1. Open(l)' = Open(l)
      BY <1>1, <2>4, WindowsStay
    <3>2. t + 1 # 0 /\ t + 1 <= Open(l)
      BY <1>5, <1>8
    <3> QED BY <1>1, <2>4, <3>1, <3>2 DEF Approaching
  <2>6. cal.flag[l]
    BY <1>2, CurrentIs DEF FindStart7623
  <2> QED BY <1>1, <2>4, <2>5, <2>6, StartStepKeeps
<1> QED BY <1>7, <1>8

\* The answer the 7530 gives is that of the check before, but about the tap
\* the lane stands at.
LEMMA FindStart7530Keeps ==
  ASSUME CalTypes, Calibratable, CalKnown, FindStart7530
  PROVE  CalKnown'
<1>1. cal_side = "7530" /\ cal.pc = "start" /\ UNCHANGED <<cal_lane, cal_side>>
  BY DEF FindStart7530
<1>2. PICK l \in Lanes : l = Current /\ Approaching(l)
  BY CurrentApproaches DEF FindStart7530
<1>3. PICK t \in Nat : t = cal.tap[l]
  BY DEF CalTypes
<1>4. t <= Open(l) /\ (cal.seen[l] <=> ~Good(l, t))
  BY <1>1, <1>2, <1>3 DEF Approaching
<1>5. /\ Good(l, t) <=> t = Open(l)
      /\ t + Skip < Taps /\ Good(l, Open(l) + Skip) /\ Open(l) > 0
      /\ t # Open(l) => t + 1 <= Open(l) /\ t + 1 < Taps
  BY <1>1, <1>3, <1>4, UpToTheStart
<1>6. Skip \in Nat /\ t + Skip \in Nat /\ t + 1 \in Nat
  BY SizesKnown
<1>7. PICK n \in Nat : n = IF cal.seen[l] THEN t + 1 ELSE t + Skip
  BY <1>6
<1>8. n < Taps
  BY <1>4, <1>5, <1>7
<1>9. PICK T \in [Lanes -> Nat] : T = Turn(l, n)
  BY TurnIs
<1>10. T[l] = n /\ n % Taps = n /\ \A k \in Lanes : k # l => T[k] = cal.tap[k]
  BY <1>8, <1>9, TurnIs
<1>11. PICK b \in BOOLEAN : b <=> ~Good(l, n)
  OBVIOUS
<1>12. PICK a \in Nat : a = IF cal.seen[l] THEN t + 1 ELSE t
  BY <1>6
<1>13. cal.seen[l] \in BOOLEAN
  BY DEF CalTypes
<1>14. cal' = [cal EXCEPT !.flag[l] = cal.seen[l], !.tap = T, !.tap_a[l] = a, !.seen[l] = b]
  <2>1. (~Good(l, n % Taps)) = b
    BY <1>10, <1>11
  <2> HIDE DEF Good
  <2> QED BY <1>2, <1>3, <1>7, <1>9, <1>12, <2>1 DEF FindStart7530, StartStep
<1>15. /\ cal'.flag[l] = cal.seen[l] /\ cal'.tap[l] = n /\ cal'.tap_a[l] = a /\ cal'.seen[l] = b
       /\ cal'.ck = cal.ck /\ cal'.pc = "start"
       /\ cal'.i = cal.i /\ cal'.rd = cal.rd /\ cal'.err = cal.err
       /\ \A k \in Lanes : k # l => /\ cal'.flag[k] = cal.flag[k] /\ cal'.tap[k] = cal.tap[k]
                                    /\ cal'.tap_a[k] = cal.tap_a[k] /\ cal'.seen[k] = cal.seen[k]
  BY <1>1, <1>10, <1>14 DEF CalTypes
<1>16. Open(l)' = Open(l)
  BY <1>1, <1>15, WindowsStay
<1>17. CASE cal.seen[l]
  <2>1. n = t + 1 /\ a = t + 1 /\ n # 0 /\ n <= Open(l)
    BY <1>4, <1>5, <1>7, <1>12, <1>17
  <2>2. Good(l, cal.tap[l])' <=> Good(l, n)
    BY <1>1, <1>15 DEF Good
  <2>3. Approaching(l)'
    <3> HIDE DEF Good
    <3> QED BY <1>11, <1>15, <1>16, <2>1, <2>2 DEF Approaching
  <2> QED BY <1>1, <1>15, <1>17, <2>3, StartStepKeeps
<1>18. CASE ~cal.seen[l]
  <2>1. n = Open(l) + Skip /\ a = Open(l) /\ Good(l, n)
    BY <1>4, <1>5, <1>7, <1>12, <1>18
  <2>2. StartKnown(l)'
    BY <1>11, <1>15, <1>16, <2>1 DEF StartKnown
  <2>3. ~cal'.flag[l]
    BY <1>15, <1>18
  <2> QED BY <1>1, <1>15, <2>2, <2>3, StartStepKeeps
<1> QED BY <1>17, <1>18

\* From the starts to the ends.
LEMMA StartsFoundKeeps ==
  ASSUME CalTypes, Calibratable, CalKnown, StartsFound
  PROVE  CalKnown'
<1>1. /\ cal.pc = "start" /\ cal' = [cal EXCEPT !.pc = "end"] /\ UNCHANGED <<cal_lane, cal_side>>
      /\ \A l \in Lanes : ~cal.flag[l]
  BY DEF StartsFound
<1>2. /\ cal'.pc = "end" /\ cal'.ck = cal.ck /\ cal'.tap = cal.tap /\ cal'.tap_a = cal.tap_a
      /\ cal'.seen = cal.seen /\ cal'.i = 1 /\ cal'.rd = 0 /\ cal'.err = FALSE
  BY <1>1 DEF CalTypes, CalKnown, EndsLater
<1>3. /\ DelayNeeded' <=> DelayNeeded
      /\ \A k : Open(k)' = Open(k) /\ Close(k)' = Close(k)
  BY <1>1, <1>2, WindowsStay
<1>4. \A l \in Lanes : StartKnown(l) /\ Open(l) > 0
  BY <1>1 DEF CalKnown, StartsKnown, ClockFirst
<1>5. \A l \in Lanes : StartKnown(l)'
  BY <1>1, <1>2, <1>3, <1>4 DEF StartKnown
<1>6. Leaving(cal.i)'
  <2>1. 1 \in Lanes /\ StartKnown(1)' /\ Open(1) > 0
    BY <1>4, <1>5, SizesKnown
  <2>2. Open(1) \in Int /\ Close(1) \in Int /\ Open(1) + Skip < Close(1) /\ Skip \in Nat
    BY <2>1, WindowIs, SizesKnown DEF CalKnown
  <2>3. Close(1) # 0
    BY <2>1, <2>2
  <2>4. /\ Open(1)' = Open(1) /\ Close(1)' = Close(1) /\ cal'.i = 1
        /\ cal'.tap_a[1] = Open(1) /\ cal'.tap[1] = Open(1) + Skip
        /\ cal_side' = "7530" => cal'.seen[1] = FALSE
    BY <1>2, <1>3, <2>1 DEF StartKnown
  <2>5. cal_side' \in {"7623", "7530"}
    BY <1>1 DEF CalTypes, Sides
  <2> QED BY <1>2, <2>3, <2>4, <2>5 DEF Leaving, ErrorSeen
<1>7. EndsKnown'
  BY <1>2, <1>5, <1>6, SizesKnown DEF EndsKnown, Lanes
<1>8. DelayNeeded' /\ ClockFirst' /\ EndsLater' /\ StartsKnown' /\ Centred'
  BY <1>2, <1>3, <1>4 DEF CalKnown, ClockFirst, EndsLater, StartsKnown, Centred
<1> QED BY <1>7, <1>8 DEF CalKnown

\* A lane is done with at the end of its window only.
LEMMA NextLaneKeeps ==
  ASSUME CalTypes, Calibratable, CalKnown, cal.pc = "end", UNCHANGED <<cal_lane, cal_side>>,
         cal.err \/ StopAt(cal.rd), NextLane(cal.i)
  PROVE  CalKnown'
<1>1. PICK i \in Lanes : i = cal.i /\ i \in Nat
  BY SizesKnown DEF CalTypes
<1>2. Leaving(i)
  BY <1>1 DEF CalKnown, EndsKnown
<1>3. PICK o \in Int : o = Open(i)
  BY WindowIs DEF CalKnown
<1>4. PICK c \in Int : c = Close(i)
  BY WindowIs DEF CalKnown
<1>5. o > 0 /\ o + Skip < c /\ c <= Taps /\ Skip \in Nat /\ Taps \in Nat
  BY <1>1, <1>3, <1>4, WindowIs, SizesKnown DEF CalKnown, ClockFirst
<1>6. cal.rd = c /\ cal.tap_a[i] = o /\ cal.tap_a[i] # Unset
  <2>1. cal.rd \in Nat
    BY DEF CalTypes
  <2>2. cal.tap_a[i] = o /\ (cal.rd = 0 \/ cal.rd <= c) /\ (cal.rd # c => cal.err = FALSE)
    BY <1>2, <1>3, <1>4 DEF Leaving
  <2>3. CASE cal.err
    BY <1>5, <2>2, <2>3 DEF Unset
  <2>4. CASE cal.rd = Taps
    BY <1>5, <2>1, <2>2, <2>4 DEF Unset
  <2> QED BY <2>3, <2>4 DEF StopAt
<1>7. PICK f \in Middle(i) :
        cal' = [cal EXCEPT !.final[i] = f, !.tap = Turn(i, f), !.i = i + 1, !.rd = 0, !.err = FALSE,
                  !.pc = IF i + 1 \in Lanes THEN @ ELSE "done"]
  BY <1>1 DEF NextLane
<1>8. f \in Nat /\ f = (o + c) \div 2
  BY <1>6, MiddleIs
<1>9. PICK T \in [Lanes -> Nat] : T = Turn(i, f) /\ \A k \in Lanes : k # i => T[k] = cal.tap[k]
  BY <1>8, TurnIs
<1>10. /\ cal'.final[i] = f /\ cal'.i = i + 1 /\ cal'.rd = 0 /\ cal'.err = FALSE
       /\ cal'.tap_a = cal.tap_a /\ cal'.seen = cal.seen /\ cal'.ck = cal.ck
       /\ cal'.pc = (IF i + 1 \in Lanes THEN "end" ELSE "done")
       /\ \A k \in Lanes : k # i => cal'.tap[k] = cal.tap[k] /\ cal'.final[k] = cal.final[k]
  BY <1>7, <1>9 DEF CalTypes
<1>11. /\ DelayNeeded' <=> DelayNeeded
       /\ \A k : Open(k)' = Open(k) /\ Close(k)' = Close(k)
  BY <1>10, WindowsStay
<1>12. \A l \in Lanes : l < i + 1 => cal'.final[l] = (Open(l) + Close(l)) \div 2
  <2> SUFFICES ASSUME NEW l \in Lanes, l < i + 1 PROVE cal'.final[l] = (Open(l) + Close(l)) \div 2
    OBVIOUS
  <2>1. CASE l = i
    BY <1>3, <1>4, <1>8, <1>10, <2>1
  <2>2. CASE l # i
    <3>1. l < i
      BY <1>1, <2>2, SizesKnown
    <3> QED BY <1>1, <1>10, <2>2, <3>1 DEF CalKnown, EndsKnown
  <2> QED BY <2>1, <2>2
<1>13. \A l \in Lanes : l > i => StartKnown(l)' /\ StartKnown(l)
  <2> SUFFICES ASSUME NEW l \in Lanes, l > i PROVE StartKnown(l)' /\ StartKnown(l)
    OBVIOUS
  <2>1. StartKnown(l)
    BY <1>1 DEF CalKnown, EndsKnown
  <2>2. l # i
    BY <1>1
  <2>3. cal'.tap[l] = cal.tap[l]
    BY <1>10, <2>2
  <2> QED BY <1>10, <1>11, <2>1, <2>3 DEF StartKnown
<1>14. DelayNeeded' /\ ClockFirst' /\ EndsLater' /\ StartsKnown'
  <2>1. cal'.pc # "start" /\ cal'.pc # "clock"
    BY <1>10
  <2>2. \A l \in Lanes : Open(l)' > 0
    BY <1>11 DEF CalKnown, ClockFirst
  <2> QED BY <1>11, <2>1, <2>2 DEF CalKnown, ClockFirst, EndsLater, StartsKnown
<1>15. CASE i + 1 \in Lanes
  <2>1. cal'.pc = "end" /\ cal'.i = i + 1
    BY <1>10, <1>15
  <2>2. Leaving(cal.i)'
    <3>1. StartKnown(i + 1)' /\ Open(i + 1) > 0 /\ i + 1 > i
      BY <1>1, <1>13, <1>15 DEF CalKnown, ClockFirst
    <3>2. /\ Open(i + 1) \in Int /\ Close(i + 1) \in Int /\ Open(i + 1) + Skip < Close(i + 1)
      BY <1>15, WindowIs DEF CalKnown
    <3>3. Close(i + 1) # 0
      BY <1>5, <3>1, <3>2
    <3>4. /\ Open(i + 1)' = Open(i + 1) /\ Close(i + 1)' = Close(i + 1)
          /\ cal'.tap_a[i + 1] = Open(i + 1) /\ cal'.tap[i + 1] = Open(i + 1) + Skip
          /\ cal_side' = "7530" => cal'.seen[i + 1] = FALSE
      BY <1>11, <3>1 DEF StartKnown
    <3>5. cal_side' \in {"7623", "7530"}
      BY DEF CalTypes, Sides
    <3> QED BY <1>10, <2>1, <3>3, <3>4, <3>5 DEF Leaving, ErrorSeen
  <2>3. \A l \in Lanes : l > i + 1 => StartKnown(l)'
    <3> SUFFICES ASSUME NEW l \in Lanes, l > i + 1 PROVE StartKnown(l)'
      OBVIOUS
    <3>1. l > i
      BY <1>1, SizesKnown
    <3> QED BY <1>13, <3>1
  <2>4. EndsKnown'
    BY <1>11, <1>12, <2>1, <2>2, <2>3 DEF EndsKnown
  <2>5. Centred'
    BY <2>1 DEF Centred
  <2> QED BY <1>14, <2>4, <2>5 DEF CalKnown
<1>16. CASE i + 1 \notin Lanes
  <2>1. cal'.pc = "done"
    BY <1>10, <1>16
  <2>2. \A l \in Lanes : l < i + 1
    BY <1>1, <1>16, SizesKnown DEF Lanes
  <2>3. EndsKnown' /\ Centred'
    BY <1>11, <1>12, <2>1, <2>2 DEF EndsKnown, Centred
  <2> QED BY <1>14, <2>3 DEF CalKnown
<1> QED BY <1>15, <1>16

\* Inside its window a lane is received, at its end it fails or the taps are
\* used up.
LEMMA UpToTheEnd ==
  ASSUME CalTypes, Calibratable, CalKnown, cal.pc = "end", ~cal.err, ~StopAt(cal.rd),
         ~ErrorSeen(cal.i)
  PROVE  LET n == cal.tap[cal.i] + 1
         IN  /\ n > Open(cal.i) /\ n <= Close(cal.i)
             /\ n # Close(cal.i) => Good(cal.i, n % Taps)
             /\ n = Close(cal.i) => ~Good(cal.i, n % Taps) \/ n = Taps
<1>1. PICK i \in Lanes : i = cal.i
  BY DEF CalTypes
<1>2. DelayNeeded /\ Open(i) > 0 /\ Leaving(i)
  BY <1>1 DEF CalKnown, ClockFirst, EndsKnown
<1>3. PICK o \in Int : o = Open(i)
  BY <1>2, WindowIs
<1>4. PICK c \in Int : c = Close(i)
  BY <1>2, WindowIs
<1>5. /\ o > 0 /\ o + Skip < c /\ o + Skip < Taps /\ c <= Taps /\ Taps \in Nat \ {0} /\ Skip \in Nat
      /\ \A u \in Nat : Good(i, u) <=> o <= u /\ (u < c \/ (u >= Taps /\ u < cal_lane[i].hi + cal.ck))
      /\ ~Good(i, c) \/ c = Taps
  BY <1>2, <1>3, <1>4, WindowIs, SizesKnown
<1>6. PICK rd \in Nat : rd = cal.rd
  BY DEF CalTypes
<1>7. PICK n \in Nat : n = cal.tap[i] + 1
  BY DEF CalTypes
<1>8. rd # c /\ rd # Taps
  BY <1>1, <1>2, <1>4, <1>6 DEF Leaving, StopAt
<1>9. n > o /\ n <= c
  <2>1. CASE rd = 0 /\ cal.tap[i] = o + Skip
    BY <1>5, <1>7, <2>1
  <2>2. CASE rd > o /\ rd <= c /\ cal.tap[i] = rd % Taps
    <3>1. rd < Taps /\ rd < c
      BY <1>5, <1>8, <2>2
    <3>2. rd % Taps = rd
      BY <1>5, <3>1
    <3> QED BY <1>7, <2>2, <3>1, <3>2
  <2> QED BY <1>2, <1>3, <1>4, <1>6, <2>1, <2>2 DEF Leaving
<1>10. CASE n # c
  <2>1. n % Taps = n
    BY <1>5, <1>9, <1>10
  <2>2. Good(i, n)
    BY <1>5, <1>9, <1>10
  <2> QED BY <1>1, <1>3, <1>4, <1>7, <1>9, <1>10, <2>1, <2>2
<1>11. CASE n = c /\ n # Taps
  <2>1. n % Taps = n
    BY <1>5, <1>9, <1>11
  <2>2. ~Good(i, n)
    BY <1>5, <1>11
  <2> HIDE DEF Good
  <2> QED BY <1>1, <1>3, <1>4, <1>7, <1>9, <1>11, <2>1, <2>2
<1>12. CASE n = c /\ n = Taps
  BY <1>1, <1>3, <1>4, <1>7, <1>9, <1>12
<1> QED BY <1>10, <1>11, <1>12

\* While the ends are looked for only the lane whose turn it is changes.
LEMMA EndStepKeeps ==
  ASSUME CalTypes, Calibratable, CalKnown, UNCHANGED <<cal_lane, cal_side>>,
         cal.pc = "end", cal'.pc = "end", cal'.ck = cal.ck,
         cal'.i = cal.i, cal'.final = cal.final, cal'.tap_a = cal.tap_a,
         \A k \in Lanes : k # cal.i => cal'.tap[k] = cal.tap[k] /\ cal'.seen[k] = cal.seen[k],
         Leaving(cal.i)'
  PROVE  CalKnown'
<1>1. /\ DelayNeeded' <=> DelayNeeded
      /\ \A k : Open(k)' = Open(k) /\ Close(k)' = Close(k)
  BY WindowsStay
<1>2. \A k \in Lanes : Open(k)' > 0
  BY <1>1 DEF CalKnown, ClockFirst
<1>3. DelayNeeded' /\ ClockFirst' /\ EndsLater' /\ StartsKnown' /\ Centred'
  BY <1>1, <1>2 DEF CalKnown, ClockFirst, EndsLater, StartsKnown, Centred
<1>4. \A l \in Lanes : l > cal.i => StartKnown(l)'
  <2> SUFFICES ASSUME NEW l \in Lanes, l > cal.i PROVE StartKnown(l)'
    OBVIOUS
  <2>1. StartKnown(l)
    BY DEF CalKnown, EndsKnown
  <2>2. l # cal.i
    BY SizesKnown DEF CalTypes
  <2>3. cal'.tap[l] = cal.tap[l] /\ cal'.seen[l] = cal.seen[l]
    BY <2>2
  <2> QED BY <1>1, <2>1, <2>3 DEF StartKnown
<1>5. EndsKnown'
  BY <1>1, <1>4 DEF CalKnown, EndsKnown
<1> QED BY <1>3, <1>5 DEF CalKnown

\* A tap further to the end of the window, and what the lane answers there.
LEMMA TapOnKeeps ==
  ASSUME CalTypes, Calibratable, CalKnown, UNCHANGED <<cal_lane, cal_side>>,
         cal.pc = "end", ~cal.err, ~StopAt(cal.rd), ~ErrorSeen(cal.i),
         NEW n \in Nat, n = cal.tap[cal.i] + 1,
         \/ /\ cal_side = "7623"
            /\ cal' = [cal EXCEPT !.tap = Turn(cal.i, n), !.rd = n, !.err = ~Good(cal.i, n % Taps)]
         \/ /\ cal_side = "7530"
            /\ cal' = [cal EXCEPT !.tap = Turn(cal.i, n), !.rd = n, !.seen[cal.i] = ~Good(cal.i, n % Taps)]
  PROVE  CalKnown'
<1>1. PICK i \in Lanes : i = cal.i
  BY DEF CalTypes
<1>2. PICK b \in BOOLEAN : b = ~Good(i, n % Taps)
  OBVIOUS
<1>3. PICK T \in [Lanes -> Nat] : T = Turn(i, n)
  BY TurnIs
<1>4. T[i] = n % Taps /\ \A k \in Lanes : k # i => T[k] = cal.tap[k]
  BY <1>3, TurnIs
<1>5. \/ cal_side = "7623" /\ cal' = [cal EXCEPT !.tap = T, !.rd = n, !.err = b]
      \/ cal_side = "7530" /\ cal' = [cal EXCEPT !.tap = T, !.rd = n, !.seen[i] = b]
  <2> HIDE DEF Good
  <2> QED BY <1>1, <1>2, <1>3
<1>6. /\ cal'.pc = "end" /\ cal'.ck = cal.ck /\ cal'.i = i /\ cal'.final = cal.final
      /\ cal'.tap_a = cal.tap_a /\ cal'.tap = T /\ cal'.rd = n
      /\ \A k \in Lanes : k # i => cal'.tap[k] = cal.tap[k] /\ cal'.seen[k] = cal.seen[k]
      /\ cal_side = "7623" => cal'.err = b
      /\ cal_side = "7530" => cal'.err = FALSE /\ cal'.seen[i] = b
      /\ cal_side \in {"7623", "7530"}
  <2>1. cal.err = FALSE
    BY DEF CalTypes
  <2>2. CASE cal_side = "7623" /\ cal' = [cal EXCEPT !.tap = T, !.rd = n, !.err = b]
    BY <1>1, <1>4, <2>2 DEF CalTypes
  <2>3. CASE cal_side = "7530" /\ cal' = [cal EXCEPT !.tap = T, !.rd = n, !.seen[i] = b]
    BY <1>1, <1>4, <2>1, <2>3 DEF CalTypes
  <2> QED BY <1>5, <2>2, <2>3
<1>7. ErrorSeen(i)' = b
  BY <1>6 DEF ErrorSeen
<1>8. /\ n > Open(i) /\ n <= Close(i)
      /\ n # Close(i) => b = FALSE
      /\ n = Close(i) => b = TRUE \/ n = Taps
  <2> HIDE DEF Good
  <2> QED BY <1>1, <1>2, UpToTheEnd
<1>9. Open(i)' = Open(i) /\ Close(i)' = Close(i)
  BY <1>6, WindowsStay
<1>10. cal.tap_a[i] = Open(i)
  BY <1>1 DEF CalKnown, EndsKnown, Leaving
<1>11. Leaving(i)'
  <2>1. cal'.rd # Close(i) => cal'.err = FALSE /\ b = FALSE
    BY <1>6, <1>8
  <2> HIDE DEF ErrorSeen
  <2> QED BY <1>4, <1>6, <1>7, <1>8, <1>9, <1>10, <2>1 DEF Leaving
<1> QED BY <1>1, <1>6, <1>11, EndStepKeeps

\* Looking for the ends, of the SoC ...
LEMMA FindEnd7623Keeps ==
  ASSUME CalTypes, Calibratable, CalKnown, FindEnd7623
  PROVE  CalKnown'
<1>1. cal_side = "7623" /\ cal.pc = "end" /\ UNCHANGED <<cal_lane, cal_side>>
  BY DEF FindEnd7623
<1>2. CASE cal.err \/ StopAt(cal.rd)
  <2>1. NextLane(cal.i)
    BY <1>2 DEF FindEnd7623
  <2> QED BY <1>1, <1>2, <2>1, NextLaneKeeps
<1>3. CASE ~(cal.err \/ StopAt(cal.rd))
  <2>1. PICK n \in Nat : n = cal.tap[cal.i] + 1
    BY <1>1 DEF CalTypes
  <2>2. cal' = [cal EXCEPT !.tap = Turn(cal.i, n), !.rd = n, !.err = ~Good(cal.i, n % Taps)]
    BY <1>3, <2>1 DEF FindEnd7623
  <2>3. ~ErrorSeen(cal.i)
    BY <1>1, <1>3 DEF ErrorSeen
  <2> QED BY <1>1, <1>3, <2>1, <2>2, <2>3, TapOnKeeps
<1> QED BY <1>2, <1>3

\* ... and of the switch.
LEMMA FindEnd7530Keeps ==
  ASSUME CalTypes, Calibratable, CalKnown, FindEnd7530
  PROVE  CalKnown'
<1>1. cal_side = "7530" /\ cal.pc = "end" /\ UNCHANGED <<cal_lane, cal_side>>
  BY DEF FindEnd7530
<1>2. CASE cal.err \/ StopAt(cal.rd)
  <2>1. NextLane(cal.i)
    BY <1>2 DEF FindEnd7530
  <2> QED BY <1>1, <1>2, <2>1, NextLaneKeeps
<1>3. CASE ~(cal.err \/ StopAt(cal.rd)) /\ cal.seen[cal.i]
  <2>1. PICK i \in Lanes : i = cal.i
    BY <1>1 DEF CalTypes
  <2>2. cal' = [cal EXCEPT !.err = TRUE]
    BY <1>3 DEF FindEnd7530
  <2>3. /\ cal'.pc = "end" /\ cal'.ck = cal.ck /\ cal'.i = i /\ cal'.final = cal.final
        /\ cal'.tap_a = cal.tap_a /\ cal'.tap = cal.tap /\ cal'.rd = cal.rd
        /\ cal'.seen = cal.seen /\ cal'.err = TRUE
    BY <1>1, <2>1, <2>2 DEF CalTypes
  <2>4. Leaving(i) /\ ErrorSeen(i) = cal.seen[i] /\ cal.seen[i] = TRUE
    BY <1>1, <1>3, <2>1 DEF CalKnown, EndsKnown, ErrorSeen, CalTypes
  <2>5. cal.rd = Close(i)
    BY <2>4 DEF Leaving
  <2>6. Open(i)' = Open(i) /\ Close(i)' = Close(i) /\ ErrorSeen(i)' = TRUE
    BY <1>1, <2>3, <2>4, WindowsStay DEF ErrorSeen
  <2>7. Leaving(i)'
    <3> HIDE DEF ErrorSeen
    <3> QED BY <2>3, <2>4, <2>5, <2>6 DEF Leaving
  <2> QED BY <1>1, <2>1, <2>3, <2>7, EndStepKeeps
<1>4. CASE ~(cal.err \/ StopAt(cal.rd)) /\ ~cal.seen[cal.i]
  <2>1. PICK n \in Nat : n = cal.tap[cal.i] + 1
    BY <1>1 DEF CalTypes
  <2>2. cal' = [cal EXCEPT !.tap = Turn(cal.i, n), !.rd = n, !.seen[cal.i] = ~Good(cal.i, n % Taps)]
    BY <1>4, <2>1 DEF FindEnd7530
  <2>3. ~ErrorSeen(cal.i)
    BY <1>1, <1>4 DEF ErrorSeen
  <2> QED BY <1>1, <1>4, <2>1, <2>2, <2>3, TapOnKeeps
<1> QED BY <1>2, <1>3, <1>4

\* The calibration keeps its invariant.
LEMMA CalKept == CalInv /\ [CalNext]_calVars => CalInv'
<1> SUFFICES ASSUME CalInv, [CalNext]_calVars PROVE CalInv'
  OBVIOUS
<1>1. CASE UNCHANGED calVars
  <2>1. cal' = cal /\ UNCHANGED <<cal_lane, cal_side>>
    BY <1>1 DEF calVars
  <2>2. CkStep' = CkStep /\ Calibratable' = Calibratable
    BY <2>1 DEF CkStep, Calibratable
  <2>3. CalTypes' = CalTypes
    BY <2>1 DEF CalTypes
  <2>4. DelayNeeded' = DelayNeeded /\ ClockFirst' = ClockFirst /\ EndsLater' = EndsLater
    BY <2>1, <2>2 DEF DelayNeeded, ClockFirst, EndsLater, Open
  <2>5. StartsKnown' = StartsKnown
    BY <2>1 DEF StartsKnown, Approaching, StartKnown, Good, Open
  <2>6. EndsKnown' = EndsKnown
    BY <2>1 DEF EndsKnown, Leaving, ErrorSeen, StartKnown, Open, Close
  <2>7. Centred' = Centred
    BY <2>1, <2>2 DEF Centred, Open, Close
  <2> QED BY <2>2, <2>3, <2>4, <2>5, <2>6, <2>7 DEF CalInv, CalKnown
<1>2. CASE CalNext
  <2>1. CalTypes /\ CalTypes'
    BY <1>2, CalTypesKept DEF CalInv
  <2>2. UNCHANGED <<cal_lane, cal_side>>
    BY <1>2 DEF CalNext, AdjustClock, FindStart7623, FindStart7530, StartsFound, FindEnd7623, FindEnd7530
  <2>3. Calibratable' = Calibratable
    BY <2>2 DEF Calibratable, CkStep
  <2>4. ASSUME Calibratable PROVE CalKnown'
    <3>1. CalKnown
      BY <2>4 DEF CalInv
    <3> QED
      BY <1>2, <2>1, <2>4, <3>1, AdjustClockKeeps, FindStart7623Keeps, FindStart7530Keeps,
         StartsFoundKeeps, FindEnd7623Keeps, FindEnd7530Keeps DEF CalNext
  <2> QED BY <2>1, <2>3, <2>4 DEF CalInv
<1> QED BY <1>1, <1>2
-----------------------------------------------------------------------------
(* The rate of the console.                                                *)

\* What the rounded quotient is off by is at most half the divisor.
LEMMA RoundedIsClose ==
  ASSUME NEW clk \in Nat, NEW d \in Nat \ {0}
  PROVE  /\ Rounded(clk, d) \in Nat /\ Rounded(clk, d) * d \in Nat
         /\ 2 * Off(Rounded(clk, d) * d, clk) <= d + 1
         /\ Rounded(clk, d) <= (clk \div d) + 1
<1>1. PICK q : q = clk \div d
  OBVIOUS
<1>2. PICK r : r = clk % d
  OBVIOUS
<1>3. q \in Nat /\ r \in 0 .. d - 1 /\ clk = d * q + r
  BY <1>1, <1>2, DivMod
<1>4. PICK h \in Nat : h = d \div 2 /\ 2 * h <= d /\ d <= 2 * h + 1
  <2>1. d \div 2 \in Nat /\ 2 * (d \div 2) <= d /\ d <= 2 * (d \div 2) + 1
    OBVIOUS
  <2> QED BY <2>1
<1>5. PICK z \in Nat : z = d * q
  BY <1>3
<1>6. CASE r >= h
  <2>1. Rounded(clk, d) = q + 1
    BY <1>1, <1>2, <1>4, <1>6 DEF Rounded
  <2>2. Rounded(clk, d) * d = z + d
    BY <1>3, <1>5, <2>1
  <2>3. clk = z + r
    BY <1>3, <1>5
  <2>4. Off(z + d, clk) = d - r
    BY <1>3, <2>3 DEF Off
  <2>5. 2 * (d - r) <= d + 1
    BY <1>3, <1>4, <1>6
  <2> QED BY <1>1, <1>3, <1>5, <2>1, <2>2, <2>4, <2>5
<1>7. CASE ~(r >= h)
  <2>1. Rounded(clk, d) = q
    BY <1>1, <1>2, <1>3, <1>4, <1>7 DEF Rounded
  <2>2. Rounded(clk, d) * d = z
    BY <1>3, <1>5, <2>1
  <2>3. clk = z + r
    BY <1>3, <1>5
  <2>4. Off(z, clk) = r
    BY <1>3, <2>3 DEF Off
  <2>5. 2 * r <= d + 1
    BY <1>3, <1>4, <1>7
  <2> QED BY <1>1, <1>3, <1>5, <2>1, <2>2, <2>4, <2>5
<1> QED BY <1>6, <1>7

\* A quotient is bounded by a product.
LEMMA QuotientBelow ==
  ASSUME NEW x \in Nat, NEW d \in Nat \ {0}, NEW k \in Nat, x < k * d
  PROVE  x \div d < k
<1>1. PICK q : q = x \div d
  OBVIOUS
<1>2. q \in Nat /\ x % d \in 0 .. d - 1 /\ x = d * q + (x % d)
  BY <1>1, DivMod
<1> SUFFICES ASSUME q >= k PROVE FALSE
  BY <1>1, <1>2
<1>3. d * (q - k) >= 0
  BY <1>2
<1>4. d * (q - k) = d * q - d * k /\ d * k = k * d /\ d * q \in Int /\ k * d \in Int
  BY <1>2
<1> QED BY <1>2, <1>3, <1>4

\* The registers give the rate to within 2%.
LEMMA RateIsClose ==
  ASSUME NEW r, NEW s, InReach(s), g_brg = s,
         DOMAIN r = {"highspeed", "dl", "count", "point", "fifo"},
         r = [f \in DOMAIN r |-> r[f]],
         ureg' = uart_setbrg(r)
  PROVE  50 * Off((IF ureg'.highspeed = 3 THEN ureg'.dl * (ureg'.count + 1) ELSE 16 * ureg'.dl) * s,
                  UART_SRC_CLK) <= UART_SRC_CLK
<1>0. s \in Nat /\ ((s >= 25 /\ s <= 65000) \/ (s >= 115200 /\ s <= 1040000))
  BY DEF InReach
<1>1. CASE s <= 65000
  <2>1. PICK d \in Nat \ {0} : d = 16 * s
    BY <1>0
  <2>2. PICK n : n = Rounded(UART_SRC_CLK, d)
    OBVIOUS
  <2>3. /\ n \in Nat /\ n * d \in Nat /\ 2 * Off(n * d, UART_SRC_CLK) <= d + 1
        /\ n <= (UART_SRC_CLK \div d) + 1
    <3>1. UART_SRC_CLK \in Nat
      BY SMTT(30) DEF UART_SRC_CLK
    <3> QED BY <2>2, <3>1, RoundedIsClose
  <2>4. n < 65536
    <3>1. UART_SRC_CLK \div d < 65001
      <4>1. UART_SRC_CLK \in Nat /\ UART_SRC_CLK < 65001 * d
        BY SMTT(30), <1>0, <2>1 DEF UART_SRC_CLK
      <4> QED BY <4>1, QuotientBelow
    <3> QED BY SMTT(30), <2>1, <2>3, <3>1, DivMod DEF UART_SRC_CLK
  <2>5. n % 65536 = n
    <3>1. n \in Nat /\ n < 65536
      BY <2>3, <2>4
    <3>2. \A m \in Nat : m < 65536 => m % 65536 = m
      OBVIOUS
    <3> QED BY <3>1, <3>2
  <2>6. ureg'.highspeed = 0 /\ ureg'.dl = n
    BY <1>0, <1>1, <2>1, <2>2, <2>5 DEF uart_setbrg, LowSpeed
  <2>7. (16 * n) * s = n * d
    BY <1>0, <2>1, <2>3
  <2>8. Off(n * d, UART_SRC_CLK) \in Int
    BY SMTT(30), <2>3 DEF Off, UART_SRC_CLK
  <2>9. 50 * Off(n * d, UART_SRC_CLK) <= UART_SRC_CLK
    BY SMTT(30), <1>0, <1>1, <2>1, <2>3, <2>8 DEF UART_SRC_CLK
  <2> QED BY <2>6, <2>7, <2>9
<1>2. CASE s = 115200
  <2>1. Rounded(26000000, 1843200) = 14
    BY DEF Rounded
  <2>2. 16 * s = 1843200
    BY <1>2
  <2>3. ureg'.highspeed = 0 /\ ureg'.dl = 14
    BY SMTT(30), <1>2, <2>1, <2>2 DEF uart_setbrg, LowSpeed, UART_SRC_CLK
  <2> QED BY SMTT(30), <1>2, <2>3 DEF Off, UART_SRC_CLK
<1>3. CASE s > 115200
  <2>1. PICK data \in Nat : data = UART_SRC_CLK \div s /\ data < 256
    <3>1. UART_SRC_CLK \in Nat /\ UART_SRC_CLK < 256 * s
      BY SMTT(30), <1>0, <1>3 DEF UART_SRC_CLK
    <3>2. UART_SRC_CLK \div s < 256 /\ UART_SRC_CLK \div s \in Nat
      <4>1. s \in Nat \ {0}
        BY <1>0, <1>3
      <4>2. UART_SRC_CLK \div s < 256
        BY <3>1, <4>1, QuotientBelow
      <4>3. UART_SRC_CLK \div s \in Nat
        BY <3>1, <4>1, DivMod
      <4> QED BY <4>2, <4>3
    <3> QED BY <3>2
  <2>2. data % 65536 = data /\ data \div 256 = 0
    BY <2>1
  <2>3. PICK n : n = Rounded(UART_SRC_CLK, s)
    OBVIOUS
  <2>4. /\ n \in Nat /\ n * s \in Nat /\ 2 * Off(n * s, UART_SRC_CLK) <= s + 1
        /\ n <= data + 1
    <3>1. s \in Nat \ {0} /\ UART_SRC_CLK \in Nat
      BY SMTT(30), <1>0, <1>3 DEF UART_SRC_CLK
    <3>2. /\ n \in Nat /\ n * s \in Nat /\ 2 * Off(n * s, UART_SRC_CLK) <= s + 1
          /\ n <= (UART_SRC_CLK \div s) + 1
      BY <2>3, <3>1, RoundedIsClose
    <3> QED BY <2>1, <3>2
  <2>5. n % 65536 = n
    BY <2>1, <2>4
  <2>6. s * 1 = s /\ (UART_SRC_CLK \div s) % 65536 = data /\ (data \div 256) + 1 = 1
    BY <1>0, <2>1, <2>2
  <2>7. ureg'.highspeed = 3 /\ ureg'.dl = 1 /\ ureg'.count = n - 1
    BY <1>0, <1>3, <2>3, <2>5, <2>6 DEF uart_setbrg, HighSpeed
  <2>8. 1 * ((n - 1) + 1) = n
    BY <2>4
  <2>9. Off(n * s, UART_SRC_CLK) \in Int
    BY SMTT(30), <2>4 DEF Off, UART_SRC_CLK
  <2>10. 50 * Off(n * s, UART_SRC_CLK) <= UART_SRC_CLK
    <3>1. PICK o \in Int : o = Off(n * s, UART_SRC_CLK)
      BY <2>9
    <3>2. 2 * o <= s + 1 /\ s <= 1040000
      BY <1>0, <1>3, <2>4, <3>1
    <3>3. o <= 520000
      BY <1>0, <3>1, <3>2
    <3> QED BY SMTT(30), <3>1, <3>3 DEF UART_SRC_CLK
  <2> QED BY <2>7, <2>8, <2>10
<1> QED BY <1>0, <1>1, <1>2, <1>3
-----------------------------------------------------------------------------
(* The pins.  The self test sets back every attribute but the pull enable  *)
(* in the section that changes it.                                         *)

PinRegs ==
  [dir : [0 .. 8 -> SUBSET Nat], pullen : [0 .. 8 -> SUBSET Nat], pullsel : [0 .. 8 -> SUBSET Nat],
   out : [0 .. 8 -> SUBSET Nat], kpad : [0 .. 1 -> SUBSET Nat], mode : [0 .. 28 -> Nat]]

GpioTypes ==
  /\ gpio \in PinRegs /\ gpio_before \in PinRegs
  /\ gpio_test.pin \in 0 .. MAX_GPIO_PIN - 1
  /\ gpio_test \in [at : {"none", "dir", "pullen", "pullsel", "mode"}, pin : Nat, old : Nat]

\* All registers but those of the pull enable.
SameBut(g, h) == g.dir = h.dir /\ g.pullsel = h.pullsel /\ g.out = h.out /\ g.kpad = h.kpad /\ g.mode = h.mode

\* So it is during a test, and after one until a pin is set.
TestHarmless == gpio_test.at # "none" \/ gpio_test.pin # 0 => SameBut(gpio, gpio_before)

GpioInv == GpioTypes /\ TestHarmless

\* The bits of the pins are in the nine registers.
LEMMA PinRegister ==
  ASSUME NEW pin \in 0 .. MAX_GPIO_PIN - 1
  PROVE  pin \div 16 \in 0 .. 8 /\ pin % 16 \in Nat /\ pin \div 5 \in 0 .. 28
BY DEF MAX_GPIO_PIN

\* A bit that is written is taken back by writing what was read.
LEMMA WithIs ==
  ASSUME NEW bank \in [0 .. 8 -> SUBSET Nat], NEW pin \in 0 .. MAX_GPIO_PIN - 1, NEW v, NEW w
  PROVE  /\ With(bank, pin, v) \in [0 .. 8 -> SUBSET Nat]
         /\ With(With(bank, pin, w), pin, BitOf(bank, pin)) = bank
<1>1. PICK i \in 0 .. 8 : i = pin \div 16
  BY PinRegister
<1>2. PICK b \in Nat : b = pin % 16
  BY PinRegister
<1>3. \A r, u : With(r, pin, u) = [r EXCEPT ![i] = IF u = 1 THEN @ \cup {b} ELSE @ \ {b}]
  BY <1>1, <1>2 DEF With
<1>4. PICK x \in SUBSET Nat : x = IF w = 1 THEN bank[i] \cup {b} ELSE bank[i] \ {b}
  OBVIOUS
<1>5. With(bank, pin, w) = [bank EXCEPT ![i] = x]
  <2>1. With(bank, pin, w) = [bank EXCEPT ![i] = IF w = 1 THEN bank[i] \cup {b} ELSE bank[i] \ {b}]
    BY <1>3
  <2> QED BY <1>4, <2>1
<1>6. BitOf(bank, pin) = IF b \in bank[i] THEN 1 ELSE 0
  BY <1>1, <1>2 DEF BitOf
<1>7. With(With(bank, pin, w), pin, BitOf(bank, pin)) = [bank EXCEPT ![i] = IF b \in bank[i] THEN x \cup {b} ELSE x \ {b}]
  <2>1. PICK a : a = BitOf(bank, pin)
    OBVIOUS
  <2>2. PICK h : h = With(bank, pin, w)
    OBVIOUS
  <2>3. With(h, pin, a) = [h EXCEPT ![i] = IF a = 1 THEN h[i] \cup {b} ELSE h[i] \ {b}]
    BY <1>3
  <2>4. h = [bank EXCEPT ![i] = x] /\ h[i] = x
    BY <1>5, <2>2
  <2>5. a = 1 <=> b \in bank[i]
    BY <1>6, <2>1
  <2>6. (IF a = 1 THEN h[i] \cup {b} ELSE h[i] \ {b}) = (IF b \in bank[i] THEN x \cup {b} ELSE x \ {b})
    BY <2>4, <2>5
  <2>7. PICK y \in SUBSET Nat : y = IF b \in bank[i] THEN x \cup {b} ELSE x \ {b}
    OBVIOUS
  <2>8. With(h, pin, a) = [bank EXCEPT ![i] = y]
    BY <2>3, <2>4, <2>6, <2>7
  <2> QED BY <2>1, <2>2, <2>7, <2>8
<1>8. (IF b \in bank[i] THEN x \cup {b} ELSE x \ {b}) = bank[i]
  BY <1>4
<1>9. With(With(bank, pin, w), pin, BitOf(bank, pin)) = bank
  BY <1>7, <1>8
<1>10. With(bank, pin, v) \in [0 .. 8 -> SUBSET Nat]
  BY <1>3
<1> QED BY <1>9, <1>10

\* The key pad pins have a bit each in two registers.
LEMMA KpadIs ==
  ASSUME NEW pin \in DOMAIN kpad_pupd_spec
  PROVE  kpad_pupd_spec[pin].reg \in 0 .. 1 /\ kpad_pupd_spec[pin].bit \in Nat
<1>1. pin \in 33 .. 38
  BY DEF kpad_pupd_spec
<1>2. kpad_pupd_spec[pin] = [reg |-> (pin - 33) \div 3, bit |-> 2 + 4 * ((pin - 33) % 3)]
  BY <1>1 DEF kpad_pupd_spec
<1>3. (pin - 33) \div 3 \in 0 .. 1 /\ (pin - 33) % 3 \in Nat
  BY <1>1
<1> QED BY <1>2, <1>3

\* The steps of the fields.
LEMMA ShiftIs == ASSUME NEW pin \in Nat PROVE Shift(pin) \in {1, 8, 64, 512, 4096}
<1>1. pin % 5 \in 0 .. 4
  OBVIOUS
<1>2. PICK r \in {0, 1, 2, 3, 4} : r = pin % 5
  BY <1>1
<1>3. Shift(pin) = <<1, 8, 64, 512, 4096>>[r + 1]
  BY <1>2 DEF Shift
<1> QED BY <1>2, <1>3

\* A mode is read, cleared and written with nothing else of the word.
LEMMA FieldIs ==
  ASSUME NEW word \in Nat, NEW pin \in Nat, NEW m \in 0 .. 7
  PROVE  /\ (word \div Shift(pin)) % 8 \in 0 .. 7
         /\ Masked(word, pin) \in Nat /\ Masked(word, pin) + m * Shift(pin) \in Nat
         /\ Masked(Masked(word, pin) + m * Shift(pin), pin) = Masked(word, pin)
         /\ Masked(word, pin) + ((word \div Shift(pin)) % 8) * Shift(pin) = word
         /\ ((Masked(word, pin) + m * Shift(pin)) \div Shift(pin)) % 8 = m
<1>1. PICK s \in Nat \ {0} : s = Shift(pin)
  BY ShiftIs
<1>2. PICK q : q = word \div s
  OBVIOUS
<1>3. PICK r : r = word % s
  OBVIOUS
<1>4. q \in Nat /\ r \in 0 .. s - 1 /\ word = s * q + r
  BY <1>2, <1>3, DivMod
<1>5. PICK k \in Nat : k = q \div 8
  BY <1>4
<1>6. PICK d \in 0 .. 7 : d = q % 8
  BY <1>4
<1>7. q = 8 * k + d
  BY <1>4, <1>5, <1>6
<1>8. PICK z \in Nat : z = s * (8 * k)
  BY <1>5
<1>9. \A e \in 0 .. 7 : s * (8 * k + e) = z + e * s /\ e * s \in Nat
  BY <1>8
<1>10. word = z + d * s + r
  BY <1>4, <1>7, <1>9
<1>11. \A w \in Nat : Masked(w, pin) = w - ((w \div s) % 8) * s
  BY <1>1 DEF Masked, GPIO_MODE_MAX
<1>12. \A e \in 0 .. 7 : z + e * s + r \in Nat /\ (z + e * s + r) \div s = 8 * k + e
  <2> SUFFICES ASSUME NEW e \in 0 .. 7
               PROVE  z + e * s + r \in Nat /\ (z + e * s + r) \div s = 8 * k + e
    OBVIOUS
  <2>1. PICK c \in Nat : c = 8 * k + e
    OBVIOUS
  <2>2. (s * c + r) \div s = c
    BY <1>4, <2>1, DivModUnique
  <2>3. s * c = z + e * s /\ e * s \in Nat
    BY <1>9, <2>1
  <2> QED BY <1>4, <1>8, <2>1, <2>2, <2>3
<1>13. \A e \in 0 .. 7 : (8 * k + e) % 8 = e
  OBVIOUS
<1>14. \A e \in 0 .. 7 : Masked(z + e * s + r, pin) = z + r
  <2> SUFFICES ASSUME NEW e \in 0 .. 7 PROVE Masked(z + e * s + r, pin) = z + r
    OBVIOUS
  <2>1. PICK w \in Nat : w = z + e * s + r
    BY <1>12
  <2>2. (w \div s) % 8 = e
    BY <1>12, <1>13, <2>1
  <2>3. Masked(w, pin) = w - e * s
    BY <1>11, <2>2
  <2>4. e * s \in Nat
    BY <1>9
  <2> QED BY <1>4, <2>1, <2>3, <2>4
<1>15. Masked(word, pin) = z + r /\ z + r \in Nat
  BY <1>4, <1>10, <1>14
<1>16. PICK y \in Nat : y = m * s
  BY <1>9
<1>17. z + r + y = z + m * s + r
  BY <1>4, <1>16
<1>18. Masked(z + r + y, pin) = z + r /\ ((z + r + y) \div s) % 8 = m
  BY <1>12, <1>13, <1>14, <1>17
<1>19. (word \div s) % 8 = d
  BY <1>2, <1>6
<1>20. z + r + d * s = word /\ d * s \in Nat
  <2>1. d * s \in Nat
    BY <1>9
  <2> QED BY <1>4, <1>10, <2>1
<1>21. /\ (word \div s) % 8 \in 0 .. 7
       /\ Masked(word, pin) \in Nat /\ Masked(word, pin) + m * s \in Nat
       /\ Masked(word, pin) + ((word \div s) % 8) * s = word
  <2>1. Masked(word, pin) + m * s = z + r + y /\ z + r + y \in Nat
    BY <1>15, <1>16
  <2> QED BY <1>15, <1>19, <1>20, <2>1
<1>22. /\ Masked(Masked(word, pin) + m * s, pin) = Masked(word, pin)
       /\ ((Masked(word, pin) + m * s) \div s) % 8 = m
  <2>1. Masked(word, pin) + m * s = z + r + y
    BY <1>15, <1>16
  <2> QED BY <1>15, <1>18, <2>1
<1> HIDE DEF Masked
<1> QED BY <1>1, <1>21, <1>22

\* A register written back is as before.
LEMMA PutBack ==
  ASSUME NEW g \in PinRegs
  PROVE  /\ \A D : [g EXCEPT !.dir = D].dir = D /\ [[g EXCEPT !.dir = D] EXCEPT !.dir = g.dir] = g
         /\ \A D : [g EXCEPT !.pullsel = D].pullsel = D /\ [[g EXCEPT !.pullsel = D] EXCEPT !.pullsel = g.pullsel] = g
         /\ \A D : [g EXCEPT !.kpad = D].kpad = D /\ [[g EXCEPT !.kpad = D] EXCEPT !.kpad = g.kpad] = g
         /\ \A D : [g EXCEPT !.mode = D].mode = D /\ [[g EXCEPT !.mode = D] EXCEPT !.mode = g.mode] = g
<1> USE DEF PinRegs
<1>1. \A D : [g EXCEPT !.dir = D].dir = D /\ [[g EXCEPT !.dir = D] EXCEPT !.dir = g.dir] = g
  OBVIOUS
<1>2. \A D : [g EXCEPT !.pullsel = D].pullsel = D /\ [[g EXCEPT !.pullsel = D] EXCEPT !.pullsel = g.pullsel] = g
  OBVIOUS
<1>3. \A D : [g EXCEPT !.kpad = D].kpad = D /\ [[g EXCEPT !.kpad = D] EXCEPT !.kpad = g.kpad] = g
  OBVIOUS
<1>4. \A D : [g EXCEPT !.mode = D].mode = D /\ [[g EXCEPT !.mode = D] EXCEPT !.mode = g.mode] = g
  OBVIOUS
<1> QED BY <1>1, <1>2, <1>3, <1>4

\* The calls keep the registers registers.
LEMMA SettersKeep ==
  ASSUME NEW g \in PinRegs, NEW pin \in Nat, NEW v \in Nat
  PROVE  /\ set_dir(g, pin, v).regs \in PinRegs /\ set_pull_enable(g, pin, v).regs \in PinRegs
         /\ set_pull_select(g, pin, v).regs \in PinRegs /\ set_out(g, pin, v).regs \in PinRegs
         /\ set_mode(g, pin, v).regs \in PinRegs
<1> USE DEF No, GpioDone
<1>1. ASSUME NEW bank \in [0 .. 8 -> SUBSET Nat], pin < MAX_GPIO_PIN
      PROVE  With(bank, pin, v) \in [0 .. 8 -> SUBSET Nat]
  <2>1. pin \in 0 .. MAX_GPIO_PIN - 1
    BY <1>1 DEF MAX_GPIO_PIN
  <2> QED BY <1>1, <2>1, WithIs
<1>2. MAX_GPIO_PIN \in Nat
  BY DEF MAX_GPIO_PIN
<1>3. set_dir(g, pin, v).regs \in PinRegs
  <2>1. CASE pin >= MAX_GPIO_PIN \/ v > 1 \/ (v = 1 /\ pin \in InputOnly)
    BY <2>1 DEF set_dir
  <2>2. CASE ~(pin >= MAX_GPIO_PIN \/ v > 1 \/ (v = 1 /\ pin \in InputOnly))
    <3>1. With(g.dir, pin, v) \in [0 .. 8 -> SUBSET Nat]
      BY <1>1, <1>2, <2>2 DEF PinRegs
    <3>2. set_dir(g, pin, v).regs = [g EXCEPT !.dir = With(g.dir, pin, v)]
      BY <2>2 DEF set_dir
    <3> QED BY <3>1, <3>2 DEF PinRegs
  <2> QED BY <2>1, <2>2
<1>4. set_pull_enable(g, pin, v).regs \in PinRegs
  <2>1. CASE pin >= MAX_GPIO_PIN \/ v > 1 \/ pin \in NoPullEnable
    BY <2>1 DEF set_pull_enable
  <2>2. CASE ~(pin >= MAX_GPIO_PIN \/ v > 1 \/ pin \in NoPullEnable)
    <3>1. With(g.pullen, pin, v) \in [0 .. 8 -> SUBSET Nat]
      BY <1>1, <1>2, <2>2 DEF PinRegs
    <3>2. set_pull_enable(g, pin, v).regs = [g EXCEPT !.pullen = With(g.pullen, pin, v)]
      BY <2>2 DEF set_pull_enable
    <3> QED BY <3>1, <3>2 DEF PinRegs
  <2> QED BY <2>1, <2>2
<1>5. set_out(g, pin, v).regs \in PinRegs
  <2>1. CASE pin >= MAX_GPIO_PIN \/ v > 1
    BY <2>1 DEF set_out
  <2>2. CASE ~(pin >= MAX_GPIO_PIN \/ v > 1)
    <3>1. With(g.out, pin, v) \in [0 .. 8 -> SUBSET Nat]
      BY <1>1, <1>2, <2>2 DEF PinRegs
    <3>2. set_out(g, pin, v).regs = [g EXCEPT !.out = With(g.out, pin, v)]
      BY <2>2 DEF set_out
    <3> QED BY <3>1, <3>2 DEF PinRegs
  <2> QED BY <2>1, <2>2
<1>6. set_pull_select(g, pin, v).regs \in PinRegs
  <2>1. CASE pin >= MAX_GPIO_PIN \/ v > 1
    BY <2>1 DEF set_pull_select
  <2>2. CASE ~(pin >= MAX_GPIO_PIN \/ v > 1) /\ pin \in DOMAIN kpad_pupd_spec
    <3>1. PICK r \in 0 .. 1 : r = kpad_pupd_spec[pin].reg
      BY <2>2, KpadIs
    <3>2. PICK b \in Nat : b = kpad_pupd_spec[pin].bit
      BY <2>2, KpadIs
    <3>3. PICK x \in SUBSET Nat : x = IF KpadBit(v) THEN g.kpad[r] \cup {b} ELSE g.kpad[r] \ {b}
      BY DEF PinRegs
    <3>4. PICK k \in [0 .. 1 -> SUBSET Nat] : k = [g.kpad EXCEPT ![r] = x]
      BY DEF PinRegs
    <3>5. set_pull_select(g, pin, v).regs = [g EXCEPT !.kpad = k]
      BY <2>2, <3>1, <3>2, <3>3, <3>4 DEF set_pull_select
    <3> QED BY <3>5 DEF PinRegs
  <2>3. CASE ~(pin >= MAX_GPIO_PIN \/ v > 1) /\ pin \notin DOMAIN kpad_pupd_spec /\ v = 1 /\ pin \in InputOnly
    BY <2>3 DEF set_pull_select
  <2>4. CASE ~(pin >= MAX_GPIO_PIN \/ v > 1) /\ pin \notin DOMAIN kpad_pupd_spec /\ ~(v = 1 /\ pin \in InputOnly)
    <3>1. With(g.pullsel, pin, v) \in [0 .. 8 -> SUBSET Nat]
      BY <1>1, <1>2, <2>4 DEF PinRegs
    <3>2. set_pull_select(g, pin, v).regs = [g EXCEPT !.pullsel = With(g.pullsel, pin, v)]
      BY <2>4 DEF set_pull_select
    <3> QED BY <3>1, <3>2 DEF PinRegs
  <2> QED BY <2>1, <2>2, <2>3, <2>4
<1>7. set_mode(g, pin, v).regs \in PinRegs
  <2>1. CASE pin >= MAX_GPIO_PIN \/ v >= GPIO_MODE_MAX
    BY <2>1 DEF set_mode
  <2>2. CASE ~(pin >= MAX_GPIO_PIN \/ v >= GPIO_MODE_MAX)
    <3>1. pin \in 0 .. MAX_GPIO_PIN - 1 /\ v \in 0 .. 7
      BY <1>2, <2>2 DEF GPIO_MODE_MAX
    <3>2. PICK i \in 0 .. 28 : i = pin \div 5
      BY <3>1, PinRegister
    <3>3. PICK x \in Nat : x = Masked(g.mode[i], pin) + v * Shift(pin)
      <4>1. g.mode[i] \in Nat
        BY <3>2 DEF PinRegs
      <4> QED BY <3>1, <4>1, FieldIs
    <3>4. PICK k \in [0 .. 28 -> Nat] : k = [g.mode EXCEPT ![i] = x]
      BY DEF PinRegs
    <3>5. set_mode(g, pin, v).regs = [g EXCEPT !.mode = k]
      BY <2>2, <3>2, <3>3, <3>4 DEF set_mode
    <3> QED BY <3>5 DEF PinRegs
  <2> QED BY <2>1, <2>2
<1> QED BY <1>3, <1>4, <1>5, <1>6, <1>7

\* So does a call by any name of a pin.
LEMMA SetKeeps ==
  ASSUME NEW g \in PinRegs, NEW a \in Attrs, NEW cipher \in Nat, NEW v \in Nat
  PROVE  Set(g, a, cipher, v).regs \in PinRegs
<1>1. PICK pin \in Nat : pin = mt_gpio_pin_decrypt(cipher)
  BY DEF mt_gpio_pin_decrypt, Magic
<1> QED BY <1>1, SettersKeep DEF Set, Attrs

\* What a section of the self test writes it takes back.
LEMMA DirBack ==
  ASSUME NEW g \in PinRegs, NEW p \in 0 .. MAX_GPIO_PIN - 1,
         set_dir(g, p, 0).res # GpioRefused, set_dir(g, p, 1).res # GpioRefused
  PROVE  set_dir(set_dir(g, p, 0).regs, p, get_dir(g, p)).regs = g
<1> USE DEF No, GpioDone
<1>1. p < MAX_GPIO_PIN /\ p \notin InputOnly
  BY DEF set_dir, MAX_GPIO_PIN
<1>2. PICK h \in [0 .. 8 -> SUBSET Nat] : h = With(g.dir, p, 0)
  BY WithIs DEF PinRegs
<1>3. set_dir(g, p, 0).regs = [g EXCEPT !.dir = h]
  BY <1>1, <1>2 DEF set_dir, MAX_GPIO_PIN
<1>4. PICK o : o = get_dir(g, p) /\ o \in 0 .. 1
  BY DEF get_dir, BitOf
<1>5. With(h, p, o) = g.dir
  BY <1>2, <1>4, WithIs DEF PinRegs, get_dir
<1>6. PICK f : f = [g EXCEPT !.dir = h]
  OBVIOUS
<1>6a. f.dir = h /\ [f EXCEPT !.dir = g.dir] = g
  BY <1>6, PutBack
<1>7. set_dir(f, p, o).regs = [f EXCEPT !.dir = With(h, p, o)]
  BY <1>1, <1>4, <1>6, <1>6a DEF set_dir, MAX_GPIO_PIN
<1> QED BY <1>3, <1>4, <1>5, <1>6, <1>6a, <1>7

\* The pull select, also where its sense is reversed.
LEMMA SelectBack ==
  ASSUME NEW g \in PinRegs, NEW p \in 0 .. MAX_GPIO_PIN - 1,
         set_pull_select(g, p, 0).res # GpioRefused, set_pull_select(g, p, 1).res # GpioRefused
  PROVE  set_pull_select(set_pull_select(g, p, 1).regs, p, get_pull_select(g, p)).regs = g
<1> USE DEF No, GpioDone
<1>1. p < MAX_GPIO_PIN
  BY DEF MAX_GPIO_PIN
<1>2. CASE p \in DOMAIN kpad_pupd_spec
  <2>1. PICK r \in 0 .. 1 : r = kpad_pupd_spec[p].reg
    BY <1>2, KpadIs
  <2>2. PICK b \in Nat : b = kpad_pupd_spec[p].bit
    BY <1>2, KpadIs
  <2>3. PICK h \in [0 .. 1 -> SUBSET Nat] : h = [g.kpad EXCEPT ![r] = @ \ {b}]
    BY DEF PinRegs
  <2>4. set_pull_select(g, p, 1).regs = [g EXCEPT !.kpad = h]
    BY <1>1, <1>2, <2>1, <2>2, <2>3 DEF set_pull_select, KpadBit, MAX_GPIO_PIN, PinRegs
  <2>5. PICK o : o = get_pull_select(g, p) /\ o = IF b \in g.kpad[r] THEN 0 ELSE 1
    BY <1>2, <2>1, <2>2 DEF get_pull_select
  <2>6. PICK k \in [0 .. 1 -> SUBSET Nat] : k = [h EXCEPT ![r] = IF o = 0 THEN @ \cup {b} ELSE @ \ {b}]
    OBVIOUS
  <2>7. k = g.kpad
    <3>1. g.kpad \in [0 .. 1 -> SUBSET Nat]
      BY DEF PinRegs
    <3>2. k[r] = g.kpad[r]
      <4>1. h[r] = g.kpad[r] \ {b}
        BY <2>3, <3>1
      <4>2. k[r] = IF o = 0 THEN h[r] \cup {b} ELSE h[r] \ {b}
        BY <2>6
      <4>3. o = 0 <=> b \in g.kpad[r]
        BY <2>5
      <4> QED BY <4>1, <4>2, <4>3
    <3>3. \A x \in 0 .. 1 : x # r => k[x] = g.kpad[x]
      BY <2>3, <2>6, <3>1
    <3> QED BY <3>1, <3>2, <3>3
  <2>8. PICK f : f = [g EXCEPT !.kpad = h]
    OBVIOUS
  <2>8a. f.kpad = h /\ [f EXCEPT !.kpad = g.kpad] = g
    BY <2>8, PutBack
  <2>9. set_pull_select(f, p, o).regs = [f EXCEPT !.kpad = k]
    BY <1>1, <1>2, <2>1, <2>2, <2>5, <2>6, <2>8, <2>8a DEF set_pull_select, KpadBit, MAX_GPIO_PIN
  <2> QED BY <2>4, <2>5, <2>7, <2>8, <2>8a, <2>9
<1>3. CASE p \notin DOMAIN kpad_pupd_spec
  <2>1. p \notin InputOnly
    BY <1>3 DEF set_pull_select, MAX_GPIO_PIN
  <2>2. PICK h \in [0 .. 8 -> SUBSET Nat] : h = With(g.pullsel, p, 1)
    BY WithIs DEF PinRegs
  <2>3. set_pull_select(g, p, 1).regs = [g EXCEPT !.pullsel = h]
    BY <1>1, <1>3, <2>1, <2>2 DEF set_pull_select, MAX_GPIO_PIN
  <2>4. PICK o : o = get_pull_select(g, p) /\ o \in 0 .. 1 /\ o = BitOf(g.pullsel, p)
    BY <1>3 DEF get_pull_select, BitOf
  <2>5. With(h, p, o) = g.pullsel
    BY <2>2, <2>4, WithIs DEF PinRegs
  <2>6. PICK f : f = [g EXCEPT !.pullsel = h]
    OBVIOUS
  <2>6a. f.pullsel = h /\ [f EXCEPT !.pullsel = g.pullsel] = g
    BY <2>6, PutBack
  <2>7. set_pull_select(f, p, o).regs = [f EXCEPT !.pullsel = With(h, p, o)]
    BY <1>1, <1>3, <2>1, <2>4, <2>6, <2>6a DEF set_pull_select, MAX_GPIO_PIN
  <2> QED BY <2>3, <2>4, <2>5, <2>6, <2>6a, <2>7
<1> QED BY <1>2, <1>3

\* The mode.
LEMMA ModeBack ==
  ASSUME NEW g \in PinRegs, NEW p \in 0 .. MAX_GPIO_PIN - 1
  PROVE  set_mode(set_mode(g, p, GPIO_MODE_MAX - 1).regs, p, get_mode(g, p)).regs = g
<1> USE DEF No, GpioDone
<1>1. p < MAX_GPIO_PIN /\ p \in Nat
  BY DEF MAX_GPIO_PIN
<1>2. PICK i \in 0 .. 28 : i = p \div 5
  BY PinRegister
<1>3. PICK word \in Nat : word = g.mode[i]
  BY DEF PinRegs
<1>4. PICK d \in 0 .. 7 : d = get_mode(g, p)
  <2>1. get_mode(g, p) = (word \div Shift(p)) % 8
    BY <1>2, <1>3 DEF get_mode, GPIO_MODE_MAX
  <2>2. (word \div Shift(p)) % 8 \in 0 .. 7
    BY <1>1, FieldIs
  <2> QED BY <2>1, <2>2
<1>5. PICK x \in Nat : x = Masked(word, p) + 7 * Shift(p)
  BY <1>1, FieldIs
<1>6. PICK h : h = [g.mode EXCEPT ![i] = x]
  OBVIOUS
<1>10. h[i] = x /\ [h EXCEPT ![i] = word] = g.mode
  BY <1>3, <1>6 DEF PinRegs
<1>11. set_mode(g, p, GPIO_MODE_MAX - 1).regs = [g EXCEPT !.mode = h]
  <2>1. GPIO_MODE_MAX - 1 = 7 /\ ~(7 >= GPIO_MODE_MAX) /\ ~(p >= MAX_GPIO_PIN)
    BY <1>1 DEF GPIO_MODE_MAX, MAX_GPIO_PIN
  <2> QED BY <1>2, <1>3, <1>5, <1>6, <2>1 DEF set_mode
<1>7. Masked(x, p) + d * Shift(p) = word
  <2>1. Masked(x, p) = Masked(word, p)
    BY <1>1, <1>5, FieldIs
  <2>2. Masked(word, p) + ((word \div Shift(p)) % 8) * Shift(p) = word
    BY <1>1, FieldIs
  <2>3. (word \div Shift(p)) % 8 = d
    BY <1>2, <1>3, <1>4 DEF get_mode, GPIO_MODE_MAX
  <2> QED BY <2>1, <2>2, <2>3
<1>8. PICK f : f = [g EXCEPT !.mode = h]
  OBVIOUS
<1>8a. f.mode = h /\ [f EXCEPT !.mode = g.mode] = g
  BY <1>8, PutBack
<1>9. set_mode(f, p, d).regs = [f EXCEPT !.mode = [h EXCEPT ![i] = word]]
  <2>1. ~(d >= GPIO_MODE_MAX) /\ ~(p >= MAX_GPIO_PIN)
    BY <1>1 DEF GPIO_MODE_MAX, MAX_GPIO_PIN
  <2> QED BY <1>2, <1>6, <1>7, <1>8, <1>8a, <1>10, <2>1 DEF set_mode
<1> QED BY <1>4, <1>6, <1>8, <1>8a, <1>9, <1>10, <1>11

\* So it is before a test.
LEMMA GpioStarts == GpioInit => GpioInv
<1> SUFFICES ASSUME GpioInit PROVE GpioInv
  OBVIOUS
<1>1. PICK bits \in SUBSET Nat, pulls \in SUBSET Nat, m \in {0, 8^5 - 1, 3 * 8^2 + 8} : gpio = FoundPins(bits, pulls, m)
  BY DEF GpioInit
<1>2. m \in Nat
  <2>1. 8^2 \in Nat /\ 8^5 - 1 \in Nat
    OBVIOUS
  <2> QED BY <2>1
<1>3. gpio \in PinRegs
  BY <1>1, <1>2 DEF FoundPins, PinRegs
<1> QED BY <1>3 DEF GpioInit, GpioInv, GpioTypes, TestHarmless, SameBut, MAX_GPIO_PIN

\* A section ends with the registers it found, or with the test.
LEMMA SectionKeeps ==
  ASSUME GpioInv, UNCHANGED <<gpio_told, gpio_before, gpio_calls>>, gpio_test.at # "none",
         NEW next \in {"dir", "pullen", "pullsel", "mode"}, NEW old \in Nat,
         gpio' \in PinRegs, SameBut(gpio', gpio),
         \/ gpio_test' = [gpio_test EXCEPT !.at = "none"]
         \/ gpio_test' = [gpio_test EXCEPT !.at = next, !.old = old]
  PROVE  GpioInv'
<1>1. gpio_before' = gpio_before /\ SameBut(gpio, gpio_before)
  BY DEF GpioInv, TestHarmless
<1>2. SameBut(gpio', gpio_before')
  BY <1>1 DEF SameBut
<1>3. gpio_test'.pin = gpio_test.pin /\ gpio_test' \in [at : {"none", "dir", "pullen", "pullsel", "mode"}, pin : Nat, old : Nat]
  BY DEF GpioInv, GpioTypes
<1> QED BY <1>1, <1>2, <1>3 DEF GpioInv, GpioTypes, TestHarmless

\* The sections of the test and the calls keep it.
LEMMA GpioKept == GpioInv /\ [GpioNext]_gpioVars => GpioInv'
<1> SUFFICES ASSUME GpioInv, [GpioNext]_gpioVars PROVE GpioInv'
  OBVIOUS
<1>1. CASE UNCHANGED gpioVars
  BY <1>1 DEF gpioVars, GpioInv, GpioTypes, TestHarmless
<1>2. PICK p \in 0 .. MAX_GPIO_PIN - 1 : p = gpio_test.pin
  BY DEF GpioInv, GpioTypes
<1>3. p \in Nat /\ gpio \in PinRegs
  BY DEF MAX_GPIO_PIN, GpioInv, GpioTypes
<1>4. SameBut(gpio, gpio)
  BY DEF SameBut
<1>5. ASSUME NEW a \in Attrs, NEW cipher \in Nat, NEW v \in Nat, CallGpio(a, cipher, v)
      PROVE  GpioInv'
  <2>1. gpio' \in PinRegs
    BY <1>3, <1>5, SetKeeps DEF CallGpio
  <2>2. gpio_test'.at = "none" /\ gpio_test'.pin = 0 /\ gpio_before' = gpio_before
        /\ gpio_test' \in [at : {"none", "dir", "pullen", "pullsel", "mode"}, pin : Nat, old : Nat]
    BY <1>5 DEF CallGpio, GpioInv, GpioTypes
  <2> QED BY <2>1, <2>2 DEF GpioInv, GpioTypes, TestHarmless, MAX_GPIO_PIN
<1>6. CASE StartTest
  <2>1. gpio' = gpio /\ gpio_before' = gpio /\ gpio_test' = [at |-> "dir", pin |-> 0, old |-> 0]
    BY <1>6 DEF StartTest
  <2> QED BY <1>3, <2>1 DEF GpioInv, GpioTypes, TestHarmless, SameBut, MAX_GPIO_PIN
<1>7. CASE TestDir
  <2>1. /\ gpio_test.at = "dir" /\ UNCHANGED <<gpio_told, gpio_before, gpio_calls>>
        /\ IF set_dir(gpio, p, 0).res = GpioRefused \/ set_dir(gpio, p, 1).res = GpioRefused THEN Stop
           ELSE /\ gpio' = set_dir(set_dir(gpio, p, 0).regs, p, get_dir(gpio, p)).regs
                /\ gpio_test' = [gpio_test EXCEPT !.at = "pullen", !.old = get_dir(gpio, p)]
    BY <1>2, <1>7 DEF TestDir, Section
  <2>2. get_dir(gpio, p) \in Nat
    BY DEF get_dir, BitOf
  <2>3. gpio' = gpio /\ (\/ gpio_test' = [gpio_test EXCEPT !.at = "none"]
                         \/ gpio_test' = [gpio_test EXCEPT !.at = "pullen", !.old = get_dir(gpio, p)])
    BY <1>3, <2>1, DirBack DEF Stop
  <2> QED BY <1>3, <1>4, <2>1, <2>2, <2>3, SectionKeeps
<1>8. CASE TestPullEnable
  <2>1. PICK old \in Nat : old = gpio_test.old
    BY DEF GpioInv, GpioTypes
  <2>2. /\ gpio_test.at = "pullen" /\ UNCHANGED <<gpio_told, gpio_before, gpio_calls>>
        /\ \/ Stop
           \/ /\ gpio' = set_pull_enable(set_pull_enable(gpio, p, 1).regs, p, old).regs
              /\ gpio_test' = [gpio_test EXCEPT !.at = "pullsel", !.old = old]
    BY <1>2, <1>8, <2>1 DEF TestPullEnable, Section
  <2>3. ASSUME NEW g \in PinRegs, NEW v \in Nat
        PROVE  set_pull_enable(g, p, v).regs \in PinRegs /\ SameBut(set_pull_enable(g, p, v).regs, g)
    <3>1. set_pull_enable(g, p, v).regs \in PinRegs
      BY <1>3, SettersKeep
    <3>2. SameBut(set_pull_enable(g, p, v).regs, g)
      BY DEF set_pull_enable, No, GpioDone, SameBut, PinRegs
    <3> QED BY <3>1, <3>2
  <2>4. PICK g \in PinRegs : g = set_pull_enable(gpio, p, 1).regs /\ SameBut(g, gpio)
    BY <1>3, <2>3
  <2>5. PICK h \in PinRegs : h = set_pull_enable(g, p, old).regs /\ SameBut(h, g)
    BY <2>1, <2>3
  <2>6. SameBut(h, gpio)
    BY <2>4, <2>5 DEF SameBut
  <2>7. /\ gpio' \in PinRegs /\ SameBut(gpio', gpio)
        /\ \/ gpio_test' = [gpio_test EXCEPT !.at = "none"]
           \/ gpio_test' = [gpio_test EXCEPT !.at = "pullsel", !.old = old]
    BY <1>3, <1>4, <2>2, <2>4, <2>5, <2>6 DEF Stop
  <2> QED BY <2>1, <2>2, <2>7, SectionKeeps
<1>9. CASE TestPullSelect
  <2>1. /\ gpio_test.at = "pullsel" /\ UNCHANGED <<gpio_told, gpio_before, gpio_calls>>
        /\ IF set_pull_select(gpio, p, 0).res = GpioRefused \/ set_pull_select(gpio, p, 1).res = GpioRefused THEN Stop
           ELSE /\ gpio' = set_pull_select(set_pull_select(gpio, p, 1).regs, p, get_pull_select(gpio, p)).regs
                /\ gpio_test' = [gpio_test EXCEPT !.at = "mode", !.old = get_pull_select(gpio, p)]
    BY <1>2, <1>9 DEF TestPullSelect, Section, OldSelect
  <2>2. get_pull_select(gpio, p) \in Nat
    BY DEF get_pull_select, BitOf
  <2>3. gpio' = gpio /\ (\/ gpio_test' = [gpio_test EXCEPT !.at = "none"]
                         \/ gpio_test' = [gpio_test EXCEPT !.at = "mode", !.old = get_pull_select(gpio, p)])
    BY <1>3, <2>1, SelectBack DEF Stop
  <2> QED BY <1>3, <1>4, <2>1, <2>2, <2>3, SectionKeeps
<1>10. CASE TestMode
  <2>1. gpio' = gpio /\ gpio_test.at = "mode" /\ gpio_before' = gpio_before
    BY <1>2, <1>3, <1>10, ModeBack DEF TestMode
  <2>2. gpio_test' = IF p + 1 < MAX_GPIO_PIN THEN [at |-> "dir", pin |-> p + 1, old |-> 0]
                     ELSE [gpio_test EXCEPT !.at = "none"]
    BY <1>2, <1>10 DEF TestMode
  <2>3. SameBut(gpio', gpio_before')
    BY <2>1 DEF GpioInv, TestHarmless
  <2>4. /\ gpio_test'.pin \in 0 .. MAX_GPIO_PIN - 1
        /\ gpio_test' \in [at : {"none", "dir", "pullen", "pullsel", "mode"}, pin : Nat, old : Nat]
    BY <1>2, <1>3, <2>2 DEF GpioInv, GpioTypes, MAX_GPIO_PIN
  <2> QED BY <1>3, <2>1, <2>3, <2>4 DEF GpioInv, GpioTypes, TestHarmless
<1>11. CASE \E a \in Attrs, pin \in Pins \cup {MAX_GPIO_PIN}, magic \in {0, Magic} :
             \E v \in IF a = "mode" THEN {0, 5, 8} ELSE 0 .. 2 : CallGpio(a, pin + magic, v)
  <2>1. PICK a \in Attrs, pin \in Pins \cup {MAX_GPIO_PIN}, magic \in {0, Magic} :
             \E v \in IF a = "mode" THEN {0, 5, 8} ELSE 0 .. 2 : CallGpio(a, pin + magic, v)
    BY <1>11
  <2>2. PICK v \in IF a = "mode" THEN {0, 5, 8} ELSE 0 .. 2 : CallGpio(a, pin + magic, v)
    BY <2>1
  <2>3. v \in Nat /\ pin + magic \in Nat
    BY DEF Pins, MAX_GPIO_PIN, Magic
  <2> QED BY <1>5, <2>2, <2>3
<1> QED BY <1>1, <1>6, <1>7, <1>8, <1>9, <1>10, <1>11 DEF GpioNext

\* What the invariant says of the pins.
LEMMA PinsAsBefore == GpioInv => MethodsAgree /\ TestRestores
<1> SUFFICES ASSUME GpioInv PROVE MethodsAgree /\ TestRestores
  OBVIOUS
<1>1. MethodsAgree
  <2> SUFFICES ASSUME NEW pin \in Pins, NEW a \in Attrs,
                      ~(a = "pullen" /\ pin \in NoPullEnable),
                      ~(a = "pullsel" /\ pin \in DOMAIN kpad_pupd_spec)
               PROVE  ReadPin(gpio, a, pin) = GetPin(gpio, a, pin)
    BY DEF MethodsAgree
  <2> QED BY DEF Attrs, ReadPin, GetPin, get_dir, get_pull_enable, get_pull_select, get_out
<1>2. TestRestores
  <2> SUFFICES ASSUME SameBut(gpio, gpio_before), NEW pin, NEW a \in Attrs \ {"pullen"}
               PROVE  GetPin(gpio_before, a, pin) = GetPin(gpio, a, pin)
    BY DEF GpioInv, TestHarmless, TestRestores
  <2> QED BY DEF Attrs, SameBut, GetPin, get_dir, get_pull_select, get_out, get_mode
<1> QED BY <1>1, <1>2
-----------------------------------------------------------------------------
(* A call changes what it names.                                           *)

\* Of the bits of a register the one of the pin.
LEMMA BitApart ==
  ASSUME NEW bank \in [0 .. 8 -> SUBSET Nat], NEW p \in 0 .. MAX_GPIO_PIN - 1,
         NEW q \in 0 .. MAX_GPIO_PIN - 1, NEW v \in 0 .. 1
  PROVE  BitOf(With(bank, p, v), q) = IF q = p THEN v ELSE BitOf(bank, q)
<1>1. PICK i \in 0 .. 8 : i = p \div 16
  BY PinRegister
<1>2. PICK b \in Nat : b = p % 16
  BY PinRegister
<1>3. PICK j \in 0 .. 8 : j = q \div 16
  BY PinRegister
<1>4. PICK c \in Nat : c = q % 16
  BY PinRegister
<1>5. p = 16 * i + b /\ q = 16 * j + c
  BY <1>1, <1>2, <1>3, <1>4 DEF MAX_GPIO_PIN
<1>6. PICK x \in SUBSET Nat : x = IF v = 1 THEN bank[i] \cup {b} ELSE bank[i] \ {b}
  OBVIOUS
<1>7. With(bank, p, v) = [bank EXCEPT ![i] = x]
  BY <1>1, <1>2, <1>6 DEF With
<1>8. PICK h : h = [bank EXCEPT ![i] = x]
  OBVIOUS
<1>9. h[i] = x /\ \A k \in 0 .. 8 : k # i => h[k] = bank[k]
  BY <1>8
<1>10. BitOf(h, q) = (IF c \in h[j] THEN 1 ELSE 0) /\ BitOf(bank, q) = IF c \in bank[j] THEN 1 ELSE 0
  BY <1>3, <1>4 DEF BitOf
<1>11. CASE q = p
  BY <1>1, <1>2, <1>3, <1>4, <1>6, <1>7, <1>8, <1>9, <1>10, <1>11
<1>12. CASE q # p /\ i = j
  <2>1. b # c
    BY <1>5, <1>12
  <2> QED BY <1>6, <1>7, <1>8, <1>9, <1>10, <1>12, <2>1
<1>13. CASE i # j
  <2>1. q # p
    BY <1>1, <1>3, <1>13
  <2> QED BY <1>7, <1>8, <1>9, <1>10, <1>13, <2>1
<1> QED BY <1>11, <1>12, <1>13

\* Of the key pad pins no two have the same bit.
LEMMA KpadApart ==
  ASSUME NEW p \in DOMAIN kpad_pupd_spec, NEW q \in DOMAIN kpad_pupd_spec, p # q
  PROVE  kpad_pupd_spec[p].reg # kpad_pupd_spec[q].reg \/ kpad_pupd_spec[p].bit # kpad_pupd_spec[q].bit
<1>1. PICK x \in 0 .. 5 : x = p - 33
  BY DEF kpad_pupd_spec
<1>2. PICK y \in 0 .. 5 : y = q - 33
  BY DEF kpad_pupd_spec
<1>3. /\ kpad_pupd_spec[p].reg = x \div 3 /\ kpad_pupd_spec[p].bit = 2 + 4 * (x % 3)
      /\ kpad_pupd_spec[q].reg = y \div 3 /\ kpad_pupd_spec[q].bit = 2 + 4 * (y % 3)
  BY <1>1, <1>2 DEF kpad_pupd_spec
<1>4. x # y
  BY <1>1, <1>2 DEF kpad_pupd_spec
<1>5. PICK a \in Nat : a = x \div 3
  OBVIOUS
<1>6. PICK b \in Nat : b = x % 3
  OBVIOUS
<1>7. PICK c \in Nat : c = y \div 3
  OBVIOUS
<1>8. PICK d \in Nat : d = y % 3
  OBVIOUS
<1>9. x = 3 * a + b /\ y = 3 * c + d
  BY <1>5, <1>6, <1>7, <1>8
<1>10. ~(a = c /\ 2 + 4 * b = 2 + 4 * d)
  BY <1>4, <1>9
<1> QED BY <1>3, <1>5, <1>6, <1>7, <1>8, <1>10

\* A word with e in the field at the step s, and a field of a word.
Packed(s, k, e, r) == s * (8 * k + e) + r
FieldOf(word, t)   == (word \div t) % 8

\* One field is a number of fields above the other.
FieldsUp(s, t, c) == s = t * (8 * c)

\* The field above another one is not touched.
LEMMA FieldAbove ==
  ASSUME NEW s \in Nat \ {0}, NEW c \in Nat \ {0}, NEW k \in Nat, NEW r \in 0 .. s - 1, NEW e \in 0 .. 7
  PROVE  (s * (8 * k + e) + r) \div (s * (8 * c)) = k \div c
<1>1. PICK u : u = k \div c
  OBVIOUS
<1>2. PICK w : w = k % c
  OBVIOUS
<1>3. u \in Nat /\ w \in 0 .. c - 1 /\ k = c * u + w
  BY <1>1, <1>2, DivMod
<1>4. PICK g \in Nat : g = c * u
  BY <1>3
<1>5. PICK t \in Nat \ {0} : t = s * (8 * c)
  <2>1. s * (8 * c) \in Nat \ {0}
    <3>1. 8 * c \in Nat \ {0}
      OBVIOUS
    <3> QED BY <3>1
  <2> QED BY <2>1
<1>6. PICK v \in Nat : v = s * (8 * w + e)
  <2>1. 8 * w + e \in Nat
    BY <1>3
  <2>2. s * (8 * w + e) \in Nat
    BY <2>1
  <2> QED BY <2>2
<1>7. v + s <= t
  <2>1. PICK x \in Nat : x = 8 * w + e + 1
    BY <1>3
  <2>2. PICK y \in Nat : y = 8 * c
    OBVIOUS
  <2>3. x <= y
    BY <1>3, <2>1, <2>2
  <2>4. s * (y - x) >= 0 /\ s * (y - x) = s * y - s * x
    BY <2>3
  <2>5. s * x = v + s
    BY <1>3, <1>6, <2>1
  <2> QED BY <1>5, <2>2, <2>4, <2>5
<1>8. v + r \in 0 .. t - 1
  BY <1>7
<1>9. s * (8 * k + e) + r = t * u + (v + r)
  <2>1. 8 * k + e = 8 * g + (8 * w + e)
    BY <1>3, <1>4
  <2>2. PICK x \in Nat : x = 8 * w + e
    BY <1>3
  <2>3. s * (8 * g + x) = s * (8 * g) + s * x
    BY <1>4, <2>2
  <2>4. s * (8 * g) = t * u
    BY <1>3, <1>4, <1>5
  <2>5. s * (8 * k + e) = t * u + v
    BY <1>6, <2>1, <2>2, <2>3, <2>4
  <2>6. t * u \in Nat
    BY <1>3
  <2> QED BY <2>5, <2>6
<1>10. (t * u + (v + r)) \div t = u
  BY <1>3, <1>8, DivModUnique
<1> QED BY <1>1, <1>5, <1>9, <1>10

\* The field below another one.
LEMMA FieldBelow ==
  ASSUME NEW s \in Nat \ {0}, NEW t \in Nat \ {0}, NEW c \in Nat \ {0}, FieldsUp(s, t, c),
         NEW k \in Nat, NEW r \in 0 .. s - 1, NEW e \in 0 .. 7
  PROVE  FieldOf(Packed(s, k, e, r), t) = FieldOf(r, t)
<1> r \in Nat
  OBVIOUS
<1>0. PICK x \in Nat : x = 8 * k + e
  OBVIOUS
<1>1. PICK a : a = r \div t
  OBVIOUS
<1>2. PICK b : b = r % t
  OBVIOUS
<1>3. a \in Nat /\ b \in 0 .. t - 1 /\ r = t * a + b
  BY <1>1, <1>2, DivMod
<1>4. PICK g \in Nat : g = c * x
  OBVIOUS
<1>5. s * x = t * (8 * g)
  BY <1>4 DEF FieldsUp
<1>6. t * (8 * g) + t * a = t * (8 * g + a)
  BY <1>3
<1>7. PICK q \in Nat : q = 8 * g + a
  BY <1>3
<1>8. s * x + r = t * q + b
  <2>1. t * (8 * g) \in Nat /\ t * a \in Nat
    BY <1>3
  <2> QED BY <1>3, <1>5, <1>6, <1>7, <2>1
<1>9. (t * q + b) \div t = q
  BY <1>3, DivModUnique
<1>10. (8 * g + a) % 8 = a % 8
  BY <1>3
<1> QED BY <1>0, <1>1, <1>7, <1>8, <1>9, <1>10 DEF FieldOf, Packed

\* The steps of the five fields are multiples of each other.
LEMMA ShiftsApart ==
  ASSUME NEW p \in Nat, NEW q \in Nat, p % 5 # q % 5
  PROVE  \E c \in {1, 8, 64, 512} : \/ Shift(q) = Shift(p) * (8 * c)
                                    \/ Shift(p) = Shift(q) * (8 * c)
<1>1. PICK x \in {0, 1, 2, 3, 4} : x = p % 5
  OBVIOUS
<1>2. PICK y \in {0, 1, 2, 3, 4} : y = q % 5
  OBVIOUS
<1> DEFINE f == <<1, 8, 64, 512, 4096>>
<1>4. Shift(p) = f[x + 1] /\ Shift(q) = f[y + 1]
  BY <1>1, <1>2 DEF Shift
<1>5. f[1] = 1 /\ f[2] = 8 /\ f[3] = 64 /\ f[4] = 512 /\ f[5] = 4096
  OBVIOUS
<1>6. x # y
  BY <1>1, <1>2
<1> HIDE DEF f
<1> QED BY <1>4, <1>5, <1>6

\* One of two fields is above the other.
Apart(s, t, c) == t = s * (8 * c) \/ FieldsUp(s, t, c)

SameField(s, t, c, k, r, d, m) == FieldOf(Packed(s, k, d, r), t) = FieldOf(Packed(s, k, m, r), t)

\* A field does not depend on what is in another one.
LEMMA OtherField ==
  ASSUME NEW s \in Nat \ {0}, NEW t \in Nat \ {0}, NEW c \in Nat \ {0},
         NEW k \in Nat, NEW r \in 0 .. s - 1, NEW d \in 0 .. 7, NEW m \in 0 .. 7,
         Apart(s, t, c)
  PROVE  SameField(s, t, c, k, r, d, m)
<1> USE DEF SameField
<1>1. CASE t = s * (8 * c)
  <2>1. (s * (8 * k + d) + r) \div (s * (8 * c)) = k \div c
    BY FieldAbove
  <2>2. (s * (8 * k + m) + r) \div (s * (8 * c)) = k \div c
    BY FieldAbove
  <2> QED BY <1>1, <2>1, <2>2 DEF FieldOf, Packed
<1>2. CASE FieldsUp(s, t, c)
  <2>1. FieldOf(Packed(s, k, d, r), t) = FieldOf(r, t)
    BY <1>2, FieldBelow
  <2>2. FieldOf(Packed(s, k, m, r), t) = FieldOf(r, t)
    BY <1>2, FieldBelow
  <2> QED BY <2>1, <2>2
<1> QED BY <1>1, <1>2 DEF Apart

\* Of the modes of a word the one of the pin.
LEMMA ModeApart ==
  ASSUME NEW word \in Nat, NEW p \in Nat, NEW q \in Nat, p % 5 # q % 5, NEW m \in 0 .. 7
  PROVE  ((Masked(word, p) + m * Shift(p)) \div Shift(q)) % 8 = (word \div Shift(q)) % 8
<1>1. PICK s \in Nat \ {0} : s = Shift(p)
  BY ShiftIs
<1>2. PICK t \in Nat \ {0} : t = Shift(q)
  BY ShiftIs
<1>3. PICK u : u = word \div s
  OBVIOUS
<1>4. PICK r : r = word % s
  OBVIOUS
<1>5. u \in Nat /\ r \in 0 .. s - 1 /\ word = s * u + r
  BY <1>3, <1>4, DivMod
<1>6. PICK k \in Nat : k = u \div 8
  BY <1>5
<1>7. PICK d \in 0 .. 7 : d = u % 8
  BY <1>5
<1>8. u = 8 * k + d
  BY <1>5, <1>6, <1>7
<1>9. word = s * (8 * k + d) + r
  BY <1>5, <1>8
<1>10. Masked(word, p) + m * s = s * (8 * k + m) + r
  <2>1. Masked(word, p) = word - d * s
    BY <1>1, <1>3, <1>7 DEF Masked, GPIO_MODE_MAX
  <2>2. PICK z \in Nat : z = s * (8 * k)
    BY <1>6
  <2>3. PICK y \in Nat : y = d * s
    OBVIOUS
  <2>4. PICK x \in Nat : x = m * s
    OBVIOUS
  <2>5. s * (8 * k + d) = z + y
    BY <1>6, <2>2, <2>3
  <2>6. s * (8 * k + m) = z + x
    BY <1>6, <2>2, <2>4
  <2> QED BY <1>5, <1>9, <2>1, <2>3, <2>4, <2>5, <2>6
<1>11. PICK c \in Nat \ {0} : t = s * (8 * c) \/ s = t * (8 * c)
  <2>1. PICK c \in {1, 8, 64, 512} : Shift(q) = Shift(p) * (8 * c) \/ Shift(p) = Shift(q) * (8 * c)
    BY ShiftsApart
  <2>2. c \in Nat \ {0} /\ (t = s * (8 * c) \/ s = t * (8 * c))
    BY <1>1, <1>2, <2>1
  <2> QED BY <2>2
<1>14. ((s * (8 * k + d) + r) \div t) % 8 = ((s * (8 * k + m) + r) \div t) % 8
  <2>1. Apart(s, t, c)
    BY <1>11 DEF Apart, FieldsUp
  <2>2. r \in 0 .. s - 1
    BY <1>5
  <2>3. SameField(s, t, c, k, r, d, m)
    BY <2>1, <2>2, OtherField
  <2> QED BY <2>3 DEF SameField, FieldOf, Packed
<1> QED BY <1>1, <1>2, <1>9, <1>10, <1>14

\* What a call says of itself and of every pin.
SetsOnly(call, g, a, p, v) ==
  \A q \in 0 .. MAX_GPIO_PIN - 1, b \in Attrs :
    GetPin(call.regs, b, q) = IF call.res = "ok" /\ p = q /\ b = a THEN v ELSE GetPin(g, b, q)

\* A call that is refused sets nothing.
LEMMA RefusedSetsNothing == ASSUME NEW g, NEW a, NEW p, NEW v PROVE SetsOnly(No(g), g, a, p, v)
BY DEF SetsOnly, No, GpioRefused

\* Every attribute is read from registers of its own.
LEMMA ReadFromItsOwn ==
  ASSUME NEW g, NEW f, NEW q
  PROVE  /\ f.dir = g.dir => GetPin(f, "dir", q) = GetPin(g, "dir", q)
         /\ f.pullen = g.pullen => GetPin(f, "pullen", q) = GetPin(g, "pullen", q)
         /\ f.pullsel = g.pullsel /\ f.kpad = g.kpad => GetPin(f, "pullsel", q) = GetPin(g, "pullsel", q)
         /\ f.out = g.out => GetPin(f, "out", q) = GetPin(g, "out", q)
         /\ f.mode = g.mode => GetPin(f, "mode", q) = GetPin(g, "mode", q)
BY DEF GetPin, get_dir, get_pull_enable, get_pull_select, get_out, get_mode

\* The direction.
LEMMA DirOnly ==
  ASSUME NEW g \in PinRegs, NEW p \in Nat, NEW v \in Nat
  PROVE  SetsOnly(set_dir(g, p, v), g, "dir", p, v)
<1>1. CASE p >= MAX_GPIO_PIN \/ v > 1 \/ (v = 1 /\ p \in InputOnly)
  BY <1>1, RefusedSetsNothing DEF set_dir
<1>2. CASE ~(p >= MAX_GPIO_PIN \/ v > 1 \/ (v = 1 /\ p \in InputOnly))
  <2>1. p \in 0 .. MAX_GPIO_PIN - 1 /\ v \in 0 .. 1
    BY <1>2 DEF MAX_GPIO_PIN
  <2>2. PICK h : h = With(g.dir, p, v)
    OBVIOUS
  <2>3. PICK f : f = [g EXCEPT !.dir = h]
    OBVIOUS
  <2>4. f.dir = h /\ f.pullen = g.pullen /\ f.pullsel = g.pullsel /\ f.out = g.out /\ f.kpad = g.kpad /\ f.mode = g.mode
    BY <2>3 DEF PinRegs
  <2>5. set_dir(g, p, v) = [res |-> "ok", regs |-> f]
    BY <1>2, <2>2, <2>3 DEF set_dir, GpioDone
  <2>6. \A q \in 0 .. MAX_GPIO_PIN - 1 : GetPin(f, "dir", q) = IF p = q THEN v ELSE GetPin(g, "dir", q)
    BY <2>1, <2>2, <2>4, BitApart DEF PinRegs, GetPin, get_dir
  <2>7. \A q \in 0 .. MAX_GPIO_PIN - 1 : \A b \in Attrs : b # "dir" => GetPin(f, b, q) = GetPin(g, b, q)
    BY <2>4, ReadFromItsOwn DEF Attrs
  <2> QED BY <2>5, <2>6, <2>7 DEF SetsOnly
<1> QED BY <1>1, <1>2

\* The output.
LEMMA OutOnly ==
  ASSUME NEW g \in PinRegs, NEW p \in Nat, NEW v \in Nat
  PROVE  SetsOnly(set_out(g, p, v), g, "out", p, v)
<1>1. CASE p >= MAX_GPIO_PIN \/ v > 1
  BY <1>1, RefusedSetsNothing DEF set_out
<1>2. CASE ~(p >= MAX_GPIO_PIN \/ v > 1)
  <2>1. p \in 0 .. MAX_GPIO_PIN - 1 /\ v \in 0 .. 1
    BY <1>2 DEF MAX_GPIO_PIN
  <2>2. PICK h : h = With(g.out, p, v)
    OBVIOUS
  <2>3. PICK f : f = [g EXCEPT !.out = h]
    OBVIOUS
  <2>4. f.out = h /\ f.pullen = g.pullen /\ f.pullsel = g.pullsel /\ f.dir = g.dir /\ f.kpad = g.kpad /\ f.mode = g.mode
    BY <2>3 DEF PinRegs
  <2>5. set_out(g, p, v) = [res |-> "ok", regs |-> f]
    BY <1>2, <2>2, <2>3 DEF set_out, GpioDone
  <2>6. \A q \in 0 .. MAX_GPIO_PIN - 1 : GetPin(f, "out", q) = IF p = q THEN v ELSE GetPin(g, "out", q)
    BY <2>1, <2>2, <2>4, BitApart DEF PinRegs, GetPin, get_out
  <2>7. \A q \in 0 .. MAX_GPIO_PIN - 1 : \A b \in Attrs : b # "out" => GetPin(f, b, q) = GetPin(g, b, q)
    BY <2>4, ReadFromItsOwn DEF Attrs
  <2> QED BY <2>5, <2>6, <2>7 DEF SetsOnly
<1> QED BY <1>1, <1>2

\* The pull enable: a pin that has none reads as one that has none.
LEMMA PullEnableOnly ==
  ASSUME NEW g \in PinRegs, NEW p \in Nat, NEW v \in Nat
  PROVE  SetsOnly(set_pull_enable(g, p, v), g, "pullen", p, v)
<1>1. CASE p >= MAX_GPIO_PIN \/ v > 1 \/ p \in NoPullEnable
  BY <1>1, RefusedSetsNothing DEF set_pull_enable
<1>2. CASE ~(p >= MAX_GPIO_PIN \/ v > 1 \/ p \in NoPullEnable)
  <2>1. p \in 0 .. MAX_GPIO_PIN - 1 /\ v \in 0 .. 1 /\ p \notin NoPullEnable
    BY <1>2 DEF MAX_GPIO_PIN
  <2>2. PICK h : h = With(g.pullen, p, v)
    OBVIOUS
  <2>3. PICK f : f = [g EXCEPT !.pullen = h]
    OBVIOUS
  <2>4. f.pullen = h /\ f.out = g.out /\ f.pullsel = g.pullsel /\ f.dir = g.dir /\ f.kpad = g.kpad /\ f.mode = g.mode
    BY <2>3 DEF PinRegs
  <2>5. set_pull_enable(g, p, v) = [res |-> "ok", regs |-> f]
    BY <1>2, <2>2, <2>3 DEF set_pull_enable, GpioDone
  <2>6. \A q \in 0 .. MAX_GPIO_PIN - 1 : GetPin(f, "pullen", q) = IF p = q THEN v ELSE GetPin(g, "pullen", q)
    BY <2>1, <2>2, <2>4, BitApart DEF PinRegs, GetPin, get_pull_enable
  <2>7. \A q \in 0 .. MAX_GPIO_PIN - 1 : \A b \in Attrs : b # "pullen" => GetPin(f, b, q) = GetPin(g, b, q)
    BY <2>4, ReadFromItsOwn DEF Attrs
  <2> QED BY <2>5, <2>6, <2>7 DEF SetsOnly
<1> QED BY <1>1, <1>2

\* The pull select, of a key pad pin or another.
LEMMA PullSelectOnly ==
  ASSUME NEW g \in PinRegs, NEW p \in Nat, NEW v \in Nat
  PROVE  SetsOnly(set_pull_select(g, p, v), g, "pullsel", p, v)
<1>1. CASE p >= MAX_GPIO_PIN \/ v > 1
  BY <1>1, RefusedSetsNothing DEF set_pull_select
<1>2. CASE ~(p >= MAX_GPIO_PIN \/ v > 1) /\ p \in DOMAIN kpad_pupd_spec
  <2>1. PICK r \in 0 .. 1 : r = kpad_pupd_spec[p].reg
    BY <1>2, KpadIs
  <2>2. PICK t \in Nat : t = kpad_pupd_spec[p].bit
    BY <1>2, KpadIs
  <2>3. PICK x \in SUBSET Nat : x = IF KpadBit(v) THEN g.kpad[r] \cup {t} ELSE g.kpad[r] \ {t}
    BY DEF PinRegs
  <2>4. PICK h : h = [g.kpad EXCEPT ![r] = x]
    OBVIOUS
  <2>5. h[r] = x /\ \A i \in 0 .. 1 : i # r => h[i] = g.kpad[i]
    BY <2>4 DEF PinRegs
  <2>6. PICK f : f = [g EXCEPT !.kpad = h]
    OBVIOUS
  <2>7. f.kpad = h /\ f.pullen = g.pullen /\ f.pullsel = g.pullsel /\ f.dir = g.dir /\ f.out = g.out /\ f.mode = g.mode
    BY <2>6 DEF PinRegs
  <2>8. set_pull_select(g, p, v) = [res |-> "ok", regs |-> f]
    BY <1>2, <2>1, <2>2, <2>3, <2>4, <2>6 DEF set_pull_select, GpioDone
  <2>9. v \in 0 .. 1 /\ p \in 0 .. MAX_GPIO_PIN - 1
    BY <1>2 DEF MAX_GPIO_PIN
  <2>10. ASSUME NEW q \in 0 .. MAX_GPIO_PIN - 1
         PROVE  GetPin(f, "pullsel", q) = IF p = q THEN v ELSE GetPin(g, "pullsel", q)
    <3>1. CASE q \notin DOMAIN kpad_pupd_spec
      <4>1. GetPin(f, "pullsel", q) = BitOf(f.pullsel, q) /\ GetPin(g, "pullsel", q) = BitOf(g.pullsel, q)
        BY <3>1 DEF GetPin, get_pull_select
      <4> QED BY <1>2, <2>7, <3>1, <4>1
    <3>2. CASE q \in DOMAIN kpad_pupd_spec
      <4>1. PICK s \in 0 .. 1 : s = kpad_pupd_spec[q].reg
        BY <3>2, KpadIs
      <4>2. PICK u \in Nat : u = kpad_pupd_spec[q].bit
        BY <3>2, KpadIs
      <4>3. /\ GetPin(f, "pullsel", q) = IF u \in h[s] THEN 0 ELSE 1
            /\ GetPin(g, "pullsel", q) = IF u \in g.kpad[s] THEN 0 ELSE 1
        BY <2>7, <3>2, <4>1, <4>2 DEF GetPin, get_pull_select
      <4>4. CASE p = q
        <5>1. s = r /\ u = t /\ h[s] = x
          BY <2>1, <2>2, <2>5, <4>1, <4>2, <4>4
        <5>2. u \in x <=> v = 0
          BY <2>3, <5>1 DEF KpadBit
        <5> QED BY <2>9, <4>3, <4>4, <5>1, <5>2
      <4>5. CASE p # q
        <5>1. r # s \/ t # u
          BY <1>2, <2>1, <2>2, <3>2, <4>1, <4>2, <4>5, KpadApart
        <5>2. u \in h[s] <=> u \in g.kpad[s]
          BY <2>3, <2>5, <5>1
        <5> QED BY <4>3, <4>5, <5>2
      <4> QED BY <4>4, <4>5
    <3> QED BY <3>1, <3>2
  <2>11. \A q \in 0 .. MAX_GPIO_PIN - 1 : \A b \in Attrs : b # "pullsel" => GetPin(f, b, q) = GetPin(g, b, q)
    BY <2>7, ReadFromItsOwn DEF Attrs
  <2> QED BY <2>8, <2>10, <2>11 DEF SetsOnly
<1>3. CASE ~(p >= MAX_GPIO_PIN \/ v > 1) /\ p \notin DOMAIN kpad_pupd_spec /\ v = 1 /\ p \in InputOnly
  BY <1>3, RefusedSetsNothing DEF set_pull_select
<1>4. CASE ~(p >= MAX_GPIO_PIN \/ v > 1) /\ p \notin DOMAIN kpad_pupd_spec /\ ~(v = 1 /\ p \in InputOnly)
  <2>1. p \in 0 .. MAX_GPIO_PIN - 1 /\ v \in 0 .. 1
    BY <1>4 DEF MAX_GPIO_PIN
  <2>2. PICK h : h = With(g.pullsel, p, v)
    OBVIOUS
  <2>3. PICK f : f = [g EXCEPT !.pullsel = h]
    OBVIOUS
  <2>4. f.pullsel = h /\ f.pullen = g.pullen /\ f.kpad = g.kpad /\ f.dir = g.dir /\ f.out = g.out /\ f.mode = g.mode
    BY <2>3 DEF PinRegs
  <2>5. set_pull_select(g, p, v) = [res |-> "ok", regs |-> f]
    BY <1>4, <2>2, <2>3 DEF set_pull_select, GpioDone
  <2>6. ASSUME NEW q \in 0 .. MAX_GPIO_PIN - 1
        PROVE  GetPin(f, "pullsel", q) = IF p = q THEN v ELSE GetPin(g, "pullsel", q)
    <3>1. CASE q \notin DOMAIN kpad_pupd_spec
      <4>1. GetPin(f, "pullsel", q) = BitOf(h, q) /\ GetPin(g, "pullsel", q) = BitOf(g.pullsel, q)
        BY <2>4, <3>1 DEF GetPin, get_pull_select
      <4>2. BitOf(h, q) = IF q = p THEN v ELSE BitOf(g.pullsel, q)
        BY <2>1, <2>2, BitApart DEF PinRegs
      <4> QED BY <4>1, <4>2
    <3>2. CASE q \in DOMAIN kpad_pupd_spec
      <4>1. GetPin(f, "pullsel", q) = GetPin(g, "pullsel", q)
        BY <2>4, <3>2 DEF GetPin, get_pull_select
      <4> QED BY <1>4, <3>2, <4>1
    <3> QED BY <3>1, <3>2
  <2>7. \A q \in 0 .. MAX_GPIO_PIN - 1 : \A b \in Attrs : b # "pullsel" => GetPin(f, b, q) = GetPin(g, b, q)
    BY <2>4, ReadFromItsOwn DEF Attrs
  <2> QED BY <2>5, <2>6, <2>7 DEF SetsOnly
<1> QED BY <1>1, <1>2, <1>3, <1>4

\* The mode, read, changed and written with those of four other pins.
LEMMA ModeOnly ==
  ASSUME NEW g \in PinRegs, NEW p \in Nat, NEW v \in Nat
  PROVE  SetsOnly(set_mode(g, p, v), g, "mode", p, v)
<1>1. CASE p >= MAX_GPIO_PIN \/ v >= GPIO_MODE_MAX
  BY <1>1, RefusedSetsNothing DEF set_mode
<1>2. CASE ~(p >= MAX_GPIO_PIN \/ v >= GPIO_MODE_MAX)
  <2>1. p \in 0 .. MAX_GPIO_PIN - 1 /\ v \in 0 .. 7 /\ p \in Nat
    BY <1>2 DEF MAX_GPIO_PIN, GPIO_MODE_MAX
  <2>2. PICK i \in 0 .. 28 : i = p \div 5
    BY <2>1, PinRegister
  <2>3. PICK word \in Nat : word = g.mode[i]
    BY DEF PinRegs
  <2>4. PICK x : x = Masked(word, p) + v * Shift(p)
    OBVIOUS
  <2>5. PICK h : h = [g.mode EXCEPT ![i] = x]
    OBVIOUS
  <2>6. h[i] = x /\ \A j \in 0 .. 28 : j # i => h[j] = g.mode[j]
    BY <2>5 DEF PinRegs
  <2>7. PICK f : f = [g EXCEPT !.mode = h]
    OBVIOUS
  <2>8. f.mode = h /\ f.pullen = g.pullen /\ f.kpad = g.kpad /\ f.dir = g.dir /\ f.out = g.out /\ f.pullsel = g.pullsel
    BY <2>7 DEF PinRegs
  <2>9. set_mode(g, p, v) = [res |-> "ok", regs |-> f]
    BY <1>2, <2>2, <2>3, <2>4, <2>5, <2>7 DEF set_mode, GpioDone
  <2>10. ASSUME NEW q \in 0 .. MAX_GPIO_PIN - 1
         PROVE  GetPin(f, "mode", q) = IF p = q THEN v ELSE GetPin(g, "mode", q)
    <3>1. PICK j \in 0 .. 28 : j = q \div 5
      BY PinRegister
    <3>2. /\ GetPin(f, "mode", q) = (h[j] \div Shift(q)) % 8
          /\ GetPin(g, "mode", q) = (g.mode[j] \div Shift(q)) % 8
      BY <2>8, <3>1 DEF GetPin, get_mode, GPIO_MODE_MAX
    <3>3. CASE p = q
      <4>1. (x \div Shift(p)) % 8 = v
        BY <2>1, <2>4, FieldIs
      <4> QED BY <2>2, <2>6, <3>1, <3>2, <3>3, <4>1
    <3>4. CASE p # q /\ i = j
      <4>1. p % 5 # q % 5 /\ q \in Nat
        BY <2>1, <2>2, <3>1, <3>4 DEF MAX_GPIO_PIN
      <4>2. (x \div Shift(q)) % 8 = (word \div Shift(q)) % 8
        BY <2>1, <2>4, <4>1, ModeApart
      <4> QED BY <2>3, <2>6, <3>2, <3>4, <4>2
    <3>5. CASE i # j
      <4>1. p # q
        BY <2>2, <3>1, <3>5
      <4> QED BY <2>6, <3>2, <3>5, <4>1
    <3> QED BY <3>3, <3>4, <3>5
  <2>11. \A q \in 0 .. MAX_GPIO_PIN - 1 : \A b \in Attrs : b # "mode" => GetPin(f, b, q) = GetPin(g, b, q)
    BY <2>8, ReadFromItsOwn DEF Attrs
  <2> QED BY <2>9, <2>10, <2>11 DEF SetsOnly
<1> QED BY <1>1, <1>2

\* A call sets what it is asked to and nothing else.
LEMMA CallSetsOnly ==
  ASSUME NEW g \in PinRegs, NEW a \in Attrs, NEW cipher \in Nat, NEW v \in Nat
  PROVE  SetsOnly(Set(g, a, cipher, v), g, a, mt_gpio_pin_decrypt(cipher), v)
<1>1. PICK p \in Nat : p = mt_gpio_pin_decrypt(cipher)
  BY DEF mt_gpio_pin_decrypt, Magic
<1>2. CASE a = "dir"
  BY <1>1, <1>2, DirOnly DEF Set
<1>3. CASE a = "pullen"
  BY <1>1, <1>3, PullEnableOnly DEF Set
<1>4. CASE a = "pullsel"
  BY <1>1, <1>4, PullSelectOnly DEF Set
<1>5. CASE a = "out"
  BY <1>1, <1>5, OutOnly DEF Set
<1>6. CASE a = "mode"
  BY <1>1, <1>6, ModeOnly DEF Set
<1> QED BY <1>2, <1>3, <1>4, <1>5, <1>6 DEF Attrs

\* So the step of a call, and no other step counts as one.
LEMMA CallsSetOnly ==
  ASSUME GpioInv, GpioNext, gpio_calls' # gpio_calls
  PROVE  \A pin \in Pins, a \in Attrs :
           GetPin(gpio', a, pin) =
             IF gpio_told'.res = "ok" /\ gpio_told'.pin = pin /\ gpio_told'.a = a
             THEN gpio_told'.v ELSE GetPin(gpio, a, pin)
<1>1. PICK a \in Attrs, pin \in Pins \cup {MAX_GPIO_PIN}, magic \in {0, Magic} :
        \E v \in IF a = "mode" THEN {0, 5, 8} ELSE 0 .. 2 : CallGpio(a, pin + magic, v)
  BY DEF GpioNext, StartTest, TestDir, TestPullEnable, TestPullSelect, TestMode, Section
<1>2. PICK v \in IF a = "mode" THEN {0, 5, 8} ELSE 0 .. 2 : CallGpio(a, pin + magic, v)
  BY <1>1
<1>3. PICK cipher \in Nat : cipher = pin + magic
  BY DEF Pins, MAX_GPIO_PIN, Magic
<1>4. v \in Nat /\ gpio \in PinRegs
  BY DEF GpioInv, GpioTypes
<1>5. PICK p : p = mt_gpio_pin_decrypt(cipher)
  OBVIOUS
<1>6. PICK call : call = Set(gpio, a, cipher, v)
  OBVIOUS
<1>7. SetsOnly(call, gpio, a, p, v)
  BY <1>4, <1>5, <1>6, CallSetsOnly
<1>8. gpio' = call.regs /\ gpio_told' = [a |-> a, pin |-> p, v |-> v, res |-> call.res]
  BY <1>2, <1>3, <1>5, <1>6 DEF CallGpio
<1>9. gpio_told'.a = a /\ gpio_told'.pin = p /\ gpio_told'.v = v /\ gpio_told'.res = call.res
  BY <1>8
<1>10. \A q \in Pins : q \in 0 .. MAX_GPIO_PIN - 1
  BY DEF Pins, MAX_GPIO_PIN
<1> HIDE DEF Pins
<1>11. \A q \in Pins, b \in Attrs :
         GetPin(call.regs, b, q) = IF call.res = "ok" /\ p = q /\ b = a THEN v ELSE GetPin(gpio, b, q)
  BY <1>7, <1>10 DEF SetsOnly
<1>12. \A q \in Pins, b \in Attrs :
         GetPin(gpio', b, q) = IF gpio_told'.res = "ok" /\ gpio_told'.pin = q /\ gpio_told'.a = b
                               THEN gpio_told'.v ELSE GetPin(gpio, b, q)
  BY <1>8, <1>9, <1>11
<1> QED BY <1>12
-----------------------------------------------------------------------------
(* The rate, the attributes of the card and the small parts, of the board. *)

\* The rate is one of those the registers reach, and it is set by
\* uart_init_early.
RateInv == g_brg \in Bauds /\ RateClose

\* Nothing is sent before the rate is set.
LEMMA RateStarts == UartInit => RateInv
BY DEF UartInit, RateInv, RateClose

\* uart_init_early sets it, and nothing else touches it.
LEMMA RateKept == UartInv /\ RateInv /\ [UartNext]_uartVars => RateInv'
<1> SUFFICES ASSUME UartInv, RateInv, [UartNext]_uartVars PROVE RateInv'
  OBVIOUS
<1>1. CASE UNCHANGED uartVars \/ uart_putc \/ ShiftOut
  <2>1. UNCHANGED <<g_brg, ureg, u_pc>>
    BY <1>1 DEF uartVars, uart_putc, ShiftOut
  <2> QED BY <2>1 DEF RateInv, RateClose, BitClocks
<1>2. CASE uart_init_early
  <2>1. g_brg' = g_brg /\ u_pc = "start" /\ ureg' = uart_setbrg(FifoOn(ureg))
    BY <1>2 DEF uart_init_early
  <2>2. PICK s : s = g_brg /\ InReach(s)
    BY RatesReached DEF RateInv
  <2>3. PICK r : r = FifoOn(ureg)
    OBVIOUS
  <2>4. /\ DOMAIN r = {"highspeed", "dl", "count", "point", "fifo"}
        /\ r = [f \in DOMAIN r |-> r[f]]
    <3>1. ureg \in [highspeed : {0, 3}, dl : {1, 14}, count : {0, 27}, point : {13}, fifo : BOOLEAN]
      BY <2>1 DEF UartInv, AsFound
    <3> QED BY <2>3, <3>1 DEF FifoOn
  <2>5. 50 * Off((IF ureg'.highspeed = 3 THEN ureg'.dl * (ureg'.count + 1) ELSE 16 * ureg'.dl) * s,
                 UART_SRC_CLK) <= UART_SRC_CLK
    BY <2>1, <2>2, <2>3, <2>4, RateIsClose
  <2>6. BitClocks' = IF ureg'.highspeed = 3 THEN ureg'.dl * (ureg'.count + 1) ELSE 16 * ureg'.dl
    BY DEF BitClocks
  <2>7. RateClose'
    <3>1. g_brg' = s
      BY <2>1, <2>2
    <3> QED BY <2>5, <2>6, <3>1 DEF RateClose
  <2> QED BY <2>1, <2>7 DEF RateInv
<1> QED BY <1>1, <1>2 DEF UartNext

\* The timer's steps, the calibration's and those of the pins are theirs.
LEMMA GptPartsStep == [BoardNext]_boardVars => [GptNext]_gptVars
BY DEF BoardNext, boardVars, PinsPart, TimerPart, UartPart, WdtPart, MiiPart, CalPart,
       SetupPart, PagesPart, NandPart, ChipPart, ArithPart, RegPart, CmdPart, AbPart,
       OnlyWdt, OnlyMii, OnlyCal, OnlySetup, SmallParts

LEMMA GpioPartsStep == [BoardNext]_boardVars => [GpioNext]_gpioVars
BY DEF BoardNext, boardVars, PinsPart, TimerPart, UartPart, WdtPart, MiiPart, CalPart,
       SetupPart, PagesPart, NandPart, ChipPart, ArithPart, RegPart, CmdPart, AbPart,
       OnlyWdt, OnlyMii, OnlyCal, OnlySetup, SmallParts

LEMMA CalPartsStep == [BoardNext]_boardVars => [CalNext]_calVars
BY DEF BoardNext, boardVars, PinsPart, TimerPart, UartPart, WdtPart, MiiPart, CalPart,
       SetupPart, PagesPart, NandPart, ChipPart, ArithPart, RegPart, CmdPart, AbPart,
       OnlyWdt, OnlyMii, OnlyCal, OnlySetup, Networking

\* What is known of them while they work.
PartsInv == GptInv /\ CalInv /\ GpioInv /\ UartInv /\ RateInv

\* As long as the board works.
LEMMA PartsAlways == BoardSpec => []PartsInv
<1>1. BoardInit => PartsInv
  <2> SUFFICES ASSUME BoardInit PROVE PartsInv
    OBVIOUS
  <2>1. GptInit /\ CalInit /\ GpioInit /\ UartInit
    BY DEF BoardInit
  <2> QED BY <2>1, GptStarts, CalStarts, GpioStarts, UartStarts, RateStarts DEF PartsInv
<1>2. PartsInv /\ [BoardNext]_boardVars => PartsInv'
  <2> SUFFICES ASSUME PartsInv, [BoardNext]_boardVars PROVE PartsInv'
    OBVIOUS
  <2>1. GptInv'
    BY GptPartsStep, GptKept DEF PartsInv
  <2>2. CalInv'
    BY CalPartsStep, CalKept DEF PartsInv
  <2>3. GpioInv'
    BY GpioPartsStep, GpioKept DEF PartsInv
  <2>4. UartInv'
    BY UartPartsStep, UartKept DEF PartsInv
  <2>5. RateInv'
    BY UartPartsStep, RateKept DEF PartsInv
  <2> QED BY <2>1, <2>2, <2>3, <2>4, <2>5 DEF PartsInv
<1> QED BY <1>1, <1>2, PTL DEF BoardSpec

\* Pins, timer, console and TRGMII are what their callers rely on: the self
\* test takes back what it tries, a busy wait is never too short and ends at
\* the first look behind its end, get_timer is right to a ms and one for each
\* wrap, the console runs within 2% of its rate, and every lane ends in the
\* middle of its window - for a counter of any width and ticks of any length,
\* any rate the registers reach, and any number of lanes, taps and windows a
\* calibration can find.
THEOREM PartsDoTheirWork == BoardSpec => []BoardPartsInv
<1>1. PartsInv => BoardPartsInv
  <2> SUFFICES ASSUME PartsInv PROVE BoardPartsInv
    OBVIOUS
  <2>1. MethodsAgree /\ TestRestores
    BY PinsAsBefore DEF PartsInv
  <2>2. WaitNotEarly /\ WaitInTime /\ ClockRight
    BY WaitsAreRight, ClockIsRight DEF PartsInv
  <2>3. RateClose
    BY DEF PartsInv, RateInv
  <2>4. Centred
    <3>1. CASE Calibratable
      BY <3>1 DEF PartsInv, CalInv, CalKnown
    <3>2. CASE ~Calibratable
      BY <3>2 DEF Centred
    <3> QED BY <3>1, <3>2
  <2> QED BY <2>1, <2>2, <2>3, <2>4 DEF BoardPartsInv
<1> QED BY <1>1, PartsAlways, PTL

\* The clock of the boot loader is never turned back, over any wrap of the
\* counter and whatever a reading gets wrong.
THEOREM ClockNeverGoesBack == BoardSpec => ClockForward
<1> DEFINE Forward == gpt_clock'.timestamp >= gpt_clock.timestamp
<1>1. PartsInv /\ [BoardNext]_boardVars => [Forward]_gptVars
  <2> SUFFICES ASSUME GptInv, GptNext PROVE Forward
    BY GptPartsStep DEF PartsInv
  <2>1. CASE get_timer_masked
    BY <2>1, LookKeeps
  <2>2. CASE gpt_clock' = gpt_clock
    <3>1. gpt_clock.timestamp \in Int
      BY DEF GptInv, GptWaitInv, GptTypes
    <3> QED BY <2>2, <3>1
  <2> QED BY <2>1, <2>2 DEF GptNext, StartGptWait, PollGpt
<1>2. ClockForward <=> [][Forward]_gptVars
  BY DEF ClockForward
<1> HIDE DEF Forward
<1> QED BY <1>1, <1>2, PartsAlways, PTL DEF BoardSpec

\* A call changes what it names and nothing else of any pin, also of those in
\* the same registers; a call that is refused changes nothing.
THEOREM PinsAreSetAlone == BoardSpec => OnlyWhatIsSet
<1> DEFINE Alone1 == gpio_calls' # gpio_calls =>
              \A pin \in Pins, a \in Attrs :
                GetPin(gpio', a, pin) =
                  IF gpio_told'.res = "ok" /\ gpio_told'.pin = pin /\ gpio_told'.a = a
                  THEN gpio_told'.v ELSE GetPin(gpio, a, pin)
<1>1. PartsInv /\ [BoardNext]_boardVars => [Alone1]_gpioVars
  <2> SUFFICES ASSUME GpioInv, GpioNext PROVE Alone1
    BY GpioPartsStep DEF PartsInv
  <2> QED BY CallsSetOnly
<1>2. OnlyWhatIsSet <=> [][Alone1]_gpioVars
  BY DEF OnlyWhatIsSet
<1> HIDE DEF Alone1
<1> QED BY <1>1, <1>2, PartsAlways, PTL DEF BoardSpec

\* The attributes in the card are a bit each, whatever is written and lost.
AttrIsBit == card_reg["attr"][0] \in 0 .. 1 /\ reg_call.value \in Nat

\* So they are found.
LEMMA AttrStarts == RegInit => AttrIsBit
<1> SUFFICES ASSUME RegInit PROVE AttrIsBit
  OBVIOUS
<1>1. card_reg.attr \in [{0} -> 0 .. Q - 1] /\ reg_call.value = 0
  BY DEF RegInit
<1> QED BY <1>1 DEF AttrIsBit, Q

\* Widths are small.
LEMMA PowersOfQ == Q^0 = 1 /\ Q^1 = 2 /\ Q^2 = 4 /\ Q^3 = 8 /\ Q^4 = 16
<1>1. 2^0 = 1 /\ 2^1 = 2 /\ 2^2 = 4 /\ 2^3 = 8 /\ 2^4 = 16
  OBVIOUS
<1> QED BY <1>1 DEF Q

\* A byte that is written is one.
LEMMA ByteIsBit == ASSUME NEW value \in Nat, NEW i \in 0 .. 3 PROVE Byte(value, i) \in 0 .. 1
<1>1. PICK q \in Nat \ {0} : q = Q^i
  <2>1. i = 0 \/ i = 1 \/ i = 2 \/ i = 3
    OBVIOUS
  <2>2. Q^i = 1 \/ Q^i = 2 \/ Q^i = 4 \/ Q^i = 8
    BY <2>1, PowersOfQ
  <2> QED BY <2>2
<1>2. PICK x \in Nat : x = value \div q
  BY DivMod
<1>3. x % 2 \in 0 .. 1
  OBVIOUS
<1>4. Byte(value, i) = (value \div Q^i) % 2
  BY DEF Byte, Q
<1> QED BY <1>1, <1>2, <1>3, <1>4

\* A write changes one byte, a call none.
LEMMA AttrKept == RegInv /\ AttrIsBit /\ [RegNext]_regVars => AttrIsBit'
<1> SUFFICES ASSUME RegInv, AttrIsBit, [RegNext]_regVars PROVE AttrIsBit'
  OBVIOUS
<1>1. reg_call.value \in Nat /\ reg_call.next \in 0 .. 3 /\ DOMAIN reg_call = {"r", "value", "next", "at"}
  BY DEF AttrIsBit, RegInv, RegTypes, BytesOf, Width, Regs
<1>2. Written["attr"][0] \in 0 .. 1
  <2>1. PICK b \in 0 .. 1 : b = Byte(reg_call.value, reg_call.next)
    BY <1>1, ByteIsBit
  <2>2. PICK k : k = [card_reg[reg_call.r] EXCEPT ![reg_call.next] = b]
    OBVIOUS
  <2>3. Written = [card_reg EXCEPT ![reg_call.r] = k]
    BY <2>1, <2>2 DEF Written
  <2>4. reg_call.r = "attr" => k[0] \in 0 .. 1
    BY <2>1, <2>2 DEF AttrIsBit
  <2> QED BY <2>3, <2>4 DEF AttrIsBit
<1>3. ASSUME card_reg' \in {card_reg, Written}, reg_call'.value \in Nat PROVE AttrIsBit'
  BY <1>2, <1>3 DEF AttrIsBit
<1>4. CASE UNCHANGED regVars
  BY <1>1, <1>3, <1>4 DEF regVars
<1>5. ASSUME NEW r \in Regs, NEW value \in {1, Q^Width[r] - 2}, CallRegister(r, value) PROVE AttrIsBit'
  <2>1. value \in Nat
    <3>1. r \in {"size", "start", "attr", "grp_def"}
      BY DEF Regs, Width
    <3>2. Width[r] = 1 \/ Width[r] = 3 \/ Width[r] = 4
      BY <3>1 DEF Width
    <3>3. Q^Width[r] = 2 \/ Q^Width[r] = 8 \/ Q^Width[r] = 16
      BY <3>2, PowersOfQ
    <3> QED BY <3>3
  <2>2. reg_call'.value \in Nat
    BY <1>5, <2>1 DEF CallRegister, Wanted
  <2> QED BY <1>3, <1>5, <2>2 DEF CallRegister
<1>6. CASE SwitchByte \/ ReadBack
  <2>1. card_reg' \in {card_reg, Written}
    BY <1>6 DEF SwitchByte, ReadBack
  <2>2. reg_call'.value = reg_call.value
    BY <1>1, <1>6 DEF SwitchByte, ReadBack, Ends
  <2> QED BY <1>1, <1>3, <2>1, <2>2
<1> QED BY <1>4, <1>5, <1>6 DEF RegNext

\* So they stay.
LEMMA AttrAlways == BoardSpec => [](RegInv /\ AttrIsBit)
<1>1. BoardInit => RegInv /\ AttrIsBit
  BY BoardPartsStart, RegStarts, AttrStarts
<1>2. (RegInv /\ AttrIsBit) /\ [BoardNext]_boardVars => (RegInv /\ AttrIsBit)'
  BY RegPartsStep, RegKept, AttrKept
<1> QED BY <1>1, <1>2, PTL DEF BoardSpec

\* No call clears an attribute of a partition that is set, as long as the copy
\* the host adds to is that of the card.
THEOREM AttributesAreKept == BoardSpec => AttributesStay
<1> DEFINE Stays == reg_call.at = 0 /\ reg_call'.at = 1 /\ reg_call'.r = "attr" /\ reg_copy = card_reg
                      => card_reg["attr"][0] <= reg_call'.value
<1>1. (RegInv /\ AttrIsBit) /\ [BoardNext]_boardVars => [Stays]_regVars
  <2> SUFFICES ASSUME RegInv, AttrIsBit, RegNext, reg_call.at = 0, reg_call'.at = 1,
                      reg_call'.r = "attr", reg_copy = card_reg
               PROVE  card_reg["attr"][0] <= reg_call'.value
    BY RegPartsStep
  <2>1. PICK r \in Regs : \E value \in {1, Q^Width[r] - 2} : CallRegister(r, value)
    BY DEF RegNext, SwitchByte, ReadBack
  <2>2. PICK value \in {1, Q^Width[r] - 2} : CallRegister(r, value)
    BY <2>1
  <2>3. r = "attr" /\ reg_call'.value = Wanted(r, value)
    BY <2>2 DEF CallRegister
  <2>4. value \in {0, 1}
    <3>1. Width[r] = 1
      BY <2>3 DEF Width
    <3> QED BY <3>1 DEF Q
  <2> QED BY <2>3, <2>4 DEF Wanted, AttrIsBit
<1>2. AttributesStay <=> [][Stays]_regVars
  BY DEF AttributesStay
<1> HIDE DEF Stays
<1> QED BY <1>1, <1>2, AttrAlways, PTL DEF BoardSpec
=============================================================================
