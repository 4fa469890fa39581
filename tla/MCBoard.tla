------------------------------ MODULE MCBoard -------------------------------
(***************************************************************************)
(* The parts of the board that have nothing to do with each other, checked *)
(* in one run: part says which one a behaviour is about, and the state of  *)
(* the others stays as it was.                                             *)
(***************************************************************************)
EXTENDS Gpio, Gpt, Uart, Wdt, MiiMgr, TrgmiiCal, EthSetup,
        NandPages, NandController, NandInit, MmcArith, MmcRegisters, BootCmds, AbUpdate

\* Values whose halves differ.
MCWrites == {[low |-> l, high |-> 1 - l] : l \in {0, 1}}

\* The lanes of the TRGMII: windows before, at and behind the first taps, from
\* as narrow as the skip up to more than half of the taps.
MCWindows == {[lo |-> lo, hi |-> lo + w] : lo \in {-6, -3, -1, 1, 3}, w \in {2, 4, 9}}
MCSteps   == [side \in Sides |-> IF side = "7623" THEN 2 ELSE 4]

VARIABLE part

Networking == <<miiVars, calVars, gswVars>>
Storage    == <<page_probe, ncVars, niVars, mmc_probe, regVars>>
SmallParts == <<gpioVars, gptVars, uartVars, wdtVars>>
Booting    == <<cmdVars, abVars>>

boardVars == <<part, Networking, Storage, SmallParts, Booting>>

\* One initial state for each part a behaviour is not about.
OthersStill ==
  /\ part # "pins"     => gpio = FoundPins({}, {}, 0)
  /\ part # "timer"    => gpt_now = 0 /\ gpt_wait = [pc |-> "idle", unit |-> "us", t |-> 0, start |-> 0, since |-> 0, ticks |-> 0]
  /\ part # "uart"     => /\ g_brg = 115200 /\ utext = <<"c", "nl">>
                          /\ ureg = [highspeed |-> 0, dl |-> 1, count |-> 0, point |-> 13, fifo |-> TRUE]
  /\ part # "watchdog" => wd_mode = {"ENABLE"}
  /\ part # "trgmii"   => cal_side = "7623" /\ cal_lane = [l \in Lanes |-> CHOOSE w \in Windows : TRUE]
  /\ part # "set-up"   => gsw_xtal = 1 /\ gsw_on = {}
  /\ part # "pages"    => page_probe = [vendor |-> "MICRON", n |-> 0, format |-> <<{16}, 16, 4>>]
  /\ part # "nand"     => nc_cfg = [rand |-> FALSE, random_read |-> FALSE, family |-> "MICRON"]
  /\ part # "chip"     => ni_chip = [is |-> [id |-> <<\hEF, \hF1, \h80, \h95, \h00, 0>>, total |-> 128, spare |-> 64],
                                     second |-> FALSE]
  /\ part # "arith"    => mmc_probe = [q |-> "size", c_size |-> 0, mult |-> 0, blkbits |-> 9]
  /\ part # "ext_csd"  => card_reg = Zero
  /\ part # "commands" => loaded = [kind |-> "junk", size |-> 1]
  /\ part # "update"   => rootfs = [p \in Parts |-> "old"]

BoardInit ==
  /\ part \in {"pins", "timer", "uart", "watchdog", "mdio", "trgmii", "set-up", "pages",
               "nand", "chip", "arith", "ext_csd", "commands", "update"}
  /\ OthersStill
  /\ GpioInit /\ GptInit /\ UartInit /\ WdtInit /\ MiiInit /\ CalInit /\ SetupInit
  /\ PagesInit /\ ControllerInit /\ NandInitInit /\ ArithInit /\ RegInit /\ CmdInit /\ AbInit

Alone(p) == part = p /\ UNCHANGED part

PinsPart  == Alone("pins") /\ GpioNext /\ UNCHANGED <<Networking, Storage, gptVars, uartVars, wdtVars, Booting>>
TimerPart == Alone("timer") /\ GptNext /\ UNCHANGED <<Networking, Storage, gpioVars, uartVars, wdtVars, Booting>>
UartPart  == Alone("uart") /\ UartNext /\ UNCHANGED <<Networking, Storage, gpioVars, gptVars, wdtVars, Booting>>
OnlyWdt   == UNCHANGED <<Networking, Storage, gpioVars, gptVars, uartVars, Booting>>
WdtPart   == Alone("watchdog") /\ WdtNext /\ OnlyWdt
OnlyMii   == UNCHANGED <<calVars, gswVars, Storage, SmallParts, Booting>>
MiiPart   == Alone("mdio") /\ MiiNext /\ OnlyMii
OnlyCal   == UNCHANGED <<miiVars, gswVars, Storage, SmallParts, Booting>>
CalPart   == Alone("trgmii") /\ CalNext /\ OnlyCal
OnlySetup == UNCHANGED <<miiVars, calVars, Storage, SmallParts, Booting>>
SetupPart == Alone("set-up") /\ SetupNext /\ OnlySetup
PagesPart == Alone("pages") /\ PagesNext /\ UNCHANGED <<Networking, ncVars, niVars, mmc_probe, regVars, SmallParts, Booting>>
NandPart  == Alone("nand") /\ ControllerNext /\ UNCHANGED <<Networking, page_probe, niVars, mmc_probe, regVars, SmallParts, Booting>>
ChipPart  == Alone("chip") /\ NandInitNext /\ UNCHANGED <<Networking, page_probe, ncVars, mmc_probe, regVars, SmallParts, Booting>>
ArithPart == Alone("arith") /\ ArithNext /\ UNCHANGED <<Networking, page_probe, ncVars, niVars, regVars, SmallParts, Booting>>
RegPart   == Alone("ext_csd") /\ RegNext /\ UNCHANGED <<Networking, page_probe, ncVars, niVars, mmc_probe, SmallParts, Booting>>
CmdPart   == Alone("commands") /\ CmdNext /\ UNCHANGED <<Networking, Storage, SmallParts, abVars>>
AbPart    == Alone("update") /\ AbNext /\ UNCHANGED <<Networking, Storage, SmallParts, cmdVars>>

BoardNext ==
  \/ PinsPart \/ TimerPart \/ UartPart \/ WdtPart \/ MiiPart \/ CalPart \/ SetupPart
  \/ PagesPart \/ NandPart \/ ChipPart \/ ArithPart \/ RegPart \/ CmdPart \/ AbPart

\* The code of an access goes on, not the bus it waits for; so do the
\* calibration and the set-up; and the watchdog counts.
BoardWork ==
  \/ Alone("mdio") /\ MiiWork /\ OnlyMii
  \/ Alone("watchdog") /\ WdtWork /\ OnlyWdt
  \/ CalPart \/ SetupPart

BoardSpec == BoardInit /\ [][BoardNext]_boardVars /\ WF_boardVars(BoardWork)
-----------------------------------------------------------------------------
(* What the run checks: the properties of the parts, those of a kind in    *)
(* one formula.                                                            *)

\* What a caller is told of a device is so: an access to the switch that
\* returns was made and changed one register, a write to a register of the
\* card is whole or a prefix, what is written to the console goes out, and the
\* reason given for the last reset is the right one.
AccessesTrue == /\ MiiTruth /\ NoHalfWrites /\ OneBitOnly
                /\ WholeOrPrefix /\ NothingLost /\ ReasonRight

\* The network comes up as its code means it to, whatever the bus to the
\* switch loses: domains are powered before they are used, and every PHY but
\* those lost starts.
NetworkInv == PoweredWhenUsed /\ SetUpAsMeant /\ OnePhyPerLoss

\* The NAND controller is set up for each transfer as the transfer wants it,
\* whatever came before it, and a raw access reports what it did.
NandInv == SetUpForTransfer /\ RandomizerForPagesOnly /\ OneEngine /\ SpareReportsTruth

\* The figures of the flash and card drivers are right up to their limits:
\* paired pages and the layout of the spare area, the chip on the board and
\* the pool of its bad-block table, clocks, registers and delays of the card.
FiguresRight == /\ LowPagesPair /\ PairsAgree /\ ParityFits /\ SpareBytesApart
                /\ GeometryTrue /\ PoolIsOwn /\ MappingPresent /\ TableFitsPage /\ MarksStored
                /\ ClockNotAbove /\ TimeoutAtLeastHalf /\ UnstuffAgrees /\ BlocksExact /\ GoodLinesStay

\* Pins, timer and the rate of the console are what their callers rely on, and
\* the lanes of the TRGMII are set to the middle of their windows.
BoardPartsInv == /\ MethodsAgree /\ TestRestores /\ WaitNotEarly /\ WaitInTime /\ ClockRight
                 /\ RateClose /\ Centred

\* What a script writes to the flash is the image, and after an update, cut
\* off or complete, the board still boots unless the cut tore the environment.
BootInv == BlocksHoldImage /\ BootsUnlessTorn

\* What no step may do: change a pin it was not asked to, turn the clock back,
\* let the watchdog bite by itself, disturb a PLL in use, start the DMA on
\* rings it does not know, clear an attribute of a partition, or write to the
\* system that runs.
StepsAllowed == /\ OnlyWhatIsSet /\ ClockForward /\ NoStrayReset /\ CoreQuiet
                /\ RingsBeforeStart /\ AttributesStay /\ RunningSpared

Begun == \/ part = "mdio" /\ mii.pc # "idle"
         \/ part = "watchdog" /\ wd_pc = "reset"
         \/ part = "trgmii" /\ Calibratable
         \/ part = "set-up"

Ended == \/ part = "mdio" /\ mii.pc = "idle"
         \/ part = "watchdog" /\ wd_pc = "preloader"
         \/ part = "trgmii" /\ cal.pc = "done"
         \/ part = "set-up" /\ SetUpEnd

\* What is begun ends: an access to the switch, whatever the controller does;
\* a request for a reset in the reset, though it waits for it in an endless
\* loop, because whatever mode was set before is taken back; the calibration,
\* for no lane is turned past its window to look for it in vain; the set-up of
\* the network, once the DMA of an earlier program has come to rest.
BoardReturns == Begun ~> Ended
=============================================================================
