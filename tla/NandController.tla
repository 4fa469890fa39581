--------------------------- MODULE NandController ---------------------------
(***************************************************************************)
(* The registers of the NAND controller under the functions of mtk_nand.c. *)
(* Each function changes some of them and relies for the rest on what the  *)
(* ones before it have left, also those that gave up half-way.  A step of  *)
(* the model goes from one transfer of data to the next.                   *)
(***************************************************************************)
EXTENDS Naturals

CONSTANT NandSectors       \* bound: sectors of a page, for the raw spare area

VARIABLES
  nc_cfg,     \* randomizer by eFuse, chip with command 05h-E0h, its retry family
  reg,        \* NFI_CNFG, its mode; NFI_CON; NFI_RANDOM_CNFG; DECCON, ENCCON
  nc_pc, xfer,\* where the driver is, and the data it moves there
  todo,       \* sectors of the spare area that are left
  told, moved,\* what the raw access reports, and whether all data moved
  nc_late,    \* a wait has run out
  given_up    \* a read was left by the break of line 3916 or 4126, and none has
              \* ended properly since

ncVars == <<nc_cfg, reg, nc_pc, xfer, todo, told, moved, nc_late, given_up>>

-----------------------------------------------------------------------------
(* The functions, as operators on the registers.                           *)

Bits(r, on, off) == [r EXCEPT !.cnfg = (@ \ off) \cup on]
Mode(r, m)       == [r EXCEPT !.mode = m]                \* mtk_nand_set_mode
Con(r, c)        == [r EXCEPT !.con = c]
NfiReset(r)      == Con(r, "0")                          \* mtk_nand_reset

\* A register write, not a change of some bits.
Custom(r, bits)  == [r EXCEPT !.mode = "cust", !.cnfg = bits]

RandomizerOn(r, t) ==
  IF nc_cfg.rand THEN [Bits(r, {"RAN_SEL", "RAN_SEC"}, {}) EXCEPT !.rand = t] ELSE r
RandomizerOff(r)   == [Bits(r, {}, {"RAN_SEL", "RAN_SEC"}) EXCEPT !.rand = "off"]

\* Faulty variant of PageRandomizerOff: left to the command for the status.
PageRandomizerLeft(r) == r

PageRandomizerOff(r) == IF nc_cfg.rand THEN RandomizerOff(r) ELSE r

Decoder(r, on) == [r EXCEPT !.dec = on]      \* ECC_Decode_Start, ECC_Decode_End
Encoder(r, on) == [r EXCEPT !.enc = on]

PageBits == {"AHB", "HW_ECC", "AUTO_FMT"}

\* Faulty variant of Spare: what a page transfer has set stays set.
SpareKeeps(r) == Bits(r, {}, {"HW_ECC", "AUTO_FMT"})

\* Without `full' the data goes through the CPU and past the ECC.
Spare(r) == Bits(r, {}, PageBits)

ReadyForRead(r, full) ==
  LET s == Bits(Mode(NfiReset(r), "read"), {"READ_EN"}, {})
  IN IF full THEN Decoder(Bits(s, PageBits, {}), TRUE) ELSE Spare(s)

\* Faulty variant of Writing: the direction is not changed.
WritingAsRead(r) == Mode(NfiReset(r), "prgm")

Writing(r) == Bits(Mode(NfiReset(r), "prgm"), {}, {"READ_EN"})

ReadyForWrite(r, full) ==
  IF full THEN Encoder(Bits(Writing(r), PageBits, {}), TRUE) ELSE Spare(Writing(r))

Dma(r, dir)  == Con(Bits(r, {}, {"BYTE_RW"}), dir)
StopRead(r)  == Decoder(NfiReset(r), FALSE)

\* Faulty variant of StopWrite: the encoder is left on.
StopWriteOn(r) == Con(r, "0")

StopWrite(r) == Encoder(Con(r, "0"), FALSE)

\* NAND_CMD_STATUS: the second set_mode, with a bit that is no mode, leaves
\* the mode 0 and sets that bit.
Status(r) ==
  Con(Bits(Mode(IF r.rand = "off" THEN NfiReset(r) ELSE RandomizerOff(NfiReset(r)), "0"),
           {"READ_EN"}, {"BYTE_RW", "AHB", "HW_ECC"}), "SRD")
StatusRead(r) == Bits(NfiReset(r), {"AHB", "HW_ECC"}, {})

ReadId(r) == Con(Bits(Mode(NfiReset(r), "srd"), {"READ_EN", "BYTE_RW"}, {"HW_ECC", "AHB"}), "SRD")
-----------------------------------------------------------------------------
Goto(pc, x)  == nc_pc' = pc /\ xfer' = x
OnTime       == UNCHANGED nc_late
Late         == nc_late' = TRUE
SameReport   == UNCHANGED <<nc_cfg, todo, told, moved>>

\* mtk_nand_exec_read_page, one round; mtk_nand_exec_read_sector is the same.
\* When the controller is not ready the data is not fetched, and the decoder
\* may be on already.
ReadPage ==
  /\ nc_pc \in {"idle", "again"}
  /\ LET r == RandomizerOn(reg, "decode") IN
     \/ reg' = Dma(ReadyForRead(r, TRUE), "BRD") /\ Goto("read", "page_in") /\ OnTime
     \/ reg' \in {PageRandomizerOff(x) : x \in {NfiReset(r), ReadyForRead(r, TRUE)}}
        /\ Goto("idle", "none") /\ Late
  /\ UNCHANGED given_up /\ SameReport

\* Data, ECC and empty check are over.
ReadPageEnd ==
  /\ nc_pc = "read"
  /\ \/ /\ reg' = PageRandomizerOff(StopRead(reg))
        /\ Goto("idle", "none") \/ Goto("retry", "none")
        /\ given_up' = FALSE
     \/ UNCHANGED reg /\ Goto("idle", "none") /\ given_up' = TRUE
  /\ OnTime \/ Late
  /\ SameReport

\* sandisk_19nm_rr_init and _loading switch the randomizer off themselves.
Sandisk19(r) == IF nc_cfg.family = "SANDISK_19NM" /\ nc_cfg.rand
                THEN [r EXCEPT !.rand = "off"] ELSE r

\* What the functions of rtyFuncArray leave.
ToshibaLeaves(r) == {r, NfiReset(r), Mode(NfiReset(r), "reset")}
HynixLeaves(r)   == {NfiReset(r)}

\* A value for the chip; the functions send one or several.
Setting ==
  /\ nc_pc \in {"retry", "set"}
  /\ reg' = Con(Custom(NfiReset(Sandisk19(reg)), {"BYTE_RW"}), "BWR")
  /\ Goto("setting", "feature_out")
  /\ UNCHANGED <<nc_late, given_up>> /\ SameReport

SettingEnd ==
  /\ nc_pc = "setting"
  /\ reg' \in CASE nc_cfg.family \in {"MICRON", "SANDISK"} -> {reg}
               [] nc_cfg.family = "TOSHIBA"               -> ToshibaLeaves(reg)
               [] OTHER                                   -> HynixLeaves(reg)
  /\ Goto("set", "none") \/ Goto("again", "none") \/ Goto("idle", "none")
  /\ OnTime \/ Late
  /\ UNCHANGED given_up /\ SameReport

\* mtk_nand_exec_write_page up to the status, which waitfunc asks for.
WritePage ==
  /\ nc_pc = "idle"
  /\ LET r == RandomizerOn(reg, "encode") IN
     \/ reg' = Dma(ReadyForWrite(r, TRUE), "BWR") /\ Goto("write", "page_out") /\ OnTime
     \/ reg' \in {Status(PageRandomizerOff(x)) : x \in {NfiReset(r), ReadyForWrite(r, TRUE)}}
        /\ Goto("status", "status") /\ Late
  /\ UNCHANGED given_up /\ SameReport

WritePageEnd ==
  /\ nc_pc = "write"
  /\ reg' = Status(PageRandomizerOff(StopWrite(reg)))
  /\ Goto("status", "status")
  /\ OnTime \/ Late
  /\ UNCHANGED given_up /\ SameReport

\* NAND_CMD_ERASE1 and ERASE2 move no data and no results are looked at.
EraseBlock ==
  /\ nc_pc = "idle"
  /\ reg' = Status(Mode(NfiReset(reg), "erase")) /\ Goto("status", "status")
  /\ OnTime \/ Late
  /\ UNCHANGED given_up /\ SameReport

StatusEnd ==
  /\ nc_pc = "status"
  /\ reg' = StatusRead(reg)
  /\ IF todo > 0 THEN Goto("spare_out", "none") ELSE Goto("idle", "none")
  /\ UNCHANGED <<nc_late, given_up>> /\ SameReport
-----------------------------------------------------------------------------
(* The spare area past the ECC: mtk_nand_read_oob_raw, _write_oob_raw.     *)

StartSpare(pc) ==
  /\ nc_pc = "idle"
  /\ \E n \in 1 .. NandSectors : todo' = n
  /\ told' = "none" /\ moved' = FALSE
  /\ nc_pc' = pc
  /\ UNCHANGED <<nc_cfg, reg, xfer, nc_late, given_up>>

\* mtk_nand_mcu_read_data, mtk_nand_mcu_write_data: bytes or words.
Mcu(r, dir) == {Con(Bits(r, {"BYTE_RW"}, {}), dir), Con(Bits(r, {}, {"BYTE_RW"}), dir)}
McuRead(r)  == Mcu(r, "BRD")
McuWrite(r) == Mcu(r, "BWR")

\* With command 05h-E0h the later sectors need no new set-up.
Random == nc_cfg.random_read

SpareSetup == IF Random THEN Bits(Spare(Mode(NfiReset(reg), "cust")), {"READ_EN"}, {})
              ELSE ReadyForRead(reg, FALSE)

\* Faulty variant of LateReport: every way out of it reports success.
LateReportOk == "ok"

\* The jumps of the random reads to the end leave the result at 0.
LateReport == IF Random THEN "ok" ELSE "error"

ReadSpare ==
  /\ nc_pc = "spare_in"
  /\ \/ reg' \in McuRead(SpareSetup) /\ Goto("moving_in", "spare_in") /\ OnTime
        /\ UNCHANGED <<todo, told, moved>>
     \/ reg' \in {NfiReset(reg), SpareSetup} /\ Goto("idle", "none") /\ Late
        /\ told' = LateReport /\ todo' = 0 /\ UNCHANGED moved
  /\ UNCHANGED <<nc_cfg, given_up>>

\* All that is left after an error is to end the burst.
ReadSpareEnd ==
  /\ nc_pc = "moving_in"
  /\ \/ /\ OnTime /\ reg' = StopRead(reg) /\ todo' = todo - 1
        /\ IF todo = 1 THEN Goto("idle", "none") /\ told' = "ok" /\ moved' = TRUE
           ELSE Goto("spare_in", "none") /\ UNCHANGED <<told, moved>>
     \/ /\ Late /\ reg' = Con(reg, "0") /\ todo' = 0
        /\ Goto("idle", "none") /\ told' = "error" /\ UNCHANGED moved
  /\ UNCHANGED <<nc_cfg, given_up>>

WriteSpare ==
  /\ nc_pc = "spare_out"
  /\ \/ reg' \in McuWrite(ReadyForWrite(reg, FALSE)) /\ Goto("moving_out", "spare_out") /\ OnTime
        /\ UNCHANGED <<todo, told>>
     \/ reg' \in {NfiReset(reg), ReadyForWrite(reg, FALSE)} /\ Goto("idle", "none") /\ Late
        /\ told' = "error" /\ todo' = 0
  /\ UNCHANGED <<nc_cfg, moved, given_up>>

\* Each sector is a program of its own, with a status of its own.
WriteSpareEnd ==
  /\ nc_pc = "moving_out"
  /\ \/ /\ OnTime \/ Late
        /\ reg' = Status(Con(reg, "0")) /\ Goto("status", "status") /\ todo' = todo - 1
        /\ IF todo = 1 THEN told' = "ok" /\ moved' = TRUE ELSE UNCHANGED <<told, moved>>
     \/ /\ Late /\ UNCHANGED <<reg, moved>> /\ todo' = 0
        /\ Goto("idle", "none") /\ told' = "error"
  /\ UNCHANGED <<nc_cfg, given_up>>
-----------------------------------------------------------------------------
\* mtk_nand_init_hw.  The preloader has left the randomizer off.
ControllerInit ==
  /\ nc_cfg \in [rand : BOOLEAN, random_read : BOOLEAN,
                 family : {"MICRON", "SANDISK", "SANDISK_19NM", "TOSHIBA", "HYNIX"}]
  /\ reg = [mode |-> "0", cnfg |-> {"HW_ECC"}, con |-> "0", rand |-> "off",
            dec |-> FALSE, enc |-> FALSE]
  /\ nc_pc = "boot" /\ xfer = "none" /\ todo = 0
  /\ told = "none" /\ moved = FALSE /\ nc_late = FALSE /\ given_up = FALSE

\* board_nand_init asks for the identity, of both chip selects; a chip with a
\* fast interface is set to it and asked for it (mtk_nand_interface_config).
Identify ==
  /\ nc_pc = "boot" /\ reg' = ReadId(reg) /\ Goto("identify", "id")
  /\ UNCHANGED <<nc_late, given_up>> /\ SameReport

FastInterface ==
  /\ nc_pc = "boot"
  /\ reg' = Con(Custom(NfiReset(reg), {"BYTE_RW"}), "BWR")
  /\ Goto("identify", "feature_out")
  /\ OnTime \/ Late
  /\ UNCHANGED given_up /\ SameReport

GetFeature ==
  /\ nc_pc \in {"boot", "identify"}
  /\ reg' = Con(Custom(NfiReset(reg), {"BYTE_RW", "READ_EN"}), "SRD")
  /\ Goto("identify", "feature_in")
  /\ OnTime \/ Late
  /\ UNCHANGED given_up /\ SameReport

Identified ==
  /\ nc_pc = "identify" /\ UNCHANGED reg
  /\ Goto("boot", "none") \/ Goto("idle", "none")
  /\ UNCHANGED <<nc_late, given_up>> /\ SameReport

ControllerNext ==
  \/ Identify \/ FastInterface \/ GetFeature \/ Identified
  \/ ReadPage \/ ReadPageEnd \/ Setting \/ SettingEnd
  \/ WritePage \/ WritePageEnd \/ EraseBlock \/ StatusEnd
  \/ StartSpare("spare_in") \/ ReadSpare \/ ReadSpareEnd
  \/ StartSpare("spare_out") \/ WriteSpare \/ WriteSpareEnd

ControllerSpec == ControllerInit /\ [][ControllerNext]_ncVars
-----------------------------------------------------------------------------
Wants(modes, con, bits) == reg.mode \in modes /\ reg.con = con
  /\ reg.cnfg \ {"BYTE_RW", "RAN_SEL", "RAN_SEC"} = bits

\* Whenever data moves, the controller is set up for just that data: mode,
\* direction, bus master and layout, and for pages the ECC engine and the
\* randomizer - whatever the driver did before, and wherever it gave up.
SetUpForTransfer ==
  CASE xfer = "page_in"  -> Wants({"read"}, "BRD", PageBits \cup {"READ_EN"}) /\ reg.dec
                            /\ (reg.rand = "decode" <=> nc_cfg.rand)
                            /\ "BYTE_RW" \notin reg.cnfg
                            /\ (nc_cfg.rand => "RAN_SEL" \in reg.cnfg)
    [] xfer = "page_out" -> Wants({"prgm"}, "BWR", PageBits) /\ reg.enc
                            /\ (reg.rand = "encode" <=> nc_cfg.rand)
                            /\ "BYTE_RW" \notin reg.cnfg
                            /\ (nc_cfg.rand => "RAN_SEL" \in reg.cnfg)
    [] xfer = "spare_in" -> Wants({"read", "cust"}, "BRD", {"READ_EN"})
    [] xfer = "spare_out"-> Wants({"prgm"}, "BWR", {})
    [] xfer = "status"   -> reg.con = "SRD" /\ reg.cnfg \cap {"READ_EN", "AHB", "HW_ECC", "BYTE_RW"} = {"READ_EN"}
    [] xfer = "id"       -> reg.con = "SRD" /\ "READ_EN" \in reg.cnfg /\ "HW_ECC" \notin reg.cnfg
    [] xfer = "feature_out" -> Wants({"cust"}, "BWR", {}) /\ "BYTE_RW" \in reg.cnfg
    [] xfer = "feature_in"  -> Wants({"cust"}, "SRD", {"READ_EN"}) /\ "BYTE_RW" \in reg.cnfg
    [] OTHER -> TRUE

\* What is not a page - marks, status, features - must pass the randomizer by;
\* it does unless a read behind the partitions was left in the middle.
RandomizerForPagesOnly ==
  xfer \in {"spare_in", "spare_out", "status", "feature_out", "feature_in"} /\ ~given_up
    => reg.rand = "off"

\* While a page moves one way the ECC engine of the other way is off, unless
\* a wait ran out with the engine on or a read was left in the middle.
OneEngine == xfer \in {"page_in", "page_out"} /\ ~nc_late /\ ~given_up => ~(reg.dec /\ reg.enc)

\* A raw access that reports success has moved every sector, except on a chip
\* that is read with command 05h-E0h.
SpareReportsTruth == told = "ok" /\ (xfer = "none") /\ ~Random => moved
=============================================================================
