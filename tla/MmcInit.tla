------------------------------ MODULE MmcInit ------------------------------
(***************************************************************************)
(* The initialisation of a card: mmc_init_card and mmc_init_mem_card of    *)
(* mmc_core.c send one command after the other, some of whose failures     *)
(* they ignore, and set the host to what they believe the card is in.  It  *)
(* can be started again at any time, from whatever state the card is in.   *)
(***************************************************************************)
EXTENDS Integers

CONSTANTS
  CardTypes,     \* the cards that may be inserted: kind, version, speed, capacity
  InitFaults     \* bound: how many commands get no good response

\* A card that has a high-speed timing is not slower in it.
ASSUME CardsKnown ==
  /\ CardTypes \subseteq [kind : {"sd", "mmc"}, v4 : BOOLEAN, hs_max : Nat, max_dtr : Nat,
                           ddr : BOOLEAN, highcaps : BOOLEAN, volt33 : BOOLEAN]
  /\ \A t \in CardTypes : t.hs_max = 0 \/ t.max_dtr <= t.hs_max

VARIABLES
  type,          \* of the card
  caps,          \* host->caps: data pins, MMC_CAP_DDR
  icard,         \* the card: state, width, ddr, timing, and whether CMD8 was seen
  believed,      \* card->type, card->state and card->ext_csd
  hwidth, hblklen, hsclk,      \* the host: SDC_CFG_BUSWIDTH, blklen, sclk in MHz
  mi_pc, mi_result,
  mi_lost,       \* the outcome of a command that changes the card is not known
  mi_faults

miVars == <<type, caps, icard, believed, hwidth, hblklen, hsclk, mi_pc, mi_result,
            mi_lost, mi_faults>>

Fresh   == [state |-> "idle", width |-> 1, ddr |-> FALSE, timing |-> "ds", cmd8 |-> FALSE]
Unknown == [kind |-> "unknown", hs |-> FALSE, ddr |-> FALSE, highcaps |-> FALSE,
            hs_max |-> 0, ddr_support |-> FALSE]

hostVars == <<hwidth, hblklen, hsclk>>
Loses    == mi_faults < InitFaults /\ mi_faults' = mi_faults + 1

\* A command, with all its retries.  A card in another state, or of another
\* kind, does not answer; a command whose response is lost may have worked.
Cmd(answers, effect, next, else) ==
  \/ answers /\ icard' = effect /\ mi_pc' = next /\ UNCHANGED <<mi_faults, mi_lost>>
  \/ ~answers /\ mi_pc' = else /\ UNCHANGED <<icard, mi_faults, mi_lost>>
  \/ /\ Loses /\ mi_pc' = else
     /\ icard' \in IF answers THEN {icard, effect} ELSE {icard}
     /\ mi_lost' = (mi_lost \/ (answers /\ effect # icard))

In(s) == icard.state = s
Goes(s) == [icard EXCEPT !.state = s]

\* __mmc_init: msdc_init sets the host up; the power of the card may stay on.
Start ==
  /\ mi_pc \in {"none", "done", "fail"} /\ mi_pc' = "idle1"
  /\ icard' \in {icard, Fresh}
  /\ believed' = Unknown
  /\ hwidth' = 1 /\ hblklen' = 0 /\ hsclk' = 0
  /\ mi_lost' = FALSE /\ mi_result' = "none"
  /\ UNCHANGED <<type, caps, mi_faults>>

\* Faulty variant of Reset: a selected card is not reset.
ResetFresh == IF icard.state = "tran" THEN icard ELSE Fresh

Reset == Fresh

\* CMD0 has no response: its loss goes unnoticed.
GoIdle(here, next) ==
  /\ mi_pc = here /\ mi_pc' = next
  /\ \/ icard' = Reset /\ UNCHANGED mi_faults
     \/ Loses /\ UNCHANGED icard
  /\ UNCHANGED <<type, caps, believed, hostVars, mi_result, mi_lost>>

\* CMD8: whatever comes back, mmc_init_card goes on.
IfCond(here, next) ==
  /\ mi_pc = here
  /\ \/ icard' = [icard EXCEPT !.cmd8 = In("idle") \/ @] /\ UNCHANGED mi_faults
     \/ Loses /\ UNCHANGED icard
  /\ mi_pc' = next
  /\ UNCHANGED <<type, caps, believed, hostVars, mi_result, mi_lost>>

\* ACMD41, then CMD1, with no voltage: which kind of card is it?
Probe ==
  /\ mi_pc \in {"acmd41", "cmd1"}
  /\ LET sd == mi_pc = "acmd41" IN
     /\ Cmd(In("idle") /\ (type.kind = "sd") = sd, icard, "voltage", IF sd THEN "cmd1" ELSE "fail")
     /\ believed' = IF mi_pc' = "voltage"
                    THEN [believed EXCEPT !.kind = IF sd THEN "sd" ELSE "mmc"] ELSE believed
  /\ UNCHANGED <<type, caps, hostVars, mi_result>>

\* mmc_select_voltage.
Voltage ==
  /\ mi_pc = "voltage" /\ mi_pc' = IF type.volt33 THEN "idle2" ELSE "fail"
  /\ UNCHANGED <<type, caps, icard, believed, hostVars, mi_result, mi_lost, mi_faults>>

\* ACMD41 or CMD1 until the card is ready: a card of high capacity that has
\* seen no CMD8 never is.
OpCond ==
  /\ mi_pc = "opcond"
  /\ Cmd(In("idle") /\ believed.kind = type.kind /\ (type.kind = "sd" /\ type.highcaps => icard.cmd8),
         Goes("ready"), "cid", "fail")
  /\ believed' = IF mi_pc' = "cid" THEN [believed EXCEPT !.highcaps = type.highcaps] ELSE believed
  /\ UNCHANGED <<type, caps, hostVars, mi_result>>

\* CMD2, CMD3, CMD9 and CMD7.
Identify ==
  /\ \/ mi_pc = "cid"    /\ Cmd(In("ready"), Goes("ident"), "rca", "fail")
     \/ mi_pc = "rca"    /\ Cmd(In("ident"), Goes("stby"), "csd", "fail")
     \/ mi_pc = "csd"    /\ Cmd(In("stby"), icard, "select", "fail")
     \/ mi_pc = "select" /\ Cmd(In("stby"), Goes("tran"),
                                IF believed.kind = "sd" THEN "width" ELSE "extcsd", "fail")
  /\ UNCHANGED <<type, caps, believed, hostVars, mi_result>>

\* mmc_read_ext_csd; older cards have none.
ExtCsd ==
  /\ mi_pc = "extcsd"
  /\ IF ~type.v4
     THEN mi_pc' = "width" /\ UNCHANGED <<icard, believed, hblklen, mi_lost, mi_faults>>
     ELSE /\ \/ Cmd(In("tran"), icard, "timing", "fail")
             \/ Loses /\ UNCHANGED <<icard, mi_pc, mi_lost>>          \* read once more
          /\ hblklen' = 512
          /\ believed' = IF mi_pc' = "timing"
                         THEN [believed EXCEPT !.hs_max = type.hs_max, !.ddr_support = type.ddr]
                         ELSE believed
  /\ UNCHANGED <<type, caps, hwidth, hsclk, mi_result>>

\* The card may refuse a SWITCH (R1_SWITCH_ERROR).
Switch(effect, next) ==
  \/ Cmd(In("tran"), effect, next, "width_done")
  \/ mi_pc' = "width_done" /\ UNCHANGED <<icard, mi_lost, mi_faults>>

Timing ==
  /\ mi_pc = "timing"
  /\ IF believed.hs_max = 0
     THEN mi_pc' = "width" /\ UNCHANGED <<icard, believed, mi_lost, mi_faults>>
     ELSE \E done \in BOOLEAN :
            /\ \/ done /\ Cmd(In("tran"), [icard EXCEPT !.timing = "hs"], "width", "width")
               \/ ~done /\ mi_pc' = "width" /\ UNCHANGED <<icard, mi_lost, mi_faults>>
            /\ believed' = [believed EXCEPT !.hs = done /\ mi_faults' = mi_faults]
  /\ UNCHANGED <<type, caps, hostVars, mi_result>>

\* Faulty variant of WidthFor: what the host is asked for is not limited to the pins.
WidthWanted == IF believed.kind = "sd" THEN 4 ELSE 8

WidthFor == IF believed.kind = "sd" \/ caps.pins = 4 THEN 4 ELSE 8

DdrFor == believed.kind = "mmc" /\ caps.ddr /\ believed.ddr_support

\* Faulty variant of WidthAfter: the host changes although the card has not.
WidthAlways(ok) == WidthFor

WidthAfter(ok) == IF ok THEN WidthFor ELSE hwidth

\* mmc_set_bus_width; mmc_init_mem_card does not look at its result.
BusWidth ==
  /\ mi_pc = "width"
  /\ IF believed.kind = "mmc" /\ ~type.v4
     THEN mi_pc' = "width_done" /\ UNCHANGED <<icard, believed, hwidth, mi_lost, mi_faults>>
     ELSE /\ IF believed.kind = "mmc"
             THEN Switch([icard EXCEPT !.width = WidthFor, !.ddr = DdrFor], "width_ok")
             ELSE Cmd(In("tran"), [icard EXCEPT !.width = WidthFor], "width_ok", "width_done")
          /\ believed' = IF mi_pc' = "width_ok" THEN [believed EXCEPT !.ddr = DdrFor] ELSE believed
          /\ hwidth'   = WidthAfter(mi_pc' = "width_ok")
  /\ UNCHANGED <<type, caps, hblklen, hsclk, mi_result>>

\* Faulty variant of NeedsBlkLen: only SD cards are told the length.
NeedsBlkLenSd == believed.kind = "sd"

NeedsBlkLen == ~(believed.kind = "mmc" /\ believed.ddr)

BlkLen ==
  /\ mi_pc \in {"width_ok", "width_done"}
  /\ IF NeedsBlkLen
     THEN Cmd(In("tran"), icard, "clock", "fail") /\ hblklen' = IF mi_pc' = "clock" THEN 512 ELSE hblklen
     ELSE mi_pc' = "clock" /\ UNCHANGED <<icard, hblklen, mi_lost, mi_faults>>
  /\ UNCHANGED <<type, caps, believed, hwidth, hsclk, mi_result>>

\* Faulty variant of MaxHz: the speed of the card, whatever its timing.
MaxHzOfCard == IF believed.hs_max # 0 THEN believed.hs_max ELSE type.max_dtr

MaxHz == IF believed.hs THEN believed.hs_max ELSE type.max_dtr

Clock ==
  /\ mi_pc = "clock" /\ mi_pc' = "done"
  /\ hsclk' = MaxHz
  /\ mi_result' = "NONE"
  /\ UNCHANGED <<type, caps, icard, believed, hwidth, hblklen, mi_lost, mi_faults>>

InitInit ==
  /\ type \in CardTypes
  /\ caps \in {[pins |-> 8, ddr |-> FALSE], [pins |-> 4, ddr |-> FALSE], [pins |-> 4, ddr |-> TRUE]}
  /\ icard \in {Fresh, [Fresh EXCEPT !.state = "tran", !.width = caps.pins]}   \* the preloader
  /\ believed = Unknown
  /\ hwidth = 1 /\ hblklen = 0 /\ hsclk = 0
  /\ mi_pc = "none" /\ mi_result = "none" /\ mi_lost = FALSE /\ mi_faults = 0

Steps ==
  \/ GoIdle("idle1", "ifcond1") \/ IfCond("ifcond1", "acmd41")
  \/ Probe \/ Voltage
  \/ GoIdle("idle2", IF believed.kind = "sd" THEN "ifcond2" ELSE "opcond")
  \/ IfCond("ifcond2", "opcond")
  \/ OpCond \/ Identify \/ ExtCsd \/ Timing \/ BusWidth \/ BlkLen \/ Clock

InitNext == Start \/ Steps

InitSpec == InitInit /\ [][InitNext]_miVars /\ WF_miVars(Steps)
-----------------------------------------------------------------------------
InitTypeOK ==
  /\ icard.state \in {"idle", "ready", "ident", "stby", "tran"}
  /\ icard.width \in {1, 4, 8} /\ hwidth \in {1, 4, 8} /\ hwidth <= caps.pins
  /\ believed.kind \in {"unknown", type.kind}
  /\ hblklen \in {0, 512}

\* The clock is never faster than the card allows in the timing it is in:
\* not when a switch to high speed was refused, not when its outcome was lost
\* (mmc_core.c:3885-3905), nor in a second initialisation.
ClockWithinMode ==
  hsclk <= IF icard.timing = "hs" THEN type.hs_max ELSE type.max_dtr

\* After an initialisation that succeeded host and card use the same number
\* of data lines and the same data rate, unless the outcome of a switch was
\* lost: mmc_init_mem_card goes on as if it had not worked (line 3896).
BusAgrees ==
  mi_pc = "done" /\ ~mi_lost => hwidth = icard.width /\ believed.ddr = icard.ddr

\* An initialisation that succeeded has set the length of a block, which is
\* set in different places for different cards, and the way blocks are
\* addressed is the card's.
BlockLengthSet ==
  mi_pc = "done" => hblklen = 512 /\ believed.highcaps = type.highcaps /\ In("tran")

\* Host and card agree after the initialisation: on the limit of the clock, on
\* the bus, on the length and the addresses of blocks (mmc_init_mem_card).
InitAgrees == ClockWithinMode /\ BusAgrees /\ BlockLengthSet

\* Another initialisation always succeeds once commands are answered, from
\* whatever state the last one, or a lost CMD0, has left the card in.
RestartRecovers ==
  mi_pc = "idle1" /\ mi_faults = InitFaults /\ type.volt33 ~> mi_result = "NONE"
=============================================================================
