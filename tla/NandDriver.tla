----------------------------- MODULE NandDriver -----------------------------
(***************************************************************************)
(* The page operations of mtk_nand.c: the NAND controller is set up for a  *)
(* page, the page goes through ECC engine and randomizer, a page the ECC   *)
(* cannot correct is read again, on multi-level chips with other read      *)
(* voltages, and the chip may have a second die behind another chip        *)
(* select.  Addresses are those after the bad-block table.                 *)
(***************************************************************************)
EXTENDS Integers

CONSTANTS
  NumPages,          \* of the chip, all dies
  PagesPerBlock,
  Data,              \* what a page can be programmed with
  Blank, Spoiled, Marked,
  RetryCnt,          \* readRetryCnt of nand_device_list.h, 16 there
  Beyond,            \* the pages of and behind the last partition
  Families,          \* of rtyFuncArray
  use_randomizer     \* an eFuse says so

\* A chip has an even number of pages, and each half is a number of blocks.
ASSUME ChipGeometry ==
  /\ NumPages \in Nat \ {0} /\ PagesPerBlock \in Nat \ {0} /\ RetryCnt \in Nat
  /\ NumPages = 2 * (NumPages \div 2) /\ (NumPages \div 2) % PagesPerBlock = 0

VARIABLES
  chip,        \* dies (g_bTricky_CS), MLC_DEVICE, rtype
  cell,        \* the contents of each page of each die
  voltage,     \* the read voltages of each die; 0 are the ones to program for
  csel,        \* NFI_CSEL
  randomizer,  \* NFI_RANDOM_CNFG
  bBCHRetry,
  pc, call,    \* the read in progress and its locals
  failed,      \* whether ecc_stats.failed grew in this call
  asked,       \* the request that is served, or was served last
  reply,       \* what the caller of the last operation learns
  timed_out    \* a wait for the controller has ended without an answer

ctl  == <<csel, randomizer>>
vars == <<chip, cell, voltage, ctl, bBCHRetry, pc, call, failed, asked, reply, timed_out>>

AllPages == 0 .. NumPages - 1
DiePages == NumPages \div chip.dies        \* g_nanddie_pages
Request(op, p, d) == asked' = [op |-> op, page |-> p, data |-> d]

FirstPage(p) == p - (p % PagesPerBlock)

\* Faulty variant of Select: die 0 is not selected again.
SelectOnce(p) == IF chip.dies = 2 /\ p >= DiePages
                 THEN [cs |-> 1, row |-> p - DiePages] ELSE [cs |-> csel, row |-> p]

\* mtk_nand_cs_on, for the chips that need it.
Select(p) == IF chip.dies = 2 /\ p >= DiePages THEN [cs |-> 1, row |-> p - DiePages]
             ELSE [cs |-> IF chip.dies = 2 THEN 0 ELSE csel, row |-> p]

\* mtk_nand_page_transform gives up the read retry, for good, on the first
\* access behind the partitions of a multi-level chip.
Transform(p) == bBCHRetry' = (bBCHRetry /\ ~(chip.mlc /\ p \in Beyond))

\* The feature value of retry n.
Feature(n) == IF chip.rtype = "TOSHIBA" THEN n ELSE n + 1

\* Faulty variant of DefaultFeature: the other families' value for Toshiba.
DefaultZero == 0

\* readRetryDefault, which ends the retries.
DefaultFeature == IF chip.rtype = "TOSHIBA" THEN 7 ELSE 0

\* The voltages a family's function leaves the die with: Toshiba's seventh
\* setting resets the chip, the others load the setting they are given.
Voltages(f) == IF chip.rtype = "TOSHIBA" THEN (IF f = 7 THEN 0 ELSE f + 1) ELSE f

\* mtk_nand_rrtry_func: its result is not looked at, and it may have failed.
SetVoltages(f) ==
  \/ voltage' = [voltage EXCEPT ![csel] = Voltages(f)] /\ UNCHANGED timed_out
  \/ UNCHANGED voltage /\ timed_out' = TRUE

\* Bound: after a wait that ran out no further operation is followed.
Idle == pc = "idle" /\ ~timed_out

KeepVoltages == UNCHANGED <<voltage, timed_out>>
-----------------------------------------------------------------------------
(* Reading: mtk_nand_exec_read_page and, for one sector,                   *)
(* mtk_nand_exec_read_sector.                                              *)

NoCall == [page |-> 0, row |-> 0, unit |-> "page", n |-> 0, ret |-> "SUCCESS",
           retry |-> FALSE, buf |-> "old"]

\* What ECC engine and empty detection can say of a page.
Verdicts(c, v) ==
  CASE c = Blank   -> {"empty", "fail"}
    [] c \in Data  -> IF v = 0 THEN {"ok", "fail"} ELSE {"ok", "fail", "empty"}
    [] OTHER       -> {"ok", "fail", "empty"}

Read(p, unit) ==
  /\ Idle /\ Request("read", p, Blank)
  /\ Transform(p)
  /\ csel' = Select(p).cs
  /\ call' = [page |-> p, row |-> Select(p).row, unit |-> unit, n |-> 0,
              ret |-> "SUCCESS", retry |-> FALSE, buf |-> "old"]
  /\ failed' = FALSE
  /\ pc' = "arm"
  /\ UNCHANGED <<chip, cell, voltage, randomizer, reply, timed_out>>

\* Faulty variant of TurnedOff: turned off after the first attempt only.
OffAtFirst == IF use_randomizer /\ call.n = 0 THEN "off" ELSE randomizer

\* mtk_nand_turn_off_randomizer, at the end of an attempt.
TurnedOff == IF use_randomizer THEN "off" ELSE randomizer

\* mtk_nand_ready_for_read.  If it fails the attempt ends as it began.
Arm ==
  /\ pc = "arm"
  /\ \/ /\ randomizer' = IF use_randomizer THEN "decode" ELSE randomizer
        /\ pc' = "check" /\ UNCHANGED timed_out
     \/ /\ randomizer' = TurnedOff
        /\ pc' = "decide" /\ timed_out' = TRUE
  /\ UNCHANGED <<asked, chip, cell, voltage, csel, bBCHRetry, call, failed, reply>>

\* Faulty variant of EmptyPage: at any voltage an empty page is believed.
EmptyAlways == [call EXCEPT !.buf = Blank, !.retry = FALSE, !.ret = "SUCCESS"]

\* STA_READ_EMPTY: true of an erased page, but at other voltages a
\* programmed page can look like one.
EmptyPage == IF call.n # 0 THEN [call EXCEPT !.ret = "BCH_FAIL"]
             ELSE [call EXCEPT !.buf = Blank, !.retry = FALSE, !.ret = "SUCCESS"]

\* The transfer, mtk_nand_check_bch_error and mtk_nand_stop_read.  A decoder
\* that does not end in time fails the page without counting it (line 1777).
Check ==
  /\ pc = "check"
  /\ \E verdict \in Verdicts(cell[csel][call.row], voltage[csel]), late \in BOOLEAN :
       LET c == [call EXCEPT !.ret = IF late THEN "FAIL" ELSE call.ret] IN
       /\ \/ /\ verdict = "ok"
             /\ call' = [c EXCEPT !.buf = IF late THEN "old" ELSE cell[csel][call.row]]
             /\ UNCHANGED failed /\ timed_out' = (timed_out \/ late)
          \/ /\ verdict = "empty"
             /\ call' = EmptyPage /\ failed' = (failed \/ EmptyPage.ret = "BCH_FAIL")
             /\ timed_out' = (timed_out \/ late)
          \/ /\ verdict = "fail"
             /\ call' = [c EXCEPT !.ret = "BCH_FAIL", !.retry = TRUE, !.buf = "raw"]
             /\ \/ failed' = TRUE /\ timed_out' = (timed_out \/ late)
                \/ UNCHANGED failed /\ timed_out' = TRUE
       /\ IF verdict = "fail" /\ ~bBCHRetry
          THEN pc' = "end" /\ UNCHANGED randomizer
          ELSE pc' = "decide" /\ randomizer' = TurnedOff
  /\ UNCHANGED <<asked, chip, cell, voltage, csel, bBCHRetry, reply>>

\* Faulty variant of MayRetry: one retry too many.
OnceMore == call.ret = "BCH_FAIL" /\ call.n <= RetryCnt

MayRetry == call.ret = "BCH_FAIL" /\ call.n < RetryCnt

\* Faulty variant of Retried: the retries are not counted.
Uncounted == [call EXCEPT !.ret = IF call.retry THEN "SUCCESS" ELSE @]

Retried == [call EXCEPT !.n = @ + 1, !.ret = IF call.retry THEN "SUCCESS" ELSE @]

\* Faulty variant of BackupFailed: what a retry makes good stays counted.
StillFailed == failed

\* ecc_stats.failed is put back before a retry.
BackupFailed == FALSE

\* Read again after an uncorrectable page, with the next setting.
Again ==
  /\ pc = "decide" /\ MayRetry
  /\ IF chip.mlc THEN SetVoltages(Feature(call.n)) ELSE KeepVoltages
  /\ failed' = BackupFailed
  /\ call' = Retried
  /\ pc' = IF call.retry THEN "arm" ELSE "end"
  /\ UNCHANGED <<asked, chip, cell, ctl, bBCHRetry, reply>>

MustRestore == chip.mlc /\ (call.n # 0 \/ call.ret = "BCH_FAIL")

Settle ==
  /\ pc = "decide" /\ ~MayRetry
  /\ IF MustRestore THEN SetVoltages(DefaultFeature) ELSE KeepVoltages
  /\ call' = [call EXCEPT !.retry = FALSE]
  /\ pc' = "end"
  /\ UNCHANGED <<asked, chip, cell, ctl, bBCHRetry, failed, reply>>

\* After any retry the voltages are put back, whatever came of the page
\* (lines 4017-4035).  The page is blanked out on an error, the sector is
\* not.  The callers return 0 in either case: only ecc_stats.failed tells.
Finish ==
  /\ pc = "end"
  /\ IF call.n # 0 /\ chip.mlc THEN SetVoltages(DefaultFeature) ELSE KeepVoltages
  /\ reply' = CASE failed -> "error"
                [] ~failed /\ call.ret # "SUCCESS" /\ call.unit = "page" -> Blank
                [] OTHER -> call.buf
  /\ pc' = "idle" /\ call' = NoCall /\ failed' = FALSE
  /\ UNCHANGED <<asked, chip, cell, ctl, bBCHRetry>>
-----------------------------------------------------------------------------
(* Programming, erasing, marking.  All end with the status of the chip,    *)
(* for which the randomizer is turned off (NAND_CMD_STATUS).               *)

Programmed(c, d) == IF c = Blank THEN d ELSE Spoiled

\* mtk_nand_exec_write_page.  The status is all it looks at: a controller
\* that did not get ready or did not fetch the data goes unnoticed.
Write(p, d) ==
  /\ Idle /\ Request("program", p, d)
  /\ Transform(p)
  /\ csel' = Select(p).cs
  /\ LET at == Select(p) IN
     \/ /\ cell' = [cell EXCEPT ![at.cs][at.row] = Programmed(@, d)]
        /\ reply' = "done" /\ UNCHANGED timed_out
     \/ /\ cell' = [cell EXCEPT ![at.cs][at.row] = Spoiled]
        /\ reply' = "fail" /\ UNCHANGED timed_out
     \/ /\ \/ UNCHANGED cell
           \/ cell' = [cell EXCEPT ![at.cs][at.row] = Spoiled]
        /\ reply' = "done" /\ timed_out' = TRUE
  /\ randomizer' = "off"
  /\ UNCHANGED <<chip, voltage, pc, call, failed>>

BlockCells(at, c) ==
  [cell EXCEPT ![at.cs] = [r \in DOMAIN @ |->
      IF FirstPage(r) = FirstPage(at.row) THEN c ELSE @[r]]]

\* mtk_nand_erase_hw: NAND_CMD_ERASE1 and ERASE2 look at no result either.
Erase(p) ==
  /\ Idle /\ Request("erase", p, Blank)
  /\ Transform(p)
  /\ csel' = Select(p).cs
  /\ \/ /\ cell' = BlockCells(Select(p), Blank)
        /\ reply' = "done" /\ UNCHANGED timed_out
     \/ /\ cell' = BlockCells(Select(p), Spoiled)
        /\ reply' = "fail" /\ UNCHANGED timed_out
     \/ UNCHANGED cell /\ reply' = "done" /\ timed_out' = TRUE
  /\ randomizer' = "off"
  /\ UNCHANGED <<chip, voltage, pc, call, failed>>

\* mtk_nand_block_markbad_hw writes the spare area raw.  It selects no die,
\* and a die takes the row address without the bits it does not have.
MarkBad(p) ==
  /\ Idle /\ Request("mark", p, Blank)
  /\ LET r == FirstPage(p) % DiePages IN
     \/ /\ cell' = [cell EXCEPT ![csel][r] = Marked]
        /\ reply' = "done" /\ UNCHANGED timed_out
     \/ /\ cell' = [cell EXCEPT ![csel][r] = Spoiled]
        /\ reply' = "fail" /\ UNCHANGED timed_out
     \/ UNCHANGED cell /\ reply' = "fail" /\ timed_out' = TRUE
  /\ randomizer' = "off"
  /\ UNCHANGED <<chip, voltage, csel, bBCHRetry, pc, call, failed>>
-----------------------------------------------------------------------------
\* After board_nand_init.  No row of gen_FlashTable makes MLC_DEVICE true
\* (lines 6728-6731): mlc stands for the rows the code supports and the
\* table does not have yet.
Init ==
  /\ chip \in [dies : {1, 2}, mlc : BOOLEAN, rtype : Families]
  /\ ~chip.mlc => chip.rtype = "MICRON"
  /\ cell = [d \in {0, 1} |-> [r \in AllPages |-> Blank]]
  /\ voltage = [d \in {0, 1} |-> 0]
  /\ csel = 0 /\ randomizer = "off"
  /\ bBCHRetry = TRUE
  /\ pc = "idle" /\ call = NoCall /\ failed = FALSE
  /\ asked = [op |-> "none", page |-> 0, data |-> Blank]
  /\ reply = "none" /\ timed_out = FALSE

Reading == Arm \/ Check \/ Again \/ Settle \/ Finish

Next ==
  \/ Reading
  \/ \E p \in AllPages, unit \in {"page", "sector"} : Read(p, unit)
  \/ \E p \in AllPages, d \in Data : Write(p, d)
  \/ \E p \in AllPages : Erase(p) \/ MarkBad(p)

Spec == Init /\ [][Next]_vars

\* The code runs on, and every wait in it is bounded.
FairSpec == Spec /\ WF_vars(Reading)
-----------------------------------------------------------------------------
TypeOK ==
  /\ cell \in [{0, 1} -> [AllPages -> Data \cup {Blank, Spoiled, Marked}]]
  /\ voltage \in [{0, 1} -> 0 .. RetryCnt]
  /\ csel \in {0, 1} /\ (chip.dies = 1 => csel = 0)
  /\ randomizer \in {"off", "decode"}
  /\ pc \in {"idle", "arm", "check", "decide", "end"}
  /\ call.n \in 0 .. RetryCnt

\* Whatever a read went through - retries, a late transfer, an empty page -
\* it leaves what it changed to get at the page as the next access, of any
\* page, needs it: the randomizer off, for a block's mark is read raw, and
\* the die at the voltages its pages are programmed for (mtk_nand.c:3940,
\* 3999-4035).  Excepted are a wait that ran out and, for the randomizer, the
\* read that leaves the loop where retries were given up (line 3916).
SettingsRestored ==
  pc = "idle" =>
    /\ bBCHRetry => randomizer = "off"
    /\ ~timed_out => \A d \in {0, 1} : voltage[d] = 0

\* mtk_nand_read_page returns 0 after an uncorrectable page; the statistics
\* are the only report.  The retries put the counter back (lines 3977-3978),
\* so it must be raised again by the last of them, and must not be left
\* raised by a read that succeeded in the end.
StatisticsTellFailure ==
  pc = "end" /\ ~timed_out => (failed <=> call.ret # "SUCCESS")

PD == INSTANCE PageDevice WITH
        two_dies <- chip.dies = 2,
        pages    <- [p \in AllPages |-> cell[p \div DiePages][p % DiePages]],
        trusted  <- ~timed_out

\* The bad-block table is written for a device that reads back what was
\* programmed or reports an error; the driver is one, through retries, two
\* dies and unreadable pages.
PageSpec == PD!DevSpec

\* Every read comes to an end: the retries are counted (mtk_nand.c:3975).
ReadReturns == pc = "arm" ~> pc = "idle"
=============================================================================
