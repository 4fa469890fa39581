-------------------------------- MODULE Wdt ---------------------------------
(***************************************************************************)
(* The watchdog and the two ways to reset through it: mtk_wdt.c, and where *)
(* board_init and reset_cpu use it.  The hardware, the preloader and the   *)
(* time that passes are external.                                          *)
(***************************************************************************)
EXTENDS Integers

CONSTANT MaxSecs            \* bound: the longest time-out, in seconds

VARIABLES
  wd_mode,       \* bits of MTK_WDT_MODE that are set
  wd_length,     \* MTK_WDT_LENGTH, in seconds
  wd_count,      \* seconds until the watchdog bites
  wd_interval,   \* MTK_WDT_INTERVAL: the stage, and whether power came on
  is_rgu_trigger_rst,
  wd_pc,         \* preloader, start, prompt; reset: an endless loop after a request
  wd_asked,      \* a reset was asked for
  wd_barked,     \* the watchdog has raised its interrupt
  wd_last        \* what the last reset came from: power, asked or stray

wdtVars == <<wd_mode, wd_length, wd_count, wd_interval, is_rgu_trigger_rst,
             wd_pc, wd_asked, wd_barked, wd_last>>
-----------------------------------------------------------------------------
(* The functions, as operators on the mode.                                *)

\* Faulty variant of Disabled: without the key the register keeps its value.
DisabledNoKey(m) == m

Disabled(m) == m \ {"ENABLE"}                             \* mtk_wdt_disable

\* mtk_wdt_mode_config: each of the five bits is set or cleared.
ModeConfig(set) ==
  (wd_mode \ {"ENABLE", "EXT_POL", "EXTEN", "IRQ", "DUAL_MODE"}) \cup set \cup {"AUTO_RESTART"}

\* Faulty variant of ResetMode: the interrupt stays chosen.
ResetModeIrq(bypass) == (wd_mode \ {"ENABLE"}) \cup {"EXTEN", "AUTO_RESTART"}

\* The mode mtk_wdt_reset chooses: never an interrupt.
ResetMode(bypass) ==
  (wd_mode \ {"AUTO_RESTART", "IRQ", "ENABLE", "DUAL_MODE"}) \cup {"EXTEN"}
     \cup (IF bypass THEN {"AUTO_RESTART"} ELSE {})

\* mtk_wdt_set_time_out_value: 11 bits of 64 to a second.
TimeOut(secs) == ((secs * 64) % 2048) \div 64
-----------------------------------------------------------------------------
\* The preloader runs with the watchdog on.
WdtInit ==
  /\ wd_mode \in {{"ENABLE"} \cup s : s \in SUBSET {"EXT_POL", "EXTEN", "IRQ", "DUAL_MODE"}}
  /\ wd_length = MaxSecs /\ wd_count = MaxSecs
  /\ wd_interval = [stage |-> "power", on |-> TRUE]
  /\ is_rgu_trigger_rst = FALSE /\ wd_pc = "preloader"
  /\ wd_asked = FALSE /\ wd_barked = FALSE /\ wd_last = "power"

\* The preloader notes in the interval register why it runs.
Preloader ==
  /\ wd_pc = "preloader" /\ wd_pc' = "start"
  /\ wd_interval' = [stage |-> "preloader", on |-> wd_last = "power"]
  /\ wd_count' = wd_length
  /\ UNCHANGED <<wd_mode, wd_length, is_rgu_trigger_rst, wd_asked, wd_barked, wd_last>>

\* board_init, with CONFIG_WATCHDOG_OFF.
board_init ==
  /\ wd_pc = "start" /\ wd_pc' = "prompt"
  /\ wd_mode' = Disabled(wd_mode)
  /\ UNCHANGED <<wd_length, wd_count, wd_interval, is_rgu_trigger_rst, wd_asked, wd_barked, wd_last>>

\* Faulty variant of TriggeredByRgu: the mask is turned round.
TriggeredByRguNot == wd_interval.on

TriggeredByRgu == ~wd_interval.on

\* mtk_wdt_init, for a board that wants the watchdog; none calls it.
mtk_wdt_init ==
  /\ wd_pc = "prompt" /\ wd_interval.stage = "preloader"
  /\ is_rgu_trigger_rst' = TriggeredByRgu
  /\ wd_interval' = [stage |-> "uboot", on |-> TRUE]
  /\ wd_mode' = ModeConfig({"ENABLE", "EXTEN", "IRQ", "DUAL_MODE"})
  /\ wd_length' = TimeOut(MaxSecs) /\ wd_count' = TimeOut(MaxSecs)
  /\ UNCHANGED <<wd_pc, wd_asked, wd_barked, wd_last>>

\* reset_cpu: one second, then an endless loop.
mtk_wdt_hw_reset ==
  /\ wd_pc = "prompt" /\ wd_pc' = "reset" /\ wd_asked' = TRUE
  /\ wd_length' = TimeOut(1) /\ wd_count' = TimeOut(1)
  /\ wd_mode' = ModeConfig({"ENABLE", "DUAL_MODE"})
  /\ UNCHANGED <<wd_interval, is_rgu_trigger_rst, wd_barked, wd_last>>

WdtReset(why) ==
  /\ wd_pc' = "preloader" /\ wd_last' = why /\ wd_asked' = FALSE /\ wd_barked' = FALSE
  /\ is_rgu_trigger_rst' = FALSE
  /\ wd_mode' = {"ENABLE"} /\ wd_length' = MaxSecs /\ wd_count' = MaxSecs
  /\ UNCHANGED wd_interval

\* mtk_wdt_sw_reset, mtk_arch_reset: the key to SWRST resets at once, unless
\* the mode says interrupt; then the loop never ends.
mtk_wdt_reset ==
  /\ wd_pc = "prompt"
  /\ \E bypass \in BOOLEAN :
       IF "IRQ" \in ResetMode(bypass)
       THEN /\ wd_pc' = "reset" /\ wd_asked' = TRUE /\ wd_mode' = ResetMode(bypass)
            /\ UNCHANGED <<wd_length, wd_count, wd_interval, is_rgu_trigger_rst, wd_barked, wd_last>>
       ELSE WdtReset("asked")

\* A second passes.  Nobody restarts the watchdog.
Tick ==
  /\ "ENABLE" \in wd_mode /\ wd_count > 0
  /\ wd_count' = wd_count - 1
  /\ UNCHANGED <<wd_mode, wd_length, wd_interval, is_rgu_trigger_rst, wd_pc, wd_asked, wd_barked, wd_last>>

\* In the mode with interrupt nobody serves it; in dual mode the reset
\* follows after another time-out.
Bite ==
  /\ "ENABLE" \in wd_mode /\ wd_count = 0
  /\ IF "IRQ" \in wd_mode /\ ~wd_barked
     THEN /\ wd_barked' = TRUE /\ wd_count' = IF "DUAL_MODE" \in wd_mode THEN wd_length ELSE 0
          /\ UNCHANGED <<wd_mode, wd_length, wd_interval, is_rgu_trigger_rst, wd_pc, wd_asked, wd_last>>
     ELSE /\ "IRQ" \in wd_mode => "DUAL_MODE" \in wd_mode
          /\ WdtReset(IF wd_asked THEN "asked"
                   ELSE IF wd_interval.stage = "uboot" THEN "timeout" ELSE "stray")

\* Power comes back.
Repower ==
  /\ wd_pc' = "preloader" /\ wd_last' = "power" /\ wd_asked' = FALSE /\ wd_barked' = FALSE
  /\ wd_interval' = [stage |-> "power", on |-> TRUE]
  /\ wd_mode' = {"ENABLE"} /\ wd_length' = MaxSecs /\ wd_count' = MaxSecs
  /\ is_rgu_trigger_rst' = FALSE

WdtWork == Tick \/ Bite
WdtNext ==
  Preloader \/ board_init \/ mtk_wdt_init \/ mtk_wdt_hw_reset \/ mtk_wdt_reset \/ WdtWork \/ Repower

WdtSpec == WdtInit /\ [][WdtNext]_wdtVars /\ WF_wdtVars(WdtWork)
-----------------------------------------------------------------------------
\* After board_init the watchdog does not bite by itself: at the prompt of a
\* board that never called mtk_wdt_init it is off, for as long as it takes.
NoStrayReset ==
  [][wd_pc = "prompt" /\ wd_interval.stage = "preloader" /\ wd_pc' = "preloader"
       => wd_last' # "stray"]_wdtVars

\* What mtk_is_rgu_trigger_reset will say is why the board was reset.
ReasonRight ==
  wd_pc = "prompt" /\ wd_interval.stage = "uboot" => (is_rgu_trigger_rst <=> wd_last # "power")
=============================================================================
