---------------------------- MODULE MsdcCommand -----------------------------
(***************************************************************************)
(* One command on the way from mmc_core.c to the card and back: the        *)
(* retries of mmc_cmd and mmc_app_cmd, the prefix CMD55 of an application  *)
(* command, and msdc.c's search for other sampling settings when the       *)
(* response had a bad CRC.                                                 *)
(***************************************************************************)
EXTENDS Integers

CONSTANTS
  Delays,        \* settings of MSDC_PAD_TUNE_CMDRDLY, 32 in the hardware
  CmdRetries,    \* retries of a command, 5 in mmc_core.c
  AppRetries,    \* retries of mmc_app_cmd
  Faults         \* bound: how often the command line stays busy while tuning

ASSUME CommandBounds == Delays \in Nat \ {0} /\ CmdRetries \in Nat /\ AppRetries \in Nat /\ Faults \in Nat

VARIABLES
  cmd,           \* the command: application command, with data, CMD12; at a slow clock
  cm_pc, flight, \* flight: "app" is the CMD55 before the command, "main" the command
  inner, outer,  \* retries left in mmc_cmd and in mmc_app_cmd
  tune,          \* the loops of msdc_tune_cmdrsp
  edge, delay,   \* MSDC_IOCON_RSPL, MSDC_PAD_TUNE_CMDRDLY
  tried,         \* the settings of this tuning
  app_cmd,       \* host->app_cmd
  card_app,      \* the card takes the next command for an application command
  executed,      \* what the card took the command for
  cm_err, cm_faults

cmVars == <<cmd, cm_pc, flight, inner, outer, tune, edge, delay, tried, app_cmd,
            card_app, executed, cm_err, cm_faults>>

Settings == {0, 1} \X (0 .. Delays - 1)
NoTune   == [rsmpl |-> 0, rrdly |-> 0, edge |-> 0, delay |-> 0]

\* The card receives what is on the way.
Received ==
  IF flight = "app" THEN card_app' = TRUE /\ UNCHANGED executed
  ELSE /\ executed' = executed \cup {IF card_app THEN "app" ELSE "plain"}
       /\ card_app' = FALSE

Lost == UNCHANGED <<card_app, executed>>

Fault == cm_faults < Faults /\ cm_faults' = cm_faults + 1

\* Faulty variant of AfterApp: the result of CMD55 is not looked at.
AfterAppAlways(err) == TRUE

\* mmc_app_cmd goes on to the command itself.
AfterApp(err) == err = "NONE"

\* msdc_cmd returns to the loops of mmc_cmd and mmc_app_cmd.
Return(err) ==
  LET fails == err # "NONE" IN
  \/ /\ fails /\ inner > 0
     /\ inner' = inner - 1 /\ cm_pc' = "send"
     /\ UNCHANGED <<flight, outer, cm_err>>
  \/ /\ ~(fails /\ inner > 0) /\ flight = "app" /\ AfterApp(err)
     /\ flight' = "main" /\ inner' = CmdRetries /\ cm_pc' = "send"
     /\ UNCHANGED <<outer, cm_err>>
  \/ /\ fails /\ inner = 0 /\ cmd.app /\ (flight = "app" => ~AfterApp(err)) /\ outer > 0
     /\ outer' = outer - 1 /\ flight' = "app" /\ inner' = CmdRetries /\ cm_pc' = "send"
     /\ UNCHANGED cm_err
  \/ /\ fails => inner = 0 /\ (cmd.app => outer = 0)
     /\ flight = "app" => ~AfterApp(err)
     /\ cm_err' = err /\ cm_pc' = "idle"
     /\ UNCHANGED <<flight, inner, outer>>

\* msdc_abort_handler, for a command with data: the status it asks for may
\* find other settings in a tuning of its own.
Abort == IF cmd.data THEN delay' \in 0 .. Delays - 1 ELSE UNCHANGED delay

Call(c, retries) ==
  /\ cm_pc = "idle"
  /\ cmd' = c /\ cm_pc' = "send"
  /\ flight' = IF c.app THEN "app" ELSE "main"
  /\ inner' = CmdRetries /\ outer' = retries
  /\ tried' = {} /\ executed' = {} /\ cm_err' = "none"
  /\ UNCHANGED <<tune, edge, delay, app_cmd, card_app, cm_faults>>

\* msdc_config_clock, in every switch to another speed: the edge is the one of
\* host->cust again, whatever the tuning had found; the delay stays.
ChangeClock ==
  /\ cm_pc = "idle" /\ edge' = 0
  /\ cm_err' = "none" /\ tried' = {}
  /\ UNCHANGED <<cmd, cm_pc, flight, inner, outer, tune, delay, app_cmd, card_app,
                 executed, cm_faults>>

\* msdc_send_cmd and msdc_wait_rsp.
Send ==
  /\ cm_pc = "send"
  /\ \/ /\ Received /\ app_cmd' = (flight = "app")
        /\ Return("NONE") /\ UNCHANGED <<tune, tried, delay, cm_faults>>
     \/ /\ Lost                                \* the bus stays busy
        /\ Return("TIMEOUT") /\ UNCHANGED <<app_cmd, tune, tried, delay, cm_faults>>
     \/ /\ Lost \/ Received                    \* no response
        /\ app_cmd' = FALSE
        /\ Return("TIMEOUT") /\ UNCHANGED <<tune, tried, delay, cm_faults>>
     \/ /\ Received                            \* a response with a bad CRC
        /\ app_cmd' = FALSE /\ Abort /\ UNCHANGED cm_faults
        /\ IF cmd.stop THEN Return("NONE") /\ UNCHANGED <<tune, tried>>
           ELSE /\ cm_pc' = "tune" /\ tried' = {}
                /\ tune' = [rsmpl |-> 0, rrdly |-> 0, edge |-> edge, delay |-> delay']
                /\ UNCHANGED <<flight, inner, outer, cm_err>>
  /\ UNCHANGED <<cmd, edge>>

Try == <<IF cmd.slow THEN 0 ELSE (tune.edge + tune.rsmpl) % 2, delay>>

\* Faulty variant of NextSetting: the other edge is tried with the last delay only.
NextSettingSkip == [tune EXCEPT !.rsmpl = IF tune.rrdly + 1 < Delays THEN 0 ELSE 1 - @,
                                !.rrdly = IF @ + 1 < Delays \/ tune.rsmpl = 1 THEN @ + 1 ELSE @]

\* Faulty variant of NextSetting: the delays are not counted.
NextSettingWrap == [tune EXCEPT !.rsmpl = 1 - @]

NextSetting == IF tune.rsmpl = 0 THEN [tune EXCEPT !.rsmpl = 1]
               ELSE [tune EXCEPT !.rsmpl = 0, !.rrdly = @ + 1]

\* Faulty variant of DelayAfter: the delay moves on although the response was good.
DelayEager(good) == (tune.delay + tune.rrdly + 1) % Delays

DelayAfter(good) == IF good \/ tune.rsmpl = 0 THEN delay
                    ELSE (tune.delay + tune.rrdly + 1) % Delays

\* Faulty variant of SearchOver: one delay too many.
SearchLong(t) == t.rrdly > Delays

SearchOver(t) == t.rrdly = Delays

\* One round of the loops of msdc_tune_cmdrsp.  CMD55 would be sent again if
\* app_cmd were set, but msdc_wait_rsp has cleared it on the way here.
Tune ==
  /\ cm_pc = "tune"
  /\ edge' = Try[1] /\ tried' = tried \cup {Try}
  /\ \/ /\ ~app_cmd /\ Received /\ app_cmd' = (flight = "app")
        /\ delay' = DelayAfter(TRUE)
        /\ Return("NONE") /\ UNCHANGED <<tune, cm_faults>>
     \/ /\ ~app_cmd /\ Fault /\ Lost            \* busy: the same setting again
        /\ UNCHANGED <<flight, inner, outer, tune, delay, app_cmd, cm_pc, cm_err>>
     \/ /\ ~app_cmd /\ (Lost \/ Received)
        /\ app_cmd' = FALSE /\ UNCHANGED cm_faults
        /\ tune' = NextSetting
        /\ IF cmd.data THEN Abort ELSE delay' = DelayAfter(FALSE)
        /\ IF SearchOver(tune') THEN Return("CMDTUNEFAIL")
           ELSE UNCHANGED <<flight, inner, outer, cm_pc, cm_err>>
  /\ UNCHANGED cmd

Commands == [app : BOOLEAN, data : BOOLEAN, stop : BOOLEAN, slow : BOOLEAN]

CommandInit ==
  /\ cmd = [app |-> FALSE, data |-> FALSE, stop |-> FALSE, slow |-> TRUE]
  /\ cm_pc = "idle" /\ flight = "main" /\ inner = 0 /\ outer = 0
  /\ tune = NoTune /\ edge = 0 /\ delay = 0 /\ tried = {}
  /\ app_cmd = FALSE /\ card_app = FALSE /\ executed = {}
  /\ cm_err = "none" /\ cm_faults = 0

Running == Send \/ Tune

CommandNext ==
  \/ Running
  \/ ChangeClock
  \/ \E c \in Commands, retries \in {0, AppRetries} :
       /\ c.app => ~c.stop /\ ~c.data     \* ACMD6, 41, 42
       /\ c.stop => ~c.data
       /\ Call(c, retries)

CommandSpec == CommandInit /\ [][CommandNext]_cmVars /\ WF_cmVars(Running)
-----------------------------------------------------------------------------
CommandTypeOK ==
  /\ cm_pc \in {"idle", "send", "tune"} /\ flight \in {"app", "main"}
  /\ inner \in 0 .. CmdRetries /\ outer \in 0 .. AppRetries
  /\ tune.rsmpl \in {0, 1} /\ tune.rrdly \in 0 .. Delays
  /\ <<edge, delay>> \in Settings /\ tried \subseteq Settings
  /\ executed \subseteq {"app", "plain"}

\* What mmc_core.c is told has been done, the card has done, and as the
\* application command if it was one: CMD55 must have been accepted before,
\* through every mix of retries and tuning (mmc_core.c:593-600).
DoneWasExecuted ==
  cm_pc = "idle" /\ cm_err = "NONE" =>
    executed # {} /\ (cmd.app => "app" \in executed)

\* The search gives up only after it has tried both edges with every delay
\* (msdc.c:3621-3695); at a slow clock the rising edge is enough.
GivesUpLast ==
  cm_pc = "idle" /\ cm_err = "CMDTUNEFAIL" /\ ~cmd.data =>
    tried = IF cmd.slow THEN {0} \X (0 .. Delays - 1) ELSE Settings

\* What the layer above is told is so: DoneWasExecuted of a success,
\* GivesUpLast of the failure of the search.
CommandTruth == DoneWasExecuted /\ GivesUpLast

\* A search that ends well leaves the settings with which the response was
\* good: the next command, and the data, use them.
KeepsWhatWorks ==
  [][cm_pc = "tune" /\ cm_err' = "NONE" => <<edge', delay'>> \in tried']_cmVars

\* A command is under way.
InCommand == cm_pc # "idle"
=============================================================================
