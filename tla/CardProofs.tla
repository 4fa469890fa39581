----------------------------- MODULE CardProofs -----------------------------
(***************************************************************************)
(* The three layers of the card driver keep their promises for any number  *)
(* of sampling delays, retries and faults, any card and any division of a  *)
(* request into transfers (modules MsdcCommand, MmcInit and MmcBlock).     *)
(***************************************************************************)
EXTENDS MsdcCommand, MmcInit, MmcBlock, DivisionLemmas

-----------------------------------------------------------------------------
(* MsdcCommand.                                                            *)

Tunes == [rsmpl : {0, 1}, rrdly : 0 .. Delays, edge : {0, 1}, delay : 0 .. Delays - 1]

CommandTypes ==
  /\ CommandTypeOK
  /\ cmd \in Commands /\ tune \in Tunes
  /\ app_cmd \in BOOLEAN /\ card_app \in BOOLEAN
  /\ cm_pc = "tune" => tune.rrdly < Delays
  /\ cm_pc # "idle" => cm_err = "none"

\* The prefix of an application command is with the card, or the command was.
Prefixed ==
  cm_pc # "idle" /\ flight = "main" /\ cmd.app => card_app \/ "app" \in executed

\* The edge of the rounds of a search in which rsmpl is r.
Edge(r) == IF cmd.slow THEN 0 ELSE (tune.edge + r) % 2

\* A search has tried both edges with the delays before the present one, and
\* the first edge with the present one when it is at the second.
SearchedSoFar ==
  /\ delay = (tune.delay + tune.rrdly) % Delays
  /\ \A j \in 0 .. tune.rrdly - 1, r \in {0, 1} : <<Edge(r), (tune.delay + j) % Delays>> \in tried
  /\ tune.rsmpl = 1 => <<Edge(0), delay>> \in tried
  /\ cmd.slow => tried \subseteq {0} \X (0 .. Delays - 1)

Searched == cm_pc = "tune" /\ ~cmd.data => SearchedSoFar

CommandInv == CommandTypes /\ Prefixed /\ Searched /\ CommandTruth

LEMMA CommandBegins == CommandInit => CommandInv
<1> SUFFICES ASSUME CommandInit
             PROVE  CommandInv
  OBVIOUS
<1>1. 0 \in 0 .. Delays - 1 /\ 0 \in 0 .. Delays
  BY CommandBounds
<1>2. tune \in Tunes /\ <<edge, delay>> \in Settings /\ cmd \in Commands
  BY <1>1 DEF CommandInit, Commands, Tunes, NoTune, Settings
<1>3. app_cmd \in BOOLEAN /\ card_app \in BOOLEAN
  BY DEF CommandInit
<1>4. CommandTypeOK
  BY <1>1, <1>2, CommandBounds DEF CommandInit, CommandTypeOK, NoTune
<1>5. CommandTypes
  BY <1>2, <1>3, <1>4 DEF CommandInit, CommandTypes
<1> QED BY <1>5 DEF CommandInit, CommandInv, Prefixed, Searched, CommandTruth, DoneWasExecuted, GivesUpLast

\* The next setting is one the search has not tried, and one there is.
LEMMA NextTune ==
  ASSUME CommandTypes, cm_pc = "tune"
  PROVE  /\ NextSetting \in Tunes
         /\ NextSetting.edge = tune.edge /\ NextSetting.delay = tune.delay
         /\ NextSetting.rsmpl = 1 - tune.rsmpl
         /\ NextSetting.rrdly = tune.rrdly + tune.rsmpl
<1>1. tune \in Tunes /\ tune.rrdly \in 0 .. Delays - 1
  BY CommandBounds DEF CommandTypes, Tunes
<1>2. CASE tune.rsmpl = 0
  <2>1. NextSetting = [tune EXCEPT !.rsmpl = 1]
    BY <1>2 DEF NextSetting
  <2>2. NextSetting = [rsmpl |-> 1, rrdly |-> tune.rrdly, edge |-> tune.edge, delay |-> tune.delay]
    BY <1>1, <2>1 DEF Tunes
  <2> QED BY <1>1, <1>2, <2>2 DEF Tunes
<1>3. CASE tune.rsmpl = 1
  <2> DEFINE mid == [tune EXCEPT !.rsmpl = 0]
  <2>1. NextSetting = [mid EXCEPT !.rrdly = tune.rrdly + 1]
    BY <1>3 DEF NextSetting
  <2>2. mid = [rsmpl |-> 0, rrdly |-> tune.rrdly, edge |-> tune.edge, delay |-> tune.delay]
    BY <1>1 DEF Tunes
  <2> HIDE DEF mid
  <2>3. NextSetting = [rsmpl |-> 0, rrdly |-> tune.rrdly + 1, edge |-> tune.edge, delay |-> tune.delay]
    BY <2>1, <2>2
  <2> QED BY <1>1, <1>3, <2>3, CommandBounds DEF Tunes
<1> QED BY <1>1, <1>2, <1>3 DEF Tunes

\* Where a command that has failed, or has not, goes on.
LEMMA Returns ==
  ASSUME CommandTypes, NEW error, Return(error)
  PROVE  /\ cm_pc' \in {"send", "idle"}
         /\ flight' \in {"app", "main"} /\ inner' \in 0 .. CmdRetries /\ outer' \in 0 .. AppRetries
         /\ cm_pc' = "idle" => /\ cm_err' = error /\ flight' = flight
                               /\ error = "NONE" => flight = "main"
         /\ cm_pc' # "idle" => cm_err' = cm_err
         /\ flight' = "main" => flight = "main" \/ error = "NONE"
BY CommandBounds DEF CommandTypes, CommandTypeOK, Return, AfterApp

\* What the card has been sent keeps its prefix with it.
LEMMA Reception ==
  ASSUME CommandTypes, Received \/ Lost, cmd' = cmd
  PROVE  /\ card_app' \in BOOLEAN /\ executed' \subseteq {"app", "plain"}
         /\ flight = "app" /\ Received => card_app'
         /\ flight = "main" /\ (cmd.app => card_app \/ "app" \in executed) =>
              /\ cmd.app => card_app' \/ "app" \in executed'
              /\ Received => executed' # {} /\ (cmd.app => "app" \in executed')
BY DEF CommandTypes, CommandTypeOK, Received, Lost

LEMMA CommandCalls ==
  ASSUME CommandInv, NEW c \in Commands, NEW retries \in {0, AppRetries}, Call(c, retries)
  PROVE  CommandInv'
<1>1. CommandTypes'
  BY CommandBounds DEF CommandInv, CommandTypes, CommandTypeOK, Call, Settings, Commands
<1>2. Prefixed' /\ Searched' /\ CommandTruth'
  BY DEF Call, Prefixed, Searched, CommandTruth, DoneWasExecuted, GivesUpLast, Commands
<1> QED BY <1>1, <1>2 DEF CommandInv

LEMMA ClockChanges ==
  ASSUME CommandInv, ChangeClock
  PROVE  CommandInv'
<1>1. CommandTypes'
  BY CommandBounds DEF CommandInv, CommandTypes, CommandTypeOK, ChangeClock, Settings, Commands
<1>2. Prefixed' /\ Searched' /\ CommandTruth'
  BY DEF ChangeClock, Prefixed, Searched, CommandTruth, DoneWasExecuted, GivesUpLast
<1> QED BY <1>1, <1>2 DEF CommandInv

\* A command that does not go into a search, or comes out of one.
LEMMA CommandReturns ==
  ASSUME CommandInv, NEW error, Return(error), cm_pc # "idle", Received \/ Lost,
         error = "NONE" => Received,
         <<edge, delay>>' \in Settings, tune' = tune \/ tune' \in Tunes, tried' \subseteq Settings,
         app_cmd' \in BOOLEAN, cmd' = cmd
  PROVE  /\ CommandTypes' /\ Prefixed' /\ Searched' /\ DoneWasExecuted'
         /\ error # "CMDTUNEFAIL" => CommandInv'
<1> USE DEF CommandInv
<1>1. CommandTypes'
  BY Returns, Reception DEF CommandTypes, CommandTypeOK, Tunes
<1>2. Prefixed'
  BY Returns, Reception DEF Prefixed, CommandTypes, CommandTypeOK, Return, AfterApp
<1>3. Searched'
  BY Returns DEF Searched
<1>4. DoneWasExecuted'
  <2>1. cm_pc' = "idle" => cm_err' = error /\ (error = "NONE" => flight = "main")
    BY Returns
  <2>2. error = "NONE" /\ flight = "main" => executed' # {} /\ (cmd.app => "app" \in executed')
    BY Reception DEF Prefixed
  <2> QED BY <2>1, <2>2 DEF DoneWasExecuted
<1>5. error # "CMDTUNEFAIL" => GivesUpLast'
  BY Returns DEF GivesUpLast
<1> QED BY <1>1, <1>2, <1>3, <1>4, <1>5 DEF CommandTruth

\* A bad CRC of the response begins a search.
LEMMA SearchBegins ==
  ASSUME CommandInv, cm_pc = "send", Received, Abort, cm_pc' = "tune", tried' = {},
         tune' = [rsmpl |-> 0, rrdly |-> 0, edge |-> edge, delay |-> delay'],
         app_cmd' = FALSE, UNCHANGED <<cmd, edge, flight, inner, outer, cm_err>>
  PROVE  CommandInv'
<1> USE DEF CommandInv
<1>1. delay' \in 0 .. Delays - 1 /\ edge' \in {0, 1} /\ (~cmd.data => delay' = delay)
  BY DEF CommandTypes, CommandTypeOK, Settings, Abort
<1>2. /\ tune'.rsmpl = 0 /\ tune'.rrdly = 0 /\ tune'.edge = edge /\ tune'.delay = delay'
      /\ tune' \in Tunes
  BY <1>1, CommandBounds DEF Tunes
<1>3. CommandTypes'
  <2>1. <<edge, delay>>' \in Settings
    BY <1>1 DEF Settings
  <2>2. card_app' \in BOOLEAN /\ executed' \subseteq {"app", "plain"}
    BY Reception
  <2>3. app_cmd' \in BOOLEAN /\ cmd' = cmd /\ cm_err' = cm_err
    OBVIOUS
  <2>4. CommandTypeOK'
    BY <1>2, <2>1, <2>2, CommandBounds DEF CommandTypes, CommandTypeOK
  <2> QED BY <1>2, <2>2, <2>3, <2>4, CommandBounds DEF CommandTypes
<1>4. Prefixed'
  BY Reception DEF Prefixed, CommandTypes, CommandTypeOK
<1>5. Searched'
  <2>1. Delays \in Nat \ {0} /\ delay' \in 0 .. Delays - 1
    BY <1>1, CommandBounds
  <2>2. delay' = (delay' + 0) % Delays
    BY <2>1, ModSmall
  <2>3. delay' = (tune'.delay + tune'.rrdly) % Delays
    BY <1>2, <2>2
  <2>4. \A j \in 0 .. tune'.rrdly - 1 : FALSE
    BY <1>2
  <2> QED BY <1>2, <2>3, <2>4 DEF Searched, SearchedSoFar
<1>6. CommandTruth'
  BY DEF CommandTruth, DoneWasExecuted, GivesUpLast
<1> QED BY <1>3, <1>4, <1>5, <1>6

LEMMA CommandSends ==
  ASSUME CommandInv, Send
  PROVE  CommandInv'
<1> USE DEF CommandInv
<1>1. <<edge, delay>> \in Settings /\ tried \subseteq Settings /\ edge \in {0, 1} /\ cm_pc = "send"
  BY DEF Send, CommandTypes, CommandTypeOK, Settings
<1>2. CASE Received /\ app_cmd' = (flight = "app") /\ Return("NONE") /\ UNCHANGED <<cmd, edge, tune, tried, delay>>
  BY <1>1, <1>2, CommandReturns
<1>3. ASSUME Received \/ Lost, app_cmd' \in {FALSE, app_cmd}, Return("TIMEOUT"),
             UNCHANGED <<cmd, edge, tune, tried, delay>>
      PROVE  CommandInv'
  <2>1. app_cmd' \in BOOLEAN
    BY <1>3 DEF CommandTypes
  <2> QED BY <1>1, <1>3, <2>1, CommandReturns
<1>4. ASSUME Received, app_cmd' = FALSE, Abort, Return("NONE"), UNCHANGED <<cmd, edge, tune, tried>>
      PROVE  CommandInv'
  <2>1. <<edge, delay>>' \in Settings
    BY <1>1, <1>4 DEF Abort, Settings
  <2>2. app_cmd' \in BOOLEAN /\ cm_pc # "idle" /\ cmd' = cmd /\ tune' = tune /\ tried' \subseteq Settings
    BY <1>1, <1>4
  <2> QED BY <1>4, <2>1, <2>2, CommandReturns
<1>5. CASE /\ Received /\ Abort /\ cm_pc' = "tune" /\ tried' = {} /\ app_cmd' = FALSE
           /\ tune' = [rsmpl |-> 0, rrdly |-> 0, edge |-> edge, delay |-> delay']
           /\ UNCHANGED <<cmd, edge, flight, inner, outer, cm_err>>
  BY <1>1, <1>5, SearchBegins
<1> QED BY <1>2, <1>3, <1>4, <1>5 DEF Send

\* A round of the search that finds nothing.
LEMMA SearchGoesOn ==
  ASSUME CommandTypes, cm_pc = "tune", SearchedSoFar, cmd' = cmd,
         tune' = NextSetting, delay' = DelayAfter(FALSE), tried' = tried \cup {Try}
  PROVE  SearchedSoFar'
<1>1. /\ tune'.edge = tune.edge /\ tune'.delay = tune.delay /\ tune'.rsmpl = 1 - tune.rsmpl
      /\ tune'.rrdly = tune.rrdly + tune.rsmpl
      /\ tune.rsmpl \in {0, 1} /\ tune.rrdly \in Nat /\ tune.delay \in 0 .. Delays - 1
  BY NextTune, CommandBounds DEF CommandTypes, Tunes
<1>2. \A r \in {0, 1} : Edge(r)' = Edge(r)
  BY <1>1 DEF Edge
<1>3. Try = <<Edge(tune.rsmpl), delay>>
  BY DEF Try, Edge
<1>4. cmd.slow => tried' \subseteq {0} \X (0 .. Delays - 1)
  <2>1. delay \in 0 .. Delays - 1
    BY DEF CommandTypes, CommandTypeOK, Settings
  <2> QED BY <2>1 DEF SearchedSoFar, Try
<1>5. CASE tune.rsmpl = 0
  <2>1. delay' = delay /\ tune'.rrdly = tune.rrdly /\ tune'.rsmpl = 1
    BY <1>1, <1>5 DEF DelayAfter
  <2> QED BY <1>1, <1>2, <1>3, <1>4, <1>5, <2>1 DEF SearchedSoFar
<1>6. CASE tune.rsmpl = 1
  <2>1. delay' = (tune'.delay + tune'.rrdly) % Delays /\ tune'.rsmpl = 0
    BY <1>1, <1>6 DEF DelayAfter
  <2>2. ASSUME NEW j \in 0 .. tune'.rrdly - 1, NEW r \in {0, 1}
        PROVE  <<Edge(r), (tune.delay + j) % Delays>> \in tried'
    <3>1. CASE j = tune.rrdly
      BY <1>3, <1>6, <3>1 DEF SearchedSoFar
    <3>2. CASE j # tune.rrdly
      <4>1. j \in 0 .. tune.rrdly - 1
        BY <1>1, <1>6, <3>2
      <4> QED BY <4>1 DEF SearchedSoFar
    <3> QED BY <3>1, <3>2
  <2>3. \A j \in 0 .. tune'.rrdly - 1, r \in {0, 1} : <<Edge(r)', (tune'.delay + j) % Delays>> \in tried'
    BY <1>1, <1>2, <2>2
  <2>4. (tune.rsmpl = 1)' = FALSE /\ cmd'.slow = cmd.slow
    BY <2>1
  <2> QED BY <1>4, <2>1, <2>3, <2>4 DEF SearchedSoFar
<1> QED BY <1>1, <1>5, <1>6

\* A search that has been round all delays has tried every setting.
LEMMA SearchComplete ==
  ASSUME (CommandTypes /\ SearchedSoFar)', tune'.rrdly = Delays
  PROVE  tried' = IF cmd'.slow THEN {0} \X (0 .. Delays - 1) ELSE Settings
<1>1. tune'.edge \in {0, 1} /\ tune'.delay \in 0 .. Delays - 1 /\ tried' \subseteq Settings
  BY DEF CommandTypes, CommandTypeOK, Tunes
<1>2. ASSUME NEW d \in 0 .. Delays - 1, NEW r \in {0, 1}
      PROVE  <<Edge(r)', d>> \in tried'
  <2> DEFINE j == IF d >= tune'.delay THEN d - tune'.delay ELSE d - tune'.delay + Delays
  <2>1. j \in 0 .. Delays - 1 /\ tune'.delay + j \in 0 .. 2 * Delays - 1
    BY <1>1, CommandBounds
  <2>2. (tune'.delay + j) % Delays = d
    BY <1>1, <2>1, ModSum, CommandBounds
  <2>3. j \in 0 .. tune'.rrdly - 1
    BY <2>1
  <2> HIDE DEF j
  <2> QED BY <2>2, <2>3 DEF SearchedSoFar
<1>3. CASE cmd'.slow
  <2>1. \A d \in 0 .. Delays - 1 : <<0, d>> \in tried'
    BY <1>2, <1>3 DEF Edge
  <2>2. tried' \subseteq {0} \X (0 .. Delays - 1)
    BY <1>3 DEF SearchedSoFar
  <2>3. tried' = {0} \X (0 .. Delays - 1)
    BY <2>1, <2>2
  <2> QED BY <1>3, <2>3
<1>4. CASE ~cmd'.slow
  <2>1. \A e \in {0, 1} : \E r \in {0, 1} : Edge(r)' = e
    BY <1>1, <1>4 DEF Edge
  <2>2. \A e \in {0, 1}, d \in 0 .. Delays - 1 : <<e, d>> \in tried'
    BY <1>2, <2>1
  <2> QED BY <1>1, <1>4, <2>2 DEF Settings
<1> QED BY <1>3, <1>4

LEMMA CommandSearches ==
  ASSUME CommandInv, Tune
  PROVE  CommandInv'
<1> USE DEF CommandInv
<1>1. /\ cm_pc = "tune" /\ cmd' = cmd /\ edge' = Try[1] /\ tried' = tried \cup {Try}
      /\ tune \in Tunes /\ delay \in 0 .. Delays - 1 /\ tried \subseteq Settings
      /\ ~cmd.data => SearchedSoFar
  BY DEF Tune, CommandTypes, CommandTypeOK, Settings, Searched
<1>2. edge' \in {0, 1} /\ Try[2] = delay /\ Try \in Settings /\ tried' \subseteq Settings
  <2>1. tune.edge \in {0, 1} /\ tune.rsmpl \in {0, 1}
    BY <1>1 DEF Tunes
  <2>2. Try[1] \in {0, 1} /\ Try[2] = delay /\ Try \in {0, 1} \X (0 .. Delays - 1)
    BY <1>1, <2>1 DEF Try
  <2> QED BY <1>1, <2>2 DEF Settings
<1>3. ASSUME Received, app_cmd' \in BOOLEAN, delay' = DelayAfter(TRUE), Return("NONE"), tune' = tune
      PROVE  CommandInv'
  <2>1. <<edge, delay>>' \in Settings
    BY <1>1, <1>2, <1>3 DEF DelayAfter, Settings
  <2>2. /\ cm_pc # "idle" /\ cmd' = cmd /\ tried' \subseteq Settings
        /\ Received \/ Lost
        /\ tune' = tune \/ tune' \in Tunes
        /\ "NONE" # "CMDTUNEFAIL"
    BY <1>1, <1>2, <1>3
  <2> HIDE DEF CommandInv
  <2> QED BY <1>3, <2>1, <2>2, CommandReturns
<1>4. CASE Lost /\ UNCHANGED <<flight, inner, outer, tune, delay, app_cmd, cm_pc, cm_err>>
  <2>1. <<edge, delay>>' \in Settings
    BY <1>1, <1>2, <1>4 DEF Settings
  <2>2. CommandTypeOK'
    BY <1>1, <1>2, <1>4, <2>1 DEF CommandTypes, CommandTypeOK, Lost
  <2>3. CommandTypes'
    BY <1>1, <1>4, <2>2 DEF CommandTypes, Lost
  <2>4. Prefixed' /\ CommandTruth'
    BY <1>1, <1>4 DEF Prefixed, CommandTruth, DoneWasExecuted, GivesUpLast, Lost
  <2>5. ASSUME ~cmd.data, cmd.slow
        PROVE  tried' \subseteq {0} \X (0 .. Delays - 1)
    <3>1. tried \subseteq {0} \X (0 .. Delays - 1) /\ Try = <<0, delay>>
      BY <1>1, <2>5 DEF SearchedSoFar, Try
    <3> QED BY <1>1, <3>1
  <2>6. Searched'
    BY <1>1, <1>4, <2>5 DEF Searched, SearchedSoFar, Edge
  <2> QED BY <2>3, <2>4, <2>6
<1>5. ASSUME Lost \/ Received, app_cmd' = FALSE, tune' = NextSetting,
             IF cmd.data THEN Abort ELSE delay' = DelayAfter(FALSE),
             IF SearchOver(tune') THEN Return("CMDTUNEFAIL") ELSE UNCHANGED <<flight, inner, outer, cm_pc, cm_err>>
      PROVE  CommandInv'
  <2>1. tune' \in Tunes
    BY <1>1, <1>5, NextTune
  <2>2. delay' \in 0 .. Delays - 1
    <3>1. (tune.delay + tune.rrdly + 1) % Delays \in 0 .. Delays - 1
      BY <1>1, CommandBounds DEF Tunes
    <3> QED BY <1>1, <1>5, <3>1 DEF Abort, DelayAfter
  <2>3. <<edge, delay>>' \in Settings
    BY <1>2, <2>2 DEF Settings
  <2>4. ~cmd.data => SearchedSoFar'
    <3>1. ~cmd.data => delay' = DelayAfter(FALSE) /\ SearchedSoFar
      BY <1>1, <1>5
    <3>2. CommandTypes /\ cm_pc = "tune" /\ cmd' = cmd /\ tune' = NextSetting /\ tried' = tried \cup {Try}
      BY <1>1, <1>5
    <3> QED BY <3>1, <3>2, SearchGoesOn
  <2>5. app_cmd' \in BOOLEAN
    BY <1>5
  <2>6. CASE SearchOver(tune')
    <3>1. CommandTypes' /\ Prefixed' /\ Searched' /\ DoneWasExecuted'
      BY <1>1, <1>2, <1>5, <2>1, <2>3, <2>5, <2>6, CommandReturns
    <3>2. GivesUpLast'
      <4>1. tune'.rrdly = Delays /\ cmd' = cmd
        BY <1>1, <2>6 DEF SearchOver
      <4> QED BY <2>4, <3>1, <4>1, SearchComplete DEF GivesUpLast
    <3> QED BY <3>1, <3>2 DEF CommandTruth
  <2>7. CASE ~SearchOver(tune')
    <3>1. UNCHANGED <<flight, inner, outer, cm_pc, cm_err>> /\ tune'.rrdly < Delays
      BY <1>5, <2>1, <2>7, CommandBounds DEF SearchOver, Tunes
    <3>2. card_app' \in BOOLEAN /\ executed' \subseteq {"app", "plain"}
      BY <1>1, <1>5, Reception
    <3>3. CommandTypeOK'
      BY <1>1, <1>2, <2>1, <2>3, <3>1, <3>2 DEF CommandTypes, CommandTypeOK, Tunes
    <3>4. CommandTypes'
      BY <1>1, <2>1, <2>5, <3>1, <3>2, <3>3 DEF CommandTypes
    <3>5. Prefixed'
      BY <1>1, <1>5, <3>1, Reception DEF Prefixed, CommandTypes, CommandTypeOK
    <3>6. Searched' /\ CommandTruth'
      BY <1>1, <2>4, <3>1 DEF Searched, CommandTruth, DoneWasExecuted, GivesUpLast
    <3> QED BY <3>4, <3>5, <3>6
  <2> QED BY <2>6, <2>7
<1> QED BY <1>1, <1>3, <1>4, <1>5 DEF Tune

\* Every step of the command layer keeps its invariant.
LEMMA CommandStep == CommandInv /\ [CommandNext]_cmVars => CommandInv'
<1> SUFFICES ASSUME CommandInv, [CommandNext]_cmVars
             PROVE  CommandInv'
  OBVIOUS
<1>1. CASE Running
  BY <1>1, CommandSends, CommandSearches DEF Running
<1>2. CASE ChangeClock
  BY <1>2, ClockChanges
<1>3. ASSUME NEW c \in Commands, NEW retries \in {0, AppRetries}, Call(c, retries)
      PROVE  CommandInv'
  BY <1>3, CommandCalls
<1>4. CASE UNCHANGED cmVars
  BY <1>4 DEF cmVars, CommandInv, CommandTypes, CommandTypeOK, Prefixed, Searched, SearchedSoFar,
              Edge, CommandTruth, DoneWasExecuted, GivesUpLast
<1> QED BY <1>1, <1>2, <1>3, <1>4 DEF CommandNext

\* What mmc_core.c is told of a command is so, for any number of delays and
\* retries: a success was executed, as the application command if it was one,
\* and a search that gives up has tried every setting.
THEOREM CommandsTellTruth == CommandSpec => []CommandTruth
<1>1. CommandInv => CommandTruth
  BY DEF CommandInv
<1> QED BY CommandBegins, CommandStep, <1>1, PTL DEF CommandSpec

\* A search that ends well leaves the settings with which the response was good.
THEOREM SearchKeepsWhatWorks == CommandSpec => KeepsWhatWorks
<1>1. CommandInv /\ [CommandNext]_cmVars =>
        [cm_pc = "tune" /\ cm_err' = "NONE" => <<edge', delay'>> \in tried']_cmVars
  <2> SUFFICES ASSUME CommandInv, CommandNext, cm_pc = "tune", cm_err' = "NONE"
               PROVE  <<edge', delay'>> \in tried'
    BY DEF cmVars
  <2>1. Tune /\ cm_err = "none"
    BY DEF CommandNext, Running, Send, ChangeClock, Call, CommandInv, CommandTypes
  <2>2. Return("NONE") /\ delay' = DelayAfter(TRUE)
    BY <2>1 DEF Tune, Return
  <2> QED BY <2>1, <2>2 DEF Tune, DelayAfter, Try
<1> QED BY <1>1, CommandBegins, CommandStep, PTL DEF CommandSpec, KeepsWhatWorks
-----------------------------------------------------------------------------
(* MmcInit.                                                                *)

ICards    == [state : {"idle", "ready", "ident", "stby", "tran"}, width : {1, 4, 8},
              ddr : BOOLEAN, timing : {"ds", "hs"}, cmd8 : BOOLEAN]
Beliefs   == [kind : {"unknown", "sd", "mmc"}, hs : BOOLEAN, ddr : BOOLEAN, highcaps : BOOLEAN,
              hs_max : Nat, ddr_support : BOOLEAN]
Selected  == {"extcsd", "timing", "width", "width_ok", "width_done", "clock", "done"}
Asked     == {"cid", "rca", "csd", "select"} \cup Selected
Bussed    == {"width_ok", "width_done", "clock", "done"}

InitTypes ==
  /\ InitTypeOK
  /\ type \in CardTypes /\ icard \in ICards /\ believed \in Beliefs
  /\ caps.pins \in {4, 8} /\ caps.ddr \in BOOLEAN
  /\ mi_faults \in Nat /\ hsclk \in Nat /\ mi_lost \in BOOLEAN

\* The card is in the state the sequence of commands has brought it to; in any
\* other state than the selected one it is as it is after CMD0.
CardInStep ==
  /\ mi_pc = "cid" => In("ready")
  /\ mi_pc = "rca" => In("ident")
  /\ mi_pc \in {"csd", "select"} => In("stby")
  /\ mi_pc \in Selected => In("tran")
  /\ ~In("tran") => icard.width = 1 /\ ~icard.ddr /\ icard.timing = "ds"

\* What is believed of the card, and when.
BeliefsRight ==
  /\ believed.hs_max \in {0, type.hs_max}
  /\ icard.timing = "hs" => type.hs_max # 0
  /\ mi_pc \in Asked => believed.highcaps = type.highcaps /\ believed.kind = type.kind
  /\ believed.hs \/ believed.ddr => mi_pc \in Selected \cup {"fail"}
  /\ believed.hs => believed.hs_max = type.hs_max
  /\ believed.hs /\ mi_pc \in Selected => icard.timing = "hs"
  /\ believed.ddr => believed.ddr_support /\ believed.kind = "mmc"
  /\ believed.ddr_support => hblklen = 512

\* The bus is the one line of a fresh card until it is widened; the clock is
\* off until the end.
HostInStep ==
  /\ mi_pc \in Asked \ Bussed => hwidth = 1 /\ ~believed.ddr /\ icard.width = 1 /\ ~icard.ddr
  /\ mi_pc \in Bussed /\ ~mi_lost => hwidth = icard.width /\ believed.ddr = icard.ddr
  /\ mi_pc \notin Asked => hwidth = 1 \/ mi_pc = "fail"
  /\ mi_pc \in {"clock", "done"} => hblklen = 512
  /\ mi_pc # "done" => hsclk = 0
  /\ mi_pc = "done" => hsclk = MaxHz

CardInitInv == InitTypes /\ CardInStep /\ BeliefsRight /\ HostInStep

\* What is said of host and card at the end of the initialisation follows.
LEMMA AgreesAtEnd == CardInitInv => InitAgrees
<1> SUFFICES ASSUME CardInitInv
             PROVE  InitAgrees
  OBVIOUS
<1> USE DEF CardInitInv, Selected, Bussed, Asked
<1>1. type.max_dtr \in Nat /\ type.hs_max \in Nat /\ (type.hs_max = 0 \/ type.max_dtr <= type.hs_max)
  BY CardsKnown DEF InitTypes
<1>2. mi_pc = "done" => hsclk <= IF icard.timing = "hs" THEN type.hs_max ELSE type.max_dtr
  BY <1>1 DEF BeliefsRight, HostInStep, MaxHz
<1>3. ClockWithinMode
  BY <1>1, <1>2 DEF HostInStep, ClockWithinMode
<1>4. BusAgrees /\ BlockLengthSet
  BY DEF BusAgrees, BlockLengthSet, CardInStep, BeliefsRight, HostInStep
<1> QED BY <1>3, <1>4 DEF InitAgrees

\* What a change of one or two fields makes of a record.
LEMMA CardChanges ==
  ASSUME NEW c \in ICards, NEW a, NEW b
  PROVE  /\ [c EXCEPT !.state = a] =
              [state |-> a, width |-> c.width, ddr |-> c.ddr, timing |-> c.timing, cmd8 |-> c.cmd8]
         /\ [c EXCEPT !.timing = a] =
              [state |-> c.state, width |-> c.width, ddr |-> c.ddr, timing |-> a, cmd8 |-> c.cmd8]
         /\ [c EXCEPT !.cmd8 = a] =
              [state |-> c.state, width |-> c.width, ddr |-> c.ddr, timing |-> c.timing, cmd8 |-> a]
         /\ [c EXCEPT !.width = a] =
              [state |-> c.state, width |-> a, ddr |-> c.ddr, timing |-> c.timing, cmd8 |-> c.cmd8]
         /\ [c EXCEPT !.state = a, !.width = b] =
              [state |-> a, width |-> b, ddr |-> c.ddr, timing |-> c.timing, cmd8 |-> c.cmd8]
         /\ [c EXCEPT !.width = a, !.ddr = b] =
              [state |-> c.state, width |-> a, ddr |-> b, timing |-> c.timing, cmd8 |-> c.cmd8]
<1> DEFINE one == [c EXCEPT !.state = a]
           two == [c EXCEPT !.width = a]
<1>1. one = [state |-> a, width |-> c.width, ddr |-> c.ddr, timing |-> c.timing, cmd8 |-> c.cmd8]
  BY DEF ICards
<1>2. two = [state |-> c.state, width |-> a, ddr |-> c.ddr, timing |-> c.timing, cmd8 |-> c.cmd8]
  BY DEF ICards
<1>3. /\ [c EXCEPT !.timing = a] =
              [state |-> c.state, width |-> c.width, ddr |-> c.ddr, timing |-> a, cmd8 |-> c.cmd8]
      /\ [c EXCEPT !.cmd8 = a] =
              [state |-> c.state, width |-> c.width, ddr |-> c.ddr, timing |-> c.timing, cmd8 |-> a]
  BY DEF ICards
<1> HIDE DEF one, two
<1>4. [one EXCEPT !.width = b] =
              [state |-> a, width |-> b, ddr |-> c.ddr, timing |-> c.timing, cmd8 |-> c.cmd8]
  BY <1>1
<1>5. [two EXCEPT !.ddr = b] =
              [state |-> c.state, width |-> a, ddr |-> b, timing |-> c.timing, cmd8 |-> c.cmd8]
  BY <1>2
<1> QED BY <1>1, <1>2, <1>3, <1>4, <1>5 DEF one, two

LEMMA BeliefChanges ==
  ASSUME NEW c \in Beliefs, NEW a, NEW b
  PROVE  /\ [c EXCEPT !.kind = a] =
              [kind |-> a, hs |-> c.hs, ddr |-> c.ddr, highcaps |-> c.highcaps, hs_max |-> c.hs_max,
               ddr_support |-> c.ddr_support]
         /\ [c EXCEPT !.hs = a] =
              [kind |-> c.kind, hs |-> a, ddr |-> c.ddr, highcaps |-> c.highcaps, hs_max |-> c.hs_max,
               ddr_support |-> c.ddr_support]
         /\ [c EXCEPT !.ddr = a] =
              [kind |-> c.kind, hs |-> c.hs, ddr |-> a, highcaps |-> c.highcaps, hs_max |-> c.hs_max,
               ddr_support |-> c.ddr_support]
         /\ [c EXCEPT !.highcaps = a] =
              [kind |-> c.kind, hs |-> c.hs, ddr |-> c.ddr, highcaps |-> a, hs_max |-> c.hs_max,
               ddr_support |-> c.ddr_support]
         /\ [c EXCEPT !.hs_max = a, !.ddr_support = b] =
              [kind |-> c.kind, hs |-> c.hs, ddr |-> c.ddr, highcaps |-> c.highcaps, hs_max |-> a,
               ddr_support |-> b]
<1> DEFINE one == [c EXCEPT !.hs_max = a]
<1>1. one = [kind |-> c.kind, hs |-> c.hs, ddr |-> c.ddr, highcaps |-> c.highcaps, hs_max |-> a,
             ddr_support |-> c.ddr_support]
  BY DEF Beliefs
<1> HIDE DEF one
<1>2. [one EXCEPT !.ddr_support = b] =
              [kind |-> c.kind, hs |-> c.hs, ddr |-> c.ddr, highcaps |-> c.highcaps, hs_max |-> a,
               ddr_support |-> b]
  BY <1>1
<1> QED BY <1>2 DEF Beliefs, one

LEMMA InitBegins == InitInit => CardInitInv
<1> SUFFICES ASSUME InitInit
             PROVE  CardInitInv
  OBVIOUS
<1>1. caps = [pins |-> 8, ddr |-> FALSE] \/ caps = [pins |-> 4, ddr |-> FALSE] \/ caps = [pins |-> 4, ddr |-> TRUE]
  BY DEF InitInit
<1>2. caps.pins \in {4, 8} /\ caps.ddr \in BOOLEAN
  <2>1. CASE caps = [pins |-> 8, ddr |-> FALSE]
    BY <2>1
  <2>2. CASE caps = [pins |-> 4, ddr |-> FALSE]
    BY <2>2
  <2>3. CASE caps = [pins |-> 4, ddr |-> TRUE]
    BY <2>3
  <2> QED BY <1>1, <2>1, <2>2, <2>3
<1>3. Fresh \in ICards
  BY DEF Fresh, ICards
<1>4. [Fresh EXCEPT !.state = "tran", !.width = caps.pins] =
        [state |-> "tran", width |-> caps.pins, ddr |-> FALSE, timing |-> "ds", cmd8 |-> FALSE]
  <2>1. [Fresh EXCEPT !.state = "tran", !.width = caps.pins] =
        [state |-> "tran", width |-> caps.pins, ddr |-> Fresh.ddr, timing |-> Fresh.timing, cmd8 |-> Fresh.cmd8]
    BY <1>3, CardChanges, ZenonT(40)
  <2>2. Fresh.ddr = FALSE /\ Fresh.timing = "ds" /\ Fresh.cmd8 = FALSE
    BY DEF Fresh
  <2> QED BY <2>1, <2>2
<1>5. /\ icard \in ICards /\ icard.ddr = FALSE /\ icard.timing = "ds"
      /\ icard.state = "tran" \/ icard.width = 1
  <2>1. CASE icard = Fresh
    BY <2>1, <1>3 DEF Fresh
  <2>2. CASE icard = [state |-> "tran", width |-> caps.pins, ddr |-> FALSE, timing |-> "ds", cmd8 |-> FALSE]
    BY <2>2, <1>2 DEF ICards
  <2> QED BY <1>4, <2>1, <2>2 DEF InitInit
<1>6. Unknown \in Beliefs /\ believed = Unknown
  BY DEF Unknown, Beliefs, InitInit
<1>7. InitTypes
  <2>1. InitTypeOK
    BY <1>2, <1>5, <1>6 DEF InitInit, InitTypeOK, Unknown, ICards
  <2> QED BY <1>2, <1>5, <1>6, <2>1 DEF InitInit, InitTypes
<1>8. CardInStep /\ BeliefsRight /\ HostInStep
  <2>1. /\ mi_pc = "none" /\ hwidth = 1 /\ hsclk = 0 /\ mi_pc \notin Asked
        /\ believed.hs = FALSE /\ believed.ddr = FALSE /\ believed.ddr_support = FALSE /\ believed.hs_max = 0
    BY <1>6 DEF InitInit, Asked, Selected, Unknown
  <2> QED BY <1>5, <2>1 DEF CardInStep, BeliefsRight, HostInStep, In, Asked, Selected, Bussed
<1> QED BY <1>7, <1>8 DEF CardInitInv

LEMMA FreshCard ==
  /\ Fresh \in ICards /\ Fresh.state = "idle" /\ Fresh.width = 1 /\ Fresh.ddr = FALSE
  /\ Fresh.timing = "ds"
BY DEF Fresh, ICards

LEMMA NothingBelieved ==
  /\ Unknown \in Beliefs /\ Unknown.kind = "unknown" /\ Unknown.hs = FALSE /\ Unknown.ddr = FALSE
  /\ Unknown.hs_max = 0 /\ Unknown.ddr_support = FALSE
BY DEF Unknown, Beliefs

LEMMA InitStarts ==
  ASSUME CardInitInv, Start
  PROVE  CardInitInv'
<1> USE DEF CardInitInv
<1>1. icard' \in ICards /\ believed' \in Beliefs
  BY FreshCard, NothingBelieved DEF Start, InitTypes
<1>2. InitTypes'
  <2>1. InitTypeOK'
    BY <1>1, NothingBelieved DEF Start, InitTypes, InitTypeOK, ICards
  <2>2. mi_lost' \in BOOLEAN /\ hsclk' \in Nat /\ UNCHANGED <<type, caps, mi_faults>>
    BY DEF Start
  <2> QED BY <1>1, <2>1, <2>2 DEF InitTypes
<1>3. CardInStep'
  BY FreshCard DEF Start, CardInStep, In, Selected
<1>4. BeliefsRight'
  BY FreshCard, NothingBelieved DEF Start, BeliefsRight, Selected, Asked
<1>5. HostInStep'
  BY DEF Start, HostInStep, Selected, Asked, Bussed
<1> QED BY <1>2, <1>3, <1>4, <1>5

LEMMA CardResets ==
  ASSUME CardInitInv, GoIdle("idle1", "ifcond1") \/ GoIdle("idle2", IF believed.kind = "sd" THEN "ifcond2" ELSE "opcond")
  PROVE  CardInitInv'
<1> USE DEF CardInitInv
<1>1. /\ mi_pc \in {"idle1", "idle2"} /\ mi_pc' \in {"ifcond1", "ifcond2", "opcond"}
      /\ icard' \in {icard, Fresh} /\ mi_faults' \in {mi_faults, mi_faults + 1}
      /\ UNCHANGED <<type, caps, believed, hwidth, hblklen, hsclk, mi_result, mi_lost>>
  BY DEF GoIdle, Loses, Reset, hostVars
<1>2. InitTypes'
  BY <1>1, FreshCard DEF InitTypes, InitTypeOK
<1>3. CardInStep'
  BY <1>1, FreshCard DEF CardInStep, In, Selected
<1>4. BeliefsRight'
  BY <1>1, FreshCard DEF BeliefsRight, Selected, Asked
<1>5. HostInStep'
  BY <1>1 DEF HostInStep, Selected, Asked, Bussed
<1> QED BY <1>2, <1>3, <1>4, <1>5

LEMMA CardHearsVoltages ==
  ASSUME CardInitInv, IfCond("ifcond1", "acmd41") \/ IfCond("ifcond2", "opcond")
  PROVE  CardInitInv'
<1> USE DEF CardInitInv
<1>1. /\ mi_pc \in {"ifcond1", "ifcond2"} /\ mi_pc' \in {"acmd41", "opcond"}
      /\ mi_faults' \in {mi_faults, mi_faults + 1}
      /\ UNCHANGED <<type, caps, believed, hwidth, hblklen, hsclk, mi_result, mi_lost>>
  BY DEF IfCond, Loses, hostVars
<1>2. icard \in ICards
  BY DEF InitTypes
<1>3. /\ icard' \in ICards /\ icard'.state = icard.state /\ icard'.width = icard.width
      /\ icard'.ddr = icard.ddr /\ icard'.timing = icard.timing
  <2>1. PICK seen \in BOOLEAN : icard' = [icard EXCEPT !.cmd8 = seen] \/ icard' = icard
    <3>1. (In("idle") \/ icard.cmd8) \in BOOLEAN
      OBVIOUS
    <3> QED BY <3>1, Zenon DEF IfCond
  <2> QED BY <1>2, <2>1 DEF ICards
<1>4. InitTypes'
  BY <1>1, <1>3 DEF InitTypes, InitTypeOK
<1>5. CardInStep'
  BY <1>1, <1>3 DEF CardInStep, In, Selected
<1>6. BeliefsRight'
  BY <1>1, <1>3 DEF BeliefsRight, Selected, Asked
<1>7. HostInStep'
  BY <1>1 DEF HostInStep, Selected, Asked, Bussed
<1> QED BY <1>4, <1>5, <1>6, <1>7

LEMMA CardProbed ==
  ASSUME CardInitInv, Probe
  PROVE  CardInitInv'
<1> USE DEF CardInitInv
<1>1. /\ mi_pc \in {"acmd41", "cmd1"} /\ mi_pc' \in {"voltage", "cmd1", "fail"}
      /\ icard' = icard /\ mi_faults' \in {mi_faults, mi_faults + 1} /\ mi_lost' \in BOOLEAN
      /\ UNCHANGED <<type, caps, hwidth, hblklen, hsclk, mi_result>>
  BY DEF Probe, Cmd, Loses, hostVars, InitTypes
<1>2. /\ believed' \in Beliefs /\ believed'.kind \in {believed.kind, type.kind}
      /\ believed'.hs = believed.hs /\ believed'.hs_max = believed.hs_max /\ believed'.ddr = believed.ddr
      /\ believed'.ddr_support = believed.ddr_support
  <2>1. believed \in Beliefs /\ type.kind \in {"sd", "mmc"}
    BY CardsKnown DEF InitTypes
  <2>2. believed' = believed \/ believed' = [believed EXCEPT !.kind = type.kind]
    <3>1. mi_pc' = "voltage" => (type.kind = "sd") = (mi_pc = "acmd41")
      BY DEF Probe, Cmd
    <3> QED BY <2>1, <3>1 DEF Probe
  <2> QED BY <2>1, <2>2 DEF Beliefs
<1>3. ~believed.ddr /\ ~believed.hs
  BY <1>1 DEF BeliefsRight, HostInStep, Selected, Asked
<1>4. InitTypes'
  BY <1>1, <1>2 DEF InitTypes, InitTypeOK
<1>5. CardInStep'
  BY <1>1 DEF CardInStep, In, Selected
<1>6. BeliefsRight'
  BY <1>1, <1>2, <1>3 DEF BeliefsRight, Selected, Asked
<1>7. HostInStep'
  BY <1>1 DEF HostInStep, Selected, Asked, Bussed
<1> QED BY <1>4, <1>5, <1>6, <1>7

LEMMA VoltageSelected ==
  ASSUME CardInitInv, Voltage
  PROVE  CardInitInv'
<1> USE DEF CardInitInv
<1>1. /\ mi_pc = "voltage" /\ mi_pc' \in {"idle2", "fail"}
      /\ UNCHANGED <<type, caps, icard, believed, hwidth, hblklen, hsclk, mi_result, mi_lost, mi_faults>>
  BY DEF Voltage, hostVars
<1>2. InitTypes' /\ CardInStep'
  BY <1>1 DEF InitTypes, InitTypeOK, CardInStep, In, Selected
<1>3. BeliefsRight' /\ HostInStep'
  BY <1>1 DEF BeliefsRight, HostInStep, Selected, Asked, Bussed
<1> QED BY <1>2, <1>3

\* A change of the state of the card leaves the rest of it.
LEMMA CardGoes ==
  ASSUME icard \in ICards, NEW s \in {"idle", "ready", "ident", "stby", "tran"}
  PROVE  /\ Goes(s) \in ICards /\ Goes(s).state = s /\ Goes(s).width = icard.width
         /\ Goes(s).ddr = icard.ddr /\ Goes(s).timing = icard.timing
BY DEF Goes, ICards

LEMMA CardPoweredUp ==
  ASSUME CardInitInv, OpCond
  PROVE  CardInitInv'
<1> USE DEF CardInitInv
<1>1. /\ mi_pc = "opcond" /\ mi_pc' \in {"cid", "fail"}
      /\ mi_faults' \in {mi_faults, mi_faults + 1} /\ mi_lost' \in BOOLEAN
      /\ UNCHANGED <<type, caps, hwidth, hblklen, hsclk, mi_result>>
  BY DEF OpCond, Cmd, Loses, hostVars, InitTypes
<1>2. icard \in ICards /\ believed \in Beliefs /\ type.highcaps \in BOOLEAN
  BY CardsKnown DEF InitTypes
<1>3. /\ icard' = icard \/ (icard' = Goes("ready") /\ In("idle"))
      /\ mi_pc' = "cid" => icard' = Goes("ready") /\ In("idle") /\ believed.kind = type.kind
  BY DEF OpCond, Cmd
<1>4. /\ icard' \in ICards /\ icard'.width = icard.width
      /\ icard'.ddr = icard.ddr /\ icard'.timing = icard.timing
      /\ icard'.state = icard.state \/ (In("idle") /\ icard'.state = "ready")
      /\ mi_pc' = "cid" => icard'.state = "ready"
  BY <1>2, <1>3, CardGoes
<1>5. believed' = IF mi_pc' = "cid" THEN [believed EXCEPT !.highcaps = type.highcaps] ELSE believed
  BY Zenon DEF OpCond
<1>6. /\ believed' \in Beliefs /\ believed'.kind = believed.kind
      /\ believed'.hs = believed.hs /\ believed'.hs_max = believed.hs_max /\ believed'.ddr = believed.ddr
      /\ believed'.ddr_support = believed.ddr_support
      /\ mi_pc' = "cid" => believed'.highcaps = type.highcaps
  BY <1>2, <1>5 DEF Beliefs
<1>7. InitTypes'
  BY <1>1, <1>4, <1>6 DEF InitTypes, InitTypeOK, ICards
<1>8. CardInStep'
  BY <1>1, <1>4 DEF CardInStep, In, Selected
<1>9. ~believed.ddr /\ ~believed.hs /\ hwidth = 1
  BY <1>1 DEF BeliefsRight, HostInStep, Selected, Asked
<1>10. BeliefsRight'
  BY <1>1, <1>3, <1>4, <1>6, <1>9 DEF BeliefsRight, Selected, Asked
<1>11. HostInStep'
  <2>1. In("idle") => icard.width = 1 /\ ~icard.ddr
    BY DEF CardInStep, In
  <2> QED BY <1>1, <1>3, <1>4, <1>6, <1>9, <2>1 DEF HostInStep, Selected, Asked, Bussed
<1> QED BY <1>7, <1>8, <1>10, <1>11

LEMMA CardIdentified ==
  ASSUME CardInitInv, Identify
  PROVE  CardInitInv'
<1> USE DEF CardInitInv
<1>1. /\ mi_pc \in {"cid", "rca", "csd", "select"} /\ mi_pc' \in {"rca", "csd", "select", "extcsd", "width", "fail"}
      /\ mi_faults' \in {mi_faults, mi_faults + 1} /\ mi_lost' \in BOOLEAN
      /\ UNCHANGED <<type, caps, believed, hwidth, hblklen, hsclk, mi_result>>
  BY DEF Identify, Cmd, Loses, hostVars, InitTypes
<1>2. icard \in ICards
  BY DEF InitTypes
<1>3. /\ icard' \in {icard, Goes("ident"), Goes("stby"), Goes("tran")}
      /\ mi_pc' = "rca" => icard' = Goes("ident")
      /\ mi_pc' = "csd" => icard' = Goes("stby")
      /\ mi_pc' = "select" => icard' = icard /\ mi_pc = "csd"
      /\ mi_pc' \in {"extcsd", "width"} => icard' = Goes("tran")
  BY DEF Identify, Cmd
<1>4. /\ icard' \in ICards /\ icard'.width = icard.width
      /\ icard'.ddr = icard.ddr /\ icard'.timing = icard.timing
      /\ icard'.state \in {icard.state, "ident", "stby", "tran"}
      /\ mi_pc' = "rca" => icard'.state = "ident"
      /\ mi_pc' = "csd" => icard'.state = "stby"
      /\ mi_pc' = "select" => icard'.state = icard.state /\ mi_pc = "csd"
      /\ mi_pc' \in {"extcsd", "width"} => icard'.state = "tran"
  BY <1>1, <1>2, <1>3, CardGoes
<1>5. icard.width = 1 /\ ~icard.ddr /\ icard.timing = "ds"
  BY <1>1 DEF CardInStep, In
<1>6. InitTypes'
  BY <1>1, <1>4 DEF InitTypes, InitTypeOK, ICards
<1>7. CardInStep'
  BY <1>1, <1>4, <1>5 DEF CardInStep, In, Selected
<1>8. BeliefsRight'
  BY <1>1, <1>4, <1>5 DEF BeliefsRight, Selected, Asked
<1>9. HostInStep'
  BY <1>1, <1>4, <1>5 DEF HostInStep, Selected, Asked, Bussed
<1> QED BY <1>6, <1>7, <1>8, <1>9

LEMMA ExtCsdRead ==
  ASSUME CardInitInv, ExtCsd
  PROVE  CardInitInv'
<1> USE DEF CardInitInv
<1>1. /\ mi_pc = "extcsd" /\ mi_pc' \in {"extcsd", "timing", "width", "fail"}
      /\ icard' = icard /\ mi_faults' \in {mi_faults, mi_faults + 1} /\ mi_lost' \in BOOLEAN
      /\ hblklen' \in {hblklen, 512} /\ (mi_pc' = "timing" => hblklen' = 512)
      /\ UNCHANGED <<type, caps, hwidth, hsclk, mi_result>>
  BY DEF ExtCsd, Cmd, Loses, InitTypes
<1>2. /\ believed \in Beliefs /\ type.hs_max \in Nat /\ type.ddr \in BOOLEAN
      /\ hwidth = 1 /\ ~believed.ddr /\ icard.width = 1 /\ ~icard.ddr /\ In("tran")
  BY <1>1, CardsKnown DEF InitTypes, HostInStep, CardInStep, Asked, Selected, Bussed
<1>3. \/ believed' = believed
      \/ mi_pc' = "timing" /\ believed' = [believed EXCEPT !.hs_max = type.hs_max, !.ddr_support = type.ddr]
  BY Zenon DEF ExtCsd
<1>4. /\ believed' \in Beliefs /\ believed'.kind = believed.kind /\ believed'.hs = believed.hs
      /\ believed'.ddr = believed.ddr /\ believed'.highcaps = believed.highcaps
      /\ believed'.hs_max \in {believed.hs_max, type.hs_max}
      /\ believed'.ddr_support = believed.ddr_support \/ mi_pc' = "timing"
  <2>1. CASE believed' = believed
    BY <1>2, <2>1
  <2>2. CASE mi_pc' = "timing" /\ believed' = [believed EXCEPT !.hs_max = type.hs_max, !.ddr_support = type.ddr]
    <3>1. believed' = [kind |-> believed.kind, hs |-> believed.hs, ddr |-> believed.ddr,
                       highcaps |-> believed.highcaps, hs_max |-> type.hs_max, ddr_support |-> type.ddr]
      BY <1>2, <2>2, BeliefChanges, Zenon
    <3> QED BY <1>2, <2>2, <3>1 DEF Beliefs
  <2> QED BY <1>3, <2>1, <2>2
<1>5. InitTypes'
  BY <1>1, <1>4 DEF InitTypes, InitTypeOK
<1>6. CardInStep'
  BY <1>1, <1>2 DEF CardInStep, In, Selected
<1>7. BeliefsRight'
  BY <1>1, <1>2, <1>4 DEF BeliefsRight, Selected, Asked
<1>8. HostInStep'
  BY <1>1, <1>2, <1>4 DEF HostInStep, Selected, Asked, Bussed
<1> QED BY <1>5, <1>6, <1>7, <1>8

LEMMA TimingSet ==
  ASSUME CardInitInv, Timing
  PROVE  CardInitInv'
<1> USE DEF CardInitInv
<1>1. /\ mi_pc = "timing" /\ mi_pc' = "width"
      /\ mi_faults' \in {mi_faults, mi_faults + 1} /\ mi_lost' \in BOOLEAN
      /\ UNCHANGED <<type, caps, hwidth, hblklen, hsclk, mi_result>>
  BY DEF Timing, Cmd, Loses, hostVars, InitTypes
<1>2. /\ icard \in ICards /\ believed \in Beliefs /\ mi_faults \in Nat
      /\ hwidth = 1 /\ ~believed.ddr /\ icard.width = 1 /\ ~icard.ddr /\ In("tran")
  BY <1>1 DEF InitTypes, HostInStep, CardInStep, Asked, Selected, Bussed
<1>3. CASE believed.hs_max = 0
  <2>1. icard' = icard /\ believed' = believed
    BY <1>3 DEF Timing
  <2>2. InitTypes' /\ CardInStep'
    BY <1>1, <1>2, <2>1 DEF InitTypes, InitTypeOK, CardInStep, In, Selected
  <2>3. BeliefsRight' /\ HostInStep'
    BY <1>1, <1>2, <2>1 DEF BeliefsRight, HostInStep, Selected, Asked, Bussed
  <2> QED BY <2>2, <2>3
<1>4. CASE believed.hs_max # 0
  <2> DEFINE hs == [icard EXCEPT !.timing = "hs"]
  <2>1. PICK done \in BOOLEAN :
          /\ \/ done /\ Cmd(In("tran"), hs, "width", "width")
             \/ ~done /\ mi_pc' = "width" /\ UNCHANGED <<icard, mi_lost, mi_faults>>
          /\ believed' = [believed EXCEPT !.hs = done /\ mi_faults' = mi_faults]
    BY <1>4, Zenon DEF Timing
  <2>2. hs \in ICards /\ hs.width = icard.width /\ hs.ddr = icard.ddr /\ hs.timing = "hs" /\ hs.state = icard.state
    BY <1>2 DEF ICards
  <2> HIDE DEF hs
  <2>3. icard' \in {icard, hs} /\ (done /\ mi_faults' = mi_faults => icard' = hs)
    BY <1>2, <2>1 DEF Cmd, Loses
  <2>4. PICK h \in BOOLEAN : believed' = [believed EXCEPT !.hs = h] /\ (h => done /\ mi_faults' = mi_faults)
    <3>1. (done /\ mi_faults' = mi_faults) \in BOOLEAN
      OBVIOUS
    <3> QED BY <2>1, <3>1, Zenon
  <2>5. /\ believed' \in Beliefs /\ believed'.kind = believed.kind /\ believed'.hs = h
        /\ believed'.ddr = believed.ddr /\ believed'.highcaps = believed.highcaps
        /\ believed'.hs_max = believed.hs_max /\ believed'.ddr_support = believed.ddr_support
    BY <1>2, <2>4 DEF Beliefs
  <2>6. /\ icard' \in ICards /\ icard'.width = icard.width /\ icard'.ddr = icard.ddr
        /\ icard'.state = icard.state /\ (h => icard'.timing = "hs")
    BY <1>2, <2>2, <2>3, <2>4
  <2>7. believed.hs_max = type.hs_max
    BY <1>4 DEF BeliefsRight
  <2>8. InitTypes'
    BY <1>1, <2>5, <2>6 DEF InitTypes, InitTypeOK, ICards
  <2>9. CardInStep'
    BY <1>1, <1>2, <2>6 DEF CardInStep, In, Selected
  <2>10. BeliefsRight'
    BY <1>1, <1>2, <1>4, <2>5, <2>6, <2>7 DEF BeliefsRight, Selected, Asked
  <2>11. HostInStep'
    BY <1>1, <1>2, <2>5, <2>6 DEF HostInStep, Selected, Asked, Bussed
  <2> QED BY <2>8, <2>9, <2>10, <2>11
<1> QED BY <1>3, <1>4

LEMMA BlockLengthGiven ==
  ASSUME CardInitInv, BlkLen
  PROVE  CardInitInv'
<1> USE DEF CardInitInv
<1>1. /\ mi_pc \in {"width_ok", "width_done"} /\ mi_pc' \in {"clock", "fail"}
      /\ icard' = icard /\ mi_faults' \in {mi_faults, mi_faults + 1} /\ mi_lost' \in BOOLEAN
      /\ hblklen' \in {hblklen, 512} /\ (NeedsBlkLen /\ mi_pc' = "clock" => hblklen' = 512)
      /\ ~mi_lost' => ~mi_lost
      /\ UNCHANGED <<type, caps, believed, hwidth, hsclk, mi_result>>
  BY DEF BlkLen, Cmd, Loses, InitTypes
<1>2. InitTypes' /\ CardInStep'
  BY <1>1 DEF InitTypes, InitTypeOK, CardInStep, In, Selected
<1>3. BeliefsRight'
  BY <1>1 DEF BeliefsRight, Selected, Asked
<1>4. HostInStep'
  BY <1>1 DEF BeliefsRight, HostInStep, NeedsBlkLen, Selected, Asked, Bussed
<1> QED BY <1>2, <1>3, <1>4

LEMMA ClockSet ==
  ASSUME CardInitInv, Clock
  PROVE  CardInitInv'
<1> USE DEF CardInitInv
<1>1. /\ mi_pc = "clock" /\ mi_pc' = "done" /\ hsclk' = MaxHz /\ MaxHz' = MaxHz
      /\ UNCHANGED <<type, caps, icard, believed, hwidth, hblklen, mi_lost, mi_faults>>
  BY DEF Clock, MaxHz
<1>2. MaxHz \in Nat
  BY CardsKnown DEF MaxHz, InitTypes, Beliefs
<1>3. InitTypes' /\ CardInStep'
  BY <1>1, <1>2 DEF InitTypes, InitTypeOK, CardInStep, In, Selected
<1>4. BeliefsRight' /\ HostInStep'
  BY <1>1 DEF BeliefsRight, HostInStep, Selected, Asked, Bussed
<1> QED BY <1>3, <1>4

LEMMA BusWidened ==
  ASSUME CardInitInv, BusWidth
  PROVE  CardInitInv'
<1> USE DEF CardInitInv
<1> DEFINE wide == IF believed.kind = "mmc" THEN [icard EXCEPT !.width = WidthFor, !.ddr = DdrFor]
                                            ELSE [icard EXCEPT !.width = WidthFor]
<1>1. /\ mi_pc = "width" /\ mi_pc' \in {"width_ok", "width_done"}
      /\ mi_faults' \in {mi_faults, mi_faults + 1} /\ mi_lost' \in BOOLEAN
      /\ UNCHANGED <<type, caps, hblklen, hsclk, mi_result>>
  BY DEF BusWidth, Switch, Cmd, Loses, InitTypes
<1>2. /\ icard \in ICards /\ believed \in Beliefs /\ believed.kind = type.kind /\ type.kind \in {"sd", "mmc"}
      /\ hwidth = 1 /\ ~believed.ddr /\ icard.width = 1 /\ ~icard.ddr /\ In("tran")
  BY <1>1, CardsKnown DEF InitTypes, HostInStep, CardInStep, BeliefsRight, Asked, Selected, Bussed
<1>3. WidthFor \in {4, 8} /\ WidthFor <= caps.pins /\ DdrFor \in BOOLEAN
      /\ (DdrFor => believed.kind = "mmc" /\ believed.ddr_support)
  BY DEF WidthFor, DdrFor, InitTypes
<1>4. /\ wide \in ICards /\ wide.state = icard.state /\ wide.timing = icard.timing
      /\ wide.width = WidthFor /\ wide.ddr = DdrFor
  <2>1. CASE believed.kind = "mmc"
    <3>1. wide = [state |-> icard.state, width |-> WidthFor, ddr |-> DdrFor, timing |-> icard.timing, cmd8 |-> icard.cmd8]
      BY <1>2, <2>1, CardChanges, ZenonT(40)
    <3> QED BY <1>2, <1>3, <3>1 DEF ICards
  <2>2. CASE believed.kind # "mmc"
    <3>1. wide = [state |-> icard.state, width |-> WidthFor, ddr |-> icard.ddr, timing |-> icard.timing, cmd8 |-> icard.cmd8]
      BY <1>2, <2>2, CardChanges, Zenon
    <3>2. icard.ddr = DdrFor
      BY <1>2, <2>2 DEF DdrFor, ICards
    <3> QED BY <1>2, <1>3, <3>1, <3>2 DEF ICards
  <2> QED BY <2>1, <2>2
<1>5. /\ icard' \in {icard, wide}
      /\ mi_pc' = "width_ok" => icard' = wide
      /\ mi_pc' = "width_done" /\ ~mi_lost' => icard' = icard
  <2>1. CASE believed.kind = "mmc" /\ type.v4
    <3>1. wide = [icard EXCEPT !.width = WidthFor, !.ddr = DdrFor]
      BY <2>1
    <3> HIDE DEF wide
    <3>2. Switch(wide, "width_ok")
      BY <2>1, <3>1, Zenon DEF BusWidth
    <3> QED BY <1>2, <3>2 DEF Switch, Cmd
  <2>2. CASE believed.kind # "mmc"
    <3>1. wide = [icard EXCEPT !.width = WidthFor]
      BY <2>2
    <3> HIDE DEF wide
    <3>2. Cmd(In("tran"), wide, "width_ok", "width_done")
      BY <2>2, <3>1, Zenon DEF BusWidth
    <3> QED BY <1>2, <3>2 DEF Cmd
  <2>3. CASE believed.kind = "mmc" /\ ~type.v4
    <3>1. icard' = icard /\ mi_pc' = "width_done"
      BY <2>3, Zenon DEF BusWidth
    <3> QED BY <3>1
  <2> QED BY <2>1, <2>2, <2>3
<1> HIDE DEF wide
<1>6. /\ mi_pc' = "width_ok" => believed' = [believed EXCEPT !.ddr = DdrFor] /\ hwidth' = WidthFor
      /\ mi_pc' = "width_done" => believed' = believed /\ hwidth' = hwidth
  BY DEF BusWidth, WidthAfter, Switch, Cmd
<1>7. /\ believed' \in Beliefs /\ believed'.kind = believed.kind /\ believed'.hs = believed.hs
      /\ believed'.highcaps = believed.highcaps
      /\ believed'.hs_max = believed.hs_max /\ believed'.ddr_support = believed.ddr_support
      /\ mi_pc' = "width_ok" => believed'.ddr = DdrFor
      /\ mi_pc' = "width_done" => believed'.ddr = believed.ddr
  BY <1>1, <1>2, <1>3, <1>6 DEF Beliefs
<1>8. /\ icard' \in ICards /\ icard'.state = icard.state /\ icard'.timing = icard.timing
      /\ mi_pc' = "width_ok" => icard'.width = WidthFor /\ icard'.ddr = DdrFor
      /\ mi_pc' = "width_done" /\ ~mi_lost' => icard'.width = icard.width /\ icard'.ddr = icard.ddr
  BY <1>2, <1>4, <1>5
<1>9. InitTypes'
  <2>1. hwidth' \in {1, 4, 8} /\ hwidth' <= caps.pins
    BY <1>1, <1>2, <1>3, <1>6 DEF InitTypes, InitTypeOK
  <2> QED BY <1>1, <1>7, <1>8, <2>1 DEF InitTypes, InitTypeOK, ICards
<1>10. CardInStep'
  BY <1>1, <1>2, <1>8 DEF CardInStep, In, Selected
<1>11. BeliefsRight'
  BY <1>1, <1>2, <1>3, <1>7, <1>8 DEF BeliefsRight, Selected, Asked
<1>12. HostInStep'
  <2>1. believed.ddr = FALSE /\ icard.ddr = FALSE
    BY <1>2 DEF Beliefs, ICards
  <2>2. mi_pc' = "width_done" /\ ~mi_lost' => hwidth' = icard'.width /\ believed'.ddr = icard'.ddr
    BY <1>2, <1>6, <1>7, <1>8, <2>1
  <2>3. mi_pc' = "width_ok" => hwidth' = icard'.width /\ believed'.ddr = icard'.ddr
    BY <1>6, <1>7, <1>8
  <2>4. hsclk' = 0 /\ mi_pc' \notin {"clock", "done"} /\ mi_pc' \in Bussed /\ mi_pc' \in Asked
    BY <1>1 DEF HostInStep, Asked, Selected, Bussed
  <2> QED BY <1>1, <2>2, <2>3, <2>4 DEF HostInStep, Selected, Asked, Bussed
<1> QED BY <1>9, <1>10, <1>11, <1>12

LEMMA InitStep == CardInitInv /\ [InitNext]_miVars => CardInitInv'
<1> SUFFICES ASSUME CardInitInv, [InitNext]_miVars
             PROVE  CardInitInv'
  OBVIOUS
<1>1. CASE Start
  BY <1>1, InitStarts
<1>2. CASE Steps
  BY <1>2, CardResets, CardHearsVoltages, CardProbed, VoltageSelected, CardPoweredUp, CardIdentified,
     ExtCsdRead, TimingSet, BusWidened, BlockLengthGiven, ClockSet DEF Steps
<1>3. CASE UNCHANGED miVars
  BY <1>3 DEF miVars, CardInitInv, InitTypes, InitTypeOK, CardInStep, BeliefsRight, HostInStep, In, MaxHz
<1> QED BY <1>1, <1>2, <1>3 DEF InitNext

\* Host and card agree after every initialisation that succeeds, for every card,
\* whatever was refused or lost on the way: on the limit of the clock, on the
\* bus unless the outcome of a switch was lost, and on length and addresses of
\* blocks.
THEOREM InitialisationAgrees == InitSpec => []InitAgrees
BY InitBegins, InitStep, AgreesAtEnd, PTL DEF InitSpec
-----------------------------------------------------------------------------
(* MmcBlock.                                                               *)

BlockPlaces == {"idle", "check", "cmd", "xfer", "stop", "done", "abort", "decide",
                "settle", "next", "stuck", "return"}

Jobs == [op : {"none", "read", "write", "erase", "first"}, blk : Nat, cnt : Nat, round : {0, 1}]

BlockTypes ==
  /\ BlockTypeOK
  /\ job \in Jobs /\ mb_pc \in BlockPlaces
  /\ at \in Nat /\ left \in Nat /\ buf \in Nat
  /\ cmd_failed \in BOOLEAN
  /\ mb_pc \notin {"idle", "check", "return"} => left > 0
  /\ mb_pc # "idle" => job.op # "none" /\ job.cnt > 0

\* What the results of command, transfer and STOP say of each other.
ErrorsAgree ==
  /\ mb_pc = "stop" => err = derr
  /\ mb_pc = "abort" => err = derr /\ derr # NONE
  /\ mb_pc = "done" /\ derr = NONE /\ ~cmd_failed => err = NONE
  /\ mb_pc = "return" /\ err = NONE => left = 0

Landed == \A i \in 0 .. Now - 1 : <<at + i, buf + i>> \in moved

\* The blocks of the present round are in the buffer, or on the card.
RoundMoved ==
  \/ mb_pc \in {"stop", "done"} /\ derr = NONE
  \/ mb_pc = "decide" /\ err = NONE
  \/ mb_pc \in {"settle", "next"}
  => Landed

MovedBefore ==
  /\ at >= job.blk /\ at + left = job.blk + job.cnt
  /\ left > 0 => buf = at - job.blk
  /\ \A i \in 0 .. (at - job.blk) - 1 : <<job.blk + i, i>> \in moved

\* So are those of the rounds before, each in its place.
RoundsMoved == mb_pc # "idle" /\ job.op \in {"read", "write"} => MovedBefore

\* The card is ready where nothing has failed.
ReadyIfGood ==
  /\ mb_pc = "done" /\ derr = NONE /\ err = NONE /\ Reading => card_state = "tran"
  /\ mb_pc = "decide" /\ err = NONE /\ Reading => card_state = "tran"
  /\ mb_pc = "next" => card_state = "tran"
  /\ mb_pc = "check" /\ left = 0 => card_state = "tran"
  /\ mb_pc = "return" /\ err = NONE => card_state = "tran"

\* While every command is answered the driver knows the card's state.
BlockInStep ==
  ~cmd_failed =>
    /\ mb_pc \in {"idle", "check", "cmd", "next", "return"} => card_state = "tran"
    /\ mb_pc \in {"xfer", "stop"} => card_state = Taken
    /\ mb_pc = "done" /\ derr = NONE => card_state = StopTakes
    /\ mb_pc = "decide" => card_state = IF err = NONE THEN StopTakes ELSE "tran"

BlockInv ==
  /\ BlockTypes /\ ErrorsAgree /\ RoundMoved /\ RoundsMoved /\ ReadyIfGood /\ BlockInStep
  /\ CallsTellTruth

LEMMA BlockBegins == BlockInit => BlockInv
<1> SUFFICES ASSUME BlockInit
             PROVE  BlockInv
  OBVIOUS
<1>1. BlockTypeOK
  BY BlockBounds DEF BlockInit, BlockTypeOK, NONE, FMax, DevRetries
<1>2. job \in Jobs /\ cmd_failed \in BOOLEAN
  BY DEF BlockInit, Jobs
<1>3. BlockTypes
  BY <1>1, <1>2 DEF BlockInit, BlockTypes, BlockPlaces
<1> QED BY <1>3 DEF BlockInit, BlockInv, ErrorsAgree, RoundMoved, RoundsMoved, ReadyIfGood, BlockInStep,
             CallsTellTruth, CountMeansData, ReadyAfterSuccess, ReadyAfterBadData, Idle

\* What a step inside a round leaves as it is.
LEMMA CallKept ==
  ASSUME BlockInv, UNCHANGED callVars, mb_pc # "idle", mb_pc' # "idle"
  PROVE  /\ Now' = Now /\ (Multi' <=> Multi) /\ (Reading' <=> Reading) /\ (Landed' <=> Landed)
         /\ Taken' = Taken /\ StopTakes' = StopTakes
         /\ RoundsMoved' /\ CallsTellTruth'
<1>1. UNCHANGED <<job, at, left, buf, moved, ret>>
  BY DEF callVars
<1>2. /\ Now' = Now /\ (Multi' <=> Multi) /\ (Reading' <=> Reading)
      /\ Taken' = Taken /\ StopTakes' = StopTakes
  BY <1>1 DEF Now, Few, Multi, Reading, Taken, StopTakes
<1>3. (Landed' <=> Landed) /\ (MovedBefore' <=> MovedBefore)
  BY <1>1, <1>2 DEF Landed, MovedBefore
<1>4. RoundsMoved'
  BY <1>1, <1>3 DEF BlockInv, RoundsMoved
<1>5. CallsTellTruth'
  BY DEF CallsTellTruth, CountMeansData, ReadyAfterSuccess, ReadyAfterBadData, Idle
<1> QED BY <1>2, <1>3, <1>4, <1>5

LEMMA BeginStep ==
  ASSUME BlockInv,
         NEW op \in {"read", "write", "erase", "first"}, NEW blk \in Nat, NEW cnt \in Nat \ {0},
         Begin(op, blk, cnt)
  PROVE  BlockInv'
<1>1. /\ mb_pc = "idle" /\ mb_pc' = "check" /\ at' = blk /\ buf' = 0
      /\ job' = [op |-> op, blk |-> blk, cnt |-> cnt, round |-> 0]
      /\ left' = IF op = "erase" THEN 1 ELSE cnt
      /\ UNCHANGED <<card_state, sclk, retry, tune_at, err, derr>>
  BY DEF Begin
<1>2. cmd_failed' \in BOOLEAN /\ (~cmd_failed' => card_state = "tran")
  BY DEF Begin
<1>3. job'.op = op /\ job'.blk = blk /\ job'.cnt = cnt /\ job' \in Jobs
  BY <1>1 DEF Jobs
<1>4. left' \in 1 .. cnt
  BY <1>1
<1>5. BlockTypeOK'
  BY <1>1, <1>3, <1>4 DEF BlockInv, BlockTypes, BlockTypeOK
<1>6. BlockTypes'
  BY <1>1, <1>2, <1>3, <1>4, <1>5 DEF BlockTypes, BlockPlaces
<1>7. RoundsMoved'
  BY <1>1, <1>3, <1>4 DEF RoundsMoved, MovedBefore
<1>8. ErrorsAgree' /\ RoundMoved'
  BY <1>1 DEF ErrorsAgree, RoundMoved
<1>9. ReadyIfGood' /\ BlockInStep'
  BY <1>1, <1>2, <1>4 DEF ReadyIfGood, BlockInStep
<1>10. CallsTellTruth'
  BY <1>1 DEF CallsTellTruth, CountMeansData, ReadyAfterSuccess, ReadyAfterBadData, Idle
<1> QED BY <1>6, <1>7, <1>8, <1>9, <1>10 DEF BlockInv

LEMMA DivideStep == ASSUME BlockInv, Divide PROVE BlockInv'
<1>1. /\ mb_pc = "check" /\ mb_pc' \in {"return", "cmd"}
      /\ UNCHANGED <<card_state, sclk, callVars, cmd_failed>>
      /\ UNCHANGED <<job, at, left, buf, moved, ret>>
  BY DEF Divide, callVars
<1>2. /\ mb_pc' = "return" => /\ UNCHANGED <<retry, tune_at, derr>> /\ err' \in {NONE, INVALID}
                               /\ (err' = NONE => left = 0)
      /\ mb_pc' = "cmd" => left # 0 /\ retry' = DevRetries /\ tune_at' = 0 /\ err' = NONE /\ derr' = NONE
  BY DEF Divide, NONE, INVALID
<1>3. /\ (Reading' <=> Reading) /\ Taken' = Taken /\ StopTakes' = StopTakes
      /\ RoundsMoved' /\ CallsTellTruth'
  BY <1>1, CallKept
<1>4. BlockTypeOK'
  BY <1>1, <1>2, BlockBounds DEF BlockInv, BlockTypes, BlockTypeOK, NONE, INVALID, ErrorCodes, DevRetries
<1>5. BlockTypes'
  BY <1>1, <1>2, <1>4 DEF BlockInv, BlockTypes, BlockPlaces
<1>6. ErrorsAgree' /\ RoundMoved'
  BY <1>1, <1>2 DEF ErrorsAgree, RoundMoved
<1>7. ReadyIfGood'
  BY <1>1, <1>2 DEF BlockInv, ReadyIfGood
<1>8. BlockInStep'
  BY <1>1, <1>2 DEF BlockInv, BlockInStep
<1> QED BY <1>3, <1>5, <1>6, <1>7, <1>8 DEF BlockInv

LEMMA BlockCommandStep == ASSUME BlockInv, Command PROVE BlockInv'
<1>1. /\ mb_pc = "cmd" /\ mb_pc' \in {"xfer", "decide"} /\ derr' = NONE
      /\ UNCHANGED <<sclk, callVars, retry, tune_at>>
      /\ UNCHANGED <<job, at, left, buf, moved, ret>>
  BY DEF Command, callVars
<1>2. /\ card_state' \in {"tran", "data", "rcv", "prg"} /\ cmd_failed' \in BOOLEAN
      /\ err' \in {NONE, TIMEOUT, CMDTUNEFAIL}
      /\ mb_pc' = "xfer" => card_state' = Taken
      /\ mb_pc' = "decide" => err' # NONE /\ (~cmd_failed' => ~cmd_failed /\ card_state # "tran")
  <2> DEFINE R == {"tran", "data", "rcv", "prg"}
  <2>1. card_state \in R /\ Taken \in R /\ cmd_failed \in BOOLEAN
    BY DEF BlockInv, BlockTypes, BlockTypeOK, Taken
  <2>2. CASE card_state = "tran" /\ card_state' = Taken /\ err' = NONE /\ mb_pc' = "xfer" /\ UNCHANGED cmd_failed
    BY <2>1, <2>2
  <2>3. CASE /\ card_state # "tran" /\ err' = TIMEOUT /\ mb_pc' = "decide"
             /\ UNCHANGED <<card_state, cmd_failed>>
    BY <2>1, <2>3 DEF NONE, TIMEOUT
  <2>4. CASE /\ cmd_failed' = TRUE /\ mb_pc' = "decide" /\ err' \in {TIMEOUT, CMDTUNEFAIL}
             /\ card_state' \in {card_state} \cup
                  (IF card_state # "tran" THEN {} ELSE IF Reading /\ ~Multi THEN {"tran"} ELSE {Taken})
                  \cup (IF err' = CMDTUNEFAIL THEN {"tran"} ELSE {})
    <3>1. card_state' \in {card_state, "tran", Taken}
      BY <2>4
    <3> QED BY <3>1, <2>1, <2>4 DEF NONE, TIMEOUT, CMDTUNEFAIL
  <2> QED BY <2>2, <2>3, <2>4 DEF Command
<1>3. /\ (Reading' <=> Reading) /\ Taken' = Taken /\ StopTakes' = StopTakes
      /\ RoundsMoved' /\ CallsTellTruth'
  BY <1>1, CallKept
<1>4. BlockTypeOK'
  BY <1>1, <1>2 DEF BlockInv, BlockTypes, BlockTypeOK, NONE, TIMEOUT, CMDTUNEFAIL, ErrorCodes
<1>5. BlockTypes'
  BY <1>1, <1>2, <1>4 DEF BlockInv, BlockTypes, BlockPlaces
<1>6. ErrorsAgree' /\ RoundMoved'
  BY <1>1, <1>2 DEF ErrorsAgree, RoundMoved
<1>7. ReadyIfGood'
  BY <1>1, <1>2 DEF ReadyIfGood
<1>8. BlockInStep'
  BY <1>1, <1>2, <1>3 DEF BlockInv, BlockInStep
<1> QED BY <1>3, <1>5, <1>6, <1>7, <1>8 DEF BlockInv

LEMMA TransferStep == ASSUME BlockInv, Transfer PROVE BlockInv'
<1>1. /\ mb_pc = "xfer" /\ mb_pc' = (IF Multi THEN "stop" ELSE "done") /\ derr' = err'
      /\ UNCHANGED <<sclk, job, at, left, buf, ret, retry, tune_at, cmd_failed>>
  BY DEF Transfer
<1>2. /\ Now' = Now /\ (Multi' <=> Multi) /\ (Reading' <=> Reading)
      /\ Taken' = Taken /\ StopTakes' = StopTakes
  BY <1>1 DEF Now, Few, Multi, Reading, Taken, StopTakes
<1>3. /\ err' \in {NONE, BADCRC, TIMEOUT}
      /\ err' = NONE => card_state' = AfterSingle /\ moved' = moved \cup Transferred
      /\ err' # NONE => card_state' \in {card_state, AfterSingle} /\ UNCHANGED moved
  BY DEF Transfer, NONE, BADCRC, TIMEOUT
<1>4. card_state' \in {card_state, AfterSingle} /\ AfterSingle \in {card_state, "tran", "prg"}
  BY <1>3 DEF AfterSingle
<1>5. BlockTypeOK'
  BY <1>1, <1>3, <1>4 DEF BlockInv, BlockTypes, BlockTypeOK, NONE, TIMEOUT, BADCRC, ErrorCodes
<1>6. BlockTypes'
  BY <1>1, <1>5 DEF BlockInv, BlockTypes, BlockPlaces
<1>7. moved \subseteq moved' /\ (err' = NONE => Transferred \subseteq moved')
  BY <1>3
<1>8. RoundsMoved'
  <2>1. MovedBefore => MovedBefore'
    BY <1>1, <1>7 DEF MovedBefore
  <2> QED BY <2>1, <1>1 DEF BlockInv, RoundsMoved
<1>9. RoundMoved'
  <2>1. err' = NONE => \A i \in 0 .. Now - 1 : <<at + i, buf + i>> \in moved'
    BY <1>7 DEF Transferred
  <2>2. err' = NONE => Landed'
    BY <2>1, <1>1, <1>2 DEF Landed
  <2> QED BY <2>2, <1>1 DEF RoundMoved
<1>10. ErrorsAgree'
  BY <1>1 DEF ErrorsAgree
<1>11. ReadyIfGood'
  BY <1>1, <1>2, <1>3 DEF ReadyIfGood, AfterSingle
<1>12. BlockInStep'
  <2>1. ASSUME ~cmd_failed
        PROVE  card_state = Taken
    BY <1>1, <2>1 DEF BlockInv, BlockInStep
  <2>2. Multi => AfterSingle = card_state
    BY DEF AfterSingle
  <2>3. ~Multi => AfterSingle = StopTakes
    BY DEF AfterSingle, StopTakes
  <2> QED BY <2>1, <2>2, <2>3, <1>1, <1>2, <1>3, <1>4 DEF BlockInStep
<1>13. CallsTellTruth'
  BY <1>1 DEF CallsTellTruth, CountMeansData, ReadyAfterSuccess, ReadyAfterBadData, Idle
<1> QED BY <1>6, <1>8, <1>9, <1>10, <1>11, <1>12, <1>13 DEF BlockInv

LEMMA StopStep == ASSUME BlockInv, Stop PROVE BlockInv'
<1>1. /\ mb_pc = "stop" /\ mb_pc' = "done"
      /\ UNCHANGED <<sclk, callVars, retry, tune_at, derr>>
      /\ UNCHANGED <<job, at, left, buf, moved, ret>>
  BY DEF Stop, callVars
<1>2. \/ card_state' = StopTakes /\ UNCHANGED <<err, cmd_failed>>
      \/ err' = FAILED /\ cmd_failed' = TRUE /\ card_state' \in {card_state, StopTakes}
  BY DEF Stop
<1>3. /\ (Reading' <=> Reading) /\ Taken' = Taken /\ StopTakes' = StopTakes /\ (Landed' <=> Landed)
      /\ RoundsMoved' /\ CallsTellTruth'
  BY <1>1, CallKept
<1>4. StopTakes \in {"tran", "prg"} /\ cmd_failed' \in BOOLEAN
  BY <1>2 DEF StopTakes, BlockInv, BlockTypes
<1>5. BlockTypeOK'
  BY <1>1, <1>2, <1>4 DEF BlockInv, BlockTypes, BlockTypeOK, NONE, FAILED, ErrorCodes
<1>6. BlockTypes'
  BY <1>1, <1>4, <1>5 DEF BlockInv, BlockTypes, BlockPlaces
<1>7. ErrorsAgree' /\ RoundMoved'
  BY <1>1, <1>2, <1>3 DEF BlockInv, ErrorsAgree, RoundMoved
<1>8. ReadyIfGood'
  BY <1>1, <1>2, <1>3 DEF BlockInv, ErrorsAgree, ReadyIfGood, StopTakes, NONE, FAILED
<1>9. BlockInStep'
  BY <1>1, <1>2, <1>3 DEF BlockInv, BlockInStep
<1> QED BY <1>3, <1>6, <1>7, <1>8, <1>9 DEF BlockInv

LEMMA DoneStep == ASSUME BlockInv, Done PROVE BlockInv'
<1>1. /\ mb_pc = "done" /\ mb_pc' = (IF derr # NONE THEN "abort" ELSE "decide")
      /\ err' = (IF derr = NONE THEN err ELSE derr)
      /\ UNCHANGED <<card_state, sclk, callVars, retry, tune_at, derr, cmd_failed>>
      /\ UNCHANGED <<job, at, left, buf, moved, ret>>
  BY DEF Done, MustAbort, callVars
<1>2. /\ (Reading' <=> Reading) /\ Taken' = Taken /\ StopTakes' = StopTakes /\ (Landed' <=> Landed)
      /\ RoundsMoved' /\ CallsTellTruth'
  BY <1>1, CallKept
<1>3. BlockTypeOK'
  BY <1>1 DEF BlockInv, BlockTypes, BlockTypeOK, NONE, TIMEOUT, BADCRC, ErrorCodes
<1>4. BlockTypes'
  BY <1>1, <1>3 DEF BlockInv, BlockTypes, BlockPlaces
<1>5. ErrorsAgree' /\ RoundMoved'
  BY <1>1, <1>2 DEF BlockInv, ErrorsAgree, RoundMoved
<1>6. ReadyIfGood'
  BY <1>1, <1>2 DEF BlockInv, ReadyIfGood
<1>7. BlockInStep'
  BY <1>1, <1>2 DEF BlockInv, BlockInStep, ErrorsAgree
<1> QED BY <1>2, <1>4, <1>5, <1>6, <1>7 DEF BlockInv

LEMMA AbortStep == ASSUME BlockInv, AbortTransfer PROVE BlockInv'
<1>1. /\ mb_pc = "abort" /\ mb_pc' \in {"abort", "decide"}
      /\ UNCHANGED <<sclk, callVars, retry, tune_at, err, derr>>
      /\ UNCHANGED <<job, at, left, buf, moved, ret>>
  BY DEF AbortTransfer, callVars
<1>2. /\ card_state' \in {card_state, "tran", "prg"} /\ cmd_failed' \in BOOLEAN
      /\ ~cmd_failed' => ~cmd_failed /\ (mb_pc' = "decide" => card_state' = "tran")
  BY <1>1 DEF AbortTransfer, BlockInv, BlockTypes
<1>3. RoundsMoved' /\ CallsTellTruth' /\ (Reading' <=> Reading)
  BY <1>1, CallKept
<1>4. BlockTypeOK'
  BY <1>1, <1>2 DEF BlockInv, BlockTypes, BlockTypeOK
<1>5. BlockTypes'
  BY <1>1, <1>2, <1>4 DEF BlockInv, BlockTypes, BlockPlaces
<1>6. err' # NONE /\ ErrorsAgree'
  BY <1>1 DEF BlockInv, ErrorsAgree
<1>7. RoundMoved' /\ ReadyIfGood' /\ BlockInStep'
  BY <1>1, <1>2, <1>6 DEF RoundMoved, ReadyIfGood, BlockInStep
<1> QED BY <1>3, <1>5, <1>6, <1>7 DEF BlockInv

LEMMA SlowerStays ==
  ASSUME BlockTypes
  PROVE  Slower \in FMax \div 32 .. 8
<1>1. sclk \in Int /\ sclk >= 1 /\ sclk <= 8
  BY DEF BlockTypes, BlockTypeOK, FMax
<1>2. sclk > 2 => sclk \div 2 \in Int /\ sclk \div 2 >= 1 /\ sclk \div 2 <= 8
  BY <1>1, SMT
<1> QED BY <1>1, <1>2 DEF Slower, FMax

LEMMA ReadDecideStep == ASSUME BlockInv, ReadDecide PROVE BlockInv'
<1> DEFINE tuned == tune_at > 0 /\ (err \in {NONE, CMDTUNEFAIL} \/ tune_at = TuneSteps)
<1>1. /\ mb_pc = "decide" /\ Reading
      /\ UNCHANGED <<card_state, callVars, derr, cmd_failed>>
      /\ UNCHANGED <<job, at, left, buf, moved, ret>>
  BY DEF ReadDecide, callVars
<1>2. /\ retry \in 0 .. 3 /\ tune_at \in 0 .. TuneSteps /\ sclk \in FMax \div 32 .. 8
      /\ err \in {NONE} \cup ErrorCodes /\ BlockTypes
  BY DEF BlockInv, BlockTypes, BlockTypeOK, DevRetries
<1>3. /\ mb_pc' \in {"cmd", "next", "return"} /\ err' \in {NONE} \cup ErrorCodes
      /\ (err' = NONE <=> err = NONE) /\ (mb_pc' = "next" <=> err = NONE)
      /\ sclk' \in {sclk, Slower} /\ retry' \in 0 .. 3 /\ tune_at' \in 0 .. TuneSteps
  <2>1. CASE tune_at > 0 /\ ~tuned
    <3>1. mb_pc' = "cmd" /\ tune_at' = tune_at + 1 /\ UNCHANGED <<retry, err, sclk>>
      BY <2>1 DEF ReadDecide
    <3>2. err # NONE /\ tune_at # TuneSteps
      BY <2>1
    <3> QED BY <3>1, <3>2, <1>2, BlockBounds
  <2>2. CASE ~(tune_at > 0 /\ ~tuned)
    <3>1. /\ err' = IF tune_at > 0 /\ err \notin {NONE, CMDTUNEFAIL} THEN BADCRC ELSE err
          /\ sclk' = IF tune_at > 0 THEN Slower ELSE sclk
          /\ IF err' = NONE THEN mb_pc' = "next" /\ UNCHANGED <<retry, tune_at>>
             ELSE IF err' = CMDTUNEFAIL THEN GiveUp
             ELSE IF err' = BADCRC THEN mb_pc' = "cmd" /\ tune_at' = 1 /\ UNCHANGED retry
             ELSE IF retry = 0 THEN GiveUp
             ELSE mb_pc' = "cmd" /\ retry' = CountRetry /\ UNCHANGED tune_at
      BY <2>2 DEF ReadDecide
    <3>2. err' \in {NONE} \cup ErrorCodes /\ (err' = NONE <=> err = NONE) /\ sclk' \in {sclk, Slower}
      BY <3>1, <1>2 DEF NONE, BADCRC, ErrorCodes
    <3>3. retry' \in 0 .. 3 /\ tune_at' \in 0 .. TuneSteps
      BY <3>1, <1>2, BlockBounds DEF GiveUp, CountRetry
    <3>4. mb_pc' \in {"cmd", "next", "return"} /\ (mb_pc' = "next" <=> err' = NONE)
      BY <3>1 DEF GiveUp
    <3> QED BY <3>2, <3>3, <3>4
  <2> QED BY <2>1, <2>2
<1>4. /\ (Reading' <=> Reading) /\ Taken' = Taken /\ StopTakes' = StopTakes /\ (Landed' <=> Landed)
      /\ RoundsMoved' /\ CallsTellTruth'
  BY <1>1, <1>3, CallKept
<1>5. sclk' \in FMax \div 32 .. 8
  BY <1>2, <1>3, SlowerStays
<1>6. BlockTypeOK'
  BY <1>1, <1>3, <1>5 DEF BlockInv, BlockTypes, BlockTypeOK, DevRetries
<1>7. BlockTypes'
  BY <1>1, <1>3, <1>6 DEF BlockInv, BlockTypes, BlockPlaces
<1>8. ErrorsAgree' /\ RoundMoved'
  BY <1>1, <1>3, <1>4 DEF BlockInv, ErrorsAgree, RoundMoved
<1>9. ReadyIfGood'
  BY <1>1, <1>3 DEF BlockInv, ReadyIfGood
<1>10. BlockInStep'
  BY <1>1, <1>3 DEF BlockInv, BlockInStep, StopTakes
<1> QED BY <1>4, <1>7, <1>8, <1>9, <1>10 DEF BlockInv

LEMMA WriteDecideStep == ASSUME BlockInv, WriteDecide PROVE BlockInv'
<1>1. /\ mb_pc = "decide" /\ ~Reading
      /\ UNCHANGED <<card_state, callVars, derr, cmd_failed, err, sclk>>
      /\ UNCHANGED <<job, at, left, buf, moved, ret>>
  BY DEF WriteDecide, callVars
<1>2. /\ retry \in 0 .. 3 /\ tune_at \in 0 .. TuneSteps
  BY DEF BlockInv, BlockTypes, BlockTypeOK, DevRetries
<1>3. /\ mb_pc' \in {"cmd", "settle", "stuck", "return"} /\ (mb_pc' = "settle" <=> err = NONE)
      /\ retry' \in 0 .. 3 /\ tune_at' \in 0 .. TuneSteps
  <2>1. CASE err = NONE
    BY <2>1, <1>2 DEF WriteDecide, NONE, CMDTUNEFAIL, BADCRC
  <2>2. CASE err = CMDTUNEFAIL
    BY <2>2, <1>2 DEF WriteDecide, GiveUp, NONE, CMDTUNEFAIL, BADCRC
  <2>3. CASE err = BADCRC
    BY <2>3, <1>2, BlockBounds DEF WriteDecide, NONE, CMDTUNEFAIL, BADCRC
  <2>4. CASE err \notin {NONE, CMDTUNEFAIL, BADCRC}
    <3>1. IF retry = 0 THEN GiveUp ELSE mb_pc' = "cmd" /\ retry' = CountRetry /\ UNCHANGED tune_at
      BY <2>4 DEF WriteDecide
    <3> QED BY <3>1, <2>4, <1>2 DEF GiveUp, CountRetry
  <2> QED BY <2>1, <2>2, <2>3, <2>4
<1>4. /\ (Reading' <=> Reading) /\ Taken' = Taken /\ StopTakes' = StopTakes /\ (Landed' <=> Landed)
      /\ RoundsMoved' /\ CallsTellTruth'
  BY <1>1, <1>3, CallKept
<1>5. BlockTypeOK'
  BY <1>1, <1>3 DEF BlockInv, BlockTypes, BlockTypeOK, DevRetries
<1>6. BlockTypes'
  BY <1>1, <1>3, <1>5 DEF BlockInv, BlockTypes, BlockPlaces
<1>7. ErrorsAgree' /\ RoundMoved'
  BY <1>1, <1>3, <1>4 DEF BlockInv, ErrorsAgree, RoundMoved
<1>8. ReadyIfGood' /\ BlockInStep'
  BY <1>1, <1>3 DEF BlockInv, ReadyIfGood, BlockInStep
<1> QED BY <1>4, <1>6, <1>7, <1>8 DEF BlockInv

LEMMA StuckStep == ASSUME BlockInv, Stuck PROVE BlockInv'
<1>1. /\ mb_pc = "stuck" /\ mb_pc' = "stuck" /\ sclk' = Slower
      /\ UNCHANGED <<card_state, callVars, retry, tune_at, err, derr, cmd_failed>>
      /\ UNCHANGED <<job, at, left, buf, moved, ret>>
  BY DEF Stuck, callVars
<1>2. RoundsMoved' /\ CallsTellTruth'
  BY <1>1, CallKept
<1>3. sclk' \in FMax \div 32 .. 8
  BY <1>1, SlowerStays DEF BlockInv
<1>4. BlockTypeOK'
  BY <1>1, <1>3 DEF BlockInv, BlockTypes, BlockTypeOK
<1>5. BlockTypes'
  BY <1>1, <1>4 DEF BlockInv, BlockTypes
<1>6. ErrorsAgree' /\ RoundMoved' /\ ReadyIfGood' /\ BlockInStep'
  BY <1>1 DEF ErrorsAgree, RoundMoved, ReadyIfGood, BlockInStep
<1> QED BY <1>2, <1>5, <1>6 DEF BlockInv

LEMMA BlockSettleStep == ASSUME BlockInv, Settle PROVE BlockInv'
<1>1. /\ mb_pc = "settle" /\ mb_pc' \in {"settle", "next", "return"}
      /\ UNCHANGED <<sclk, callVars, retry, tune_at, derr>>
      /\ UNCHANGED <<job, at, left, buf, moved, ret>>
  BY DEF Settle, callVars
<1>2. /\ card_state' \in {card_state, "tran"} /\ cmd_failed' \in BOOLEAN
      /\ err' \in {err, TIMEOUT, CMDTUNEFAIL}
      /\ mb_pc' = "return" => err' # NONE /\ cmd_failed' = TRUE
      /\ mb_pc' = "next" => card_state' = "tran" /\ cmd_failed' = cmd_failed
  <2>1. cmd_failed \in BOOLEAN
    BY DEF BlockInv, BlockTypes
  <2>2. CASE card_state = "tran" /\ mb_pc' = "next" /\ UNCHANGED <<card_state, err, cmd_failed>>
    BY <2>1, <2>2
  <2>3. CASE card_state' = "tran" /\ UNCHANGED <<mb_pc, err, cmd_failed>>
    BY <2>1, <2>3, <1>1
  <2>4. CASE /\ err' \in {TIMEOUT, CMDTUNEFAIL} /\ cmd_failed' = TRUE
             /\ mb_pc' = "return" /\ UNCHANGED card_state
    BY <2>4 DEF NONE, TIMEOUT, CMDTUNEFAIL
  <2> QED BY <2>2, <2>3, <2>4 DEF Settle, Settled
<1>3. RoundsMoved' /\ CallsTellTruth' /\ (Landed' <=> Landed)
  BY <1>1, CallKept
<1>4. BlockTypeOK'
  BY <1>1, <1>2 DEF BlockInv, BlockTypes, BlockTypeOK, NONE, TIMEOUT, CMDTUNEFAIL, ErrorCodes
<1>5. BlockTypes'
  BY <1>1, <1>2, <1>4 DEF BlockInv, BlockTypes, BlockPlaces
<1>6. ErrorsAgree' /\ RoundMoved'
  BY <1>1, <1>2, <1>3 DEF BlockInv, ErrorsAgree, RoundMoved
<1>7. ReadyIfGood' /\ BlockInStep'
  BY <1>1, <1>2 DEF ReadyIfGood, BlockInStep
<1> QED BY <1>3, <1>5, <1>6, <1>7 DEF BlockInv

LEMMA AdvanceStep == ASSUME BlockInv, Advance PROVE BlockInv'
<1>1. /\ mb_pc = "next" /\ mb_pc' = "check"
      /\ at' = at + Now /\ left' = left - Now /\ buf' = buf + MaxBlks
      /\ UNCHANGED <<card_state, sclk, job, moved, ret, retry, tune_at, err, derr, cmd_failed>>
  BY DEF Advance
<1>2. /\ left \in Nat /\ left > 0 /\ at \in Nat /\ buf \in Nat /\ MaxBlks \in Nat \ {0}
      /\ job.blk \in Nat /\ job.cnt \in Nat /\ left <= job.cnt
  BY <1>1, BlockBounds DEF BlockInv, BlockTypes, BlockTypeOK, Jobs
<1>3. Now \in 1 .. left /\ (left - Now > 0 => Now = MaxBlks)
  BY <1>2 DEF Now, Few
<1> DEFINE n == Now
<1> HIDE DEF n
<1>4. n \in 1 .. left /\ at' = at + n /\ left' = left - n /\ (left' > 0 => n = MaxBlks)
  BY <1>1, <1>3 DEF n
<1>5. left' \in 0 .. job.cnt
  BY <1>2, <1>4
<1>6. BlockTypeOK'
  BY <1>1, <1>5 DEF BlockInv, BlockTypes, BlockTypeOK
<1>7. at' \in Nat /\ left' \in Nat /\ buf' \in Nat
  BY <1>1, <1>2, <1>4
<1>8. BlockTypes'
  BY <1>1, <1>6, <1>7 DEF BlockInv, BlockTypes, BlockPlaces
<1>9. RoundsMoved'
  <2> SUFFICES ASSUME job.op \in {"read", "write"}
               PROVE  MovedBefore'
    BY <1>1 DEF RoundsMoved
  <2>1. MovedBefore
    BY <1>1 DEF BlockInv, RoundsMoved
  <2>2. \A i \in 0 .. n - 1 : <<at + i, buf + i>> \in moved
    BY <1>1 DEF BlockInv, RoundMoved, Landed, n
  <2>3. /\ at >= job.blk /\ at + left = job.blk + job.cnt /\ buf = at - job.blk
        /\ \A i \in 0 .. (at - job.blk) - 1 : <<job.blk + i, i>> \in moved
    BY <2>1, <1>2 DEF MovedBefore
  <2>4. /\ at' >= job.blk /\ at' + left' = job.blk + job.cnt
        /\ left' > 0 => buf' = at' - job.blk
    BY <2>3, <1>1, <1>2, <1>4
  <2>5. ASSUME NEW i \in 0 .. (at' - job.blk) - 1
        PROVE  <<job.blk + i, i>> \in moved
    <3>1. CASE i < at - job.blk
      <4>1. i \in 0 .. (at - job.blk) - 1
        BY <3>1, <2>3, <1>2, <1>4
      <4> QED BY <4>1, <2>3
    <3>2. CASE i >= at - job.blk
      <4>1. i - buf \in 0 .. n - 1 /\ at + (i - buf) = job.blk + i /\ buf + (i - buf) = i
        BY <3>2, <2>3, <2>5, <1>2, <1>4
      <4> QED BY <4>1, <2>2
    <3>3. i \in Int /\ at - job.blk \in Int
      BY <1>2, <1>4, <2>5
    <3> QED BY <3>1, <3>2, <3>3
  <2> QED BY <2>4, <2>5, <1>1 DEF MovedBefore
<1>10. ErrorsAgree' /\ RoundMoved'
  BY <1>1 DEF ErrorsAgree, RoundMoved
<1>11. ReadyIfGood' /\ BlockInStep'
  BY <1>1 DEF BlockInv, ReadyIfGood, BlockInStep
<1>12. CallsTellTruth'
  BY <1>1 DEF CallsTellTruth, CountMeansData, ReadyAfterSuccess, ReadyAfterBadData, Idle
<1> QED BY <1>8, <1>9, <1>10, <1>11, <1>12 DEF BlockInv

LEMMA BlockFinishStep == ASSUME BlockInv, Finish PROVE BlockInv'
<1>1. /\ mb_pc = "return" /\ mb_pc' \in {"check", "idle"}
      /\ UNCHANGED <<card_state, sclk, moved, retry, tune_at, err, derr, cmd_failed>>
  BY DEF Finish
<1>2. /\ job \in Jobs /\ job.op \in {"read", "write", "erase", "first"} /\ job.cnt > 0
      /\ at \in Nat /\ left \in Nat /\ buf \in Nat /\ left <= job.cnt
  BY <1>1 DEF BlockInv, BlockTypes, BlockTypeOK, Jobs
<1>3. /\ at' \in Nat /\ buf' \in Nat /\ left' \in {1, left}
      /\ mb_pc' = "check" => left' = 1 /\ job.op \in {"erase", "first"}
      /\ job.op \in {"read", "write"} => /\ mb_pc' = "idle" /\ ret' = Result
                                         /\ UNCHANGED <<job, at, left, buf>>
  <2>1. CASE job.op = "erase"
    BY <2>1, <1>2 DEF Finish
  <2>2. CASE job.op = "first"
    BY <2>2, <1>2 DEF Finish
  <2>3. CASE job.op \in {"read", "write"}
    BY <2>3, <1>2 DEF Finish
  <2> QED BY <2>1, <2>2, <2>3, <1>2
<1>4. job' \in Jobs /\ job'.op = job.op /\ job'.blk = job.blk /\ job'.cnt = job.cnt
  <2>1. UNCHANGED job \/ job' = [job EXCEPT !.round = 1]
    BY DEF Finish
  <2> QED BY <2>1, <1>2 DEF Jobs
<1>5. left' \in 0 .. job'.cnt /\ left' \in Nat
  BY <1>2, <1>3, <1>4 DEF Jobs
<1>6. BlockTypeOK'
  BY <1>1, <1>5 DEF BlockInv, BlockTypes, BlockTypeOK
<1>7. BlockTypes'
  BY <1>1, <1>2, <1>3, <1>4, <1>5, <1>6 DEF BlockInv, BlockTypes, BlockPlaces
<1>8. ErrorsAgree' /\ RoundMoved' /\ RoundsMoved'
  BY <1>1, <1>3, <1>4 DEF ErrorsAgree, RoundMoved, RoundsMoved
<1>9. ReadyIfGood' /\ BlockInStep'
  BY <1>1, <1>3 DEF BlockInv, ReadyIfGood, BlockInStep
<1>10. CountMeansData'
  <2> SUFFICES ASSUME job'.op \in {"read", "write"}, ret' = job'.cnt, ret' \notin ErrorCodes
               PROVE  \A i \in 0 .. job'.cnt - 1 : <<job'.blk + i, i>> \in moved'
    BY DEF CountMeansData, Idle
  <2>1. ret' = Result /\ MovedBefore
    BY <1>1, <1>3, <1>4 DEF BlockInv, RoundsMoved
  <2>2. err = NONE
    BY <2>1 DEF Result, BlockInv, BlockTypes, BlockTypeOK
  <2>3. left = 0
    BY <2>2, <1>1 DEF BlockInv, ErrorsAgree
  <2>4. at - job.blk = job.cnt
    BY <2>1, <2>3, <1>2 DEF MovedBefore, Jobs
  <2> QED BY <2>1, <2>4, <1>1, <1>4 DEF MovedBefore
<1>11. ReadyAfterSuccess' /\ ReadyAfterBadData'
  BY <1>1 DEF BlockInv, ReadyIfGood, BlockInStep, ReadyAfterSuccess, ReadyAfterBadData, Idle
<1> QED BY <1>7, <1>8, <1>9, <1>10, <1>11 DEF BlockInv, CallsTellTruth

LEMMA BlockStep == BlockInv /\ [BlockNext]_mbVars => BlockInv'
<1> SUFFICES ASSUME BlockInv, [BlockNext]_mbVars
             PROVE  BlockInv'
  OBVIOUS
<1>1. CASE Working
  BY <1>1, DivideStep, BlockCommandStep, TransferStep, StopStep, DoneStep, AbortStep, ReadDecideStep,
     WriteDecideStep, StuckStep, BlockSettleStep, AdvanceStep, BlockFinishStep DEF Working
<1>2. CASE \E op \in {"read", "write", "erase"}, blk \in Starts, cnt \in Counts : Begin(op, blk, cnt)
  <2>1. PICK op \in {"read", "write", "erase"}, blk \in Nat, cnt \in Nat \ {0} : Begin(op, blk, cnt)
    BY <1>2, BlockBounds
  <2> QED BY <2>1, BeginStep
<1>3. CASE Begin("first", 0, 1)
  BY <1>3, BeginStep
<1>4. CASE UNCHANGED mbVars
  <2>1. UNCHANGED <<card_state, sclk, job, mb_pc, at, left, buf, retry, tune_at, err, derr, moved,
                    cmd_failed, ret>>
    BY <1>4 DEF mbVars
  <2>2. /\ Now' = Now /\ (Reading' <=> Reading) /\ Taken' = Taken /\ StopTakes' = StopTakes
    BY <2>1 DEF Now, Few, Reading, Taken, StopTakes
  <2>3. BlockTypes' /\ ErrorsAgree' /\ ReadyIfGood' /\ BlockInStep'
    BY <2>1, <2>2 DEF BlockInv, BlockTypes, BlockTypeOK, ErrorsAgree, ReadyIfGood, BlockInStep
  <2>4. (Landed' <=> Landed) /\ (MovedBefore' <=> MovedBefore)
    BY <2>1, <2>2 DEF Landed, MovedBefore
  <2>5. RoundMoved' /\ RoundsMoved'
    BY <2>1, <2>4 DEF BlockInv, RoundMoved, RoundsMoved
  <2>6. CallsTellTruth'
    BY <2>1 DEF BlockInv, CallsTellTruth, CountMeansData, ReadyAfterSuccess, ReadyAfterBadData, Idle
  <2> QED BY <2>3, <2>5, <2>6 DEF BlockInv
<1> QED BY <1>1, <1>2, <1>3, <1>4 DEF BlockNext

\* For requests of any length, cards of any size and any limit on a transfer:
\* a count that is returned means that every block went to its place, and the
\* card is ready after a success and after bad data (mmc_core.c:3450-3540,
\* msdc.c:3179-3188).
THEOREM BlockCallsTellTruth == BlockSpec => []CallsTellTruth
<1>1. BlockInv => CallsTellTruth
  BY DEF BlockInv
<1> QED BY <1>1, BlockBegins, BlockStep, PTL DEF BlockSpec
=============================================================================
