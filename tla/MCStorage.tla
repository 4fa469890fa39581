------------------------------ MODULE MCStorage ------------------------------
(***************************************************************************)
(* The drivers of the card and of the SPI flash, and the partition table   *)
(* of the NAND flash, checked in one run: part says which one a behaviour  *)
(* is about, the state of the others stays as it is.                       *)
(***************************************************************************)
EXTENDS MsdcCommand, MmcBlock, MmcInit, NorFlash, Pmt

VARIABLE part

Card        == <<cmVars, mbVars, miVars>>
storageVars == <<part, Card, norVars, pmtVars>>

MCCardTypes ==
  { t \in [kind : {"sd", "mmc"}, v4 : BOOLEAN, hs_max : {0, 26, 52}, max_dtr : {20, 25},
           ddr : BOOLEAN, highcaps : BOOLEAN, volt33 : BOOLEAN] :
      /\ t.kind = "sd" => ~t.v4 /\ t.max_dtr = 25
      /\ t.kind = "mmc" => t.max_dtr = 20
      /\ ~t.v4 => t.hs_max = 0
      /\ t.ddr => t.hs_max = 52
      /\ ~t.volt33 => t.kind = "sd" /\ ~t.highcaps }

\* Single bytes, a buffer, a buffer between single bytes, a call that reaches
\* the end of the chip and one that passes it, nothing at all; one sector that
\* begins with the region and one that does not, the whole chip, and a length
\* that is refused.
MCNorCalls ==
  {[op |-> "write", addr |-> 1, len |-> 1], [op |-> "write", addr |-> 1, len |-> 4],
   [op |-> "write", addr |-> 2, len |-> 3], [op |-> "write", addr |-> 4, len |-> 3],
   [op |-> "write", addr |-> 0, len |-> 0],
   [op |-> "erase", addr |-> 2, len |-> 4], [op |-> "erase", addr |-> 3, len |-> 2],
   [op |-> "erase", addr |-> 0, len |-> 6], [op |-> "erase", addr |-> 0, len |-> 3],
   [op |-> "read",  addr |-> 0, len |-> 2]}

\* Blocks of four pages; what the tool that writes the flash can have left,
\* and what earlier starts and losses of power make of it.
MCCompiled == << <<0, 1>>, <<1, 2>>, <<0, 0>> >>
MCOld      == << <<0, 2>>, <<2, 1>>, <<0, 0>> >>
MCNew      == << <<0, 1>>, <<1, 1>>, <<2, 1>> >>
MCTables   == {MCOld, MCNew}

Clean == [k \in 0 .. 3 |-> Empty]

MainBlocks   == {Clean, [Clean EXCEPT ![0] = Page("PT", MCNew)],
                 [Clean EXCEPT ![0] = Junk, ![1] = Page("PT", MCNew)],
                 [k \in 0 .. 3 |-> IF k = 3 THEN Empty ELSE Junk], [k \in 0 .. 3 |-> Junk]}

MirrorBlocks == {Clean, [Clean EXCEPT ![0] = Page("MPT", MCOld), ![1] = Page("MPT", MCOld)],
                 [k \in 0 .. 3 |-> Page("MPT", IF k < 2 THEN MCOld ELSE MCNew)],
                 [k \in 0 .. 3 |-> IF k = 0 THEN Page("MPT", MCOld) ELSE Junk]}

MCFlashes == {[main |-> m, mirror |-> n] : m \in MainBlocks, n \in MirrorBlocks}
-----------------------------------------------------------------------------
AnyCard == CHOOSE t \in CardTypes : TRUE

\* One initial state for each part a behaviour is not about.
OthersStill ==
  /\ part # "init" => type = AnyCard /\ caps = [pins |-> 4, ddr |-> TRUE] /\ icard = Fresh
  /\ part # "nor"  => cells = [a \in Bytes |-> "ff"]
  /\ part # "pmt"  => pm_flash = [main |-> Clean, mirror |-> Clean] /\ pm_full = P

StorageInit ==
  /\ part \in {"command", "block", "init", "nor", "pmt"}
  /\ CommandInit /\ BlockInit /\ InitInit /\ NorInit /\ PmtInit
  /\ OthersStill

Alone(p) == part = p /\ UNCHANGED part

CardAlone   == UNCHANGED <<norVars, pmtVars>>
OnlyCommand == UNCHANGED <<mbVars, miVars>> /\ CardAlone
OnlyBlock   == UNCHANGED <<cmVars, miVars>> /\ CardAlone
OnlyInit    == UNCHANGED <<cmVars, mbVars>> /\ CardAlone
OnlyNor     == UNCHANGED <<Card, pmtVars>>
OnlyPmt     == UNCHANGED <<Card, norVars>>

CommandPart == Alone("command") /\ CommandNext /\ OnlyCommand
BlockPart   == Alone("block") /\ BlockNext /\ OnlyBlock
InitPart    == Alone("init") /\ InitNext /\ OnlyInit
NorPart     == Alone("nor") /\ NorNext /\ OnlyNor
PmtPart     == Alone("pmt") /\ PmtNext /\ OnlyPmt

StorageNext == CommandPart \/ BlockPart \/ InitPart \/ NorPart \/ PmtPart

\* A driver goes on with a call once it has begun, and U-Boot starts; calls,
\* faults and losses of power need not come.
Work == \/ Alone("command") /\ Running /\ OnlyCommand
        \/ Alone("block") /\ Working /\ OnlyBlock
        \/ Alone("init") /\ Steps /\ OnlyInit
        \/ Alone("nor") /\ Drive /\ OnlyNor
        \/ Alone("pmt") /\ PmtStep /\ OnlyPmt

\* The SPI flash finishes what it has begun.
ChipWork == Alone("nor") /\ ChipDone /\ OnlyNor

StorageSpec == StorageInit /\ [][StorageNext]_storageVars
               /\ WF_storageVars(Work) /\ WF_storageVars(ChipWork)
-----------------------------------------------------------------------------
\* Registers, states of the cards and flashes, and counters of retries have
\* values they can have, in each of the five parts.
StorageTypeOK == CommandTypeOK /\ BlockTypeOK /\ InitTypeOK /\ NorTypeOK /\ PmtTypeOK

Begun == \/ part = "command" /\ InCommand
         \/ part = "block" /\ mb_pc # "idle"
         \/ part = "nor" /\ nor_pc # "idle"
         \/ part = "pmt" /\ pm_pc # "ready"

Ended == \/ part = "command" /\ ~InCommand
         \/ part = "block" /\ CallEnds
         \/ part = "nor" /\ nor_pc = "idle"
         \/ part = "pmt" /\ pm_pc = "ready"

\* What is begun ends, however many responses and waits fail and in spite of
\* loops that retry inside each other: each command to the card, if its line
\* does not stay busy (the tuning waits for that without a limit, msdc.c:3637),
\* each block call but those CallEnds excepts, each call to the SPI flash, and
\* the search for the partition table at each start of U-Boot.
StorageReturns == Begun ~> Ended
=============================================================================
