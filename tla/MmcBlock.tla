------------------------------ MODULE MmcBlock ------------------------------
(***************************************************************************)
(* Reading and writing blocks of the card: mmc_core.c divides a request    *)
(* into transfers, msdc.c does one with a command, the data and a STOP,    *)
(* and when something fails there are retries, a slower clock and a search *)
(* for the sampling delay.  The card takes no other command while it       *)
(* waits for the end of a transfer.                                        *)
(***************************************************************************)
EXTENDS Integers

CONSTANTS
  NBlks,         \* card->nblks
  MaxBlks,       \* host->max_phys_segs
  Starts, Counts, \* first blocks and block counts that are asked for
  TuneSteps,     \* settings of msdc_tune_bread, 64 in the hardware
  BlockFaults    \* bound: how many commands and transfers go wrong

\* A request for no blocks returns before it does anything
\* (mmc_core.c:3464, 3502) and is left out.
ASSUME BlockBounds ==
  /\ NBlks \in Nat /\ MaxBlks \in Nat \ {0} /\ TuneSteps \in Nat \ {0}
  /\ Starts \subseteq Nat /\ Counts \subseteq Nat \ {0}

NONE     == 0     \* the error codes of mmc_core.h
TIMEOUT  == 1
BADCRC   == 2
FAILED   == 4
INVALID  == 5
CMDTUNEFAIL == 6
ErrorCodes == 1 .. 11

DevRetries == 3
FMax       == 32     \* host->f_max, in a unit in which the clock starts at 8

VARIABLES
  card_state,    \* "tran", "data", "rcv", "prg"
  sclk,
  job,           \* the call: operation, first block, count
  mb_pc,
  at, left,      \* next block, blocks left
  buf,           \* where in the caller's buffer the next block goes
  retry, tune_at, \* of mmc_dev_bread; 0 or the number of the setting being tried
  err, derr,
  moved,         \* pairs of block and place in the buffer that were transferred
  cmd_failed,    \* a command failed in this call, or the card was not ready before
  ret,           \* what the call returned
  mb_faults

mbVars == <<card_state, sclk, job, mb_pc, at, left, buf, retry, tune_at, err, derr,
            moved, cmd_failed, ret, mb_faults>>

Few(a, b) == IF a < b THEN a ELSE b

Reading == job.op \in {"read", "first"}
Now     == Few(left, MaxBlks)
Multi   == Now > 1
Fails   == mb_faults < BlockFaults /\ mb_faults' = mb_faults + 1
Well    == UNCHANGED mb_faults
Inside  == at + Now <= NBlks

callVars == <<job, at, left, buf, moved, ret>>

\* The card has taken a command to read or to write.
Taken == IF Reading THEN "data" ELSE "rcv"

Begin(op, blk, cnt) ==
  /\ mb_pc = "idle" /\ mb_pc' = "check"
  /\ job' = [op |-> op, blk |-> blk, cnt |-> cnt, round |-> 0]
  /\ at' = blk /\ buf' = 0 /\ left' = IF op = "erase" THEN 1 ELSE cnt
  /\ moved' = {} /\ cmd_failed' = (card_state # "tran")
  /\ UNCHANGED <<card_state, sclk, retry, tune_at, err, derr, ret, mb_faults>>

OutOfRange == at > NBlks

\* The beginning of mmc_block_read and mmc_block_write, and of each round of
\* their loops.
Divide ==
  /\ mb_pc = "check"
  /\ IF left = 0 THEN mb_pc' = "return" /\ err' = NONE /\ UNCHANGED <<retry, tune_at, derr>>
     ELSE IF buf = 0 /\ OutOfRange
     THEN mb_pc' = "return" /\ err' = INVALID /\ UNCHANGED <<retry, tune_at, derr>>
     ELSE mb_pc' = "cmd" /\ retry' = DevRetries /\ tune_at' = 0 /\ err' = NONE /\ derr' = NONE
  /\ UNCHANGED <<card_state, sclk, callVars, cmd_failed, mb_faults>>

\* The command: a response with a bad CRC goes through abort and tuning,
\* which may have left the card in any state.
Command ==
  /\ mb_pc = "cmd"
  /\ \/ /\ card_state = "tran" /\ Well
        /\ card_state' = Taken /\ err' = NONE /\ mb_pc' = "xfer"
        /\ UNCHANGED cmd_failed
     \/ /\ card_state # "tran" /\ Well            \* the card does not answer
        /\ err' = TIMEOUT /\ mb_pc' = "decide" /\ UNCHANGED <<card_state, cmd_failed>>
     \/ /\ Fails /\ cmd_failed' = TRUE /\ mb_pc' = "decide"
        /\ err' \in {TIMEOUT, CMDTUNEFAIL}
        /\ card_state' \in {card_state} \cup
             (IF card_state # "tran" THEN {} ELSE IF Reading /\ ~Multi THEN {"tran"} ELSE {Taken})
             \cup (IF err' = CMDTUNEFAIL THEN {"tran"} ELSE {})
  /\ derr' = NONE
  /\ UNCHANGED <<sclk, callVars, retry, tune_at>>

AfterSingle == IF Multi THEN card_state ELSE IF Reading THEN "tran" ELSE "prg"

\* Faulty variant of Transferred: the buffer does not move on.
TransferredAtStart == {<<at + i, i>> : i \in 0 .. Now - 1}

Transferred == {<<at + i, buf + i>> : i \in 0 .. Now - 1}

\* msdc_pio_read, msdc_pio_write: word by word until the controller reports
\* the end of the transfer.
Transfer ==
  /\ mb_pc = "xfer"
  /\ mb_pc' = IF Multi THEN "stop" ELSE "done"
  /\ \/ /\ Inside /\ Well
        /\ err' = NONE /\ card_state' = AfterSingle
        /\ moved' = moved \cup Transferred
     \/ /\ IF Inside THEN Fails ELSE Well
        /\ err' \in IF Reading /\ ~Inside THEN {TIMEOUT} ELSE {BADCRC, TIMEOUT}
        /\ card_state' \in {card_state, AfterSingle}
        /\ UNCHANGED moved
  /\ derr' = err'
  /\ UNCHANGED <<sclk, job, at, left, buf, ret, retry, tune_at, cmd_failed>>

StopTakes == IF Reading THEN "tran" ELSE "prg"

Stop ==
  /\ mb_pc = "stop" /\ mb_pc' = "done"
  /\ \/ Well /\ card_state' = StopTakes /\ UNCHANGED <<err, cmd_failed>>
     \/ /\ Fails /\ err' = FAILED /\ cmd_failed' = TRUE
        /\ card_state' \in {card_state, StopTakes}
  /\ UNCHANGED <<sclk, callVars, retry, tune_at, derr>>

\* Faulty variant of MustAbort: a transfer that failed is not aborted.
AbortNever == FALSE

MustAbort == derr # NONE

\* The end of msdc_pio_bread and msdc_pio_bwrite.  A STOP that fails after a
\* good transfer is an error, but the card is left as it is.
Done ==
  /\ mb_pc = "done"
  /\ mb_pc' = IF MustAbort THEN "abort" ELSE "decide"
  /\ err' = IF derr = NONE THEN err ELSE derr
  /\ UNCHANGED <<card_state, sclk, callVars, retry, tune_at, derr, cmd_failed, mb_faults>>

\* One round of msdc_abort_handler: ask for the state, stop the transfer.
AbortTransfer ==
  /\ mb_pc = "abort"
  /\ \/ Fails /\ cmd_failed' = TRUE /\ mb_pc' = "decide" /\ UNCHANGED card_state
     \/ card_state = "tran" /\ mb_pc' = "decide" /\ Well /\ UNCHANGED <<card_state, cmd_failed>>
     \/ card_state = "prg" /\ card_state' = "tran" /\ Well /\ UNCHANGED <<mb_pc, cmd_failed>>
     \/ /\ card_state \in {"data", "rcv"}
        /\ \/ Well /\ card_state' = (IF card_state = "data" THEN "tran" ELSE "prg")
           \/ Fails /\ UNCHANGED card_state
        /\ UNCHANGED <<mb_pc, cmd_failed>>
  /\ UNCHANGED <<sclk, callVars, retry, tune_at, err, derr>>

\* Faulty variant of Slower: the clock is halved without an end.
SlowerAlways == sclk \div 2

Slower == IF err # NONE /\ sclk > FMax \div 16 THEN sclk \div 2 ELSE sclk

GiveUp == mb_pc' = "return" /\ UNCHANGED <<retry, tune_at>>

\* Faulty variant of CountRetry: no retry is ever counted.
CountNone == retry

CountRetry == retry - 1

\* The loop of mmc_dev_bread: an attempt has ended with err.  While the delays
\* are searched it is msdc_tune_bread's attempt.
ReadDecide ==
  /\ mb_pc = "decide" /\ Reading
  /\ LET tuned == tune_at > 0 /\ (err \in {NONE, CMDTUNEFAIL} \/ tune_at = TuneSteps)
     IN
     IF tune_at > 0 /\ ~tuned
     THEN mb_pc' = "cmd" /\ tune_at' = tune_at + 1 /\ UNCHANGED <<retry, err, sclk>>
     ELSE /\ err' = IF tune_at > 0 /\ err \notin {NONE, CMDTUNEFAIL} THEN BADCRC ELSE err
          /\ sclk' = IF tune_at > 0 THEN Slower ELSE sclk
          /\ IF err' = NONE THEN mb_pc' = "next" /\ UNCHANGED <<retry, tune_at>>
             ELSE IF err' = CMDTUNEFAIL THEN GiveUp
             ELSE IF err' = BADCRC THEN mb_pc' = "cmd" /\ tune_at' = 1 /\ UNCHANGED retry
             ELSE IF retry = 0 THEN GiveUp
             ELSE mb_pc' = "cmd" /\ retry' = CountRetry /\ UNCHANGED tune_at
  /\ UNCHANGED <<card_state, callVars, derr, cmd_failed, mb_faults>>

\* The loop of mmc_dev_bwrite.  After a CRC error it goes round and round
\* without another attempt: what would search is not compiled.
WriteDecide ==
  /\ mb_pc = "decide" /\ ~Reading
  /\ UNCHANGED <<err, sclk>>
  /\ CASE err = NONE        -> mb_pc' = "settle" /\ UNCHANGED <<retry, tune_at>>
       [] err = CMDTUNEFAIL -> GiveUp
       [] err = BADCRC      -> mb_pc' = "stuck" /\ tune_at' = 1 /\ UNCHANGED retry
       [] OTHER -> IF retry = 0 THEN GiveUp
                   ELSE mb_pc' = "cmd" /\ retry' = CountRetry /\ UNCHANGED tune_at
  /\ UNCHANGED <<card_state, callVars, derr, cmd_failed, mb_faults>>

Stuck ==
  /\ mb_pc = "stuck" /\ sclk' = Slower
  /\ UNCHANGED <<card_state, callVars, mb_pc, retry, tune_at, err, derr, cmd_failed, mb_faults>>

\* Faulty variant of Settled: the card may still be programming.
SettledAny == TRUE

Settled == card_state = "tran"

\* mmc_dev_bwrite asks for the status until the card is ready.
Settle ==
  /\ mb_pc = "settle"
  /\ \/ Settled /\ Well /\ mb_pc' = "next" /\ UNCHANGED <<card_state, err, cmd_failed>>
     \/ /\ card_state = "prg" /\ card_state' = "tran" /\ Well
        /\ UNCHANGED <<mb_pc, err, cmd_failed>>
     \/ /\ Fails /\ err' \in {TIMEOUT, CMDTUNEFAIL} /\ cmd_failed' = TRUE
        /\ mb_pc' = "return" /\ UNCHANGED card_state
  /\ UNCHANGED <<sclk, callVars, retry, tune_at, derr>>

\* The end of a round of mmc_block_read and mmc_block_write.
Advance ==
  /\ mb_pc = "next" /\ mb_pc' = "check"
  /\ at' = at + Now /\ left' = left - Now /\ buf' = buf + MaxBlks
  /\ UNCHANGED <<card_state, sclk, job, moved, ret, retry, tune_at, err, derr,
                 cmd_failed, mb_faults>>

\* What mmc_block_read and mmc_block_write return: an error or the count.
Result == IF err # NONE THEN err ELSE job.cnt

\* The block call returns to its caller: mmc_block_erase, which goes on
\* whatever the result, or mmc_legacy_init, which reads block 0 again if the
\* result was not 1.
Finish ==
  /\ mb_pc = "return"
  /\ CASE job.op = "erase" ->
            LET done == at' - job.blk IN
            /\ at' = (IF err = NONE THEN at ELSE at + 1)
            /\ left' = 1 /\ buf' = 0
            /\ IF done < job.cnt THEN mb_pc' = "check" /\ UNCHANGED ret
               ELSE mb_pc' = "idle" /\ ret' = job.cnt
            /\ UNCHANGED job
       [] job.op = "first" ->
            /\ at' = 0 /\ left' = 1 /\ buf' = 0
            /\ IF Result # 1 /\ job.round = 0
               THEN mb_pc' = "check" /\ job' = [job EXCEPT !.round = 1] /\ UNCHANGED ret
               ELSE mb_pc' = "idle" /\ ret' = (IF Result = 1 THEN 0 ELSE 1) /\ UNCHANGED job
       [] OTHER -> mb_pc' = "idle" /\ ret' = Result /\ UNCHANGED <<job, at, left, buf>>
  /\ UNCHANGED <<card_state, sclk, moved, retry, tune_at, err, derr, cmd_failed, mb_faults>>

BlockInit ==
  /\ card_state = "tran" /\ sclk = 8
  /\ job = [op |-> "none", blk |-> 0, cnt |-> 0, round |-> 0] /\ mb_pc = "idle"
  /\ at = 0 /\ left = 0 /\ buf = 0 /\ retry = 0 /\ tune_at = 0
  /\ err = NONE /\ derr = NONE /\ moved = {} /\ cmd_failed = FALSE
  /\ ret = 0 /\ mb_faults = 0

Working == Divide \/ Command \/ Transfer \/ Stop \/ Done \/ AbortTransfer \/ ReadDecide
           \/ WriteDecide \/ Stuck \/ Settle \/ Advance \/ Finish

BlockNext ==
  \/ Working
  \/ \E op \in {"read", "write", "erase"}, blk \in Starts, cnt \in Counts : Begin(op, blk, cnt)
  \/ Begin("first", 0, 1)

BlockSpec == BlockInit /\ [][BlockNext]_mbVars /\ WF_mbVars(Working)
-----------------------------------------------------------------------------
Idle == mb_pc = "idle" /\ job.op # "none"

BlockTypeOK ==
  /\ card_state \in {"tran", "data", "rcv", "prg"}
  /\ sclk \in FMax \div 32 .. 8 /\ retry \in 0 .. DevRetries /\ tune_at \in 0 .. TuneSteps
  /\ err \in {NONE} \cup ErrorCodes /\ derr \in {NONE, BADCRC, TIMEOUT}
  /\ left \in 0 .. job.cnt

\* A count that no error code can be mistaken for means that each block of
\* the request went between its place on the card and its place in the
\* buffer, through the division into transfers, retries and the search.
\* (The error codes are small positive numbers, so a count of up to 11 blocks
\* says nothing: mmc_core.c:3476-3486.)
CountMeansData ==
  Idle /\ job.op \in {"read", "write"} /\ ret = job.cnt /\ ret \notin ErrorCodes =>
    \A i \in 0 .. job.cnt - 1 : <<job.blk + i, i>> \in moved

\* When a call has succeeded the card is ready for the next: it is not left
\* inside a multiple-block transfer, nor is it still programming.
ReadyAfterSuccess ==
  Idle /\ job.op # "erase" /\ err = NONE => card_state = "tran"

\* If only data went wrong, and every command was answered, the card is ready
\* for the next call however the last one ended (msdc.c:3179-3188).
ReadyAfterBadData ==
  Idle /\ ~cmd_failed => card_state = "tran"

\* What a block call reports it has done, and the card is ready for the next
\* one: after a success, and after bad data that was transferred in order.
CallsTellTruth == CountMeansData /\ ReadyAfterSuccess /\ ReadyAfterBadData

\* A call has come back, or it is one of the two that never need to: a write
\* that met a bad CRC, and a read that searches for a delay while the card
\* answers no command or has no such block: a timeout counts as a bad CRC there,
\* and after a bad CRC the retries are not counted (mmc_core.c:3388-3395,
\* msdc.c:3786).
Searching == tune_at > 0 /\ (cmd_failed \/ ~Inside)
CallEnds  == mb_pc \in {"idle", "stuck"} \/ Searching

\* mmc_legacy_init goes on only when block 0 has been read: "first
\* mmc_block_read() failed ... Trying again" (mtk_mmc.c:90-96).
FirstBlockRead ==
  Idle /\ job.op = "first" /\ ret = 0 => <<0, 0>> \in moved
=============================================================================
