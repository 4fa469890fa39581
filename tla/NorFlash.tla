------------------------------ MODULE NorFlash ------------------------------
(***************************************************************************)
(* The SPI flash driver mtk_nor.c and the flash behind it, which works on  *)
(* a command long after it has taken it and drops commands meanwhile.      *)
(* One chip (MAX_FLASHCOUNT is 1): commands for a second one, which the    *)
(* driver makes for a region that is the whole flash, go nowhere (line     *)
(* 568) and are left out.                                                  *)
(***************************************************************************)
EXTENDS Integers

CONSTANTS
  Total, Sec, Buf,   \* bytes of the chip, of a sector, of the write buffer
  NorCalls,          \* the calls that are made: operation, address, length
  NorFaults          \* bound: how many waits and commands fail

ASSUME NorSizes ==
  /\ Total \in Nat /\ Sec \in Nat \ {0} /\ Buf \in Nat \ {0}
  /\ Total % Sec = 0 /\ Sec % Buf = 0
  /\ NorCalls \subseteq [op : {"read", "write", "erase"}, addr : Nat, len : Nat]

VARIABLES
  cells,             \* "ff", "d": the byte that belongs there, "x": another one
  wp, wel,           \* block protection and write enable of the chip
  chip_op,           \* what it is working on
  bufmode,           \* SFLASH_CFG2_REG: programs come from the write buffer
  doubt,             \* the buffer mode was not what the driver took it for
  found,             \* the chip was identified: flash_num, total_sz
  call, nor_pc,
  pos,               \* bytes done; *retlen of a write
  nor_ret, nor_faults

norVars == <<cells, wp, wel, chip_op, bufmode, doubt, found, call, nor_pc, pos,
             nor_ret, nor_faults>>

Bytes  == 0 .. Total - 1
None   == [k |-> "none", at |-> {}, of |-> {}, v |-> "ff"]
NorOK  == "0"

SectorOf(a) == {b \in Bytes : b \div Sec = a \div Sec}
Extent(c)   == c.addr .. c.addr + c.len - 1

\* The bytes a call is allowed to change.
Region(c) == IF c.op = "erase" THEN UNION {SectorOf(a) : a \in Extent(c)} ELSE Extent(c)

\* The chip takes a command, if it is idle and permits it.
Takes(k, at, v, enabled) ==
  IF chip_op = None /\ enabled
  THEN chip_op' = [k |-> k, at |-> at, of |-> Region(call), v |-> v]
  ELSE UNCHANGED chip_op

ChipVars == <<cells, wp, wel, chip_op>>

ChipDone ==
  /\ chip_op # None /\ chip_op' = None /\ wel' = FALSE
  /\ wp' = IF chip_op.k = "status" THEN chip_op.v = "on" ELSE wp
  /\ cells' = [a \in Bytes |->
                 IF a \notin chip_op.at THEN cells[a]
                 ELSE IF chip_op.k = "erase" THEN "ff"
                 ELSE IF cells[a] = "x" THEN "x" ELSE chip_op.v]
  /\ UNCHANGED <<bufmode, doubt, found, call, nor_pc, pos, nor_ret, nor_faults>>
-----------------------------------------------------------------------------
Breaks == nor_faults < NorFaults /\ nor_faults' = nor_faults + 1
Works  == UNCHANGED nor_faults

Go(pc)    == nor_pc' = pc /\ UNCHANGED nor_ret
Ret(code) == nor_pc' = "idle" /\ nor_ret' = code   \* "-1" for -EIO too

\* After an error inside the buffered or the last part the buffer is switched
\* off; mtk_nor_init looks at no result and goes on.
FailTo == IF nor_pc \in {"block", "block_wait", "tail", "tail_wait"} THEN Go("fail")
          ELSE IF call.op # "init" THEN Ret("-1")
          ELSE Go(IF nor_pc \in {"free_wait", "free_wren", "free", "free_done"}
                  THEN "lock_wait" ELSE "end")

\* Faulty variant of WaitOver: the chip may still be working.
WaitNever == TRUE

WaitOver == chip_op = None

\* mt53xx_nor_WaitBusy: ask for the status until the chip is idle, or for the
\* 500000th time, or until the controller does not answer.
Wait(here, next) ==
  /\ nor_pc = here
  /\ \/ WaitOver /\ Works /\ Go(next)
     \/ Breaks /\ FailTo
  /\ UNCHANGED <<ChipVars, bufmode, doubt, found, call, pos>>

\* mt53xx_nor_ExecuteCmd: the controller may report no end of a command the
\* chip has taken.
Sent(here, next) ==
  /\ nor_pc = here
  /\ \/ Works /\ Go(next)
     \/ Breaks /\ FailTo

\* The opcode comes from the entry of the chip in the table, and is a chance
\* value when there is none.
WriteEnable(here, next) ==
  /\ nor_pc = here
  /\ wel' \in {wel \/ chip_op = None} \cup (IF found THEN {} ELSE {wel})
  /\ Sent(here, next)
  /\ UNCHANGED <<cells, wp, chip_op, bufmode, doubt, found, call, pos>>

WriteStatus(here, v, next) ==
  /\ nor_pc = here
  /\ Takes("status", {}, v, wel)
  /\ Sent(here, next)
  /\ UNCHANGED <<cells, wp, wel, bufmode, doubt, found, call, pos>>
-----------------------------------------------------------------------------
\* Faulty variant of Refused: the end of the region is not looked at.
RefusedStart(c) == ~found \/ c.addr >= Total \/ (c.op = "erase" /\ c.len % Sec # 0)

\* The checks of mtk_nor_read, mtk_nor_write and mtk_nor_erase.
Refused(c) == ~found \/ c.addr + c.len > Total \/ (c.op = "erase" /\ c.len % Sec # 0)

BeginCall(c) ==
  /\ nor_pc = "idle"
  /\ call' = c /\ pos' = 0
  /\ IF c.len = 0 /\ c.op # "erase" THEN Ret(NorOK)
     ELSE IF Refused(c) THEN Ret("EINVAL")
     ELSE Go(IF c.op = "read" THEN "read_wait" ELSE "free_wait")
  /\ UNCHANGED <<ChipVars, bufmode, doubt, found, nor_faults>>

\* mtk_nor_init, mt53xx_nor_GetID: a chip that is at work does not answer the
\* question for its identity.  Each chip that was found is unlocked, then the
\* first one is locked.
InitChip ==
  /\ nor_pc = "init"
  /\ \/ Works /\ found' = (chip_op = None)
     \/ Breaks /\ found' = FALSE
  /\ call' = [op |-> "init", addr |-> 0, len |-> 0] /\ pos' = 0
  /\ Go(IF found' THEN "free_wait" ELSE "lock_wait")
  /\ UNCHANGED <<ChipVars, bufmode, doubt>>

Lock == \/ Wait("lock_wait", "lock_wren") \/ WriteEnable("lock_wren", "lock")
        \/ WriteStatus("lock", "on", "lock_done") \/ Wait("lock_done", "end")

\* mt53xx_nor_WriteProtect, then for a write mt53xx_nor_WaitBusy and one more
\* mt53xx_nor_WriteEnable.
Unlock == \/ Wait("free_wait", "free_wren") \/ WriteEnable("free_wren", "free")
          \/ WriteStatus("free", "off", "free_done")
          \/ Wait("free_done", CASE call.op = "erase" -> "erase" [] call.op = "write" -> "write_wait"
                                 [] OTHER -> "lock_wait")
          \/ Wait("write_wait", "write_wren")
          \/ WriteEnable("write_wren", "head")

\* mtk_nor_erase: the whole chip, or sector by sector.
Erase ==
  /\ nor_pc = "erase"
  /\ IF pos >= call.len THEN Ret(NorOK) ELSE Go("erase_wait")
  /\ UNCHANGED <<ChipVars, bufmode, doubt, found, call, pos, nor_faults>>

Whole == call.addr = 0 /\ call.len = Total

\* Faulty variant of EraseTarget: the sector at the beginning of the region each time.
EraseFirst == SectorOf(call.addr)

EraseTarget == IF Whole THEN Bytes ELSE SectorOf(call.addr + pos)

EraseCmd ==
  /\ nor_pc = "erase_cmd"
  /\ Takes("erase", EraseTarget, "ff", wel /\ ~wp)
  /\ Sent("erase_cmd", "erase_done")
  /\ UNCHANGED <<cells, wp, wel, bufmode, doubt, found, call, pos>>

\* Faulty variant of Stride: the length is not counted off for the whole chip.
StrideSector == IF Whole THEN 0 ELSE Sec

Stride == IF Whole THEN Total ELSE Sec

EraseDone ==
  /\ nor_pc = "erase_done"
  /\ \/ WaitOver /\ Works /\ Go("erase") /\ pos' = pos + Stride
     \/ Breaks /\ FailTo /\ UNCHANGED pos
  /\ UNCHANGED <<ChipVars, bufmode, doubt, found, call>>

EraseSteps == \/ Erase \/ Wait("erase_wait", "erase_wren") \/ WriteEnable("erase_wren", "erase_cmd")
              \/ EraseCmd \/ EraseDone
-----------------------------------------------------------------------------
\* mt53xx_nor_Write: single bytes up to a multiple of the buffer, buffers,
\* and single bytes for the rest.
Next_at == call.addr + pos
Rest    == call.len - pos

Aligned == Next_at % Buf = 0

Program(at, next) ==
  /\ Takes("program", at, IF bufmode = (nor_pc = "block") THEN "d" ELSE "x", ~wp)
  /\ doubt' = (doubt \/ bufmode # (nor_pc = "block"))
  /\ Sent(nor_pc, next)
  /\ UNCHANGED <<cells, wp, wel, bufmode, found, call, pos>>

HeadByte == nor_pc = "head" /\
  IF Aligned
  THEN Go("buffer_on") /\ UNCHANGED <<ChipVars, bufmode, doubt, found, call, pos, nor_faults>>
  ELSE Program({Next_at}, "head_wait")

\* Faulty variant of Counted: counted though the wait for the chip failed.
CountedAnyway(n, over, next) ==
  /\ \/ WaitOver /\ Works
     \/ Breaks
  /\ pos' = pos + n
  /\ IF over /\ pos' = call.len THEN Ret(NorOK) ELSE Go(next)
  /\ UNCHANGED <<ChipVars, bufmode, doubt, found, call>>

Counted(n, over, next) ==
  /\ \/ /\ WaitOver /\ Works /\ pos' = pos + n
        /\ IF over /\ pos' = call.len THEN Ret(NorOK) ELSE Go(next)
     \/ Breaks /\ FailTo /\ UNCHANGED pos
  /\ UNCHANGED <<ChipVars, bufmode, doubt, found, call>>

HeadWait == nor_pc = "head_wait" /\ Counted(1, TRUE, "head")

\* mt53xx_nor_WriteBufferEnable and mt53xx_nor_WriteBufferDisable: when the
\* controller does not confirm the mode, the driver gives up.
BufferMode(here, on, next) ==
  /\ nor_pc = here
  /\ \/ Works /\ bufmode' = on /\ next
     \/ Breaks /\ bufmode' \in {bufmode, on} /\ Ret("-1")
  /\ UNCHANGED <<ChipVars, doubt, found, call, pos>>

\* Faulty variant of FullBuffer: the last one may be longer than what is left.
FullAlways == Rest > 0

FullBuffer == Rest >= Buf

Block == nor_pc = "block" /\
  IF FullBuffer THEN Program(Next_at .. Next_at + Buf - 1, "block_wait")
  ELSE Go("buffer_off") /\ UNCHANGED <<ChipVars, bufmode, doubt, found, call, pos, nor_faults>>

BlockWait == nor_pc = "block_wait" /\ Counted(Buf, FALSE, "block")

TailByte == nor_pc = "tail" /\
  IF Rest = 0 THEN Ret(NorOK) /\ UNCHANGED <<ChipVars, bufmode, doubt, found, call, pos, nor_faults>>
  ELSE Program({Next_at}, "tail_wait")

TailWait == nor_pc = "tail_wait" /\ Counted(1, FALSE, "tail")

WriteSteps == \/ HeadByte \/ HeadWait \/ BufferMode("buffer_on", TRUE, Go("block")) \/ Block \/ BlockWait
              \/ BufferMode("buffer_off", FALSE, Go("tail")) \/ TailByte \/ TailWait
              \/ BufferMode("fail", FALSE, Ret("-1"))
-----------------------------------------------------------------------------
\* mt53xx_nor_Read, byte by byte with PIO.
ReadBytes ==
  /\ nor_pc = "read"
  /\ \/ Works /\ pos' = call.len /\ Ret(NorOK)
     \/ Breaks /\ pos' \in 0 .. call.len - 1 /\ Ret("-1")
  /\ UNCHANGED <<ChipVars, bufmode, doubt, found, call>>

ReadSteps == \/ Wait("read_wait", "read_mode")
             \/ BufferMode("read_mode", FALSE, Go("read")) \/ ReadBytes

End == nor_pc = "end" /\ Ret(NorOK)
       /\ UNCHANGED <<ChipVars, bufmode, doubt, found, call, pos, nor_faults>>

\* The board is reset, or the command `nor init' is given; the chip works on.
BoardReset ==
  /\ nor_pc' = "init" /\ nor_ret' = "none" /\ nor_pc # "init"
  /\ bufmode' \in {bufmode, FALSE} /\ Breaks
  /\ UNCHANGED <<ChipVars, doubt, found, call, pos>>

NorInit ==
  /\ cells \in {[a \in Bytes |-> "ff"], [a \in Bytes |-> "d"]}
  /\ wp = FALSE /\ wel = FALSE /\ chip_op = None
  /\ bufmode = FALSE /\ doubt = FALSE /\ found = FALSE
  /\ call = [op |-> "init", addr |-> 0, len |-> 0] /\ nor_pc = "init" /\ pos = 0
  /\ nor_ret = "none" /\ nor_faults = 0

Drive == InitChip \/ Lock \/ Unlock \/ EraseSteps \/ WriteSteps \/ ReadSteps \/ End

NorNext ==
  \/ \E c \in NorCalls : BeginCall(c)
  \/ Drive \/ ChipDone
  \/ BoardReset

\* The driver runs on, and the chip finishes what it has begun.
NorSpec == NorInit /\ [][NorNext]_norVars /\ WF_norVars(Drive) /\ WF_norVars(ChipDone)
-----------------------------------------------------------------------------
NorTypeOK ==
  /\ \A a \in Bytes : cells[a] \in {"ff", "d", "x"}
  /\ chip_op.at \subseteq Bytes
  /\ pos \in 0 .. Total /\ nor_ret \in {"none", NorOK, "-1", "EINVAL"}

Returned(op) == nor_pc = "idle" /\ call.op = op

\* A write that reports success has put each byte where it belongs, whatever
\* went wrong before and whatever the alignment, unless a change of the buffer
\* mode was never confirmed: the chip was unlocked, and had time for each byte.
WriteLands ==
  Returned("write") /\ nor_ret = NorOK /\ ~doubt => \A a \in Extent(call) : cells[a] = "d"

\* A write that fails tells how many bytes are in the flash (*retlen), and
\* not one more than that many.
RetlenIsWritten ==
  Returned("write") /\ ~doubt => \A i \in 0 .. pos - 1 : cells[call.addr + i] = "d"

\* An erase of whole sectors that reports success has left nothing of them.
EraseClears ==
  Returned("erase") /\ nor_ret = NorOK /\ call.addr % Sec = 0 =>
    \A a \in Extent(call) : cells[a] = "ff"

\* What a call that returns says of the flash is true of it: of the bytes
\* written, of their number, of the sectors erased.
CallsAreDone == WriteLands /\ RetlenIsWritten /\ EraseClears

\* No byte outside its region is changed by a call, though the chip may still
\* be at work on it when a later call has begun; for an erase that does not
\* start at a sector the region begins where its first sector does.
OthersStay ==
  [][\A a \in Bytes : cells'[a] # cells[a] => a \in chip_op.of]_norVars
=============================================================================
