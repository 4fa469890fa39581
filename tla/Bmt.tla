--------------------------------- MODULE Bmt ---------------------------------
(***************************************************************************)
(* The bad-block manager of drivers/misc/mediatek/nand/mt7623/bmt.c and    *)
(* the entry points of mtk_nand.c that call it.  A logical block that goes *)
(* bad is mapped to a block of the pool behind the system area; the table  *)
(* of mappings lives in RAM (bmt) and in one pool block (bmt_block_index). *)
(*                                                                         *)
(* One action is one flash command together with the code up to the next   *)
(* one, so that a command can fail, and power can go, between any two.     *)
(***************************************************************************)
EXTENDS NandFlash

CONSTANTS
  CountModulus,   \* 2^8: mapped_count is a u8
  FaultKinds,     \* the commands that may fail: "program", "erase", "mark"
  CutAt,          \* the values of pc at which power may go
  MaxFaults,      \* bound: commands that fail and blocks the host marks bad
  FaultCost,      \* 1, or 0 for a medium that may fail for ever
  MaxCuts,        \* bound: losses of power
  MaxFactoryBad   \* bound: blocks marked bad when the chip is new

ASSUME Bounds ==
  /\ CountModulus \in Nat \ {0}
  /\ FaultCost \in 0 .. 1
  /\ MaxFaults \in Nat /\ MaxCuts \in Nat /\ MaxFactoryBad \in Nat

VARIABLES
  \* the medium
  page, bad,
  \* the statics of bmt.c
  table, mapped_count, bmt_block_index, pool_erased,
  \* where the code is: pc, the index of the running loop, the arguments of
  \* update_bmt (reason, error_block), to_index/map_index, pages to migrate
  pc, cur, reason, error_block, map_index, left,
  \* the host: its request, the next page it may program in each block, and
  \* what it has been told (see BlockStore)
  req, next_page, void, worn,
  \* the environment's budget
  faults, cuts

flash   == <<page, bad>>
bmt     == <<table, mapped_count, bmt_block_index, pool_erased>>
locals  == <<cur, reason, error_block, map_index, left>>
host    == <<req, next_page, void, worn>>
budget  == <<faults, cuts>>
vars    == <<flash, bmt, pc, locals, host, budget>>

NoReq == [op |-> "none", block |-> 0, page |-> 0, data |-> FF]
Live  == 0 .. mapped_count - 1

Mapped == {table[i].mapped_index : i \in Live}

\* is_block_mapped: the first live entry whose mapped_index is the block.
SlotsOf(b) == {i \in Live : table[i].mapped_index = b}

\* get_mapping_block_index; the guard is `index > system_block_count'.
Map(b) == LET hits == {i \in Live : table[i].bad_index = b}
          IN  IF b > SystemBlockCount \/ hits = {} THEN b
              ELSE table[Min(hits)].mapped_index

\* Faulty variants of Free: each forgets one of the tests of the search.
FreeIfMapped   == {b \in Pool : b # bmt_block_index /\ b \notin bad}
FreeIfBad      == {b \in Pool : b # bmt_block_index /\ b \notin Mapped}
FreeIfBmtBlock == {b \in Pool : b \notin bad \cup Mapped}

\* What the search of find_available_block accepts.
Free == {b \in Pool : b # bmt_block_index /\ b \notin bad /\ b \notin Mapped}

MayFail(kind) == kind \in FaultKinds /\ faults < MaxFaults

\* Faulty variant of MarkBlockBad: the mark never reaches the flash.
MarkLost(b) == UNCHANGED bad

\* mark_block_bad_bmt: its result is ignored, so a failure goes unnoticed.
MarkBlockBad(b) == \/ bad' = bad \cup {b}
                   \/ "mark" \in FaultKinds /\ UNCHANGED bad

ProgramFails(b, p, v) == /\ MayFail("program")
                         /\ faults' = faults + FaultCost
                         /\ page' \in {Programmed(page, b, p, v), Spoiled(page, b, p)}

EraseFails(b) == /\ MayFail("erase")
                 /\ faults' = faults + FaultCost
                 /\ page' \in {page, SpoiledBlock(page, b)}
-----------------------------------------------------------------------------
(* Power up: init_bmt.                                                     *)

\* Where load_bmt_data finds a signature and a valid table.
Candidates == {b \in Pool : b \notin bad /\ page[b][0].kind = "bmt"}

LoadBmt ==
  /\ pc = "off"
  /\ Candidates # {}
  /\ LET found == Max(Candidates)           \* the search starts at the end
         t     == page[found][0].bmt
     IN /\ bmt_block_index' = found
        /\ mapped_count' = t.count
        /\ table' = [i \in Slots |-> IF i < t.count THEN t.table[i] ELSE Empty[i]]
  /\ pool_erased' = FALSE
  /\ pc' = "remark"
  /\ UNCHANGED <<flash, locals, host, budget>>

\* "block is not mark bad, should be power lost last time"
ReMark ==
  /\ pc = "remark"
  /\ cur < mapped_count
  /\ LET b == table[cur].bad_index
     IN IF b \in bad THEN UNCHANGED bad ELSE MarkBlockBad(b)
  /\ cur' = cur + 1
  /\ UNCHANGED <<page, bmt, pc, reason, error_block, map_index, left, host, budget>>

LoadDone ==
  /\ pc = "remark"
  /\ cur >= mapped_count
  /\ pc' = "idle"
  /\ cur' = 0
  /\ UNCHANGED <<flash, bmt, reason, error_block, map_index, left, host, budget>>

StartReconstruct ==
  /\ pc = "off"
  /\ Candidates = {}
  /\ table' = Empty
  /\ mapped_count' = 0
  /\ bmt_block_index' = 0
  /\ pool_erased' = FALSE
  /\ pc' = "scan"
  /\ UNCHANGED <<flash, locals, host, budget>>

\* reconstruct_bmt looks at one pool block.
Reconstruct ==
  /\ pc = "scan"
  /\ cur < BmtBlockCount
  /\ LET index     == SystemBlockCount + cur
         bad_index == page[index][0].idx
         hits      == SlotsOf(bad_index)
     IN IF index \in bad \/ bad_index >= SystemBlockCount \/ bad_index \notin bad
        THEN UNCHANGED <<table, mapped_count>>
        ELSE IF hits # {}
        THEN /\ table' = [table EXCEPT ![Min(hits)].mapped_index = index]
             /\ UNCHANGED mapped_count
        ELSE /\ table' = [table EXCEPT ![mapped_count] =
                            [bad_index |-> bad_index, mapped_index |-> index]]
             /\ mapped_count' = (mapped_count + 1) % CountModulus
  /\ cur' = cur + 1
  /\ UNCHANGED <<flash, bmt_block_index, pool_erased, pc, reason, error_block,
                 map_index, left, host, budget>>

\* write_bmt_to_flash starts with the block it has, or looks for one.
WriteBmt == IF bmt_block_index = 0 THEN "find_bmt" ELSE "erase_bmt"

ReconstructDone ==
  /\ pc = "scan"
  /\ cur = BmtBlockCount
  /\ pc' = WriteBmt
  /\ cur' = 0
  /\ UNCHANGED <<flash, bmt, reason, error_block, map_index, left, host, budget>>
-----------------------------------------------------------------------------
(* How a call of update_bmt, or of write_bmt_to_flash at boot, ends.       *)

Idle == /\ pc' = "idle"
        /\ req' = NoReq
        /\ reason' = "none"
        /\ error_block' = 0
        /\ map_index' = 0

Refused == /\ Idle
           /\ next_page' = [next_page EXCEPT ![req.block] = PagePerBlock]
           /\ worn' = (worn \/ req # NoReq)    \* at boot nobody is told
           /\ UNCHANGED void

ErasedBlock(b) == \A p \in Pages : page[b][p] = Blank

\* The host takes its block for erased; a block that lies in the pool is not,
\* unless it has just been moved there.
Erasure(b) == /\ next_page' = [next_page EXCEPT ![b] = 0]
              /\ void' = IF Map(b) = b \/ ErasedBlock(Map(b)) THEN void \ {b}
                                                            ELSE void \cup {b}
              /\ UNCHANGED worn

Answered ==
  /\ Idle
  /\ CASE req.op = "erase" -> Erasure(req.block)
       [] req.op = "write" -> /\ next_page' = [next_page EXCEPT ![req.block] = @ + 1]
                              /\ UNCHANGED <<void, worn>>
       [] OTHER            -> UNCHANGED <<next_page, void, worn>>
-----------------------------------------------------------------------------
(* find_available_block.                                                   *)

Finding == pc \in {"find", "find_bmt"}

\* Faulty variants of SkipInPool: mapped blocks are erased too; a block whose
\* first page is blank is taken for an erased one.
SkipButMapped(b) == SystemBlockCount = bmt_block_index \/ b \in bad
SkipIfBlank(b)   == SkipButMapped(b) \/ b \in Mapped \/ page[b][0] = Blank

\* The first call since power-up erases the pool.  The test for the table's
\* own block compares `block', which the loop leaves at the first pool block.
SkipInPool(b) == SystemBlockCount = bmt_block_index \/ b \in bad \/ b \in Mapped

ErasePool ==
  /\ Finding /\ ~pool_erased
  /\ cur < BmtBlockCount
  /\ LET b == SystemBlockCount + cur
     IN \/ SkipInPool(b) /\ UNCHANGED <<flash, faults>>
        \/ /\ ~SkipInPool(b)
           /\ page' = Erased(page, b)
           /\ UNCHANGED <<bad, faults>>
        \/ /\ ~SkipInPool(b)
           /\ EraseFails(b)
           /\ MarkBlockBad(b)
  /\ cur' = cur + 1
  /\ UNCHANGED <<bmt, pc, reason, error_block, map_index, left, host, cuts>>

PoolErased ==
  /\ Finding /\ ~pool_erased
  /\ cur = BmtBlockCount
  /\ pool_erased' = TRUE
  /\ cur' = 0
  /\ UNCHANGED <<flash, table, mapped_count, bmt_block_index, pc, reason,
                 error_block, map_index, left, host, budget>>

\* find_available_block(false), for update_bmt or migrate_from_bad.
FindBlock ==
  /\ pc = "find" /\ pool_erased
  /\ Free # {}
  /\ map_index' = Min(Free)
  /\ IF reason = "write_fail" THEN pc' = "migrate" /\ left' = Pages
                              ELSE pc' = "update"  /\ UNCHANGED left
  /\ UNCHANGED <<flash, bmt, cur, reason, error_block, host, budget>>

NoBlock ==
  /\ pc = "find" /\ pool_erased
  /\ Free = {}
  /\ Refused
  /\ UNCHANGED <<flash, bmt, cur, left, budget>>

\* find_available_block(true), for write_bmt_to_flash.
FindBmtBlock ==
  /\ pc = "find_bmt" /\ pool_erased
  /\ Free # {}
  /\ bmt_block_index' = Max(Free)
  /\ pc' = "program_bmt"                    \* not erased again
  /\ UNCHANGED <<flash, table, mapped_count, pool_erased, locals, host, budget>>

NoBmtBlock ==
  /\ pc = "find_bmt" /\ pool_erased
  /\ Free = {}
  /\ Refused
  /\ UNCHANGED <<flash, bmt, cur, left, budget>>
-----------------------------------------------------------------------------
(* migrate_from_bad: the page that failed first, then every used page.     *)

NextPage == IF req.page \in left THEN req.page ELSE Min(left)

\* Faulty variant of Migrated: the logical block is not written to the spare area.
MigratedUnnamed(p) == IF p = req.page THEN DataPage(FakeIndex, req.data)
                                      ELSE page[error_block][p]

\* What is written to page p of the new block; the blocks of the pool carry
\* their logical block in the spare area already.
Migrated(p) ==
  IF p = req.page THEN DataPage(req.block, req.data)
  ELSE IF error_block < SystemBlockCount
       THEN [page[error_block][p] EXCEPT !.idx = error_block]
       ELSE page[error_block][p]

\* Faulty variant of Skipped: only the page that failed is migrated.
SkippedAll(p) == p # req.page

Skipped(p) == p # req.page /\ ~IsPageUsed(page[error_block][p])

Migrate ==
  /\ pc = "migrate"
  /\ left # {}
  /\ left' = left \ {NextPage}
  /\ page' = IF Skipped(NextPage) THEN page
             ELSE Programmed(page, map_index, NextPage, Migrated(NextPage))
  /\ UNCHANGED <<bad, bmt, pc, cur, reason, error_block, map_index, host, budget>>

\* The new block fails: mark it and start over with another one.
MigrateFails ==
  /\ pc = "migrate"
  /\ left # {}
  /\ ~Skipped(NextPage)
  /\ ProgramFails(map_index, NextPage, Migrated(NextPage))
  /\ MarkBlockBad(map_index)
  /\ pc' = "find"
  /\ left' = {}
  /\ UNCHANGED <<bmt, cur, reason, error_block, map_index, host, cuts>>

MigrateDone ==
  /\ pc = "migrate"
  /\ left = {}
  /\ pc' = "update"
  /\ UNCHANGED <<flash, bmt, locals, host, budget>>
-----------------------------------------------------------------------------
(* update_bmt: the table, the table's block, the mark on the bad block.    *)

UpdateTable ==
  /\ pc = "update"
  /\ IF error_block >= SystemBlockCount      \* a mapped block became bad
     THEN LET hits == {i \in 0 .. BmtBlockCount - 1 :
                         table[i].mapped_index = error_block}
              i    == IF hits = {} THEN BmtBlockCount ELSE Min(hits)
          IN /\ table' = [table EXCEPT ![i].mapped_index = map_index]
             /\ UNCHANGED mapped_count
     ELSE /\ table' = [table EXCEPT ![mapped_count] =
                         [bad_index |-> error_block, mapped_index |-> map_index]]
          /\ mapped_count' = (mapped_count + 1) % CountModulus
  /\ pc' = WriteBmt
  /\ UNCHANGED <<flash, bmt_block_index, pool_erased, locals, host, budget>>

EraseBmt ==
  /\ pc = "erase_bmt"
  /\ page' = Erased(page, bmt_block_index)
  /\ bad' = bad \ {bmt_block_index}          \* the mark goes with the rest
  /\ pc' = "program_bmt"
  /\ UNCHANGED <<bmt, locals, host, budget>>

EraseBmtFails ==
  /\ pc = "erase_bmt"
  /\ EraseFails(bmt_block_index)
  /\ MarkBlockBad(bmt_block_index)
  /\ bmt_block_index' = 0
  /\ pc' = "find_bmt"
  /\ UNCHANGED <<table, mapped_count, pool_erased, locals, host, cuts>>

ProgramBmt ==
  /\ pc = "program_bmt"
  /\ page' = Programmed(page, bmt_block_index, 0, TablePage(mapped_count, table))
  /\ IF req = NoReq THEN Idle
                    ELSE pc' = "mark" /\ UNCHANGED <<req, reason, error_block, map_index>>
  /\ UNCHANGED <<bad, bmt, cur, left, next_page, void, worn, budget>>

ProgramBmtFails ==
  /\ pc = "program_bmt"
  /\ ProgramFails(bmt_block_index, 0, TablePage(mapped_count, table))
  /\ MarkBlockBad(bmt_block_index)
  /\ bmt_block_index' = 0
  /\ pc' = "find_bmt"
  /\ UNCHANGED <<table, mapped_count, pool_erased, locals, host, cuts>>

\* The last statement of update_bmt; a block found bad by nand_erase_nand is
\* erased next.
MarkOld ==
  /\ pc = "mark"
  /\ MarkBlockBad(error_block)
  /\ IF reason = "unmapped" /\ req.op = "erase"
     THEN /\ pc' = "erase"
          /\ reason' = "none" /\ error_block' = 0 /\ map_index' = 0
          /\ UNCHANGED host
     ELSE Answered
  /\ UNCHANGED <<page, bmt, cur, left, budget>>
-----------------------------------------------------------------------------
(* The host: one request at a time, pages of a block in order, none twice  *)
(* between two erases.                                                     *)

Request(op, b, p, d) == req' = [op |-> op, block |-> b, page |-> p, data |-> d]

HostWrite(b, d) ==
  /\ pc = "idle"
  /\ next_page[b] < PagePerBlock
  /\ Request("write", b, next_page[b], d)
  /\ pc' = "program"
  /\ UNCHANGED <<flash, bmt, locals, next_page, void, worn, budget>>

\* Faulty variant of HostPage: the mapped block's own number in the spare area.
HostPageMapped == DataPage(IF Map(req.block) # req.block THEN Map(req.block) ELSE FakeIndex,
                           req.data)

\* mtk_nand_write_page: the page as it goes to the block b is mapped to.
HostPage == DataPage(IF Map(req.block) # req.block THEN req.block ELSE FakeIndex,
                     req.data)

WritePage ==
  /\ pc = "program"
  /\ page' = Programmed(page, Map(req.block), req.page, HostPage)
  /\ Answered
  /\ UNCHANGED <<bad, bmt, cur, left, budget>>

WritePageFails ==
  /\ pc = "program"
  /\ ProgramFails(Map(req.block), req.page, HostPage)
  /\ error_block' = Map(req.block)
  /\ reason' = "write_fail"
  /\ pc' = "find"
  /\ UNCHANGED <<bad, bmt, cur, map_index, left, host, cuts>>

\* mtk_nand_block_bad turns a block found bad into an update of the table.
BlockBad(b) == /\ Map(b) \in bad
               /\ error_block' = Map(b)
               /\ reason' = "unmapped"
               /\ pc' = "find"

HostErase(b) ==
  /\ pc = "idle"
  /\ Request("erase", b, 0, FF)
  /\ next_page' = [next_page EXCEPT ![b] = PagePerBlock]
  /\ \/ BlockBad(b)
     \/ /\ Map(b) \notin bad
        /\ pc' = "erase"
        /\ UNCHANGED <<error_block, reason>>
  /\ UNCHANGED <<flash, bmt, cur, map_index, left, void, worn, budget>>

HostIsBad(b) ==
  /\ pc = "idle"
  /\ Request("isbad", b, 0, FF)
  /\ BlockBad(b)
  /\ UNCHANGED <<flash, bmt, cur, map_index, left, next_page, void, worn, budget>>

\* mtk_nand_block_markbad marks the mapped block and leaves the table alone.
HostMarkBad(b) ==
  /\ pc = "idle"
  /\ faults < MaxFaults
  /\ faults' = faults + FaultCost
  /\ MarkBlockBad(Map(b))
  /\ next_page' = [next_page EXCEPT ![b] = PagePerBlock]
  /\ void' = void \cup {b}
  /\ UNCHANGED <<page, bmt, pc, locals, req, worn, cuts>>

\* nand_erase_nand calls mtk_nand_erase, which translates the address, only for
\* an MLC_DEVICE, and no chip of gen_FlashTable is one: the command goes to the
\* block of the logical address, wherever the table has moved it.
EraseTarget(b) == b

EraseBlock ==
  /\ pc = "erase"
  /\ page' = Erased(page, EraseTarget(req.block))
  /\ bad' = bad \ {EraseTarget(req.block)}
  /\ Answered
  /\ UNCHANGED <<bmt, cur, left, budget>>

\* MTD_ERASE_FAILED: the host is told, and gives the block up.
EraseBlockFails ==
  /\ pc = "erase"
  /\ EraseFails(EraseTarget(req.block))
  /\ Idle
  /\ void' = void \cup {req.block}
  /\ UNCHANGED <<bad, bmt, cur, left, next_page, worn, cuts>>
-----------------------------------------------------------------------------
(* Power goes: RAM is lost, the command under way leaves its target        *)
(* unreadable (or never started, or had just finished).                    *)

Torn ==
  CASE pc = "program"                -> {Spoiled(page, Map(req.block), req.page)}
    [] pc = "migrate" /\ left # {}   -> IF Skipped(NextPage) THEN {}
                                        ELSE {Spoiled(page, map_index, NextPage)}
    [] pc = "program_bmt"            -> {Spoiled(page, bmt_block_index, 0)}
    [] pc = "erase"                  -> {SpoiledBlock(page, EraseTarget(req.block))}
    [] pc = "erase_bmt"              -> {SpoiledBlock(page, bmt_block_index)}
    [] Finding /\ ~pool_erased /\ cur < BmtBlockCount ->
         IF SkipInPool(SystemBlockCount + cur) THEN {}
         ELSE {SpoiledBlock(page, SystemBlockCount + cur)}
    [] OTHER -> {}

\* The host finishes with the block power interrupted only after erasing it,
\* and after an unclean shutdown erases again what holds no written page.
Interrupted == IF req = NoReq THEN {} ELSE {req.block}
Unwritten   == IF pc = "idle" THEN {}
               ELSE {b \in System : next_page[b] = 0} \cup
                    IF req.op = "erase" THEN {req.block} ELSE {}

\* A boot that finds no table gives a moved block back to its logical address
\* unless the block there is marked bad.
Forgotten == IF Candidates' # {} THEN {}
             ELSE {b \in System : Map(b) # b /\ b \notin bad}

PowerCut ==
  /\ pc \in CutAt
  /\ cuts < MaxCuts
  /\ cuts' = cuts + 1
  /\ page' \in {page} \cup Torn
  /\ table' = Empty /\ mapped_count' = 0 /\ bmt_block_index' = 0 /\ pool_erased' = FALSE
  /\ pc' = "off"
  /\ cur' = 0 /\ reason' = "none" /\ error_block' = 0 /\ map_index' = 0 /\ left' = {}
  /\ req' = NoReq
  /\ next_page' = [b \in System |-> IF b \in Interrupted \cup Unwritten
                                    THEN PagePerBlock ELSE next_page[b]]
  /\ UNCHANGED <<bad, worn, faults>>
  /\ void' = void \cup Unwritten \cup Forgotten
-----------------------------------------------------------------------------
Init ==
  /\ page = [b \in Blocks |-> [p \in Pages |-> Blank]]
  /\ bad \in {s \in SUBSET Blocks : Cardinality(s) <= MaxFactoryBad}
  /\ table = Empty /\ mapped_count = 0 /\ bmt_block_index = 0 /\ pool_erased = FALSE
  /\ pc = "off"
  /\ cur = 0 /\ reason = "none" /\ error_block = 0 /\ map_index = 0 /\ left = {}
  /\ req = NoReq
  /\ next_page = [b \in System |-> PagePerBlock]    \* erase before the first use
  /\ void = System
  /\ worn = FALSE
  /\ faults = 0 /\ cuts = 0

Boot   == LoadBmt \/ ReMark \/ LoadDone \/ StartReconstruct \/ Reconstruct \/ ReconstructDone
Find   == ErasePool \/ PoolErased \/ FindBlock \/ NoBlock \/ FindBmtBlock \/ NoBmtBlock
Move   == Migrate \/ MigrateFails \/ MigrateDone
Commit == UpdateTable \/ EraseBmt \/ EraseBmtFails \/ ProgramBmt \/ ProgramBmtFails \/ MarkOld
Serve  == WritePage \/ WritePageFails \/ EraseBlock \/ EraseBlockFails
Ask    == \E b \in System : \/ \E d \in Data : HostWrite(b, d)
                            \/ HostErase(b) \/ HostIsBad(b) \/ HostMarkBad(b)

Work   == Boot \/ Find \/ Move \/ Commit \/ Serve    \* the code, not its callers

Next == Work \/ Ask \/ PowerCut

Spec     == Init /\ [][Next]_vars
FairSpec == Spec /\ WF_vars(Work)     \* a call runs until it returns
==============================================================================
