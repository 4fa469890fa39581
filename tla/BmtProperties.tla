---------------------------- MODULE BmtProperties ----------------------------
(***************************************************************************)
(* What the bad-block manager of module Bmt must keep true.                *)
(***************************************************************************)
EXTENDS Bmt

\* Every variable stays within the values the C declarations give it.
TypeOK ==
  /\ page \in [Blocks -> [Pages -> Page]]
  /\ bad \subseteq Blocks
  /\ table \in [Slots -> Entry]
  /\ mapped_count \in Nat
  /\ bmt_block_index \in {0} \cup Pool
  /\ pool_erased \in BOOLEAN
  /\ pc \in {"off", "remark", "scan", "idle", "program", "erase", "find", "migrate",
             "update", "find_bmt", "erase_bmt", "program_bmt", "mark"}
  /\ cur \in Nat
  /\ reason \in {"none", "write_fail", "unmapped"}
  /\ error_block \in Blocks
  /\ map_index \in {0} \cup Pool
  /\ left \subseteq Pages
  /\ req \in [op : {"none", "write", "erase", "isbad"}, block : System,
              page : Pages, data : Data \cup {FF}]
  /\ next_page \in [System -> 0 .. PagePerBlock]
  /\ void \subseteq System
  /\ worn \in BOOLEAN
  /\ faults \in 0 .. MaxFaults /\ cuts \in 0 .. MaxCuts
-----------------------------------------------------------------------------
(* The pool.                                                               *)

Distinct(n, t) == \A i, j \in 0 .. n - 1 :
                    t[i].mapped_index = t[j].mapped_index => i = j

MappedTo(n, t) == {t[i].mapped_index : i \in 0 .. n - 1}

\* No pool block serves two purposes: two logical blocks never share one, the
\* table's own block is never handed out, and the block being filled by a
\* migration is neither (find_available_block, is_block_mapped).
PoolDisjoint ==
  /\ Distinct(mapped_count, table)
  /\ Mapped \subseteq Pool
  /\ bmt_block_index \notin Mapped
  /\ pc \in {"migrate", "update"} =>
       map_index \in Pool \ (Mapped \cup {bmt_block_index})

\* A table that is found at the next boot satisfies the same, wherever the
\* loss of power left it (load_bmt_data trusts the first valid one).
StoredTablesDisjoint ==
  \A b \in Blocks : \A p \in Pages :
    page[b][p].kind = "bmt" =>
      LET t == page[b][p].bmt
      IN  /\ Distinct(t.count, t.table)
          /\ MappedTo(t.count, t.table) \subseteq Pool \ {b}

\* mapped_count never exceeds the pool: bmt.table[mapped_count] stays in bounds.
TableFits == /\ mapped_count <= BmtBlockCount
             /\ pc = "update" => mapped_count < BmtBlockCount
                              \/ error_block >= SystemBlockCount


-----------------------------------------------------------------------------
(* The inductive invariant behind the four above (module BmtProofs).       *)

\* A write in progress is for the next page of its block; there is no request
\* while the code boots or is idle.
RequestInv ==
  /\ req.op = "write" => next_page[req.block] = req.page
  /\ pc \in {"off", "remark", "scan", "idle"} => req = NoReq

\* A reconstruction has mapped only blocks it has looked at.
ScanInv == pc = "scan" => /\ bmt_block_index = 0
                          /\ \A b \in Mapped : b < SystemBlockCount + cur

\* A table has no index in its spare area, so migrate_from_bad never copies one.
TablesUnused == \A b \in Blocks : \A p \in Pages :
                  page[b][p].kind = "bmt" => ~IsPageUsed(page[b][p])

IInv == /\ TypeOK /\ RequestInv
        /\ PoolDisjoint /\ ScanInv
        /\ StoredTablesDisjoint /\ TablesUnused
-----------------------------------------------------------------------------
(* What the host sees, and what it would see if power went now.            *)

InBoot == pc \in {"off", "remark", "scan"}

\* The table a boot would work with: the stored one, or the one rebuilt from
\* the spare areas, where get_mapping_block_index takes the lowest match.
BootMap(b) ==
  IF Candidates # {}
  THEN LET t    == page[Max(Candidates)][0].bmt
           hits == {i \in 0 .. t.count - 1 : t.table[i].bad_index = b}
       IN  IF hits = {} THEN b ELSE t.table[Min(hits)].mapped_index
  ELSE LET hits == {x \in Pool \ bad : page[x][0].idx = b}
       IN  IF b \notin bad \/ hits = {} THEN b ELSE Min(hits)

\* Where block b of the host lies.
Home(b) == IF InBoot THEN BootMap(b) ELSE Map(b)

Content == [b \in System |-> [p \in Pages |-> Read(page[Home(b)][p])]]

\* Blocks of the host that lie in the pool and hold something, and blocks of
\* the host that lie in the pool although their own one is not marked bad.
Stuck == {b \in System : Home(b) # b /\ ~ErasedBlock(Home(b))}
Loose == {b \in System : Home(b) # b /\ b \notin bad}

\* The NAND stack is a store of good blocks (module BlockStore): no
\* acknowledged page is lost or brought back to an older value by a failing
\* program or erase, by a migration or by a loss of power, but for what an
\* erase that goes to the logical address does to a block in the pool.
Store == INSTANCE BlockStore WITH content <- Content, stuck <- Stuck, loose <- Loose
StoreSpec == Store!Spec
-----------------------------------------------------------------------------
(* The flash.                                                              *)

\* "we don't need to erase found block as it has been erased in
\* find_available_block()": the table is programmed into an erased page, as long
\* as the pool is not used up.
TableBlockErased == pc = "program_bmt" => page[bmt_block_index][0] = Blank

\* The host's page is erased where it is written (mtk_nand_write_page), and so
\* is the page a migration copies one to (migrate_from_bad).
HostPageErased == pc = "program" /\ req.block \notin void =>
                    page[Map(req.block)][req.page] = Blank
CopyPageErased == pc = "migrate" /\ left # {} => page[map_index][NextPage] = Blank

\* A program command only ever hits an erased page, whatever was left in the
\* pool by an interrupted migration (the erase of the pool, find_available_block).
ProgramsErasedPage == HostPageErased /\ CopyPageErased /\ TableBlockErased

\* The block the table was written to is not a bad one when update_bmt returns.
BmtBlockGood == pc = "idle" /\ bmt_block_index # 0 => bmt_block_index \notin bad

\* "bad block ... is mapped to ..., should be caused by power lost, replace
\* with one": after a reconstruction a bad block has one entry in the table.
OneEntryPerBadBlock ==
  \A i, j \in Live : table[i].bad_index = table[j].bad_index => i = j

\* "Skip bmt block": erasing the pool leaves the table's own block alone.
PoolEraseSparesBmt ==
  [][Finding /\ ~pool_erased /\ bmt_block_index # 0 =>
       page'[bmt_block_index] = page[bmt_block_index] \/ pc' = "off"]_vars

\* "mapped block count in pool": an update never makes the table forget.
CountGrows == [][pc = "update" /\ pc' # "off" => mapped_count' >= mapped_count]_vars

\* "Check if we have a bad block, we do not erase bad blocks!": no erase command
\* of the host reaches a block that is marked bad.
ErasesNoBadBlock == pc = "erase" => EraseTarget(req.block) \notin bad

\* Every call returns: neither migrate_from_bad nor write_bmt_to_flash calls
\* itself for ever, since each failing block is marked before the next try.
Returns == pc # "idle" ~> pc = "idle"
-----------------------------------------------------------------------------
(* The inductive invariant behind StoreSpec as long as power stays on.      *)

\* Marks that reach the flash, a pool mapped_count can count, and a power supply
\* that does not fail.
Steady == /\ "mark" \notin FaultKinds
          /\ BmtBlockCount < CountModulus
          /\ CutAt = {}

Updating == pc \in {"find", "migrate", "update"}
Updated  == pc \in {"find_bmt", "erase_bmt", "program_bmt", "mark"} /\ req # NoReq

\* What is_page_used takes for unused reads as erased.
UnusedReadsErased == \A b \in Blocks : \A p \in Pages :
                       ~IsPageUsed(page[b][p]) => Read(page[b][p]) = FF

\* What find_available_block accepts is erased, but for the block that is being
\* filled and the one that is about to be marked.
InUse == IF pc \in {"migrate", "update"} THEN {map_index}
         ELSE IF Updated THEN {error_block} ELSE {}

FreeIsErased == \A b \in Free \ InUse : ErasedBlock(b)

\* A block of the host that holds something is not mapped to a bad one, and
\* what the host has not written yet is erased.
MappedIsGood == \A b \in System \ void : Map(b) \notin bad

BeingWritten(b, p) == pc # "program" /\ req.op = "write" /\ req.block = b /\ req.page = p

RestIsErased == \A b \in System \ void : \A p \in Pages :
                  p >= next_page[b] => page[Map(b)][p] = Blank \/ BeingWritten(b, p)

\* The commands for the host's own block.
ServeInv ==
  /\ pc = "program" => req.op = "write"
  /\ pc = "erase" => req.op = "erase" /\ Map(req.block) \notin bad
  /\ req.op = "erase" => next_page[req.block] = PagePerBlock

\* Why the table is updated.
Reasons == \/ reason = "write_fail" /\ req.op = "write"
           \/ reason = "unmapped"   /\ req.op \in {"erase", "isbad"}

\* Page p of the new block is what the old one should have been.
Copied(p) == IF p = req.page THEN Read(page[map_index][p]) = req.data
             ELSE /\ Read(page[map_index][p]) = Read(page[error_block][p])
                  /\ page[error_block][p] = Blank => page[map_index][p] = Blank

\* Until update_bmt changes the table, the old block is the mapped one.
UpdatingInv ==
  Updating =>
    /\ Reasons /\ error_block = Map(req.block)
    /\ req.op = "isbad" => req.block \in void
    /\ pc # "find" => map_index \notin bad
    /\ pc = "migrate" => /\ reason = "write_fail"
                         /\ \A p \in left : page[map_index][p] = Blank
                         /\ \A p \in Pages \ left : Copied(p)
    /\ pc = "update" => IF reason = "write_fail" THEN \A p \in Pages : Copied(p)
                                                 ELSE ErasedBlock(map_index)

\* Afterwards the new one is, and the old one is mapped to no more.
UpdatedInv ==
  Updated =>
    /\ Reasons /\ Map(req.block) \notin bad
    /\ \A b \in System : Map(b) # error_block
    /\ reason = "write_fail" => Read(page[Map(req.block)][req.page]) = req.data

\* The table's block; a new chip is blank until the first table is written.
FirstBoot ==
  /\ pc # "remark" /\ (pc = "mark" => req # NoReq)
  /\ pc \in {"erase_bmt", "program_bmt"} => bmt_block_index \in Pool
  /\ pc = "find_bmt" => bmt_block_index = 0
  /\ req = NoReq /\ pc # "idle" => mapped_count = 0
  /\ pc \in {"off", "scan"} => \A b \in Blocks : ErasedBlock(b)

HostInv == /\ UnusedReadsErased /\ FreeIsErased /\ OneEntryPerBadBlock
           /\ MappedIsGood /\ RestIsErased
           /\ ServeInv /\ UpdatingInv /\ UpdatedInv /\ FirstBoot

\* Once a request has been refused nothing is promised any more.
SteadyInv == worn \/ HostInv
-----------------------------------------------------------------------------
(* The inductive invariant behind StoreSpec when power fails and no command *)
(* does.                                                                    *)

\* Programs and erases that succeed.  Power may go at any point and any number
\* of times, blocks may be bad when the chip is new, the host may mark more, and
\* a mark may be lost.
Dependable == /\ "program" \notin FaultKinds /\ "erase" \notin FaultKinds
              /\ BmtBlockCount < CountModulus

\* Pool block x says in its spare area which block of the host it stands for.
Named(x) == page[x][0].idx \in System

\* Block b holds a page the host may count on.
Holds(b) == /\ b \notin void /\ next_page[b] # 0
            /\ ~(req.op = "erase" /\ req.block = b)

\* A block of the host lies in a good block.
HomesAreGood == \A b \in System \ void : Home(b) \notin bad

\* A reconstruction finds the block by its name, ...
HomesAreNamed == \A b \in System :
                   Holds(b) /\ Home(b) # b => page[Home(b)][0].idx = b

\* A boot without a table gives block b back: copies bear its name until the
\* pool is erased.
Astray(b) == b \notin bad /\ pc \in {"off", "scan", "find_bmt"} /\ Candidates = {}

\* ... and no other block has that name.
NamesAreHomes == \A x \in Pool \ bad :
                   Named(x) => Home(page[x][0].idx) = x \/ Astray(page[x][0].idx)

\* What the host has not written yet is erased.
RestIsBlank == \A b \in System \ void : \A p \in Pages :
                 p >= next_page[b] => page[Home(b)][p] = Blank

Hosts == HomesAreGood /\ HomesAreNamed /\ NamesAreHomes /\ RestIsBlank

\* There is one table in the flash at most, in the block the code knows.
OneTable ==
  /\ \A c, d \in Candidates : c = d
  /\ pc # "off" => Candidates \subseteq {bmt_block_index}
  /\ pc = "remark" => Candidates # {}

\* Stored or in RAM, it has one entry for a bad block.
EntriesUnique ==
  /\ \A c \in Candidates :
       LET t == page[c][0].bmt
       IN  \A i, j \in 0 .. t.count - 1 : t.table[i].bad_index = t.table[j].bad_index => i = j
  /\ pc # "off" => OneEntryPerBadBlock

\* The stored table is that in RAM, but for the block whose update it lacks.
StoredIsCurrent ==
  /\ pc \notin {"off", "scan"} /\ Candidates # {} =>
       \A b \in System : BootMap(b) = Map(b) \/ (pc = "erase_bmt" /\ b = req.block)
  /\ pc \in {"idle", "program", "erase", "mark"} => Candidates # {} \/ Pool \subseteq bad

\* The table has a good block of its own, or there is one for it, or the pool
\* has no good block at all.
TableHasBlock ==
  IF bmt_block_index # 0
  THEN bmt_block_index \notin bad /\ ~Named(bmt_block_index)
  ELSE \/ Pool \subseteq bad
       \/ /\ pc \in {"off", "scan", "find_bmt"}
          /\ \E y \in Pool \ bad : ~Named(y) /\ (pc # "off" => y \notin Mapped)

\* The block the table goes to has been erased, also if it is looked for.
TableGoesToErased ==
  /\ pc = "find_bmt" => \A x \in Free : pool_erased \/ x < SystemBlockCount + cur
                                        => page[x][0] = Blank
  /\ TableBlockErased

\* What a request has come to.
CallsInv ==
  /\ pc = "off" => cur = 0 /\ mapped_count = 0
  /\ pc = "scan" => ~pool_erased
  /\ pc = "program" => req.op = "write"
  /\ pc = "erase" => req.op = "erase" /\ Map(req.block) \notin bad
  /\ req.op = "erase" => next_page[req.block] = PagePerBlock
  /\ pc = "find_bmt" => req = NoReq /\ bmt_block_index = 0
  /\ pc \in {"update", "erase_bmt", "program_bmt", "mark"} => bmt_block_index # 0
  /\ pc \in {"erase_bmt", "mark"} => req # NoReq
  /\ pc # "migrate"

\* The table is updated for a block that the host has given up or erases, and
\* that is found bad.
UpdatesVoid ==
  /\ pc \in {"find", "update", "erase_bmt", "program_bmt", "mark"} /\ req # NoReq =>
       /\ reason = "unmapped" /\ req.op \in {"erase", "isbad"}
       /\ req.block \in void /\ error_block \in bad
  /\ pc \in {"find", "update"} => req # NoReq /\ error_block = Map(req.block)
  /\ pc = "update" => map_index \notin bad
  /\ pc \in {"erase_bmt", "program_bmt", "mark"} /\ req # NoReq =>
       /\ Map(req.block) \notin bad /\ ~Named(Map(req.block))

\* A reconstruction enters blocks by name, and has entered those it has looked at.
ScanKnown ==
  /\ pc \in {"scan", "find_bmt"} =>
       \A i \in Live : /\ table[i].mapped_index \notin bad /\ table[i].bad_index \in bad
                       /\ page[table[i].mapped_index][0].idx = table[i].bad_index
  /\ pc = "scan" =>
       \A x \in Pool \ bad :
         x < SystemBlockCount + cur /\ Named(x) /\ page[x][0].idx \in bad => x \in Mapped

Tables == /\ OneTable /\ EntriesUnique /\ StoredIsCurrent /\ TableHasBlock
          /\ TableGoesToErased /\ CallsInv /\ UpdatesVoid /\ ScanKnown

PowerInv == worn \/ (Hosts /\ Tables)
==============================================================================
