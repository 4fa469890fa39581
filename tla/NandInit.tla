------------------------------ MODULE NandInit ------------------------------
(***************************************************************************)
(* nand_init_chip: board_nand_init finds the chip in its table, lays out   *)
(* the spare area and sets the pool of the bad-block table apart; then     *)
(* nand_scan, init_bmt and part_init_pmt.  Sizes are in blocks of 128 KiB. *)
(***************************************************************************)
EXTENDS Integers, Sequences

Row(id, total, spare) == [id |-> id, total |-> total, spare |-> spare]

\* gen_FlashTable: the id, the size in MiB, the spare bytes of a page; all
\* have pages of 2048 bytes, sectors of 1024 and blocks of 128 KiB.
FlashTable ==
  { Row(<<\hEF, \hF1, \h80, \h95, \h00>>, 128, 64),   Row(<<\hEF, \hDA, \h90, \h95, \h04>>, 256, 64),
    Row(<<\hEF, \hDC, \h90, \h95, \h54>>, 512, 64),   Row(<<\hC2, \hF1, \h80, \h95, \h02>>, 128, 64),
    Row(<<\hC2, \hDA, \h90, \h95, \h06>>, 256, 64),   Row(<<\hC2, \hDC, \h90, \h95, \h56>>, 512, 64),
    Row(<<\hC2, \hD3, \hD1, \h95, \h5A>>, 1024, 64),  Row(<<\h01, \hF1, \h80, \h1D, \h01>>, 128, 64),
    Row(<<\h01, \hDA, \h90, \h95, \h46>>, 256, 128),  Row(<<\h01, \hDC, \h90, \h95, \h56>>, 512, 128),
    Row(<<\h01, \hD3, \hD1, \h95, \h5A>>, 1024, 128) }

NoDevice == [id |-> <<>>, total |-> 0, spare |-> 0]     \* devinfo as it is in .bss

\* What may be on the board: a chip of the table, or one whose id ends
\* differently and that is twice as large; six bytes of the id are read.
Chips ==
  [id : {d.id \o <<0>> : d \in FlashTable}, total : {d.total : d \in FlashTable}, spare : {64, 128}]
Listed   == {c \in Chips : Row(SubSeq(c.id, 1, 5), c.total, c.spare) \in FlashTable}
Unlisted == {[c EXCEPT !.id[5] = 255 - @, !.total = 2 * @] : c \in Listed}

VARIABLES
  ni_chip,    \* the chip, and whether another one answers at NFI_TRICKY_CS
  ni_pc,      \* the next step of nand_init_chip
  devinfo, twins,
  chipsize,   \* nand_chip->chipsize, in blocks
  layout,     \* nand_chip->ecc.layout: eccbytes and the first of eccpos
  g_bmt_sz,   \* the blocks of the pool
  bmt_size    \* what init_bmt returns: bmt_block_count and system_block_count, 0 for NULL

niVars == <<ni_chip, ni_pc, devinfo, twins, chipsize, layout, g_bmt_sz, bmt_size>>

NandInitInit ==
  /\ ni_chip \in [is : Listed \cup Unlisted, second : BOOLEAN]
  /\ ni_pc = "id" /\ devinfo = NoDevice /\ twins = FALSE /\ chipsize = 0
  /\ layout = [eccbytes |-> 32, first |-> 32] /\ g_bmt_sz = 0
  /\ bmt_size = [pool |-> 0, system |-> 0]

\* Faulty variant of Matches: the last byte of the id is not compared.
MatchesShort(id) == {d \in FlashTable : \A i \in 1 .. 4 : id[i] = d.id[i]}

Matches(id) == {d \in FlashTable : \A i \in DOMAIN d.id : id[i] = d.id[i]}

\* The longest entry that matches; without one the caller goes on as it is.
get_device_info ==
  /\ ni_pc = "id" /\ ni_pc' = "second"
  /\ devinfo' = IF Matches(ni_chip.is.id) = {} THEN NoDevice
                ELSE CHOOSE d \in Matches(ni_chip.is.id) :
                       \A e \in Matches(ni_chip.is.id) : Len(e.id) <= Len(d.id)
  /\ UNCHANGED <<ni_chip, twins, chipsize, layout, g_bmt_sz, bmt_size>>

cs_check ==
  /\ ni_pc = "second" /\ ni_pc' = "layout" /\ twins' = ni_chip.second
  /\ UNCHANGED <<ni_chip, devinfo, chipsize, layout, g_bmt_sz, bmt_size>>

OobFree == 8                    \* OOB_AVAI_PER_SECTOR
SectorsOf(d) == IF d = NoDevice THEN 0 ELSE 2048 \div 1024

Layout ==
  /\ ni_pc = "layout" /\ ni_pc' = "sizes"
  /\ layout' = [eccbytes |-> devinfo.spare - OobFree * SectorsOf(devinfo),
                first    |-> OobFree * SectorsOf(devinfo)]
  /\ UNCHANGED <<ni_chip, devinfo, twins, chipsize, g_bmt_sz, bmt_size>>

\* Faulty variants of PoolOf: seven of a hundred; and as much as the table holds.
PoolOfSeven(blocks)   == (blocks \div 100) * 7
PoolOfAtLimit(blocks) == (blocks \div 16) - 1

PoolOf(blocks) == (blocks \div 100) * 6

\* An unknown chip has pages of no bytes, and the division by them hangs.
Sizes ==
  /\ ni_pc = "sizes"
  /\ IF devinfo = NoDevice
     THEN ni_pc' = "hung" /\ UNCHANGED <<chipsize, g_bmt_sz>>
     ELSE /\ ni_pc' = "scan" /\ chipsize' = devinfo.total * 8 * (IF twins THEN 2 ELSE 1)
          /\ g_bmt_sz' = PoolOf(chipsize')
  /\ UNCHANGED <<ni_chip, devinfo, twins, layout, bmt_size>>

\* nand_scan has sizes of its own for the chips of the table, one die each.
Scan ==
  /\ ni_pc = "scan" /\ ni_pc' = "bmt" /\ chipsize' = devinfo.total * 8
  /\ UNCHANGED <<ni_chip, devinfo, twins, layout, g_bmt_sz, bmt_size>>

MaxBmtSize == 512               \* MAX_BMT_SIZE

\* Faulty variant of SystemBlocks: the pool is not subtracted.
SystemBlocksAll == chipsize

SystemBlocks == chipsize - g_bmt_sz

\* The sizes init_bmt works with; nand_init_chip goes on after a NULL.
init_bmt ==
  /\ ni_pc = "bmt" /\ ni_pc' = "done"
  /\ bmt_size' = IF g_bmt_sz \in 1 .. MaxBmtSize - 1
                 THEN [pool |-> g_bmt_sz, system |-> SystemBlocks]
                 ELSE [pool |-> 0, system |-> 0]
  /\ UNCHANGED <<ni_chip, devinfo, twins, chipsize, layout, g_bmt_sz>>

\* Where part_init_pmt looks for the partition table and for its mirror.
PtBlock  == chipsize - (2 + g_bmt_sz)
MptBlock == PtBlock + 1

NandInitNext == get_device_info \/ cs_check \/ Layout \/ Sizes \/ Scan \/ init_bmt
NandInitSpec == NandInitInit /\ [][NandInitNext]_niVars
-----------------------------------------------------------------------------
Started == ni_pc = "done"
HasBmt  == bmt_size.pool > 0

\* A chip is not taken for another one: the sizes the driver works with are
\* those of the chip on the board.
GeometryTrue == devinfo # NoDevice => devinfo = Row(devinfo.id, ni_chip.is.total, ni_chip.is.spare)

\* The pool and the blocks below it are the whole chip and nothing beyond it,
\* also when the pool was sized for two chips, and the two copies of the
\* partition table are the last blocks below the pool.
PoolIsOwn ==
  Started /\ HasBmt =>
    /\ bmt_size.pool + bmt_size.system = ni_chip.is.total * 8
    /\ 0 < PtBlock /\ MptBlock = bmt_size.system - 1

\* Every chip of the table gets its bad-block table: the pool stays below the
\* limit of init_bmt.  Two chips of 1 GiB would have a pool of 978 blocks;
\* init_bmt refuses it and bad blocks are not replaced at all.
MappingPresent ==
  Started /\ ~(twins /\ devinfo.total = 1024) => HasBmt

\* The table of the pool, its header of 20 bytes and 4 bytes for each block,
\* fits the one page write_bmt_to_flash programs.
TableFitsPage == Started => 20 + 4 * bmt_size.pool <= 2048

\* Faulty variant of IndexPos: where pages of other sizes have it.
IndexPosLarge == {29, 30}

IndexPos    == {13, 14}         \* set_bad_index_to_oob
MarkPos     == {0}              \* the mark of a bad block
SignaturePos == 1 .. 3          \* OOB_SIGNATURE
ChecksumPos == 25 + 6           \* behind the last free entry of nand_oob_64

FdmStored(d) == (0 .. OobFree * SectorsOf(d) - 1) \ {ChecksumPos}   \* mtk_nand_write_fdm_data

EccPos == layout.first .. layout.first + layout.eccbytes - 1

\* The marks bmt.c puts into the spare area are among the bytes of it that a
\* program of a page stores; neither the driver's checksum nor the parity, as
\* the layout has it, hits them.
MarksStored ==
  devinfo # NoDevice =>
    /\ MarkPos \cup SignaturePos \cup IndexPos \subseteq FdmStored(devinfo)
    /\ EccPos \cap (MarkPos \cup SignaturePos \cup IndexPos) = {}
=============================================================================
