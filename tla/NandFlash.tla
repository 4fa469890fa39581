------------------------------ MODULE NandFlash ------------------------------
(***************************************************************************)
(* The NAND medium as the bad-block manager (bmt.c) and the page driver    *)
(* (mtk_nand.c) see it: blocks of pages, a bad mark per block, a page that *)
(* can be programmed once after an erase.  The geometry is the one init_bmt*)
(* computes; the effect of a command is what mtk_nand_exec_write_page,     *)
(* mtk_nand_erase_hw and mtk_nand_exec_read_page rely on.                  *)
(*                                                                         *)
(*      +--------------------------------+--------------------------+      *)
(*      | system_block_count blocks      | bmt_block_count blocks   |      *)
(*      +--------------------------------+--------------------------+      *)
(***************************************************************************)
EXTENDS Naturals, FiniteSets, FiniteSetsExt

CONSTANTS
  SystemBlockCount,   \* system_block_count: the blocks the host addresses
  BmtBlockCount,      \* bmt_block_count: the replacement pool behind them
  PagePerBlock,       \* page_per_block
  Data,               \* what the host writes into a page
  FF                  \* what an erased or an uncorrectable page reads as

FakeIndex == 43690    \* FAKE_INDEX 0xAAAA: the page lies in its own block
NoIndex   == 65535    \* 0xFFFF: nobody wrote this page's spare area

\* init_bmt accepts a pool of 1 .. MAX_BMT_SIZE - 1 blocks.  Block 0 is a
\* system block, which is why 0 can stand for "no pool block".
ASSUME Geometry ==
  /\ SystemBlockCount \in 1 .. FakeIndex
  /\ BmtBlockCount \in 1 .. 511
  /\ PagePerBlock \in Nat \ {0}
  /\ FF \notin Data

System == 0 .. SystemBlockCount - 1
Pool   == SystemBlockCount .. SystemBlockCount + BmtBlockCount - 1
Blocks == System \cup Pool
Pages  == 0 .. PagePerBlock - 1

Slots == 0 .. BmtBlockCount     \* bmt.table[]; slot BmtBlockCount is never live
Entry == [bad_index : System, mapped_index : {0} \cup Pool]
Empty == [i \in Slots |-> [bad_index |-> 0, mapped_index |-> 0]]

(***************************************************************************)
(* A page is erased, unreadable, host data (with the logical block in its  *)
(* spare area) or a bad-block table.                                       *)
(***************************************************************************)
Page == [kind : {"blank", "junk", "data", "bmt"},
         idx  : System \cup {FakeIndex, NoIndex},
         data : Data \cup {FF},
         bmt  : [count : Nat, table : [Slots -> Entry]]]

NoBmt == [count |-> 0, table |-> Empty]
Blank == [kind |-> "blank", idx |-> NoIndex, data |-> FF, bmt |-> NoBmt]
Junk  == [Blank EXCEPT !.kind = "junk"]

DataPage(i, d)      == [kind |-> "data", idx |-> i, data |-> d, bmt |-> NoBmt]
TablePage(n, table) == [Blank EXCEPT !.kind = "bmt",
                                     !.bmt = [count |-> n, table |-> table]]

\* An unreadable page is handed up as a buffer of 0xFF, like an erased one.
Read(pg) == pg.data

\* is_page_used: someone wrote the index bytes of the spare area.
IsPageUsed(pg) == pg.idx # NoIndex

(***************************************************************************)
(* The outcome of a command on the array of pages f.                       *)
(***************************************************************************)
Programmed(f, b, p, v) == [f EXCEPT ![b][p] = IF @ = Blank THEN v ELSE Junk]
Spoiled(f, b, p)       == [f EXCEPT ![b][p] = Junk]
Erased(f, b)           == [f EXCEPT ![b] = [p \in Pages |-> Blank]]
SpoiledBlock(f, b)     == [f EXCEPT ![b] = [p \in Pages |-> Junk]]
==============================================================================
