----------------------------- MODULE NandPages ------------------------------
(***************************************************************************)
(* The arithmetic of mtk_nand.c: which page of a multi-level block stands  *)
(* for page n of a low-page partition, how pages share their cells, how    *)
(* many bits the ECC corrects and where the bytes of the spare area go.    *)
(***************************************************************************)
EXTENDS Integers

Vendors == {"MICRON", "HYNIX", "SANDISK"}     \* of functArray and fsFuncArray

Even(n) == n - (n % 2)

\* Faulty variant of HYNIX_TRANSFER: odd pages are not paired.
HYNIX_PLAIN(n) == IF n < 4 THEN n ELSE 2 * n - 2

\* functArray: the page for the n-th low page of a block.
MICRON_TRANSFER(n)  == IF n < 4 THEN n
                       ELSE n + Even(n - 4) - (IF n <= 130 THEN 0 ELSE 2)
HYNIX_TRANSFER(n)   == IF n < 4 THEN n ELSE n + Even(n) - 2
SANDISK_TRANSFER(n) == IF n = 0 THEN 0 ELSE 2 * n - 1

LowPage(v, n) == CASE v = "MICRON"  -> MICRON_TRANSFER(n)
                   [] v = "HYNIX"   -> HYNIX_TRANSFER(n)
                   [] v = "SANDISK" -> SANDISK_TRANSFER(n)

\* fsFuncArray, high_to_low and the other way.

sandisk_low(p)  == CASE p = 255             -> p - 2
                     [] p = 0 \/ (p # 255 /\ p % 2 = 1) -> p
                     [] p = 2               -> 0
                     [] OTHER               -> p - 3
sandisk_high(p) == CASE p = 255 \/ (p # 0 /\ p % 2 = 0) -> p
                     [] p \in {0, 253}      -> p + 2
                     [] OTHER               -> p + 3
hynix_low(p)    == CASE p < 4 \/ p % 4 \in {2, 3} -> p
                     [] p \in {4, 5, 254, 255}    -> p - 4
                     [] OTHER                     -> p - 6
hynix_high(p)   == CASE p > 251 -> p
                     [] p < 2   -> p + 4
                     [] p >= 2 /\ p <= 251 /\ p % 4 \in {0, 1} -> p
                     [] OTHER   -> p + 6

\* Faulty variant of micron_low: the end of the block is not special.
micron_low_plain(p) == IF p < 4 \/ p % 4 \in {0, 1} THEN p ELSE p - 6

micron_low(p)   == IF p < 4 \/ p > 251 \/ p % 4 \in {0, 1} THEN p ELSE p - 6
micron_high(p)  == IF p \in {2, 3} \/ p > 247 \/ p % 4 \in {2, 3} THEN p ELSE p + 6

LowOf(v, p)  == CASE v = "MICRON" -> micron_low(p) [] v = "HYNIX" -> hynix_low(p)
                  [] v = "SANDISK" -> sandisk_low(p)
HighOf(v, p) == CASE v = "MICRON" -> micron_high(p) [] v = "HYNIX" -> hynix_high(p)
                  [] v = "SANDISK" -> sandisk_high(p)

BlockPages == 0 .. 255

-----------------------------------------------------------------------------
(* mtk_nand_select_chip.                                                   *)

ECC_PARITY_BIT == 14
OOB_AVAI_PER_SECTOR == 8

\* The spare bytes of a sector; how many of them are used; how many bits the
\* ECC engine is set up to correct.
Formats ==
  { <<{16}, 16, 4>>,     <<26 .. 28, 26, 10>>,  <<{32}, 32, 12>>,     <<{40}, 40, 18>>,
    <<{44}, 44, 20>>,    <<{48, 49}, 48, 22>>,  <<{50, 51}, 50, 24>>, <<{52, 54, 56}, 32, 24>>,
    <<{62, 63}, 62, 28>>, <<{64}, 64, 32>>,     <<{72}, 72, 36>>,     <<{80}, 80, 40>>,
    <<{88}, 88, 44>>,    <<{96, 98}, 96, 48>>,  <<{100, 102, 104}, 100, 52>>,
    <<{124, 126, 128}, 124, 60>> }

\* Faulty variant of EccBits: one step too many for 26 bytes.
EccBitsBold(f) == IF f[2] = 26 THEN 12 ELSE f[3]

EccBits(f) == f[3]

\* The strengths ECC_Config has a code for; for others it takes 4 bits.
EccCodes == {4, 8} \cup {2 * k : k \in 5 .. 12} \cup {4 * k : k \in 7 .. 15}

EccBytes(bits) == (bits * ECC_PARITY_BIT + 7) \div 8
-----------------------------------------------------------------------------
(* Where byte i of the spare area goes in the page: the free bytes of each *)
(* sector come first (mtk_nand_write_oob_hw, mtk_nand_read_oob_hw).        *)

FreePos(sps, i) == ((i \div OOB_AVAI_PER_SECTOR) * sps) + (i % OOB_AVAI_PER_SECTOR)

\* Faulty variant of ParityPos: the parity of all sectors is in one piece.
ParityPosPacked(sps, i) == OOB_AVAI_PER_SECTOR + i

ParityPos(sps, i) ==
  LET n == sps - OOB_AVAI_PER_SECTOR
  IN ((i \div n) * sps) + OOB_AVAI_PER_SECTOR + (i % n)
-----------------------------------------------------------------------------
VARIABLE page_probe          \* the page, or the format and a spare byte, that is looked at

PagesInit ==
  page_probe \in [vendor : Vendors, n : BlockPages, format : {<<{16}, 16, 4>>}]
                \cup [vendor : {"MICRON"}, n : 0 .. 15, format : Formats]
PagesNext == UNCHANGED page_probe
PagesSpec == PagesInit /\ [][PagesNext]_page_probe

\* A low-page partition uses the pages of a block in rising order, each of
\* them the low page of its pair and none of them the partner of another:
\* the tables of LowPage and the tables of the pairs, which are written down
\* separately in mtk_nand.c, agree to the last page of the block.
LowPagesPair ==
  LET v == page_probe.vendor  n == page_probe.n  q == LowPage(v, n)
  IN n < 128 =>
       /\ q \in BlockPages /\ LowOf(v, q) = q
       /\ n < 127 => q < LowPage(v, n + 1)
       /\ HighOf(v, q) # q => LowOf(v, HighOf(v, q)) = q /\ HighOf(v, q) > q

\* And the pairing is the same from either side: a high page leads to its
\* low page and back.
PairsAgree ==
  LET v == page_probe.vendor  n == page_probe.n
  IN LowOf(v, n) # n => HighOf(v, LowOf(v, n)) = n

\* The ECC engine can be set up as strong as the format wants it, and the
\* parity of a sector fits behind its free bytes.  The formats of 52 to
\* 56 bytes are left out: line 4660 has them use 32, and 24 bits do not fit.
ParityFits ==
  LET f == page_probe.format
  IN f[2] # 32 \/ f[3] = 12 =>
       /\ EccBits(f) \in EccCodes
       /\ OOB_AVAI_PER_SECTOR + EccBytes(EccBits(f)) <= f[2]

\* No parity byte is read from the place of a free byte, where the mark of a
\* bad block and the index of bmt.c are.
SpareBytesApart ==
  LET sps == page_probe.format[2]  i == page_probe.n % 16
  IN \A j \in 0 .. (2 * (sps - OOB_AVAI_PER_SECTOR)) - 1 : FreePos(sps, i) # ParityPos(sps, j)
=============================================================================
