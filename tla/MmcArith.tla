------------------------------ MODULE MmcArith ------------------------------
(***************************************************************************)
(* The arithmetic of the card driver: the divider of the clock, the limit  *)
(* of a data transfer in clocks, the fields of the registers of a card,    *)
(* the number of its blocks, and the delays of the data lines.             *)
(***************************************************************************)
EXTENDS Integers

FMin == 260000                      \* MSDC_MIN_SCLK

Sources == {26000000, 208000000, 200000000, 156000000}       \* hclks_msdc30

Clamp(hz, fmax) == IF hz >= fmax THEN fmax ELSE IF hz < FMin THEN FMin ELSE hz

\* Faulty variant of DivFor: rounded down.
DivDown(clk, hz) == clk \div (4 * hz)

DivFor(clk, hz) == (clk + 4 * hz - 1) \div (4 * hz)

\* msdc_config_clock: CKMOD and CKDIV.
Divider(clk, wanted, ddr) ==
  LET hz == Clamp(wanted, clk)
      low == [mode |-> 0, div |-> DivFor(clk, hz)]
  IN IF ddr THEN (IF hz >= clk \div 4 THEN [mode |-> 2, div |-> 0]
                  ELSE [mode |-> 2, div |-> DivFor(clk, hz) \div 2])
     ELSE IF hz >= clk THEN [mode |-> 1, div |-> 0]
     ELSE IF hz >= clk \div 2 THEN [mode |-> 0, div |-> 0] ELSE low

\* What the controller makes of them.
BusClock(clk, d) ==
  CASE d.mode = 1 -> clk
    [] d.mode = 0 -> IF d.div = 0 THEN clk \div 2 ELSE clk \div (4 * d.div)
    [] d.mode = 2 -> IF d.div = 0 THEN clk \div 4 ELSE clk \div (8 * d.div)

\* Faulty variant of Dtoc: what is subtracted for the hardware's "plus one" is not there.
DtocPlus(sclk, ns) == ((ns \div (1000000000 \div sclk)) \div 1048576) \div 4

\* msdc_set_timeout: SDC_CFG_DTOC, in units of 2^20 clocks, less one.
Dtoc(sclk, ns) ==
  LET t == (ns \div (1000000000 \div sclk)) \div 1048576
  IN IF t <= 1 THEN 0 ELSE IF t > 256 THEN 255 ELSE t - 1
-----------------------------------------------------------------------------
\* Registers of four words, the most significant first; words of W bits
\* stand for those of 32.  before is the word that happens to lie before them.
W == 4

\* Faulty variant of Crosses: the neighbouring word is missed.
CrossesLate(size, shft) == size + shft >= 2 * W

Crosses(size, shft) == size + shft >= W

unstuff_bits(resp, before, start, size) ==
  LET off  == 3 - start \div W
      shft == start % W
      word(i) == IF i < 0 THEN before ELSE resp[i]
      high == IF Crosses(size, shft) THEN (word(off - 1) * 2^(W - shft)) % 2^W ELSE 0
      low  == word(off) \div 2^shft
  IN (low + high) % 2^size

Number(resp) == resp[0] * 2^(3 * W) + resp[1] * 2^(2 * W) + resp[2] * 2^W + resp[3]
-----------------------------------------------------------------------------
\* mmc_decode_csd and mmc_init_mem_card: the blocks of 512 bytes of a card
\* of standard capacity.
Capacity(c_size, mult)     == (1 + c_size) * 2^(mult + 2)
Nblks(c_size, mult, blkbits) == Capacity(c_size, mult) * 2^(blkbits - 9)

\* Faulty variant of Lba: the bytes in a signed number.
LbaSigned(nblks) == nblks % 2^22

\* __mmc_init: bdev->lba, by way of the bytes, which have 32 bits.
Lba(nblks) == nblks % 2^23
-----------------------------------------------------------------------------
\* Faulty variant of NextDelay: every line moves.
NextDelayAll(bad, delay) == (delay + 1) % 32

NextDelay(bad, delay) == IF bad THEN (delay + 1) % 32 ELSE delay

\* msdc_tune_bread: the lines with a CRC error, of either edge with DDR, get
\* another delay; delays are kept in two registers of four bytes.
Bad(dcrc, ddr, line) == line \in dcrc.pos \/ (ddr /\ line \in dcrc.neg)

NextDelays(dcrc, ddr, delays) ==
  [l \in 0 .. 7 |-> NextDelay(Bad(dcrc, ddr, l), delays[l])]
-----------------------------------------------------------------------------
VARIABLE mmc_probe           \* the values that are looked at

Words == {0, 6, 15}

ArithInit ==
  mmc_probe \in
    [q : {"clock"}, clk : Sources, ddr : BOOLEAN,
     hz : {1000, 260000, 400000, 5000000, 12500000, 13000000, 20000000, 25000000, 26000000,
           50000000, 52000000, 100000000, 208000000}]
    \cup [q : {"bits"}, resp : [0 .. 3 -> Words], before : {0, 15},
          start : 0 .. 4 * W - 1, size : 1 .. W]
    \cup [q : {"size"}, c_size : {0, 1, 1023, 2047, 4095}, mult : 0 .. 7, blkbits : 9 .. 11]
    \cup [q : {"delay"}, pos : {{}, {0}, {3, 7}}, neg : {{}, {1, 3}}, ddr : BOOLEAN,
          from : {0, 17, 31}]

ArithNext == UNCHANGED mmc_probe
-----------------------------------------------------------------------------
\* The clock on the bus is never faster than the one asked for, except at the
\* lowest frequency, and the divider fits its eight bits.  With DDR only for
\* an even quotient: the last bit of an odd one is lost (msdc.c:3360-3362).
ClockNotAbove ==
  LET p == mmc_probe  d == Divider(p.clk, p.hz, p.ddr)
  IN p.q = "clock" /\ (p.ddr => DivFor(p.clk, Clamp(p.hz, p.clk)) % 2 = 0) =>
       d.div < 256 /\ (BusClock(p.clk, d) <= p.hz \/ p.hz < FMin)

\* A data transfer that is to be given 100 ms gets at least half of it before
\* the controller reports a timeout: the register counts in steps of 2^20
\* clocks and the fraction is dropped.
TimeoutAtLeastHalf ==
  LET sclk == BusClock(mmc_probe.clk, Divider(mmc_probe.clk, mmc_probe.hz, FALSE))
  IN mmc_probe.q = "clock" =>
       (Dtoc(sclk, 100000000) + 1) * 1048576 >= (sclk \div 10) \div 2

\* A field of a register is read right wherever it lies, across words too, and
\* whatever lies before the register: for fields of the highest bits the word
\* before it is read, but does not count (mmc_core.c:92).
UnstuffAgrees ==
  LET p == mmc_probe
  IN p.q = "bits" /\ p.start + p.size <= 4 * W /\ (p.size = W => p.start % W # 0) =>
       unstuff_bits(p.resp, p.before, p.start, p.size)
         = (Number(p.resp) \div 2^p.start) % 2^p.size

\* The block device has all the blocks of a standard-capacity card but of one
\* of 4 GiB, which has none: the bytes do not fit 32 bits (mmc_core.c:4220).
BlocksExact ==
  LET p == mmc_probe  n == Nblks(p.c_size, p.mult, p.blkbits)
  IN p.q = "size" => Lba(n) = IF n = 2^23 THEN 0 ELSE n

\* Only lines with a CRC error move, and 32 steps bring a line back.
GoodLinesStay ==
  LET p == mmc_probe
      before == [l \in 0 .. 7 |-> (p.from + l) % 32]
      next == NextDelays([pos |-> p.pos, neg |-> p.neg], p.ddr, before)
  IN p.q = "delay" =>
       \A l \in 0 .. 7 : next[l] # before[l] <=> l \in p.pos \cup (IF p.ddr THEN p.neg ELSE {})
=============================================================================
