# TLA+ models of meta-mediatek

meta-mediatek is a Yocto layer for boards with the MediaTek MT7623. Most of its
code is what it adds to U-Boot: drivers for NAND flash, SD/eMMC, SPI-NOR flash
and Ethernet, and board support. The rest builds images and updates a running
system. This directory holds formal models of that code, the TLC configurations
that check them on small instances, and proofs for TLAPS.

Paths below are relative to the repository; `uboot/` stands for
`recipes-bsp/u-boot/files/source/` and `nand/` for
`uboot/drivers/misc/mediatek/nand/mt7623/`.

## 1. The system

| Component | Source | State | Operations | What is hard |
|---|---|---|---|---|
| Bad-block manager (BMT) | `nand/bmt.c`, `bmt.h` | table of mappings in RAM and in one pool block; marks and spare areas in the flash; `pool_erased` | `init_bmt`, `update_bmt`, `get_mapping_block_index` | loss of power between any two flash commands, failing commands inside the handling of a failing command, a pool that runs dry |
| NAND page driver | `nand/mtk_nand.c`, `nand_device_list.h`, `0020-mtk-nand-support.patch` | controller registers, read voltages of the chip, chip select, ECC statistics | read, program, erase, is-bad, mark-bad, raw spare area, `board_nand_init` | calls the BMT on every failure; an unreadable page is reported as 0xFF; retries change settings of the chip; registers left by an access that gave up |
| Partition table (PMT) | `nand/partition_mt.c`, `cust_part.c` | main and mirror copy in two blocks behind the system area, the newest table | search, read, write with read-back | power loss between the erase of one copy and its rewrite; a copy that is bad but looks valid |
| MSDC host | `uboot/drivers/mmc/mediatek/msdc.c` ... | command and transfer state, sampling settings, clock | send command, transfer, tune, set clock | timeouts, retries with other settings, stop commands after an error |
| MMC core | `.../mmc_core.c`, `mtk_mmc.c` | card state and capabilities, EXT_CSD | identify, read, write, switch, set registers | retries of several levels, partial transfers, a card left in another state |
| Ethernet | `uboot/drivers/net/rt2880_eth.c`, `0010-mtk-eth-driver.patch` | two descriptor rings shared with a DMA engine, list of buffers, registers of power, PLL and switch, calibration of the lanes | set up, send, receive, halt | ownership of descriptors, full ring, order of register writes, accesses that are lost |
| PHY access | `uboot/drivers/net/mii_mgr.c` | the MDIO controller's access in progress | read and write of PHY and switch registers, `mdio.*` | an access that timed out is carried out later; a 32-bit register is two halves behind a page number |
| SPI-NOR | `uboot/drivers/flash/mtk_nor.c` | protection, write enable, buffer mode | identify, erase, read, write | busy polling that gives up, a chip that drops commands, a mode change that fails half-way |
| Board support | `uboot/board/mediatek/mt7623-evb/` | timer, watchdog, UART, pins | waits, clock, restart, console, pin attributes | wrap of the tick counter, endless loops that rely on the watchdog, what the preloader left |
| Boot commands | `uboot/board/mediatek/common/mtk_cmd.c` | the image in memory, environment variables | size and check of an image | sizes taken from the image |
| A/B update | `recipes-core/images/core-image-mtk-swu/`, `recipes-support/swupdate/` | contents of two root partitions, `boot_part` in the U-Boot environment | preinst, unpack, postinst, boot | power loss or a second update between two steps, ignored results |
| Image generation, kernel, distribution | `classes/`, `recipes-kernel/`, `conf/` | none at run time | - | - |

How they interact: file-system and U-Boot commands call the MTD layer
(`nand_erase_nand`, `nand_read`, as changed by patch 0020), which calls the page
driver; the page driver translates every block number with
`get_mapping_block_index` and calls `update_bmt` when a program or an erase fails
or a block is found bad. The BMT calls back into the raw, untranslated page
driver (`mtk_nand_exec_write_page`, `mtk_nand_erase_hw`, `mtk_nand_block_bad_hw`).
The PMT is a client of the page driver that uses blocks of its own; the boot
commands and the A/B update are clients of the MMC stack.
Everything in U-Boot runs in one thread without interrupts: the concurrency of
the NAND stack is that of the code with failing hardware and with loss of power.

The network stack (`NetLoop`, outside the repository but for patch 0010) calls
`rt2880_eth_init`, `_send`, `_recv` and `_halt`; `_recv` calls back into
`NetReceive`, which may call `_send` or `_halt`. The DMA engine of the Ethernet
controller runs beside all of this and shares the two rings.

### What makes the NAND stack correct

* A page that was acknowledged is read back unchanged until its block is erased
  or given up, whatever fails and whenever power goes (`StoreSpec`, with the two
  exceptions that section 2 names: they are faults of the code).
* An erase reaches no block that is marked bad (`ErasesNoBadBlock`: it does not
  hold).
* No pool block serves two purposes at once (`PoolDisjoint`), also in any table
  a later boot may find (`StoredTablesDisjoint`).
* The table stays in its array (`TableFits`).
* The table's block is not a bad one (`BmtBlockGood`), and pages are programmed
  once between erases (`ProgramsErasedPage`).
* Every call returns (`Returns`).

### What makes the Ethernet driver correct

* The CPU and the engine agree who owns each descriptor (`RxOwnership`,
  `TxOwnership`).
* What is accepted for sending goes out once and in order, what arrives is
  delivered once and in order (`FifoSpec`).
* `rt2880_eth_send` returns even if the engine has stopped (`SendReturns`), and
  no frame is left lying in the ring (`FramesAreRead`).

### What makes the other parts correct

* Page driver: a read returns what was programmed or the statistics tell of the
  failure, and read voltages and randomizer are back where they were (`PageSpec`,
  `StatisticsTellFailure`, `SettingsRestored`). Whatever an access that gave up
  has left in the controller, the next transfer finds the registers it needs
  (`SetUpForTransfer`). System blocks, pool and partition table do not overlap
  on any chip of the table (`PoolIsOwn`).
* Partition table: the newest stored table is used, a start of U-Boot that could
  read one writes nothing, and one that could not leaves the table in the flash,
  with no bad copy that passes for it (`TableIsNewest`, `CopiesSurvive`,
  `TableIsStored`).
* Card: success means that the card executed that command, and a count of blocks
  means data (`CommandTruth`, `CallsTellTruth`); host and card agree on width,
  block length and clock, also in a second initialisation (`InitAgrees`,
  `RestartRecovers`).
* SPI flash: a write or erase that reports success is in the cells, and no call
  touches bytes outside its range (`CallsAreDone`, `OthersStay`).
* Accesses to the switch, to registers of the card and to the console: what a
  caller is told is so (`AccessesTrue`).
* Set-up of the network: domains are powered before they are used, and accesses
  that are lost cost one PHY at most (`NetworkInv`); each lane of the TRGMII ends in
  the middle of its window (`Centred`).
* Timer, watchdog, console, pins, commands, update: waits are not too short
  (`WaitNotEarly`), the watchdog resets only who asks (`NoStrayReset`), text
  goes out whole (`NothingLost`), a pin call changes one attribute
  (`OnlyWhatIsSet`), a script copies all of an image (`BlocksHoldImage`), and
  after every update, cut off or not, the named system boots, but for a power loss
  while the environment is written (`BootsUnlessTorn`).
* Everything that is begun ends (`ReadReturns`, `StorageReturns`, `BoardReturns`).

## 2. Modules

| Module | Models | Notes |
|---|---|---|
| `NandFlash` | the medium: pages, bad marks, the geometry `init_bmt` computes, the outcome of a command | no variables: operators on an array of pages |
| `Bmt` | all of `bmt.c` that is compiled for U-Boot and the entry points of `mtk_nand.c` that call it | one action is one flash command with the code up to the next one |
| `BlockStore` | abstract specification: an array of blocks that never go bad | `Store == INSTANCE BlockStore WITH content <- Content, ...` in `BmtProperties` |
| `BmtProperties` | type invariant, invariants, action properties, liveness, refinement mapping, the inductive invariants `IInv`, `SteadyInv` and `PowerInv` | |
| `MCBmt` | values and symmetry for TLC | |
| `BmtProofs` | theorems about `Bmt` and their proofs | |
| `EthRings` | the descriptor rings of `rt2880_eth.c` and the DMA engine | one action is the code between two accesses to a descriptor or an index register |
| `EthFifo` | abstract specification: two bounded queues | `Fifo == INSTANCE EthFifo` in `EthProperties`, with the queues read off the rings |
| `EthProperties` | type invariant, ownership, refinement mapping, liveness | |
| `MCEth` | instances for TLC | |
| `EthProofs` | theorems about `EthRings` and their proofs | |
| `EthSetup` | the first call of `rt2880_eth_init` with `setup_internal_gsw`, as a list of register accesses | one action is one access |
| `TrgmiiCal` | both calibrations of the TRGMII lanes | |
| `MiiMgr` | MDIO accesses and the commands `mdio.r`, `.w`, `.wb` | |
| `NandDriver` | the page operations of `mtk_nand.c` with retries, read voltages, chip selects | implements `PageDevice` (`PD == INSTANCE PageDevice`) |
| `PageDevice` | abstract specification: a device of pages that reads what was programmed or says it cannot | |
| `NandController` | the controller's registers from one transfer of data to the next | the functions are operators on a record of registers |
| `NandPages` | arithmetic: paired pages, ECC strength, layout of the spare area | an initial state per vendor, page and format |
| `NandInit` | `board_nand_init`: chip table, layout, pool, `nand_scan`, `init_bmt` | |
| `Pmt` | `part_init_pmt` and all it calls | |
| `MsdcCommand` | one command with retries, CMD55 and the search for sampling settings | |
| `MmcBlock` | block reads and writes, transfers, STOP and abort, retries | |
| `MmcInit` | the initialisation of a card | |
| `MmcRegisters` | registers of several bytes in EXT_CSD | |
| `MmcArith` | clock divider, timeout, CSD fields, block counts, delays | an initial state per case |
| `NorFlash` | `mtk_nor.c` and the chip behind it | |
| `Gpt`, `Wdt`, `Uart`, `Gpio` | timer, watchdog, console, pins | |
| `BootCmds`, `AbUpdate` | boot menu commands; the update of the system | |
| `MCStorage`, `MCBoard` | the parts that have nothing to do with each other, side by side in one run | |
| `NandDriverProofs`, `NorProofs` | theorems about `NandDriver` and `NorFlash` | |
| `CardProofs` | theorems about `MsdcCommand`, `MmcInit`, `MmcBlock` | |
| `StorageProofs` | theorems about `Pmt` and about `MCStorage` as a whole | uses `CardProofs` and `NorProofs` |
| `BoardProofs` | theorems about `MCBoard`: `AbUpdate`, `BootCmds`, `Wdt`, `Uart`, `Gpt`, `Gpio`, `TrgmiiCal`, `MmcRegisters`, `MiiMgr`, `NandController` | |
| `DivisionLemmas` | division and remainder by a constant | used by all but `BmtProofs` |

`MCStorage` and `MCBoard` put several components into one specification with a
variable `part` that never changes: a behaviour is about one part, and the
others stay in one initial state. So the state spaces add up and do not
multiply, and one run answers the same kind of question for all of them. The
properties of a kind are one conjunction; the conjuncts have names and comments
in the modules of the parts, and each was tried against a faulty variant of its
own (the definitions with the comment "Faulty variant").


### From the code to `NandFlash` and `Bmt`

A page is blank, unreadable (`"junk"`), host data or a table. Of the spare area
only the two bytes that hold the logical block are kept (`idx`: `0xAAAA` from
`FAKE_INDEX`, `0xFFFF` if nobody wrote them). A mark is kept per block (`bad`)
and goes away when the block is erased. Programming a page that is not blank
leaves it unreadable. An unreadable page reads as 0xFF, as
`mtk_nand_exec_read_page` fills the buffer when ECC gives up
(`mtk_nand.c:4037`). `is_page_used` looks only at the two index bytes in this build.

`table`, `mapped_count`, `bmt_block_index` and `pool_erased` are the statics of
`bmt.c`. `pc` says where the code is, `cur` is the index of the running loop,
`reason`/`error_block` are the arguments of `update_bmt`, `map_index` is the
replacement found and `left` the pages still to be migrated.

| Code | Actions |
|---|---|
| `init_bmt`, `load_bmt_data` | `LoadBmt`, `ReMark` (one entry per step), `LoadDone` |
| `reconstruct_bmt` | `StartReconstruct`, `Reconstruct` (one pool block per step), `ReconstructDone` |
| `find_available_block` | `ErasePool` (one pool block per step), `PoolErased`, `FindBlock`/`NoBlock` from the start, `FindBmtBlock`/`NoBmtBlock` from the end |
| `migrate_from_bad` | `Migrate` (one page per step, the page that failed first), `MigrateFails`, `MigrateDone` |
| `update_bmt` | `UpdateTable`, `MarkOld` |
| `write_bmt_to_flash` | `EraseBmt`, `EraseBmtFails`, `ProgramBmt`, `ProgramBmtFails` |
| `mtk_nand_write_page` | `HostWrite`, `WritePage`, `WritePageFails` |
| `nand_erase_nand` | `HostErase` (with the bad-block query), `EraseBlock`, `EraseBlockFails` |
| `mtk_nand_block_bad` | `HostIsBad` |
| `mtk_nand_block_markbad` | `HostMarkBad` |
| `mtk_nand_read_page` | `Content` in `BmtProperties`: it changes nothing |

A query whether a good block is bad changes nothing and is left out. A failing
command leaves its target as it was, or unreadable, or finished. A mark
(`mark_block_bad_bmt`) has no result in the code: where `FaultKinds` contains
`"mark"` it may silently do nothing.

`PowerCut` may come at any value of `pc` in `CutAt`. RAM is lost; the command
under way leaves its target untouched, unreadable or, since the next state has
its own `PowerCut`, finished.

### The host

One request at a time; the pages of a block in ascending order, none twice
between two erases, and no block is used before it has been erased: the rule of
NAND, which UBI-like file systems and the U-Boot commands follow. After an
unclean shutdown the host erases the block it was working on before it writes to
it again, and also the blocks that hold no page yet: without that a block whose
erase was cut would look erased. `void` is the set of blocks the host expects
nothing from; `worn` is set when a request has been refused for want of pool
blocks. After that `BlockStore` promises nothing.

### What an erase does to a block that was moved

`nand_erase_nand` (patch 0020, 259-274) asks whether the block the table maps to is
bad, and then sends the erase command to the block it was given, without
translation: `mtk_nand_erase`, which translates, is called only when `MLC_DEVICE` is
true, and no row of `gen_FlashTable` makes it so (`mtk_nand.c:6728-6731`).
`EraseTarget` models that, for every run and every theorem. Three things follow:

* The erase hits the block marked bad and takes its mark away
  (`bmt_erase_target` finds this: `ErasesNoBadBlock`).
* The block in the pool keeps its pages, although the host is told that it is erased.
  What the host writes there next is programmed over them and unreadable. `BlockStore`
  calls such a block `stuck` and gives it up when it is erased; `HostPageErased`
  excepts it. Only a write to a block makes it stuck (`Keeps`).
* Without its mark the block looks good to a boot that finds no table: the
  reconstruction takes the entry for invalid (`bmt.c:582`) and the host is back
  at the old place. `BlockStore` calls a block of which this can be said `loose`
  and lets a loss of power lose it (`Forgotten`). Only a request for a block makes it
  loose.

All other blocks keep what they hold, and that is what `StoreSpec` says: both
exceptions are sets of blocks that the abstract specification has as variables, so
a page of any other block that changes is a violation.

### Why `StoreSpec` says something

`Content` reads through the table when the code is up, and through the table
the *next boot would build* while it boots. `BlockStore` allows only the
addressed page to change while a request runs, and on success demands the whole
new content. A migration that loses a page, a table written too early, a block
given away twice or a reconstruction that chooses the wrong copy all show up as
a step that is none of `BlockStore`'s.

### From the code to `EthRings`

`rx_ring` and `tx_ring0` keep of a descriptor the `DDONE_bit` and what the
properties are about: the frame received, or the packet to send (`SDP0`). The
index registers have their names; `dma_en` stands for both enable bits of
`PDMA_GLO_CFG`. `pc` and `send_pc` say where `rt2880_eth_recv` and
`rt2880_eth_send` are; a send may run inside a receive.

| Code | Actions |
|---|---|
| `rt2880_eth_init`, `rt2880_eth_setup` | `Setup` (first call), `Restart` (later calls) |
| `rt2880_eth_halt` | `Halt` |
| `rt2880_eth_send` | `Send`, `Wait` (poll of `DDONE_bit`, also when it times out), `Check` (full ring), `Fill`, `Kick`, `GiveUp` |
| `rt2880_eth_recv` | `Recv`, `Poll` (with the call of `NetReceive`), `NoReply`, `Clear`, `Give` |
| the DMA engine | `Arrive`, `Transmit`, `WriteBack` |

`Setup` is one step since the engine is off until its last line, `START_ETH`.
The engine, which is hardware, is modelled from how the driver uses it: it
receives until `RX_DRX_IDX0` meets `RX_CALC_IDX0`, sends until `TX_DTX_IDX0`
meets `TX_CTX_IDX0`, and sets `DDONE_bit` some time after it has sent, in any
order, or never. It need not do anything at all. `Clear` is one write in the
descriptor word that holds `DDONE_bit`. The return values of the calls, the
length of a packet to send (always positive) and the lengths of received frames
are not kept apart; `cpu_port` is the test `SP == 6`.

The boards use 24 descriptors each way, the same number of receive buffers
(`CONFIG_SYS_RX_ETH_BUFFER`), so the list of free buffers hands out buffer `i`
to descriptor `i` once and for all.

### From the code to `NandDriver`, `NandController`, `NandInit`

`cell` holds the contents of each page of each die; `voltage` the read voltages
of each die, 0 being those the pages were programmed for; `csel` the die that is
selected; `asked`, `failed` and `call` the request in progress. The ECC may find
any page correctable, correctable only at another voltage, or neither; the
controller may fail to answer.

| Code | Actions |
|---|---|
| `mtk_nand_exec_read_page`, `_exec_read_sector` | `Read`, `Arm`, `Check`, `Again`, `Settle`, `Finish` |
| `mtk_nand_rrtry_func` and the functions of `rtyFuncArray` | `SetVoltages`, `Feature`, `Voltages`, in `Again` and `Settle` |
| `mtk_nand_exec_write_page` | `Write` |
| `mtk_nand_erase_hw` | `Erase` |
| `mtk_nand_block_markbad_hw`, `mtk_nand_write_oob_raw` | `MarkBad` |
| `mtk_nand_cs_check`, `mtk_nand_cs_on` | `Init`, `Select` |

What the build does and a reader of the source might not expect: `MLC_DEVICE`
is `FALSE` for every chip of the table and their retry type is `RTYPE_MICRON`;
`bBCHRetry` is never set again after a failed retry; the attempt to put a page
together from sectors (3944-3969) has no effect, since the bit map it goes by has only
the bit of the last sector (1809), and is not modelled; the breaks of lines 3916 and
4126 leave the ECC decoder and the randomizer on, which `NandController`'s
properties name as their exception (`given_up`). `SEQIN`/`PAGEPROG`,
`mtk_nand_read_buf`, `_write_buf` and `mtk_nand_read_status` are not reached. The
decoder may time out (1777), which fails the page without counting it.
`chip.mlc` is a constant of `NandDriver` that is false for all chips of the table: with
it false there are no retries at other voltages, and the run has both values, since
the retries are there for chips still to be added.

`NandInit` goes from `get_device_info` to the place of the partition table:
`get_device_info`, `cs_check`, `Layout`, `Sizes`, `Scan`, `init_bmt`. A chip that is not in
the table leaves a page size of 0, and the division by it does not return. Two
dies of 1 GiB give a pool of 978 blocks, more than `init_bmt` accepts: the board
goes on without a mapping. `nand_scan` sets the size back to one die, so the
second is never addressed. `nand_oob_64` declares bytes free that hold ECC
parity. A record of the table is 2068 bytes, of which a page of 2048 stores room
for 486 entries; the pools of the chips fit (`TableFitsPage`).

### From the code to `Pmt`

`pm_flash` is the two blocks as they are reached through the BMT; a page is
empty, holds a table with the signature `PT` or `MPT`, or is junk. A signature is in the
data and in the spare bytes of a page; the ECC covers both
(`mtk_nand_configure_fdm`), so they are one field, although the comparison after a write
(`partition_mt.c:899`, 1011) is of the data only. The local
variables have a prefix, `lastest_part` has its name.

| Code | Actions |
|---|---|
| `load_pt_from_flash`, `find_mirror_pt_from_bottom`, `find_empty_page_from_top` | the steps `"main"` to `"pair"` |
| `new_part_tab`, `update_part_tab` | the steps `"erase"` to `"mark"` with their two nested retries |
| loss of power | `PowerCut` |

The buffer of 0xFF that is compared with the table makes `mirror_pt_dl` non-zero
(`NO_SPACE` is never returned). The search for an empty page ends at 0x40 for
blocks of 64 pages and of 128 (`pm_full`), and the pair of pages after an
interrupted pair can reach into the mirror's block (`PairAt`). The branch for a
table a tool has left in RAM has no caller; `part_init_pmt` is called by patch 0020.

### From the code to the modules of the card

`MsdcCommand`: `Call`, `Send`, the tuning steps and their ends; `tune` holds the
loop variables of `msdc_tune_cmdrsp`, `tried` what this search has tried,
`executed` what the card took the command for. `app_cmd` is cleared before the
search looks at it. `MmcBlock`: `Begin`, one step per transfer, STOP, abort and
attempt; `at`, `left`, `moved` are what the request has come to. `MmcInit`: one
step per command of `mmc_init_card`, each of which the card may follow, refuse
or follow without an answer. `MmcRegisters`: `SwitchByte`, `ReadBack`.

Because `card->csd.cmdclass` is never decoded, erase, write protection and the
high speed of SD cards are not reached. `msdc_tune_bwrite` is not compiled. Two
loops need not end: a write that met a CRC error (`mmc_core.c:3416`) and a read
without an answer that searches for a delay (`mmc_core.c:3388`); `CallEnds` names
them. A STOP that fails after good data leaves the card in the transfer; counts of
up to 11 blocks look like error codes (`mmc_first_read` shows the one that
matters).

### From the code to `NorFlash`

`cells` keeps of a byte whether it is erased, what belongs there or something
else. `chip_op` is what the chip works on: it takes effect before `ChipDone`, and
commands sent meanwhile are dropped. `BoardReset` is a reset in the middle, after which
the driver may not find the chip. `doubt` marks a buffer mode that is not what
the driver believes, after `SFLASH_CFG2_REG` could not be changed: the driver is
wrong there (`mtk_nor.c:2222`) and the properties exclude it.

### From the code to `EthSetup`, `TrgmiiCal`, `MiiMgr`

`EthSetup` is a sequence of operations, taken one by one: registers of the chip
take each write, accesses over MDIO may be lost since no caller looks at their
result, and a lost read leaves the old value in the variable; of the crystal that is any
of the three. The set-up is that
of the board's configuration: `CONFIG_USE_GE1`, TRGMII at 2600 Mbit/s,
`MT7623_ASIC_BOARD`, for either chip of the family (the 7623N has another reset).
Line 3606 keeps the lower half of the DMA's register, and so the enable bits if the
preloader left them set (`"dma"` in `gsw_on`): the ring registers are then written
while the engine is enabled, and `RingsBeforeStart` names that state as its exception. `TrgmiiCal` runs the search of either side over windows of
errors of all the lanes; `Calibratable` names the windows with which it can succeed:
one that is too narrow, or that lies behind the last tap once the clock is delayed for
another lane, is one it does not find. `MiiMgr`'s controller carries an access out when it
wants, also after the driver has stopped waiting. `mdio.d` is not modelled; its
mask `page_no&0x7<<12` is always 0, so it always shows page 0.

### From the code to the parts of the board

`Gpt`: `udelay`, `gpt_busy_wait_ms` and `get_timer_masked`; a wait of the limit or more
waits for a count that is never reached (us) or far too short (ms). So does a wait just
below the limit of ms: `TIME_TO_TICK_MS` adds half a tick for each ms, so from 330369
to 330381 ms the number of ticks wraps (`mt_gpt.c:29`); `Waitable` leaves these out.
`get_timer_masked` loses one ms at each wrap of the counter and none else. `Wdt`: the mode
bits with the key that must be written with them; `mtk_wdt_init` has no caller
in U-Boot, but it may have been called before. `Uart`: `g_brg` is
`CONFIG_BAUDRATE` for ever, the branch for high speed is taken only above it. The rates
`uart_setbrg` comes within 2 % of are 25 to 65000 and 115200 to 1040000 (`InReach`).
`Gpio`: `mt_gpio_self_test` restores the pull enable with the direction
(`mt_gpio.c:1132`) and stops at pin 33; setting the inversion is refused.
`BootCmds`: a block size of 0 leaves the variables as they were and reports success. The size of a
part of the preloader is that of whatever file was loaded last (`filesize`).
`AbUpdate`: preinst, unpack, postinst and the environment, with the results of
`mke2fs` and `umount` ignored; the boot commands fall back to nothing by
themselves. Updates begun in a system `boot_part` does not name (a second update
before the reboot, a system chosen by hand) format what would be booted next:
the variable `usual` tells, and `BootsUnlessTorn` holds as long as it is true. It
excepts one more state: `fw_env.config` names one copy of the environment, so power
lost while `fw_setenv` writes it (`update.sh:65`) leaves `boot_part = 0`, and U-Boot
falls back to an environment without any of the boot commands. The board then starts neither
system, although both are whole; the property says so.

## 3. Runs

Expected to pass:

| Run | Bounds | Question |
|---|---|---|
| `bmt_power` | 2 system/4 pool blocks of 2 pages; 2 failures, 1 cut | two logical blocks, a migration cut half-way, a cut anywhere else: stored tables, table's block, `ProgramsErasedPage`, `StoreSpec` |
| `bmt_marks` | 3/2, 1; 2, 1, 1 factory bad | silent mark failures, more bad blocks than pool: the inductive invariant and what follows from it |
| `bmt_returns` | 1/3, 1; unlimited, 1, 1 | types and `Returns`, with a medium that may fail for ever |
| `eth_rings` | 3/3 descriptors, 1 retry | types, `RxOwnership`, `TxOwnership`, `FifoSpec` |
| `eth_returns` | 3/2, 1 | `SendReturns`, `FramesAreRead` |
| `nand_driver` | 2 pages, 1 per block, 3 retries, 3 retry families, 1 or 2 dies | `PageSpec`, voltages and randomizer, statistics, `ReadReturns` |
| `storage` | see `storage.cfg` | card, SPI flash and partition table: reports are true, others stay, everything returns |
| `board` | see `board.cfg` | the fourteen small parts, in eight properties |

Expected to be violated, each by what the code does against what it says:

| Run | Statement of the code | What TLC shows |
|---|---|---|
| `bmt_pool_erase` | `bmt.c:335` "Skip bmt block" | the first search after a boot erases the live table: `block` is compared where `block + i` is meant |
| `bmt_erase_target` | "we do not erase bad blocks!" (patch 0020, line 259) | the check is of the mapped block, the erase command goes to the unmapped one |
| `eth_tx_buffer` | `rt2880_eth.c:517` "THE transmit packet", laid out by patch 0010 before the receive buffers | receive descriptor 0 has the same buffer: a frame replaces a packet that is queued |
| `mmc_first_read` | `mtk_mmc.c:90-96` takes 1 for one block read | `MMC_ERR_TIMEOUT` is 1: the buffer was never filled |

Three configurations are run by hand before a change to the proofs or to `Bmt` (`tlc -config
bmt_steady.cfg MCBmt`), and TLC finds them true. `bmt_steady.cfg` and
`bmt_dependable.cfg` have 2 system blocks, 3 pool blocks and a factory-bad block: the
first 3 failures and no loss of power (`SteadyInv`, `StoreSpec`), the second 3 losses of
power anywhere, 2 blocks the host marks, marks that may be lost and no other failure
(`PowerInv`, `StoreSpec`). `bmt_two_cuts.cfg` has 2 system blocks and 4 pool blocks of one
page, 2 failures and 2 losses of power (`StoredTablesDisjoint`, `BmtBlockGood`,
`StoreSpec`): a cut in the recovery from a cut.

Two more are kept to be run in the same way. Each ends in a counterexample; the theorems
`EntriesAreUnique` and `CountOnlyGrows` say under which conditions the same statements hold:

| File | Statement of the code | What TLC shows |
|---|---|---|
| `bmt_one_entry.cfg` | `bmt.c:591` "replace with one" | two entries for one bad block: `is_block_mapped` is asked for a system block |
| `bmt_count_wraps.cfg` | `bmt.h:31` "mapped block count in pool" | the count wraps to 0; the run uses modulus 2 in place of 256, the code's `u8` against a pool of up to 511 |

### The bounds, and what lies beyond them

Failures are counted by `MaxFaults` (a block marked bad by the host counts as
one), cuts by `MaxCuts`. The number of pool blocks is chosen so that it covers
the failures plus one for the table wherever `BmtBlockGood`,
`ProgramsErasedPage` or `StoreSpec` with cuts is checked; `bmt_marks` lets the
pool run dry. Two pages are enough for "the page that failed
goes first, the others follow", two failures for a write and its migration target or the
table's block. Data values are symmetric.

Outside these bounds the code does *not* keep every promise:

* One system block, four pool blocks, three pages, three failures, two cuts: a
  cut between the table write and the mark (`bmt.c:746`/`749`) leaves a failed
  pool block unmarked. After the reboot a write fails; the pool erase wipes that
  block and, because of `bmt.c:333`, the live table. The migration chooses the
  wiped block, which has a lower number than the block in use, and power goes
  while it is half copied. The reconstruction enters both (`bmt.c:589`),
  `get_mapping_block_index` takes the first, and an acknowledged page is gone.
  It takes three failures, so `StoreSpec` holds in the runs.
* If marks fail silently, a failed block can be chosen again: `StoreSpec` and
  `Returns` do not hold; the structural invariants do (`bmt_marks`).
* When the pool is exhausted `ProgramsErasedPage` and `BmtBlockGood` fail.
  `bmt.c:497` says that a block found for the table "has been erased in
  find_available_block()", but the pool is erased once per boot and `update_bmt`
  unmaps a failed block before it marks it bad: with three pool blocks and three
  failures the table is programmed into the failed block, which is then marked
  bad (`TableBlockErased`).

For the rings, three descriptors are the least for which "one short of full",
"full" and "empty" differ and two packets can be queued behind each other; both
rings wrap many times in every run. Two packets and two frames are enough to
see an exchange of neighbours. More retries than one only repeat `Wait` and
`Check`.
The proofs hold for rings of any size.

`nand_driver`: with two pages, each a block of its own, page and block of a
request differ from another page and block; on a chip with two dies, one is on
each. Three retries in place of 16 are the first, one in the middle and the last.

`storage`: two delays and both edges give each loop of `msdc_tune_cmdrsp` a
first and a last round; one retry at each of the two levels of `mmc_cmd` tells
"the last" from "not the last" in either; requests of 1 and 12 blocks at a limit
of 8 per transfer are one transfer and two, beginning in the card and at its end;
two faults are enough for a fault in the handling of a fault. Cards are SD
and MMC, old and new, of each speed and capacity, at both voltages of the
test. Three sectors of two bytes with a write buffer of two have calls that begin
with a byte before the buffer and end with one behind it, that reach the end and pass
it. Blocks of four pages for the partition table hold two pairs, as the search
goes by pairs; `RETRY_TIMES` is 2 in place of 5; two faults and two losses of power
interrupt the recovery from an interruption.

`board`: the counter of 32 ticks (2^32 in the code), with 2 of them in a us and 6 in a ms
(13 and 13000), wraps three times; two lanes of 16 taps with fifteen windows, before, at
and behind the first tap, in place of five lanes of 128; the rates are all those a
console may have; two places of the transmitter are full and not; one lost MDIO
access at any of the accesses of the set-up; pins of every register, at the ends
of registers and among those of the key pad; block sizes that divide a size and do not.

### Fairness

`FairSpec` adds `WF_vars(Work)`: the code, once called, runs. `Work` holds none
of the host's requests and no loss of power, so the host need not ask and power
need not fail. U-Boot has a single thread and flash commands are polled to
completion, which is all the condition asks for. `FaultCost = 0` in `bmt_returns`
makes failures free, so that the call must come to an end against a medium that
fails whenever it likes.

`EthRings!FairSpec` has weak fairness of the CPU's own steps (`Sending`,
`Receiving`) and strong fairness of `Recv`: `NetLoop` calls `eth_rx` in each of
its iterations, whatever its timeout handlers send between two of them. There is
no fairness of the engine, of the traffic or of the stack's requests.

`NandDriver!FairSpec`, `StorageSpec` and `BoardSpec` have weak fairness of the
steps of code that has been called, never of calls, faults or losses of power:
U-Boot is one thread, and every wait in these steps is a loop of polls with a
limit (the exceptions are named in the comment of `StorageReturns`). As only one
part moves in a behaviour, one condition on the steps of all parts is a
condition on those of that part. The SPI flash has one of its own (`ChipWork`):
it finishes what it has begun, which its data sheet promises. The watchdog counts
(`WdtWork`). The MDIO controller has none. Deadlock is not checked in `nand_driver`, `storage` and `board`: a device whose
controller no longer answers, a part that has made its calls and a U-Boot that is up may
stop.

## 4. Proofs

Every proof is by an inductive invariant: a conjunction of named parts, each with a
comment in the module that holds it, one lemma per action, and under it one step
per part that the action disturbs.
The assumptions are those on the constants (`ASSUME`, beside the constants) and,
where a theorem says so, a condition of its own.

### Bad-block manager (`BmtProofs`)

For every geometry, every set of failing commands, every number of failures,
cuts and factory-bad blocks, and for any width of `mapped_count`:

* `Inductive`: `Spec => []IInv`
* `TypeCorrect`: `Spec => []TypeOK`
* `PoolIsDisjoint`: `Spec => []PoolDisjoint`
* `StoredTablesAreDisjoint`: `Spec => []StoredTablesDisjoint`
* `TableAlwaysFits`: `Spec => []TableFits`

The assumptions are `Geometry` (`NandFlash`) and `Bounds` (`Bmt`): `init_bmt`
accepts pools of 1 to 511 blocks, block numbers fit below `FAKE_INDEX`.

`PoolDisjoint` alone is not inductive. `LoadBmt` takes a table out of the flash,
so all stored tables must be sound (`StoredTablesDisjoint`), and a migration
copies pages it believes to be host data, so a page with a table must look
unused (`TablesUnused`). `Reconstruct` maps the block it looks at, which is new
only because everything mapped so far lies below it (`ScanInv`). Requests must
be absent while the code boots and address the next page (`RequestInv`).
`IInv` is the conjunction. `TableFits` follows by the pigeonhole
principle: distinct entries in a pool of `BmtBlockCount` blocks, and in the
`"update"` state one pool block (`map_index`) not among them. When `mapped_count`
wraps to 0 the table forgets everything (`bmt_count_wraps.cfg`) but no invariant
above breaks.

One theorem needs a condition on the constants:

* `CountOnlyGrows`: `BmtBlockCount < CountModulus` implies `Spec => CountGrows`. This is
  255 pool blocks for the `u8` of `bmt.h:31`.

Three are about behaviours without loss of power. `Steady` names the
conditions: marks that reach the flash, a pool that `mapped_count` can count,
`CutAt = {}`. Programs and erases may fail as often as they like.

* `FailuresLoseNothing`: `Steady` implies `Spec => StoreSpec`, the refinement of
  `BlockStore`. No acknowledged page is lost, whatever fails, also while the
  failure of another command is dealt with, until a request is refused for want
  of a block (`worn`), but in a block that was written in the pool and then erased.
* `ProgramsHitErasedPages`: `worn`, or the pages of the host, but in such a block, and the
  copies of a migration are programmed into erased pages. These are two of the three parts of
  `ProgramsErasedPage`. The third (the table's block) fails when the pool is used
  up, see "The bounds".
* `EntriesAreUnique`: `worn`, or `OneEntryPerBadBlock`.

And four are about loss of power, at any point, any number of times, also while the
code recovers from one. `Dependable` names the conditions: a pool that `mapped_count` can
count, programs and erases that do not fail. Blocks may be bad
when the chip is new, the host may mark others, and any mark may be lost.

* `PowerLossLosesNothing`: `Dependable` implies `Spec => StoreSpec`. Wherever a call is
  cut, the next boot finds every block of the host again, but for a loose one when
  there is no table.
* `TableBlockStaysGood`: `worn`, or `BmtBlockGood`.
* `AllProgramsHitErasedPages`: `worn`, or the whole of `ProgramsErasedPage`, with the
  table's block.
* `ReconstructedEntriesAreUnique`: `worn`, or the code has no table, or
  `OneEntryPerBadBlock`, also after a reconstruction.

Each condition is needed: without it TLC has a counterexample (see "The
bounds" for cuts and lost marks, `bmt_count_wraps.cfg` for the pool). The invariant is `IInv` with `HostInv` (`BmtProperties`), which says
of each block what it is good for: what `find_available_block` accepts has been
erased (`FreeIsErased`); a block that holds something is mapped to a good one
(`MappedIsGood`); what has not been written yet is erased, but for the page
being written (`RestIsErased`), both for blocks that are not `void`; a migration has copied what it says it has, and
copies of blank pages are blank (`UpdatingInv`, `Copied`); after the
update of the table the failed block is mapped to no more, and the new one holds
the page that could not be written (`UpdatedInv`). `OneEntryPerBadBlock` is among
the parts since `get_mapping_block_index` takes the first entry it finds. For the
refinement each action is a step of `BlockStore` or a stutter: the page that changes
is the one the request is about, and that the others do not change is what `Copied`
gives at the moment the table changes (`UpdateTable`).

With power failing the invariant is `IInv` with `PowerInv`, which is about what the
*next boot* will find. `Home(b)` is where a block of the host lies: by the table in RAM
when the code is up, else by the one stored table, and without one by the names in the
spare areas. A home is a good block (`HomesAreGood`). A home in the pool bears the name of its block as soon as it holds a page
(`HomesAreNamed`) and no good block bears the name of a block it is not the home of, unless a boot without a
table has given that block back to its own place, whose mark an erase has taken away
(`NamesAreHomes`, `Astray`), so a reconstruction comes to the same homes as the table that was
lost. There is one stored table at most, in the block the code knows (`OneTable`); it
agrees with the table in RAM, but for the one block whose update is under way
(`StoredIsCurrent`), whose contents the host has given up (`UpdatesVoid`). A good block
without a name is left for the table unless the whole pool is bad (`TableHasBlock`), and
the block the table is programmed into has been erased (`TableGoesToErased`). During a scan the
entries are those of the named blocks passed so far (`ScanKnown`). The two
hard steps are the cut itself (`CutHomes`: the table is still there, or the cut
destroyed it, or there was none) and the end of a scan (`ScanComplete`: every named block has its
entry). What keeps this from being true when commands fail as well is a migration that
is cut: it leaves two good blocks of one name (see "The bounds").

### Ethernet rings (`EthProofs`)

For rings of any size from two descriptors up and any number of retries
(assumption `Rings` of `EthRings`):

* `TypeCorrect`: `Spec => []TypeOK`
* `RxOwnershipHolds`: `Spec => []RxOwnership`
* `TxOwnershipHolds`: `Spec => []TxOwnership`
* `RingsAreQueues`: `Spec => FifoSpec`, the refinement of `EthFifo`

The argument is about `Between(a, i, b)`, whether `i` lies in the part of a ring
from `a` to `b`: `EndMoves` and `BeginningMoves` say what a step of either index
does to that part, and the rest is a case for each action. Three things must be
added to make the invariants inductive: before the set-up the engine owns
nothing (`OffInv`); the code reaches the test of the full ring with a retry left
(`TypeInv`); and the descriptor found free there stays free (`TxInv`), which is
what makes it safe to fill it after the register has been read. For the
refinement the queue between two indices is written as a function of the
distance between them, so that a step of either index is `Append` or `Tail`
(`QueueInv` adds to the above that nothing is queued before the set-up).

### Page driver (`NandDriverProofs`)

For chips of any number of pages in one or two dies (`ChipGeometry`), any number
of retries, any family and any verdicts of the ECC:

* `TypeCorrect`: `Spec => []TypeOK`
* `ReadsRestoreSettings`: `Spec => []SettingsRestored`
* `StatisticsAreRight`: `Spec => []StatisticsTellFailure`
* `DriverIsPageDevice`: `Spec => PageSpec`, the refinement of `PageDevice`

`DriverInv` says where a read in progress is (`AtPage`: the die selected and the
row are those of the page asked for), that only the die being read has other
voltages and the read knows it (`VoltageKnown`), that the randomizer is on only within an
attempt, or after the one that was given up (`RandomizerKnown`), and what result and
statistics are at each point (`FailureKnown`, `BufferKnown`). Dividing a page
number into die and row needs `DivisionLemmas`. The attempt showed that the
type of `voltage` had been written with the number of retries of one run; it is
`0 .. RetryCnt`.

### Card, SPI flash, partition table (`CardProofs`, `NorProofs`, `StorageProofs`)

* `CommandsTellTruth`, `SearchKeepsWhatWorks`: `CommandSpec` implies `[]CommandTruth`
  and `KeepsWhatWorks`, for any number of delays, retries and faults
  (`CommandBounds`). The invariant says which settings the search has been through
  when its loop variables are where they are (`SearchedSoFar`).
* `InitialisationAgrees`: `InitSpec => []InitAgrees`, for any set of cards
  whose rate is not above that of high speed, if they have it (`CardsKnown`). Inductive with the
  state of the card at each command (`CardInStep`), what is believed of it
  (`BeliefsRight`) and what the host has set (`HostInStep`).
* `BlockCallsTellTruth`: `BlockSpec => []CallsTellTruth`, for requests, cards and
  limits of any size (`BlockBounds`). Inductive with what earlier rounds have moved
  (`RoundsMoved`), and with error codes and errors agreeing (`ErrorsAgree`) in spite
  of `MMC_ERR_TIMEOUT = 1`.
* `FlashDoesAsTold`, `RegionsRespected`: `NorSpec` implies `[]CallsAreDone` and
  `OthersStay`, for flashes of any size with sectors a multiple of the buffer
  (`NorSizes`). `NorInv` relates the place in the code to what the chip is still
  doing (`ChipKnown`) and the bytes done to the cells (`CellsKnown`).
* `NewestTableIsUsed`, `NewTableIsStored`, `StoredCopiesSurvive`: `PmtSpec` implies
  `[]TableIsNewest`, `[]TableIsStored` and `CopiesSurvive`, for blocks of any even
  number of pages in which the retries fit (`PmtSizes`), any contents and any
  number of failures and losses of power. `StoreKnown` counts the failures spent
  against the tries made.
* `StorageTypesCorrect`: `StorageSpec => []StorageTypeOK`, from the invariants above,
  each of which `MCStorage` keeps since its parts move one at a time.

### Board (`BoardProofs`)

All are theorems about `BoardSpec`, by lemmas that its steps are steps of a part:

* `BoardBoots`: `[]BootInv`. The named system boots after any update, cut off or not, but for
  a cut in `fw_setenv`, which leaves both systems whole and starts neither, as long
  as the updates began in the system `boot_part` names; a boot script writes the
  whole image for all sizes below the modulus (`ModulusAssumption`).
* `AccessesTellTruth`: `[]AccessesTrue`. MDIO accesses to any number of registers of
  any width, whose controller may carry an access out after the driver has given
  up (`MiiAssumption`); EXT_CSD registers; the console (`RoomAssumption`); the
  reason of a reset. The hardest part is `MiiInv`: an access of a call that has
  failed may still take place during the next one, so each register holds one of the
  values some call meant it to have (`NothingElse`).
* `ControllerFitsTransfer`: `[]NandInv`. Inductive with the randomizer and the engines
  of the ECC at rest between two pages (`RandomizerRests`, `EnginesRest`).
* `PartsDoTheirWork`: `[]BoardPartsInv`, from four invariants:
  - `GptInv`, for counters, ticks and pauses of any size that fit each other (`GptSizes`,
    which 2^32, 13 and 13000 do). The median of three readings is within a tick of the
    counter whichever of them is wrong. The milliseconds of a reading wrap some ticks
    before the counter does, as `gpt4_tick2time_ms` rounds up in a word; `ClockAt`
    therefore counts two kinds of wrap and says what the clock shows, times the length
    of a ms: the ticks since the reset, less what each wrap takes and what has been
    rounded.
  - `CalInv`, for any number of lanes and taps, any steps of the clock and any windows
    (`CalSizes`). The clock is delayed no more than some lane needs (`DelayNeeded`), a
    lane whose start is searched has seen errors only (`Approaching`) and one that has
    it is `Skip` inside its window (`StartKnown`); at the end (`Leaving`) the last
    answer is an error only at the end of the window, or at the last tap.
  - `RateInv`: with the divisors of `uart_setbrg` a bit is within 2 % of its length, at each
    rate in reach, by rounding errors of the two divisions.
  - `GpioInv`: during a self test all registers but those of the pull enable are as they were
    (`TestHarmless`).
* Of the seven parts of `StepsAllowed` five: `UpdateSparesRunning` (`RunningSpared`),
  `WatchdogIsQuiet` (`NoStrayReset`), `ClockNeverGoesBack` (`ClockForward`),
  `PinsAreSetAlone` (`OnlyWhatIsSet`; fields of one to five pins in a register, with the
  register as a number in base 8) and `AttributesAreKept` (`AttributesStay`).

Two of the models had to be put right for this. The windows of `Calibratable` were
those of one instance, in which no lane opens behind the last tap; the proof asks
for it. And the ticks of a wait of ms were not reduced to a word, which in the
instance made no difference.

### What is only model-checked, and why

* Liveness and `ENABLED` are out of the prover's reach: `Returns`, `SendReturns`,
  `FramesAreRead`, `ReadReturns`, `StorageReturns`, `BoardReturns`,
  `RestartRecovers`.
* `StoreSpec`, `BmtBlockGood` and the whole of `ProgramsErasedPage` with power cuts
  *and* failing commands: they hold within bounds only (see "The bounds"), so there is
  no theorem for every value of the constants.
* `NetworkInv` is about one fixed list of some two hundred accesses, of which
  TLC takes every one; `CoreQuiet` and `RingsBeforeStart`, the other two parts of
  `StepsAllowed`, are about the same list.
* `FiguresRight` is about fixed tables of figures. TLC goes through all of them.

## 5. Not modelled

* `bmt.c`: the kernel branches (`CONFIG_NAND_BOOTLOADER` is set here), the encoding of
  the table (signature, version, checksum: a page either holds a valid table or does
  not), the search for the signature at several offsets of a page.
* `mtk_nand.c`: bit maps of correctable sectors, the retry tables of Hynix chips
  (`HYNIX_Set_RR_Para` and the like: no chip of the table has them), access timing,
  `/proc` and performance counters, the calculation of ECC codes. `NandPages`
  leaves out spare areas of 52 to 56 bytes, which do not fit (line 4660).
* `msdc.c`, `mmc_core.c`: pads and driving strengths (lists of register writes), DMA
  and boot mode (not compiled), erase, write protection and SD high speed (not reached),
  SDIO, dumps and the waits without a limit (`msdc.c:3637`).
* `mtk_nor.c`: the region of two chips, DMA and the page cache are not compiled or not
  reached; the wrap of `addr + len` (1160) and the second record of `flash_info` (474).
* `partition_mt.c`: tables of more than 25 entries; `part_get_startaddress`, with its
  `g_exist_Partition[-1]`, has no caller in this build.
* `rt2880_eth.c`: branches for other chips, the MAC address, register dumps.
  `mii_mgr.c`: `mdio.d`, `mdio.anoff`, `mdio.anon`.
* Board: `uart_getc`, `mt_gpio_dump`, the input of a pin, the list of pin modes set at
  start; `rgu_swsys_reset` (346-362), which has no caller. The preloader is external.
* Update: `swupdate` and `mke2fs` themselves; `fw_env.config` names a single copy of the
  environment, so a torn write is `boot_part = 0`.
* Image generation, kernel and distribution recipes: no state at run time.

## 6. Plan

1. `BmtBlockGood` and `TableBlockErased` under `Steady` and a pool larger than the
   number of failures.
2. `StoreSpec` with cuts and failures together where at most two commands fail in all
   (with three there is the counterexample above), with `PowerInv` as a start.
