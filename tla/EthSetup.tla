------------------------------ MODULE EthSetup ------------------------------
(***************************************************************************)
(* rt2880_eth_init of rt2880_eth.c on its first call: power domains, pins, *)
(* frame engine and DMA, and the switch MT7530 (setup_internal_gsw).  The  *)
(* code is a long list of register accesses; here it is a sequence of      *)
(* operations.  Registers of the chip itself always take a write; accesses *)
(* over MDIO can be lost: nothing looks at the result, and a lost read     *)
(* leaves the last value in regValue.  The core registers of the switch    *)
(* are behind registers 13 (mode) and 14 (address or data) of PHY 0.       *)
(***************************************************************************)
EXTENDS Integers, SequencesExt

CONSTANT LostMdio        \* bound: how many accesses over MDIO are lost

Phys == 0 .. 1           \* 0 .. 4 in the code
Chip == 31               \* registers that are not those of a PHY
Resting == {"clk_dis", "iso", "pdn0", "pdn1", "pdn2", "pdn3"}

At(name) == <<Chip, name>>

Op(do, at, bits) == [do |-> do, at |-> at, bits |-> bits, mdio |-> FALSE]
Or(at, bits)     == Op("or", at, bits)
AndNot(at, bits) == Op("andnot", at, bits)
Put(at, bits)    == Op("put", at, bits)
Mdio(op)         == [op EXCEPT !.mdio = TRUE]
ForPhys(f(_))    == FlattenSeq([n \in 1 .. 2 |-> f(n - 1)])

\* Faulty variant of PowerOn: the reset is released before the memories are up.
PowerOnEarly(d) == <<Or(At(d), {"on"}), Or(At(d), {"on_s"}), AndNot(At(d), {"clk_dis"}),
                     AndNot(At(d), {"iso"}), Or(At(d), {"rst_b"}), AndNot(At(d), Resting)>>

PowerOn(d) == <<Or(At(d), {"on"}), Or(At(d), {"on_s"}), AndNot(At(d), {"clk_dis"}),
                AndNot(At(d), {"iso"})>>
  \o [i \in 1 .. 4 |-> AndNot(At(d), {<<"pdn0", "pdn1", "pdn2", "pdn3">>[i]})]
  \o <<Or(At(d), {"rst_b"})>>

\* mt7623_ethifsys_init; a domain whose memories are all up is left alone.
ethifsys_init(on) ==
  <<Or(At("pll"), {"pwr"}), AndNot(At("pll"), {"iso"}), Or(At("pll"), {"en"})>>
  \o (IF "eth" \in on THEN <<>> ELSE PowerOn("eth"))
  \o (IF "hif" \in on THEN <<>> ELSE PowerOn("hif"))
  \o <<AndNot(At("sysctl"), {"esw_rst"})>>

\* mt7623_pinmux_set: fields of three bits, each cleared and set to 1.
PinFields == <<"esw_rst", "txen", "txd3", "txd2", "txd1", "txd0", "txc", "rxc",
               "rxd0", "rxd1", "rxd2", "rxd3", "rxdv", "mdc", "mdio">>
pinmux_set == [i \in 1 .. Len(PinFields) |-> Or(At("pinmux"), {PinFields[i]})]

\* Faulty variant of eth_setup: the DMA is started before it knows the rings.
eth_setup_early ==
  <<Op("wait", At("glo"), {"busy"}), Or(At("glo"), {"en"}), Put(At("gdma"), {"mac", "cpu"}),
    Put(At("rx"), {"base"}), Put(At("tx"), {"base"}), Or(At("rx"), {"count", "idx"}), Or(At("tx"), {"count", "idx"})>>

\* Faulty variant of isDMABusy: the enable bits instead of the busy bits.
isDMAEnabled == Op("wait", At("glo"), {"en"})

isDMABusy == Op("wait", At("glo"), {"busy"})

\* rt2880_eth_setup; the rings themselves are in EthRings.  The mask of line
\* 3606 keeps the low half of the register, and in it the enable bits.
eth_setup ==
  <<isDMABusy, Put(At("gdma"), {"mac"}), Or(At("gdma"), {"cpu"}),
    AndNot(At("glo"), {"high"}), Put(At("rx"), {"base"}), Put(At("tx"), {"base"}),
    Or(At("rx"), {"count"}), Or(At("tx"), {"count"}),
    Or(At("tx"), {"idx"}), Or(At("rx"), {"idx"}), Or(At("glo"), {"en"})>>

\* Faulty variant of GswReset: the receiver of the TRGMII stays on.
GswResetOpen(on) ==
  <<Or(At("trgmii"), {"mode"}), Or(At("sysctl"), {"esw_rst"}), AndNot(At("sysctl"), {"esw_rst"})>>
  \o ForPhys(LAMBDA p : <<Mdio(Or(<<p, "0">>, {"down"}))>>)

\* The reset of the switch - on an MT7623N, which has it outside, by a pin
\* too - and its PHYs off.
GswReset(on) ==
  <<Or(At("trgmii"), {"mode"})>>
  \o (IF "7623n" \in on THEN <<AndNot(At("gpio"), {"rst"}), Or(At("gpio"), {"rst"})>> ELSE <<>>)
  \o <<Or(At("trgmii"), {"rxc_rst"}),
       Or(At("sysctl"), {"esw_rst"}), AndNot(At("sysctl"), {"esw_rst"})>>
  \o ForPhys(LAMBDA p : <<Mdio(Or(<<p, "0">>, {"down"}))>>)
  \o <<Mdio(Put(At("sw_rst"), {"1"})), Put(At("ge1"), {"force1000"}), Mdio(Put(At("p6"), {"force1000"})),
       Mdio(Op("read", At("p6"), {})), Put(At("ge2"), {"down"})>>

\* Bits of the trap register: p6 off, p5 off, p5 is a MAC, indirect access, changed.
GswTrap == <<Mdio(Op("trap", At("trap"), {"p5_off", "p5_mac", "change"}))>>

\* Which crystal it is, 25, 40 or 20 MHz: two bits of a register of the switch.
GswCrystal == <<Mdio(Op("crystal", At("strap"), {}))>>

\* Faulty variant of CorePut: the mode is not set back to the address.
CorePutData(p, addr, val) == <<Mdio(Put(<<p, "14">>, {addr})), Mdio(Put(<<p, "13">>, {"data"})),
                               Mdio(Put(<<p, "14">>, {val}))>>

CorePut(p, addr, val) ==
  <<Mdio(Put(<<p, "13">>, {"addr"})), Mdio(Put(<<p, "14">>, {addr})),
    Mdio(Put(<<p, "13">>, {"data"})), Mdio(Put(<<p, "14">>, {val}))>>

\* With a crystal of 40 MHz the PLL gets other values while the core clock is
\* off; "1" goes to 0x410 then, and without it to nowhere (line 3106).
Gsw40MHz(xtal) ==
  (IF xtal # 2 THEN <<>>
   ELSE CorePut(0, "410", "0") \o CorePut(0, "40d", "2020") \o CorePut(0, "40e", "119")
          \o CorePut(0, "40d", "2820") \o SubSeq(CorePut(0, "410", "1"), 1, 3))
  \o <<Mdio(Put(<<0, "14">>, {"1"}))>>

GswDriving ==
  <<Mdio(AndNot(At("align"), {"0"})), Mdio(Or(At("align"), {"1"})), Mdio(AndNot(At("trx"), {"train"})),
    Mdio(Put(At("drive"), {"88"})), Put(At("drive_7623"), {"88"})>>

\* The eleven stages of the TRGMII clock; with 20 MHz the first has no value.
TrgmiiClock(xtal) ==
  LET lock == IF xtal = 1 THEN "57" ELSE "87"
      rate == CASE xtal = 1 -> "1a00" [] xtal = 2 -> "1040" [] OTHER -> "none"
  IN (IF xtal = 3 THEN SubSeq(CorePut(0, "404", rate), 1, 3) ELSE CorePut(0, "404", rate))
     \o CorePut(0, "405", "0") \o CorePut(0, "409", lock) \o CorePut(0, "40a", lock)
     \o CorePut(0, "403", "1800") \o CorePut(0, "403", "1c00") \o CorePut(0, "401", "c020")
     \o CorePut(0, "406", "a030") \o CorePut(0, "406", "a038") \o CorePut(0, "410", "3")
     \o <<Mdio(AndNot(At("align"), {"1"})), Mdio(Or(At("align"), {"0"})), Mdio(AndNot(At("trx"), {"train"}))>>

\* Faulty variant of PhysOn: the last PHY is left out.
PhysOnFirst == <<AndNot(At("trgmii"), {"rxc_rst"}), Mdio(AndNot(<<0, "0">>, {"down"})), Mdio(Or(<<0, "0">>, {"an"}))>>

PhysOn ==
  <<AndNot(At("trgmii"), {"rxc_rst"})>>
  \o ForPhys(LAMBDA p : CorePut(p, "3c", "0"))
  \o ForPhys(LAMBDA p : CorePut(p, "27b", "1177"))
  \o ForPhys(LAMBDA p : <<Mdio(AndNot(<<p, "0">>, {"down"}))>>)
  \o ForPhys(LAMBDA p : <<Mdio(Or(<<p, "4">>, {"100"})), Mdio(Or(<<p, "9">>, {"1000"})),
                          Mdio(Or(<<p, "0">>, {"an"}))>>)
  \o <<Mdio(Or(At("intr"), {"on"}))>>

\* rt2880_eth_init; the calibration of TrgmiiCal comes last.
eth_init(xtal, on) ==
  ethifsys_init(on) \o pinmux_set \o eth_setup \o GswReset(on) \o GswTrap
  \o GswCrystal \o Gsw40MHz(xtal) \o GswDriving \o TrgmiiClock(xtal) \o PhysOn

\* What is found: domains that are on, the DMA left on, which of two chips.
EthOns  == {on \cup n : on \in {{}, {"hif"}, {"eth", "hif"}, {"eth", "hif", "dma"}},
                       n \in {{}, {"7623n"}}}
Listing == [x \in 1 .. 3, on \in EthOns |-> eth_init(x, on)]
-----------------------------------------------------------------------------
VARIABLES gsw_xtal, gsw_on,   \* the crystal, as far as it is known; what is found
          gsw_pc,             \* how many operations are done
          gsw,                \* the registers
          gsw_core,           \* the core registers of each PHY
          gsw_value,          \* regValue
          gsw_lost
gswVars == <<gsw_xtal, gsw_on, gsw_pc, gsw, gsw_core, gsw_value, gsw_lost>>

Now    == Listing[gsw_xtal, gsw_on][gsw_pc + 1]
SetUpEnd == gsw_pc = Len(Listing[gsw_xtal, gsw_on])

Result(op, old) ==
  CASE op.do = "or"     -> old \cup op.bits
    [] op.do = "andnot" -> old \ op.bits
    [] op.do = "put"    -> op.bits
    [] op.do = "trap"   -> (old \cup op.bits) \ {"p6_off", "direct_off"}
    [] op.do = "crystal" -> {}               \* regValue is no bit set any more
    [] op.do \in {"wait", "read"} -> old

\* A write to register 14 goes to the core registers when the mode is data.
Indirect(at) == at \in Phys \X {"14"} /\ gsw[<<at[1], "13">>] = {"data"}

WriteReg(op, val) ==
  IF Indirect(op.at)
  THEN /\ \E a \in gsw[op.at] : gsw_core' = [gsw_core EXCEPT ![op.at[1]] = (a :> val) @@ @]
       /\ UNCHANGED gsw
  ELSE gsw' = [gsw EXCEPT ![op.at] = val] /\ UNCHANGED gsw_core

\* The DMA that an earlier program left on comes to rest.
DmaIdle ==
  /\ "busy" \in gsw[At("glo")] /\ gsw' = [gsw EXCEPT ![At("glo")] = @ \ {"busy"}]
  /\ UNCHANGED <<gsw_xtal, gsw_on, gsw_pc, gsw_core, gsw_value, gsw_lost>>

Register ==
  /\ ~SetUpEnd /\ ~Now.mdio
  /\ Now.do = "wait" => Now.bits \cap gsw[Now.at] = {}      \* isDMABusy, without end
  /\ WriteReg(Now, Result(Now, gsw[Now.at])) /\ gsw_pc' = gsw_pc + 1
  /\ UNCHANGED <<gsw_xtal, gsw_on, gsw_value, gsw_lost>>

Reads(op)    == op.do # "put"
HasWrite(op) == op.do \notin {"read", "crystal"}

\* The write of an access whose value is val, if it has one.
Store(op, val) == IF HasWrite(op) THEN WriteReg(op, val) ELSE UNCHANGED <<gsw, gsw_core>>

Mdio1 ==
  /\ ~SetUpEnd /\ Now.mdio
  /\ LET val == Result(Now, gsw[Now.at])
     IN Store(Now, val) /\ gsw_value' = IF Reads(Now) THEN val ELSE gsw_value
  /\ gsw_pc' = gsw_pc + 1 /\ UNCHANGED <<gsw_xtal, gsw_on, gsw_lost>>

\* After a lost read the last value stands for the register; for the crystal
\* that is any of the three.
MdioReadLost ==
  /\ ~SetUpEnd /\ Now.mdio /\ Reads(Now) /\ gsw_lost < LostMdio
  /\ LET val == Result(Now, gsw_value) IN Store(Now, val) /\ gsw_value' = val
  /\ IF Now.do = "crystal" THEN gsw_xtal' \in 1 .. 3 ELSE UNCHANGED gsw_xtal
  /\ gsw_pc' = gsw_pc + 1 /\ gsw_lost' = gsw_lost + 1 /\ UNCHANGED gsw_on

MdioWriteLost ==
  /\ ~SetUpEnd /\ Now.mdio /\ HasWrite(Now) /\ gsw_lost < LostMdio
  /\ gsw_value' = IF Reads(Now) THEN Result(Now, gsw[Now.at]) ELSE gsw_value
  /\ gsw_pc' = gsw_pc + 1 /\ gsw_lost' = gsw_lost + 1
  /\ UNCHANGED <<gsw_xtal, gsw_on, gsw, gsw_core>>

ChipRegs == {"pll", "sysctl", "pinmux", "glo", "gdma", "rx", "tx", "trgmii", "ge1", "ge2",
             "drive_7623", "gpio", "eth", "hif"}
SwRegs   == {"sw_rst", "p6", "trap", "align", "trx", "drive", "intr", "strap"}
PhyRegs  == Phys \X {"0", "4", "9", "13", "14"}

SetupInit ==
  /\ gsw_xtal \in 1 .. 3 /\ gsw_on \in EthOns
  /\ gsw = [r \in PhyRegs \cup ({Chip} \X (ChipRegs \cup SwRegs)) |->
             CASE r[2] \in gsw_on -> {"on", "on_s", "rst_b"}
               [] r[2] \in {"eth", "hif"} \ gsw_on -> Resting
               [] r[2] = "pll"  -> {"iso"}
               [] r[2] = "glo"  -> IF "dma" \in gsw_on THEN {"en", "busy", "high"} ELSE {"high"}
               [] r[2] = "trap" -> {"p6_off"}
               [] r[2] = "13"   -> {"addr"}
               [] r[2] = "14"   -> {"0"}
               [] OTHER -> {}]
  /\ gsw_core = [p \in Phys |-> [a \in {"410"} |-> {"3"}]]
  /\ gsw_pc = 0 /\ gsw_value = {} /\ gsw_lost = 0

SetupNext == DmaIdle \/ Register \/ Mdio1 \/ MdioReadLost \/ MdioWriteLost
-----------------------------------------------------------------------------
Core(p, a) == IF a \in DOMAIN gsw_core[p] THEN gsw_core[p][a] ELSE {}

On(d) == {"on", "on_s", "rst_b"} \subseteq gsw[At(d)] /\ gsw[At(d)] \cap Resting = {}

\* The reset of a power domain is released when everything in it is up, and
\* nothing behind it is used before: not the DMA and the frame engine, not
\* the switch.
PoweredWhenUsed ==
  /\ \A d \in {"eth", "hif"} : "rst_b" \in gsw[At(d)] => On(d)
  /\ ~SetUpEnd /\ (Now.mdio \/ Now.at[2] \in {"glo", "gdma", "rx", "tx", "sysctl", "trgmii"})
       => On("eth") /\ On("hif") /\ gsw[At("pll")] = {"pwr", "en"}

\* The PLL of the switch is changed only while no PHY has a link and the
\* receiver of the TRGMII is in reset, if no access was lost.
CoreQuiet ==
  [][\A a \in {"401", "403", "404", "405", "406", "409", "40a", "40d", "40e", "410"} :
        Core(0, a)' # Core(0, a) =>
             \/ gsw_lost' > 0
             \/ (\A p \in Phys : "down" \in gsw[<<p, "0">>]) /\ "rxc_rst" \in gsw[At("trgmii")]]_gswVars

\* The DMA is started only over rings that it was told of, reset and all, and
\* it is not told of them while it is busy, nor while it is on unless an
\* earlier program left it on: isDMABusy waits for it to rest, but the mask of
\* line 3606 leaves it on while the rings are changed under it.
RingsBeforeStart ==
  [][LET glo == At("glo") rx == At("rx") tx == At("tx")
     IN /\ "en" \in gsw'[glo] \ gsw[glo] =>
             gsw[rx] = {"base", "count", "idx"} /\ gsw[tx] = gsw[rx]
        /\ gsw'[rx] # gsw[rx] \/ gsw'[tx] # gsw[tx] =>
             "busy" \notin gsw[glo] /\ ("en" \notin gsw[glo] \/ "dma" \in gsw_on)]_gswVars

\* After a set-up without a lost access every register has the value the code
\* means it to have, also those behind the address and data of PHY 0.
SetUpAsMeant ==
  SetUpEnd /\ gsw_lost = 0 =>
    /\ \A p \in Phys : gsw[<<p, "0">>] = {"an"} /\ gsw[<<p, "4">>] = {"100"} /\ gsw[<<p, "9">>] = {"1000"}
                       /\ Core(p, "3c") = {"0"} /\ Core(p, "27b") = {"1177"}
    /\ Core(0, "410") = {"3"} /\ Core(0, "406") = {"a038"} /\ Core(0, "403") = {"1c00"}
    /\ Core(0, "409") = Core(0, "40a")
    /\ gsw_xtal = 2 => Core(0, "40d") = {"2820"} /\ Core(0, "40e") = {"119"}
    /\ "p6_off" \notin gsw[At("trap")] /\ "rxc_rst" \notin gsw[At("trgmii")]
    /\ "7623n" \in gsw_on => gsw[At("gpio")] = {"rst"}
    /\ gsw[At("align")] = {"0"}

\* A lost access keeps at most one PHY from its link, and never the DMA from
\* its start: the set-up goes on whatever happens.
OnePhyPerLoss ==
  SetUpEnd => /\ Cardinality({p \in Phys : gsw[<<p, "0">>] # {"an"}}) <= gsw_lost
              /\ "en" \in gsw[At("glo")]
=============================================================================
