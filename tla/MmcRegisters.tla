---------------------------- MODULE MmcRegisters ----------------------------
(***************************************************************************)
(* The writes to the registers of an eMMC (EXT_CSD): one byte at a time    *)
(* with SWITCH, each read back with all the others into raw_ext_csd, which *)
(* is empty while it is read.                                              *)
(***************************************************************************)
EXTENDS Integers

Q == 2         \* the values of a byte, 256 in the card

CONSTANT RegFaults     \* bound: how many commands fail

VARIABLES
  card_reg, reg_copy,       \* the registers of the card, and raw_ext_csd
  reg_call,            \* what is written: register, value, the bytes not yet written
  reg_old,             \* the registers before the call
  reg_err, reg_faults

regVars == <<card_reg, reg_copy, reg_call, reg_old, reg_err, reg_faults>>

\* The bytes of ENH_SIZE_MULT or GPn_SIZE_MULT, of ENH_START_ADDR, and others.
Width == [size |-> 3, start |-> 4, attr |-> 1, grp_def |-> 1]
Regs  == DOMAIN Width
Zero  == [r \in Regs |-> [i \in 0 .. Width[r] - 1 |-> 0]]

\* Faulty variant of Byte: the value is not shifted from one byte to the next.
ByteSame(value, i) == value % Q

Byte(value, i) == (value \div Q^i) % Q

\* mmc_set_enh_size and mmc_set_enh_start_addr need ERASE_GRP_DEF, as far as
\* the host knows.
Allowed(r) == r \in {"size", "start"} => reg_copy["grp_def"][0] # 0

\* Faulty variant of Wanted: a new set of attributes takes the place of the old.
WantedOnly(r, value) == value

\* mmc_set_part_attr only adds attributes to those that raw_ext_csd shows.
Wanted(r, value) == IF r = "attr" /\ reg_copy["attr"][0] # 0 THEN 1 ELSE value

CallRegister(r, value) ==
  /\ reg_call.at = 0 /\ reg_old' = card_reg
  /\ IF Allowed(r)
     THEN /\ reg_call' = [r |-> r, value |-> Wanted(r, value), next |-> 0, at |-> 1]
          /\ UNCHANGED reg_err
     ELSE /\ reg_err' = "FAILED"
          /\ reg_call' = [r |-> r, value |-> value, next |-> 0, at |-> 0]
  /\ UNCHANGED <<card_reg, reg_copy, reg_faults>>

FailsHere == reg_faults < RegFaults /\ reg_faults' = reg_faults + 1

Ends(err) == reg_err' = err /\ reg_call' = [reg_call EXCEPT !.at = 0]

Written == [card_reg EXCEPT ![reg_call.r][reg_call.next] = Byte(reg_call.value, reg_call.next)]

\* mmc_switch: a response that is lost leaves open whether the byte was
\* written; the card can refuse a byte, too, and only the read back shows it.
SwitchByte ==
  /\ reg_call.at = 1
  /\ \/ card_reg' = Written /\ reg_call' = [reg_call EXCEPT !.at = 2] /\ UNCHANGED <<reg_err, reg_faults>>
     \/ FailsHere /\ UNCHANGED <<card_reg, reg_err>> /\ reg_call' = [reg_call EXCEPT !.at = 2]
     \/ FailsHere /\ card_reg' \in {card_reg, Written} /\ Ends("TIMEOUT")
  /\ UNCHANGED <<reg_copy, reg_old>>

\* Faulty variant of Confirmed: what was read back is not compared.
ConfirmedAlways(c) == TRUE

Confirmed(c) == c[reg_call.r][reg_call.next] = Byte(reg_call.value, reg_call.next)

ReadBack ==
  /\ reg_call.at = 2
  /\ \/ /\ reg_copy' = card_reg /\ UNCHANGED reg_faults
        /\ IF ~Confirmed(card_reg) THEN Ends("FAILED")
           ELSE IF reg_call.next + 1 < Width[reg_call.r]
           THEN reg_call' = [reg_call EXCEPT !.next = @ + 1, !.at = 1] /\ UNCHANGED reg_err
           ELSE Ends("NONE")
     \/ FailsHere /\ reg_copy' = Zero /\ Ends("TIMEOUT")
  /\ UNCHANGED <<card_reg, reg_old>>

RegInit ==
  /\ card_reg \in [size : {Zero.size}, start : {Zero.start}, attr : [{0} -> 0 .. Q - 1],
              grp_def : [{0} -> 0 .. Q - 1]]
  /\ reg_copy = card_reg /\ reg_old = card_reg
  /\ reg_call = [r |-> "attr", value |-> 0, next |-> 0, at |-> 0]
  /\ reg_err = "none" /\ reg_faults = 0

RegNext ==
  \/ \E r \in Regs : \E value \in {1, Q^Width[r] - 2} : CallRegister(r, value)
  \/ SwitchByte
  \/ ReadBack
-----------------------------------------------------------------------------
\* Success means that the whole value is in the card and in the host's copy;
\* a call that fails has written the low bytes and not touched the high ones,
\* so that the register holds a mixture (mmc_core.c:3069-3075).
WholeOrPrefix ==
  reg_call.at = 0 =>
    LET r == reg_call.r  last == Width[r] - 1 IN
    /\ reg_err = "NONE" => /\ \A i \in 0 .. last : card_reg[r][i] = (reg_call.value \div Q^i) % Q
                           /\ reg_copy = card_reg
    /\ \A i \in 0 .. last : i > reg_call.next => card_reg[r][i] = reg_old[r][i]

\* An attribute of a partition, once set, is not cleared, as long as the copy
\* the new set is added to is that of the card: after a failed read it is
\* empty (mmc_core.c:1619, 3165).
AttributesStay ==
  [][reg_call.at = 0 /\ reg_call'.at = 1 /\ reg_call'.r = "attr" /\ reg_copy = card_reg
       => card_reg["attr"][0] <= reg_call'.value]_regVars
=============================================================================
