------------------------------ MODULE NorProofs ------------------------------
(***************************************************************************)
(* What the SPI flash driver reports has happened in the flash, and nothing*)
(* else has, for a flash of any size, any requests and any number of       *)
(* failures and resets (module NorFlash).                                  *)
(***************************************************************************)
EXTENDS NorFlash, DivisionLemmas

FreeAt  == {"free_wait", "free_wren", "free", "free_done"}
LockAt  == {"lock_wait", "lock_wren", "lock", "lock_done", "end"}
WriteAt == {"write_wait", "write_wren", "head", "head_wait", "buffer_on", "block", "block_wait",
            "buffer_off", "tail", "tail_wait", "fail"}
EraseAt == {"erase", "erase_wait", "erase_wren", "erase_cmd", "erase_done"}
ReadAt  == {"read_wait", "read_mode", "read"}
Places  == {"idle", "init"} \cup FreeAt \cup LockAt \cup WriteAt \cup EraseAt \cup ReadAt

NorRequests == [op : {"init", "read", "write", "erase"}, addr : Nat, len : Nat]

NorTypes ==
  /\ NorTypeOK
  /\ call \in NorRequests
  /\ nor_pc \in Places
  /\ wp \in BOOLEAN /\ wel \in BOOLEAN /\ doubt \in BOOLEAN /\ found \in BOOLEAN
  /\ \/ chip_op = None
     \/ chip_op.k = "status" /\ chip_op.at = {}
     \/ chip_op.k = "program" /\ chip_op.v \in {"d", "x"}
     \/ chip_op.k = "erase"

\* Which call the driver is in, at each place.
CallKnown ==
  /\ nor_pc \in WriteAt => call.op = "write"
  /\ nor_pc \in EraseAt => call.op = "erase"
  /\ nor_pc \in ReadAt  => call.op = "read"
  /\ nor_pc \in LockAt  => call.op = "init"
  /\ nor_pc \in FreeAt  => call.op # "read"
  /\ nor_pc \notin {"idle", "init"} /\ call.op # "init" =>
       /\ found /\ call.addr + call.len <= Total
       /\ call.op = "write" => call.len > 0
       /\ call.op = "erase" => call.len % Sec = 0

\* How far it has come.
PosKnown ==
  /\ pos \in 0 .. call.len
  /\ pos > 0 => call.addr + call.len <= Total
  /\ nor_pc \in FreeAt \cup {"write_wait", "write_wren"} => pos = 0
  /\ nor_pc \in {"head", "head_wait", "tail_wait"} => pos < call.len
  /\ nor_pc = "block_wait" => pos + Buf <= call.len
  /\ nor_pc \in EraseAt => pos % Sec = 0 /\ (Whole => pos \in {0, Total})
  /\ nor_pc \in EraseAt \ {"erase"} => pos < call.len
  /\ nor_pc = "idle" /\ nor_ret = NorOK /\ call.op \in {"write", "erase"} => pos = call.len

\* What the driver waits for.
Span == IF nor_pc = "block_wait" THEN Next_at .. Next_at + Buf - 1 ELSE {Next_at}

\* What the chip is doing, or has done, at each place.
ChipKnown ==
  /\ nor_pc \in {"free_wren", "free", "erase", "erase_wait", "erase_wren", "erase_cmd"}
       \cup (WriteAt \ {"head_wait", "block_wait", "tail_wait", "fail"}) => chip_op = None
  /\ nor_pc \in {"free", "erase_cmd"} /\ call.op # "init" => wel
  /\ nor_pc = "free_done" /\ call.op # "init" =>
       (chip_op = None /\ ~wp) \/ (chip_op.k = "status" /\ chip_op.v = "off")
  /\ nor_pc \in (WriteAt \ {"fail"}) \cup EraseAt => ~wp
  /\ nor_pc \in {"head_wait", "block_wait", "tail_wait"} =>
       \/ chip_op.k = "program" /\ chip_op.at = Span
       \/ chip_op = None /\ (~doubt => \A a \in Span : cells[a] = "d")
  /\ nor_pc = "erase_done" =>
       \/ chip_op.k = "erase" /\ chip_op.at = EraseTarget
       \/ chip_op = None /\ \A a \in EraseTarget : cells[a] = "ff"

\* What is in the flash.
CellsKnown ==
  /\ ~doubt => /\ \A a \in Bytes : cells[a] # "x"
               /\ chip_op.k = "program" => chip_op.v = "d"
  /\ call.op = "write" /\ pos > 0 => chip_op.k # "erase"
  /\ call.op = "erase" /\ pos > 0 => chip_op.k # "program"
  /\ call.op = "write" /\ ~doubt => \A i \in 0 .. pos - 1 : cells[call.addr + i] = "d"
  /\ call.op = "erase" /\ call.addr % Sec = 0 => \A i \in 0 .. pos - 1 : cells[call.addr + i] = "ff"

\* The chip works inside the region of the call that gave it the command.
InRegion == chip_op.at \subseteq chip_op.of

NorInv == NorTypes /\ CallKnown /\ PosKnown /\ ChipKnown /\ CellsKnown /\ InRegion
-----------------------------------------------------------------------------
LEMMA NorBegins == NorInit => NorInv
<1> SUFFICES ASSUME NorInit
             PROVE  NorInv
  OBVIOUS
<1>1. call \in NorRequests /\ call.op = "init" /\ call.len = 0
  BY DEF NorInit, NorRequests
<1>2. NorTypeOK
  BY NorSizes DEF NorInit, NorTypeOK, None
<1>3. NorTypes
  BY <1>1, <1>2 DEF NorInit, NorTypes, Places
<1>4. CallKnown /\ PosKnown
  BY <1>1 DEF NorInit, CallKnown, PosKnown, WriteAt, EraseAt, ReadAt, LockAt, FreeAt
<1>5. ChipKnown
  BY DEF NorInit, ChipKnown, WriteAt, EraseAt
<1>6. CellsKnown /\ InRegion
  BY <1>1 DEF NorInit, CellsKnown, InRegion, None
<1> QED BY <1>3, <1>4, <1>5, <1>6 DEF NorInv
\* A step that gives the chip no command and moves no position.
LEMMA QuietStep ==
  ASSUME NorInv, UNCHANGED <<cells, chip_op, wp, doubt, found, call, pos>>,
         wel' \in BOOLEAN, nor_pc' \in Places, nor_ret' \in {"none", NorOK, "-1", "EINVAL"},
         CallKnown', PosKnown', ChipKnown'
  PROVE  NorInv'
<1>1. NorTypeOK'
  BY DEF NorInv, NorTypes, NorTypeOK
<1>2. NorTypes'
  BY <1>1 DEF NorInv, NorTypes
<1>3. CellsKnown' /\ InRegion'
  BY DEF NorInv, CellsKnown, InRegion
<1> QED BY <1>2, <1>3 DEF NorInv

\* Where an error leads to there is nothing the driver counts on.
LEMMA FailLeads ==
  ASSUME NorInv, FailTo, nor_pc \notin {"idle", "init"}, UNCHANGED <<call, pos, found>>
  PROVE  /\ nor_pc' \in Places /\ nor_ret' \in {"none", NorOK, "-1", "EINVAL"}
         /\ nor_pc' \in {"fail", "idle", "lock_wait", "end"}
         /\ CallKnown' /\ PosKnown' /\ ChipKnown'
<1>1. \/ call.op = "write" /\ nor_pc' = "fail" /\ UNCHANGED nor_ret
      \/ nor_pc' = "idle" /\ nor_ret' = "-1"
      \/ call.op = "init" /\ nor_pc' \in {"lock_wait", "end"} /\ UNCHANGED nor_ret
  <2>1. CASE nor_pc \in {"block", "block_wait", "tail", "tail_wait"}
    BY <2>1 DEF FailTo, Go, NorInv, CallKnown, WriteAt
  <2>2. CASE nor_pc \notin {"block", "block_wait", "tail", "tail_wait"} /\ call.op # "init"
    <3>1. Ret("-1")
      BY <2>2, Zenon DEF FailTo
    <3> QED BY <3>1 DEF Ret
  <2>3. CASE nor_pc \notin {"block", "block_wait", "tail", "tail_wait"} /\ call.op = "init"
    <3>1. Go("lock_wait") \/ Go("end")
      BY <2>3, Zenon DEF FailTo
    <3> QED BY <2>3, <3>1 DEF Go
  <2> QED BY <2>1, <2>2, <2>3
<1>2. nor_pc' \in {"fail", "idle", "lock_wait", "end"} /\ nor_pc' \in Places
  BY <1>1 DEF Places, WriteAt, LockAt
<1>3. nor_ret \in {"none", NorOK, "-1", "EINVAL"} /\ call \in NorRequests
  BY DEF NorInv, NorTypes, NorTypeOK
<1>4. CallKnown'
  BY <1>1, <1>2 DEF NorInv, CallKnown, WriteAt, EraseAt, ReadAt, LockAt, FreeAt
<1>5. PosKnown'
  BY <1>1, <1>2 DEF NorInv, PosKnown, EraseAt, FreeAt, NorOK
<1>6. ChipKnown'
  BY <1>2 DEF ChipKnown, WriteAt, EraseAt
<1> QED BY <1>1, <1>2, <1>3, <1>4, <1>5, <1>6

\* The waits that only go on.
LEMMA WaitStep ==
  ASSUME NorInv, NEW here, NEW next, Wait(here, next),
         \/ here = "lock_wait" /\ next = "lock_wren"
         \/ here = "lock_done" /\ next = "end"
         \/ here = "free_wait" /\ next = "free_wren"
         \/ here = "free_done" /\ next = "erase" /\ call.op = "erase"
         \/ here = "free_done" /\ next = "write_wait" /\ call.op = "write"
         \/ here = "free_done" /\ next = "lock_wait" /\ call.op = "init"
         \/ here = "write_wait" /\ next = "write_wren"
         \/ here = "erase_wait" /\ next = "erase_wren"
         \/ here = "read_wait" /\ next = "read_mode"
  PROVE  NorInv'
<1>1. nor_pc = here /\ UNCHANGED <<cells, wp, wel, chip_op, bufmode, doubt, found, call, pos>>
  BY DEF Wait, ChipVars
<1>2. CASE FailTo
  <2>1. nor_pc \notin {"idle", "init"}
    BY <1>1
  <2>2. /\ nor_pc' \in Places /\ nor_ret' \in {"none", NorOK, "-1", "EINVAL"}
        /\ CallKnown' /\ PosKnown' /\ ChipKnown'
    BY <1>1, <1>2, <2>1, FailLeads
  <2> QED BY <2>2, <1>1, QuietStep DEF NorInv, NorTypes
<1>3. CASE chip_op = None /\ nor_pc' = next /\ UNCHANGED nor_ret
  <2>1. nor_pc' \in Places /\ nor_ret' \in {"none", NorOK, "-1", "EINVAL"}
    BY <1>3 DEF NorInv, NorTypes, NorTypeOK, Places, WriteAt, EraseAt, LockAt, FreeAt, ReadAt
  <2>2. CallKnown'
    BY <1>1, <1>3 DEF NorInv, CallKnown, WriteAt, EraseAt, LockAt, FreeAt, ReadAt
  <2>3. PosKnown'
    <3>1. here = "free_done" => pos = 0 /\ call.len \in Nat /\ 0 % Sec = 0
      BY <1>1, NorSizes DEF NorInv, PosKnown, FreeAt, NorTypes, NorRequests
    <3>2. pos \in 0 .. call.len /\ (pos > 0 => call.addr + call.len <= Total)
      BY DEF NorInv, PosKnown
    <3>3. nor_pc' \in FreeAt \cup {"write_wait", "write_wren"} => pos = 0
      BY <1>1, <1>3, <3>1 DEF NorInv, PosKnown, FreeAt
    <3>4. nor_pc' \in EraseAt => pos % Sec = 0 /\ (Whole => pos \in {0, Total})
      BY <1>1, <1>3, <3>1 DEF NorInv, PosKnown, EraseAt
    <3>5. nor_pc' \in EraseAt \ {"erase"} => pos < call.len
      BY <1>1, <1>3 DEF NorInv, PosKnown, EraseAt
    <3>6. Whole' <=> Whole
      BY <1>1 DEF Whole
    <3>7. nor_pc' \notin {"head", "head_wait", "tail_wait", "block_wait", "idle"}
      BY <1>3
    <3> QED BY <1>1, <3>2, <3>3, <3>4, <3>5, <3>6, <3>7 DEF PosKnown
  <2>4. ChipKnown'
    <3>1. chip_op.k = "none"
      BY <1>3 DEF None
    <3>2. nor_pc' \notin {"free", "erase_cmd", "free_done", "head_wait", "block_wait", "tail_wait", "erase_done"}
      BY <1>3
    <3>3. nor_pc' \in (WriteAt \ {"fail"}) \cup EraseAt => ~wp
      BY <1>1, <1>3, <3>1 DEF NorInv, ChipKnown, WriteAt, EraseAt
    <3> QED BY <1>1, <1>3, <3>2, <3>3 DEF ChipKnown
  <2> QED BY <2>1, <2>2, <2>3, <2>4, <1>1, QuietStep DEF NorInv, NorTypes
<1> QED BY <1>2, <1>3 DEF Wait, WaitOver, Go

LEMMA WrenStep ==
  ASSUME NorInv, NEW here, NEW next, WriteEnable(here, next),
         \/ here = "lock_wren" /\ next = "lock"
         \/ here = "free_wren" /\ next = "free"
         \/ here = "write_wren" /\ next = "head"
         \/ here = "erase_wren" /\ next = "erase_cmd"
  PROVE  NorInv'
<1>1. nor_pc = here /\ UNCHANGED <<cells, wp, chip_op, bufmode, doubt, found, call, pos>>
  BY DEF WriteEnable
<1>2. wel' \in BOOLEAN /\ (found /\ chip_op = None => wel')
  <2>1. wel \in BOOLEAN
    BY DEF NorInv, NorTypes
  <2>2. PICK h \in BOOLEAN : h = (wel \/ chip_op = None)
    OBVIOUS
  <2>3. wel' \in {h} \cup (IF found THEN {} ELSE {wel})
    <3>1. wel' \in {wel \/ chip_op = None} \cup (IF found THEN {} ELSE {wel})
      BY DEF WriteEnable
    <3> QED BY <2>2, <3>1, Zenon
  <2> QED BY <2>1, <2>2, <2>3
<1>3. CASE FailTo
  <2>1. /\ nor_pc' \in Places /\ nor_ret' \in {"none", NorOK, "-1", "EINVAL"}
        /\ CallKnown' /\ PosKnown' /\ ChipKnown'
    BY <1>1, <1>3, FailLeads
  <2> QED BY <2>1, <1>1, <1>2, QuietStep
<1>4. CASE nor_pc' = next /\ UNCHANGED nor_ret
  <2>1. nor_pc' \in Places /\ nor_ret' \in {"none", NorOK, "-1", "EINVAL"}
    BY <1>4 DEF NorInv, NorTypes, NorTypeOK, Places, WriteAt, EraseAt, LockAt, FreeAt, ReadAt
  <2>2. CallKnown'
    BY <1>1, <1>4 DEF NorInv, CallKnown, WriteAt, EraseAt, LockAt, FreeAt, ReadAt
  <2>3. PosKnown'
    <3>1. pos \in 0 .. call.len /\ (pos > 0 => call.addr + call.len <= Total)
      BY DEF NorInv, PosKnown
    <3>2. nor_pc' \in FreeAt => pos = 0
      BY <1>1, <1>4 DEF NorInv, PosKnown, FreeAt
    <3>3. nor_pc' = "head" => pos < call.len
      BY <1>1, <1>4 DEF NorInv, PosKnown, CallKnown, WriteAt
    <3>4. nor_pc' \in EraseAt => pos % Sec = 0 /\ (Whole => pos \in {0, Total}) /\ pos < call.len
      BY <1>1, <1>4 DEF NorInv, PosKnown, EraseAt
    <3>5. Whole' <=> Whole
      BY <1>1 DEF Whole
    <3>6. nor_pc' \notin {"head_wait", "tail_wait", "block_wait", "idle", "write_wait", "write_wren"}
      BY <1>4
    <3> QED BY <1>1, <3>1, <3>2, <3>3, <3>4, <3>5, <3>6 DEF PosKnown
  <2>4. ChipKnown'
    <3>1. nor_pc' \notin {"free_done", "head_wait", "block_wait", "tail_wait", "erase_done"}
      BY <1>4
    <3>2. nor_pc' \in (WriteAt \ {"fail"}) \cup EraseAt => ~wp
      BY <1>1, <1>4 DEF NorInv, ChipKnown, WriteAt, EraseAt
    <3>3. nor_pc' # "lock" => chip_op = None
      BY <1>1, <1>4 DEF NorInv, ChipKnown, WriteAt, EraseAt
    <3>4. call.op # "init" => found
      BY <1>1 DEF NorInv, CallKnown
    <3>5. nor_pc' \in {"free", "erase_cmd"} /\ call.op # "init" => wel'
      BY <1>2, <3>3, <3>4
    <3> QED BY <1>1, <1>4, <3>1, <3>2, <3>3, <3>5 DEF ChipKnown, WriteAt, EraseAt
  <2> QED BY <2>1, <2>2, <2>3, <2>4, <1>1, <1>2, QuietStep
<1> QED BY <1>3, <1>4 DEF WriteEnable, Sent, Go

LEMMA StatusStep ==
  ASSUME NorInv, NEW here, NEW v, NEW next, WriteStatus(here, v, next),
         \/ here = "lock" /\ v = "on" /\ next = "lock_done"
         \/ here = "free" /\ v = "off" /\ next = "free_done"
  PROVE  NorInv'
<1>1. nor_pc = here /\ UNCHANGED <<cells, wp, wel, bufmode, doubt, found, call, pos>>
  BY DEF WriteStatus
<1>2. nor_pc' \in Places /\ nor_ret' \in {"none", NorOK, "-1", "EINVAL"} /\ CallKnown' /\ PosKnown'
      /\ (nor_pc' = next \/ nor_pc' \in {"fail", "idle", "lock_wait", "end"})
  <2>1. CASE FailTo
    BY <1>1, <2>1, FailLeads
  <2>2. CASE nor_pc' = next /\ UNCHANGED nor_ret
    <3>1. nor_pc' \in Places /\ nor_ret' \in {"none", NorOK, "-1", "EINVAL"}
      BY <2>2 DEF NorInv, NorTypes, NorTypeOK, Places, LockAt, FreeAt
    <3>2. CallKnown' /\ PosKnown'
      BY <1>1, <2>2 DEF NorInv, CallKnown, PosKnown, WriteAt, EraseAt, LockAt, FreeAt, ReadAt
    <3> QED BY <2>2, <3>1, <3>2
  <2> QED BY <2>1, <2>2 DEF WriteStatus, Sent, Go
<1>3. \/ chip_op' = [k |-> "status", at |-> {}, of |-> Region(call), v |-> v]
      \/ UNCHANGED chip_op /\ ~(chip_op = None /\ wel)
  BY DEF WriteStatus, Takes
<1>4. \/ chip_op' = None
      \/ chip_op'.k = "status" /\ chip_op'.at = {}
      \/ chip_op'.k = "program" /\ chip_op'.v \in {"d", "x"}
      \/ chip_op'.k = "erase"
  BY <1>3 DEF NorInv, NorTypes
<1>5. chip_op'.at \subseteq Bytes /\ InRegion'
  BY <1>3 DEF NorInv, NorTypes, NorTypeOK, InRegion
<1>6. NorTypes'
  <2>1. NorTypeOK'
    BY <1>1, <1>2, <1>5 DEF NorInv, NorTypes, NorTypeOK
  <2> QED BY <2>1, <1>1, <1>2, <1>4 DEF NorInv, NorTypes
<1>7. ChipKnown'
  <2>1. nor_pc' \in {"free_done", "lock_done", "fail", "idle", "lock_wait", "end"}
    BY <1>2
  <2>2. nor_pc' = "free_done" /\ call.op # "init" => chip_op'.k = "status" /\ chip_op'.v = "off"
    <3>1. ASSUME here = "free", call.op # "init"
          PROVE  chip_op = None /\ wel
      BY <3>1, <1>1 DEF NorInv, ChipKnown
    <3> QED BY <3>1, <1>2, <1>3
  <2> QED BY <2>1, <2>2, <1>1 DEF ChipKnown, WriteAt, EraseAt
<1>8. CellsKnown'
  BY <1>1, <1>3 DEF NorInv, CellsKnown
<1> QED BY <1>2, <1>5, <1>6, <1>7, <1>8 DEF NorInv

LEMMA InitChipStep == ASSUME NorInv, InitChip PROVE NorInv'
<1>1. /\ found' \in BOOLEAN /\ call' = [op |-> "init", addr |-> 0, len |-> 0] /\ pos' = 0
      /\ nor_pc' \in {"free_wait", "lock_wait"} /\ UNCHANGED <<cells, wp, wel, chip_op, doubt, nor_ret>>
  <2>1. PICK h \in BOOLEAN : found' = h
    BY DEF InitChip
  <2> QED BY <2>1 DEF InitChip, Go, ChipVars
<1>2. call' \in NorRequests /\ call'.op = "init" /\ call'.len = 0
  BY <1>1 DEF NorRequests
<1>3. NorTypeOK'
  BY <1>1, NorSizes DEF NorInv, NorTypes, NorTypeOK
<1>4. NorTypes'
  BY <1>1, <1>2, <1>3 DEF NorInv, NorTypes, Places, FreeAt, LockAt
<1>5. CallKnown' /\ PosKnown' /\ ChipKnown'
  BY <1>1, <1>2 DEF CallKnown, PosKnown, ChipKnown, WriteAt, EraseAt, ReadAt, FreeAt, LockAt
<1>6. CellsKnown' /\ InRegion'
  BY <1>1, <1>2 DEF NorInv, CellsKnown, InRegion
<1> QED BY <1>4, <1>5, <1>6 DEF NorInv

LEMMA BeginCallStep == ASSUME NorInv, NEW c \in NorCalls, BeginCall(c) PROVE NorInv'
<1>1. /\ nor_pc = "idle" /\ call' = c /\ pos' = 0
      /\ UNCHANGED <<cells, wp, wel, chip_op, doubt, found>>
  BY DEF BeginCall, ChipVars
<1>2. c \in [op : {"read", "write", "erase"}, addr : Nat, len : Nat]
  BY NorSizes
<1>3. \/ nor_pc' = "idle" /\ nor_ret' = NorOK /\ c.len = 0
      \/ nor_pc' = "idle" /\ nor_ret' = "EINVAL"
      \/ /\ nor_pc' = (IF c.op = "read" THEN "read_wait" ELSE "free_wait") /\ UNCHANGED nor_ret
         /\ found /\ c.addr + c.len <= Total
         /\ (c.op = "write" => c.len # 0) /\ (c.op = "erase" => c.len % Sec = 0)
  <2>1. CASE c.len = 0 /\ c.op # "erase"
    BY <2>1 DEF BeginCall, Ret
  <2>2. CASE ~(c.len = 0 /\ c.op # "erase") /\ Refused(c)
    BY <2>2 DEF BeginCall, Ret
  <2>3. CASE ~(c.len = 0 /\ c.op # "erase") /\ ~Refused(c)
    <3>1. nor_pc' = (IF c.op = "read" THEN "read_wait" ELSE "free_wait") /\ UNCHANGED nor_ret
      BY <2>3 DEF BeginCall, Go
    <3>2. found /\ c.addr + c.len <= Total /\ (c.op = "erase" => c.len % Sec = 0)
      BY <2>3, <1>2, NorSizes DEF Refused
    <3> QED BY <2>3, <3>1, <3>2
  <2> QED BY <2>1, <2>2, <2>3
<1>4. call' \in NorRequests /\ call'.op \in {"read", "write", "erase"} /\ call'.len \in Nat
  BY <1>1, <1>2 DEF NorRequests
<1>5. nor_pc' \in {"idle", "read_wait", "free_wait"} /\ nor_ret' \in {"none", NorOK, "-1", "EINVAL"}
  BY <1>3 DEF NorInv, NorTypes, NorTypeOK
<1>6. NorTypeOK'
  BY <1>1, <1>5, NorSizes DEF NorInv, NorTypes, NorTypeOK
<1>7. NorTypes'
  BY <1>1, <1>4, <1>5, <1>6 DEF NorInv, NorTypes, Places, FreeAt, ReadAt
<1>8. CallKnown'
  BY <1>1, <1>2, <1>3 DEF CallKnown, WriteAt, EraseAt, ReadAt, FreeAt, LockAt
<1>9. PosKnown'
  <2>1. nor_pc' = "idle" /\ nor_ret' = NorOK => c.len = 0
    BY <1>3 DEF NorOK
  <2> QED BY <1>1, <1>4, <1>5, <2>1 DEF PosKnown, EraseAt, FreeAt
<1>10. ChipKnown'
  BY <1>5 DEF ChipKnown, WriteAt, EraseAt
<1>11. CellsKnown' /\ InRegion'
  BY <1>1 DEF NorInv, CellsKnown, InRegion
<1> QED BY <1>7, <1>8, <1>9, <1>10, <1>11 DEF NorInv

LEMMA ResetStep == ASSUME NorInv, BoardReset PROVE NorInv'
<1>1. /\ nor_pc' = "init" /\ nor_ret' = "none"
      /\ UNCHANGED <<cells, wp, wel, chip_op, doubt, found, call, pos>>
  BY DEF BoardReset, ChipVars
<1>2. CallKnown' /\ PosKnown' /\ ChipKnown'
  BY <1>1 DEF NorInv, CallKnown, PosKnown, ChipKnown, WriteAt, EraseAt, ReadAt, FreeAt, LockAt
<1> QED BY <1>1, <1>2, QuietStep DEF NorInv, NorTypes, Places

LEMMA EndStep == ASSUME NorInv, End PROVE NorInv'
<1>1. /\ nor_pc = "end" /\ nor_pc' = "idle" /\ nor_ret' = NorOK
      /\ UNCHANGED <<cells, wp, wel, chip_op, doubt, found, call, pos>>
  BY DEF End, Ret, ChipVars
<1>2. call.op = "init"
  BY <1>1 DEF NorInv, CallKnown, LockAt
<1>3. CallKnown' /\ PosKnown' /\ ChipKnown'
  BY <1>1, <1>2 DEF NorInv, CallKnown, PosKnown, ChipKnown, WriteAt, EraseAt, ReadAt, FreeAt, LockAt
<1> QED BY <1>1, <1>3, QuietStep DEF NorInv, NorTypes, Places

LEMMA ReadBytesStep == ASSUME NorInv, ReadBytes PROVE NorInv'
<1>1. /\ nor_pc = "read" /\ nor_pc' = "idle" /\ nor_ret' \in {NorOK, "-1"}
      /\ UNCHANGED <<cells, wp, wel, chip_op, doubt, found, call>>
  BY DEF ReadBytes, Ret, ChipVars
<1>2. call.op = "read" /\ call \in NorRequests /\ call.addr + call.len <= Total
  BY <1>1 DEF NorInv, NorTypes, CallKnown, ReadAt
<1>3. call.len \in Nat /\ call.addr \in Nat
  BY <1>2 DEF NorRequests
<1>4. pos' \in 0 .. call.len
  BY <1>3 DEF ReadBytes
<1>5. NorTypeOK'
  BY <1>1, <1>2, <1>3, <1>4, NorSizes DEF NorInv, NorTypes, NorTypeOK
<1>6. NorTypes'
  BY <1>1, <1>5 DEF NorInv, NorTypes, Places
<1>7. CallKnown' /\ PosKnown' /\ ChipKnown'
  BY <1>1, <1>2, <1>4 DEF CallKnown, PosKnown, ChipKnown, WriteAt, EraseAt, ReadAt, FreeAt, LockAt
<1>8. CellsKnown' /\ InRegion'
  BY <1>1, <1>2 DEF NorInv, CellsKnown, InRegion
<1> QED BY <1>6, <1>7, <1>8 DEF NorInv

LEMMA BufferModeStep ==
  ASSUME NorInv, NEW here, NEW on, NEW next, BufferMode(here, on, next),
         \/ here = "buffer_on" /\ (next <=> Go("block"))
         \/ here = "buffer_off" /\ (next <=> Go("tail"))
         \/ here = "fail" /\ (next <=> Ret("-1"))
         \/ here = "read_mode" /\ (next <=> Go("read"))
  PROVE  NorInv'
<1>1. nor_pc = here /\ UNCHANGED <<cells, wp, wel, chip_op, doubt, found, call, pos>>
  BY DEF BufferMode, ChipVars
<1>2. \/ here = "buffer_on" /\ nor_pc' = "block" /\ UNCHANGED nor_ret
      \/ here = "buffer_off" /\ nor_pc' = "tail" /\ UNCHANGED nor_ret
      \/ here = "read_mode" /\ nor_pc' = "read" /\ UNCHANGED nor_ret
      \/ nor_pc' = "idle" /\ nor_ret' = "-1"
  BY DEF BufferMode, Go, Ret
<1>3. nor_pc' \in Places /\ nor_ret' \in {"none", NorOK, "-1", "EINVAL"}
  BY <1>2 DEF NorInv, NorTypes, NorTypeOK, Places, WriteAt, ReadAt
<1>4. CallKnown'
  BY <1>1, <1>2 DEF NorInv, CallKnown, WriteAt, EraseAt, ReadAt, FreeAt, LockAt
<1>5. PosKnown'
  BY <1>1, <1>2 DEF NorInv, PosKnown, EraseAt, FreeAt, NorOK
<1>6. ChipKnown'
  BY <1>1, <1>2 DEF NorInv, ChipKnown, WriteAt, EraseAt
<1> QED BY <1>1, <1>3, <1>4, <1>5, <1>6, QuietStep DEF NorInv, NorTypes
-----------------------------------------------------------------------------
\* The erase of the next sector, or of the chip, stays in the region and ends
\* no later than it does.
LEMMA Targets ==
  ASSUME NorInv, nor_pc \in EraseAt, pos < call.len
  PROVE  /\ EraseTarget \subseteq Region(call) /\ EraseTarget \subseteq Bytes
         /\ pos + Stride \in 0 .. call.len /\ (pos + Stride) % Sec = 0
         /\ Whole => pos + Stride = Total
         /\ call.addr % Sec = 0 => \A i \in pos .. pos + Stride - 1 : call.addr + i \in EraseTarget
<1>1. call.op = "erase" /\ call.addr \in Nat /\ call.len \in Nat /\ pos \in 0 .. call.len
  BY DEF NorInv, NorTypes, NorRequests, CallKnown, PosKnown
<1>2. pos \in Nat /\ pos % Sec = 0 /\ (Whole => pos \in {0, Total})
  BY <1>1 DEF NorInv, PosKnown
<1>3. call.addr + call.len <= Total /\ call.len % Sec = 0
  BY <1>1 DEF NorInv, CallKnown, EraseAt
<1>4. Sec \in Nat \ {0} /\ Total \in Nat /\ Total % Sec = 0
  BY NorSizes
<1>5. Region(call) = UNION {SectorOf(a) : a \in Extent(call)}
  BY <1>1 DEF Region
<1>6. EraseTarget \subseteq Bytes
  BY DEF EraseTarget, SectorOf
<1>7. CASE Whole
  <2>1. pos = 0 /\ Stride = Total /\ EraseTarget = Bytes /\ call.addr = 0 /\ call.len = Total
    BY <1>2, <1>7 DEF Whole, Stride, EraseTarget
  <2>2. Extent(call) = Bytes
    BY <2>1, <1>4 DEF Extent, Bytes
  <2>3. \A b \in Bytes : b \in SectorOf(b)
    BY DEF SectorOf
  <2>4. Bytes \subseteq Region(call)
    BY <1>5, <2>2, <2>3
  <2>5. \A i \in pos .. pos + Stride - 1 : call.addr + i \in EraseTarget
    BY <2>1, <1>4 DEF Bytes
  <2> QED BY <2>1, <2>4, <2>5, <1>4, <1>6
<1>8. CASE ~Whole
  <2>1. Stride = Sec /\ EraseTarget = SectorOf(call.addr + pos)
    BY <1>8 DEF Stride, EraseTarget
  <2>2. call.addr + pos \in Extent(call)
    BY <1>1, <1>2 DEF Extent
  <2>3. SectorOf(call.addr + pos) \subseteq Region(call)
    BY <1>5, <2>2
  <2>4. pos + Sec <= call.len /\ (pos + Sec) % Sec = 0
    BY <1>1, <1>2, <1>3, <1>4, NextMultiple
  <2>5. ASSUME call.addr % Sec = 0, NEW i \in pos .. pos + Sec - 1
        PROVE  call.addr + i \in SectorOf(call.addr + pos)
    <3>1. (call.addr + pos) % Sec = 0
      BY <1>1, <1>2, <1>4, <2>5, ModShift
    <3>2. call.addr + pos \in Nat /\ call.addr + i \in Nat /\ i \in Nat
      BY <1>1, <1>2, <1>4
    <3>3. call.addr + pos <= call.addr + i /\ call.addr + i < (call.addr + pos) + Sec
      BY <1>1, <1>2, <1>4, <3>2
    <3>4. (call.addr + i) \div Sec = (call.addr + pos) \div Sec
      BY <1>4, <3>1, <3>2, <3>3, SameQuotient
    <3>5. call.addr + i \in Bytes
      BY <1>1, <1>2, <1>3, <1>4, <2>4, <3>2 DEF Bytes
    <3> QED BY <3>4, <3>5 DEF SectorOf
  <2> QED BY <1>1, <1>2, <1>4, <1>6, <1>8, <2>1, <2>3, <2>4, <2>5
<1> QED BY <1>7, <1>8

LEMMA EraseLoopStep == ASSUME NorInv, Erase PROVE NorInv'
<1>1. /\ nor_pc = "erase" /\ UNCHANGED <<cells, wp, wel, chip_op, doubt, found, call, pos>>
      /\ \/ pos >= call.len /\ nor_pc' = "idle" /\ nor_ret' = NorOK
         \/ ~(pos >= call.len) /\ nor_pc' = "erase_wait" /\ UNCHANGED nor_ret
  BY DEF Erase, Go, Ret, ChipVars
<1>2. nor_pc' \in Places /\ nor_ret' \in {"none", NorOK, "-1", "EINVAL"}
  BY <1>1 DEF NorInv, NorTypes, NorTypeOK, Places, EraseAt
<1>3. call.op = "erase" /\ call.len \in Nat /\ pos \in 0 .. call.len
  BY <1>1 DEF NorInv, CallKnown, PosKnown, EraseAt, NorTypes, NorRequests
<1>4. CallKnown'
  BY <1>1 DEF NorInv, CallKnown, WriteAt, EraseAt, ReadAt, FreeAt, LockAt
<1>5. PosKnown'
  <2>1. nor_pc' \in EraseAt => pos % Sec = 0 /\ (Whole => pos \in {0, Total}) /\ pos < call.len
    BY <1>1, <1>3 DEF NorInv, PosKnown, EraseAt
  <2>2. pos > 0 => call.addr + call.len <= Total
    BY DEF NorInv, PosKnown
  <2>3. nor_pc' = "idle" => pos = call.len
    BY <1>1, <1>3
  <2>4. Whole' <=> Whole
    BY <1>1 DEF Whole
  <2>5. nor_pc' \in {"idle", "erase_wait"}
    BY <1>1
  <2> QED BY <1>1, <1>3, <2>1, <2>2, <2>3, <2>4, <2>5 DEF PosKnown, FreeAt
<1>6. ChipKnown'
  BY <1>1 DEF NorInv, ChipKnown, WriteAt, EraseAt
<1> QED BY <1>1, <1>2, <1>4, <1>5, <1>6, QuietStep DEF NorInv, NorTypes

LEMMA EraseCmdStep == ASSUME NorInv, EraseCmd PROVE NorInv'
<1>1. nor_pc = "erase_cmd" /\ UNCHANGED <<cells, wp, wel, bufmode, doubt, found, call, pos>>
  BY DEF EraseCmd
<1>2. call.op = "erase" /\ pos < call.len /\ nor_pc \in EraseAt
  BY <1>1 DEF NorInv, CallKnown, PosKnown, EraseAt
<1>3. chip_op = None /\ wel /\ ~wp
  BY <1>1, <1>2 DEF NorInv, ChipKnown
<1>4. chip_op' = [k |-> "erase", at |-> EraseTarget, of |-> Region(call), v |-> "ff"]
  BY <1>3 DEF EraseCmd, Takes
<1>5. EraseTarget \subseteq Region(call) /\ EraseTarget \subseteq Bytes
  BY <1>2, Targets
<1>6. chip_op'.k = "erase" /\ chip_op'.at = EraseTarget /\ chip_op'.of = Region(call)
  BY <1>4
<1>7. /\ nor_pc' \in Places /\ nor_ret' \in {"none", NorOK, "-1", "EINVAL"} /\ CallKnown' /\ PosKnown'
      /\ ChipKnown'
  <2>1. CASE FailTo
    BY <1>1, <2>1, FailLeads
  <2>2. CASE nor_pc' = "erase_done" /\ UNCHANGED nor_ret
    <3>1. nor_pc' \in Places /\ nor_ret' \in {"none", NorOK, "-1", "EINVAL"}
      BY <2>2 DEF NorInv, NorTypes, NorTypeOK, Places, EraseAt
    <3>2. CallKnown'
      BY <1>1, <2>2 DEF NorInv, CallKnown, WriteAt, EraseAt, LockAt, FreeAt, ReadAt
    <3>3. PosKnown'
      <4>1. pos % Sec = 0 /\ (Whole => pos \in {0, Total}) /\ (Whole' <=> Whole)
        BY <1>1, <1>2 DEF NorInv, PosKnown, Whole
      <4> QED BY <1>1, <1>2, <2>2, <4>1 DEF NorInv, PosKnown, FreeAt
    <3>4. ChipKnown'
      <4>1. EraseTarget' = EraseTarget
        BY <1>1 DEF EraseTarget, Whole, SectorOf, Bytes
      <4> QED BY <1>1, <1>3, <1>6, <2>2, <4>1 DEF ChipKnown, WriteAt, EraseAt
    <3> QED BY <3>1, <3>2, <3>3, <3>4
  <2> QED BY <2>1, <2>2 DEF EraseCmd, Sent, Go
<1>8. NorTypeOK'
  BY <1>1, <1>5, <1>6, <1>7 DEF NorInv, NorTypes, NorTypeOK
<1>9. NorTypes'
  BY <1>1, <1>6, <1>7, <1>8 DEF NorInv, NorTypes
<1>10. CellsKnown'
  BY <1>1, <1>2, <1>6 DEF NorInv, CellsKnown
<1>11. InRegion'
  BY <1>5, <1>6 DEF InRegion
<1> QED BY <1>7, <1>9, <1>10, <1>11 DEF NorInv

LEMMA EraseDoneStep == ASSUME NorInv, EraseDone PROVE NorInv'
<1>1. nor_pc = "erase_done" /\ UNCHANGED <<cells, wp, wel, chip_op, bufmode, doubt, found, call>>
  BY DEF EraseDone, ChipVars
<1>2. CASE FailTo /\ UNCHANGED pos
  <2>1. /\ nor_pc' \in Places /\ nor_ret' \in {"none", NorOK, "-1", "EINVAL"}
        /\ CallKnown' /\ PosKnown' /\ ChipKnown'
    BY <1>1, <1>2, FailLeads
  <2> QED BY <1>1, <1>2, <2>1, QuietStep DEF NorInv, NorTypes
<1>3. CASE chip_op = None /\ nor_pc' = "erase" /\ UNCHANGED nor_ret /\ pos' = pos + Stride
  <2>1. call.op = "erase" /\ pos < call.len /\ nor_pc \in EraseAt
    BY <1>1 DEF NorInv, CallKnown, PosKnown, EraseAt
  <2>2. /\ pos' \in 0 .. call.len /\ pos' % Sec = 0 /\ (Whole => pos' = Total)
        /\ call.addr % Sec = 0 => \A i \in pos .. pos' - 1 : call.addr + i \in EraseTarget
    <3>1. pos' = pos + Stride
      BY <1>3
    <3>2. /\ pos + Stride \in 0 .. call.len /\ (pos + Stride) % Sec = 0 /\ (Whole => pos + Stride = Total)
          /\ call.addr % Sec = 0 => \A i \in pos .. pos + Stride - 1 : call.addr + i \in EraseTarget
      BY <2>1, Targets
    <3>3. pos' \in 0 .. call.len
      BY <3>1, <3>2
    <3>4. pos' % Sec = 0
      BY <3>1, <3>2
    <3>5. Whole => pos' = Total
      BY <3>1, <3>2
    <3>6. call.addr % Sec = 0 => \A i \in pos .. pos' - 1 : call.addr + i \in EraseTarget
      <4>1. pos' - 1 = pos + Stride - 1
        <5>1. Stride \in Int /\ pos \in Int
          BY <2>1, NorSizes DEF Stride, NorInv, PosKnown, NorTypes, NorRequests
        <5> QED BY <3>1, <5>1
      <4>2. pos .. pos' - 1 = pos .. pos + Stride - 1
        BY <4>1, Zenon
      <4> QED BY <3>2, <4>2
    <3> QED BY <3>3, <3>4, <3>5, <3>6
  <2>3. chip_op.k = "none"
    BY <1>3 DEF None
  <2>4. \A a \in EraseTarget : cells[a] = "ff"
    BY <1>1, <2>3 DEF NorInv, ChipKnown
  <2>5. call.addr + call.len <= Total /\ call.addr \in Nat /\ call.len \in Nat /\ pos \in Nat /\ Total \in Nat
    BY <1>1, <2>1, NorSizes DEF NorInv, CallKnown, PosKnown, NorTypes, NorRequests
  <2>6. pos' \in 0 .. Total
    BY <2>2, <2>5
  <2>13. pos <= pos'
    BY <1>3, <2>5, NorSizes DEF Stride
  <2>7. NorTypeOK'
    BY <1>1, <1>3, <2>6 DEF NorInv, NorTypes, NorTypeOK
  <2>8. NorTypes'
    BY <1>1, <1>3, <2>7 DEF NorInv, NorTypes, Places, EraseAt
  <2>9. CallKnown'
    BY <1>1, <1>3 DEF NorInv, CallKnown, WriteAt, EraseAt, LockAt, FreeAt, ReadAt
  <2>10. PosKnown'
    <3>1. Whole' <=> Whole
      BY <1>1 DEF Whole
    <3> QED BY <1>1, <1>3, <2>2, <2>5, <3>1 DEF PosKnown, FreeAt, EraseAt
  <2>11. ChipKnown'
    BY <1>1, <1>3 DEF NorInv, ChipKnown, WriteAt, EraseAt
  <2>12. CellsKnown'
    <3>1. ASSUME call.addr % Sec = 0
          PROVE  \A i \in 0 .. pos' - 1 : cells[call.addr + i] = "ff"
      <4>1. \A i \in 0 .. pos - 1 : cells[call.addr + i] = "ff"
        BY <2>1, <3>1 DEF NorInv, CellsKnown
      <4>2. \A i \in pos .. pos' - 1 : cells[call.addr + i] = "ff"
        BY <2>2, <2>4, <3>1
      <4>3. 0 .. pos' - 1 = (0 .. pos - 1) \cup (pos .. pos' - 1)
        BY <2>5, <2>6, <2>13
      <4> QED BY <4>1, <4>2, <4>3
    <3> QED BY <1>1, <2>1, <2>3, <3>1 DEF NorInv, CellsKnown
  <2> QED BY <1>1, <2>8, <2>9, <2>10, <2>11, <2>12 DEF NorInv, InRegion
<1> QED BY <1>2, <1>3 DEF EraseDone, WaitOver, Go
-----------------------------------------------------------------------------
\* A program command is for the bytes the driver then waits for.
LEMMA ProgramStep ==
  ASSUME NorInv, NEW at, NEW next, Program(at, next), pos < call.len,
         \/ nor_pc = "head" /\ next = "head_wait" /\ at = {Next_at}
         \/ nor_pc = "tail" /\ next = "tail_wait" /\ at = {Next_at}
         \/ /\ nor_pc = "block" /\ next = "block_wait" /\ at = Next_at .. Next_at + Buf - 1
            /\ pos + Buf <= call.len
  PROVE  NorInv'
<1>1. UNCHANGED <<cells, wp, wel, bufmode, found, call, pos>>
  BY DEF Program
<1>2. /\ call.op = "write" /\ call.addr \in Nat /\ call.len \in Nat /\ call.addr + call.len <= Total
      /\ pos \in Nat
  <2>1. nor_pc \in WriteAt
    BY DEF WriteAt
  <2>2. call.op = "write" /\ call.addr + call.len <= Total
    BY <2>1 DEF NorInv, CallKnown
  <2>3. call.addr \in Nat /\ call.len \in Nat
    BY DEF NorInv, NorTypes, NorRequests
  <2> QED BY <2>2, <2>3 DEF NorInv, PosKnown
<1>3. chip_op = None /\ ~wp
  BY DEF NorInv, ChipKnown, WriteAt
<1>4. Total \in Nat /\ Buf \in Nat \ {0}
  BY NorSizes
<1>5. Next_at \in Nat /\ call.addr <= Next_at /\ Next_at < call.addr + call.len
  BY <1>2 DEF Next_at
<1>6. at \subseteq Extent(call) /\ at \subseteq Bytes
  <2>1. CASE at = {Next_at}
    BY <1>2, <1>4, <1>5, <2>1 DEF Extent, Bytes
  <2>2. CASE at = Next_at .. Next_at + Buf - 1 /\ pos + Buf <= call.len
    <3>1. Next_at + Buf - 1 <= call.addr + call.len - 1 /\ Next_at >= call.addr
      BY <1>2, <1>4, <2>2 DEF Next_at
    <3> QED BY <1>2, <1>4, <1>5, <2>2, <3>1 DEF Extent, Bytes
  <2> QED BY <2>1, <2>2
<1>7. Region(call) = Extent(call)
  BY <1>2 DEF Region
<1>8. PICK m \in BOOLEAN : m = (bufmode = (nor_pc = "block"))
  OBVIOUS
<1>9. chip_op' = [k |-> "program", at |-> at, of |-> Region(call), v |-> IF m THEN "d" ELSE "x"]
  BY <1>3, <1>8, Zenon DEF Program, Takes
<1>10. /\ chip_op'.k = "program" /\ chip_op'.at = at /\ chip_op'.of = Region(call)
       /\ chip_op'.v \in {"d", "x"} /\ (m => chip_op'.v = "d")
  BY <1>9
<1>11. doubt' \in BOOLEAN /\ (~doubt' => ~doubt /\ m)
  <2>1. doubt \in BOOLEAN
    BY DEF NorInv, NorTypes
  <2>2. doubt' = (doubt \/ ~m)
    BY <1>8, Zenon DEF Program
  <2> QED BY <2>1, <2>2
<1>12. /\ nor_pc' \in Places /\ nor_ret' \in {"none", NorOK, "-1", "EINVAL"} /\ CallKnown' /\ PosKnown'
       /\ ChipKnown'
  <2>1. CASE FailTo
    BY <1>1, <2>1, FailLeads
  <2>2. CASE nor_pc' = next /\ UNCHANGED nor_ret
    <3>1. nor_pc' \in Places /\ nor_ret' \in {"none", NorOK, "-1", "EINVAL"}
      BY <2>2 DEF NorInv, NorTypes, NorTypeOK, Places, WriteAt
    <3>2. CallKnown'
      BY <1>1, <2>2 DEF NorInv, CallKnown, WriteAt, EraseAt, LockAt, FreeAt, ReadAt
    <3>3. PosKnown'
      BY <1>1, <2>2 DEF NorInv, PosKnown, FreeAt, EraseAt
    <3>4. ChipKnown'
      <4>1. nor_pc' \in {"head_wait", "tail_wait", "block_wait"}
        BY <2>2
      <4>2. Next_at' = Next_at
        BY <1>1 DEF Next_at
      <4>3. Span' = at
        BY <2>2, <4>2 DEF Span
      <4> QED BY <1>1, <1>3, <1>10, <4>1, <4>3 DEF ChipKnown, WriteAt, EraseAt
    <3> QED BY <3>1, <3>2, <3>3, <3>4
  <2> QED BY <2>1, <2>2 DEF Program, Sent, Go
<1>13. NorTypeOK'
  BY <1>1, <1>6, <1>10, <1>12 DEF NorInv, NorTypes, NorTypeOK
<1>14. NorTypes'
  BY <1>1, <1>10, <1>11, <1>12, <1>13 DEF NorInv, NorTypes
<1>15. CellsKnown'
  BY <1>1, <1>2, <1>10, <1>11 DEF NorInv, CellsKnown
<1>16. InRegion'
  BY <1>6, <1>7, <1>10 DEF InRegion
<1> QED BY <1>12, <1>14, <1>15, <1>16 DEF NorInv

LEMMA HeadByteStep == ASSUME NorInv, HeadByte PROVE NorInv'
<1>1. nor_pc = "head" /\ pos < call.len
  BY DEF HeadByte, NorInv, PosKnown
<1>2. CASE Aligned
  <2>1. nor_pc' = "buffer_on" /\ UNCHANGED <<cells, wp, wel, chip_op, doubt, found, call, pos, nor_ret>>
    BY <1>2 DEF HeadByte, Go, ChipVars
  <2>2. nor_pc' \in Places /\ nor_ret' \in {"none", NorOK, "-1", "EINVAL"}
    BY <2>1 DEF NorInv, NorTypes, NorTypeOK, Places, WriteAt
  <2>3. CallKnown' /\ PosKnown'
    BY <1>1, <2>1 DEF NorInv, CallKnown, PosKnown, WriteAt, EraseAt, LockAt, FreeAt, ReadAt
  <2>4. ChipKnown'
    BY <1>1, <2>1 DEF NorInv, ChipKnown, WriteAt, EraseAt
  <2> QED BY <2>1, <2>2, <2>3, <2>4, QuietStep DEF NorInv, NorTypes
<1>3. CASE ~Aligned
  <2>1. Program({Next_at}, "head_wait")
    BY <1>3 DEF HeadByte
  <2> QED BY <1>1, <2>1, ProgramStep
<1> QED BY <1>2, <1>3

LEMMA BufferStep == ASSUME NorInv, Block PROVE NorInv'
<1>1. nor_pc = "block" /\ pos \in Nat /\ call.len \in Nat /\ Buf \in Nat \ {0}
  BY NorSizes DEF Block, NorInv, PosKnown, NorTypes, NorRequests
<1>2. CASE ~FullBuffer
  <2>1. nor_pc' = "buffer_off" /\ UNCHANGED <<cells, wp, wel, chip_op, doubt, found, call, pos, nor_ret>>
    BY <1>2 DEF Block, Go, ChipVars
  <2>2. nor_pc' \in Places /\ nor_ret' \in {"none", NorOK, "-1", "EINVAL"}
    BY <2>1 DEF NorInv, NorTypes, NorTypeOK, Places, WriteAt
  <2>3. CallKnown' /\ PosKnown'
    BY <1>1, <2>1 DEF NorInv, CallKnown, PosKnown, WriteAt, EraseAt, LockAt, FreeAt, ReadAt
  <2>4. ChipKnown'
    BY <1>1, <2>1 DEF NorInv, ChipKnown, WriteAt, EraseAt
  <2> QED BY <2>1, <2>2, <2>3, <2>4, QuietStep DEF NorInv, NorTypes
<1>3. CASE FullBuffer
  <2>1. Program(Next_at .. Next_at + Buf - 1, "block_wait")
    BY <1>3 DEF Block
  <2>2. pos + Buf <= call.len /\ pos < call.len
    BY <1>1, <1>3 DEF FullBuffer, Rest
  <2> QED BY <1>1, <2>1, <2>2, ProgramStep
<1> QED BY <1>2, <1>3

LEMMA TailByteStep == ASSUME NorInv, TailByte PROVE NorInv'
<1>1. nor_pc = "tail" /\ pos \in 0 .. call.len /\ call.len \in Nat
  BY DEF TailByte, NorInv, PosKnown, NorTypes, NorRequests
<1>2. CASE Rest = 0
  <2>1. /\ nor_pc' = "idle" /\ nor_ret' = NorOK
        /\ UNCHANGED <<cells, wp, wel, chip_op, doubt, found, call, pos>>
    BY <1>2 DEF TailByte, Ret, ChipVars
  <2>2. pos = call.len
    BY <1>1, <1>2 DEF Rest
  <2>3. CallKnown'
    BY <1>1, <2>1 DEF NorInv, CallKnown, WriteAt, EraseAt, LockAt, FreeAt, ReadAt
  <2>4. PosKnown'
    BY <1>1, <2>1, <2>2 DEF NorInv, PosKnown, EraseAt, FreeAt
  <2>5. ChipKnown'
    BY <1>1, <2>1 DEF NorInv, ChipKnown, WriteAt, EraseAt
  <2> QED BY <2>1, <2>3, <2>4, <2>5, QuietStep DEF NorInv, NorTypes, Places
<1>3. CASE ~(Rest = 0)
  <2>1. Program({Next_at}, "tail_wait")
    BY <1>3 DEF TailByte
  <2>2. pos < call.len
    BY <1>1, <1>3 DEF Rest
  <2> QED BY <1>1, <2>1, <2>2, ProgramStep
<1> QED BY <1>2, <1>3

\* When the chip is idle again the bytes are in the flash and are counted.
LEMMA CountedStep ==
  ASSUME NorInv, NEW n, NEW over \in BOOLEAN, NEW next, Counted(n, over, next),
         \/ nor_pc = "head_wait" /\ n = 1 /\ over /\ next = "head"
         \/ nor_pc = "block_wait" /\ n = Buf /\ ~over /\ next = "block"
         \/ nor_pc = "tail_wait" /\ n = 1 /\ ~over /\ next = "tail"
  PROVE  NorInv'
<1>1. UNCHANGED <<cells, wp, wel, chip_op, bufmode, doubt, found, call>>
  BY DEF Counted, ChipVars
<1>2. CASE FailTo /\ UNCHANGED pos
  <2>1. /\ nor_pc' \in Places /\ nor_ret' \in {"none", NorOK, "-1", "EINVAL"}
        /\ CallKnown' /\ PosKnown' /\ ChipKnown'
    BY <1>1, <1>2, FailLeads
  <2> QED BY <1>1, <1>2, <2>1, QuietStep DEF NorInv, NorTypes
<1>3. CASE /\ chip_op = None /\ pos' = pos + n
           /\ IF over /\ pos' = call.len THEN Ret(NorOK) ELSE Go(next)
  <2>1. /\ call.op = "write" /\ call.addr \in Nat /\ call.len \in Nat /\ call.addr + call.len <= Total
        /\ pos \in Nat /\ Total \in Nat
    BY NorSizes DEF NorInv, NorTypes, NorRequests, CallKnown, PosKnown, WriteAt
  <2>2. n \in Nat \ {0} /\ pos + n <= call.len
    <3>1. nor_pc # "block_wait" => pos < call.len
      BY DEF NorInv, PosKnown
    <3>2. nor_pc = "block_wait" => pos + Buf <= call.len
      BY DEF NorInv, PosKnown
    <3> QED BY <2>1, <3>1, <3>2, NorSizes
  <2>3. pos' \in Nat /\ pos' <= call.len /\ pos < pos' /\ pos' \in 0 .. Total
    BY <1>3, <2>1, <2>2
  <2>4. \/ nor_pc' = "idle" /\ nor_ret' = NorOK /\ pos' = call.len
        \/ nor_pc' = next /\ UNCHANGED nor_ret /\ (next = "head" => pos' < call.len)
    <3>1. CASE over /\ pos' = call.len
      BY <1>3, <3>1 DEF Ret
    <3>2. CASE ~(over /\ pos' = call.len)
      <4>1. next = "head" => pos' # call.len
        BY <3>2
      <4> QED BY <1>3, <2>1, <2>3, <3>2, <4>1 DEF Go
    <3> QED BY <3>1, <3>2
  <2>5. nor_pc' \in {"idle", "head", "block", "tail"} /\ nor_ret' \in {"none", NorOK, "-1", "EINVAL"}
    BY <2>4 DEF NorInv, NorTypes, NorTypeOK
  <2>6. NorTypeOK'
    BY <1>1, <2>3, <2>5 DEF NorInv, NorTypes, NorTypeOK
  <2>7. NorTypes'
    BY <1>1, <2>5, <2>6 DEF NorInv, NorTypes, Places, WriteAt
  <2>8. CallKnown'
    BY <1>1, <2>5 DEF NorInv, CallKnown, WriteAt, EraseAt, LockAt, FreeAt, ReadAt
  <2>9. PosKnown'
    BY <1>1, <2>1, <2>3, <2>4, <2>5 DEF PosKnown, FreeAt, EraseAt
  <2>10. chip_op.k = "none"
    BY <1>3 DEF None
  <2>11. ~wp
    BY DEF NorInv, ChipKnown, WriteAt
  <2>12. ChipKnown'
    BY <1>1, <1>3, <2>5, <2>11 DEF ChipKnown, WriteAt, EraseAt
  <2>13. ASSUME ~doubt
         PROVE  \A i \in 0 .. pos' - 1 : cells[call.addr + i] = "d"
    <3>1. \A a \in Span : cells[a] = "d"
      BY <2>10, <2>13 DEF NorInv, ChipKnown
    <3>2. \A i \in pos .. pos + n - 1 : call.addr + i \in Span
      <4>1. CASE n = 1 /\ nor_pc # "block_wait"
        BY <2>1, <4>1 DEF Span, Next_at
      <4>2. CASE n = Buf /\ nor_pc = "block_wait"
        BY <2>1, <2>2, <4>2 DEF Span, Next_at
      <4> QED BY <4>1, <4>2
    <3>3. \A i \in 0 .. pos - 1 : cells[call.addr + i] = "d"
      BY <2>1, <2>13 DEF NorInv, CellsKnown
    <3>4. 0 .. pos' - 1 = (0 .. pos - 1) \cup (pos .. pos + n - 1)
      BY <1>3, <2>1, <2>2
    <3> QED BY <3>1, <3>2, <3>3, <3>4
  <2>14. CellsKnown'
    BY <1>1, <2>1, <2>10, <2>13 DEF NorInv, CellsKnown
  <2> QED BY <1>1, <2>7, <2>8, <2>9, <2>12, <2>14 DEF NorInv, InRegion
<1> QED BY <1>2, <1>3 DEF Counted, WaitOver

\* The chip finishes what it was given, whoever waits for it.
LEMMA ChipDoneStep == ASSUME NorInv, ChipDone PROVE NorInv'
<1>1. /\ chip_op' = None /\ wel' = FALSE /\ chip_op # None
      /\ UNCHANGED <<bufmode, doubt, found, call, nor_pc, pos, nor_ret>>
  BY DEF ChipDone
<1>2. chip_op'.k = "none" /\ chip_op'.at = {}
  BY <1>1 DEF None
<1>3. \/ chip_op.k = "status" /\ chip_op.at = {}
      \/ chip_op.k = "program" /\ chip_op.v \in {"d", "x"}
      \/ chip_op.k = "erase"
  BY <1>1 DEF NorInv, NorTypes
<1>4. /\ chip_op.k # "status" => wp' = wp
      /\ chip_op.k = "status" /\ chip_op.v = "off" => wp' = FALSE
      /\ wp' \in BOOLEAN
  <2>1. PICK h \in BOOLEAN : h = (chip_op.v = "on")
    OBVIOUS
  <2>2. wp' = IF chip_op.k = "status" THEN h ELSE wp
    BY <2>1, Zenon DEF ChipDone
  <2> QED BY <2>1, <2>2 DEF NorInv, NorTypes
<1>5. \A a \in Bytes : /\ a \notin chip_op.at => cells'[a] = cells[a]
                       /\ a \in chip_op.at /\ chip_op.k = "erase" => cells'[a] = "ff"
                       /\ a \in chip_op.at /\ chip_op.k # "erase" /\ cells[a] = "x" => cells'[a] = "x"
                       /\ a \in chip_op.at /\ chip_op.k # "erase" /\ cells[a] # "x" => cells'[a] = chip_op.v
  BY DEF ChipDone
<1>6. \A a \in Bytes : cells[a] \in {"ff", "d", "x"}
  BY DEF NorInv, NorTypes, NorTypeOK
<1>7. \A a \in Bytes : cells'[a] \in {"ff", "d", "x"}
  BY <1>3, <1>5, <1>6
<1>8. NorTypeOK'
  BY <1>1, <1>2, <1>7 DEF NorInv, NorTypes, NorTypeOK
<1>9. NorTypes'
  BY <1>1, <1>4, <1>8 DEF NorInv, NorTypes
<1>10. CallKnown' /\ PosKnown'
  <2>1. Whole' <=> Whole
    BY <1>1 DEF Whole
  <2> QED BY <1>1, <2>1 DEF NorInv, CallKnown, PosKnown
<1>11. ~doubt => \A a \in Bytes : cells[a] # "x" /\ (chip_op.k = "program" => chip_op.v = "d")
  BY DEF NorInv, CellsKnown
<1>12. chip_op.at \subseteq Bytes
  BY DEF NorInv, NorTypes, NorTypeOK
<1>13. ChipKnown'
  <2>1. nor_pc \in {"free", "erase_cmd"} /\ call.op # "init" => FALSE
    BY <1>1 DEF NorInv, ChipKnown
  <2>2. nor_pc = "free_done" /\ call.op # "init" => ~wp'
    BY <1>1, <1>4 DEF NorInv, ChipKnown
  <2>3. nor_pc \in (WriteAt \ {"fail"}) \cup EraseAt => ~wp'
    <3>1. nor_pc \in (WriteAt \ {"fail"}) \cup EraseAt => ~wp /\ chip_op.k # "status"
      BY <1>1 DEF NorInv, ChipKnown, WriteAt, EraseAt
    <3> QED BY <1>4, <3>1
  <2>4. nor_pc \in {"head_wait", "block_wait", "tail_wait"} => (~doubt => \A a \in Span : cells'[a] = "d")
    <3>1. nor_pc \in {"head_wait", "block_wait", "tail_wait"} => chip_op.k = "program" /\ chip_op.at = Span
      BY <1>1 DEF NorInv, ChipKnown
    <3> QED BY <1>5, <1>11, <1>12, <3>1
  <2>5. nor_pc = "erase_done" => \A a \in EraseTarget : cells'[a] = "ff"
    <3>1. nor_pc = "erase_done" => chip_op.k = "erase" /\ chip_op.at = EraseTarget
      BY <1>1 DEF NorInv, ChipKnown
    <3> QED BY <1>5, <1>12, <3>1
  <2>6. Span' = Span /\ EraseTarget' = EraseTarget
    BY <1>1 DEF Span, Next_at, EraseTarget, Whole, SectorOf
  <2> QED BY <1>1, <2>1, <2>2, <2>3, <2>4, <2>5, <2>6 DEF ChipKnown
<1>14. CellsKnown'
  <2>1. \A a \in Bytes : ~doubt => cells'[a] # "x"
    BY <1>3, <1>5, <1>11
  <2>2. call.addr \in Nat /\ call.len \in Nat /\ pos \in 0 .. call.len /\ Total \in Nat
        /\ (pos > 0 => call.addr + call.len <= Total)
    BY NorSizes DEF NorInv, NorTypes, NorRequests, PosKnown
  <2>3. \A i \in 0 .. pos - 1 : call.addr + i \in Bytes /\ pos > 0
    BY <2>2 DEF Bytes
  <2>4. ASSUME call.op = "write", ~doubt
        PROVE  \A i \in 0 .. pos - 1 : cells'[call.addr + i] = "d"
    <3>1. \A i \in 0 .. pos - 1 : cells[call.addr + i] = "d" /\ chip_op.k # "erase"
      BY <2>3, <2>4 DEF NorInv, CellsKnown
    <3> QED BY <1>3, <1>5, <1>11, <2>3, <2>4, <3>1
  <2>5. ASSUME call.op = "erase", call.addr % Sec = 0
        PROVE  \A i \in 0 .. pos - 1 : cells'[call.addr + i] = "ff"
    <3>1. \A i \in 0 .. pos - 1 : cells[call.addr + i] = "ff" /\ chip_op.k # "program"
      BY <2>3, <2>5 DEF NorInv, CellsKnown
    <3> QED BY <1>3, <1>5, <2>3, <3>1
  <2> QED BY <1>1, <1>2, <2>1, <2>4, <2>5 DEF CellsKnown
<1>15. InRegion'
  BY <1>2 DEF InRegion
<1> QED BY <1>9, <1>10, <1>13, <1>14, <1>15 DEF NorInv
-----------------------------------------------------------------------------
LEMMA NorStep == ASSUME NorInv, [NorNext]_norVars PROVE NorInv'
<1>1. CASE \E c \in NorCalls : BeginCall(c)
  BY <1>1, BeginCallStep
<1>2. CASE InitChip
  BY <1>2, InitChipStep
<1>3. CASE Lock
  <2>1. CASE Wait("lock_wait", "lock_wren") \/ Wait("lock_done", "end")
    BY <2>1, WaitStep
  <2>2. CASE WriteEnable("lock_wren", "lock")
    BY <2>2, WrenStep
  <2>3. CASE WriteStatus("lock", "on", "lock_done")
    BY <2>3, StatusStep
  <2> QED BY <1>3, <2>1, <2>2, <2>3 DEF Lock
<1>4. CASE Unlock
  <2>1. CASE Wait("free_wait", "free_wren") \/ Wait("write_wait", "write_wren")
    BY <2>1, WaitStep
  <2>2. CASE WriteEnable("free_wren", "free") \/ WriteEnable("write_wren", "head")
    BY <2>2, WrenStep
  <2>3. CASE WriteStatus("free", "off", "free_done")
    BY <2>3, StatusStep
  <2>4. ASSUME NEW n, Wait("free_done", n),
               \/ call.op = "erase" /\ n = "erase"
               \/ call.op = "write" /\ n = "write_wait"
               \/ call.op = "init" /\ n = "lock_wait"
        PROVE  NorInv'
    BY <2>4, WaitStep
  <2>5. nor_pc = "free_done" => call.op \in {"erase", "write", "init"}
    BY DEF NorInv, NorTypes, NorRequests, CallKnown, FreeAt
  <2>6. ASSUME Wait("free_done", CASE call.op = "erase" -> "erase" [] call.op = "write" -> "write_wait"
                                   [] OTHER -> "lock_wait")
        PROVE  NorInv'
    <3> DEFINE n == CASE call.op = "erase" -> "erase" [] call.op = "write" -> "write_wait"
                      [] OTHER -> "lock_wait"
    <3>1. call.op \in {"erase", "write", "init"}
      BY <2>5, <2>6 DEF Wait
    <3>2. \/ call.op = "erase" /\ n = "erase"
          \/ call.op = "write" /\ n = "write_wait"
          \/ call.op = "init" /\ n = "lock_wait"
      BY <3>1
    <3>3. Wait("free_done", n)
      BY <2>6
    <3> HIDE DEF n
    <3> QED BY <2>4, <3>2, <3>3
  <2> QED BY <1>4, <2>1, <2>2, <2>3, <2>6 DEF Unlock
<1>5. CASE EraseSteps
  <2>1. CASE Wait("erase_wait", "erase_wren")
    BY <2>1, WaitStep
  <2>2. CASE WriteEnable("erase_wren", "erase_cmd")
    BY <2>2, WrenStep
  <2> QED BY <1>5, <2>1, <2>2, EraseLoopStep, EraseCmdStep, EraseDoneStep DEF EraseSteps
<1>6. CASE WriteSteps
  <2>1. CASE HeadWait \/ BlockWait \/ TailWait
    <3>1. CASE HeadWait
      BY <3>1, CountedStep DEF HeadWait
    <3>2. CASE BlockWait
      BY <3>2, CountedStep DEF BlockWait
    <3>3. CASE TailWait
      BY <3>3, CountedStep DEF TailWait
    <3> QED BY <2>1, <3>1, <3>2, <3>3
  <2>2. CASE \/ BufferMode("buffer_on", TRUE, Go("block")) \/ BufferMode("buffer_off", FALSE, Go("tail"))
             \/ BufferMode("fail", FALSE, Ret("-1"))
    BY <2>2, BufferModeStep
  <2> QED BY <1>6, <2>1, <2>2, HeadByteStep, BufferStep, TailByteStep DEF WriteSteps
<1>7. CASE ReadSteps
  <2>1. CASE Wait("read_wait", "read_mode")
    BY <2>1, WaitStep
  <2>2. CASE BufferMode("read_mode", FALSE, Go("read"))
    BY <2>2, BufferModeStep
  <2> QED BY <1>7, <2>1, <2>2, ReadBytesStep DEF ReadSteps
<1>8. CASE End
  BY <1>8, EndStep
<1>9. CASE ChipDone
  BY <1>9, ChipDoneStep
<1>10. CASE BoardReset
  BY <1>10, ResetStep
<1>11. CASE UNCHANGED norVars
  <2>1. UNCHANGED <<cells, wp, wel, chip_op, bufmode, doubt, found, call, nor_pc, pos, nor_ret>>
    BY <1>11 DEF norVars
  <2>2. NorTypes'
    BY <2>1 DEF NorInv, NorTypes, NorTypeOK
  <2>3. CallKnown' /\ PosKnown'
    BY <2>1 DEF NorInv, CallKnown, PosKnown, Whole
  <2>4. ChipKnown'
    BY <2>1 DEF NorInv, ChipKnown, Span, Next_at, EraseTarget, Whole, SectorOf
  <2>5. CellsKnown' /\ InRegion'
    BY <2>1 DEF NorInv, CellsKnown, InRegion
  <2> QED BY <2>2, <2>3, <2>4, <2>5 DEF NorInv
<1> QED BY <1>1, <1>2, <1>3, <1>4, <1>5, <1>6, <1>7, <1>8, <1>9, <1>10, <1>11 DEF NorNext, Drive

LEMMA NorInvariant == NorSpec => []NorInv
<1>1. NorInit => NorInv
  BY NorBegins
<1>2. NorInv /\ [NorNext]_norVars => NorInv'
  BY NorStep
<1> QED BY <1>1, <1>2, PTL DEF NorSpec

LEMMA ToldTrue == NorInv => CallsAreDone
<1> SUFFICES ASSUME NorInv
             PROVE  CallsAreDone
  OBVIOUS
<1>1. call.addr \in Nat /\ call.len \in Nat /\ pos \in 0 .. call.len
  BY DEF NorInv, NorTypes, NorRequests, PosKnown
<1>2. RetlenIsWritten
  BY DEF NorInv, CellsKnown, RetlenIsWritten, Returned
<1>3. \A a \in Extent(call) : a - call.addr \in 0 .. call.len - 1 /\ call.addr + (a - call.addr) = a
  BY <1>1 DEF Extent
<1>4. nor_pc = "idle" /\ nor_ret = NorOK /\ call.op \in {"write", "erase"} => pos = call.len
  BY DEF NorInv, PosKnown
<1>5. WriteLands
  <2> SUFFICES ASSUME Returned("write"), nor_ret = NorOK, ~doubt, NEW a \in Extent(call)
               PROVE  cells[a] = "d"
    BY DEF WriteLands
  <2>1. pos = call.len /\ \A i \in 0 .. pos - 1 : cells[call.addr + i] = "d"
    BY <1>4 DEF NorInv, CellsKnown, Returned
  <2> QED BY <1>3, <2>1
<1>6. EraseClears
  <2> SUFFICES ASSUME Returned("erase"), nor_ret = NorOK, call.addr % Sec = 0, NEW a \in Extent(call)
               PROVE  cells[a] = "ff"
    BY DEF EraseClears
  <2>1. pos = call.len /\ \A i \in 0 .. pos - 1 : cells[call.addr + i] = "ff"
    BY <1>4 DEF NorInv, CellsKnown, Returned
  <2> QED BY <1>3, <2>1
<1> QED BY <1>2, <1>5, <1>6 DEF CallsAreDone

\* What mtk_nor_write and mtk_nor_erase report of the flash when they return is
\* true of it: the bytes are written, as many of them as *retlen says, and the
\* sectors are erased, whatever waits and commands failed before, whatever
\* resets there were and whatever the alignment.
THEOREM FlashDoesAsTold == NorSpec => []CallsAreDone
<1> QED BY NorInvariant, ToldTrue, PTL

\* A step changes bytes only inside the region of the call that gave the chip
\* the command it is at work on, though that call may have ended long ago.
THEOREM RegionsRespected == NorSpec => OthersStay
<1> DEFINE Change == \A a \in Bytes : cells'[a] # cells[a] => a \in chip_op.of
<1>1. NorInv /\ [NorNext]_norVars => [Change]_norVars
  <2> SUFFICES ASSUME NorInv, NorNext
               PROVE  Change
    OBVIOUS
  <2>1. cells' = cells \/ ChipDone
    BY DEF NorNext, BeginCall, Drive, InitChip, Lock, Unlock, Wait, WriteEnable, WriteStatus,
           EraseSteps, Erase, EraseCmd, EraseDone, WriteSteps, HeadByte, Program, HeadWait, Counted,
           BufferMode, Block, BlockWait, TailByte, TailWait, ReadSteps, ReadBytes, End, BoardReset,
           ChipVars
  <2>2. CASE ChipDone
    <3>1. \A a \in Bytes : a \notin chip_op.at => cells'[a] = cells[a]
      BY <2>2 DEF ChipDone
    <3>2. chip_op.at \subseteq chip_op.of
      BY DEF NorInv, InRegion
    <3> QED BY <3>1, <3>2
  <2> QED BY <2>1, <2>2
<1>2. OthersStay <=> [][Change]_norVars
  BY DEF OthersStay
<1> HIDE DEF Change
<1> QED BY <1>1, <1>2, NorInvariant, PTL DEF NorSpec
=============================================================================
