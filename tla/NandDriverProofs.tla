-------------------------- MODULE NandDriverProofs --------------------------
(***************************************************************************)
(* The page operations of mtk_nand.c implement the page device for a chip  *)
(* of any size, any number of retries and any family (module NandDriver).  *)
(***************************************************************************)
EXTENDS NandDriver, DivisionLemmas

\* The pages from the first of a block on are those with the same first page.
LEMMA SameBlock ==
  ASSUME NEW p \in Nat, NEW q \in Nat
  PROVE  q \in PD!BlockOf(p) <=> FirstPage(q) = FirstPage(p)
<1> DEFINE B == PagesPerBlock
           m == (q \div B) - (p \div B)
<1>1. B \in Nat \ {0}
  BY ChipGeometry
<1>2. p = B * (p \div B) + (p % B) /\ p % B \in 0 .. B - 1 /\ p \div B \in Nat
  BY <1>1, DivMod
<1>3. q = B * (q \div B) + (q % B) /\ q % B \in 0 .. B - 1 /\ q \div B \in Nat
  BY <1>1, DivMod
<1>4. FirstPage(p) = B * (p \div B) /\ FirstPage(q) = B * (q \div B)
  BY <1>1, <1>2, <1>3, SMT DEF FirstPage
<1>5. m \in Int /\ B * m = FirstPage(q) - FirstPage(p)
  BY <1>1, <1>2, <1>3, <1>4, SMT
<1>6. q \in PD!BlockOf(p) <=> FirstPage(p) <= q /\ q <= FirstPage(p) + B - 1
  BY <1>1, <1>2, <1>4, SMT DEF PD!BlockOf, PD!FirstPage, FirstPage
<1>7. ASSUME q \in PD!BlockOf(p)
      PROVE  m = 0
  <2>1. -B < B * m /\ B * m < B
    BY <1>1, <1>2, <1>3, <1>4, <1>5, <1>6, <1>7, SMT
  <2> HIDE DEF m, B
  <2> QED BY <2>1, <1>1, <1>5, NoMultiple
<1>8. ASSUME q \in PD!BlockOf(p)
      PROVE  FirstPage(q) = FirstPage(p)
  <2>1. q \div B = p \div B
    BY <1>7, <1>8, <1>2, <1>3, SMT
  <2> QED BY <2>1, <1>4
<1>9. ASSUME FirstPage(q) = FirstPage(p)
      PROVE  q \in PD!BlockOf(p)
  BY <1>1, <1>2, <1>3, <1>4, <1>6, <1>9, SMT
<1> QED BY <1>8, <1>9
-----------------------------------------------------------------------------
Contents == Data \cup {Blank, Spoiled, Marked}

Calls == [page : AllPages, row : AllPages, unit : {"page", "sector"}, n : 0 .. RetryCnt,
          ret : {"SUCCESS", "FAIL", "BCH_FAIL"}, retry : BOOLEAN,
          buf : Contents \cup {"old", "raw"}]

DriverTypes ==
  /\ TypeOK
  /\ chip \in [dies : {1, 2}, mlc : BOOLEAN, rtype : Families]
  /\ call \in Calls
  /\ failed \in BOOLEAN /\ timed_out \in BOOLEAN /\ bBCHRetry \in BOOLEAN

\* A read in progress is at the cell of the page that was asked for.
AtPage ==
  pc # "idle" =>
    /\ asked = [op |-> "read", page |-> call.page, data |-> Blank]
    /\ csel = call.page \div DiePages /\ call.row = call.page % DiePages

\* Only the die being read can be set for a retry, and the read knows it.
VoltageKnown ==
  \A d \in {0, 1} : voltage[d] # 0 =>
    d = csel /\ chip.mlc /\ call.n # 0 /\ pc # "idle"

\* The randomizer is on only while a page comes in, unless the read left the
\* loop where retries were given up.
RandomizerKnown ==
  ~use_randomizer \/ (bBCHRetry /\ pc # "check") => randomizer = "off"

\* What the statistics and the result say at each point of a read.
FailureKnown ==
  /\ pc \in {"arm", "check"} => ~failed /\ call.ret = "SUCCESS"
  /\ pc = "decide" => call.ret # "FAIL" /\ (call.ret = "BCH_FAIL" => call.retry)
  /\ pc \in {"decide", "end"} => (failed <=> call.ret # "SUCCESS")
  /\ pc \in {"arm", "check", "decide"} /\ call.n # 0 => call.retry

\* A read that has not failed holds the page, if the page can be read.
BufferKnown ==
  /\ pc \in {"decide", "end"} /\ ~failed
  /\ cell[csel][call.row] \in Data \cup {Blank}
  => call.buf = cell[csel][call.row]

DriverInv ==
  /\ DriverTypes /\ AtPage /\ RandomizerKnown
  /\ ~timed_out => VoltageKnown /\ FailureKnown /\ BufferKnown
-----------------------------------------------------------------------------
\* mtk_nand_cs_on finds die and row of a page.
LEMMA Address ==
  ASSUME DriverTypes, NEW p \in AllPages
  PROVE  /\ DiePages \in Nat \ {0} /\ NumPages = chip.dies * DiePages
         /\ Select(p).cs = p \div DiePages /\ Select(p).row = p % DiePages
         /\ Select(p).cs \in {0, 1} /\ Select(p).row \in AllPages
         /\ chip.dies = 1 => Select(p).cs = 0
<1> DEFINE D == DiePages
<1>1. chip.dies \in {1, 2} /\ csel \in {0, 1} /\ (chip.dies = 1 => csel = 0)
  BY DEF DriverTypes, TypeOK
<1>2. p \in Nat /\ p < NumPages
  BY ChipGeometry DEF AllPages
<1>3. D \in Nat \ {0} /\ NumPages = chip.dies * D
  BY <1>1, ChipGeometry, SMT DEF DiePages
<1>4. p \div D \in Nat /\ p % D \in 0 .. D - 1 /\ p = D * (p \div D) + (p % D)
  BY <1>2, <1>3, DivMod
<1> HIDE DEF D
<1>5. CASE p < D
  <2>1. D * (p \div D) < D /\ -D < D * (p \div D)
    BY <1>3, <1>4, <1>5, SMT
  <2>2. p \div D = 0
    BY <2>1, <1>3, <1>4, NoMultiple
  <2>3. p % D = p
    BY <2>2, <1>2, <1>3, <1>4, SMT
  <2>4. Select(p) = [cs |-> IF chip.dies = 2 THEN 0 ELSE csel, row |-> p]
    BY <1>2, <1>3, <1>5, SMT DEF Select, D
  <2> QED BY <2>2, <2>3, <2>4, <1>1, <1>3 DEF D
<1>6. CASE ~(p < D)
  <2>1. chip.dies = 2 /\ p < 2 * D
    BY <1>1, <1>2, <1>3, <1>6, SMT
  <2>2. D * ((p \div D) - 1) = (p - D) - (p % D)
    <3>1. D * ((p \div D) - 1) = D * (p \div D) - D
      BY <1>3, <1>4, Distributes
    <3> QED BY <3>1, <1>2, <1>3, <1>4, SMT
  <2>3. D * ((p \div D) - 1) < D /\ -D < D * ((p \div D) - 1)
    BY <2>1, <2>2, <1>2, <1>3, <1>4, <1>6, SMT
  <2>4. (p \div D) - 1 = 0
    <3> DEFINE m == (p \div D) - 1
    <3>1. m \in Int /\ -D < D * m /\ D * m < D
      BY <2>3, <1>4
    <3> HIDE DEF m
    <3>2. m = 0
      BY <3>1, <1>3, NoMultiple
    <3> QED BY <3>2 DEF m
  <2>5. p \div D = 1
    BY <2>4, <1>4, SMT
  <2>6. p % D = p - D
    BY <2>2, <2>5, <1>2, <1>3, <1>4, SMT
  <2>7. Select(p) = [cs |-> 1, row |-> p - D]
    BY <2>1, <1>2, <1>3, <1>6, SMT DEF Select, D
  <2>8. p - D \in AllPages
    BY <2>1, <1>2, <1>3, <1>6, SMT DEF AllPages
  <2> QED BY <2>1, <2>5, <2>6, <2>7, <2>8, <1>3 DEF D
<1> QED BY <1>5, <1>6

\* Two pages of the same die and row are one page.
LEMMA OnePage ==
  ASSUME DriverTypes, NEW p \in AllPages, NEW q \in AllPages,
         p \div DiePages = q \div DiePages, p % DiePages = q % DiePages
  PROVE  p = q
<1> DEFINE D == DiePages
<1>1. D \in Nat \ {0}
  BY Address
<1>2. p \in Nat /\ q \in Nat
  BY DEF AllPages
<1>3. p = D * (p \div D) + (p % D) /\ q = D * (q \div D) + (q % D)
  BY <1>1, <1>2, DivMod
<1> QED BY <1>3, <1>2

LEMMA DriverBegins == Init => DriverInv
<1> SUFFICES ASSUME Init
             PROVE  DriverInv
  OBVIOUS
<1>1. 0 \in AllPages /\ 0 \in 0 .. RetryCnt
  BY ChipGeometry DEF AllPages
<1>2. call \in Calls
  BY <1>1 DEF Init, Calls, NoCall
<1>3. cell \in [{0, 1} -> [AllPages -> Contents]]
  BY DEF Init, Contents
<1>4. voltage \in [{0, 1} -> 0 .. RetryCnt] /\ \A d \in {0, 1} : voltage[d] = 0
  BY <1>1 DEF Init
<1>5. TypeOK
  BY <1>1, <1>2, <1>3, <1>4 DEF Init, TypeOK, Calls, Contents
<1> QED BY <1>2, <1>4, <1>5 DEF Init, DriverInv, DriverTypes, AtPage, RandomizerKnown,
          VoltageKnown, FailureKnown, BufferKnown

LEMMA VoltageSet ==
  ASSUME DriverTypes, NEW f, Voltages(f) \in 0 .. RetryCnt, SetVoltages(f)
  PROVE  /\ voltage' \in [{0, 1} -> 0 .. RetryCnt] /\ timed_out' \in BOOLEAN
         /\ ~timed_out' => ~timed_out /\ voltage' = [voltage EXCEPT ![csel] = Voltages(f)]
BY DEF SetVoltages, DriverTypes, TypeOK

LEMMA DefaultVoltages == Voltages(DefaultFeature) = 0
BY DEF Voltages, DefaultFeature

LEMMA RetryVoltages ==
  ASSUME NEW n \in Nat, n < RetryCnt
  PROVE  Voltages(Feature(n)) \in 0 .. RetryCnt
BY ChipGeometry DEF Voltages, Feature

LEMMA ReadStep ==
  ASSUME DriverInv, NEW p \in AllPages, NEW unit \in {"page", "sector"}, Read(p, unit)
  PROVE  DriverInv'
<1>1. DriverTypes
  BY DEF DriverInv
<1>2. /\ Select(p).cs = p \div DiePages /\ Select(p).row = p % DiePages
      /\ Select(p).cs \in {0, 1} /\ Select(p).row \in AllPages
      /\ chip.dies = 1 => Select(p).cs = 0
  BY <1>1, Address
<1>3. call' = [page |-> p, row |-> Select(p).row, unit |-> unit, n |-> 0,
               ret |-> "SUCCESS", retry |-> FALSE, buf |-> "old"]
  BY DEF Read
<1>4. call' \in Calls
  BY <1>2, <1>3, ChipGeometry DEF Calls
<1>5. /\ call'.page = p /\ call'.row = Select(p).row /\ call'.n = 0 /\ call'.ret = "SUCCESS"
      /\ pc' = "arm" /\ failed' = FALSE /\ csel' = Select(p).cs
      /\ UNCHANGED <<chip, cell, voltage, timed_out, randomizer>>
  BY <1>3 DEF Read
<1>6. bBCHRetry' \in BOOLEAN
  <2>1. PICK h \in BOOLEAN : bBCHRetry' = (bBCHRetry /\ h)
    BY DEF Read, Transform
  <2> QED BY <2>1, <1>1 DEF DriverTypes
<1>7. TypeOK'
  BY <1>1, <1>2, <1>4, <1>5 DEF DriverTypes, TypeOK, Calls
<1>8. DriverTypes'
  BY <1>1, <1>4, <1>5, <1>6, <1>7 DEF DriverTypes
<1>9. AtPage'
  <2>1. asked' = [op |-> "read", page |-> call'.page, data |-> Blank] /\ DiePages' = DiePages
    BY <1>5 DEF Read, Request, DiePages
  <2> QED BY <2>1, <1>2, <1>5 DEF AtPage
<1>10. ASSUME ~timed_out'
       PROVE  VoltageKnown' /\ FailureKnown' /\ BufferKnown'
  <2>1. pc = "idle" /\ ~timed_out
    BY DEF Read, Idle
  <2>2. \A d \in {0, 1} : voltage[d] = 0
    BY <2>1 DEF DriverInv, VoltageKnown
  <2>3. VoltageKnown'
    BY <2>2, <1>5 DEF VoltageKnown
  <2> QED BY <2>3, <1>5 DEF FailureKnown, BufferKnown
<1>11. RandomizerKnown'
  <2>1. pc = "idle" /\ (bBCHRetry' => bBCHRetry)
    BY DEF Read, Idle, Transform
  <2> QED BY <2>1, <1>5 DEF DriverInv, RandomizerKnown
<1> QED BY <1>8, <1>9, <1>10, <1>11 DEF DriverInv

LEMMA ArmStep == ASSUME DriverInv, Arm PROVE DriverInv'
<1>1. /\ pc = "arm" /\ UNCHANGED <<asked, chip, cell, voltage, csel, bBCHRetry, call, failed>>
      /\ pc' \in {"check", "decide"} /\ timed_out' \in BOOLEAN
      /\ ~timed_out' => ~timed_out /\ pc' = "check"
      /\ randomizer' \in {"off", "decode"}
  BY DEF Arm, TurnedOff, DriverInv, DriverTypes, TypeOK
<1>2. TypeOK'
  BY <1>1 DEF DriverInv, DriverTypes, TypeOK
<1>3. DriverTypes'
  BY <1>1, <1>2 DEF DriverInv, DriverTypes
<1>4. DiePages' = DiePages /\ AtPage'
  BY <1>1 DEF DriverInv, AtPage, DiePages
<1>5. ~timed_out' => VoltageKnown' /\ FailureKnown' /\ BufferKnown'
  BY <1>1 DEF DriverInv, VoltageKnown, FailureKnown, BufferKnown
<1>6. RandomizerKnown'
  BY <1>1 DEF Arm, TurnedOff, DriverInv, RandomizerKnown
<1> QED BY <1>3, <1>4, <1>5, <1>6 DEF DriverInv

LEMMA CheckStep == ASSUME DriverInv, Check PROVE DriverInv'
<1> DEFINE c0 == cell[csel][call.row]
<1>1. PICK verdict \in Verdicts(c0, voltage[csel]), late \in BOOLEAN :
        LET c == [call EXCEPT !.ret = IF late THEN "FAIL" ELSE call.ret] IN
        /\ \/ /\ verdict = "ok"
              /\ call' = [c EXCEPT !.buf = IF late THEN "old" ELSE c0]
              /\ UNCHANGED failed /\ timed_out' = (timed_out \/ late)
           \/ /\ verdict = "empty"
              /\ call' = EmptyPage /\ failed' = (failed \/ EmptyPage.ret = "BCH_FAIL")
              /\ timed_out' = (timed_out \/ late)
           \/ /\ verdict = "fail"
              /\ call' = [c EXCEPT !.ret = "BCH_FAIL", !.retry = TRUE, !.buf = "raw"]
              /\ \/ failed' = TRUE /\ timed_out' = (timed_out \/ late)
                 \/ UNCHANGED failed /\ timed_out' = TRUE
        /\ IF verdict = "fail" /\ ~bBCHRetry
           THEN pc' = "end" /\ UNCHANGED randomizer
           ELSE pc' = "decide" /\ randomizer' = TurnedOff
  BY DEF Check
<1>2. /\ pc = "check" /\ UNCHANGED <<asked, chip, cell, voltage, csel, bBCHRetry>>
      /\ call \in Calls /\ csel \in {0, 1} /\ call.row \in AllPages
  BY DEF Check, DriverInv, DriverTypes, TypeOK, Calls
<1>3. c0 \in Contents /\ cell[csel][call.row] = c0
  BY <1>2 DEF DriverInv, DriverTypes, TypeOK, Contents
<1>4. DiePages' = DiePages
  BY <1>2 DEF DiePages
<1> HIDE DEF c0
<1> DEFINE r == IF late THEN "FAIL" ELSE call.ret
           c == [call EXCEPT !.ret = r]
<1>5. /\ r \in {"SUCCESS", "FAIL", "BCH_FAIL"} /\ c \in Calls /\ c.ret = r
      /\ c.page = call.page /\ c.row = call.row /\ c.unit = call.unit
      /\ c.n = call.n /\ c.retry = call.retry
  BY <1>2 DEF Calls
<1>6. pc' \in {"decide", "end"} /\ randomizer' \in {"off", "decode"}
  BY <1>1 DEF TurnedOff, DriverInv, DriverTypes, TypeOK
<1>7. timed_out' \in BOOLEAN /\ (~timed_out' => ~timed_out /\ ~late)
  BY <1>1 DEF DriverInv, DriverTypes
<1>8. ASSUME NEW x, x \in Calls, call' = x, failed' \in BOOLEAN,
             x.page = call.page, x.row = call.row, x.n = call.n
      PROVE  DriverTypes' /\ AtPage'
  <2>1. call' \in Calls /\ call'.n \in 0 .. RetryCnt
    BY <1>8 DEF Calls
  <2>2. TypeOK'
    BY <2>1, <1>2, <1>6 DEF DriverInv, DriverTypes, TypeOK
  <2>3. DriverTypes'
    BY <2>1, <2>2, <1>2, <1>7, <1>8 DEF DriverInv, DriverTypes
  <2> QED BY <2>3, <1>2, <1>4, <1>8 DEF DriverInv, AtPage
<1>9. ASSUME ~timed_out', call'.n = call.n
      PROVE  VoltageKnown'
  BY <1>2, <1>6, <1>7, <1>9 DEF DriverInv, VoltageKnown
<1>13. RandomizerKnown'
  <2>1. CASE verdict = "fail" /\ ~bBCHRetry
    BY <2>1, <1>1, <1>2 DEF DriverInv, RandomizerKnown
  <2>2. CASE ~(verdict = "fail" /\ ~bBCHRetry)
    <3>1. randomizer' = TurnedOff
      BY <2>2, <1>1
    <3>2. randomizer' = "off"
      BY <3>1 DEF TurnedOff, DriverInv, RandomizerKnown
    <3> QED BY <3>2 DEF RandomizerKnown
  <2> QED BY <2>1, <2>2
<1>10. CASE verdict = "ok"
  <2> DEFINE b == IF late THEN "old" ELSE c0
  <2>1. b \in Contents \cup {"old", "raw"} /\ (~late => b = c0)
    BY <1>3
  <2>2. call' = [c EXCEPT !.buf = b] /\ failed' = failed /\ pc' = "decide"
    BY <1>1, <1>10
  <2> HIDE DEF b, c, r
  <2>3. /\ call' \in Calls /\ call'.buf = b /\ call'.ret = r
        /\ call'.page = call.page /\ call'.row = call.row /\ call'.unit = call.unit
        /\ call'.n = call.n /\ call'.retry = call.retry
    BY <2>1, <2>2, <1>5 DEF Calls
  <2>4. DriverTypes' /\ AtPage'
    BY <2>2, <2>3, <1>8 DEF DriverInv, DriverTypes
  <2>5. ASSUME ~timed_out'
        PROVE  FailureKnown' /\ BufferKnown'
    <3>1. ~late /\ ~failed /\ call.ret = "SUCCESS" /\ r = "SUCCESS"
      BY <2>5, <1>7, <1>2 DEF DriverInv, FailureKnown, r
    <3>2. pc' = "decide" /\ ~failed' /\ call'.ret = "SUCCESS" /\ call'.buf = c0
      BY <3>1, <2>1, <2>2, <2>3
    <3>3. cell'[csel'][call'.row] = c0 /\ (call'.n # 0 => call'.retry)
      BY <1>2, <1>3, <2>3, <2>5, <1>7 DEF DriverInv, FailureKnown
    <3> QED BY <3>2, <3>3 DEF FailureKnown, BufferKnown
  <2> QED BY <2>2, <2>3, <2>4, <2>5, <1>9, <1>13 DEF DriverInv
<1>11. CASE verdict = "empty"
  <2>1. call' = EmptyPage /\ failed' = (failed \/ EmptyPage.ret = "BCH_FAIL") /\ pc' = "decide"
    BY <1>1, <1>11
  <2>2. CASE call.n # 0
    <3>1. call' = [call EXCEPT !.ret = "BCH_FAIL"]
      BY <2>1, <2>2 DEF EmptyPage
    <3>2. /\ call' \in Calls /\ call'.ret = "BCH_FAIL" /\ call'.buf = call.buf
          /\ call'.page = call.page /\ call'.row = call.row /\ call'.unit = call.unit
          /\ call'.n = call.n /\ call'.retry = call.retry
      BY <3>1, <1>2 DEF Calls
    <3>3. failed' = TRUE
      BY <2>1, <3>2
    <3>4. DriverTypes' /\ AtPage'
      BY <3>2, <3>3, <1>8
    <3>5. ~timed_out' => FailureKnown' /\ BufferKnown'
      BY <2>1, <2>2, <3>2, <3>3, <1>2, <1>7 DEF DriverInv, FailureKnown, BufferKnown
    <3> QED BY <2>1, <3>2, <3>4, <3>5, <1>9, <1>13 DEF DriverInv
  <2>3. CASE call.n = 0
    <3>1. call' = [call EXCEPT !.buf = Blank, !.retry = FALSE, !.ret = "SUCCESS"]
      BY <2>1, <2>3 DEF EmptyPage
    <3>2. /\ call' \in Calls /\ call'.ret = "SUCCESS" /\ call'.buf = Blank
          /\ call'.page = call.page /\ call'.row = call.row /\ call'.unit = call.unit
          /\ call'.n = call.n
      BY <3>1, <1>2 DEF Calls, Contents
    <3>3. failed' = failed
      <4>1. EmptyPage.ret # "BCH_FAIL"
        BY <2>1, <3>2
      <4> QED BY <4>1, <2>1 DEF DriverInv, DriverTypes
    <3>4. DriverTypes' /\ AtPage'
      BY <3>2, <3>3, <1>8 DEF DriverInv, DriverTypes
    <3>5. ASSUME ~timed_out'
          PROVE  FailureKnown' /\ BufferKnown'
      <4>1. ~failed /\ voltage[csel] = 0
        BY <3>5, <2>3, <1>2, <1>7 DEF DriverInv, FailureKnown, VoltageKnown
      <4>2. c0 \in Data => c0 = Blank
        BY <4>1, <1>11 DEF Verdicts
      <4>3. cell'[csel'][call'.row] = c0
        BY <1>2, <1>3, <3>2
      <4>4. BufferKnown'
        BY <4>2, <4>3, <3>2 DEF BufferKnown
      <4> QED BY <4>1, <4>4, <2>1, <2>3, <3>2, <3>3 DEF FailureKnown
    <3> QED BY <2>1, <3>2, <3>4, <3>5, <1>9, <1>13 DEF DriverInv
  <2> QED BY <2>2, <2>3
<1>12. CASE verdict = "fail"
  <2>1. /\ call' = [c EXCEPT !.ret = "BCH_FAIL", !.retry = TRUE, !.buf = "raw"]
        /\ failed' \in BOOLEAN /\ (~timed_out' => failed' = TRUE)
    BY <1>1, <1>12 DEF DriverInv, DriverTypes
  <2> HIDE DEF c, r
  <2>2. /\ call' \in Calls /\ call'.ret = "BCH_FAIL" /\ call'.retry = TRUE
        /\ call'.page = call.page /\ call'.row = call.row /\ call'.unit = call.unit
        /\ call'.n = call.n
    BY <2>1, <1>5 DEF Calls
  <2>3. DriverTypes' /\ AtPage'
    BY <2>1, <2>2, <1>8
  <2>4. ~timed_out' => FailureKnown' /\ BufferKnown'
    BY <2>1, <2>2, <1>6 DEF FailureKnown, BufferKnown
  <2> QED BY <2>2, <2>3, <2>4, <1>9, <1>13 DEF DriverInv
<1> QED BY <1>1, <1>10, <1>11, <1>12

LEMMA CallCounted ==
  ASSUME call \in Calls, NEW n \in 0 .. RetryCnt, NEW r \in {"SUCCESS", "FAIL", "BCH_FAIL"},
         call' = [call EXCEPT !.n = n, !.ret = r]
  PROVE  /\ call' \in Calls /\ call'.n = n /\ call'.ret = r
         /\ call'.page = call.page /\ call'.row = call.row /\ call'.unit = call.unit
         /\ call'.retry = call.retry /\ call'.buf = call.buf
BY DEF Calls

LEMMA AgainStep == ASSUME DriverInv, Again PROVE DriverInv'
<1>1. /\ pc = "decide" /\ call.ret = "BCH_FAIL" /\ call.n < RetryCnt /\ failed' = FALSE
      /\ UNCHANGED <<asked, chip, cell, csel, randomizer, bBCHRetry>>
      /\ call \in Calls /\ call.n \in Nat /\ DriverTypes
  BY DEF Again, MayRetry, BackupFailed, ctl, DriverInv, DriverTypes, Calls
<1>2. call.n + 1 \in 0 .. RetryCnt /\ call.n + 1 # 0
  BY <1>1, ChipGeometry
<1>3. DiePages' = DiePages
  BY <1>1 DEF DiePages
<1> DEFINE r == IF call.retry THEN "SUCCESS" ELSE call.ret
<1>4. r \in {"SUCCESS", "BCH_FAIL"} /\ call' = [call EXCEPT !.n = call.n + 1, !.ret = r]
  BY <1>1 DEF Again, Retried
<1> HIDE DEF r
<1>5. /\ call' \in Calls /\ call'.n = call.n + 1 /\ call'.ret = r
      /\ call'.page = call.page /\ call'.row = call.row /\ call'.unit = call.unit
      /\ call'.retry = call.retry /\ call'.buf = call.buf
  BY <1>1, <1>2, <1>4, CallCounted
<1>6. pc' = IF call.retry THEN "arm" ELSE "end"
  BY DEF Again
<1>7. IF chip.mlc THEN SetVoltages(Feature(call.n)) ELSE KeepVoltages
  BY DEF Again
<1>8. Voltages(Feature(call.n)) \in 0 .. RetryCnt
  BY <1>1, RetryVoltages
<1>9. /\ voltage' \in [{0, 1} -> 0 .. RetryCnt] /\ timed_out' \in BOOLEAN
      /\ ~timed_out' => /\ ~timed_out
                        /\ \A d \in {0, 1} : voltage'[d] # 0 => chip.mlc /\ (d = csel \/ voltage[d] # 0)
  <2>1. CASE chip.mlc
    <3>1. SetVoltages(Feature(call.n))
      BY <1>7, <2>1
    <3>2. /\ voltage' \in [{0, 1} -> 0 .. RetryCnt] /\ timed_out' \in BOOLEAN
          /\ ~timed_out' => /\ ~timed_out
                            /\ voltage' = [voltage EXCEPT ![csel] = Voltages(Feature(call.n))]
      BY <3>1, <1>1, <1>8, VoltageSet
    <3> QED BY <3>2, <2>1, <1>1 DEF DriverTypes, TypeOK
  <2>2. CASE ~chip.mlc
    BY <2>2, <1>7, <1>1 DEF KeepVoltages, DriverInv, DriverTypes, TypeOK, VoltageKnown
  <2> QED BY <2>1, <2>2
<1>10. TypeOK'
  BY <1>1, <1>5, <1>6, <1>9 DEF DriverTypes, TypeOK, Calls
<1>11. DriverTypes'
  BY <1>1, <1>5, <1>9, <1>10 DEF DriverTypes
<1>12. AtPage'
  BY <1>1, <1>3, <1>5 DEF DriverInv, AtPage
<1>13. ASSUME ~timed_out'
       PROVE  VoltageKnown' /\ FailureKnown' /\ BufferKnown'
  <2>1. call.retry /\ ~timed_out
    BY <1>13, <1>1, <1>9 DEF DriverInv, FailureKnown
  <2>2. pc' = "arm" /\ call'.ret = "SUCCESS" /\ call'.retry /\ call'.n # 0
    BY <2>1, <1>1, <1>4, <1>5, <1>6 DEF r
  <2>3. VoltageKnown'
    BY <2>1, <2>2, <1>1, <1>9, <1>13 DEF DriverInv, VoltageKnown
  <2> QED BY <2>2, <2>3, <1>1 DEF FailureKnown, BufferKnown
<1>14. RandomizerKnown'
  BY <1>1 DEF DriverInv, RandomizerKnown
<1> QED BY <1>11, <1>12, <1>13, <1>14 DEF DriverInv

\* Setting the voltages back to those to program for.
LEMMA VoltagesReset ==
  ASSUME DriverTypes, NEW b \in BOOLEAN,
         IF b THEN SetVoltages(DefaultFeature) ELSE KeepVoltages
  PROVE  /\ voltage' \in [{0, 1} -> 0 .. RetryCnt] /\ timed_out' \in BOOLEAN
         /\ ~timed_out' => /\ ~timed_out
                           /\ \A d \in {0, 1} : voltage'[d] # 0 =>
                                voltage[d] # 0 /\ ~(b /\ d = csel)
<1>1. CASE b
  <2>1. Voltages(DefaultFeature) \in 0 .. RetryCnt
    BY ChipGeometry, DefaultVoltages
  <2>2. /\ voltage' \in [{0, 1} -> 0 .. RetryCnt] /\ timed_out' \in BOOLEAN
        /\ ~timed_out' => ~timed_out /\ voltage' = [voltage EXCEPT ![csel] = 0]
    BY <1>1, <2>1, VoltageSet, DefaultVoltages
  <2> QED BY <2>2 DEF DriverTypes, TypeOK
<1>2. CASE ~b
  BY <1>2 DEF KeepVoltages, DriverTypes, TypeOK
<1> QED BY <1>1, <1>2

LEMMA SettleStep == ASSUME DriverInv, Settle PROVE DriverInv'
<1>1. /\ pc = "decide" /\ pc' = "end" /\ call' = [call EXCEPT !.retry = FALSE]
      /\ UNCHANGED <<asked, chip, cell, csel, randomizer, bBCHRetry, failed>>
      /\ call \in Calls /\ DriverTypes
  BY DEF Settle, ctl, DriverInv, DriverTypes
<1>2. /\ call' \in Calls /\ call'.n = call.n /\ call'.ret = call.ret
      /\ call'.page = call.page /\ call'.row = call.row /\ call'.unit = call.unit
      /\ call'.buf = call.buf
  BY <1>1 DEF Calls
<1>3. DiePages' = DiePages
  BY <1>1 DEF DiePages
<1>4. /\ voltage' \in [{0, 1} -> 0 .. RetryCnt] /\ timed_out' \in BOOLEAN
      /\ ~timed_out' => /\ ~timed_out
                        /\ \A d \in {0, 1} : voltage'[d] # 0 =>
                             voltage[d] # 0 /\ ~(MustRestore /\ d = csel)
  <2>1. MustRestore \in BOOLEAN
    BY DEF MustRestore
  <2>2. IF MustRestore THEN SetVoltages(DefaultFeature) ELSE KeepVoltages
    BY DEF Settle
  <2> QED BY <2>1, <2>2, <1>1, VoltagesReset
<1>5. TypeOK'
  BY <1>1, <1>2, <1>4 DEF DriverTypes, TypeOK, Calls
<1>6. DriverTypes'
  BY <1>1, <1>2, <1>4, <1>5 DEF DriverTypes
<1>7. AtPage'
  BY <1>1, <1>2, <1>3 DEF DriverInv, AtPage
<1>8. ASSUME ~timed_out'
      PROVE  VoltageKnown' /\ FailureKnown' /\ BufferKnown'
  <2>1. ASSUME NEW d \in {0, 1}
        PROVE  voltage'[d] = 0
    <3>1. voltage[d] # 0 => d = csel /\ chip.mlc /\ call.n # 0
      BY <1>4, <1>8 DEF DriverInv, VoltageKnown
    <3>2. voltage[d] # 0 => MustRestore /\ d = csel
      BY <3>1 DEF MustRestore
    <3> QED BY <3>2, <1>4, <1>8
  <2>2. FailureKnown' /\ BufferKnown'
    BY <1>1, <1>2, <1>4, <1>8 DEF DriverInv, FailureKnown, BufferKnown
  <2> QED BY <2>1, <2>2 DEF VoltageKnown
<1>9. RandomizerKnown'
  BY <1>1 DEF DriverInv, RandomizerKnown
<1> QED BY <1>6, <1>7, <1>8, <1>9 DEF DriverInv

LEMMA FinishStep == ASSUME DriverInv, Finish PROVE DriverInv'
<1> DEFINE b == call.n # 0 /\ chip.mlc
<1>1. /\ pc = "end" /\ pc' = "idle" /\ call' = NoCall /\ failed' = FALSE
      /\ UNCHANGED <<asked, chip, cell, csel, randomizer, bBCHRetry>>
      /\ DriverTypes
  BY DEF Finish, ctl, DriverInv
<1>2. call' \in Calls
  BY <1>1, ChipGeometry DEF Calls, NoCall, AllPages
<1>3. /\ voltage' \in [{0, 1} -> 0 .. RetryCnt] /\ timed_out' \in BOOLEAN
      /\ ~timed_out' => /\ ~timed_out
                        /\ \A d \in {0, 1} : voltage'[d] # 0 => voltage[d] # 0 /\ ~(b /\ d = csel)
  <2>1. b \in BOOLEAN
    OBVIOUS
  <2>2. IF b THEN SetVoltages(DefaultFeature) ELSE KeepVoltages
    BY DEF Finish
  <2> HIDE DEF b
  <2> QED BY <2>1, <2>2, <1>1, VoltagesReset
<1>4. TypeOK'
  BY <1>1, <1>2, <1>3 DEF DriverTypes, TypeOK, Calls
<1>5. DriverTypes'
  BY <1>1, <1>2, <1>3, <1>4 DEF DriverTypes
<1>6. ~timed_out' => VoltageKnown'
  BY <1>1, <1>3 DEF DriverInv, VoltageKnown
<1>7. RandomizerKnown'
  BY <1>1 DEF DriverInv, RandomizerKnown
<1> QED BY <1>1, <1>5, <1>6, <1>7 DEF DriverInv, AtPage, FailureKnown, BufferKnown

\* Between two reads a page operation changes cells, and the die selected.
LEMMA IdleStep ==
  ASSUME DriverInv, Idle, UNCHANGED <<chip, voltage, pc, call, failed>>,
         cell' \in [{0, 1} -> [AllPages -> Contents]],
         csel' \in {0, 1}, chip.dies = 1 => csel' = 0,
         randomizer' = "off", timed_out' \in BOOLEAN, bBCHRetry' \in BOOLEAN
  PROVE  DriverInv'
<1>1. TypeOK'
  BY DEF DriverInv, DriverTypes, TypeOK, Contents
<1>2. DriverTypes'
  BY <1>1 DEF DriverInv, DriverTypes
<1>3. pc' = "idle" /\ ~timed_out
  BY DEF Idle
<1>4. \A d \in {0, 1} : voltage'[d] = 0
  BY <1>3 DEF DriverInv, VoltageKnown, Idle
<1>5. RandomizerKnown'
  BY DEF RandomizerKnown
<1> QED BY <1>2, <1>3, <1>4, <1>5 DEF DriverInv, AtPage, VoltageKnown, FailureKnown, BufferKnown

LEMMA TransformTypes ==
  ASSUME DriverTypes, NEW p, Transform(p)
  PROVE  bBCHRetry' \in BOOLEAN
<1>1. PICK h \in BOOLEAN : bBCHRetry' = (bBCHRetry /\ h)
  BY DEF Transform
<1> QED BY <1>1 DEF DriverTypes

LEMMA WriteStep ==
  ASSUME DriverInv, NEW p \in AllPages, NEW d \in Data, Write(p, d)
  PROVE  DriverInv'
<1> DEFINE at == Select(p)
<1>1. DriverTypes /\ cell \in [{0, 1} -> [AllPages -> Contents]]
  BY DEF DriverInv, DriverTypes, TypeOK, Contents
<1>2. at.cs \in {0, 1} /\ at.row \in AllPages /\ (chip.dies = 1 => at.cs = 0)
  BY <1>1, Address
<1>3. Programmed(cell[at.cs][at.row], d) \in Contents /\ Spoiled \in Contents
  BY DEF Programmed, Contents
<1>4. \E c \in Contents : cell' = [cell EXCEPT ![at.cs][at.row] = c] \/ cell' = cell
  BY <1>3 DEF Write
<1> HIDE DEF at
<1>5. cell' \in [{0, 1} -> [AllPages -> Contents]]
  BY <1>1, <1>2, <1>4
<1>6. bBCHRetry' \in BOOLEAN
  BY <1>1, TransformTypes DEF Write
<1>7. /\ Idle /\ UNCHANGED <<chip, voltage, pc, call, failed>> /\ csel' = at.cs
      /\ randomizer' = "off" /\ timed_out' \in BOOLEAN
  BY <1>1 DEF Write, DriverTypes, at
<1> QED BY <1>2, <1>5, <1>6, <1>7, IdleStep

LEMMA EraseStep ==
  ASSUME DriverInv, NEW p \in AllPages, Erase(p)
  PROVE  DriverInv'
<1> DEFINE at == Select(p)
<1>1. DriverTypes /\ cell \in [{0, 1} -> [AllPages -> Contents]]
  BY DEF DriverInv, DriverTypes, TypeOK, Contents
<1>2. at.cs \in {0, 1} /\ at.row \in AllPages /\ (chip.dies = 1 => at.cs = 0)
  BY <1>1, Address
<1>3. ASSUME NEW c \in Contents
      PROVE  BlockCells(at, c) \in [{0, 1} -> [AllPages -> Contents]]
  <2> HIDE DEF at
  <2> QED BY <1>1, <1>2, <1>3 DEF BlockCells
<1>4. cell' \in [{0, 1} -> [AllPages -> Contents]]
  <2>1. \E c \in {Blank, Spoiled} : cell' = BlockCells(at, c) \/ cell' = cell
    BY DEF Erase
  <2> QED BY <2>1, <1>1, <1>3 DEF Contents
<1>5. bBCHRetry' \in BOOLEAN
  BY <1>1, TransformTypes DEF Erase
<1>6. /\ Idle /\ UNCHANGED <<chip, voltage, pc, call, failed>> /\ csel' = at.cs
      /\ randomizer' = "off" /\ timed_out' \in BOOLEAN
  BY <1>1 DEF Erase, DriverTypes
<1> HIDE DEF at
<1> QED BY <1>2, <1>4, <1>5, <1>6, IdleStep

\* The row a mark goes to is one of the die.
LEMMA MarkRow ==
  ASSUME DriverTypes, NEW p \in AllPages
  PROVE  /\ FirstPage(p) \in AllPages /\ FirstPage(p) % DiePages \in AllPages
         /\ FirstPage(p) % DiePages \in 0 .. DiePages - 1
         /\ chip.dies = 1 => FirstPage(p) % DiePages = FirstPage(p)
<1>1. DiePages \in Nat \ {0} /\ NumPages = chip.dies * DiePages /\ chip.dies \in {1, 2}
  BY Address DEF DriverTypes
<1>2. /\ p \in Nat /\ p < NumPages /\ p % PagesPerBlock \in 0 .. PagesPerBlock - 1
      /\ p = PagesPerBlock * (p \div PagesPerBlock) + (p % PagesPerBlock)
      /\ p \div PagesPerBlock \in Nat
  <2>1. p \in Nat /\ p < NumPages
    BY ChipGeometry DEF AllPages
  <2> QED BY <2>1, ChipGeometry, DivMod
<1>3. FirstPage(p) = PagesPerBlock * (p \div PagesPerBlock)
  BY <1>2, ChipGeometry, SMT DEF FirstPage
<1>4. FirstPage(p) \in 0 .. p
  <2>1. PagesPerBlock * (p \div PagesPerBlock) >= 0
    BY <1>2, ChipGeometry, SMT
  <2> QED BY <2>1, <1>2, <1>3, ChipGeometry, SMT
<1>5. FirstPage(p) \in Nat /\ FirstPage(p) < NumPages
  BY <1>2, <1>4, ChipGeometry
<1>6. FirstPage(p) % DiePages \in 0 .. DiePages - 1
      /\ FirstPage(p) = DiePages * (FirstPage(p) \div DiePages) + (FirstPage(p) % DiePages)
      /\ FirstPage(p) \div DiePages \in Nat
  BY <1>1, <1>5, DivMod
<1>7. DiePages <= NumPages
  BY <1>1, SMT
<1> DEFINE f == FirstPage(p)
           D == DiePages
           k == f \div D
<1>8. ASSUME chip.dies = 1
      PROVE  f % D = f
  <2>1. D = NumPages /\ f < D
    BY <1>1, <1>5, <1>8, ChipGeometry, SMT
  <2>2. /\ f \in Nat /\ D \in Nat \ {0} /\ f % D \in 0 .. D - 1 /\ k \in Nat
        /\ f = D * k + (f % D)
    BY <1>1, <1>5, <1>6
  <2> HIDE DEF f, D, k
  <2>3. -D < D * k /\ D * k < D
    BY <2>1, <2>2, SMT
  <2>4. k = 0
    BY <2>2, <2>3, NoMultiple
  <2> QED BY <2>2, <2>4, SMT
<1>9. FirstPage(p) % DiePages \in AllPages
  <2>1. NumPages \in Nat
    BY ChipGeometry
  <2> QED BY <2>1, <1>1, <1>6, <1>7 DEF AllPages
<1> QED BY <1>5, <1>6, <1>8, <1>9, ChipGeometry DEF AllPages

LEMMA MarkStep ==
  ASSUME DriverInv, NEW p \in AllPages, MarkBad(p)
  PROVE  DriverInv'
<1> DEFINE r == FirstPage(p) % DiePages
<1>1. /\ DriverTypes /\ cell \in [{0, 1} -> [AllPages -> Contents]]
      /\ csel \in {0, 1} /\ (chip.dies = 1 => csel = 0) /\ bBCHRetry \in BOOLEAN
  BY DEF DriverInv, DriverTypes, TypeOK, Contents
<1>2. r \in AllPages
  BY <1>1, MarkRow
<1>3. \E c \in {Marked, Spoiled} : cell' = [cell EXCEPT ![csel][r] = c] \/ cell' = cell
  BY DEF MarkBad
<1> HIDE DEF r
<1>4. cell' \in [{0, 1} -> [AllPages -> Contents]]
  BY <1>1, <1>2, <1>3 DEF Contents
<1>5. /\ Idle /\ UNCHANGED <<chip, voltage, pc, call, failed, csel, bBCHRetry>>
      /\ randomizer' = "off" /\ timed_out' \in BOOLEAN
  BY <1>1 DEF MarkBad, DriverTypes
<1> QED BY <1>1, <1>4, <1>5, IdleStep

LEMMA DriverStep == DriverInv /\ [Next]_vars => DriverInv'
<1> SUFFICES ASSUME DriverInv, [Next]_vars
             PROVE  DriverInv'
  OBVIOUS
<1>1. CASE Reading
  BY <1>1, ArmStep, CheckStep, AgainStep, SettleStep, FinishStep DEF Reading
<1>2. CASE \E p \in AllPages, unit \in {"page", "sector"} : Read(p, unit)
  BY <1>2, ReadStep
<1>3. CASE \E p \in AllPages, d \in Data : Write(p, d)
  BY <1>3, WriteStep
<1>4. CASE \E p \in AllPages : Erase(p) \/ MarkBad(p)
  BY <1>4, EraseStep, MarkStep
<1>5. CASE UNCHANGED vars
  <2>1. UNCHANGED <<chip, cell, voltage, csel, randomizer, bBCHRetry, pc, call, failed, asked, timed_out>>
        /\ DiePages' = DiePages
    BY <1>5 DEF vars, ctl, DiePages
  <2>2. DriverTypes'
    BY <2>1 DEF DriverInv, DriverTypes, TypeOK
  <2> QED BY <2>1, <2>2 DEF DriverInv, AtPage, RandomizerKnown, VoltageKnown, FailureKnown, BufferKnown
<1> QED BY <1>1, <1>2, <1>3, <1>4, <1>5 DEF Next

\* Every variable of the driver keeps its type, for a chip of any size, any
\* number of retries and any family (mtk_nand.c).
THEOREM TypeCorrect == Spec => []TypeOK
<1>1. DriverInv => TypeOK
  BY DEF DriverInv, DriverTypes
<1> QED BY <1>1, DriverBegins, DriverStep, PTL DEF Spec

\* Between two operations no die is left at voltages other than those to
\* program for, unless a wait ran out, and the randomizer is off unless
\* retries were given up (mtk_nand.c:3916, 3940, 3999-4035).
THEOREM ReadsRestoreSettings == Spec => []SettingsRestored
<1>1. DriverInv => SettingsRestored
  BY DEF DriverInv, VoltageKnown, RandomizerKnown, SettingsRestored
<1> QED BY <1>1, DriverBegins, DriverStep, PTL DEF Spec

\* At the end of a read ecc_stats.failed has grown exactly if the read
\* failed, whatever number of retries it took (mtk_nand.c:3975-3998).
THEOREM StatisticsAreRight == Spec => []StatisticsTellFailure
<1>1. DriverInv => StatisticsTellFailure
  BY DEF DriverInv, FailureKnown, StatisticsTellFailure
<1> QED BY <1>1, DriverBegins, DriverStep, PTL DEF Spec
-----------------------------------------------------------------------------
(* The driver is the page device of module PageDevice: a page of the       *)
(* device is the cell at its die and row.                                  *)

Pages == [p \in AllPages |-> cell[p \div DiePages][p % DiePages]]

LEMMA PageCells ==
  ASSUME DriverTypes
  PROVE  Pages \in [AllPages -> Contents]
<1> SUFFICES ASSUME NEW p \in AllPages
             PROVE  cell[p \div DiePages][p % DiePages] \in Contents
  BY DEF Pages
<1>1. p \div DiePages \in {0, 1} /\ p % DiePages \in AllPages
  BY Address
<1> QED BY <1>1 DEF DriverTypes, TypeOK, Contents

\* What is written to the cell of a page is written to that page only.
LEMMA CellIsPage ==
  ASSUME DriverTypes, chip' = chip, NEW q \in AllPages, NEW v,
         cell' = [cell EXCEPT ![q \div DiePages][q % DiePages] = v]
  PROVE  Pages' = [Pages EXCEPT ![q] = v]
<1> DEFINE D == DiePages
<1>1. D' = D
  BY DEF DiePages
<1>2. ASSUME NEW p \in AllPages
      PROVE  cell'[p \div D][p % D] = IF p = q THEN v ELSE cell[p \div D][p % D]
  <2>1. p \div D \in {0, 1} /\ p % D \in AllPages /\ q \div D \in {0, 1} /\ q % D \in AllPages
    BY Address
  <2>2. p \div D = q \div D /\ p % D = q % D => p = q
    BY OnePage
  <2>3. cell \in [{0, 1} -> [AllPages -> Contents]]
    BY DEF DriverTypes, TypeOK, Contents
  <2> HIDE DEF D
  <2>4. cell' = [cell EXCEPT ![q \div D][q % D] = v]
    BY DEF D
  <2> QED BY <2>1, <2>2, <2>3, <2>4
<1> QED BY <1>1, <1>2 DEF Pages

LEMMA BeginsAsDevice == Init => PD!DevInit
<1> SUFFICES ASSUME Init
             PROVE  PD!DevInit
  OBVIOUS
<1>1. DriverTypes
  BY DriverBegins DEF DriverInv
<1>2. Pages = [p \in AllPages |-> Blank]
  <2> SUFFICES ASSUME NEW p \in AllPages
               PROVE  cell[p \div DiePages][p % DiePages] = Blank
    BY DEF Pages
  <2>1. p \div DiePages \in {0, 1} /\ p % DiePages \in AllPages
    BY <1>1, Address
  <2> QED BY <2>1 DEF Init
<1>3. (chip.dies = 2) \in BOOLEAN /\ ~timed_out = TRUE
  BY DEF Init
<1>4. asked = [op |-> "none", page |-> 0, data |-> Blank] /\ reply = "none"
  BY DEF Init
<1> QED BY <1>2, <1>3, <1>4 DEF PD!DevInit, PD!PageNos, Pages, AllPages

DevStays == UNCHANGED <<cell, chip, asked, reply>> /\ ~timed_out /\ ~timed_out'

LEMMA Stutters ==
  ASSUME DevStays
  PROVE  UNCHANGED PD!devVars
<1>1. DiePages' = DiePages
  BY DEF DevStays, DiePages
<1> QED BY <1>1 DEF DevStays, PD!devVars

LEMMA FinishRefines ==
  ASSUME DriverInv, Finish, ~timed_out, ~timed_out'
  PROVE  PD!DevRead
<1>1. /\ pc = "end" /\ UNCHANGED <<asked, chip, cell>> /\ DriverTypes
      /\ DiePages' = DiePages /\ call.page \in AllPages
  BY DEF Finish, DriverInv, DriverTypes, Calls, DiePages
<1>2. /\ asked = [op |-> "read", page |-> call.page, data |-> Blank]
      /\ Pages[call.page] = cell[csel][call.row]
  BY <1>1 DEF DriverInv, AtPage, Pages
<1>3. Pages[call.page] \in Data \cup {Blank} \/ Pages[call.page] \in {Spoiled, Marked}
  BY <1>1, PageCells DEF Contents
<1>4. /\ failed => reply' = "error"
      /\ ~failed => call.ret = "SUCCESS" /\ reply' = call.buf
  BY <1>1 DEF Finish, DriverInv, FailureKnown
<1>5. ~failed /\ Pages[call.page] \in Data \cup {Blank} => call.buf = Pages[call.page]
  BY <1>1, <1>2 DEF DriverInv, BufferKnown
<1>6. \/ reply' = "error"
      \/ Pages[call.page] \in Data \cup {Blank} /\ reply' = Pages[call.page]
      \/ Pages[call.page] \in {Spoiled, Marked}
  BY <1>3, <1>4, <1>5
<1>7. Pages' = Pages
  BY <1>1 DEF Pages
<1> QED BY <1>1, <1>2, <1>6, <1>7 DEF PD!DevRead, Pages

LEMMA WriteRefines ==
  ASSUME DriverInv, NEW p \in AllPages, NEW d \in Data, Write(p, d), ~timed_out, ~timed_out'
  PROVE  PD!DevProgram(p, d)
<1> DEFINE at == Select(p)
<1>1. DriverTypes /\ chip' = chip
  BY DEF DriverInv, Write
<1>2. at.cs = p \div DiePages /\ at.row = p % DiePages
  BY <1>1, Address
<1>3. Pages[p] = cell[at.cs][at.row]
  BY <1>2 DEF Pages
<1>4. \/ cell' = [cell EXCEPT ![at.cs][at.row] = Programmed(cell[at.cs][at.row], d)] /\ reply' = "done"
      \/ cell' = [cell EXCEPT ![at.cs][at.row] = Spoiled] /\ reply' = "fail"
  BY DEF Write
<1> HIDE DEF at
<1>5. ASSUME NEW v, cell' = [cell EXCEPT ![at.cs][at.row] = v]
      PROVE  Pages' = [Pages EXCEPT ![p] = v]
  BY <1>1, <1>2, <1>5, CellIsPage
<1>6. \/ Pages[p] = Blank /\ Pages' = [Pages EXCEPT ![p] = d] /\ reply' = "done"
      \/ Pages[p] # Blank /\ Pages' = [Pages EXCEPT ![p] = Spoiled] /\ reply' = "done"
      \/ Pages' = [Pages EXCEPT ![p] = Spoiled] /\ reply' = "fail"
  BY <1>3, <1>4, <1>5 DEF Programmed
<1>7. asked' = [op |-> "program", page |-> p, data |-> d]
  BY DEF Write, Request
<1> QED BY <1>1, <1>6, <1>7 DEF PD!DevProgram, PD!Request, Pages

LEMMA MarkRefines ==
  ASSUME DriverInv, NEW p \in AllPages, MarkBad(p), ~timed_out, ~timed_out'
  PROVE  PD!DevMark(p)
<1> DEFINE r == FirstPage(p) % DiePages
           q == csel * DiePages + r
<1>1. /\ DriverTypes /\ chip' = chip /\ chip.dies \in {1, 2}
      /\ csel \in {0, 1} /\ (chip.dies = 1 => csel = 0)
  BY DEF DriverInv, DriverTypes, TypeOK, MarkBad
<1>2. /\ DiePages \in Nat \ {0} /\ NumPages = chip.dies * DiePages
      /\ r \in 0 .. DiePages - 1 /\ (chip.dies = 1 => r = FirstPage(p))
  BY <1>1, Address, MarkRow
<1>3. FirstPage(p) \in AllPages
  BY <1>1, MarkRow
<1>4. q \in AllPages /\ (chip.dies = 1 => q = FirstPage(p)) /\ q \in Nat
  <2> HIDE DEF r
  <2>1. CASE csel = 0
    <3>1. q = r
      BY <2>1, <1>2
    <3> QED BY <3>1, <1>1, <1>2, SMT DEF AllPages
  <2>2. CASE csel = 1
    <3>1. q = DiePages + r
      BY <2>2, <1>2
    <3>2. chip.dies = 2
      BY <2>2, <1>1
    <3> QED BY <3>1, <3>2, <1>2, SMT DEF AllPages
  <2> QED BY <2>1, <2>2, <1>1
<1>5. q \div DiePages = csel /\ q % DiePages = r
  <2> DEFINE D == DiePages
             k == q \div D
  <2>1. D * k + (q % D) = csel * D + r /\ q % D \in 0 .. D - 1 /\ k \in Nat
    BY <1>2, <1>4, DivMod
  <2> HIDE DEF r, D, k
  <2>2. D * (k - csel) = r - (q % D)
    <3>1. D \in Int /\ k \in Int /\ csel \in Int
      BY <2>1, <1>1, <1>2 DEF D
    <3>2. D * (k - csel) = D * k - csel * D
      BY <3>1, Distributes
    <3> HIDE DEF q
    <3>3. D * k \in Int /\ csel * D \in Int /\ r \in Int /\ q % D \in Int
      BY <2>1, <3>1, <1>2
    <3> QED BY <2>1, <3>2, <3>3
  <2>3. k - csel = 0
    <3> DEFINE m == k - csel
    <3>1. m \in Int /\ -D < D * m /\ D * m < D /\ D \in Nat \ {0}
      BY <2>1, <2>2, <1>1, <1>2 DEF D
    <3> HIDE DEF m
    <3>2. m = 0
      BY <3>1, NoMultiple
    <3> QED BY <3>2 DEF m
  <2>4. k = csel
    BY <2>1, <2>3, <1>1
  <2>5. q % D = r
    BY <2>1, <2>2, <2>3, <1>1, <1>2 DEF D
  <2> QED BY <2>4, <2>5 DEF D, k
<1>6. \/ cell' = [cell EXCEPT ![csel][r] = Marked] /\ reply' = "done"
      \/ cell' = [cell EXCEPT ![csel][r] = Spoiled] /\ reply' = "fail"
  BY DEF MarkBad
<1>7. \/ Pages' = [Pages EXCEPT ![q] = Marked] /\ reply' = "done"
      \/ Pages' = [Pages EXCEPT ![q] = Spoiled] /\ reply' = "fail"
  <2> HIDE DEF q, r
  <2> QED BY <1>1, <1>4, <1>5, <1>6, CellIsPage
<1>8. q \in IF chip.dies = 2 THEN PD!PageNos ELSE {PD!FirstPage(p)}
  <2> HIDE DEF q, r
  <2> QED BY <1>1, <1>4 DEF AllPages, PD!PageNos, PD!FirstPage, FirstPage
<1>9. asked' = [op |-> "mark", page |-> p, data |-> Blank]
  BY DEF MarkBad, Request
<1> HIDE DEF q, r
<1> QED BY <1>1, <1>7, <1>8, <1>9 DEF PD!DevMark, PD!Request, Pages

LEMMA FirstPageBefore ==
  ASSUME NEW x \in Nat
  PROVE  FirstPage(x) \in 0 .. x
<1> DEFINE B == PagesPerBlock
<1>1. B \in Nat \ {0} /\ x \div B \in Nat /\ x % B \in 0 .. B - 1 /\ x = B * (x \div B) + (x % B)
  BY ChipGeometry, DivMod
<1>2. B * (x \div B) >= 0
  BY <1>1, SMT
<1> QED BY <1>1, <1>2, SMT DEF FirstPage

\* Each die begins with a block.
LEMMA BlocksInDie ==
  ASSUME DriverTypes, NEW p \in AllPages
  PROVE  /\ FirstPage(p) = DiePages * (p \div DiePages) + FirstPage(p % DiePages)
         /\ FirstPage(p % DiePages) \in 0 .. DiePages - 1
<1> DEFINE D == DiePages
           B == PagesPerBlock
           r == p % D
<1>1. /\ D \in Nat \ {0} /\ NumPages = chip.dies * D /\ chip.dies \in {1, 2}
      /\ p \div D \in {0, 1} /\ (chip.dies = 1 => p \div D = 0)
  BY Address DEF DriverTypes
<1>2. p \in Nat /\ B \in Nat \ {0}
  BY ChipGeometry DEF AllPages
<1>3. p = D * (p \div D) + r /\ r \in 0 .. D - 1
  BY <1>1, <1>2, DivMod
<1>4. FirstPage(r) \in 0 .. r
  BY <1>1, <1>3, FirstPageBefore
<1>5. CASE p \div D = 0
  <2>1. D * (p \div D) = 0
    BY <1>1, <1>5
  <2>2. r = p
    BY <2>1, <1>1, <1>2, <1>3
  <2> HIDE DEF D, r, B
  <2>3. FirstPage(p) = FirstPage(r) /\ FirstPage(r) \in Nat /\ FirstPage(r) <= D - 1
    BY <2>2, <1>1, <1>3, <1>4
  <2>4. FirstPage(p) = D * (p \div D) + FirstPage(r)
    BY <2>1, <2>3
  <2> QED BY <2>3, <2>4, <1>1 DEF D, r
<1>6. CASE p \div D = 1
  <2>1. p = r + D
    BY <1>1, <1>2, <1>3, <1>6
  <2>2. D = NumPages \div 2
    BY <1>1, <1>6, ChipGeometry, SMT
  <2>3. D % B = 0
    BY <2>2, ChipGeometry
  <2>4. p % B = r % B
    <3>1. r \in Nat /\ D \in Nat
      BY <1>1, <1>3
    <3> HIDE DEF r, D, B
    <3>2. (r + D) % B = r % B
      BY <3>1, <2>3, <1>2, ModShift
    <3> QED BY <3>2, <2>1
  <2>5. FirstPage(p) = D + FirstPage(r)
    <3>1. r % B \in Int
      BY <1>2, <1>3
    <3> HIDE DEF D, r, B
    <3> QED BY <2>1, <2>4, <3>1, <1>1, <1>3 DEF FirstPage, B
  <2>6. D * (p \div D) = D
    BY <1>1, <1>6
  <2> QED BY <2>5, <2>6, <1>1, <1>3, <1>4
<1> QED BY <1>1, <1>5, <1>6

LEMMA EraseIsBlock ==
  ASSUME DriverTypes, chip' = chip, NEW p \in AllPages, NEW c,
         cell' = BlockCells(Select(p), c)
  PROVE  Pages' = [q \in AllPages |-> IF q \in PD!BlockOf(p) THEN c ELSE Pages[q]]
<1> DEFINE D == DiePages
<1>1. D' = D
  BY DEF DiePages
<1>2. ASSUME NEW q \in AllPages
      PROVE  cell'[q \div D][q % D] = IF q \in PD!BlockOf(p) THEN c ELSE cell[q \div D][q % D]
  <2>1. /\ p \div D \in {0, 1} /\ p % D \in AllPages /\ q \div D \in {0, 1} /\ q % D \in AllPages
        /\ Select(p).cs = p \div D /\ Select(p).row = p % D
        /\ D \in Nat \ {0}
    BY Address
  <2>2. cell \in [{0, 1} -> [AllPages -> Contents]]
    BY DEF DriverTypes, TypeOK, Contents
  <2>3. p \in Nat /\ q \in Nat
    BY DEF AllPages
  <2>4. q \in PD!BlockOf(p) <=> FirstPage(q) = FirstPage(p)
    BY <2>3, SameBlock
  <2> DEFINE a == FirstPage(p % D)
             b == FirstPage(q % D)
  <2>5. FirstPage(p) = D * (p \div D) + a /\ a \in 0 .. D - 1
    BY BlocksInDie
  <2>6. FirstPage(q) = D * (q \div D) + b /\ b \in 0 .. D - 1
    BY BlocksInDie
  <2>7. ASSUME FirstPage(q) = FirstPage(p)
        PROVE  q \div D = p \div D /\ b = a
    <3> HIDE DEF a, b, D
    <3>1. D * (q \div D) + b = D * (p \div D) + a
      BY <2>5, <2>6, <2>7
    <3> QED BY <3>1, <2>1, <2>5, <2>6, SMT
  <2>8. q \in PD!BlockOf(p) <=> q \div D = p \div D /\ b = a
    BY <2>4, <2>5, <2>6, <2>7
  <2>9. cell' = [cell EXCEPT ![p \div D] = [r \in DOMAIN cell[p \div D] |->
                   IF FirstPage(r) = a THEN c ELSE cell[p \div D][r]]]
    BY <2>1 DEF BlockCells
  <2>10. DOMAIN cell[p \div D] = AllPages
    BY <2>1, <2>2
  <2> HIDE DEF D, a
  <2>11. cell'[p \div D] = [r \in AllPages |-> IF FirstPage(r) = a THEN c ELSE cell[p \div D][r]]
    BY <2>1, <2>2, <2>9, <2>10
  <2>12. q \div D # p \div D => cell'[q \div D] = cell[q \div D]
    BY <2>1, <2>2, <2>9
  <2> QED BY <2>1, <2>8, <2>11, <2>12
<1> QED BY <1>1, <1>2 DEF Pages

LEMMA EraseRefines ==
  ASSUME DriverInv, NEW p \in AllPages, Erase(p), ~timed_out, ~timed_out'
  PROVE  PD!DevErase(p)
<1>1. DriverTypes /\ chip' = chip
  BY DEF DriverInv, Erase
<1>2. \/ cell' = BlockCells(Select(p), Blank) /\ reply' = "done"
      \/ cell' = BlockCells(Select(p), Spoiled) /\ reply' = "fail"
  BY DEF Erase
<1> DEFINE Erased(c) == [q \in AllPages |-> IF q \in PD!BlockOf(p) THEN c ELSE Pages[q]]
<1>3. \/ Pages' = Erased(Blank) /\ reply' = "done"
      \/ Pages' = Erased(Spoiled) /\ reply' = "fail"
  BY <1>1, <1>2, EraseIsBlock
<1>4. asked' = [op |-> "erase", page |-> p, data |-> Blank]
  BY DEF Erase, Request
<1>5. \/ Pages' = PD!Filled(p, Blank) /\ reply' = "done"
      \/ Pages' = PD!Filled(p, Spoiled) /\ reply' = "fail"
  BY <1>3 DEF PD!Filled, PD!PageNos, AllPages, Pages
<1> QED BY <1>1, <1>4, <1>5 DEF PD!DevErase, PD!Request, Pages

LEMMA ReadRefines ==
  ASSUME NEW p \in AllPages, NEW unit, Read(p, unit), ~timed_out, ~timed_out'
  PROVE  PD!DevAsk(p)
<1>1. UNCHANGED <<chip, cell, reply>> /\ asked' = [op |-> "read", page |-> p, data |-> Blank]
  BY DEF Read, Request
<1>2. DiePages' = DiePages
  BY <1>1 DEF DiePages
<1> QED BY <1>1, <1>2 DEF PD!DevAsk, PD!Request

\* A step of the driver is a step of the device, or the device stands still.
LEMMA StepsAsDevice ==
  DriverInv /\ [Next]_vars => [PD!DevNext]_PD!devVars
<1> SUFFICES ASSUME DriverInv, [Next]_vars
             PROVE  PD!DevNext \/ UNCHANGED PD!devVars
  OBVIOUS
<1> USE DEF AllPages, PD!PageNos
<1>1. timed_out \in BOOLEAN /\ timed_out' \in BOOLEAN
  BY DriverStep DEF DriverInv, DriverTypes
<1>2. chip' = chip /\ (timed_out => timed_out')
  <2>1. CASE Arm
    BY <2>1 DEF Arm
  <2>5. CASE Check
    <3>1. PICK late \in BOOLEAN : timed_out' = (timed_out \/ late)
      BY <2>5, Zenon DEF Check
    <3> QED BY <3>1, <2>5 DEF Check
  <2>2. CASE Again \/ Settle \/ Finish
    BY <2>2 DEF Again, Settle, Finish, SetVoltages, KeepVoltages
  <2>3. CASE \/ \E p \in AllPages, unit \in {"page", "sector"} : Read(p, unit)
             \/ \E p \in AllPages, d \in Data : Write(p, d)
             \/ \E p \in AllPages : Erase(p) \/ MarkBad(p)
    BY <2>3 DEF Read, Write, Erase, MarkBad, Idle
  <2>4. CASE UNCHANGED vars
    BY <2>4 DEF vars
  <2> QED BY <2>1, <2>2, <2>3, <2>4, <2>5 DEF Next, Reading
<1>3. CASE timed_out'
  BY <1>2, <1>3 DEF PD!DevNext
<1>4. CASE ~timed_out'
  <2>1. ~timed_out
    BY <1>2, <1>4
  <2>2. ASSUME Arm \/ Check \/ Again \/ Settle
        PROVE  UNCHANGED PD!devVars
    <3>1. UNCHANGED <<cell, chip, asked, reply>>
      BY <2>2 DEF Arm, Check, Again, Settle
    <3> QED BY <3>1, <2>1, <1>4, Stutters DEF DevStays
  <2>3. CASE Reading
    BY <2>1, <2>2, <2>3, <1>4, FinishRefines DEF Reading, PD!DevNext
  <2>4. CASE \E p \in AllPages, unit \in {"page", "sector"} : Read(p, unit)
    BY <2>1, <2>4, <1>4, ReadRefines DEF PD!DevNext
  <2>5. CASE \E p \in AllPages, d \in Data : Write(p, d)
    BY <2>1, <2>5, <1>4, WriteRefines DEF PD!DevNext
  <2>6. CASE \E p \in AllPages : Erase(p) \/ MarkBad(p)
    BY <2>1, <2>6, <1>4, EraseRefines, MarkRefines DEF PD!DevNext
  <2>7. CASE UNCHANGED vars
    BY <2>1, <2>7, <1>4, Stutters DEF DevStays, vars
  <2> QED BY <2>3, <2>4, <2>5, <2>6, <2>7 DEF Next
<1> QED BY <1>1, <1>3, <1>4

\* The driver implements the device the bad-block table is written for: what
\* is read back is what was programmed or an error is reported, through
\* retries, two dies and unreadable pages (mtk_nand.c:3906-4035).
THEOREM DriverIsPageDevice == Spec => PageSpec
BY BeginsAsDevice, StepsAsDevice, DriverBegins, DriverStep, PTL DEF Spec, PageSpec, PD!DevSpec
=============================================================================
