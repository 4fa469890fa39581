------------------------------ MODULE BmtProofs ------------------------------
(***************************************************************************)
(* Theorems about module Bmt, for every value of its constants.            *)
(***************************************************************************)
EXTENDS BmtProperties, WellFoundedInduction, FiniteSetTheorems, TLAPS

\* Less-than on the naturals is well-founded (as a set of pairs).
Less == {q \in Nat \X Nat : q[1] < q[2]}

\* There is no infinite descent in the naturals.
LEMMA LessWellFounded == IsWellFoundedOn(Less, Nat)
BY NatLessThanWellFounded DEF Less, OpToRel

\* A set of naturals that is not empty has a least element, and Min is one.
LEMMA MinIn ==
  ASSUME NEW S \in SUBSET Nat, S # {}
  PROVE  Min(S) \in S
<1>1. PICK x \in S : \A y \in S : <<y, x>> \notin Less
  BY LessWellFounded, WFMin
<1>2. \A y \in S : x <= y
  <2> SUFFICES ASSUME NEW y \in S PROVE x <= y
    OBVIOUS
  <2>1. <<y, x>> \in Nat \X Nat
    OBVIOUS
  <2> QED BY <1>1, <2>1 DEF Less
<1> QED BY <1>2 DEF Min

\* So has a bounded one a greatest element, and Max is one.
LEMMA MaxIn ==
  ASSUME NEW S \in SUBSET Nat, S # {}, NEW n \in Nat, \A x \in S : x <= n
  PROVE  Max(S) \in S
<1> DEFINE T == {n - x : x \in S}
<1>1. T \in SUBSET Nat /\ T # {}
  <2>1. \A x \in S : n - x \in Nat
    OBVIOUS
  <2>2. PICK x \in S : TRUE
    OBVIOUS
  <2>3. n - x \in T
    BY <2>2
  <2> QED BY <2>1, <2>3
<1>2. PICK m \in T : \A y \in T : m <= y
  <2> HIDE DEF T
  <2>2. PICK x \in T : \A y \in T : <<y, x>> \notin Less
    BY <1>1, LessWellFounded, WFMin
  <2>3. \A y \in T : x <= y
    <3> SUFFICES ASSUME NEW y \in T PROVE x <= y
      OBVIOUS
    <3>1. <<y, x>> \in Nat \X Nat
      BY <1>1
    <3> QED BY <1>1, <2>2, <3>1 DEF Less
  <2> QED BY <2>3
<1>3. \A y \in S : n - m >= y /\ n - m \in S
  BY <1>2
<1> QED BY <1>3 DEF Max
-----------------------------------------------------------------------------
(* The types of the flash.                                                 *)

FlashType == [Blocks -> [Pages -> Page]]
TableType == [Slots -> Entry]

\* The geometry in the form the provers use it.
LEMMA GeometryFacts ==
  /\ 0 \in System /\ 0 \in Pages
  /\ System \subseteq Nat /\ Pool \subseteq Nat /\ Pages \subseteq Nat
  /\ \A b \in Pool : b <= SystemBlockCount + BmtBlockCount
  /\ \A b \in System : b < SystemBlockCount
  /\ \A b \in Pool : b >= SystemBlockCount
  /\ \A n \in Nat : n < BmtBlockCount => SystemBlockCount + n \in Pool
  /\ \A i \in System \cup {FakeIndex, NoIndex} : i < SystemBlockCount => i \in System
  /\ \A b \in Blocks : b < SystemBlockCount => b \in System
<1>0. FakeIndex \in Nat /\ NoIndex \in Nat /\ FakeIndex < NoIndex
  BY DEF FakeIndex, NoIndex
<1>1. /\ SystemBlockCount \in Nat \ {0} /\ SystemBlockCount <= FakeIndex
      /\ BmtBlockCount \in Nat \ {0} /\ PagePerBlock \in Nat \ {0}
  BY <1>0, Geometry
<1>2. /\ 0 \in System /\ 0 \in Pages
      /\ System \subseteq Nat /\ Pool \subseteq Nat /\ Pages \subseteq Nat
  BY <1>1 DEF System, Pool, Pages
<1>3. /\ \A b \in Pool : b <= SystemBlockCount + BmtBlockCount
      /\ \A b \in System : b < SystemBlockCount
      /\ \A b \in Pool : b >= SystemBlockCount
      /\ \A n \in Nat : n < BmtBlockCount => SystemBlockCount + n \in Pool
  BY <1>1 DEF System, Pool
<1>4. \A i \in System \cup {FakeIndex, NoIndex} : i < SystemBlockCount => i \in System
  BY <1>0, <1>1
<1>5. \A b \in Blocks : b < SystemBlockCount => b \in System
  BY <1>1 DEF System, Pool, Blocks
<1> QED BY <1>2, <1>3, <1>4, <1>5

\* An empty table is a table.
LEMMA EmptyType == Empty \in TableType
BY GeometryFacts DEF Empty, TableType, Entry

\* The pages the code writes are pages.
LEMMA PageTypes ==
  /\ Blank \in Page /\ Junk \in Page
  /\ \A i \in System \cup {FakeIndex, NoIndex} : \A d \in Data \cup {FF} :
       DataPage(i, d) \in Page
  /\ \A n \in Nat : \A t \in TableType : TablePage(n, t) \in Page
<1>1. NoBmt \in [count : Nat, table : TableType]
  BY EmptyType DEF NoBmt
<1>2. Blank \in Page /\ Junk \in Page
  BY <1>1 DEF Blank, Junk, Page, TableType
<1>3. \A i \in System \cup {FakeIndex, NoIndex} : \A d \in Data \cup {FF} :
        DataPage(i, d) \in Page
  BY <1>1 DEF DataPage, Page, TableType
<1>4. \A n \in Nat : \A t \in TableType : TablePage(n, t) \in Page
  BY DEF TablePage, Blank, Page, TableType
<1> QED BY <1>2, <1>3, <1>4

\* Commands turn flash into flash.
LEMMA CommandTypes ==
  ASSUME NEW f \in FlashType, NEW b, NEW p, NEW v \in Page
  PROVE  /\ Programmed(f, b, p, v) \in FlashType
         /\ Spoiled(f, b, p) \in FlashType
         /\ Erased(f, b) \in FlashType
         /\ SpoiledBlock(f, b) \in FlashType
<1>1. Blank \in Page /\ Junk \in Page
  BY PageTypes
<1>2. Programmed(f, b, p, v) \in FlashType
  BY <1>1 DEF Programmed, FlashType
<1>3. Spoiled(f, b, p) \in FlashType
  BY <1>1 DEF Spoiled, FlashType
<1>4. Erased(f, b) \in FlashType
  BY <1>1 DEF Erased, FlashType
<1>5. SpoiledBlock(f, b) \in FlashType
  BY <1>1 DEF SpoiledBlock, FlashType
<1> QED BY <1>2, <1>3, <1>4, <1>5

\* A table stays one when an entry, or the block an entry maps to, is replaced.
LEMMA EntryTypes ==
  ASSUME NEW t \in TableType, NEW i, NEW b \in System, NEW m \in {0} \cup Pool
  PROVE  /\ [t EXCEPT ![i] = [bad_index |-> b, mapped_index |-> m]] \in TableType
         /\ [t EXCEPT ![i].mapped_index = m] \in TableType
BY DEF TableType, Entry

\* A page that is not a table, or holds a sound one, keeps the flash sound.
SoundPage(b, v) ==
  v.kind = "bmt" => /\ ~IsPageUsed(v)
                    /\ Distinct(v.bmt.count, v.bmt.table)
                    /\ MappedTo(v.bmt.count, v.bmt.table) \subseteq Pool \ {b}

SoundFlash(f) == \A b \in Blocks : \A p \in Pages : SoundPage(b, f[b][p])

\* A command that writes a sound page leaves sound flash.
LEMMA CommandsSound ==
  ASSUME NEW f \in FlashType, SoundFlash(f), NEW b, NEW p, NEW v \in Page, SoundPage(b, v)
  PROVE  /\ SoundFlash(Programmed(f, b, p, v))
         /\ SoundFlash(Spoiled(f, b, p))
         /\ SoundFlash(Erased(f, b))
         /\ SoundFlash(SpoiledBlock(f, b))
<1>1. \A c : SoundPage(c, Blank) /\ SoundPage(c, Junk)
  BY DEF SoundPage, Blank, Junk
<1>2. SoundFlash(Programmed(f, b, p, v))
  BY <1>1 DEF SoundFlash, Programmed, FlashType
<1>3. SoundFlash(Spoiled(f, b, p))
  BY <1>1 DEF SoundFlash, Spoiled, FlashType
<1>4. SoundFlash(Erased(f, b))
  BY <1>1 DEF SoundFlash, Erased, FlashType
<1>5. SoundFlash(SpoiledBlock(f, b))
  BY <1>1 DEF SoundFlash, SpoiledBlock, FlashType
<1> QED BY <1>2, <1>3, <1>4, <1>5

\* A table that maps to different pool blocks has no more entries than the pool
\* has blocks, and one entry fewer for a pool block it does not map to.
LEMMA PigeonHole ==
  ASSUME NEW n \in Nat, NEW t, Distinct(n, t), NEW m,
         MappedTo(n, t) \subseteq Pool \ {m}
  PROVE  n <= BmtBlockCount /\ (m \in Pool => n < BmtBlockCount)
<1> DEFINE f == [i \in 0 .. n - 1 |-> t[i].mapped_index]
<1>1. IsFiniteSet(Pool) /\ Cardinality(Pool) = BmtBlockCount
  BY FS_Interval, Geometry DEF Pool
<1>2. IsFiniteSet(Pool \ {m}) /\ Cardinality(Pool \ {m}) =
        IF m \in Pool THEN BmtBlockCount - 1 ELSE BmtBlockCount
  BY <1>1, FS_RemoveElement
<1>3. f \in Injection(0 .. n - 1, Pool \ {m})
  BY DEF Distinct, MappedTo, Injection, IsInjective
<1>4. Cardinality(0 .. n - 1) <= Cardinality(Pool \ {m})
  <2> HIDE DEF f
  <2> QED BY <1>2, <1>3, FS_Injection
<1>5. Cardinality(0 .. n - 1) = n
  BY FS_Interval
<1> QED BY <1>2, <1>4, <1>5, Geometry

\* Block 0 is not in the pool, so that 0 can stand for "none".
LEMMA PoolNotZero == 0 \notin Pool
BY Geometry DEF Pool

\* mapped_count comes after its operand, or wraps to zero.
LEMMA CountStep ==
  ASSUME NEW n \in Nat
  PROVE  (n + 1) % CountModulus \in 0 .. n + 1
BY Bounds
-----------------------------------------------------------------------------
(* What the invariant says of the operators Bmt is built from.             *)

\* Distinct entries over the pool: there are no more of them than pool blocks.
LEMMA CountBound == IInv => mapped_count <= BmtBlockCount
<1> SUFFICES ASSUME IInv PROVE mapped_count <= BmtBlockCount
  OBVIOUS
<1>1. mapped_count \in Nat /\ Distinct(mapped_count, table) /\ Mapped \subseteq Pool \ {bmt_block_index}
  BY DEF IInv, TypeOK, PoolDisjoint
<1>2. MappedTo(mapped_count, table) = Mapped
  BY DEF Mapped, Live, MappedTo
<1> QED BY <1>1, <1>2, PigeonHole

\* An entry for a block nobody uses keeps a table distinct, even if the count
\* wraps around.
LEMMA Appended ==
  ASSUME IInv, NEW b, NEW m, m \notin Mapped,
         table' = [table EXCEPT ![mapped_count] = [bad_index |-> b, mapped_index |-> m]],
         mapped_count' = (mapped_count + 1) % CountModulus
  PROVE  /\ mapped_count' \in Nat
         /\ Distinct(mapped_count', table')
         /\ Mapped' \subseteq Mapped \cup {m}
<1>1. mapped_count \in Nat /\ mapped_count \in Slots /\ DOMAIN table = Slots
  BY CountBound, Geometry DEF IInv, TypeOK, Slots
<1>2. mapped_count' \in 0 .. mapped_count + 1
  BY <1>1, CountStep
<1>3. \A i \in 0 .. mapped_count' - 1 :
         \/ i \in Live /\ table'[i] = table[i]
         \/ i = mapped_count /\ table'[i].mapped_index = m
  BY <1>1, <1>2, CountBound, Geometry DEF IInv, TypeOK, Slots, Live
<1>4. \A i \in Live : table[i].mapped_index # m
  BY DEF Mapped
<1>5. \A i, j \in Live : table[i].mapped_index = table[j].mapped_index => i = j
  BY DEF IInv, PoolDisjoint, Distinct, Live
<1>6. Distinct(mapped_count', table')
  BY <1>3, <1>4, <1>5 DEF Distinct
<1>7. Mapped' \subseteq Mapped \cup {m}
  BY <1>3 DEF Mapped, Live
<1> QED BY <1>2, <1>6, <1>7, <1>1

\* migrate_from_bad only visits pages of the block.
LEMMA NextPageType == IInv /\ left # {} => NextPage \in Pages
<1> SUFFICES ASSUME IInv, left # {} PROVE NextPage \in Pages
  OBVIOUS
<1>1. left \in SUBSET Nat /\ left \subseteq Pages
  BY GeometryFacts DEF IInv, TypeOK
<1>2. Min(left) \in left
  BY <1>1, MinIn
<1> QED BY <1>1, <1>2 DEF NextPage

\* A search that finds a block returns one it accepts, from either end.
LEMMA FreeBlocks == Free # {} => Min(Free) \in Free /\ Max(Free) \in Free
<1> SUFFICES ASSUME Free # {} PROVE Min(Free) \in Free /\ Max(Free) \in Free
  OBVIOUS
<1>1. Free \in SUBSET Nat /\ \A b \in Free : b <= SystemBlockCount + BmtBlockCount
  BY GeometryFacts DEF Free
<1>2. SystemBlockCount + BmtBlockCount \in Nat
  BY Geometry
<1> QED BY <1>1, <1>2, MinIn, MaxIn

\* load_bmt_data returns a block that holds a table.
LEMMA CandidateBlocks == Candidates # {} => Max(Candidates) \in Candidates
<1> SUFFICES ASSUME Candidates # {} PROVE Max(Candidates) \in Candidates
  OBVIOUS
<1>1. Candidates \in SUBSET Nat /\ \A b \in Candidates : b <= SystemBlockCount + BmtBlockCount
  BY GeometryFacts DEF Candidates
<1>2. SystemBlockCount + BmtBlockCount \in Nat
  BY Geometry
<1> QED BY <1>1, <1>2, MaxIn

\* Every block the host addresses is mapped to a block of the device.
LEMMA MapType == IInv => \A b \in System : Map(b) \in Blocks
<1> SUFFICES ASSUME IInv, NEW b \in System PROVE Map(b) \in Blocks
  OBVIOUS
<1> DEFINE hits == {i \in Live : table[i].bad_index = b}
<1>1. CASE hits = {}
  BY <1>1 DEF Map, Blocks
<1>2. CASE hits # {}
  <2>1. hits \in SUBSET Nat
    BY DEF Live, IInv, TypeOK
  <2>2. Min(hits) \in hits
    BY <1>2, <2>1, MinIn
  <2>3. Map(b) = b \/ Map(b) = table[Min(hits)].mapped_index
    BY DEF Map
  <2> HIDE DEF hits
  <2>4. Min(hits) \in Live
    BY <2>2 DEF hits
  <2>5. table[Min(hits)].mapped_index \in Pool
    BY <2>4 DEF IInv, PoolDisjoint, Mapped
  <2> QED BY <2>3, <2>5 DEF Blocks
<1> QED BY <1>1, <1>2

\* The two conjuncts of IInv about the flash, as one.
LEMMA FlashSound ==
  /\ (StoredTablesDisjoint /\ TablesUnused) <=> SoundFlash(page)
  /\ (StoredTablesDisjoint' /\ TablesUnused') <=> SoundFlash(page')
BY DEF StoredTablesDisjoint, TablesUnused, SoundFlash, SoundPage

\* A step that leaves the flash and what the pool part speaks of alone.
LEMMA Rest ==
  ASSUME IInv, TypeOK', RequestInv', PoolDisjoint', ScanInv', SoundFlash(page')
  PROVE  IInv'
BY FlashSound DEF IInv
\* Steps that leave a part of the state alone keep the invariant about it.
LEMMA PoolKept ==
  ASSUME IInv, UNCHANGED <<table, mapped_count, bmt_block_index>>,
         pc' \notin {"migrate", "update", "scan"}
  PROVE  PoolDisjoint' /\ ScanInv'
<1>1. Mapped' = Mapped
  BY DEF Mapped, Live
<1> QED BY <1>1 DEF IInv, PoolDisjoint, ScanInv, Distinct

\* Flash that is not written to stays sound.
LEMMA FlashKept == IInv /\ UNCHANGED page => SoundFlash(page')
BY FlashSound DEF IInv

\* A step inside a request keeps what is known of the request.
LEMMA RequestKept ==
  ASSUME IInv, UNCHANGED <<req, next_page>>, pc' \notin {"off", "remark", "scan", "idle"}
  PROVE  RequestInv'
BY DEF IInv, RequestInv

\* With no request nothing is to be known of it.
LEMMA RequestOver == req' = NoReq => RequestInv'
BY DEF RequestInv, NoReq

\* The absence of a request is a value of req.
LEMMA NoReqType ==
  NoReq \in [op : {"none", "write", "erase", "isbad"}, block : System,
             page : Pages, data : Data \cup {FF}]
BY GeometryFacts DEF NoReq

\* What commands and marks do to the flash.
LEMMA Marked == ASSUME IInv, NEW b \in Blocks, MarkBlockBad(b) PROVE bad' \subseteq Blocks
BY DEF IInv, TypeOK, MarkBlockBad

\* A program command, completed or spoiled, keeps the flash typed and sound.
LEMMA Programming ==
  ASSUME IInv, NEW b, NEW p, NEW v \in Page, SoundPage(b, v),
         page' = Programmed(page, b, p, v) \/ page' = Spoiled(page, b, p)
  PROVE  page' \in FlashType /\ SoundFlash(page')
<1>1. page \in FlashType /\ SoundFlash(page)
  BY FlashSound DEF IInv, TypeOK, FlashType
<1> QED BY <1>1, CommandTypes, CommandsSound

\* So does an erase, completed, spoiled or never started.
LEMMA Erasing ==
  ASSUME IInv, NEW b,
         page' = Erased(page, b) \/ page' = SpoiledBlock(page, b) \/ page' = page
  PROVE  page' \in FlashType /\ SoundFlash(page')
<1>1. page \in FlashType /\ SoundFlash(page)
  BY FlashSound DEF IInv, TypeOK, FlashType
<1>2. Blank \in Page /\ SoundPage(b, Blank)
  BY PageTypes DEF SoundPage, Blank
<1> QED BY <1>1, <1>2, CommandTypes, CommandsSound

\* A failure stays within its bound.
LEMMA FaultCounted ==
  ASSUME IInv, faults < MaxFaults, faults' = faults + FaultCost
  PROVE  faults' \in 0 .. MaxFaults
BY Bounds DEF IInv, TypeOK

\* A failing program command keeps the flash typed and sound.
LEMMA ProgramFailing ==
  ASSUME IInv, NEW b, NEW p, NEW v \in Page, SoundPage(b, v), ProgramFails(b, p, v)
  PROVE  page' \in FlashType /\ SoundFlash(page') /\ faults' \in 0 .. MaxFaults
BY Programming, FaultCounted DEF ProgramFails, MayFail

\* So does a failing erase.
LEMMA EraseFailing ==
  ASSUME IInv, NEW b, EraseFails(b)
  PROVE  page' \in FlashType /\ SoundFlash(page') /\ faults' \in 0 .. MaxFaults
BY Erasing, FaultCounted DEF EraseFails, MayFail

-----------------------------------------------------------------------------
(* The initial states.                                                     *)

\* The invariant holds of a new chip: the flash is blank, the table empty.
LEMMA InitInv == Init => IInv
<1> SUFFICES ASSUME Init PROVE IInv
  OBVIOUS
<1>1. TypeOK
  <2>1. page \in [Blocks -> [Pages -> Page]] /\ table \in [Slots -> Entry]
    BY EmptyType, PageTypes DEF Init, TableType
  <2>2. /\ req \in [op : {"none", "write", "erase", "isbad"}, block : System,
                    page : Pages, data : Data \cup {FF}]
        /\ next_page \in [System -> 0 .. PagePerBlock]
    BY GeometryFacts, Geometry DEF Init, NoReq
  <2>3. error_block \in Blocks /\ bad \subseteq Blocks
    BY GeometryFacts DEF Init, Blocks
  <2>4. faults \in 0 .. MaxFaults /\ cuts \in 0 .. MaxCuts
    BY Bounds DEF Init
  <2>5. /\ mapped_count \in Nat /\ bmt_block_index \in {0} \cup Pool
        /\ pool_erased \in BOOLEAN /\ worn \in BOOLEAN /\ void \subseteq System
        /\ cur \in Nat /\ map_index \in {0} \cup Pool /\ left \subseteq Pages
        /\ pc = "off" /\ reason = "none"
    BY DEF Init
  <2> QED BY <2>1, <2>2, <2>3, <2>4, <2>5 DEF TypeOK
<1>2. RequestInv
  BY DEF Init, RequestInv, NoReq
<1>3. Mapped = {}
  BY DEF Init, Mapped, Live
<1>4. PoolDisjoint /\ ScanInv
  BY <1>3 DEF Init, PoolDisjoint, ScanInv, Distinct
<1>5. StoredTablesDisjoint /\ TablesUnused
  BY DEF Init, StoredTablesDisjoint, TablesUnused, Blank
<1> QED BY <1>1, <1>2, <1>4, <1>5 DEF IInv
-----------------------------------------------------------------------------
(* The steps of power-up.                                                  *)

\* Loading keeps it: the stored table is sound and never maps to its own block.
LEMMA LoadBmtInv == IInv /\ LoadBmt => IInv'
<1> SUFFICES ASSUME IInv, LoadBmt PROVE IInv'
  OBVIOUS
<1> DEFINE found == Max(Candidates)
           t     == page[found][0].bmt
<1>1. found \in Pool /\ found \in Blocks /\ page[found][0].kind = "bmt"
  BY CandidateBlocks DEF LoadBmt, Candidates, Blocks
<1>2. page[found][0] \in Page
  BY <1>1, GeometryFacts DEF IInv, TypeOK
<1>3. t.count \in Nat /\ t.table \in TableType
  BY <1>2 DEF Page, TableType
<1>4. Distinct(t.count, t.table) /\ MappedTo(t.count, t.table) \subseteq Pool \ {found}
  BY <1>1, GeometryFacts DEF IInv, StoredTablesDisjoint
<1>5. t.count <= BmtBlockCount
  BY <1>3, <1>4, PigeonHole
<1>6. /\ bmt_block_index' = found /\ mapped_count' = t.count
      /\ table' = [i \in Slots |-> IF i < t.count THEN t.table[i] ELSE Empty[i]]
      /\ pool_erased' = FALSE /\ pc' = "remark"
      /\ UNCHANGED <<flash, locals, host, budget>>
  BY DEF LoadBmt
<1> HIDE DEF t, found
<1>7. table' \in TableType
  BY <1>3, <1>6, EmptyType DEF TableType
<1>8. TypeOK'
  BY <1>1, <1>3, <1>6, <1>7 DEF IInv, TypeOK, TableType, flash, locals, host, budget
<1>9. \A i \in 0 .. t.count - 1 : table'[i] = t.table[i]
  BY <1>3, <1>5, <1>6, Geometry DEF Slots
<1>10. RequestInv'
  BY <1>6 DEF IInv, RequestInv, LoadBmt, host
<1>11. PoolDisjoint' /\ ScanInv'
  <2>1. Mapped' = MappedTo(t.count, t.table)
    BY <1>6, <1>9 DEF Mapped, Live, MappedTo
  <2>2. Distinct(mapped_count', table')
    BY <1>4, <1>6, <1>9 DEF Distinct
  <2> QED BY <1>4, <1>6, <2>1, <2>2 DEF PoolDisjoint, ScanInv
<1>12. SoundFlash(page')
  BY <1>6, FlashSound DEF IInv, flash
<1> QED BY <1>8, <1>10, <1>11, <1>12, Rest

\* Marking the blocks of a loaded table changes neither table nor pages.
LEMMA ReMarkInv == IInv /\ ReMark => IInv'
<1> SUFFICES ASSUME IInv, ReMark PROVE IInv'
  OBVIOUS
<1>1. table[cur] \in Entry
  BY CountBound, Geometry DEF ReMark, IInv, TypeOK, Slots
<1>2. bad' \subseteq Blocks
  BY <1>1 DEF ReMark, MarkBlockBad, IInv, TypeOK, Entry, Blocks
<1>3. UNCHANGED <<page, bmt, pc, reason, error_block, map_index, left, host, budget>> /\ cur' = cur + 1
  BY DEF ReMark
<1>4. TypeOK'
  BY <1>2, <1>3 DEF IInv, TypeOK, bmt, host, budget
<1>5. RequestInv' /\ PoolDisjoint' /\ ScanInv'
  BY <1>3 DEF ReMark, IInv, RequestInv, PoolDisjoint, ScanInv, Distinct, Mapped, Live, bmt, host
<1>6. SoundFlash(page')
  BY <1>3, FlashSound DEF IInv
<1> QED BY <1>4, <1>5, <1>6, Rest

\* The end of loading changes only the control state.
LEMMA LoadDoneInv == IInv /\ LoadDone => IInv'
<1> SUFFICES ASSUME IInv, LoadDone PROVE IInv'
  OBVIOUS
<1>1. TypeOK'
  BY DEF LoadDone, IInv, TypeOK, flash, bmt, host, budget
<1>2. RequestInv' /\ PoolDisjoint' /\ ScanInv'
  BY DEF LoadDone, IInv, RequestInv, PoolDisjoint, ScanInv, Distinct, Mapped, Live, bmt, host
<1>3. SoundFlash(page')
  BY FlashSound DEF LoadDone, IInv, flash
<1> QED BY <1>1, <1>2, <1>3, Rest

\* A reconstruction starts from an empty table.
LEMMA StartReconstructInv == IInv /\ StartReconstruct => IInv'
<1> SUFFICES ASSUME IInv, StartReconstruct PROVE IInv'
  OBVIOUS
<1>1. TypeOK'
  BY EmptyType DEF StartReconstruct, IInv, TypeOK, TableType, flash, locals, host, budget
<1>2. Mapped' = {}
  BY DEF StartReconstruct, Mapped, Live
<1>3. RequestInv' /\ PoolDisjoint' /\ ScanInv'
  BY <1>2 DEF StartReconstruct, IInv, RequestInv, PoolDisjoint, ScanInv, Distinct, host
<1>4. SoundFlash(page')
  BY FlashSound DEF StartReconstruct, IInv, flash
<1> QED BY <1>1, <1>3, <1>4, Rest

\* The block looked at lies behind all that are mapped, so it may be mapped.
LEMMA ReconstructInv == IInv /\ Reconstruct => IInv'
<1> SUFFICES ASSUME IInv, Reconstruct PROVE IInv'
  OBVIOUS
<1> DEFINE index     == SystemBlockCount + cur
           bad_index == page[index][0].idx
           hits      == SlotsOf(bad_index)
<1>1. /\ pc = "scan" /\ cur < BmtBlockCount /\ cur' = cur + 1
      /\ UNCHANGED <<flash, bmt_block_index, pool_erased, pc, reason, error_block,
                     map_index, left, host, budget>>
  BY DEF Reconstruct
<1>2. index \in Pool /\ index \in Blocks
  BY <1>1, GeometryFacts DEF IInv, TypeOK, Blocks
<1>3. \A b \in Mapped : b < index
  BY <1>1 DEF IInv, ScanInv
<1>4. bad_index \in System \cup {FakeIndex, NoIndex}
  <2>1. page[index][0] \in Page
    BY <1>2, GeometryFacts DEF IInv, TypeOK
  <2> QED BY <2>1 DEF Page
<1>5. bmt_block_index = 0
  BY <1>1 DEF IInv, ScanInv
<1>6. CASE UNCHANGED <<table, mapped_count>>
  <2>1. Mapped' = Mapped
    BY <1>6 DEF Mapped, Live
  <2>2. PoolDisjoint' /\ ScanInv'
    BY <1>1, <1>3, <1>5, <1>6, <2>1, Geometry
    DEF IInv, TypeOK, PoolDisjoint, ScanInv, Distinct, Pool
  <2>3. TypeOK'
    BY <1>1, <1>6 DEF IInv, TypeOK, flash, host, budget
  <2>4. RequestInv' /\ SoundFlash(page')
    BY <1>1, FlashKept DEF IInv, RequestInv, flash, host
  <2> QED BY <2>2, <2>3, <2>4, Rest
<1>7. CASE ~ UNCHANGED <<table, mapped_count>>
  <2>1. bad_index < SystemBlockCount /\ bad_index \in System
    <3>1. ~(bad_index >= SystemBlockCount)
      BY <1>7 DEF Reconstruct
    <3> HIDE DEF bad_index
    <3>2. FakeIndex \in Nat /\ NoIndex \in Nat
      BY DEF FakeIndex, NoIndex
    <3>3. SystemBlockCount \in Nat /\ bad_index \in Nat
      BY <1>4, <3>2, GeometryFacts, Geometry
    <3>4. bad_index < SystemBlockCount
      BY <3>1, <3>3
    <3> QED BY <1>4, <3>4, GeometryFacts
  <2>2. hits = {}
    <3>1. \A b \in Mapped : b >= SystemBlockCount
      BY GeometryFacts DEF IInv, PoolDisjoint
    <3>2. bad_index \notin Mapped
      <4> HIDE DEF bad_index
      <4> QED BY <2>1, <3>1, GeometryFacts, Geometry
    <3> QED BY <3>2 DEF SlotsOf, Mapped
  <2>3. /\ table' = [table EXCEPT ![mapped_count] =
                       [bad_index |-> bad_index, mapped_index |-> index]]
        /\ mapped_count' = (mapped_count + 1) % CountModulus
    BY <1>7, <2>2 DEF Reconstruct
  <2> HIDE DEF hits, bad_index, index
  <2>4. table' \in TableType
    BY <1>2, <2>1, <2>3, EntryTypes DEF IInv, TypeOK, TableType
  <2>5. index \notin Mapped
    BY <1>2, <1>3, GeometryFacts
  <2>6. /\ Distinct(mapped_count', table') /\ Mapped' \subseteq Mapped \cup {index}
        /\ mapped_count' \in Nat
    BY <2>3, <2>5, Appended, CountBound DEF IInv
  <2>7. PoolDisjoint'
    BY <1>1, <1>2, <1>5, <2>6, GeometryFacts, PoolNotZero DEF IInv, PoolDisjoint
  <2>8. ScanInv'
    <3>1. Mapped \subseteq Nat /\ cur \in Nat /\ SystemBlockCount \in Nat
      BY GeometryFacts, Geometry DEF IInv, PoolDisjoint, TypeOK
    <3>2. \A b \in Mapped' : b < SystemBlockCount + cur'
      BY <1>1, <1>3, <2>6, <3>1 DEF index
    <3>3. bmt_block_index' = 0
      BY <1>1, <1>5
    <3> QED BY <3>2, <3>3 DEF ScanInv
  <2>9. TypeOK'
    BY <1>1, <2>4, <2>6 DEF IInv, TypeOK, TableType, flash, host, budget
  <2>10. RequestInv' /\ SoundFlash(page')
    BY <1>1, FlashKept DEF IInv, RequestInv, flash, host
  <2> QED BY <2>7, <2>8, <2>9, <2>10, Rest
<1> QED BY <1>6, <1>7

\* The end of a reconstruction changes only the control state.
LEMMA ReconstructDoneInv == IInv /\ ReconstructDone => IInv'
<1> SUFFICES ASSUME IInv, ReconstructDone PROVE IInv'
  OBVIOUS
<1>1. pc' \in {"find_bmt", "erase_bmt"}
  BY DEF ReconstructDone, WriteBmt
<1>2. UNCHANGED <<flash, bmt, host>>
  BY DEF ReconstructDone
<1>3. TypeOK'
  BY <1>1 DEF ReconstructDone, IInv, TypeOK, flash, bmt, host, budget
<1>4. PoolDisjoint' /\ ScanInv' /\ RequestInv' /\ SoundFlash(page')
  BY <1>1, <1>2, PoolKept, RequestKept, FlashKept DEF flash, bmt, host
<1> QED BY <1>3, <1>4, Rest
-----------------------------------------------------------------------------
(* How a request ends.                                                     *)

\* The types of what Idle assigns.
LEMMA IdleTypes ==
  ASSUME IInv, Idle
  PROVE  /\ pc' = "idle" /\ reason' = "none" /\ req' = NoReq
         /\ error_block' \in Blocks /\ map_index' \in {0} \cup Pool
         /\ req' \in [op : {"none", "write", "erase", "isbad"}, block : System,
                      page : Pages, data : Data \cup {FF}]
BY NoReqType, GeometryFacts DEF Idle, Blocks

\* Refusing a request keeps the invariant.
LEMMA RefusedInv ==
  ASSUME IInv, Refused, UNCHANGED <<bad, bmt, cur, left, cuts>>,
         page' \in FlashType, SoundFlash(page'), faults' \in 0 .. MaxFaults
  PROVE  IInv'
<1>1. next_page' \in [System -> 0 .. PagePerBlock]
  BY Geometry DEF Refused, IInv, TypeOK
<1>2. TypeOK'
  BY <1>1, IdleTypes DEF Refused, IInv, TypeOK, FlashType, bmt
<1>3. PoolDisjoint' /\ ScanInv'
  BY PoolKept DEF Refused, Idle, bmt
<1>4. RequestInv'
  BY RequestOver DEF Refused, Idle
<1> QED BY <1>2, <1>3, <1>4, Rest

\* An answered request leaves the pool alone; a write had a page to go to.
LEMMA AnsweredInv ==
  ASSUME IInv, Answered, UNCHANGED <<bmt, cur, left, budget>>,
         page' \in FlashType, SoundFlash(page'), bad' \subseteq Blocks
  PROVE  IInv'
<1>1. Idle
  BY DEF Answered
<1>2. req.block \in System /\ req.page \in Pages /\ req.op \in {"none", "write", "erase", "isbad"}
  BY DEF IInv, TypeOK
<1>3. /\ next_page' \in [System -> 0 .. PagePerBlock]
      /\ void' \subseteq System /\ worn' \in BOOLEAN
  <2>1. CASE req.op = "erase"
    BY <2>1, Geometry DEF Answered, Erasure, IInv, TypeOK
  <2>2. CASE req.op = "write"
    <3>1. next_page[req.block] = req.page
      BY <2>2 DEF IInv, RequestInv
    <3>2. next_page[req.block] + 1 \in 0 .. PagePerBlock
      BY <1>2, <3>1, Geometry DEF Pages
    <3>3. next_page' = [next_page EXCEPT ![req.block] = @ + 1] /\ UNCHANGED <<void, worn>>
      BY <2>2 DEF Answered
    <3> QED BY <3>2, <3>3 DEF IInv, TypeOK
  <2>3. CASE req.op \in {"none", "isbad"}
    BY <2>3 DEF Answered, IInv, TypeOK
  <2> QED BY <1>2, <2>1, <2>2, <2>3
<1>4. TypeOK'
  BY <1>1, <1>3, IdleTypes DEF IInv, TypeOK, FlashType, bmt, budget
<1>5. PoolDisjoint' /\ ScanInv'
  BY <1>1, PoolKept DEF Idle, bmt
<1>6. RequestInv'
  BY <1>1, RequestOver DEF Idle
<1> QED BY <1>4, <1>5, <1>6, Rest
-----------------------------------------------------------------------------
(* The steps of find_available_block.                                      *)

\* Erasing pool blocks leaves only blank or unreadable pages in them.
LEMMA ErasePoolInv == IInv /\ ErasePool => IInv'
<1> SUFFICES ASSUME IInv, ErasePool PROVE IInv'
  OBVIOUS
<1> DEFINE b == SystemBlockCount + cur
<1>1. /\ cur < BmtBlockCount /\ cur' = cur + 1 /\ pc \in {"find", "find_bmt"}
      /\ UNCHANGED <<bmt, pc, reason, error_block, map_index, left, host, cuts>>
  BY DEF ErasePool, Finding
<1>2. b \in Pool /\ b \in Blocks
  BY <1>1, GeometryFacts DEF IInv, TypeOK, Blocks
<1>3. page' \in FlashType /\ SoundFlash(page') /\ bad' \subseteq Blocks
      /\ faults' \in 0 .. MaxFaults
  <2>1. CASE UNCHANGED <<flash, faults>>
    BY <2>1, FlashKept DEF flash, IInv, TypeOK, FlashType
  <2>2. CASE page' = Erased(page, b) /\ UNCHANGED <<bad, faults>>
    BY <2>2, Erasing DEF IInv, TypeOK
  <2>3. CASE EraseFails(b) /\ MarkBlockBad(b)
    BY <1>2, <2>3, EraseFailing, Marked
  <2> QED BY <2>1, <2>2, <2>3 DEF ErasePool
<1>4. TypeOK'
  BY <1>1, <1>3 DEF IInv, TypeOK, FlashType, bmt, host
<1>5. PoolDisjoint' /\ ScanInv' /\ RequestInv'
  BY <1>1, PoolKept, RequestKept DEF bmt, host
<1> QED BY <1>3, <1>4, <1>5, Rest

\* The end of the pool erase changes only the control state.
LEMMA PoolErasedInv == IInv /\ PoolErased => IInv'
<1> SUFFICES ASSUME IInv, PoolErased PROVE IInv'
  OBVIOUS
<1>1. TypeOK'
  BY DEF PoolErased, IInv, TypeOK, flash, host, budget
<1>2. PoolDisjoint' /\ ScanInv' /\ RequestInv' /\ SoundFlash(page')
  BY PoolKept, RequestKept, FlashKept DEF PoolErased, Finding, flash, host
<1> QED BY <1>1, <1>2, Rest

\* The block found is neither mapped to nor the one of the table.
LEMMA FindBlockInv == IInv /\ FindBlock => IInv'
<1> SUFFICES ASSUME IInv, FindBlock PROVE IInv'
  OBVIOUS
<1>1. map_index' \in Pool /\ map_index' \notin Mapped /\ map_index' # bmt_block_index
  BY FreeBlocks DEF FindBlock, Free
<1>2. pc' \in {"migrate", "update"} /\ left' \subseteq Pages
      /\ UNCHANGED <<flash, bmt, cur, reason, error_block, host, budget>>
  BY DEF FindBlock, IInv, TypeOK
<1>3. TypeOK'
  BY <1>1, <1>2 DEF IInv, TypeOK, flash, bmt, host, budget
<1>4. PoolDisjoint' /\ ScanInv'
  BY <1>1, <1>2 DEF IInv, PoolDisjoint, ScanInv, Distinct, Mapped, Live, bmt
<1>5. RequestInv' /\ SoundFlash(page')
  BY <1>2, RequestKept, FlashKept DEF flash, host
<1> QED BY <1>3, <1>4, <1>5, Rest

\* A search that finds nothing refuses the request.
LEMMA NoBlockInv == IInv /\ (NoBlock \/ NoBmtBlock) => IInv'
<1> SUFFICES ASSUME IInv, NoBlock \/ NoBmtBlock PROVE IInv'
  OBVIOUS
<1>1. Refused /\ UNCHANGED <<flash, bmt, cur, left, budget>>
  BY DEF NoBlock, NoBmtBlock
<1>2. page' \in FlashType /\ SoundFlash(page') /\ faults' \in 0 .. MaxFaults
  BY <1>1, FlashKept DEF IInv, TypeOK, FlashType, flash, budget
<1> QED BY <1>1, <1>2, RefusedInv DEF flash, budget

\* The block found for the table is not mapped to.
LEMMA FindBmtBlockInv == IInv /\ FindBmtBlock => IInv'
<1> SUFFICES ASSUME IInv, FindBmtBlock PROVE IInv'
  OBVIOUS
<1>1. bmt_block_index' \in Pool /\ bmt_block_index' \notin Mapped
  BY FreeBlocks DEF FindBmtBlock, Free
<1>2. pc' = "program_bmt"
      /\ UNCHANGED <<flash, table, mapped_count, pool_erased, locals, host, budget>>
  BY DEF FindBmtBlock
<1>3. TypeOK'
  BY <1>1, <1>2 DEF IInv, TypeOK, flash, locals, host, budget
<1>4. PoolDisjoint' /\ ScanInv'
  BY <1>1, <1>2 DEF IInv, PoolDisjoint, ScanInv, Distinct, Mapped, Live
<1>5. RequestInv' /\ SoundFlash(page')
  BY <1>2, RequestKept, FlashKept DEF flash, host
<1> QED BY <1>3, <1>4, <1>5, Rest
-----------------------------------------------------------------------------
(* The steps of migrate_from_bad.                                          *)

\* A migrated page is host data: a table is not a used page.
LEMMA MigratedPage ==
  ASSUME IInv, left # {}, ~Skipped(NextPage)
  PROVE  /\ Migrated(NextPage) \in Page
         /\ SoundPage(map_index, Migrated(NextPage))
<1> DEFINE p   == NextPage
           old == page[error_block][p]
<1>1. p \in Pages /\ error_block \in Blocks /\ req.block \in System /\ req.data \in Data \cup {FF}
  BY NextPageType DEF IInv, TypeOK
<1>2. old \in Page
  BY <1>1 DEF IInv, TypeOK
<1>3. CASE p = req.page
  BY <1>1, <1>3, PageTypes DEF Migrated, DataPage, SoundPage
<1>4. CASE p # req.page
  <2>1. old.kind # "bmt"
    <3>1. IsPageUsed(old)
      BY <1>4 DEF Skipped
    <3> QED BY <1>1, <3>1 DEF IInv, TablesUnused
  <2>2. CASE error_block < SystemBlockCount
    <3>1. error_block \in System
      BY <1>1, <2>2, GeometryFacts
    <3>2. Migrated(p) = [old EXCEPT !.idx = error_block]
      BY <1>4, <2>2 DEF Migrated
    <3> HIDE DEF old
    <3> QED BY <1>2, <2>1, <3>1, <3>2 DEF Page, SoundPage
  <2>3. CASE ~(error_block < SystemBlockCount)
    <3>1. Migrated(p) = old
      BY <1>4, <2>3 DEF Migrated
    <3> QED BY <1>2, <2>1, <3>1 DEF SoundPage
  <2> QED BY <2>2, <2>3
<1> QED BY <1>3, <1>4

\* Migrated pages are host data: a table has no index and is skipped.
LEMMA MigrateInv == IInv /\ Migrate => IInv'
<1> SUFFICES ASSUME IInv, Migrate PROVE IInv'
  OBVIOUS
<1>1. pc = "migrate" /\ left # {} /\ left' \subseteq left
      /\ UNCHANGED <<bad, bmt, pc, cur, reason, error_block, map_index, host, budget>>
  BY DEF Migrate
<1>2. page' \in FlashType /\ SoundFlash(page')
  <2>1. CASE Skipped(NextPage)
    BY <2>1, FlashKept DEF Migrate, IInv, TypeOK, FlashType
  <2>2. CASE ~Skipped(NextPage)
    BY <1>1, <2>2, MigratedPage, Programming DEF Migrate
  <2> QED BY <2>1, <2>2
<1>3. TypeOK'
  BY <1>1, <1>2 DEF IInv, TypeOK, FlashType, bmt, host, budget
<1>4. PoolDisjoint' /\ ScanInv'
  BY <1>1 DEF IInv, PoolDisjoint, ScanInv, Distinct, Mapped, Live, bmt
<1>5. RequestInv'
  BY <1>1, RequestKept DEF host
<1> QED BY <1>2, <1>3, <1>4, <1>5, Rest

\* A failing migration gives its block up.
LEMMA MigrateFailsInv == IInv /\ MigrateFails => IInv'
<1> SUFFICES ASSUME IInv, MigrateFails PROVE IInv'
  OBVIOUS
<1>1. pc' = "find" /\ left' = {}
      /\ UNCHANGED <<bmt, cur, reason, error_block, map_index, host, cuts>>
  BY DEF MigrateFails
<1>2. page' \in FlashType /\ SoundFlash(page') /\ faults' \in 0 .. MaxFaults
  BY MigratedPage, ProgramFailing DEF MigrateFails
<1>3. bad' \subseteq Blocks
  <2>1. map_index \in Blocks
    BY GeometryFacts DEF IInv, TypeOK, Blocks
  <2> QED BY <2>1, Marked DEF MigrateFails
<1>4. TypeOK'
  BY <1>1, <1>2, <1>3 DEF IInv, TypeOK, FlashType, bmt, host
<1>5. PoolDisjoint' /\ ScanInv' /\ RequestInv'
  BY <1>1, PoolKept, RequestKept DEF bmt, host
<1> QED BY <1>2, <1>4, <1>5, Rest

\* The end of a migration changes only the control state.
LEMMA MigrateDoneInv == IInv /\ MigrateDone => IInv'
<1> SUFFICES ASSUME IInv, MigrateDone PROVE IInv'
  OBVIOUS
<1>1. TypeOK'
  BY DEF MigrateDone, IInv, TypeOK, flash, bmt, locals, host, budget
<1>2. PoolDisjoint' /\ ScanInv'
  BY DEF MigrateDone, IInv, PoolDisjoint, ScanInv, Distinct, Mapped, Live, bmt, locals
<1>3. RequestInv' /\ SoundFlash(page')
  BY RequestKept, FlashKept DEF MigrateDone, flash, host
<1> QED BY <1>1, <1>2, <1>3, Rest
-----------------------------------------------------------------------------
(* The steps of update_bmt and write_bmt_to_flash.                         *)

\* The entry update_bmt writes keeps the table distinct, the count may wrap.
LEMMA UpdateTableInv == IInv /\ UpdateTable => IInv'
<1> SUFFICES ASSUME IInv, UpdateTable PROVE IInv'
  OBVIOUS
<1>1. pc = "update" /\ pc' \in {"find_bmt", "erase_bmt"}
      /\ UNCHANGED <<flash, bmt_block_index, pool_erased, locals, host, budget>>
  BY DEF UpdateTable, WriteBmt
<1>2. map_index \in Pool /\ map_index \notin Mapped /\ map_index # bmt_block_index
  BY <1>1 DEF IInv, PoolDisjoint
<1>3. /\ table' \in TableType /\ mapped_count' \in Nat
      /\ Distinct(mapped_count', table')
      /\ Mapped' \subseteq Mapped \cup {map_index}
  <2>1. CASE error_block >= SystemBlockCount
    <3>1. PICK i : table' = [table EXCEPT ![i].mapped_index = map_index]
                   /\ UNCHANGED mapped_count
      BY <2>1 DEF UpdateTable
    <3>2. table' \in TableType
      BY <1>2, <3>1, EntryTypes, GeometryFacts DEF IInv, TypeOK, TableType
    <3>3. Live \subseteq Slots
      BY CountBound, Geometry DEF Live, Slots, IInv, TypeOK
    <3>4. \A j \in Live : table'[j].mapped_index =
             IF j = i THEN map_index ELSE table[j].mapped_index
      BY <3>1, <3>3 DEF IInv, TypeOK, Entry
    <3>5. Mapped' \subseteq Mapped \cup {map_index}
      BY <3>1, <3>4 DEF Mapped, Live
    <3>6. Distinct(mapped_count', table')
      BY <1>2, <3>1, <3>4 DEF Distinct, IInv, PoolDisjoint, Mapped, Live
    <3> QED BY <3>1, <3>2, <3>5, <3>6 DEF IInv, TypeOK
  <2>2. CASE ~(error_block >= SystemBlockCount)
    <3>1. error_block \in System
      <4>1. error_block \in Blocks /\ error_block \in Nat /\ SystemBlockCount \in Nat
        BY GeometryFacts, Geometry DEF IInv, TypeOK, Blocks
      <4> QED BY <2>2, <4>1, GeometryFacts
    <3>2. /\ table' = [table EXCEPT ![mapped_count] =
                         [bad_index |-> error_block, mapped_index |-> map_index]]
          /\ mapped_count' = (mapped_count + 1) % CountModulus
      BY <2>2 DEF UpdateTable
    <3>3. table' \in TableType
      BY <1>2, <3>1, <3>2, EntryTypes DEF IInv, TypeOK, TableType
    <3> QED BY <1>2, <3>2, <3>3, Appended
  <2> QED BY <2>1, <2>2
<1>4. TypeOK'
  BY <1>1, <1>3 DEF IInv, TypeOK, TableType, flash, locals, host, budget
<1>5. PoolDisjoint' /\ ScanInv'
  BY <1>1, <1>2, <1>3 DEF IInv, PoolDisjoint, ScanInv
<1>6. RequestInv' /\ SoundFlash(page')
  BY <1>1, RequestKept, FlashKept DEF flash, host
<1> QED BY <1>4, <1>5, <1>6, Rest

\* Erasing the block of the table keeps the invariant.
LEMMA EraseBmtInv == IInv /\ EraseBmt => IInv'
<1> SUFFICES ASSUME IInv, EraseBmt PROVE IInv'
  OBVIOUS
<1>1. pc' = "program_bmt" /\ UNCHANGED <<bmt, locals, host, budget>>
  BY DEF EraseBmt
<1>2. page' \in FlashType /\ SoundFlash(page') /\ bad' \subseteq Blocks
  BY Erasing DEF EraseBmt, IInv, TypeOK
<1>3. TypeOK'
  BY <1>1, <1>2 DEF IInv, TypeOK, FlashType, bmt, locals, host, budget
<1>4. PoolDisjoint' /\ ScanInv' /\ RequestInv'
  BY <1>1, PoolKept, RequestKept DEF bmt, host
<1> QED BY <1>2, <1>3, <1>4, Rest

\* The table's block failed; the next one is looked for.
LEMMA BmtBlockFailed ==
  ASSUME IInv, MarkBlockBad(bmt_block_index), bmt_block_index' = 0, pc' = "find_bmt",
         UNCHANGED <<table, mapped_count, pool_erased, locals, host, cuts>>,
         page' \in FlashType, SoundFlash(page'), faults' \in 0 .. MaxFaults
  PROVE  IInv'
<1>1. bad' \subseteq Blocks
  <2>1. bmt_block_index \in Blocks
    BY GeometryFacts DEF IInv, TypeOK, Blocks
  <2> QED BY <2>1, Marked
<1>2. TypeOK'
  BY <1>1 DEF IInv, TypeOK, FlashType, locals, host
<1>3. PoolDisjoint' /\ ScanInv'
  BY PoolNotZero DEF IInv, PoolDisjoint, ScanInv, Distinct, Mapped, Live
<1>4. RequestInv'
  BY RequestKept DEF host
<1> QED BY <1>2, <1>3, <1>4, Rest

\* So does failing to: the block is given up.
LEMMA EraseBmtFailsInv == IInv /\ EraseBmtFails => IInv'
<1> SUFFICES ASSUME IInv, EraseBmtFails PROVE IInv'
  OBVIOUS
<1>1. page' \in FlashType /\ SoundFlash(page') /\ faults' \in 0 .. MaxFaults
  BY EraseFailing DEF EraseBmtFails
<1> QED BY <1>1, BmtBlockFailed DEF EraseBmtFails

\* The table in RAM may be stored in the table's own block.
LEMMA TableIsSound ==
  ASSUME IInv
  PROVE  /\ TablePage(mapped_count, table) \in Page
         /\ SoundPage(bmt_block_index, TablePage(mapped_count, table))
<1>1. TablePage(mapped_count, table) \in Page
  BY PageTypes DEF IInv, TypeOK, TableType
<1>2. MappedTo(mapped_count, table) = Mapped
  BY DEF MappedTo, Mapped, Live
<1>3. /\ TablePage(mapped_count, table).idx = NoIndex
      /\ TablePage(mapped_count, table).bmt = [count |-> mapped_count, table |-> table]
  BY DEF TablePage, Blank
<1> QED BY <1>1, <1>2, <1>3 DEF SoundPage, IsPageUsed, IInv, PoolDisjoint

\* So does failing to program the table.
LEMMA ProgramBmtFailsInv == IInv /\ ProgramBmtFails => IInv'
<1> SUFFICES ASSUME IInv, ProgramBmtFails PROVE IInv'
  OBVIOUS
<1>1. page' \in FlashType /\ SoundFlash(page') /\ faults' \in 0 .. MaxFaults
  BY TableIsSound, ProgramFailing DEF ProgramBmtFails
<1> QED BY <1>1, BmtBlockFailed DEF ProgramBmtFails

\* The table that is stored is sound and does not map to its own block.
LEMMA ProgramBmtInv == IInv /\ ProgramBmt => IInv'
<1> SUFFICES ASSUME IInv, ProgramBmt PROVE IInv'
  OBVIOUS
<1>1. page' \in FlashType /\ SoundFlash(page')
  BY TableIsSound, Programming DEF ProgramBmt
<1>2. UNCHANGED <<bad, bmt, cur, left, next_page, void, worn, budget>>
  BY DEF ProgramBmt
<1>3. CASE req = NoReq
  <2>1. Idle
    BY <1>3 DEF ProgramBmt
  <2>2. TypeOK'
    BY <1>1, <1>2, <2>1, IdleTypes DEF IInv, TypeOK, FlashType, bmt, budget
  <2>3. PoolDisjoint' /\ ScanInv' /\ RequestInv'
    BY <1>2, <2>1, PoolKept, RequestOver DEF Idle, bmt
  <2> QED BY <1>1, <2>2, <2>3, Rest
<1>4. CASE req # NoReq
  <2>1. pc' = "mark" /\ UNCHANGED <<req, reason, error_block, map_index>>
    BY <1>4 DEF ProgramBmt
  <2>2. TypeOK'
    BY <1>1, <1>2, <2>1 DEF IInv, TypeOK, FlashType, bmt, budget
  <2>3. PoolDisjoint' /\ ScanInv' /\ RequestInv'
    BY <1>2, <2>1, PoolKept, RequestKept DEF bmt
  <2> QED BY <1>1, <2>2, <2>3, Rest
<1> QED BY <1>3, <1>4

\* Marking the failed block ends the update and the request.
LEMMA MarkOldInv == IInv /\ MarkOld => IInv'
<1> SUFFICES ASSUME IInv, MarkOld PROVE IInv'
  OBVIOUS
<1>1. UNCHANGED <<page, bmt, cur, left, budget>> /\ bad' \subseteq Blocks
  BY Marked DEF MarkOld, IInv, TypeOK
<1>2. page' \in FlashType /\ SoundFlash(page')
  BY <1>1, FlashKept DEF IInv, TypeOK, FlashType
<1>3. CASE reason = "unmapped" /\ req.op = "erase"
  <2>1. pc' = "erase" /\ reason' = "none" /\ error_block' = 0 /\ map_index' = 0 /\ UNCHANGED host
    BY <1>3 DEF MarkOld
  <2>2. TypeOK'
    BY <1>1, <1>2, <2>1, GeometryFacts DEF IInv, TypeOK, FlashType, Blocks, bmt, host, budget
  <2>3. PoolDisjoint' /\ ScanInv' /\ RequestInv'
    BY <1>1, <2>1, PoolKept, RequestKept DEF bmt, host
  <2> QED BY <1>2, <2>2, <2>3, Rest
<1>4. CASE ~(reason = "unmapped" /\ req.op = "erase")
  <2>1. Answered
    BY <1>4 DEF MarkOld
  <2> QED BY <1>1, <1>2, <2>1, AnsweredInv
<1> QED BY <1>3, <1>4
-----------------------------------------------------------------------------
(* The host's requests and how they are served.                            *)

\* A page the host writes is not a table.
LEMMA HostPageSound ==
  ASSUME IInv
  PROVE  HostPage \in Page /\ \A b : SoundPage(b, HostPage)
<1>1. req.block \in System /\ req.data \in Data \cup {FF}
  BY DEF IInv, TypeOK
<1>2. HostPage = DataPage(req.block, req.data) \/ HostPage = DataPage(FakeIndex, req.data)
  BY DEF HostPage
<1> QED BY <1>1, <1>2, PageTypes DEF DataPage, SoundPage

\* A page written for the host is not a table.
LEMMA WritePageInv == IInv /\ WritePage => IInv'
<1> SUFFICES ASSUME IInv, WritePage PROVE IInv'
  OBVIOUS
<1>1. page' \in FlashType /\ SoundFlash(page')
  BY HostPageSound, Programming DEF WritePage
<1>2. Answered /\ UNCHANGED <<bad, bmt, cur, left, budget>> /\ bad' \subseteq Blocks
  BY DEF WritePage, IInv, TypeOK
<1> QED BY <1>1, <1>2, AnsweredInv

\* A failing write hands its block to update_bmt.
LEMMA WritePageFailsInv == IInv /\ WritePageFails => IInv'
<1> SUFFICES ASSUME IInv, WritePageFails PROVE IInv'
  OBVIOUS
<1>1. page' \in FlashType /\ SoundFlash(page') /\ faults' \in 0 .. MaxFaults
  BY HostPageSound, ProgramFailing DEF WritePageFails
<1>2. error_block' \in Blocks
  BY MapType DEF WritePageFails, IInv, TypeOK
<1>3. pc' = "find" /\ reason' = "write_fail"
      /\ UNCHANGED <<bad, bmt, cur, map_index, left, host, cuts>>
  BY DEF WritePageFails
<1>4. TypeOK'
  BY <1>1, <1>2, <1>3 DEF IInv, TypeOK, FlashType, bmt, host
<1>5. PoolDisjoint' /\ ScanInv' /\ RequestInv'
  BY <1>3, PoolKept, RequestKept DEF bmt, host
<1> QED BY <1>1, <1>4, <1>5, Rest

\* A write is for the next page of its block.
LEMMA HostWriteInv ==
  ASSUME IInv, NEW b \in System, NEW d \in Data, HostWrite(b, d) PROVE IInv'
<1>1. req' = [op |-> "write", block |-> b, page |-> next_page[b], data |-> d] /\ pc' = "program"
      /\ UNCHANGED <<flash, bmt, locals, next_page, void, worn, budget>>
  BY DEF HostWrite, Request
<1>2. next_page[b] \in Pages
  BY Geometry DEF HostWrite, IInv, TypeOK, Pages
<1>3. TypeOK'
  BY <1>1, <1>2 DEF IInv, TypeOK, flash, bmt, locals, budget
<1>4. RequestInv'
  BY <1>1 DEF RequestInv
<1>5. PoolDisjoint' /\ ScanInv' /\ SoundFlash(page')
  BY <1>1, PoolKept, FlashKept DEF flash, bmt
<1> QED BY <1>3, <1>4, <1>5, Rest

\* A request for a block, without a page or data.
LEMMA RequestType ==
  ASSUME NEW b \in System, NEW op \in {"erase", "isbad"}, Request(op, b, 0, FF)
  PROVE  /\ req' \in [op : {"none", "write", "erase", "isbad"}, block : System,
                      page : Pages, data : Data \cup {FF}]
         /\ req'.op = op
BY GeometryFacts DEF Request

\* An erase starts an update if the block is found bad.
LEMMA HostEraseInv == ASSUME IInv, NEW b \in System, HostErase(b) PROVE IInv'
<1>1. UNCHANGED <<flash, bmt, cur, map_index, left, void, worn, budget>>
      /\ next_page' = [next_page EXCEPT ![b] = PagePerBlock] /\ Request("erase", b, 0, FF)
  BY DEF HostErase
<1>2. /\ pc' \in {"find", "erase"} /\ error_block' \in Blocks
      /\ reason' \in {"none", "write_fail", "unmapped"}
  BY MapType DEF HostErase, BlockBad, IInv, TypeOK
<1>3. next_page' \in [System -> 0 .. PagePerBlock]
  BY <1>1, Geometry DEF IInv, TypeOK
<1>4. TypeOK'
  BY <1>1, <1>2, <1>3, RequestType DEF IInv, TypeOK, flash, bmt, budget
<1>5. RequestInv'
  BY <1>1, <1>2, RequestType DEF RequestInv
<1>6. PoolDisjoint' /\ ScanInv' /\ SoundFlash(page')
  BY <1>1, <1>2, PoolKept, FlashKept DEF flash, bmt
<1> QED BY <1>4, <1>5, <1>6, Rest

\* So does the question whether a block is bad.
LEMMA HostIsBadInv == ASSUME IInv, NEW b \in System, HostIsBad(b) PROVE IInv'
<1>1. UNCHANGED <<flash, bmt, cur, map_index, left, next_page, void, worn, budget>>
      /\ Request("isbad", b, 0, FF)
  BY DEF HostIsBad
<1>2. pc' = "find" /\ error_block' \in Blocks /\ reason' = "unmapped"
  BY MapType DEF HostIsBad, BlockBad
<1>3. TypeOK'
  BY <1>1, <1>2, RequestType DEF IInv, TypeOK, flash, bmt, budget
<1>4. RequestInv'
  BY <1>1, <1>2, RequestType DEF RequestInv
<1>5. PoolDisjoint' /\ ScanInv' /\ SoundFlash(page')
  BY <1>1, <1>2, PoolKept, FlashKept DEF flash, bmt
<1> QED BY <1>3, <1>4, <1>5, Rest

\* A block the host marks bad leaves the table as it is.
LEMMA HostMarkBadInv == ASSUME IInv, NEW b \in System, HostMarkBad(b) PROVE IInv'
<1>1. /\ pc = "idle" /\ next_page' = [next_page EXCEPT ![b] = PagePerBlock]
      /\ void' = void \cup {b}
      /\ UNCHANGED <<page, bmt, pc, locals, req, worn, cuts>>
  BY DEF HostMarkBad
<1>2. faults' \in 0 .. MaxFaults /\ bad' \subseteq Blocks
  BY FaultCounted, MapType, Marked DEF HostMarkBad
<1>3. next_page' \in [System -> 0 .. PagePerBlock] /\ void' \subseteq System
  BY <1>1, Geometry DEF IInv, TypeOK
<1>4. TypeOK'
  BY <1>1, <1>2, <1>3 DEF IInv, TypeOK, bmt, locals
<1>5. RequestInv'
  BY <1>1, RequestOver DEF IInv, RequestInv
<1>6. PoolDisjoint' /\ ScanInv' /\ SoundFlash(page')
  BY <1>1, PoolKept, FlashKept DEF bmt
<1> QED BY <1>4, <1>5, <1>6, Rest

\* A block erased for the host is blank.
LEMMA EraseBlockInv == IInv /\ EraseBlock => IInv'
<1> SUFFICES ASSUME IInv, EraseBlock PROVE IInv'
  OBVIOUS
<1>1. page' \in FlashType /\ SoundFlash(page')
  BY Erasing DEF EraseBlock
<1>2. Answered /\ UNCHANGED <<bmt, cur, left, budget>> /\ bad' \subseteq Blocks
  BY DEF EraseBlock, IInv, TypeOK
<1> QED BY <1>1, <1>2, AnsweredInv

\* An erase that fails leaves the pool alone.
LEMMA EraseBlockFailsInv == IInv /\ EraseBlockFails => IInv'
<1> SUFFICES ASSUME IInv, EraseBlockFails PROVE IInv'
  OBVIOUS
<1>1. req.block \in System /\ EraseTarget(req.block) \in Blocks
  BY DEF EraseTarget, Blocks, IInv, TypeOK
<1>2. page' \in FlashType /\ SoundFlash(page') /\ faults' \in 0 .. MaxFaults
  BY <1>1, EraseFailing DEF EraseBlockFails
<1>3. Idle /\ UNCHANGED <<bad, bmt, cur, left, next_page, worn, cuts>> /\ void' \subseteq System
  BY <1>1 DEF EraseBlockFails, IInv, TypeOK
<1>4. TypeOK'
  BY <1>2, <1>3, IdleTypes DEF IInv, TypeOK, FlashType, bmt
<1>5. PoolDisjoint' /\ ScanInv'
  BY <1>3, PoolKept DEF Idle, bmt
<1>6. RequestInv'
  BY <1>3, RequestOver DEF Idle
<1> QED BY <1>2, <1>4, <1>5, <1>6, Rest
-----------------------------------------------------------------------------
(* Loss of power.                                                          *)

\* At most the page or the block of the command under way is torn.
LEMMA TornFlash ==
  ASSUME IInv, PowerCut
  PROVE  page' \in FlashType /\ SoundFlash(page')
<1>1. CASE page' = page
  BY <1>1, FlashKept DEF IInv, TypeOK, FlashType
<1>2. CASE page' \in Torn
  <2>1. \/ \E b, p : page' = Spoiled(page, b, p)
        \/ \E b : page' = SpoiledBlock(page, b)
    <3>1. CASE pc = "program"
      BY <1>2, <3>1 DEF Torn
    <3>2. CASE pc = "migrate" /\ left # {}
      BY <1>2, <3>2 DEF Torn
    <3>3. CASE pc = "program_bmt"
      BY <1>2, <3>3 DEF Torn
    <3>4. CASE pc = "erase"
      BY <1>2, <3>4 DEF Torn
    <3>5. CASE pc = "erase_bmt"
      BY <1>2, <3>5 DEF Torn
    <3>6. CASE Finding /\ ~pool_erased /\ cur < BmtBlockCount
      BY <1>2, <3>6 DEF Torn, Finding
    <3> QED BY <1>2, <3>1, <3>2, <3>3, <3>4, <3>5, <3>6 DEF Torn
  <2>2. ASSUME NEW b, NEW p, page' = Spoiled(page, b, p)
        PROVE  page' \in FlashType /\ SoundFlash(page')
    <3>1. Blank \in Page /\ SoundPage(b, Blank)
      BY PageTypes DEF SoundPage, Blank
    <3> QED BY <2>2, <3>1, Programming
  <2> QED BY <2>1, <2>2, Erasing
<1> QED BY <1>1, <1>2 DEF PowerCut

\* What is lost with the power leaves nothing to be wrong; a torn page is unreadable.
LEMMA PowerCutInv == IInv /\ PowerCut => IInv'
<1> SUFFICES ASSUME IInv, PowerCut PROVE IInv'
  OBVIOUS
<1>1. /\ table' = Empty /\ mapped_count' = 0 /\ bmt_block_index' = 0 /\ pool_erased' = FALSE
      /\ pc' = "off" /\ cur' = 0 /\ reason' = "none" /\ error_block' = 0
      /\ map_index' = 0 /\ left' = {} /\ req' = NoReq
      /\ UNCHANGED <<bad, worn, faults>>
  BY DEF PowerCut
<1>2. page' \in FlashType /\ SoundFlash(page')
  BY TornFlash
<1>3. cuts' \in 0 .. MaxCuts
  BY Bounds DEF PowerCut, IInv, TypeOK
<1>4. next_page' \in [System -> 0 .. PagePerBlock] /\ void' \subseteq System
  BY Geometry DEF PowerCut, Unwritten, Forgotten, IInv, TypeOK
<1>5. TypeOK'
  BY <1>1, <1>2, <1>3, <1>4, EmptyType, NoReqType, GeometryFacts
  DEF IInv, TypeOK, FlashType, TableType, Blocks
<1>6. Mapped' = {}
  BY <1>1 DEF Mapped, Live
<1>7. PoolDisjoint' /\ ScanInv'
  BY <1>1, <1>6 DEF PoolDisjoint, ScanInv, Distinct
<1>8. RequestInv'
  BY <1>1, RequestOver
<1> QED BY <1>2, <1>5, <1>7, <1>8, Rest
-----------------------------------------------------------------------------
(* The theorems.                                                           *)

\* The invariant speaks of the variables of Bmt only.
LEMMA StutterInv == IInv /\ UNCHANGED vars => IInv'
<1> SUFFICES ASSUME IInv, UNCHANGED vars PROVE IInv'
  OBVIOUS
<1>1. UNCHANGED <<page, bad, table, mapped_count, bmt_block_index, pool_erased, pc, cur,
                  reason, error_block, map_index, left, req, next_page, void, worn,
                  faults, cuts>>
  BY DEF vars, flash, bmt, locals, host, budget
<1>2. TypeOK' /\ RequestInv'
  BY <1>1 DEF IInv, TypeOK, RequestInv
<1>3. PoolDisjoint' /\ ScanInv'
  BY <1>1 DEF IInv, PoolDisjoint, ScanInv, Distinct, Mapped, Live
<1>4. SoundFlash(page')
  BY <1>1, FlashKept
<1> QED BY <1>2, <1>3, <1>4, Rest

\* The invariant is inductive: it holds when the chip is new and every step of
\* the code, of its callers and of the power supply keeps it.
THEOREM Inductive == Spec => []IInv
<1>1. IInv /\ [Next]_vars => IInv'
  <2> SUFFICES ASSUME IInv, [Next]_vars PROVE IInv'
    OBVIOUS
  <2>1. CASE Boot
    BY <2>1, LoadBmtInv, ReMarkInv, LoadDoneInv, StartReconstructInv, ReconstructInv,
       ReconstructDoneInv DEF Boot
  <2>2. CASE Find
    BY <2>2, ErasePoolInv, PoolErasedInv, FindBlockInv, NoBlockInv, FindBmtBlockInv DEF Find
  <2>3. CASE Move
    BY <2>3, MigrateInv, MigrateFailsInv, MigrateDoneInv DEF Move
  <2>4. CASE Commit
    BY <2>4, UpdateTableInv, EraseBmtInv, EraseBmtFailsInv, ProgramBmtInv,
       ProgramBmtFailsInv, MarkOldInv DEF Commit
  <2>5. CASE Serve
    BY <2>5, WritePageInv, WritePageFailsInv, EraseBlockInv, EraseBlockFailsInv DEF Serve
  <2>6. CASE Ask
    BY <2>6, HostWriteInv, HostEraseInv, HostIsBadInv, HostMarkBadInv DEF Ask
  <2>7. CASE PowerCut
    BY <2>7, PowerCutInv
  <2>8. CASE UNCHANGED vars
    BY <2>8, StutterInv
  <2> QED BY <2>1, <2>2, <2>3, <2>4, <2>5, <2>6, <2>7, <2>8 DEF Next, Work
<1> QED BY InitInv, <1>1, PTL DEF Spec

\* Every variable keeps its type; in particular bmt_block_index and the target
\* of a migration are 0 or blocks of the pool, and error_block is a block.
THEOREM TypeCorrect == Spec => []TypeOK
<1>1. IInv => TypeOK
  BY DEF IInv
<1> QED BY <1>1, Inductive, PTL

\* No pool block serves two purposes, whatever fails, whenever power goes, and
\* even if marks are lost and mapped_count wraps around.
THEOREM PoolIsDisjoint == Spec => []PoolDisjoint
<1>1. IInv => PoolDisjoint
  BY DEF IInv
<1> QED BY <1>1, Inductive, PTL

\* The same holds of every table a later boot may find in the flash.
THEOREM StoredTablesAreDisjoint == Spec => []StoredTablesDisjoint
<1>1. IInv => StoredTablesDisjoint
  BY DEF IInv
<1> QED BY <1>1, Inductive, PTL

\* mapped_count never exceeds the pool: update_bmt and reconstruct_bmt need no
\* bounds check before they append to the table.
THEOREM TableAlwaysFits == Spec => []TableFits
<1>1. IInv => TableFits
  <2> SUFFICES ASSUME IInv PROVE TableFits
    OBVIOUS
  <2>1. mapped_count <= BmtBlockCount
    BY CountBound
  <2>2. pc = "update" => mapped_count < BmtBlockCount
    <3> SUFFICES ASSUME pc = "update" PROVE mapped_count < BmtBlockCount
      OBVIOUS
    <3>1. map_index \in Pool /\ Mapped \subseteq Pool \ {map_index}
      BY DEF IInv, PoolDisjoint
    <3>2. Distinct(mapped_count, table) /\ mapped_count \in Nat
      BY DEF IInv, PoolDisjoint, TypeOK
    <3>3. MappedTo(mapped_count, table) = Mapped
      BY DEF MappedTo, Mapped, Live
    <3> QED BY <3>1, <3>2, <3>3, PigeonHole
  <2> QED BY <2>1, <2>2 DEF TableFits
<1> QED BY <1>1, Inductive, PTL
-----------------------------------------------------------------------------
(* Failures lose nothing as long as power stays on.                         *)

\* What is known before and after a step of the steady system.
Ready == Steady /\ IInv /\ IInv' /\ HostInv /\ ~worn /\ ~worn'

\* A block of the host is mapped to itself or to the block of its entry.
LEMMA MapCases ==
  ASSUME IInv, NEW b \in System
  PROVE  \/ Map(b) = b /\ \A i \in Live : table[i].bad_index # b
         \/ /\ Map(b) \in Mapped /\ Map(b) \in Pool
            /\ \E i \in Live : table[i].bad_index = b /\ Map(b) = table[i].mapped_index
<1> DEFINE hits == {i \in Live : table[i].bad_index = b}
<1>1. ~(b > SystemBlockCount)
  BY Geometry DEF System
<1>2. CASE hits = {}
  BY <1>2 DEF Map
<1>3. CASE hits # {}
  <2>1. hits \in SUBSET Nat
    BY DEF Live, IInv, TypeOK
  <2>2. Min(hits) \in hits
    BY <1>3, <2>1, MinIn
  <2>3. Map(b) = table[Min(hits)].mapped_index
    BY <1>1, <1>3 DEF Map
  <2> HIDE DEF hits
  <2>4. Min(hits) \in Live /\ table[Min(hits)].bad_index = b
    BY <2>2 DEF hits
  <2>5. Map(b) \in Mapped /\ Map(b) \in Pool
    BY <2>3, <2>4 DEF IInv, PoolDisjoint, Mapped
  <2> QED BY <2>3, <2>4, <2>5
<1> QED BY <1>2, <1>3

\* Two blocks of the host never lie in the same block.
LEMMA MapInjective ==
  ASSUME IInv, NEW b \in System, NEW c \in System, Map(b) = Map(c)
  PROVE  b = c
<1>1. System \cap Pool = {}
  BY GeometryFacts, Geometry DEF System, Pool
<1>2. CASE Map(b) = b /\ Map(c) = c
  BY <1>2
<1>3. CASE Map(b) \in Pool /\ Map(c) \in Pool
  <2>1. PICK i \in Live : table[i].bad_index = b /\ Map(b) = table[i].mapped_index
    BY <1>1, <1>3, MapCases
  <2>2. PICK j \in Live : table[j].bad_index = c /\ Map(c) = table[j].mapped_index
    BY <1>1, <1>3, MapCases
  <2>3. i = j
    BY <2>1, <2>2 DEF IInv, PoolDisjoint, Distinct, Live
  <2> QED BY <2>1, <2>2, <2>3
<1> QED BY <1>1, <1>2, <1>3, MapCases

\* Pool blocks that are not mapped hold nothing of the host.
LEMMA MapElsewhere ==
  ASSUME IInv, NEW b \in System
  PROVE  Map(b) \in Blocks /\ \A x \in Pool \ Mapped : Map(b) # x
<1>1. System \cap Pool = {}
  BY GeometryFacts, Geometry DEF System, Pool
<1> QED BY <1>1, MapCases DEF Blocks

\* The mapping changes with the table only.
LEMMA MapStays ==
  ASSUME UNCHANGED <<table, mapped_count>>
  PROVE  /\ Live' = Live /\ Mapped' = Mapped
         /\ OneEntryPerBadBlock => OneEntryPerBadBlock'
         /\ \A b \in System : Map(b)' = Map(b)
BY DEF Live, Mapped, Map, OneEntryPerBadBlock

\* A command changes its own block only.
Elsewhere(x) == \A b \in Blocks : b # x => page'[b] = page[b]

\* A program command changes one page, and spoils it if it was in use.
LEMMA ProgramEffect ==
  ASSUME IInv, NEW x \in Blocks, NEW q \in Pages, NEW v, page' = Programmed(page, x, q, v)
  PROVE  /\ Elsewhere(x)
         /\ \A p \in Pages : p # q => page'[x][p] = page[x][p]
         /\ page'[x][q] = IF page[x][q] = Blank THEN v ELSE Junk
BY DEF IInv, TypeOK, Programmed, Elsewhere

\* So does one that fails.
LEMMA SpoilEffect ==
  ASSUME IInv, NEW x \in Blocks, NEW q \in Pages, page' = Spoiled(page, x, q)
  PROVE  /\ Elsewhere(x)
         /\ \A p \in Pages : p # q => page'[x][p] = page[x][p]
         /\ page'[x][q] = Junk
BY DEF IInv, TypeOK, Spoiled, Elsewhere

\* An erase command blanks its block.
LEMMA EraseEffect ==
  ASSUME IInv, NEW x \in Blocks, page' = Erased(page, x)
  PROVE  Elsewhere(x) /\ \A p \in Pages : page'[x][p] = Blank
BY DEF IInv, TypeOK, Erased, Elsewhere

\* One that fails may leave the block unreadable.
LEMMA SpoilBlockEffect ==
  ASSUME IInv, NEW x \in Blocks, page' = SpoiledBlock(page, x)
  PROVE  Elsewhere(x) /\ \A p \in Pages : page'[x][p] = Junk
BY DEF IInv, TypeOK, SpoiledBlock, Elsewhere

\* Pages that are in order for UnusedReadsErased.
Fair(v) == IsPageUsed(v) \/ Read(v) = FF

\* The pages the code writes are in order, and hold what they were made from.
LEMMA FairPages ==
  /\ Fair(Blank) /\ Fair(Junk)
  /\ \A n, t : Fair(TablePage(n, t))
  /\ \A i \in System \cup {FakeIndex} : \A d : Fair(DataPage(i, d)) /\ Read(DataPage(i, d)) = d
<1>1. NoIndex \notin System \cup {FakeIndex}
  <2>1. FakeIndex \in Nat /\ NoIndex \in Nat /\ FakeIndex < NoIndex
    BY DEF FakeIndex, NoIndex
  <2>2. SystemBlockCount \in Nat /\ SystemBlockCount <= FakeIndex
    BY <2>1, Geometry
  <2> QED BY <2>1, <2>2 DEF System
<1>2. Fair(Blank) /\ Fair(Junk) /\ \A n, t : Fair(TablePage(n, t))
  BY DEF Fair, Blank, Junk, TablePage, Read
<1>3. \A i \in System \cup {FakeIndex} : \A d : Fair(DataPage(i, d)) /\ Read(DataPage(i, d)) = d
  BY <1>1 DEF Fair, DataPage, IsPageUsed, Read
<1> QED BY <1>2, <1>3

\* Flash into which only such pages are written stays in order.
LEMMA ProgramFair ==
  ASSUME IInv, UnusedReadsErased, NEW x \in Blocks, NEW q \in Pages, NEW v, Fair(v),
         page' = Programmed(page, x, q, v) \/ page' = Spoiled(page, x, q)
  PROVE  UnusedReadsErased' /\ Elsewhere(x)
         /\ \A p \in Pages : p # q => page'[x][p] = page[x][p]
<1>1. /\ Elsewhere(x) /\ \A p \in Pages : p # q => page'[x][p] = page[x][p]
      /\ page'[x][q] \in {v, Junk}
  BY ProgramEffect, SpoilEffect
<1>2. Fair(page'[x][q])
  BY <1>1, FairPages
<1> QED BY <1>1, <1>2 DEF UnusedReadsErased, Elsewhere, Fair

\* So does an erase, whether it fails or not.
LEMMA EraseFair ==
  ASSUME IInv, UnusedReadsErased, NEW x \in Blocks,
         page' = Erased(page, x) \/ page' = SpoiledBlock(page, x) \/ page' = page
  PROVE  UnusedReadsErased' /\ Elsewhere(x)
<1>1. /\ Elsewhere(x)
      /\ \A p \in Pages : page'[x][p] \in {Blank, Junk} \/ page'[x][p] = page[x][p]
  BY EraseEffect, SpoilBlockEffect DEF Elsewhere
<1>2. \A p \in Pages : Fair(page'[x][p])
  BY <1>1, FairPages DEF Fair, UnusedReadsErased
<1> QED BY <1>1, <1>2 DEF UnusedReadsErased, Elsewhere, Fair
-----------------------------------------------------------------------------
(* Steps the host does not notice.                                          *)

\* Every block of the host stays where it is, and as it is.
Quietly == \A b \in System : Map(b)' = Map(b) /\ page'[Map(b)] = page[Map(b)]

\* No block of the host is marked bad.
NoneMarked == \A b \in System : Map(b) \in bad' => Map(b) \in bad

\* A command on a pool block that is not mapped is not noticed, ...
LEMMA QuietInPool ==
  ASSUME IInv, UNCHANGED <<table, mapped_count>>, NEW x \in Pool \ Mapped, Elsewhere(x)
  PROVE  Quietly
BY MapStays, MapElsewhere DEF Quietly, Elsewhere

\* ... nor is a step that leaves flash and table alone.
LEMMA QuietFlash == UNCHANGED <<page, table, mapped_count>> => Quietly
BY MapStays DEF Quietly

\* A mark on a pool block that is not mapped is none on a block of the host.
LEMMA MarkInPool ==
  ASSUME IInv, NEW x \in Pool \ Mapped, bad' \subseteq bad \cup {x}
  PROVE  NoneMarked
BY MapElsewhere DEF NoneMarked

\* The host may write on where it could, or no more.
NoMoreToWrite == \A b \in System : next_page'[b] \in {next_page[b], PagePerBlock}

\* No page lies at or behind PagePerBlock.
LEMMA PagesFew == \A p \in Pages : p \in Nat /\ ~(p >= PagePerBlock)
BY Geometry DEF Pages

\* The parts of the invariant about the host's blocks.
LEMMA HostKept ==
  ASSUME Ready, Quietly, NoneMarked, NoMoreToWrite, UNCHANGED <<req, void>>,
         pc \notin {"program", "erase"}, pc' \notin {"program", "erase"}
  PROVE  MappedIsGood' /\ RestIsErased' /\ ServeInv'
<1>1. MappedIsGood'
  BY DEF Ready, HostInv, MappedIsGood, Quietly, NoneMarked, NoMoreToWrite, IInv, TypeOK
<1>2. RestIsErased'
  <2>1. ASSUME NEW b \in System \ void, NEW p \in Pages, p >= next_page'[b]
        PROVE  page'[Map(b)'][p] = Blank \/ BeingWritten(b, p)'
    <3>1. page[Map(b)][p] = Blank \/ BeingWritten(b, p)
      <4>1. p >= next_page[b]
        BY <2>1, PagesFew DEF NoMoreToWrite
      <4> QED BY <4>1 DEF Ready, HostInv, RestIsErased
    <3>2. BeingWritten(b, p) => BeingWritten(b, p)'
      BY DEF BeingWritten
    <3>3. page'[Map(b)'] = page[Map(b)]
      BY DEF Quietly
    <3> QED BY <3>1, <3>2, <3>3
  <2> QED BY <2>1 DEF RestIsErased
<1>3. ServeInv'
  BY DEF Ready, HostInv, ServeInv, NoMoreToWrite, IInv, TypeOK
<1> QED BY <1>1, <1>2, <1>3

\* The part about an update in progress, while the block is looked for ...
LEMMA FindKept ==
  ASSUME Ready, Quietly, UNCHANGED <<req, reason, error_block, void>>, pc' = "find", Updating
  PROVE  UpdatingInv'
<1>1. req.block \in System
  BY DEF Ready, IInv, TypeOK
<1>2. Map(req.block)' = Map(req.block)
  BY <1>1 DEF Quietly
<1>3. /\ Reasons /\ error_block = Map(req.block)
      /\ req.op = "isbad" => req.block \in void
  BY DEF Ready, HostInv, UpdatingInv
<1>4. Reasons' /\ (error_block = Map(req.block))' /\ (req.op = "isbad" => req.block \in void)'
  BY <1>2, <1>3 DEF Reasons
<1> QED BY <1>4 DEF UpdatingInv

\* ... and after the table has been updated.
LEMMA UpdatedKept ==
  ASSUME Ready, Quietly, NoneMarked, UNCHANGED <<req, reason, error_block>>,
         pc \in {"find_bmt", "erase_bmt", "program_bmt", "mark"}
  PROVE  UpdatedInv'
<1>1. SUFFICES ASSUME Updated'
               PROVE  /\ Reasons' /\ Map(req.block)' \notin bad'
                      /\ \A b \in System : Map(b)' # error_block'
                      /\ reason' = "write_fail" => Read(page'[Map(req.block)'][req'.page]) = req'.data
  BY DEF UpdatedInv
<1>2. Updated
  BY <1>1 DEF Updated
<1>3. req.block \in System
  BY DEF Ready, IInv, TypeOK
<1>4. Map(req.block)' = Map(req.block) /\ page'[Map(req.block)] = page[Map(req.block)]
  BY <1>3 DEF Quietly
<1>5. /\ Reasons /\ Map(req.block) \notin bad
      /\ \A b \in System : Map(b) # error_block
      /\ reason = "write_fail" => Read(page[Map(req.block)][req.page]) = req.data
  BY <1>2 DEF Ready, HostInv, UpdatedInv
<1>6. Reasons' /\ Map(req.block)' \notin bad'
  BY <1>3, <1>4, <1>5 DEF Reasons, NoneMarked
<1>7. \A b \in System : Map(b)' # error_block'
  BY <1>5 DEF Quietly
<1>8. reason' = "write_fail" => Read(page'[Map(req.block)'][req'.page]) = req'.data
  BY <1>4, <1>5
<1> QED BY <1>6, <1>7, <1>8

\* No block becomes free, and those that were are as they were or erased.
LEMMA FreeKept ==
  ASSUME Ready, \A x \in (Free \ InUse)' : \/ x \in Free \ InUse /\ page'[x] = page[x]
                                           \/ \A p \in Pages : page'[x][p] = Blank
  PROVE  FreeIsErased'
BY DEF Ready, HostInv, FreeIsErased, ErasedBlock
-----------------------------------------------------------------------------
(* The steps of power-up.                                                   *)

\* With no entry every block is mapped to itself.
LEMMA MapEmpty == mapped_count = 0 => Live = {} /\ Mapped = {} /\ \A b \in System : Map(b) = b
<1> SUFFICES ASSUME mapped_count = 0 PROVE Live = {} /\ Mapped = {} /\ \A b \in System : Map(b) = b
  OBVIOUS
<1>1. Live = {}
  BY DEF Live
<1> QED BY <1>1 DEF Mapped, Map

\* The same of the next state.
LEMMA MapEmptyNext ==
  mapped_count' = 0 => Live' = {} /\ Mapped' = {} /\ \A b \in System : Map(b)' = b
<1>1. (mapped_count = 0 => Live = {} /\ Mapped = {} /\ \A b \in System : Map(b) = b)'
  BY MapEmpty, PTL
<1> QED BY <1>1

\* Until the first table is written nothing happens to the flash.
LEMMA BootHost ==
  ASSUME Ready, pc \in {"off", "scan"}, pc' \in {"scan", "find_bmt"}, mapped_count' = 0,
         bmt_block_index' = 0,
         UNCHANGED <<page, bad, req, next_page, void>>
  PROVE  HostInv' /\ Quietly
<1>1. req = NoReq
  BY DEF Ready, IInv, RequestInv
<1>2. mapped_count = 0 /\ \A b \in Blocks : ErasedBlock(b)
  BY <1>1 DEF Ready, HostInv, FirstBoot
<1>3. Quietly /\ Live' = {}
  BY <1>2, MapEmpty, MapEmptyNext DEF Quietly
<1>4. NoneMarked /\ NoMoreToWrite
  BY DEF NoneMarked, NoMoreToWrite
<1>5. UnusedReadsErased' /\ OneEntryPerBadBlock'
  BY <1>3 DEF Ready, HostInv, UnusedReadsErased, OneEntryPerBadBlock
<1>6. MappedIsGood' /\ RestIsErased' /\ ServeInv'
  BY <1>3, <1>4, HostKept
<1>7. \A b \in Blocks : ErasedBlock(b)'
  BY <1>2 DEF ErasedBlock
<1>8. FreeIsErased' /\ FirstBoot'
  BY <1>1, <1>7 DEF FreeIsErased, Free, FirstBoot, Blocks
<1>9. UpdatingInv' /\ UpdatedInv'
  BY <1>1 DEF UpdatingInv, UpdatedInv, Updating, Updated
<1> QED BY <1>3, <1>5, <1>6, <1>8, <1>9 DEF HostInv

\* A new chip has no table, so that there is nothing to forget.
LEMMA StartReconstructHost == ASSUME Ready, StartReconstruct PROVE HostInv' /\ Quietly
BY BootHost DEF StartReconstruct, flash, host

\* The spare area of a blank block names no block.
LEMMA ReconstructHost == ASSUME Ready, Reconstruct PROVE HostInv' /\ Quietly
<1>1. /\ pc = "scan" /\ pc' = "scan" /\ cur < BmtBlockCount
      /\ UNCHANGED <<page, bad, req, next_page, void>> /\ bmt_block_index' = 0
  BY DEF Reconstruct, flash, host, Ready, IInv, ScanInv
<1>2. SystemBlockCount + cur \in Blocks /\ 0 \in Pages
  BY <1>1, GeometryFacts DEF Ready, IInv, TypeOK, Blocks
<1>3. page[SystemBlockCount + cur][0] = Blank
  BY <1>1, <1>2 DEF Ready, HostInv, FirstBoot, ErasedBlock
<1>4. page[SystemBlockCount + cur][0].idx = NoIndex
  BY <1>3 DEF Blank
<1>5. NoIndex >= SystemBlockCount
  <2>1. FakeIndex \in Nat /\ NoIndex \in Nat /\ FakeIndex < NoIndex
    BY DEF FakeIndex, NoIndex
  <2> QED BY <2>1, Geometry
<1>6. UNCHANGED mapped_count
  BY <1>4, <1>5 DEF Reconstruct
<1>7. mapped_count = 0
  BY <1>1 DEF Ready, HostInv, FirstBoot, IInv, RequestInv
<1> QED BY <1>1, <1>6, <1>7, BootHost

\* The first table is written to a block that is looked for.
LEMMA ReconstructDoneHost == ASSUME Ready, ReconstructDone PROVE HostInv' /\ Quietly
<1>1. pc = "scan" /\ bmt_block_index = 0 /\ mapped_count = 0
  BY DEF ReconstructDone, Ready, IInv, ScanInv, HostInv, FirstBoot, RequestInv
<1>2. pc' = "find_bmt" /\ UNCHANGED <<page, bad, req, next_page, void, mapped_count, bmt_block_index>>
  BY <1>1 DEF ReconstructDone, WriteBmt, flash, bmt, host
<1> QED BY <1>1, <1>2, BootHost
-----------------------------------------------------------------------------
(* The steps of find_available_block.                                       *)

\* Marks reach the flash.
LEMMA MarkSure == ASSUME Steady, NEW b, MarkBlockBad(b) PROVE bad' = bad \cup {b}
BY DEF Steady, MarkBlockBad

\* Nothing is free that serves the host.
LEMMA FreeElsewhere ==
  ASSUME IInv, NEW b \in System
  PROVE  Map(b) \notin Free
BY MapElsewhere DEF Free

\* What the erase of the pool has to show.
LEMMA SearchHost ==
  ASSUME Ready, Finding, Quietly, NoneMarked, UnusedReadsErased', FreeIsErased',
         UNCHANGED <<table, mapped_count, bmt_block_index, pc, reason, error_block, host>>
  PROVE  HostInv'
<1>1. OneEntryPerBadBlock'
  BY MapStays DEF Ready, HostInv
<1>2. NoMoreToWrite /\ UNCHANGED <<req, next_page, void>> /\ pc \in {"find", "find_bmt"}
  BY DEF NoMoreToWrite, host, Finding
<1>3. MappedIsGood' /\ RestIsErased' /\ ServeInv'
  BY <1>2, HostKept
<1>4. UpdatingInv' /\ UpdatedInv'
  <2>1. CASE pc = "find"
    <3>1. UpdatingInv'
      BY <1>2, <2>1, FindKept DEF Updating
    <3>2. UpdatedInv'
      BY <2>1 DEF UpdatedInv, Updated
    <3> QED BY <3>1, <3>2
  <2>2. CASE pc = "find_bmt"
    <3>1. UpdatedInv'
      BY <1>2, <2>2, UpdatedKept
    <3>2. UpdatingInv'
      BY <2>2 DEF UpdatingInv, Updating
    <3> QED BY <3>1, <3>2
  <2> QED BY <1>2, <2>1, <2>2
<1>5. FirstBoot'
  BY <1>2 DEF Ready, HostInv, FirstBoot
<1> QED BY <1>1, <1>3, <1>4, <1>5 DEF HostInv

\* The pool is erased around what is mapped.
LEMMA ErasePoolHost == ASSUME Ready, ErasePool PROVE HostInv' /\ Quietly
<1> DEFINE x == SystemBlockCount + cur
<1>1. /\ Finding /\ cur < BmtBlockCount
      /\ UNCHANGED <<table, mapped_count, bmt_block_index, pc, reason, error_block, map_index, host>>
  BY DEF ErasePool, bmt
<1>2. x \in Pool /\ x \in Blocks
  BY <1>1, GeometryFacts DEF Ready, IInv, TypeOK, Blocks
<1>3. \/ UNCHANGED <<page, bad>>
      \/ x \notin Mapped /\ page' = Erased(page, x) /\ UNCHANGED bad
      \/ x \notin Mapped /\ EraseFails(x) /\ MarkBlockBad(x)
  BY DEF ErasePool, SkipInPool, flash
<1> HIDE DEF x
<1>4. /\ page' = Erased(page, x) \/ page' = SpoiledBlock(page, x) \/ page' = page
      /\ bad \subseteq bad' /\ bad' \subseteq bad \cup {x}
      /\ x \notin Mapped \/ UNCHANGED <<page, bad>>
  BY <1>3, MarkSure DEF Ready, EraseFails
<1>5. UnusedReadsErased' /\ Elsewhere(x)
  BY <1>2, <1>4, EraseFair DEF Ready, HostInv
<1>6. Quietly /\ NoneMarked
  <2>1. CASE x \notin Mapped
    BY <1>1, <1>2, <1>4, <1>5, <2>1, QuietInPool, MarkInPool DEF Ready
  <2>2. CASE UNCHANGED <<page, bad>>
    BY <1>1, <2>2, QuietFlash DEF NoneMarked
  <2> QED BY <1>4, <2>1, <2>2
<1>7. FreeIsErased'
  <2>1. Mapped' = Mapped /\ InUse' = InUse
    BY <1>1, MapStays DEF InUse, Updated, host
  <2>2. (Free \ InUse)' \subseteq Free \ InUse
    BY <1>1, <1>4, <2>1 DEF Free
  <2>3. ASSUME NEW y \in (Free \ InUse)'
        PROVE  page'[y] = page[y] \/ \A p \in Pages : page'[y][p] = Blank
    <3>1. y \in Blocks /\ y \notin bad'
      BY <2>3 DEF Free, Blocks
    <3>2. CASE y # x
      BY <1>5, <3>1, <3>2 DEF Elsewhere
    <3>3. CASE y = x
      <4>1. ~MarkBlockBad(x)
        BY <3>1, <3>3, MarkSure DEF Ready
      <4>2. UNCHANGED page \/ page' = Erased(page, x)
        BY <1>3, <4>1
      <4> QED BY <1>2, <3>3, <4>2, EraseEffect DEF Ready
    <3> QED BY <3>2, <3>3
  <2> QED BY <2>2, <2>3, FreeKept
<1> QED BY <1>1, <1>5, <1>6, <1>7, SearchHost

\* Steps that leave the flash alone leave alone what is free as long as the same
\* blocks are in use.
LEMMA FreeSame ==
  ASSUME Ready, UNCHANGED <<page, table, mapped_count>>, bad \subseteq bad',
         (Free \ InUse)' \subseteq Free \ InUse
  PROVE  FreeIsErased'
BY FreeKept

\* The end of the erase of the pool.
LEMMA PoolErasedHost == ASSUME Ready, PoolErased PROVE HostInv' /\ Quietly
<1>1. /\ Finding
      /\ UNCHANGED <<page, bad, table, mapped_count, bmt_block_index, pc, reason, error_block,
                     map_index, host>>
  BY DEF PoolErased, flash
<1>2. Quietly /\ NoneMarked
  BY <1>1, QuietFlash DEF NoneMarked
<1>3. UnusedReadsErased'
  BY <1>1 DEF Ready, HostInv, UnusedReadsErased
<1>4. FreeIsErased'
  <2>1. Mapped' = Mapped /\ InUse' = InUse
    BY <1>1, MapStays DEF InUse, Updated, host
  <2> QED BY <1>1, <2>1, FreeSame DEF Free
<1> QED BY <1>1, <1>2, <1>3, <1>4, SearchHost

\* The block found is erased, and in use from now on.
LEMMA FindBlockHost == ASSUME Ready, FindBlock PROVE HostInv' /\ Quietly
<1>1. /\ pc = "find" /\ map_index' \in Free
      /\ UNCHANGED <<page, bad, table, mapped_count, bmt_block_index, reason, error_block, host>>
      /\ \/ reason = "write_fail" /\ pc' = "migrate" /\ left' = Pages
         \/ reason # "write_fail" /\ pc' = "update"
  BY FreeBlocks DEF FindBlock, flash, bmt
<1>2. Quietly /\ NoneMarked /\ NoMoreToWrite /\ UNCHANGED <<req, next_page, void>>
  BY <1>1, QuietFlash DEF NoneMarked, NoMoreToWrite, host
<1>3. UnusedReadsErased' /\ OneEntryPerBadBlock'
  BY <1>1, MapStays DEF Ready, HostInv, UnusedReadsErased
<1>4. MappedIsGood' /\ RestIsErased' /\ ServeInv'
  BY <1>1, <1>2, HostKept
<1>5. FreeIsErased'
  <2>1. Mapped' = Mapped /\ InUse = {}
    BY <1>1, MapStays DEF InUse, Updated
  <2> QED BY <1>1, <2>1, FreeSame DEF Free
<1>6. map_index' \notin bad /\ \A p \in Pages : page[map_index'][p] = Blank
  <2>1. InUse = {}
    BY <1>1 DEF InUse, Updated
  <2> QED BY <1>1, <2>1 DEF Ready, HostInv, FreeIsErased, ErasedBlock, Free
<1>7. UpdatingInv'
  <2>1. Map(req.block)' = Map(req.block)
    BY <1>2 DEF Quietly, Ready, IInv, TypeOK
  <2>2. Reasons /\ error_block = Map(req.block) /\ (req.op = "isbad" => req.block \in void)
    BY <1>1 DEF Ready, HostInv, UpdatingInv, Updating
  <2>3. Reasons' /\ (error_block = Map(req.block))' /\ (req.op = "isbad" => req.block \in void)'
        /\ map_index' \notin bad'
    BY <1>1, <1>2, <1>6, <2>1, <2>2 DEF Reasons
  <2>4. pc' = "migrate" => /\ reason' = "write_fail"
                           /\ \A p \in left' : page'[map_index'][p] = Blank
                           /\ Pages \ left' = {}
    BY <1>1, <1>6
  <2>5. pc' = "update" => reason' # "write_fail" /\ ErasedBlock(map_index)'
    BY <1>1, <1>6 DEF ErasedBlock
  <2> QED BY <2>3, <2>4, <2>5 DEF UpdatingInv
<1>8. UpdatedInv' /\ FirstBoot'
  <2>1. req # NoReq
    BY <1>1 DEF Ready, HostInv, UpdatingInv, Updating, Reasons, NoReq
  <2> QED BY <1>1, <1>2, <2>1 DEF UpdatedInv, Updated, FirstBoot
<1> QED BY <1>2, <1>3, <1>4, <1>5, <1>7, <1>8 DEF HostInv

\* A search for the host that finds nothing is the end of the promise.
LEMMA NoBlockHost == Ready => ~NoBlock
<1> SUFFICES ASSUME Ready, NoBlock PROVE FALSE
  OBVIOUS
<1>1. req # NoReq
  BY DEF NoBlock, Ready, HostInv, UpdatingInv, Updating, Reasons, NoReq
<1> QED BY <1>1 DEF NoBlock, Refused, Ready

\* At boot nobody is waiting for the table.
LEMMA NoBmtBlockHost == ASSUME Ready, NoBmtBlock PROVE HostInv' /\ Quietly /\ UNCHANGED <<req, void>>
<1>1. req = NoReq
  BY DEF NoBmtBlock, Refused, Ready
<1>2. /\ pc = "find_bmt" /\ pc' = "idle"
      /\ UNCHANGED <<page, bad, table, mapped_count, bmt_block_index, req, void>>
      /\ next_page' = [next_page EXCEPT ![0] = PagePerBlock]
  BY <1>1 DEF NoBmtBlock, Refused, Idle, flash, bmt, NoReq
<1>3. Quietly /\ NoneMarked /\ NoMoreToWrite
  BY <1>2, QuietFlash DEF NoneMarked, NoMoreToWrite, Ready, IInv, TypeOK
<1>4. UnusedReadsErased' /\ OneEntryPerBadBlock'
  BY <1>2, MapStays DEF Ready, HostInv, UnusedReadsErased
<1>5. MappedIsGood' /\ RestIsErased' /\ ServeInv'
  BY <1>2, <1>3, HostKept
<1>6. FreeIsErased'
  <2>1. Mapped' = Mapped /\ InUse = {}
    BY <1>1, <1>2, MapStays DEF InUse, Updated
  <2> QED BY <1>2, <2>1, FreeSame DEF Free
<1>7. UpdatingInv' /\ UpdatedInv' /\ FirstBoot'
  BY <1>2 DEF UpdatingInv, Updating, UpdatedInv, Updated, FirstBoot
<1> QED BY <1>2, <1>3, <1>4, <1>5, <1>6, <1>7 DEF HostInv

\* A block for the table is one that nothing else uses.
LEMMA FindBmtBlockHost == ASSUME Ready, FindBmtBlock PROVE HostInv' /\ Quietly
<1>1. /\ pc = "find_bmt" /\ pc' = "program_bmt" /\ bmt_block_index' \in Free
      /\ UNCHANGED <<page, bad, table, mapped_count, reason, error_block, host>>
  BY FreeBlocks DEF FindBmtBlock, flash, locals
<1>2. Quietly /\ NoneMarked /\ NoMoreToWrite /\ UNCHANGED <<req, next_page, void>>
  BY <1>1, QuietFlash DEF NoneMarked, NoMoreToWrite, host
<1>3. UnusedReadsErased' /\ OneEntryPerBadBlock'
  BY <1>1, MapStays DEF Ready, HostInv, UnusedReadsErased
<1>4. MappedIsGood' /\ RestIsErased' /\ ServeInv'
  BY <1>1, <1>2, HostKept
<1>5. FreeIsErased'
  <2>1. Mapped' = Mapped
    BY <1>1, MapStays
  <2>2. InUse' = InUse
    BY <1>1, <1>2 DEF InUse, Updated
  <2>3. ASSUME NEW y \in (Free \ InUse)' PROVE y \in Free \ InUse
    <3>1. y \in Pool /\ y \notin bad /\ y \notin Mapped /\ y \notin InUse
      BY <1>1, <2>1, <2>2, <2>3 DEF Free
    <3>2. y # bmt_block_index
      <4>1. bmt_block_index = 0
        BY <1>1 DEF Ready, HostInv, FirstBoot
      <4> QED BY <3>1, <4>1, PoolNotZero
    <3> QED BY <3>1, <3>2 DEF Free
  <2> QED BY <1>1, <2>3, FreeSame
<1>6. UpdatedInv'
  BY <1>1, <1>2, UpdatedKept
<1>7. UpdatingInv' /\ FirstBoot'
  BY <1>1, <1>2 DEF UpdatingInv, Updating, FirstBoot, Ready, HostInv, Free
<1> QED BY <1>2, <1>3, <1>4, <1>5, <1>6, <1>7 DEF HostInv
-----------------------------------------------------------------------------
(* The steps of migrate_from_bad.                                           *)

\* What a migration knows of the page it is about to write.
LEMMA MigrateFacts ==
  ASSUME Ready, pc = "migrate"
  PROVE  /\ Reasons /\ error_block = Map(req.block) /\ reason = "write_fail"
         /\ req.op = "write" /\ req # NoReq
         /\ error_block \in Blocks /\ error_block # map_index
         /\ map_index \in Pool \ Mapped /\ map_index \in Blocks /\ map_index \notin bad
         /\ \A p \in left : page[map_index][p] = Blank
         /\ \A p \in Pages \ left : Copied(p)
         /\ req.block \in System
<1>1. Updating
  BY DEF Updating
<1>2. /\ Reasons /\ error_block = Map(req.block) /\ reason = "write_fail" /\ map_index \notin bad
      /\ \A p \in left : page[map_index][p] = Blank
      /\ \A p \in Pages \ left : Copied(p)
  BY <1>1 DEF Ready, HostInv, UpdatingInv
<1>3. req.op = "write" /\ req # NoReq
  BY <1>2 DEF Reasons, NoReq
<1>4. map_index \in Pool \ Mapped /\ map_index \in Blocks /\ req.block \in System
  BY DEF Ready, IInv, PoolDisjoint, TypeOK, Blocks
<1>5. error_block \in Blocks /\ error_block # map_index
  BY <1>2, <1>4, MapElsewhere DEF Ready
<1> QED BY <1>2, <1>3, <1>4, <1>5

\* The page it writes.
LEMMA MigratedFair ==
  ASSUME Ready, pc = "migrate", left # {}, ~Skipped(NextPage)
  PROVE  /\ Fair(Migrated(NextPage))
         /\ NextPage = req.page => Read(Migrated(NextPage)) = req.data
         /\ NextPage # req.page =>
              /\ Read(Migrated(NextPage)) = Read(page[error_block][NextPage])
              /\ page[error_block][NextPage] # Blank
<1> DEFINE p   == NextPage
           old == page[error_block][p]
<1>1. p \in Pages /\ error_block \in Blocks /\ req.block \in System
  BY NextPageType, MigrateFacts DEF Ready
<1>2. CASE p = req.page
  <2>1. Migrated(p) = DataPage(req.block, req.data)
    BY <1>2 DEF Migrated
  <2> QED BY <1>1, <1>2, <2>1, FairPages
<1>3. CASE p # req.page
  <2>1. IsPageUsed(old) /\ old # Blank /\ old \in Page
    BY <1>1, <1>3 DEF Skipped, IsPageUsed, Blank, Ready, IInv, TypeOK
  <2>2. CASE error_block < SystemBlockCount
    <3>1. error_block \in System /\ error_block # NoIndex
      <4>1. error_block \in System
        BY <1>1, <2>2, GeometryFacts
      <4>2. FakeIndex \in Nat /\ NoIndex \in Nat /\ FakeIndex < NoIndex
        BY DEF FakeIndex, NoIndex
      <4>3. SystemBlockCount \in Nat /\ SystemBlockCount <= FakeIndex
        BY <4>2, Geometry
      <4> QED BY <4>1, <4>2, <4>3, GeometryFacts
    <3>2. Migrated(p) = [old EXCEPT !.idx = error_block]
      BY <1>3, <2>2 DEF Migrated
    <3> HIDE DEF old
    <3>3. Migrated(p).idx = error_block /\ Migrated(p).data = old.data
      BY <2>1, <3>2 DEF Page
    <3> QED BY <1>3, <2>1, <3>1, <3>3 DEF Fair, IsPageUsed, Read, old
  <2>3. CASE ~(error_block < SystemBlockCount)
    <3>1. Migrated(p) = old
      BY <1>3, <2>3 DEF Migrated
    <3> QED BY <1>3, <2>1, <3>1 DEF Fair
  <2> QED BY <2>2, <2>3
<1> QED BY <1>2, <1>3

\* A page is copied, or is as good as copied because it is erased.
LEMMA MigrateHost == ASSUME Ready, Migrate PROVE HostInv' /\ Quietly
<1> DEFINE p == NextPage
           x == map_index
<1>1. /\ pc = "migrate" /\ pc' = "migrate" /\ left # {} /\ left' = left \ {p}
      /\ UNCHANGED <<bad, table, mapped_count, bmt_block_index, reason, error_block, map_index, host>>
      /\ page' = IF Skipped(p) THEN page ELSE Programmed(page, x, p, Migrated(p))
  BY DEF Migrate, bmt
<1>2. /\ p \in left /\ p \in Pages
      /\ page[x][p] = Blank /\ x \in Pool \ Mapped /\ x \in Blocks
      /\ error_block \in Blocks /\ error_block # x
  <2>1. p \in left
    <3>1. left \in SUBSET Nat
      BY GeometryFacts DEF Ready, IInv, TypeOK
    <3> QED BY <1>1, <3>1, MinIn DEF NextPage
  <2> QED BY <1>1, <2>1, MigrateFacts DEF Ready, IInv, TypeOK
<1>3. /\ UnusedReadsErased' /\ Elsewhere(x)
      /\ \A q \in Pages : q # p => page'[x][q] = page[x][q]
  <2>1. CASE Skipped(p)
    BY <1>1, <2>1 DEF Ready, HostInv, UnusedReadsErased, Elsewhere
  <2>2. CASE ~Skipped(p)
    BY <1>1, <1>2, <2>2, MigratedFair, ProgramFair DEF Ready, HostInv
  <2> QED BY <2>1, <2>2
<1>4. page'[x][p] = IF Skipped(p) THEN Blank ELSE Migrated(p)
  BY <1>1, <1>2, ProgramEffect DEF Ready
<1>5. Quietly /\ NoneMarked /\ NoMoreToWrite /\ UNCHANGED <<req, next_page, void>>
  BY <1>1, <1>2, <1>3, QuietInPool DEF NoneMarked, NoMoreToWrite, host, Ready
<1>6. OneEntryPerBadBlock'
  BY <1>1, MapStays DEF Ready, HostInv
<1>7. MappedIsGood' /\ RestIsErased' /\ ServeInv'
  BY <1>1, <1>5, HostKept
<1>8. FreeIsErased'
  <2>1. Mapped' = Mapped /\ InUse = {x} /\ InUse' = {x}
    BY <1>1, MapStays DEF InUse
  <2>2. (Free \ InUse)' \subseteq Free \ InUse
    BY <1>1, <2>1 DEF Free
  <2>3. \A y \in (Free \ InUse)' : page'[y] = page[y]
    BY <1>3, <2>1 DEF Elsewhere, Free, Blocks
  <2> QED BY <2>2, <2>3, FreeKept
<1>9. UpdatingInv'
  <2>1. Map(req.block)' = Map(req.block)
    BY <1>5 DEF Quietly, Ready, IInv, TypeOK
  <2>2. /\ Reasons' /\ (error_block = Map(req.block))' /\ map_index' \notin bad'
        /\ reason' = "write_fail" /\ req'.op = "write"
    BY <1>1, <1>5, <2>1, MigrateFacts DEF Reasons
  <2>3. \A q \in left' : page'[x][q] = Blank
    BY <1>1, <1>3, MigrateFacts DEF Ready, IInv, TypeOK
  <2>4. ASSUME NEW q \in Pages \ left' PROVE Copied(q)'
    <3>1. page'[error_block] = page[error_block]
      BY <1>2, <1>3 DEF Elsewhere
    <3>2. CASE q # p
      <4>1. Copied(q)
        BY <1>1, <2>4, <3>2, MigrateFacts
      <4>2. page'[x][q] = page[x][q]
        BY <1>3, <2>4, <3>2
      <4> QED BY <1>1, <1>5, <3>1, <4>1, <4>2 DEF Copied
    <3>3. CASE q = p /\ ~Skipped(p)
      <4>1. page'[x][p] = Migrated(p)
        BY <1>4, <3>3
      <4> QED BY <1>1, <1>5, <3>1, <3>3, <4>1, MigratedFair DEF Copied
    <3>4. CASE q = p /\ Skipped(p)
      <4>1. p # req.page /\ ~IsPageUsed(page[error_block][p])
        BY <3>4 DEF Skipped
      <4>2. Read(page[error_block][p]) = FF
        BY <1>2, <4>1 DEF Ready, HostInv, UnusedReadsErased
      <4>3. page'[x][p] = Blank /\ Read(Blank) = FF
        BY <1>4, <3>4 DEF Read, Blank
      <4> QED BY <1>1, <1>5, <3>1, <3>4, <4>1, <4>2, <4>3 DEF Copied
    <3> QED BY <3>2, <3>3, <3>4
  <2> QED BY <1>1, <2>2, <2>3, <2>4 DEF UpdatingInv
<1>10. UpdatedInv' /\ FirstBoot'
  <2>1. req # NoReq
    BY <1>1, MigrateFacts
  <2> QED BY <1>1, <1>5, <2>1 DEF UpdatedInv, Updated, FirstBoot
<1> QED BY <1>3, <1>5, <1>6, <1>7, <1>8, <1>9, <1>10 DEF HostInv

\* The block that failed is marked, so that it is not taken again.
LEMMA MigrateFailsHost == ASSUME Ready, MigrateFails PROVE HostInv' /\ Quietly
<1> DEFINE p == NextPage
           x == map_index
<1>1. /\ pc = "migrate" /\ pc' = "find" /\ left # {} /\ ~Skipped(p)
      /\ UNCHANGED <<table, mapped_count, bmt_block_index, reason, error_block, map_index, host>>
      /\ page' \in {Programmed(page, x, p, Migrated(p)), Spoiled(page, x, p)}
      /\ bad' = bad \cup {x}
  BY MarkSure DEF MigrateFails, ProgramFails, bmt, Ready
<1>2. p \in Pages /\ x \in Pool \ Mapped /\ x \in Blocks
  BY <1>1, NextPageType, MigrateFacts DEF Ready
<1>3. UnusedReadsErased' /\ Elsewhere(x)
  BY <1>1, <1>2, MigratedFair, ProgramFair DEF Ready, HostInv
<1>4. Quietly /\ NoneMarked /\ NoMoreToWrite /\ UNCHANGED <<req, next_page, void>>
  BY <1>1, <1>2, <1>3, QuietInPool, MarkInPool DEF NoMoreToWrite, host, Ready
<1>5. OneEntryPerBadBlock'
  BY <1>1, MapStays DEF Ready, HostInv
<1>6. MappedIsGood' /\ RestIsErased' /\ ServeInv'
  BY <1>1, <1>4, HostKept
<1>7. FreeIsErased'
  <2>1. Mapped' = Mapped /\ InUse = {x}
    BY <1>1, MapStays DEF InUse
  <2>2. (Free \ InUse)' \subseteq Free \ InUse
    BY <1>1, <2>1 DEF Free
  <2>3. \A y \in (Free \ InUse)' : page'[y] = page[y]
    BY <1>3, <2>1, <2>2 DEF Elsewhere, Free, Blocks
  <2> QED BY <2>2, <2>3, FreeKept
<1>8. UpdatingInv'
  BY <1>1, <1>4, FindKept DEF Updating
<1>9. UpdatedInv' /\ FirstBoot'
  <2>1. req # NoReq
    BY <1>1, MigrateFacts
  <2> QED BY <1>1, <1>4, <2>1 DEF UpdatedInv, Updated, FirstBoot
<1> QED BY <1>3, <1>4, <1>5, <1>6, <1>7, <1>8, <1>9 DEF HostInv

\* At the end of a migration every page has been copied.
LEMMA MigrateDoneHost == ASSUME Ready, MigrateDone PROVE HostInv' /\ Quietly
<1>1. /\ pc = "migrate" /\ pc' = "update" /\ left = {}
      /\ UNCHANGED <<page, bad, table, mapped_count, bmt_block_index, reason, error_block,
                     map_index, host>>
  BY DEF MigrateDone, flash, bmt, locals
<1>2. Quietly /\ NoneMarked /\ NoMoreToWrite /\ UNCHANGED <<req, next_page, void>>
  BY <1>1, QuietFlash DEF NoneMarked, NoMoreToWrite, host
<1>3. UnusedReadsErased' /\ OneEntryPerBadBlock'
  BY <1>1, MapStays DEF Ready, HostInv, UnusedReadsErased
<1>4. MappedIsGood' /\ RestIsErased' /\ ServeInv'
  BY <1>1, <1>2, HostKept
<1>5. FreeIsErased'
  <2>1. Mapped' = Mapped /\ InUse' = InUse
    BY <1>1, MapStays DEF InUse
  <2> QED BY <1>1, <2>1, FreeSame DEF Free
<1>6. UpdatingInv'
  <2>1. Map(req.block)' = Map(req.block)
    BY <1>2 DEF Quietly, Ready, IInv, TypeOK
  <2>2. /\ Reasons' /\ (error_block = Map(req.block))' /\ map_index' \notin bad'
        /\ reason' = "write_fail" /\ req'.op = "write"
    BY <1>1, <1>2, <2>1, MigrateFacts DEF Reasons
  <2>3. ASSUME NEW q \in Pages PROVE Copied(q)'
    <3>1. Copied(q)
      BY <1>1, MigrateFacts
    <3> QED BY <1>1, <1>2, <3>1 DEF Copied
  <2> QED BY <1>1, <2>2, <2>3 DEF UpdatingInv
<1>7. UpdatedInv' /\ FirstBoot'
  <2>1. req # NoReq
    BY <1>1, MigrateFacts
  <2> QED BY <1>1, <1>2, <2>1 DEF UpdatedInv, Updated, FirstBoot
<1> QED BY <1>2, <1>3, <1>4, <1>5, <1>6, <1>7 DEF HostInv
-----------------------------------------------------------------------------
(* The steps of update_bmt.                                                 *)

\* Where block b lies, in this state and in the next.
Lies(b) == \/ Map(b) = b /\ \A i \in Live : table[i].bad_index # b
           \/ \E i \in Live : table[i].bad_index = b /\ Map(b) = table[i].mapped_index

\* Every block of the host lies somewhere, ...
LEMMA AllLie == IInv => \A b \in System : Lies(b)
BY MapCases DEF Lies

\* ... also in the next state.
LEMMA AllLieNext == IInv' => \A b \in System : Lies(b)'
<1>1. (IInv => \A b \in System : Lies(b))'
  BY AllLie, PTL
<1> QED BY <1>1

\* MapCases of the next state, in terms of the table.
LEMMA MapCasesNext ==
  ASSUME IInv', NEW b \in System
  PROVE  \/ Map(b)' = b /\ \A i \in Live' : table'[i].bad_index # b
         \/ \E i \in Live' : table'[i].bad_index = b /\ Map(b)' = table'[i].mapped_index
<1>1. Lies(b)'
  BY AllLieNext
<1> QED BY <1>1 DEF Lies

\* What an update knows of the two blocks.
LEMMA UpdateFacts ==
  ASSUME Ready, pc = "update"
  PROVE  /\ Reasons /\ error_block = Map(req.block) /\ req.block \in System /\ req # NoReq
         /\ map_index \in Pool \ Mapped /\ map_index # bmt_block_index /\ map_index \notin bad
         /\ req.op = "isbad" => req.block \in void
         /\ IF reason = "write_fail" THEN \A p \in Pages : Copied(p) ELSE ErasedBlock(map_index)
         /\ error_block \in Blocks /\ error_block # map_index
<1>1. Updating /\ pc # "find" /\ pc # "migrate"
  BY DEF Updating
<1>2. /\ Reasons /\ error_block = Map(req.block) /\ map_index \notin bad
      /\ req.op = "isbad" => req.block \in void
      /\ IF reason = "write_fail" THEN \A p \in Pages : Copied(p) ELSE ErasedBlock(map_index)
  BY <1>1 DEF Ready, HostInv, UpdatingInv
<1>3. /\ map_index \in Pool \ Mapped /\ map_index # bmt_block_index
      /\ req.block \in System /\ req # NoReq
  BY <1>2 DEF Ready, IInv, PoolDisjoint, TypeOK, Reasons, NoReq
<1>4. error_block \in Blocks /\ error_block # map_index
  BY <1>2, <1>3, MapElsewhere DEF Ready
<1> QED BY <1>2, <1>3, <1>4

\* What the update of the table relies on, with power failing or not.
CanUpdate == /\ IInv /\ IInv' /\ BmtBlockCount < CountModulus
             /\ OneEntryPerBadBlock /\ error_block = Map(req.block)

\* There is room for an entry, since map_index has none.
LEMMA RoomForEntry ==
  ASSUME CanUpdate, pc = "update"
  PROVE  /\ req.block \in System /\ error_block \in Blocks
         /\ mapped_count \in Nat /\ mapped_count < BmtBlockCount
<1>1. Distinct(mapped_count, table) /\ MappedTo(mapped_count, table) \subseteq Pool \ {map_index}
  BY DEF CanUpdate, IInv, PoolDisjoint, Mapped, MappedTo, Live
<1>2. mapped_count \in Nat /\ req.block \in System /\ error_block \in Blocks
  BY DEF CanUpdate, IInv, TypeOK
<1>3. map_index \in Pool
  BY DEF CanUpdate, IInv, PoolDisjoint
<1> QED BY <1>1, <1>2, <1>3, PigeonHole

\* The entry of a block that was mapped already is changed, ...
LEMMA EntryChanged ==
  ASSUME CanUpdate, UpdateTable, error_block >= SystemBlockCount
  PROVE  /\ Live' = Live
         /\ \A i \in Live : table'[i].bad_index = table[i].bad_index
         /\ \E i \in Live : /\ table[i].bad_index = req.block
                            /\ table[i].mapped_index = error_block
                            /\ table'[i].mapped_index = map_index
                            /\ \A j \in Live : j # i => table'[j] = table[j]
<1> DEFINE hits == {i \in 0 .. BmtBlockCount - 1 : table[i].mapped_index = error_block}
           n == IF hits = {} THEN BmtBlockCount ELSE Min(hits)
<1>1. /\ pc = "update" /\ mapped_count' = mapped_count
      /\ table' = [table EXCEPT ![n].mapped_index = map_index]
  BY DEF UpdateTable
<1>2. /\ req.block \in System /\ error_block = Map(req.block) /\ mapped_count < BmtBlockCount
      /\ mapped_count \in Nat /\ BmtBlockCount \in Nat /\ table \in [Slots -> Entry]
  BY <1>1, RoomForEntry, Geometry DEF CanUpdate, IInv, TypeOK
<1>3. error_block \notin System
  BY <1>2, GeometryFacts, Geometry DEF System
<1>4. PICK i \in Live : table[i].bad_index = req.block /\ table[i].mapped_index = error_block
  BY <1>2, <1>3, MapCases DEF CanUpdate
<1>5. i \in hits /\ hits \in SUBSET Nat
  BY <1>2, <1>4 DEF Live
<1>6. Min(hits) \in hits /\ Min(hits) <= i
  <2> HIDE DEF hits
  <2>1. PICK m \in hits : \A y \in hits : m <= y
    <3>1. PICK m \in hits : \A y \in hits : <<y, m>> \notin Less
      BY <1>5, LessWellFounded, WFMin
    <3>2. \A y \in hits : m <= y
      <4> SUFFICES ASSUME NEW y \in hits PROVE m <= y
        OBVIOUS
      <4>1. <<y, m>> \in Nat \X Nat
        BY <1>5
      <4> QED BY <1>5, <3>1, <4>1 DEF Less
    <3> QED BY <3>2
  <2> QED BY <1>5, <2>1 DEF Min
<1>7. n \in Live /\ table[n].mapped_index = error_block
  <2>1. n = Min(hits)
    BY <1>5
  <2> QED BY <1>2, <1>4, <1>6, <2>1 DEF Live
<1> HIDE DEF n
<1>8. n = i
  BY <1>4, <1>7 DEF CanUpdate, IInv, PoolDisjoint, Distinct, Live
<1>9. Live' = Live /\ Live \subseteq Slots
  BY <1>1, <1>2 DEF Live, Slots
<1>10. \A j \in Live : /\ table'[j].bad_index = table[j].bad_index
                       /\ j # n => table'[j] = table[j]
                       /\ j = n => table'[j].mapped_index = map_index
  BY <1>1, <1>2, <1>9 DEF Entry
<1> QED BY <1>4, <1>8, <1>9, <1>10

\* ... one that was not gets an entry of its own.
LEMMA EntryAdded ==
  ASSUME CanUpdate, UpdateTable, ~(error_block >= SystemBlockCount)
  PROVE  /\ error_block = req.block /\ \A i \in Live : table[i].bad_index # req.block
         /\ Live' = Live \cup {mapped_count} /\ mapped_count \notin Live
         /\ \A i \in Live : table'[i] = table[i]
         /\ table'[mapped_count] = [bad_index |-> error_block, mapped_index |-> map_index]
<1>1. /\ pc = "update" /\ mapped_count' = (mapped_count + 1) % CountModulus
      /\ table' = [table EXCEPT ![mapped_count] = [bad_index |-> error_block, mapped_index |-> map_index]]
  BY DEF UpdateTable
<1>2. /\ req.block \in System /\ error_block = Map(req.block) /\ mapped_count < BmtBlockCount
      /\ mapped_count \in Nat /\ BmtBlockCount \in Nat /\ table \in [Slots -> Entry]
      /\ error_block \in Blocks
  BY <1>1, RoomForEntry, Geometry DEF CanUpdate, IInv, TypeOK
<1>3. mapped_count' = mapped_count + 1
  <2>1. mapped_count + 1 < CountModulus /\ CountModulus \in Nat \ {0}
    BY <1>2, Bounds DEF CanUpdate
  <2> QED BY <1>1, <1>2, <2>1
<1>4. error_block \notin Pool
  BY <1>2, GeometryFacts
<1>5. error_block = req.block /\ \A i \in Live : table[i].bad_index # req.block
  BY <1>2, <1>4, MapCases DEF CanUpdate
<1>6. Live' = Live \cup {mapped_count} /\ mapped_count \notin Live
  BY <1>2, <1>3 DEF Live
<1>7. /\ \A i \in Live : table'[i] = table[i]
      /\ table'[mapped_count] = [bad_index |-> error_block, mapped_index |-> map_index]
  BY <1>1, <1>2 DEF Live, Slots
<1> QED BY <1>5, <1>6, <1>7

\* Either way the block lies in the new block, and all others where they were.
LEMMA TableUpdated ==
  ASSUME CanUpdate, UpdateTable
  PROVE  /\ OneEntryPerBadBlock'
         /\ \A b \in System : Map(b)' = IF b = req.block THEN map_index ELSE Map(b)
         /\ \A y \in Pool : y \notin Mapped' => y \notin Mapped \/ y = error_block
         /\ map_index \in Mapped'
<1>1. CASE error_block >= SystemBlockCount
  <2>1. /\ Live' = Live
        /\ \A i \in Live : table'[i].bad_index = table[i].bad_index
    BY <1>1, EntryChanged
  <2>2. PICK i \in Live : /\ table[i].bad_index = req.block
                          /\ table[i].mapped_index = error_block
                          /\ table'[i].mapped_index = map_index
                          /\ \A j \in Live : j # i => table'[j] = table[j]
    BY <1>1, EntryChanged
  <2>3. OneEntryPerBadBlock'
    BY <2>1 DEF OneEntryPerBadBlock, CanUpdate
  <2>4. ASSUME NEW b \in System, b = req.block PROVE Map(b)' = map_index
    <3>1. req.block \in System
      BY DEF CanUpdate, IInv, TypeOK
    <3>2. \A j \in Live' : table'[j].bad_index = req.block => j = i
      BY <2>1, <2>2 DEF OneEntryPerBadBlock, CanUpdate
    <3> QED BY <2>1, <2>2, <2>4, <3>1, <3>2, MapCasesNext DEF CanUpdate
  <2>5. ASSUME NEW b \in System, b # req.block PROVE Map(b)' = Map(b)
    <3>1. \A j \in Live : table[j].bad_index = b => table'[j] = table[j]
      BY <2>2, <2>5
    <3>2. \A j, k \in Live : table[j].bad_index = b /\ table[k].bad_index = b => j = k
      BY DEF OneEntryPerBadBlock, CanUpdate
    <3>3. CASE \A j \in Live : table[j].bad_index # b
      BY <2>1, <3>3, MapCases, MapCasesNext DEF CanUpdate
    <3>4. ASSUME NEW j \in Live, table[j].bad_index = b PROVE Map(b)' = Map(b)
      <4>1. Map(b) = table[j].mapped_index
        BY <3>2, <3>4, MapCases DEF CanUpdate
      <4>2. Map(b)' = table'[j].mapped_index
        BY <2>1, <3>2, <3>4, MapCasesNext DEF CanUpdate
      <4> QED BY <3>1, <3>4, <4>1, <4>2
    <3> QED BY <3>3, <3>4
  <2>6. Mapped' = {table'[j].mapped_index : j \in Live}
    BY <2>1 DEF Mapped
  <2>7. ASSUME NEW y \in Pool, y \notin Mapped', y \in Mapped PROVE y = error_block
    <3>1. PICK j \in Live : y = table[j].mapped_index
      BY <2>7 DEF Mapped
    <3> QED BY <2>2, <2>6, <2>7, <3>1
  <2> QED BY <2>2, <2>3, <2>4, <2>5, <2>6, <2>7
<1>2. CASE ~(error_block >= SystemBlockCount)
  <2>1. /\ error_block = req.block /\ \A i \in Live : table[i].bad_index # req.block
        /\ Live' = Live \cup {mapped_count} /\ mapped_count \notin Live
        /\ \A i \in Live : table'[i] = table[i]
        /\ table'[mapped_count].bad_index = req.block
        /\ table'[mapped_count].mapped_index = map_index
    BY <1>2, EntryAdded
  <2>2. OneEntryPerBadBlock'
    BY <2>1 DEF OneEntryPerBadBlock, CanUpdate
  <2>3. ASSUME NEW b \in System, b = req.block PROVE Map(b)' = map_index
    <3>1. req.block \in System
      BY DEF CanUpdate, IInv, TypeOK
    <3>2. \A j \in Live' : table'[j].bad_index = req.block => j = mapped_count
      BY <2>1
    <3> QED BY <2>1, <2>3, <3>1, <3>2, MapCasesNext DEF CanUpdate
  <2>4. ASSUME NEW b \in System, b # req.block PROVE Map(b)' = Map(b)
    <3>1. \A j \in Live' : table'[j].bad_index = b => j \in Live
      BY <2>1, <2>4
    <3>2. \A j, k \in Live : table[j].bad_index = b /\ table[k].bad_index = b => j = k
      BY DEF OneEntryPerBadBlock, CanUpdate
    <3>3. CASE \A j \in Live : table[j].bad_index # b
      BY <2>1, <3>1, <3>3, MapCases, MapCasesNext DEF CanUpdate
    <3>4. ASSUME NEW j \in Live, table[j].bad_index = b PROVE Map(b)' = Map(b)
      <4>1. Map(b) = table[j].mapped_index
        BY <3>2, <3>4, MapCases DEF CanUpdate
      <4>2. j \in Live' /\ table'[j] = table[j]
        BY <2>1
      <4>3. \A k \in Live' : table'[k].bad_index = b => k = j
        BY <2>1, <3>1, <3>2, <3>4
      <4>4. Map(b)' = table'[j].mapped_index
        BY <3>4, <4>2, <4>3, MapCasesNext DEF CanUpdate
      <4> QED BY <4>1, <4>2, <4>4
    <3> QED BY <3>3, <3>4
  <2>5. Mapped \subseteq Mapped' /\ map_index \in Mapped'
    BY <2>1 DEF Mapped
  <2> QED BY <2>2, <2>3, <2>4, <2>5
<1> QED BY <1>1, <1>2

\* Without loss of power that is so.
LEMMA ReadyCanUpdate == Ready /\ pc = "update" => CanUpdate
BY UpdateFacts DEF Ready, HostInv, Steady, CanUpdate

\* What a read of page p of the host's block b returns.
Shown(b, p) == Read(page[Map(b)][p])

\* Nothing but what the request in progress addresses changes.
OnlyRequest ==
  \A b \in System : \A p \in Pages :
    \/ Shown(b, p)' = Shown(b, p)
    \/ b \in void
    \/ req.op = "erase" /\ b = req.block
    \/ req.op = "write" /\ b = req.block /\ p = req.page /\ Shown(b, p)' \in {req.data, FF}

\* A block of the host that an erase does not reach, and one that a boot without
\* a table gives back.
StuckHere(b) == Map(b) # b /\ ~ErasedBlock(Map(b))
LooseHere(b) == Map(b) # b /\ b \notin bad

\* Only a write makes an erase miss its block, and only the block of the request
\* is moved.
Confined ==
  \A b \in System : /\ StuckHere(b)' => StuckHere(b) \/ (req.op = "write" /\ b = req.block)
                    /\ Map(b)' # Map(b) => req # NoReq /\ b = req.block

\* A quiet step does neither.
LEMMA QuietConfined == Quietly => Confined
<1> SUFFICES ASSUME Quietly, NEW b \in System
             PROVE  /\ StuckHere(b)' => StuckHere(b)
                    /\ Map(b)' = Map(b)
  BY DEF Confined
<1>1. Map(b)' = Map(b) /\ page'[Map(b)] = page[Map(b)]
  BY DEF Quietly
<1>2. ErasedBlock(Map(b)) => ErasedBlock(Map(b))'
  BY <1>1 DEF ErasedBlock
<1> QED BY <1>1, <1>2 DEF StuckHere

\* What lies where it was reads as it did.
LEMMA QuietlyShown == Quietly => \A b \in System : \A p \in Pages : Shown(b, p)' = Shown(b, p)
BY DEF Quietly, Shown

\* The new block is as good as the old one was.
LEMMA UpdateTableHost == ASSUME Ready, UpdateTable PROVE HostInv' /\ OnlyRequest /\ Confined
<1>1. /\ pc = "update" /\ pc' = IF bmt_block_index = 0 THEN "find_bmt" ELSE "erase_bmt"
      /\ UNCHANGED <<page, bad, bmt_block_index, reason, error_block, map_index, host>>
  BY DEF UpdateTable, WriteBmt, flash, locals
<1>2. UNCHANGED <<req, next_page, void>>
  BY <1>1 DEF host
<1>3. /\ OneEntryPerBadBlock'
      /\ \A b \in System : Map(b)' = IF b = req.block THEN map_index ELSE Map(b)
      /\ \A y \in Pool : y \notin Mapped' => y \notin Mapped \/ y = error_block
      /\ map_index \in Mapped'
  BY <1>1, ReadyCanUpdate, TableUpdated
<1>4. /\ Reasons /\ error_block = Map(req.block) /\ req.block \in System /\ req # NoReq
      /\ map_index \in Pool \ Mapped /\ map_index # bmt_block_index /\ map_index \notin bad
      /\ req.op = "isbad" => req.block \in void
      /\ IF reason = "write_fail" THEN \A p \in Pages : Copied(p) ELSE ErasedBlock(map_index)
      /\ error_block \in Blocks /\ error_block # map_index
  BY <1>1, UpdateFacts
<1>5. UnusedReadsErased'
  BY <1>1 DEF UnusedReadsErased, Ready, HostInv
<1>6. MappedIsGood'
  BY <1>1, <1>2, <1>3, <1>4 DEF MappedIsGood, Ready, HostInv
<1>7. req.op = "write" => next_page[req.block] = req.page /\ req.page \in Pages
  BY DEF Ready, IInv, RequestInv, TypeOK
<1>8. reason = "write_fail" <=> req.op = "write"
  BY <1>4 DEF Reasons
<1>9. RestIsErased'
  <2>1. ASSUME NEW b \in System \ void, NEW p \in Pages, p >= next_page[b]
        PROVE  page'[Map(b)'][p] = Blank \/ BeingWritten(b, p)'
    <3>1. page[Map(b)][p] = Blank \/ (req.op = "write" /\ req.block = b /\ req.page = p)
      BY <2>1 DEF RestIsErased, BeingWritten, Ready, HostInv
    <3>2. CASE b # req.block
      BY <1>1, <1>3, <3>1, <3>2
    <3>3. CASE b = req.block /\ reason # "write_fail"
      BY <1>1, <1>3, <1>4, <3>3 DEF ErasedBlock
    <3>4. CASE b = req.block /\ reason = "write_fail" /\ p # req.page
      <4>1. page[error_block][p] = Blank
        BY <1>4, <3>1, <3>4
      <4>2. Copied(p)
        BY <1>4, <3>4
      <4>3. page[map_index][p] = Blank
        BY <3>4, <4>1, <4>2 DEF Copied
      <4> QED BY <1>1, <1>3, <3>4, <4>3
    <3>5. CASE b = req.block /\ reason = "write_fail" /\ p = req.page
      BY <1>1, <1>2, <1>8, <3>5 DEF BeingWritten
    <3> QED BY <3>2, <3>3, <3>4, <3>5
  <2> QED BY <1>2, <2>1 DEF RestIsErased
<1>10. ServeInv'
  BY <1>1, <1>2 DEF ServeInv, Ready, HostInv
<1>11. FreeIsErased'
  <2>1. InUse = {map_index} /\ InUse' = {error_block}
    BY <1>1, <1>2, <1>4 DEF InUse, Updated
  <2>2. ASSUME NEW y \in (Free \ InUse)' PROVE y \in Free \ InUse
    <3>1. y \in Pool /\ y # bmt_block_index /\ y \notin bad /\ y \notin Mapped' /\ y # error_block
      BY <1>1, <2>1, <2>2 DEF Free
    <3>2. y \notin Mapped /\ y # map_index
      BY <1>3, <3>1
    <3> QED BY <2>1, <3>1, <3>2 DEF Free
  <2> QED BY <1>1, <2>2, FreeKept
<1>12. UpdatedInv'
  <2>1. Reasons'
    BY <1>1, <1>2, <1>4 DEF Reasons
  <2>2. Map(req.block)' = map_index
    BY <1>2, <1>3, <1>4
  <2>3. \A b \in System : Map(b)' # error_block'
    BY <1>1, <1>3, <1>4, MapInjective DEF Ready
  <2>4. reason' = "write_fail" => Read(page'[Map(req.block)'][req'.page]) = req'.data
    <3>1. reason = "write_fail" => Copied(req.page)
      BY <1>4, <1>7, <1>8
    <3> QED BY <1>1, <1>2, <2>2, <3>1 DEF Copied
  <2> QED BY <1>1, <1>4, <2>1, <2>2, <2>3, <2>4 DEF UpdatedInv
<1>13. UpdatingInv' /\ FirstBoot'
  <2>1. bmt_block_index \in {0} \cup Pool
    BY DEF Ready, IInv, TypeOK
  <2> QED BY <1>1, <1>2, <1>4, <2>1 DEF UpdatingInv, Updating, FirstBoot
<1>14. OnlyRequest
  <2> SUFFICES ASSUME NEW b \in System, NEW p \in Pages, b \notin void,
                      ~(req.op = "erase" /\ b = req.block)
               PROVE  \/ Shown(b, p)' = Shown(b, p)
                      \/ /\ req.op = "write" /\ b = req.block /\ p = req.page
                         /\ Shown(b, p)' \in {req.data, FF}
    BY DEF OnlyRequest
  <2>1. CASE b # req.block
    BY <1>1, <1>3, <2>1 DEF Shown
  <2>2. CASE b = req.block
    <3>1. req.op = "write" /\ Copied(p)
      BY <1>4, <1>8, <2>2 DEF Reasons
    <3>2. Map(b)' = map_index /\ Map(b) = error_block
      BY <1>3, <1>4, <2>2
    <3> QED BY <1>1, <2>2, <3>1, <3>2 DEF Shown, Copied
  <2> QED BY <2>1, <2>2
<1>15. Confined
  <2> SUFFICES ASSUME NEW b \in System
               PROVE  /\ StuckHere(b)' => StuckHere(b) \/ (req.op = "write" /\ b = req.block)
                      /\ Map(b)' # Map(b) => req # NoReq /\ b = req.block
    BY DEF Confined
  <2>1. CASE b # req.block
    <3>1. Map(b)' = Map(b)
      BY <1>3, <2>1
    <3>2. ErasedBlock(Map(b)) => ErasedBlock(Map(b))'
      BY <1>1, <3>1 DEF ErasedBlock
    <3> QED BY <3>1, <3>2 DEF StuckHere
  <2>2. CASE b = req.block /\ reason = "write_fail"
    BY <1>4, <1>8, <2>2
  <2>3. CASE b = req.block /\ reason # "write_fail"
    <3>1. Map(b)' = map_index /\ ErasedBlock(map_index)
      BY <1>3, <1>4, <2>3
    <3>2. ErasedBlock(Map(b))'
      BY <1>1, <3>1 DEF ErasedBlock
    <3> QED BY <1>4, <2>3, <3>2 DEF StuckHere
  <2> QED BY <2>1, <2>2, <2>3
<1> QED BY <1>3, <1>5, <1>6, <1>9, <1>10, <1>11, <1>12, <1>13, <1>14, <1>15 DEF HostInv

\* A step that writes the table leaves the host's blocks alone.
LEMMA CommitHost ==
  ASSUME Ready, pc \in {"erase_bmt", "program_bmt"},
         pc' \in {"find_bmt", "program_bmt", "mark"},
         UNCHANGED <<table, mapped_count, reason, error_block, host>>,
         UnusedReadsErased', Elsewhere(bmt_block_index),
         bad \subseteq bad' \cup {bmt_block_index}, bad' \subseteq bad \cup {bmt_block_index},
         IF pc' = "find_bmt" THEN bmt_block_index' = 0 /\ bmt_block_index \in bad'
                             ELSE bmt_block_index' = bmt_block_index,
         pc' = "mark" => req # NoReq
  PROVE  HostInv' /\ Quietly
<1> DEFINE x == bmt_block_index
<1>1. x \in Pool \ Mapped
  BY DEF Ready, HostInv, FirstBoot, IInv, PoolDisjoint
<1>2. Quietly /\ NoneMarked /\ NoMoreToWrite /\ UNCHANGED <<req, next_page, void>>
  BY <1>1, QuietInPool, MarkInPool DEF NoMoreToWrite, host, Ready
<1>3. OneEntryPerBadBlock'
  BY MapStays DEF Ready, HostInv
<1>4. MappedIsGood' /\ RestIsErased' /\ ServeInv'
  BY <1>2, HostKept
<1>5. FreeIsErased'
  <2>1. Mapped' = Mapped
    BY MapStays
  <2>2. InUse' = InUse
    BY <1>2 DEF InUse, Updated
  <2>3. ASSUME NEW y \in (Free \ InUse)' PROVE y \in Free \ InUse /\ page'[y] = page[y]
    <3>1. y \in Pool /\ y # bmt_block_index' /\ y \notin bad' /\ y \notin Mapped /\ y \notin InUse
      BY <2>1, <2>2, <2>3 DEF Free
    <3>2. y # x
      BY <3>1
    <3>3. y \notin bad /\ y \in Blocks
      BY <3>1, <3>2 DEF Blocks
    <3> QED BY <3>1, <3>2, <3>3 DEF Free, Elsewhere
  <2> QED BY <2>3, FreeKept
<1>6. UpdatedInv'
  BY <1>2, UpdatedKept
<1>7. UpdatingInv'
  BY DEF UpdatingInv, Updating
<1>8. FirstBoot'
  BY <1>1, <1>2 DEF Ready, HostInv, FirstBoot
<1> QED BY <1>2, <1>3, <1>4, <1>5, <1>6, <1>7, <1>8 DEF HostInv

\* The block the table goes to.
LEMMA TableBlock ==
  ASSUME Ready, pc \in {"erase_bmt", "program_bmt"}
  PROVE  bmt_block_index \in Blocks /\ 0 \in Pages
BY GeometryFacts DEF Ready, HostInv, FirstBoot, Blocks

\* The table's block is erased.
LEMMA EraseBmtHost == ASSUME Ready, EraseBmt PROVE HostInv' /\ Quietly
<1>1. /\ pc = "erase_bmt" /\ pc' = "program_bmt" /\ page' = Erased(page, bmt_block_index)
      /\ UNCHANGED <<table, mapped_count, reason, error_block, host, bmt_block_index>>
      /\ bad' = bad \ {bmt_block_index}
  BY DEF EraseBmt, bmt, locals
<1>2. UnusedReadsErased' /\ Elsewhere(bmt_block_index)
  BY <1>1, TableBlock, EraseFair DEF Ready, HostInv
<1>3. /\ bad \subseteq bad' \cup {bmt_block_index} /\ bad' \subseteq bad \cup {bmt_block_index}
  BY <1>1
<1> QED BY <1>1, <1>2, <1>3, CommitHost

\* The table's block cannot be erased.
LEMMA EraseBmtFailsHost == ASSUME Ready, EraseBmtFails PROVE HostInv' /\ Quietly
<1>1. /\ pc = "erase_bmt" /\ pc' = "find_bmt" /\ bmt_block_index' = 0
      /\ page' \in {page, SpoiledBlock(page, bmt_block_index)}
      /\ UNCHANGED <<table, mapped_count, reason, error_block, host>>
      /\ bad' = bad \cup {bmt_block_index}
  BY MarkSure DEF EraseBmtFails, EraseFails, locals, Ready
<1>2. UnusedReadsErased' /\ Elsewhere(bmt_block_index)
  BY <1>1, TableBlock, EraseFair DEF Ready, HostInv
<1>3. /\ bad \subseteq bad' \cup {bmt_block_index} /\ bad' \subseteq bad \cup {bmt_block_index}
  BY <1>1
<1> QED BY <1>1, <1>2, <1>3, CommitHost

\* The table cannot be programmed.
LEMMA ProgramBmtFailsHost == ASSUME Ready, ProgramBmtFails PROVE HostInv' /\ Quietly
<1> DEFINE v == TablePage(mapped_count, table)
<1>1. /\ pc = "program_bmt" /\ pc' = "find_bmt" /\ bmt_block_index' = 0
      /\ page' \in {Programmed(page, bmt_block_index, 0, v), Spoiled(page, bmt_block_index, 0)}
      /\ UNCHANGED <<table, mapped_count, reason, error_block, host>>
      /\ bad' = bad \cup {bmt_block_index}
  BY MarkSure DEF ProgramBmtFails, ProgramFails, locals, Ready
<1>2. Fair(v)
  BY FairPages
<1> HIDE DEF v
<1>3. UnusedReadsErased' /\ Elsewhere(bmt_block_index)
  BY <1>1, <1>2, TableBlock, ProgramFair DEF Ready, HostInv
<1>4. /\ bad \subseteq bad' \cup {bmt_block_index} /\ bad' \subseteq bad \cup {bmt_block_index}
  BY <1>1
<1> QED BY <1>1, <1>3, <1>4, CommitHost

\* The table is programmed, for an update or at the end of the first boot.
LEMMA ProgramBmtHost ==
  ASSUME Ready, ProgramBmt PROVE HostInv' /\ Quietly /\ UNCHANGED <<req, void>>
<1> DEFINE v == TablePage(mapped_count, table)
<1>1. /\ pc = "program_bmt"
      /\ page' = Programmed(page, bmt_block_index, 0, v)
      /\ UNCHANGED <<bad, table, mapped_count, bmt_block_index, next_page, void, worn>>
      /\ IF req = NoReq THEN Idle
                    ELSE pc' = "mark" /\ UNCHANGED <<req, reason, error_block, map_index>>
  BY DEF ProgramBmt, bmt
<1>2. Fair(v)
  BY FairPages
<1> HIDE DEF v
<1>3. UnusedReadsErased' /\ Elsewhere(bmt_block_index)
  BY <1>1, <1>2, TableBlock, ProgramFair DEF Ready, HostInv
<1>4. CASE req # NoReq
  <2>1. bad \subseteq bad' \cup {bmt_block_index} /\ bad' \subseteq bad \cup {bmt_block_index}
    BY <1>1
  <2>2. pc' = "mark" /\ UNCHANGED <<req, reason, error_block, host>>
    BY <1>1, <1>4 DEF host
  <2> QED BY <1>1, <1>3, <1>4, <2>1, <2>2, CommitHost
<1>5. CASE req = NoReq
  <2>1. pc' = "idle" /\ UNCHANGED req
    BY <1>1, <1>5 DEF Idle
  <2>2. bmt_block_index \in Pool \ Mapped
    BY <1>1 DEF Ready, HostInv, FirstBoot, IInv, PoolDisjoint
  <2>3. Quietly /\ NoneMarked /\ NoMoreToWrite
    BY <1>1, <1>3, <2>2, QuietInPool DEF NoneMarked, NoMoreToWrite, Ready
  <2>4. OneEntryPerBadBlock'
    BY <1>1, MapStays DEF Ready, HostInv
  <2>5. MappedIsGood' /\ RestIsErased' /\ ServeInv'
    BY <1>1, <2>1, <2>3, HostKept
  <2>6. FreeIsErased'
    <3>1. Mapped' = Mapped /\ InUse = {}
      BY <1>1, <1>5, <2>1, MapStays DEF InUse, Updated
    <3>2. \A y \in (Free \ InUse)' : y \in Free \ InUse /\ page'[y] = page[y]
      BY <1>1, <1>3, <3>1 DEF Free, Elsewhere, Blocks
    <3> QED BY <3>2, FreeKept
  <2>7. UpdatingInv' /\ UpdatedInv' /\ FirstBoot'
    BY <2>1 DEF UpdatingInv, Updating, UpdatedInv, Updated, FirstBoot
  <2> QED BY <1>1, <1>3, <2>1, <2>3, <2>4, <2>5, <2>6, <2>7 DEF HostInv
<1> QED BY <1>1, <1>4, <1>5

\* The host is told that its request succeeded, and so it did.
Succeeded ==
  /\ req # NoReq /\ req' = NoReq
  /\ void' = IF req.op # "erase" THEN void
             ELSE IF StuckHere(req.block) THEN void \cup {req.block} ELSE void \ {req.block}
  /\ \A b \in System \ void' : \A p \in Pages :
       Shown(b, p)' = IF b = req.block /\ req.op = "erase" THEN FF
                      ELSE IF b = req.block /\ req.op = "write" /\ p = req.page
                      THEN req.data ELSE Shown(b, p)

\* The host is told that its erase failed, and gives the block up.
Failed ==
  /\ req.op = "erase" /\ req # NoReq /\ req' = NoReq
  /\ void' = void \cup {req.block}
  /\ OnlyRequest

\* What a step that answers the host has to show.
LEMMA AnsweredHost ==
  ASSUME Ready, Answered, UNCHANGED <<table, mapped_count>>,
         req # NoReq, req.op \in {"write", "erase", "isbad"},
         \A b \in System : b # req.block \/ req.op = "isbad" => page'[Map(b)] = page[Map(b)],
         req.op = "write" /\ req.block \notin void =>
           /\ \A p \in Pages : p # req.page =>
                page'[Map(req.block)][p] = page[Map(req.block)][p]
           /\ Read(page'[Map(req.block)][req.page]) = req.data,
         req.op = "erase" =>
           /\ Map(req.block) \notin bad'
           /\ ~StuckHere(req.block) => \A p \in Pages : page'[Map(req.block)][p] = Blank
           /\ StuckHere(req.block) => page'[Map(req.block)] = page[Map(req.block)],
         NoneMarked, UnusedReadsErased', FreeIsErased'
  PROVE  HostInv' /\ Succeeded /\ Confined
<1>1. pc' = "idle" /\ req' = NoReq
  BY DEF Answered, Idle
<1>2. \A b \in System : Map(b)' = Map(b)
  BY MapStays
<1>3. OneEntryPerBadBlock'
  BY MapStays DEF Ready, HostInv
<1>4. req.block \in System /\ next_page \in [System -> 0 .. PagePerBlock] /\ PagePerBlock \in Nat
      /\ req.page \in Pages /\ void \subseteq System
  BY Geometry DEF Ready, IInv, TypeOK
<1>5. /\ req.op = "write" => next_page' = [next_page EXCEPT ![req.block] = next_page[req.block] + 1]
                             /\ void' = void
      /\ req.op = "erase" => /\ next_page' = [next_page EXCEPT ![req.block] = 0]
                             /\ void' = IF StuckHere(req.block) THEN void \cup {req.block}
                                                                ELSE void \ {req.block}
      /\ req.op = "isbad" => next_page' = next_page /\ void' = void
  BY DEF Answered, Erasure, StuckHere
<1>6. req.op = "write" => next_page[req.block] = req.page
  BY DEF Ready, IInv, RequestInv
<1>7. MappedIsGood'
  <2>1. \A b \in System : b \notin void => Map(b) \notin bad'
    BY DEF MappedIsGood, NoneMarked, Ready, HostInv
  <2>2. \A b \in System : b \notin void' => Map(b)' \notin bad'
    BY <1>2, <1>5, <2>1
  <2> QED BY <2>2 DEF MappedIsGood
<1>8. RestIsErased'
  <2>1. ASSUME NEW b \in System, b \notin void', NEW p \in Pages, p >= next_page'[b]
        PROVE  page'[Map(b)'][p] = Blank
    <3>1. p \in Nat /\ next_page[b] \in Nat
      BY <1>4, PagesFew
    <3>2. CASE b # req.block \/ req.op = "isbad"
      <4>1. next_page'[b] = next_page[b] /\ page'[Map(b)] = page[Map(b)] /\ b \notin void
        BY <1>4, <1>5, <2>1, <3>2
      <4>2. ~BeingWritten(b, p)
        BY <3>2 DEF BeingWritten
      <4> QED BY <1>2, <2>1, <4>1, <4>2 DEF RestIsErased, Ready, HostInv
    <3>3. CASE b = req.block /\ req.op = "erase"
      BY <1>2, <1>5, <2>1, <3>3
    <3>4. CASE b = req.block /\ req.op = "write"
      <4>1. p >= next_page[b] /\ p # req.page /\ b \notin void
        BY <1>4, <1>5, <1>6, <2>1, <3>1, <3>4
      <4>2. ~BeingWritten(b, p)
        BY <4>1 DEF BeingWritten
      <4>3. page[Map(b)][p] = Blank
        BY <4>1, <4>2 DEF RestIsErased, Ready, HostInv
      <4> QED BY <1>2, <3>4, <4>1, <4>3
    <3> QED BY <3>2, <3>3, <3>4
  <2> QED BY <2>1 DEF RestIsErased
<1>9. ServeInv' /\ UpdatingInv' /\ UpdatedInv' /\ FirstBoot'
  BY <1>1 DEF ServeInv, NoReq, UpdatingInv, Updating, UpdatedInv, Updated, FirstBoot
<1>10. Succeeded
  <2>1. ASSUME NEW b \in System \ void', NEW p \in Pages
        PROVE  Shown(b, p)' = IF b = req.block /\ req.op = "erase" THEN FF
                              ELSE IF b = req.block /\ req.op = "write" /\ p = req.page
                              THEN req.data ELSE Shown(b, p)
    <3>1. Shown(b, p)' = Read(page'[Map(b)][p])
      BY <1>2 DEF Shown
    <3>2. CASE b = req.block /\ req.op = "erase"
      <4>1. page'[Map(b)][p] = Blank
        BY <1>5, <2>1, <3>2
      <4> QED BY <3>1, <3>2, <4>1 DEF Read, Blank
    <3>3. CASE b = req.block /\ req.op = "write"
      BY <1>5, <2>1, <3>1, <3>3 DEF Shown
    <3>4. CASE b # req.block \/ req.op = "isbad"
      BY <3>1, <3>4 DEF Shown
    <3> QED BY <3>2, <3>3, <3>4
  <2>2. void' = IF req.op # "erase" THEN void
                ELSE IF StuckHere(req.block) THEN void \cup {req.block} ELSE void \ {req.block}
    BY <1>5
  <2> QED BY <1>1, <2>1, <2>2 DEF Succeeded
<1>11. Confined
  <2> SUFFICES ASSUME NEW b \in System
               PROVE  StuckHere(b)' => StuckHere(b) \/ (req.op = "write" /\ b = req.block)
    BY <1>2 DEF Confined
  <2>1. CASE b # req.block \/ req.op = "isbad"
    BY <1>2, <2>1 DEF StuckHere, ErasedBlock
  <2>2. CASE b = req.block /\ req.op = "write"
    BY <2>2
  <2>3. CASE b = req.block /\ req.op = "erase"
    BY <1>2, <2>3 DEF StuckHere, ErasedBlock
  <2> QED BY <2>1, <2>2, <2>3
<1> QED BY <1>3, <1>7, <1>8, <1>9, <1>10, <1>11 DEF HostInv

\* The old block is marked when nothing of the host lies there any more.
LEMMA MarkOldHost ==
  ASSUME Ready, MarkOld
  PROVE  HostInv' /\ IF req' = req THEN Quietly /\ UNCHANGED <<req, void>>
                                   ELSE Succeeded /\ Confined
<1>1. /\ pc = "mark" /\ bad' = bad \cup {error_block}
      /\ UNCHANGED <<page, table, mapped_count, bmt_block_index>>
      /\ IF reason = "unmapped" /\ req.op = "erase" THEN pc' = "erase" /\ UNCHANGED host
                                                    ELSE Answered
  BY MarkSure DEF MarkOld, bmt, Ready
<1>2. req # NoReq /\ Updated
  BY <1>1 DEF Ready, HostInv, FirstBoot, Updated
<1>3. /\ Reasons /\ Map(req.block) \notin bad
      /\ \A b \in System : Map(b) # error_block
      /\ reason = "write_fail" => Read(page[Map(req.block)][req.page]) = req.data
  BY <1>2 DEF Ready, HostInv, UpdatedInv
<1>4. NoneMarked /\ req.block \in System /\ Map(req.block) \notin bad'
  BY <1>1, <1>3 DEF NoneMarked, Ready, IInv, TypeOK
<1>5. UnusedReadsErased'
  BY <1>1 DEF UnusedReadsErased, Ready, HostInv
<1>6. FreeIsErased'
  <2>1. Mapped' = Mapped /\ InUse = {error_block}
    BY <1>1, <1>2, MapStays DEF InUse
  <2> QED BY <1>1, <2>1, FreeSame DEF Free
<1>7. CASE reason = "unmapped" /\ req.op = "erase"
  <2>1. pc' = "erase" /\ UNCHANGED <<req, next_page, void>>
    BY <1>1, <1>7 DEF host
  <2>2. Quietly /\ \A b \in System : Map(b)' = Map(b)
    BY <1>1, QuietFlash, MapStays
  <2>3. OneEntryPerBadBlock'
    BY <1>1, MapStays DEF Ready, HostInv
  <2>4. MappedIsGood'
    BY <2>1, <2>2, <1>4 DEF MappedIsGood, NoneMarked, Ready, HostInv
  <2>5. RestIsErased'
    BY <1>1, <2>1, <2>2, <1>7 DEF RestIsErased, BeingWritten, Ready, HostInv
  <2>6. ServeInv'
    <3>1. Map(req.block)' = Map(req.block)
      BY <1>4, <2>1, <2>2
    <3> QED BY <1>4, <1>7, <2>1, <3>1 DEF ServeInv, Ready, HostInv
  <2>7. UpdatingInv' /\ UpdatedInv' /\ FirstBoot'
    BY <1>2, <2>1 DEF UpdatingInv, Updating, UpdatedInv, Updated, FirstBoot
  <2> QED BY <1>5, <1>6, <2>1, <2>2, <2>3, <2>4, <2>5, <2>6, <2>7 DEF HostInv
<1>8. CASE ~(reason = "unmapped" /\ req.op = "erase")
  <2>1. Answered /\ req' = NoReq
    BY <1>1, <1>8 DEF Answered, Idle
  <2>2. /\ req.op \in {"write", "erase", "isbad"}
        /\ req.op = "write" => reason = "write_fail"
        /\ req.op # "erase"
    BY <1>3, <1>8 DEF Reasons
  <2> QED BY <1>1, <1>2, <1>3, <1>4, <1>5, <1>6, <2>1, <2>2, AnsweredHost
<1> QED BY <1>7, <1>8
-----------------------------------------------------------------------------
(* The commands for the host's own block.                                   *)

\* What the program command of a write finds, and what it writes.
LEMMA WriteFacts ==
  ASSUME Ready, pc = "program"
  PROVE  /\ req.op = "write" /\ req # NoReq /\ next_page[req.block] = req.page
         /\ req.block \in System /\ req.page \in Pages
         /\ Map(req.block) \in Blocks /\ Map(req.block) \notin Free
         /\ req.block \notin void => page[Map(req.block)][req.page] = Blank
         /\ Fair(HostPage) /\ Read(HostPage) = req.data
         /\ InUse = {}
<1>1. req.op = "write" /\ req # NoReq
  BY DEF Ready, HostInv, ServeInv, NoReq
<1>2. next_page[req.block] = req.page /\ req.block \in System /\ req.page \in Pages
  BY <1>1 DEF Ready, IInv, RequestInv, TypeOK
<1>3. Map(req.block) \in Blocks /\ Map(req.block) \notin Free
  BY <1>2, MapElsewhere, FreeElsewhere DEF Ready
<1>6. req.block \notin void => page[Map(req.block)][req.page] = Blank
  <2>1. req.page >= next_page[req.block]
    BY <1>2, PagesFew
  <2> QED BY <1>2, <2>1 DEF Ready, HostInv, RestIsErased, BeingWritten
<1>7. Fair(HostPage) /\ Read(HostPage) = req.data
  <2>1. (IF Map(req.block) # req.block THEN req.block ELSE FakeIndex) \in System \cup {FakeIndex}
    BY <1>2
  <2> QED BY <2>1, FairPages DEF HostPage
<1>8. InUse = {}
  BY DEF InUse, Updated
<1> QED BY <1>1, <1>2, <1>3, <1>6, <1>7, <1>8

\* A write that succeeds.
LEMMA WritePageHost == ASSUME Ready, WritePage PROVE HostInv' /\ Succeeded /\ Confined
<1> DEFINE x == Map(req.block)
<1>1. /\ pc = "program" /\ Answered /\ page' = Programmed(page, x, req.page, HostPage)
      /\ UNCHANGED <<bad, table, mapped_count, bmt_block_index>>
  BY DEF WritePage, bmt
<1>2. /\ req.op = "write" /\ req # NoReq
      /\ req.block \in System /\ req.page \in Pages
      /\ x \in Blocks /\ x \notin Free /\ (req.block \notin void => page[x][req.page] = Blank)
      /\ Fair(HostPage) /\ Read(HostPage) = req.data /\ InUse = {}
  BY <1>1, WriteFacts
<1>3. UnusedReadsErased' /\ Elsewhere(x)
      /\ \A p \in Pages : p # req.page => page'[x][p] = page[x][p]
  BY <1>1, <1>2, ProgramFair DEF Ready, HostInv
<1>4. req.block \notin void => Read(page'[x][req.page]) = req.data
  BY <1>1, <1>2, ProgramEffect DEF Ready
<1>5. \A b \in System : b # req.block => Map(b) # x /\ Map(b) \in Blocks
  BY <1>2, MapInjective, MapElsewhere DEF Ready
<1>6. \A b \in System : b # req.block => page'[Map(b)] = page[Map(b)]
  BY <1>3, <1>5 DEF Elsewhere
<1>7. NoneMarked
  BY <1>1 DEF NoneMarked
<1>8. FreeIsErased'
  <2>1. Mapped' = Mapped
    BY <1>1, MapStays
  <2>2. \A y \in (Free \ InUse)' : y \in Free \ InUse /\ page'[y] = page[y]
    BY <1>1, <1>2, <1>3, <2>1 DEF Free, Elsewhere, Blocks
  <2> QED BY <2>2, FreeKept
<1> QED BY <1>1, <1>2, <1>3, <1>4, <1>6, <1>7, <1>8, AnsweredHost

\* A step that looks for a new block because a command on the old one failed.
LEMMA FailedHost ==
  ASSUME Ready, NEW x \in Blocks, x = Map(req.block), pc = "program", pc' = "find",
         UNCHANGED <<bad, table, mapped_count, bmt_block_index, host>>,
         error_block' = x, Reasons', req.op = "write", req # NoReq,
         UnusedReadsErased', Elsewhere(x),
         \A p \in Pages : p # req.page => page'[x][p] = page[x][p]
  PROVE  /\ HostInv'
         /\ \A b \in System : Map(b)' = Map(b) /\ (b # req.block => page'[Map(b)] = page[Map(b)])
<1>1. UNCHANGED <<req, next_page, void>> /\ req.block \in System
  BY DEF host, Ready, IInv, TypeOK
<1>2. \A b \in System : Map(b)' = Map(b)
  BY MapStays
<1>3. \A b \in System : b # req.block => page'[Map(b)] = page[Map(b)]
  BY <1>1, MapInjective, MapElsewhere DEF Elsewhere, Ready
<1>4. OneEntryPerBadBlock'
  BY MapStays DEF Ready, HostInv
<1>5. MappedIsGood'
  BY <1>1, <1>2 DEF MappedIsGood, Ready, HostInv
<1>6. RestIsErased'
  <2>1. ASSUME NEW b \in System \ void, NEW p \in Pages, p >= next_page[b]
        PROVE  page'[Map(b)][p] = Blank \/ BeingWritten(b, p)'
    <3>1. CASE b # req.block
      <4>1. page[Map(b)][p] = Blank
        BY <2>1, <3>1 DEF RestIsErased, BeingWritten, Ready, HostInv
      <4> QED BY <1>3, <3>1, <4>1
    <3>3. CASE b = req.block /\ p = req.page
      BY <1>1, <3>3 DEF BeingWritten
    <3>4. CASE b = req.block /\ p # req.page
      <4>1. page[x][p] = Blank
        BY <2>1, <3>4 DEF RestIsErased, BeingWritten, Ready, HostInv
      <4> QED BY <3>4, <4>1
    <3> QED BY <3>1, <3>3, <3>4
  <2> QED BY <1>1, <1>2, <2>1 DEF RestIsErased
<1>7. ServeInv'
  BY <1>1 DEF ServeInv, Ready, HostInv
<1>8. FreeIsErased'
  <2>1. Mapped' = Mapped /\ InUse = {} /\ x \notin Free
    BY <1>1, MapStays, FreeElsewhere DEF InUse, Updated, Ready
  <2>2. \A y \in (Free \ InUse)' : y \in Free \ InUse /\ page'[y] = page[y]
    BY <2>1 DEF Free, Elsewhere, Blocks
  <2> QED BY <2>2, FreeKept
<1>9. UpdatingInv'
  <2>1. Map(req.block)' = x
    BY <1>1, <1>2
  <2> QED BY <1>1, <2>1 DEF UpdatingInv
<1>10. UpdatedInv' /\ FirstBoot'
  BY <1>1 DEF UpdatedInv, Updated, FirstBoot
<1> QED BY <1>2, <1>3, <1>4, <1>5, <1>6, <1>7, <1>8, <1>9, <1>10 DEF HostInv

\* A write that fails leaves the new value, or nothing.
LEMMA WritePageFailsHost ==
  ASSUME Ready, WritePageFails PROVE HostInv' /\ OnlyRequest /\ Confined
<1> DEFINE x == Map(req.block)
<1>1. /\ pc = "program" /\ pc' = "find" /\ error_block' = x /\ reason' = "write_fail"
      /\ page' \in {Programmed(page, x, req.page, HostPage), Spoiled(page, x, req.page)}
      /\ UNCHANGED <<bad, table, mapped_count, bmt_block_index, host>>
  BY DEF WritePageFails, ProgramFails, bmt
<1>2. /\ req.op = "write" /\ req # NoReq
      /\ req.block \in System /\ req.page \in Pages
      /\ x \in Blocks /\ (req.block \notin void => page[x][req.page] = Blank)
      /\ Fair(HostPage) /\ Read(HostPage) = req.data
  BY <1>1, WriteFacts
<1>3. UnusedReadsErased' /\ Elsewhere(x)
      /\ \A p \in Pages : p # req.page => page'[x][p] = page[x][p]
  BY <1>1, <1>2, ProgramFair DEF Ready, HostInv
<1>4. req.block \notin void => page'[x][req.page] \in {HostPage, Junk}
  BY <1>1, <1>2, ProgramEffect, SpoilEffect DEF Ready
<1>5. req.block \notin void => Read(page'[x][req.page]) \in {req.data, FF}
  BY <1>2, <1>4 DEF Junk, Blank, Read
<1>6. Reasons'
  BY <1>1, <1>2 DEF Reasons, host
<1>7. /\ HostInv'
      /\ \A b \in System : Map(b)' = Map(b) /\ (b # req.block => page'[Map(b)] = page[Map(b)])
  BY <1>1, <1>2, <1>3, <1>6, FailedHost
<1>8. OnlyRequest
  <2> SUFFICES ASSUME NEW b \in System \ void, NEW p \in Pages
               PROVE  \/ Shown(b, p)' = Shown(b, p)
                      \/ b = req.block /\ p = req.page /\ Shown(b, p)' \in {req.data, FF}
    BY <1>2 DEF OnlyRequest
  <2>1. Shown(b, p)' = Read(page'[Map(b)][p])
    BY <1>7 DEF Shown
  <2>2. CASE b # req.block
    BY <1>7, <2>1, <2>2 DEF Shown
  <2>3. CASE b = req.block /\ p # req.page
    BY <1>3, <2>1, <2>3 DEF Shown
  <2>4. CASE b = req.block /\ p = req.page
    BY <1>5, <2>1, <2>4
  <2> QED BY <2>2, <2>3, <2>4
<1>9. Confined
  <2> SUFFICES ASSUME NEW b \in System, b # req.block PROVE StuckHere(b)' => StuckHere(b)
    BY <1>2, <1>7 DEF Confined
  <2> QED BY <1>7 DEF StuckHere, ErasedBlock
<1> QED BY <1>7, <1>8, <1>9

\* What the erase command of the host finds: it goes to the block of the logical
\* address, where nothing else of the host lies.
LEMMA EraseFacts ==
  ASSUME Ready, pc = "erase"
  PROVE  /\ req.op = "erase" /\ req # NoReq /\ req.block \in System
         /\ EraseTarget(req.block) = req.block
         /\ req.block \in Blocks /\ Map(req.block) \notin bad /\ req.block \notin Free
         /\ \A b \in System : Map(b) \in Blocks /\ (Map(b) = req.block => b = req.block)
         /\ InUse = {}
<1>1. req.op = "erase" /\ req # NoReq /\ Map(req.block) \notin bad
  BY DEF Ready, HostInv, ServeInv, NoReq
<1>2. req.block \in System /\ req.block \in Blocks
  BY DEF Ready, IInv, TypeOK, Blocks
<1>3. System \cap Pool = {}
  BY GeometryFacts, Geometry DEF System, Pool
<1>4. \A b \in System : Map(b) \in Blocks /\ (Map(b) = req.block => b = req.block)
  BY <1>2, <1>3, MapCases, MapElsewhere DEF Ready
<1>5. InUse = {} /\ req.block \notin Free
  BY <1>2, <1>3 DEF InUse, Updated, Free
<1> QED BY <1>1, <1>2, <1>4, <1>5 DEF EraseTarget

\* An erase that succeeds.
LEMMA EraseBlockHost == ASSUME Ready, EraseBlock PROVE HostInv' /\ Succeeded /\ Confined
<1> DEFINE x == req.block
<1>1. /\ req.op = "erase" /\ req # NoReq /\ x \in System /\ EraseTarget(x) = x
      /\ x \in Blocks /\ Map(x) \notin bad /\ x \notin Free /\ InUse = {}
      /\ \A b \in System : Map(b) \in Blocks /\ (Map(b) = x => b = x)
  BY EraseFacts DEF EraseBlock
<1>2. /\ pc = "erase" /\ Answered /\ page' = Erased(page, x) /\ bad' = bad \ {x}
      /\ UNCHANGED <<table, mapped_count, bmt_block_index>>
  BY <1>1 DEF EraseBlock, bmt
<1>3. UnusedReadsErased' /\ Elsewhere(x) /\ \A p \in Pages : page'[x][p] = Blank
  BY <1>1, <1>2, EraseFair, EraseEffect DEF Ready, HostInv
<1>4. \A b \in System : b # x => page'[Map(b)] = page[Map(b)]
  BY <1>1, <1>3 DEF Elsewhere
<1>5. NoneMarked /\ Map(x) \notin bad'
  BY <1>1, <1>2 DEF NoneMarked
<1>6. FreeIsErased'
  <2>1. Mapped' = Mapped
    BY <1>2, MapStays
  <2>2. InUse' = {} /\ x \notin Pool
    <3>1. pc' = "idle"
      BY <1>2 DEF Answered, Idle
    <3>2. System \cap Pool = {}
      BY GeometryFacts, Geometry DEF System, Pool
    <3> QED BY <1>1, <3>1, <3>2 DEF InUse, Updated
  <2>3. \A y \in (Free \ InUse)' : y \in Free \ InUse /\ page'[y] = page[y]
    BY <1>1, <1>2, <1>3, <2>1, <2>2 DEF Free, Elsewhere, Blocks
  <2> QED BY <2>3, FreeKept
<1>7. ~StuckHere(x) => \A p \in Pages : page'[Map(x)][p] = Blank
  <2>1. CASE Map(x) = x
    BY <1>3, <2>1
  <2>2. CASE Map(x) # x /\ ErasedBlock(Map(x))
    BY <1>1, <1>3, <2>2 DEF Elsewhere, ErasedBlock
  <2> QED BY <2>1, <2>2 DEF StuckHere
<1>8. StuckHere(x) => page'[Map(x)] = page[Map(x)]
  BY <1>1, <1>3 DEF StuckHere, Elsewhere
<1> QED BY <1>1, <1>2, <1>3, <1>4, <1>5, <1>6, <1>7, <1>8, AnsweredHost

\* An erase that fails spoils its block at most.
LEMMA EraseBlockFailsHost == ASSUME Ready, EraseBlockFails PROVE HostInv' /\ Failed /\ Confined
<1> DEFINE x == req.block
<1>1. /\ req.op = "erase" /\ req # NoReq /\ x \in System /\ EraseTarget(x) = x
      /\ x \in Blocks /\ x \notin Free /\ InUse = {}
      /\ \A b \in System : Map(b) \in Blocks /\ (Map(b) = x => b = x)
  BY EraseFacts DEF EraseBlockFails
<1>2. /\ pc = "erase" /\ pc' = "idle" /\ req' = NoReq /\ void' = void \cup {x}
      /\ page' \in {page, SpoiledBlock(page, x)}
      /\ UNCHANGED <<bad, table, mapped_count, bmt_block_index, next_page>>
  BY <1>1 DEF EraseBlockFails, EraseFails, Idle, bmt
<1>3. UnusedReadsErased' /\ Elsewhere(x)
  BY <1>1, <1>2, EraseFair DEF Ready, HostInv
<1>4. \A b \in System : /\ Map(b)' = Map(b)
                        /\ b # x \/ Map(b) # b => page'[Map(b)] = page[Map(b)]
  BY <1>1, <1>2, <1>3, MapStays DEF Elsewhere
<1>5. OneEntryPerBadBlock' /\ MappedIsGood'
  BY <1>2, <1>4, MapStays DEF MappedIsGood, Ready, HostInv
<1>6. RestIsErased'
  <2>1. ASSUME NEW b \in System, b \notin void, b # x, NEW p \in Pages, p >= next_page[b]
        PROVE  page'[Map(b)'][p] = Blank
    <3>1. ~BeingWritten(b, p)
      BY <2>1 DEF BeingWritten
    <3> QED BY <1>4, <2>1, <3>1 DEF RestIsErased, Ready, HostInv
  <2> QED BY <1>2, <2>1 DEF RestIsErased
<1>7. ServeInv' /\ UpdatingInv' /\ UpdatedInv' /\ FirstBoot'
  BY <1>2 DEF ServeInv, NoReq, UpdatingInv, Updating, UpdatedInv, Updated, FirstBoot
<1>8. FreeIsErased'
  <2>1. Mapped' = Mapped /\ InUse' = {}
    BY <1>2, MapStays DEF InUse, Updated
  <2>2. \A y \in (Free \ InUse)' : y \in Free \ InUse /\ page'[y] = page[y]
    BY <1>1, <1>2, <1>3, <2>1 DEF Free, Elsewhere, Blocks
  <2> QED BY <2>2, FreeKept
<1>9. Failed
  <2> SUFFICES ASSUME NEW b \in System, b # x, NEW p \in Pages PROVE Shown(b, p)' = Shown(b, p)
    BY <1>1, <1>2 DEF Failed, OnlyRequest
  <2> QED BY <1>4 DEF Shown
<1>10. Confined
  <2> SUFFICES ASSUME NEW b \in System PROVE StuckHere(b)' => StuckHere(b)
    BY <1>4 DEF Confined
  <2> QED BY <1>4 DEF StuckHere, ErasedBlock
<1> QED BY <1>3, <1>5, <1>6, <1>7, <1>8, <1>9, <1>10 DEF HostInv
-----------------------------------------------------------------------------
(* The calls of the host.                                                   *)

\* What a call finds when the code is idle.
LEMMA IdleFacts ==
  ASSUME Ready, pc = "idle"
  PROVE  /\ req = NoReq /\ InUse = {}
         /\ \A b \in System \ void : \A p \in Pages :
              p >= next_page[b] => page[Map(b)][p] = Blank
<1>1. req = NoReq
  BY DEF Ready, IInv, RequestInv
<1>2. InUse = {}
  BY DEF InUse, Updated
<1>3. \A b \in System : \A p \in Pages : ~BeingWritten(b, p)
  BY <1>1 DEF BeingWritten, NoReq
<1> QED BY <1>1, <1>2, <1>3 DEF Ready, HostInv, RestIsErased

\* The parts of the invariant a call does not touch.
LEMMA AskKept ==
  ASSUME Ready, pc = "idle", pc' \in {"program", "erase", "find", "idle"},
         UNCHANGED <<page, table, mapped_count>>, bad \subseteq bad', void \subseteq void',
         NoMoreToWrite
  PROVE  /\ Quietly /\ \A b \in System : Map(b)' = Map(b)
         /\ UnusedReadsErased' /\ OneEntryPerBadBlock'
         /\ RestIsErased' /\ UpdatedInv'
<1>1. Quietly /\ \A b \in System : Map(b)' = Map(b)
  BY QuietFlash, MapStays
<1>2. UnusedReadsErased' /\ OneEntryPerBadBlock'
  BY MapStays DEF Ready, HostInv, UnusedReadsErased
<1>3. RestIsErased'
  <2>1. ASSUME NEW b \in System \ void, NEW p \in Pages, p >= next_page'[b]
        PROVE  page'[Map(b)'][p] = Blank
    <3>1. p >= next_page[b]
      BY <2>1, PagesFew DEF NoMoreToWrite
    <3> QED BY <1>1, <3>1, IdleFacts
  <2> QED BY <2>1 DEF RestIsErased
<1>4. UpdatedInv'
  BY DEF UpdatedInv, Updated
<1> QED BY <1>1, <1>2, <1>3, <1>4

\* A call takes nothing from what is free but what it marks.
LEMMA AskFree ==
  ASSUME Ready, pc = "idle", pc' \in {"program", "erase", "find", "idle"},
         UNCHANGED <<page, table, mapped_count, bmt_block_index>>, bad \subseteq bad'
  PROVE  FreeIsErased'
<1>1. Mapped' = Mapped /\ InUse = {}
  BY MapStays, IdleFacts
<1> QED BY <1>1, FreeSame DEF Free

\* The host asks for a write, ...
LEMMA HostWriteHost ==
  ASSUME Ready, NEW b \in System, NEW d \in Data, HostWrite(b, d)
  PROVE  HostInv' /\ Quietly /\ req' # NoReq /\ UNCHANGED void
<1>1. /\ pc = "idle" /\ pc' = "program"
      /\ UNCHANGED <<page, bad, table, mapped_count, bmt_block_index, next_page, void>>
      /\ req' = [op |-> "write", block |-> b, page |-> next_page[b], data |-> d]
  BY DEF HostWrite, Request, flash, bmt
<1>2. req'.op = "write" /\ req' # NoReq
  BY <1>1 DEF NoReq
<1>3. /\ Quietly
      /\ UnusedReadsErased' /\ OneEntryPerBadBlock'
      /\ RestIsErased' /\ UpdatedInv' /\ \A c \in System : Map(c)' = Map(c)
  BY <1>1, AskKept DEF NoMoreToWrite
<1>4. FreeIsErased'
  BY <1>1, AskFree
<1>5. MappedIsGood'
  BY <1>1, <1>3 DEF MappedIsGood, Ready, HostInv
<1>6. ServeInv' /\ UpdatingInv' /\ FirstBoot'
  BY <1>1, <1>2 DEF ServeInv, UpdatingInv, Updating, FirstBoot
<1> QED BY <1>1, <1>2, <1>3, <1>4, <1>5, <1>6 DEF HostInv

\* A block found bad, while the code was idle, has nothing of the host in it.
LEMMA BlockBadHost ==
  ASSUME Ready, NEW b \in System, BlockBad(b), UNCHANGED <<page, table, mapped_count>>,
         req' # NoReq, req'.op \in {"erase", "isbad"}, req'.block = b, UNCHANGED void
  PROVE  UpdatingInv'
<1>1. /\ Map(b) \in bad /\ error_block' = Map(b) /\ reason' = "unmapped" /\ pc' = "find"
  BY DEF BlockBad
<1>2. b \in void /\ Map(b)' = Map(b)
  BY <1>1, MapStays DEF MappedIsGood, Ready, HostInv
<1>3. Reasons' /\ Map(req.block)' = Map(b)
  BY <1>1, <1>2 DEF Reasons, Map
<1> QED BY <1>1, <1>2, <1>3 DEF UpdatingInv

\* ... for an erase, ...
LEMMA HostEraseHost ==
  ASSUME Ready, NEW b \in System, HostErase(b)
  PROVE  HostInv' /\ Quietly /\ req' # NoReq /\ UNCHANGED void
<1>1. /\ pc = "idle" /\ pc' \in {"erase", "find"}
      /\ UNCHANGED <<page, bad, table, mapped_count, bmt_block_index, void>>
      /\ req' = [op |-> "erase", block |-> b, page |-> 0, data |-> FF]
      /\ next_page' = [next_page EXCEPT ![b] = PagePerBlock]
      /\ BlockBad(b) \/ (Map(b) \notin bad /\ pc' = "erase")
  BY DEF HostErase, Request, flash, bmt, BlockBad
<1>2. req'.op = "erase" /\ req' # NoReq /\ req'.block = b
  BY <1>1 DEF NoReq
<1>3. next_page'[b] = PagePerBlock /\ NoMoreToWrite
  BY <1>1 DEF NoMoreToWrite, Ready, IInv, TypeOK
<1>4. /\ Quietly
      /\ UnusedReadsErased' /\ OneEntryPerBadBlock'
      /\ RestIsErased' /\ UpdatedInv' /\ \A c \in System : Map(c)' = Map(c)
  BY <1>1, <1>3, AskKept
<1>5. FreeIsErased'
  BY <1>1, AskFree
<1>6. MappedIsGood'
  BY <1>1, <1>3, <1>4 DEF MappedIsGood, NoMoreToWrite, Ready, HostInv, IInv, TypeOK
<1>7. ServeInv'
  <2>1. pc' = "erase" => Map(b) \notin bad
    BY <1>1 DEF BlockBad
  <2>2. Map(req.block)' = Map(b)
    <3>1. Map(b)' = Map(b)
      BY <1>4
    <3> QED BY <1>2, <3>1 DEF Map
  <2> QED BY <1>1, <1>2, <1>3, <2>1, <2>2 DEF ServeInv
<1>8. UpdatingInv'
  <2>1. CASE BlockBad(b)
    BY <1>1, <1>2, <2>1, BlockBadHost
  <2>2. CASE pc' = "erase"
    BY <2>2 DEF UpdatingInv, Updating
  <2> QED BY <1>1, <2>1, <2>2
<1>9. FirstBoot'
  BY <1>1, <1>2 DEF FirstBoot
<1> QED BY <1>1, <1>2, <1>4, <1>5, <1>6, <1>7, <1>8, <1>9 DEF HostInv

\* ... whether a block is bad, ...
LEMMA HostIsBadHost ==
  ASSUME Ready, NEW b \in System, HostIsBad(b)
  PROVE  HostInv' /\ Quietly /\ req' # NoReq /\ UNCHANGED void
<1>1. /\ pc = "idle" /\ pc' = "find" /\ BlockBad(b)
      /\ UNCHANGED <<page, bad, table, mapped_count, bmt_block_index, next_page, void>>
      /\ req' = [op |-> "isbad", block |-> b, page |-> 0, data |-> FF]
  BY DEF HostIsBad, Request, flash, bmt, BlockBad
<1>2. req'.op = "isbad" /\ req' # NoReq /\ req'.block = b
  BY <1>1 DEF NoReq
<1>3. /\ Quietly
      /\ UnusedReadsErased' /\ OneEntryPerBadBlock'
      /\ RestIsErased' /\ UpdatedInv' /\ \A c \in System : Map(c)' = Map(c)
  BY <1>1, AskKept DEF NoMoreToWrite
<1>4. FreeIsErased'
  BY <1>1, AskFree
<1>5. MappedIsGood'
  BY <1>1, <1>3 DEF MappedIsGood, Ready, HostInv
<1>6. UpdatingInv'
  BY <1>1, <1>2, BlockBadHost
<1>7. ServeInv' /\ FirstBoot'
  BY <1>1, <1>2 DEF ServeInv, FirstBoot
<1> QED BY <1>1, <1>2, <1>3, <1>4, <1>5, <1>6, <1>7 DEF HostInv

\* ... or marks one.
LEMMA HostMarkBadHost ==
  ASSUME Ready, NEW b \in System, HostMarkBad(b)
  PROVE  HostInv' /\ Quietly /\ req = NoReq /\ req' = NoReq /\ void' = void \cup {b}
<1>1. /\ pc = "idle" /\ pc' = "idle" /\ bad' = bad \cup {Map(b)}
      /\ UNCHANGED <<page, table, mapped_count, bmt_block_index, req>>
      /\ next_page' = [next_page EXCEPT ![b] = PagePerBlock]
      /\ void' = void \cup {b}
  BY MarkSure DEF HostMarkBad, bmt, Ready
<1>2. req = NoReq
  BY <1>1, IdleFacts
<1>3. next_page'[b] = PagePerBlock /\ NoMoreToWrite
  BY <1>1 DEF NoMoreToWrite, Ready, IInv, TypeOK
<1>4. /\ Quietly
      /\ UnusedReadsErased' /\ OneEntryPerBadBlock'
      /\ RestIsErased' /\ UpdatedInv' /\ \A c \in System : Map(c)' = Map(c)
  BY <1>1, <1>3, AskKept
<1>5. FreeIsErased'
  BY <1>1, AskFree
<1>6. MappedIsGood'
  <2>1. \A c \in System : c \notin void' => Map(c) \notin bad'
    BY <1>1, MapInjective DEF MappedIsGood, Ready, HostInv
  <2> QED BY <1>4, <2>1 DEF MappedIsGood
<1>7. ServeInv' /\ UpdatingInv' /\ FirstBoot'
  BY <1>1, <1>2 DEF ServeInv, NoReq, UpdatingInv, Updating, FirstBoot
<1> QED BY <1>1, <1>2, <1>4, <1>5, <1>6, <1>7 DEF HostInv

\* A request has been refused: what is promised ends.
LEMMA WornStays == ASSUME worn, [Next]_vars PROVE worn'
<1>1. CASE UNCHANGED vars
  BY <1>1 DEF vars, host
<1>2. CASE Boot
  BY <1>2 DEF Boot, LoadBmt, ReMark, LoadDone, StartReconstruct, Reconstruct, ReconstructDone, host
<1>3. CASE Find
  BY <1>3 DEF Find, ErasePool, PoolErased, FindBlock, NoBlock, FindBmtBlock, NoBmtBlock, Refused, host
<1>4. CASE Move
  BY <1>4 DEF Move, Migrate, MigrateFails, MigrateDone, host
<1>5. CASE Commit
  BY <1>5 DEF Commit, UpdateTable, EraseBmt, EraseBmtFails, ProgramBmt, ProgramBmtFails, MarkOld,
              Answered, Erasure, host
<1>6. CASE Serve
  BY <1>6 DEF Serve, WritePage, WritePageFails, EraseBlock, EraseBlockFails, Answered, Erasure,
              Refused, host
<1>7. CASE Ask
  BY <1>7 DEF Ask, HostWrite, HostErase, HostIsBad, HostMarkBad
<1>8. CASE PowerCut
  BY <1>8 DEF PowerCut
<1> QED BY <1>1, <1>2, <1>3, <1>4, <1>5, <1>6, <1>7, <1>8 DEF Next, Work

\* Only a search that finds no block refuses a request.
LEMMA RefusedStep ==
  ASSUME Next, ~worn, worn'
  PROVE  req # NoReq /\ req' = NoReq /\ UNCHANGED void
<1>1. CASE Boot
  BY <1>1 DEF Boot, LoadBmt, ReMark, LoadDone, StartReconstruct, Reconstruct, ReconstructDone, host
<1>2. CASE Find
  BY <1>2 DEF Find, ErasePool, PoolErased, FindBlock, NoBlock, FindBmtBlock, NoBmtBlock, Refused,
              Idle, host
<1>3. CASE Move
  BY <1>3 DEF Move, Migrate, MigrateFails, MigrateDone, host
<1>4. CASE Commit
  BY <1>4 DEF Commit, UpdateTable, EraseBmt, EraseBmtFails, ProgramBmt, ProgramBmtFails, MarkOld,
              Answered, Erasure, host
<1>5. CASE Serve
  BY <1>5 DEF Serve, WritePage, WritePageFails, EraseBlock, EraseBlockFails, Answered, Erasure,
              Refused, host
<1>6. CASE Ask
  BY <1>6 DEF Ask, HostWrite, HostErase, HostIsBad, HostMarkBad
<1>7. CASE PowerCut
  BY <1>7 DEF PowerCut
<1> QED BY <1>1, <1>2, <1>3, <1>4, <1>5, <1>6, <1>7 DEF Next, Work

\* The tables of a new chip are erased blocks.
LEMMA NothingStored ==
  ASSUME HostInv, IInv, pc \in {"off", "scan"}
  PROVE  Candidates = {} /\ mapped_count = 0
         /\ \A x \in Pool : page[x][0] = Blank
<1>1. req = NoReq
  BY DEF IInv, RequestInv
<1>2. mapped_count = 0 /\ \A b \in Blocks : ErasedBlock(b)
  BY <1>1 DEF HostInv, FirstBoot
<1>3. \A x \in Pool : page[x][0] = Blank
  BY <1>2, GeometryFacts DEF ErasedBlock, Blocks
<1>4. Blank.kind # "bmt"
  BY DEF Blank
<1>5. Candidates = {}
  BY <1>3, <1>4 DEF Candidates
<1> QED BY <1>2, <1>3, <1>5

\* What the host sees of a step.
Outcome ==
  /\ Confined
  /\ \/ OnlyRequest /\ UNCHANGED <<req, void>>
     \/ Quietly /\ req = NoReq /\ req' # NoReq /\ UNCHANGED void
     \/ Succeeded \/ Failed
     \/ Quietly /\ req = NoReq /\ req' = NoReq /\ \E b \in System : void' = void \cup {b}

\* A quiet step is one the host does not see.
LEMMA QuietOutcome == Quietly /\ UNCHANGED <<req, void>> => Outcome
BY QuietlyShown, QuietConfined DEF Outcome, OnlyRequest

\* The first power-up of a chip, ...
LEMMA BootStep == ASSUME Ready, Boot PROVE HostInv' /\ Outcome
<1>1. ~LoadBmt
  BY NothingStored DEF LoadBmt, Ready
<1>2. ~ReMark /\ ~LoadDone
  BY DEF ReMark, LoadDone, Ready, HostInv, FirstBoot
<1>3. CASE StartReconstruct
  BY <1>3, StartReconstructHost, QuietOutcome DEF StartReconstruct, host
<1>4. CASE Reconstruct
  BY <1>4, ReconstructHost, QuietOutcome DEF Reconstruct, host
<1>5. CASE ReconstructDone
  BY <1>5, ReconstructDoneHost, QuietOutcome DEF ReconstructDone, host
<1> QED BY <1>1, <1>2, <1>3, <1>4, <1>5 DEF Boot

\* ... the searches, ...
LEMMA FindStep == ASSUME Ready, Find PROVE HostInv' /\ Outcome
<1>1. CASE ErasePool
  BY <1>1, ErasePoolHost, QuietOutcome DEF ErasePool, host
<1>2. CASE PoolErased
  BY <1>2, PoolErasedHost, QuietOutcome DEF PoolErased, host
<1>3. CASE FindBlock
  BY <1>3, FindBlockHost, QuietOutcome DEF FindBlock, host
<1>4. CASE FindBmtBlock
  BY <1>4, FindBmtBlockHost, QuietOutcome DEF FindBmtBlock, host
<1>5. CASE NoBmtBlock
  BY <1>5, NoBmtBlockHost, QuietOutcome
<1> QED BY <1>1, <1>2, <1>3, <1>4, <1>5, NoBlockHost DEF Find

\* ... the migrations, ...
LEMMA MoveStep == ASSUME Ready, Move PROVE HostInv' /\ Outcome
<1>1. CASE Migrate
  BY <1>1, MigrateHost, QuietOutcome DEF Migrate, host
<1>2. CASE MigrateFails
  BY <1>2, MigrateFailsHost, QuietOutcome DEF MigrateFails, host
<1>3. CASE MigrateDone
  BY <1>3, MigrateDoneHost, QuietOutcome DEF MigrateDone, host
<1> QED BY <1>1, <1>2, <1>3 DEF Move

\* ... the updates, ...
LEMMA CommitStep == ASSUME Ready, Commit PROVE HostInv' /\ Outcome
<1>1. CASE UpdateTable
  BY <1>1, UpdateTableHost DEF UpdateTable, host, Outcome
<1>2. CASE EraseBmt
  BY <1>2, EraseBmtHost, QuietOutcome DEF EraseBmt, host
<1>3. CASE EraseBmtFails
  BY <1>3, EraseBmtFailsHost, QuietOutcome DEF EraseBmtFails, host
<1>4. CASE ProgramBmt
  BY <1>4, ProgramBmtHost, QuietOutcome
<1>5. CASE ProgramBmtFails
  BY <1>5, ProgramBmtFailsHost, QuietOutcome DEF ProgramBmtFails, host
<1>6. CASE MarkOld
  BY <1>6, MarkOldHost, QuietOutcome DEF Outcome
<1> QED BY <1>1, <1>2, <1>3, <1>4, <1>5, <1>6 DEF Commit

\* ... the host's own commands ...
LEMMA ServeStep == ASSUME Ready, Serve PROVE HostInv' /\ Outcome
<1>1. CASE WritePage
  BY <1>1, WritePageHost DEF Outcome
<1>2. CASE WritePageFails
  BY <1>2, WritePageFailsHost DEF WritePageFails, host, Outcome
<1>3. CASE EraseBlock
  BY <1>3, EraseBlockHost DEF Outcome
<1>4. CASE EraseBlockFails
  BY <1>4, EraseBlockFailsHost DEF Outcome
<1> QED BY <1>1, <1>2, <1>3, <1>4 DEF Serve

\* ... and its calls keep the invariant, and do what the store allows.
LEMMA AskStep == ASSUME Ready, Ask PROVE HostInv' /\ Outcome
<1>1. PICK b \in System : \/ \E d \in Data : HostWrite(b, d)
                          \/ HostErase(b) \/ HostIsBad(b) \/ HostMarkBad(b)
  BY DEF Ask
<1>2. pc = "idle" /\ req = NoReq
  BY <1>1, IdleFacts DEF HostWrite, HostErase, HostIsBad, HostMarkBad
<1>3. CASE \E d \in Data : HostWrite(b, d)
  BY <1>2, <1>3, HostWriteHost, QuietConfined DEF Outcome
<1>4. CASE HostErase(b)
  BY <1>2, <1>4, HostEraseHost, QuietConfined DEF Outcome
<1>5. CASE HostIsBad(b)
  BY <1>2, <1>5, HostIsBadHost, QuietConfined DEF Outcome
<1>6. CASE HostMarkBad(b)
  BY <1>6, HostMarkBadHost, QuietConfined DEF Outcome
<1> QED BY <1>1, <1>3, <1>4, <1>5, <1>6

\* So every step does, as power stays on.
LEMMA ReadyStep == ASSUME Ready, Next PROVE HostInv' /\ Outcome
<1>1. ~PowerCut
  BY DEF PowerCut, Ready, Steady
<1> QED BY <1>1, BootStep, FindStep, MoveStep, CommitStep, ServeStep, AskStep DEF Next, Work
-----------------------------------------------------------------------------
(* The invariant, and the store it implements.                              *)

\* A new chip satisfies the invariant, ...
LEMMA InitSteady == Init => SteadyInv
<1> SUFFICES ASSUME Init PROVE HostInv
  BY DEF SteadyInv
<1>1. /\ pc = "off" /\ req = NoReq /\ mapped_count = 0 /\ void = System
      /\ \A b \in Blocks : ErasedBlock(b)
      /\ \A b \in System : next_page[b] = PagePerBlock
  BY DEF Init, ErasedBlock
<1>2. Live = {} /\ Mapped = {} /\ \A b \in System : Map(b) = b
  BY <1>1, MapEmpty
<1>3. UnusedReadsErased
  BY <1>1 DEF UnusedReadsErased, ErasedBlock, Read, Blank
<1>4. FreeIsErased
  BY <1>1 DEF FreeIsErased, Free, Blocks
<1>5. OneEntryPerBadBlock /\ MappedIsGood
  BY <1>1, <1>2 DEF OneEntryPerBadBlock, MappedIsGood
<1>6. RestIsErased
  BY <1>1, <1>2 DEF RestIsErased, ErasedBlock, Blocks
<1>7. ServeInv /\ UpdatingInv /\ UpdatedInv /\ FirstBoot
  BY <1>1 DEF ServeInv, NoReq, UpdatingInv, Updating, UpdatedInv, Updated, FirstBoot
<1> QED BY <1>3, <1>4, <1>5, <1>6, <1>7 DEF HostInv

\* ... and every step keeps it until a request is refused.
LEMMA SteadyStep ==
  ASSUME Steady, IInv, IInv', SteadyInv, [Next]_vars
  PROVE  SteadyInv'
<1>1. CASE worn
  BY <1>1, WornStays DEF SteadyInv
<1>2. CASE worn'
  BY <1>2 DEF SteadyInv
<1>3. CASE ~worn /\ ~worn' /\ Next
  BY <1>3, ReadyStep DEF SteadyInv, Ready
<1>4. CASE ~worn /\ UNCHANGED vars
  <2>1. HostInv
    BY <1>4 DEF SteadyInv
  <2>2. /\ UNCHANGED <<page, bad, table, mapped_count, bmt_block_index, pool_erased, pc>>
        /\ UNCHANGED <<cur, reason, error_block, map_index, left, req, next_page, void, worn>>
    BY <1>4 DEF vars, flash, bmt, locals, host
  <2>3. /\ Map(req.block)' = Map(req.block) /\ Mapped' = Mapped /\ Live' = Live
        /\ \A b \in System : Map(b)' = Map(b)
    BY <2>2 DEF Map, Mapped, Live
  <2>4. UnusedReadsErased' /\ OneEntryPerBadBlock'
    BY <2>1, <2>2, <2>3 DEF HostInv, UnusedReadsErased, OneEntryPerBadBlock
  <2>5. FreeIsErased'
    BY <2>1, <2>2, <2>3 DEF HostInv, FreeIsErased, Free, InUse, Updated, ErasedBlock
  <2>6. MappedIsGood' /\ RestIsErased' /\ ServeInv'
    BY <2>1, <2>2, <2>3 DEF HostInv, MappedIsGood, RestIsErased, BeingWritten, ServeInv
  <2>7. UpdatingInv'
    BY <2>1, <2>2, <2>3 DEF HostInv, UpdatingInv, Updating, Reasons, Copied, ErasedBlock
  <2>8. UpdatedInv'
    BY <2>1, <2>2, <2>3 DEF HostInv, UpdatedInv, Updated, Reasons, ErasedBlock
  <2>9. FirstBoot'
    BY <2>1, <2>2 DEF HostInv, FirstBoot, ErasedBlock
  <2> QED BY <2>4, <2>5, <2>6, <2>7, <2>8, <2>9 DEF HostInv, SteadyInv
<1> QED BY <1>1, <1>2, <1>3, <1>4

\* Where the blocks of the host lie, also while the code boots for the first time.
LEMMA HomeIs == IInv /\ HostInv => \A b \in System : Home(b) = Map(b)
<1> SUFFICES ASSUME IInv, HostInv, NEW b \in System
             PROVE  Home(b) = Map(b)
  OBVIOUS
<1>1. CASE ~InBoot
  BY <1>1 DEF Home
<1>2. CASE InBoot
  <2>1. pc \in {"off", "scan"}
    BY <1>2 DEF InBoot, HostInv, FirstBoot
  <2>2. Candidates = {} /\ mapped_count = 0 /\ \A x \in Pool : page[x][0] = Blank
    BY <2>1, NothingStored
  <2>3. NoIndex # b
    <3>1. FakeIndex \in Nat /\ NoIndex \in Nat /\ FakeIndex < NoIndex
      BY DEF FakeIndex, NoIndex
    <3>2. SystemBlockCount \in Nat /\ SystemBlockCount <= FakeIndex
      BY <3>1, Geometry
    <3> QED BY <3>1, <3>2 DEF System
  <2>4. {x \in Pool \ bad : page[x][0].idx = b} = {}
    BY <2>2, <2>3 DEF Blank
  <2>5. BootMap(b) = b
    BY <2>2, <2>4 DEF BootMap
  <2>6. Map(b) = b
    BY <2>2, MapEmpty
  <2> QED BY <1>2, <2>5, <2>6 DEF Home
<1> QED BY <1>1, <1>2

\* The content of the store.
LEMMA ContentIs ==
  IInv /\ HostInv => \A b \in System : Content[b] = [p \in Pages |-> Shown(b, p)]
BY HomeIs DEF Content, Shown

\* The blocks an erase does not reach, and those a loss of power may lose.
LEMMA KeptIs ==
  IInv /\ HostInv => /\ Stuck = {b \in System : StuckHere(b)}
                     /\ Loose = {b \in System : LooseHere(b)}
BY HomeIs DEF Stuck, Loose, StuckHere, LooseHere

\* The same of the next state.
LEMMA KeptIsNext ==
  IInv' /\ HostInv' => /\ Stuck' = {b \in System : StuckHere(b)'}
                       /\ Loose' = {b \in System : LooseHere(b)'}
<1>1. (IInv /\ HostInv => /\ Stuck = {b \in System : StuckHere(b)}
                          /\ Loose = {b \in System : LooseHere(b)})'
  BY KeptIs, PTL
<1> QED BY <1>1

\* The same of the next state.
LEMMA ContentIsNext ==
  IInv' /\ HostInv' => \A b \in System : Content'[b] = [p \in Pages |-> Shown(b, p)']
<1>1. (IInv /\ HostInv => \A b \in System : Content[b] = [p \in Pages |-> Shown(b, p)])'
  BY ContentIs, PTL
<1> QED BY <1>1

\* The blocks of the host and those of the pool are apart.
LEMMA PoolApart == System \cap Pool = {} /\ 0 \notin Pool /\ System \subseteq Blocks /\ Pool \subseteq Blocks
BY GeometryFacts, PoolNotZero, Geometry DEF System, Pool, Blocks

\* A new chip is an empty store, ...
LEMMA StoreInit == Init /\ IInv => Store!Init
<1> SUFFICES ASSUME Init, IInv PROVE Store!Init
  OBVIOUS
<1>1. HostInv /\ pc = "off" /\ req = NoReq /\ void = System /\ worn = FALSE
  BY InitSteady DEF Init, SteadyInv
<1>2. \A b \in System : Content[b] = [p \in Pages |-> Shown(b, p)]
  BY <1>1, ContentIs
<1>3. \A b \in System : \A p \in Pages : Shown(b, p) \in Data \cup {FF}
  BY MapElsewhere DEF Shown, Read, IInv, TypeOK, Page
<1>4. Content = [b \in System |-> Content[b]]
  BY DEF Content
<1>5. Content \in [System -> [Pages -> Data \cup {FF}]]
  BY <1>2, <1>3, <1>4
<1>6. Stuck = {} /\ Loose = {}
  <2>1. \A b \in System : Map(b) = b
    BY MapEmpty DEF Init
  <2> QED BY <1>1, <2>1, KeptIs DEF StuckHere, LooseHere
<1> QED BY <1>1, <1>5, <1>6 DEF Store!Init, NoReq, Store!NoReq

\* The mark of a block of the host goes with an erase the host asked for only.
LEMMA MarksStay ==
  ASSUME pc = "erase_bmt" => bmt_block_index \in Pool, pc = "erase" => req # NoReq,
         [Next]_vars, NEW b \in System, b \in bad, b \notin bad'
  PROVE  req # NoReq /\ b = req.block
<1>0. System \cap Pool = {}
  BY PoolApart
<1>1. bad \subseteq bad' \/ EraseBmt \/ EraseBlock
  <2>1. CASE UNCHANGED vars
    BY <2>1 DEF vars, flash
  <2>2. CASE Boot
    BY <2>2 DEF Boot, LoadBmt, ReMark, LoadDone, StartReconstruct, Reconstruct, ReconstructDone, flash,
                MarkBlockBad
  <2>3. CASE Find
    BY <2>3 DEF Find, ErasePool, PoolErased, FindBlock, NoBlock, FindBmtBlock, NoBmtBlock, flash,
                MarkBlockBad
  <2>4. CASE Move
    BY <2>4 DEF Move, Migrate, MigrateFails, MigrateDone, flash, MarkBlockBad
  <2>5. CASE Commit
    BY <2>5 DEF Commit, UpdateTable, EraseBmtFails, ProgramBmt, ProgramBmtFails, MarkOld, flash,
                MarkBlockBad
  <2>6. CASE Serve
    BY <2>6 DEF Serve, WritePage, WritePageFails, EraseBlockFails
  <2>7. CASE Ask
    BY <2>7 DEF Ask, HostWrite, HostErase, HostIsBad, HostMarkBad, flash, MarkBlockBad
  <2>8. CASE PowerCut
    BY <2>8 DEF PowerCut
  <2> QED BY <2>1, <2>2, <2>3, <2>4, <2>5, <2>6, <2>7, <2>8 DEF Next, Work
<1>2. ~EraseBmt
  <2> SUFFICES ASSUME EraseBmt PROVE FALSE
    OBVIOUS
  <2>1. b = bmt_block_index
    BY DEF EraseBmt
  <2>2. bmt_block_index \in Pool
    BY DEF EraseBmt
  <2> QED BY <1>0, <2>1, <2>2
<1>3. CASE EraseBlock
  BY <1>3 DEF EraseBlock, EraseTarget
<1> QED BY <1>1, <1>2, <1>3

\* ... and every step is one of the store, or none.
LEMMA StoreStep ==
  ASSUME Steady, IInv, IInv', SteadyInv, SteadyInv', [Next]_vars
  PROVE  [Store!Next]_Store!vars
<1>0. Store!NoReq = NoReq
  BY DEF Store!NoReq, NoReq
<1>1. CASE worn
  BY <1>1, WornStays DEF Store!Next, Store!Worn
<1>2. CASE ~worn /\ worn'
  <2>1. Next
    BY <1>2 DEF vars, host
  <2>2. req # NoReq /\ req' = NoReq /\ void' = void /\ worn' = TRUE
    BY <1>2, <2>1, RefusedStep DEF IInv, TypeOK
  <2> QED BY <1>0, <2>2 DEF Store!Next, Store!Refuse
<1>3. CASE ~worn /\ ~worn'
  <2>1. HostInv /\ HostInv'
    BY <1>3 DEF SteadyInv
  <2>2. \A b \in System : /\ Content[b] = [p \in Pages |-> Shown(b, p)]
                          /\ Content'[b] = [p \in Pages |-> Shown(b, p)']
    BY <2>1, ContentIs, ContentIsNext
  <2>3. \A b \in System : \A p \in Pages :
          Content[b][p] = Shown(b, p) /\ Content'[b][p] = Shown(b, p)'
    <3> SUFFICES ASSUME NEW b \in System, NEW p \in Pages
                 PROVE  Content[b][p] = Shown(b, p) /\ Content'[b][p] = Shown(b, p)'
      OBVIOUS
    <3>1. Content[b] = [q \in Pages |-> Read(page[Map(b)][q])]
      BY <2>2 DEF Shown
    <3>2. Content'[b] = [q \in Pages |-> Read(page'[Map(b)'][q])]
      BY <2>2 DEF Shown
    <3>3. Content[b][p] = Read(page[Map(b)][p]) /\ Content'[b][p] = Read(page'[Map(b)'][p])
      BY <3>1, <3>2
    <3> QED BY <3>3 DEF Shown
  <2>4. UNCHANGED worn
    BY <1>3 DEF IInv, TypeOK
  <2>5. Outcome
    <3>1. CASE Next
      BY <1>3, <2>1, <3>1, ReadyStep DEF Ready
    <3>2. CASE UNCHANGED vars
      <4>1. Quietly /\ UNCHANGED <<req, void>>
        BY <3>2, QuietFlash DEF vars, flash, bmt, host
      <4> QED BY <4>1, QuietOutcome
    <3> QED BY <3>1, <3>2
  <2>6. Confined => Store!Keeps(req)
    <3> SUFFICES ASSUME Confined PROVE Store!Keeps(req)
      OBVIOUS
    <3>1. \A b \in System : StuckHere(b)' => StuckHere(b) \/ (req.op = "write" /\ b = req.block)
      BY DEF Confined
    <3>2. \A b \in System : LooseHere(b)' => LooseHere(b) \/ (req # NoReq /\ b = req.block)
      <4>1. pc = "erase_bmt" => bmt_block_index \in Pool
        BY <2>1 DEF HostInv, FirstBoot
      <4>2. pc = "erase" => req # NoReq
        BY <2>1 DEF HostInv, ServeInv, NoReq
      <4> QED BY <4>1, <4>2, MarksStay DEF Confined, LooseHere
    <3> QED BY <1>0, <2>1, <3>1, <3>2, KeptIs, KeptIsNext DEF Store!Keeps
  <2>7. Store!Keeps(req)
    BY <2>5, <2>6 DEF Outcome
  <2>8. OnlyRequest => \A b \in System \ void : \A p \in Pages :
          (req.op = "erase" /\ b = req.block) \/ Content'[b][p] \in Store!During(req, b, p)
    <3> SUFFICES ASSUME OnlyRequest, NEW b \in System, b \notin void, NEW p \in Pages,
                        ~(req.op = "erase" /\ b = req.block)
                 PROVE  Content'[b][p] \in Store!During(req, b, p)
      OBVIOUS
    <3>1. \/ Shown(b, p)' = Shown(b, p)
          \/ req.op = "write" /\ b = req.block /\ p = req.page /\ Shown(b, p)' \in {req.data, FF}
      BY DEF OnlyRequest
    <3> QED BY <2>3, <3>1 DEF Store!During, Shown
  <2>9. CASE OnlyRequest /\ UNCHANGED <<req, void>>
    <3>1. Store!Progress
      BY <2>4, <2>7, <2>8, <2>9 DEF Store!Progress, Store!Bounded, Store!Untouched
    <3> QED BY <3>1 DEF Store!Next
  <2>10. CASE Quietly /\ req = NoReq /\ req' # NoReq /\ UNCHANGED void
    <3>1. \A b \in System : \A p \in Pages : Content'[b][p] = Content[b][p]
      BY <2>3, <2>10, QuietlyShown DEF Shown
    <3>2. Store!Bounded(NoReq)
      BY <2>7, <2>10, <3>1 DEF Store!Bounded, Store!Untouched, Store!During
    <3> QED BY <1>0, <2>4, <2>10, <3>2 DEF Store!Next, Store!Submit
  <2>11. CASE Succeeded
    <3>1. \A b \in System \ void' : \A p \in Pages :
            Content'[b][p] = IF b = req.block /\ req.op = "erase" THEN FF
                             ELSE IF b = req.block /\ req.op = "write" /\ p = req.page
                             THEN req.data ELSE Content[b][p]
      BY <2>3, <2>11 DEF Succeeded, Shown
    <3>2. req.block \in Stuck <=> StuckHere(req.block)
      <4>1. req.block \in System
        BY DEF IInv, TypeOK
      <4> QED BY <2>1, <4>1, KeptIs
    <3>3. void' = IF req.op # "erase" THEN void
                  ELSE IF req.block \in Stuck THEN void \cup {req.block} ELSE void \ {req.block}
      BY <2>11, <3>2 DEF Succeeded
    <3> QED BY <1>0, <2>4, <2>7, <2>11, <3>1, <3>3 DEF Succeeded, Store!Next, Store!Succeed
  <2>12. CASE Quietly /\ req = NoReq /\ req' = NoReq /\ \E b \in System : void' = void \cup {b}
    <3>1. \A b \in System : Content'[b] = Content[b]
      BY <2>2, <2>12, QuietlyShown
    <3>2. Store!GiveUp
      BY <1>0, <2>4, <2>7, <2>12, <3>1 DEF Store!GiveUp
    <3> QED BY <3>2 DEF Store!Next
  <2>13. CASE Failed
    <3>1. Store!EraseFails
      BY <1>0, <2>4, <2>7, <2>8, <2>13
      DEF Failed, Store!EraseFails, Store!Bounded, Store!Untouched
    <3> QED BY <3>1 DEF Store!Next
  <2> QED BY <2>5, <2>9, <2>10, <2>11, <2>12, <2>13 DEF Outcome
<1> QED BY <1>1, <1>2, <1>3

\* The NAND stack implements the store of module BlockStore as long as power
\* stays on: for every geometry, however many programs and erases fail, also in
\* the handling of one that failed, and however many blocks are bad from the
\* start or are marked by the host, no acknowledged page is lost or reads as an
\* older value, but in a block that was written in the pool and then erased,
\* until a request is refused for want of a block.
THEOREM FailuresLoseNothing == ASSUME Steady PROVE Spec => StoreSpec
<1>1. Init => IInv /\ SteadyInv
  BY InitInv, InitSteady
<1>2. Init => Store!Init
  BY InitInv, StoreInit
<1>3. IInv /\ SteadyInv /\ IInv' /\ [Next]_vars => SteadyInv'
  BY SteadyStep
<1>4. IInv /\ SteadyInv /\ IInv' /\ SteadyInv' /\ [Next]_vars => [Store!Next]_Store!vars
  BY StoreStep
<1>5. Spec => []IInv
  BY Inductive
<1> QED BY <1>1, <1>2, <1>3, <1>4, <1>5, PTL DEF Spec, StoreSpec, Store!Spec

\* The invariant holds, as long as power stays on.
LEMMA SteadyHolds == ASSUME Steady PROVE Spec => []SteadyInv
<1>1. Init => SteadyInv
  BY InitSteady
<1>2. IInv /\ IInv' /\ SteadyInv /\ [Next]_vars => SteadyInv'
  BY SteadyStep
<1> QED BY <1>1, <1>2, Inductive, PTL DEF Spec

\* As long as power stays on and no request has been refused, the copies of a
\* migration and the pages of the host, but in a block whose erase did not reach it,
\* are programmed into erased pages, however many commands fail.  (The table is not
\* always: see TableBlockErased.)
THEOREM ProgramsHitErasedPages ==
  ASSUME Steady PROVE Spec => [](worn \/ (HostPageErased /\ CopyPageErased))
<1>1. IInv /\ SteadyInv => worn \/ (HostPageErased /\ CopyPageErased)
  <2> SUFFICES ASSUME IInv, HostInv, ~worn PROVE HostPageErased /\ CopyPageErased
    BY DEF SteadyInv
  <2>1. HostPageErased
    <3> SUFFICES ASSUME pc = "program", req.block \notin void
                 PROVE  page[Map(req.block)][req.page] = Blank
      BY DEF HostPageErased
    <3>1. next_page[req.block] = req.page /\ req.block \in System /\ req.page \in Pages
      BY DEF HostInv, ServeInv, IInv, RequestInv, TypeOK
    <3>2. req.page >= next_page[req.block]
      BY <3>1, PagesFew
    <3> QED BY <3>1, <3>2 DEF HostInv, RestIsErased, BeingWritten
  <2>2. CopyPageErased
    <3> SUFFICES ASSUME pc = "migrate", left # {} PROVE page[map_index][NextPage] = Blank
      BY DEF CopyPageErased
    <3>1. NextPage \in left
      <4>1. left \in SUBSET Nat
        BY GeometryFacts DEF IInv, TypeOK
      <4> QED BY <4>1, MinIn DEF NextPage
    <3> QED BY <3>1 DEF HostInv, UpdatingInv, Updating
  <2> QED BY <2>1, <2>2
<1> QED BY <1>1, Inductive, SteadyHolds, PTL

\* While power stays on the table has one entry for a block that went bad.
THEOREM EntriesAreUnique == ASSUME Steady PROVE Spec => [](worn \/ OneEntryPerBadBlock)
<1>1. SteadyInv => worn \/ OneEntryPerBadBlock
  BY DEF SteadyInv, HostInv
<1> QED BY <1>1, SteadyHolds, PTL

\* An update makes the table longer or leaves it as long, if mapped_count is
\* wide enough for the pool: with the u8 of bmt.h, for pools of 255 blocks.
THEOREM CountOnlyGrows == ASSUME BmtBlockCount < CountModulus PROVE Spec => CountGrows
<1> DEFINE A == pc = "update" /\ pc' # "off" => mapped_count' >= mapped_count
<1>1. IInv /\ [Next]_vars => [A]_vars
  <2> SUFFICES ASSUME IInv, Next, pc = "update", pc' # "off" PROVE mapped_count' >= mapped_count
    OBVIOUS
  <2>1. mapped_count \in Nat
    BY DEF IInv, TypeOK
  <2>2. UNCHANGED mapped_count \/ UpdateTable
    BY DEF Next, Work, Boot, Find, Move, Commit, Serve, Ask, LoadBmt, ReMark, LoadDone,
           StartReconstruct, Reconstruct, ReconstructDone, Finding, ErasePool, PoolErased,
           FindBlock, NoBlock, FindBmtBlock, NoBmtBlock, Migrate, MigrateFails, MigrateDone,
           EraseBmt, EraseBmtFails, ProgramBmt, ProgramBmtFails, MarkOld, WritePage,
           WritePageFails, EraseBlock, EraseBlockFails, HostWrite, HostErase, HostIsBad,
           HostMarkBad, PowerCut, bmt
  <2>3. CASE UpdateTable
    <3>1. mapped_count < BmtBlockCount
      <4>1. map_index \in Pool /\ Mapped \subseteq Pool \ {map_index}
        BY DEF IInv, PoolDisjoint
      <4>2. Distinct(mapped_count, table) /\ MappedTo(mapped_count, table) = Mapped
        BY DEF IInv, PoolDisjoint, MappedTo, Mapped, Live
      <4> QED BY <2>1, <4>1, <4>2, PigeonHole
    <3>2. (mapped_count + 1) % CountModulus = mapped_count + 1
      <4>1. mapped_count + 1 < CountModulus /\ CountModulus \in Nat \ {0} /\ BmtBlockCount \in Nat
        BY <2>1, <3>1, Bounds, Geometry
      <4> QED BY <2>1, <4>1
    <3> QED BY <2>1, <2>3, <3>2 DEF UpdateTable
  <2> QED BY <2>1, <2>2, <2>3
<1>2. CountGrows <=> [][A]_vars
  BY DEF CountGrows
<1> HIDE DEF A
<1> QED BY <1>1, <1>2, Inductive, PTL DEF Spec
-----------------------------------------------------------------------------
(* Loss of power loses nothing as long as no command fails.                 *)

\* What is known before and after a step of the dependable system.
Powered == Dependable /\ IInv /\ IInv' /\ Hosts /\ Tables /\ ~worn /\ ~worn'

\* The block a table of n entries t maps b to.
Looked(n, t, b) == LET hits == {i \in 0 .. n - 1 : t[i].bad_index = b}
                   IN  IF hits = {} THEN b ELSE t[Min(hits)].mapped_index

\* get_mapping_block_index looks into the table in RAM, ...
LEMMA MapIs == \A b \in System : Map(b) = Looked(mapped_count, table, b)
<1> SUFFICES ASSUME NEW b \in System PROVE Map(b) = Looked(mapped_count, table, b)
  OBVIOUS
<1>1. ~(b > SystemBlockCount)
  BY Geometry DEF System
<1> QED BY <1>1 DEF Map, Looked, Live

\* ... also in the next state, ...
LEMMA MapIsNext == \A b \in System : Map(b)' = Looked(mapped_count', table', b)
<1>1. (\A b \in System : Map(b) = Looked(mapped_count, table, b))'
  BY MapIs, PTL
<1> QED BY <1>1 DEF Looked

\* ... and a boot that finds a table into that one.
LEMMA BootMapIs ==
  ASSUME Candidates # {}, NEW b, NEW t, t = page[Max(Candidates)][0].bmt
  PROVE  BootMap(b) = Looked(t.count, t.table, b)
BY DEF BootMap, Looked

\* Tables with the same entries map alike.
LEMMA LookedSame ==
  ASSUME NEW n \in Nat, NEW t, NEW u, NEW b, \A i \in 0 .. n - 1 : t[i] = u[i]
  PROVE  Looked(n, t, b) = Looked(n, u, b)
<1> DEFINE hits == {i \in 0 .. n - 1 : t[i].bad_index = b}
<1>1. hits = {i \in 0 .. n - 1 : u[i].bad_index = b}
  OBVIOUS
<1>2. CASE hits = {}
  BY <1>1, <1>2 DEF Looked
<1>3. CASE hits # {}
  <2>1. hits \in SUBSET Nat
    OBVIOUS
  <2>2. Min(hits) \in hits
    BY <1>3, <2>1, MinIn
  <2> QED BY <1>1, <1>3, <2>2 DEF Looked
<1> QED BY <1>2, <1>3

\* The block a name leads to.
FoundAt(b, h) == /\ h # b => h \in Pool \ bad /\ page[h][0].idx = b /\ b \in bad
                 /\ b \in bad => \A x \in Pool \ bad : page[x][0].idx = b => x = h

\* A boot without a table goes by the names.
LEMMA BootByName ==
  Candidates = {} => \A b \in System : \A h : FoundAt(b, h) => BootMap(b) = h
<1> SUFFICES ASSUME Candidates = {}, NEW b \in System, NEW h, FoundAt(b, h)
             PROVE  BootMap(b) = h
  OBVIOUS
<1> DEFINE hits == {x \in Pool \ bad : page[x][0].idx = b}
<1>1. BootMap(b) = IF b \notin bad \/ hits = {} THEN b ELSE Min(hits)
  BY DEF BootMap
<1>2. CASE h = b
  BY <1>1, <1>2, PoolApart DEF FoundAt
<1>3. CASE h # b
  <2>1. hits = {h} /\ b \in bad
    <3>1. h \in hits /\ b \in bad
      BY <1>3 DEF FoundAt
    <3>2. \A x \in hits : x = h
      BY <3>1 DEF FoundAt
    <3> QED BY <3>1, <3>2
  <2>2. hits \in SUBSET Nat
    BY GeometryFacts
  <2>3. Min(hits) \in hits
    BY <2>1, <2>2, MinIn
  <2> QED BY <1>1, <2>1, <2>3
<1> QED BY <1>2, <1>3

\* The same of the next state.
LEMMA BootByNameNext ==
  Candidates' = {} => \A b \in System : \A h : FoundAt(b, h)' => BootMap(b)' = h
<1>1. (Candidates = {} => \A b \in System : \A h : FoundAt(b, h) => BootMap(b) = h)'
  BY BootByName, PTL
<1> QED BY <1>1

\* Where a boot maps by the table it finds depends on the table's page only.
LEMMA BootSame ==
  ASSUME Candidates # {}, Candidates' = Candidates,
         \A c \in Candidates : page'[c][0] = page[c][0]
  PROVE  \A b \in System : BootMap(b)' = BootMap(b)
<1>1. Max(Candidates) \in Candidates
  BY CandidateBlocks
<1>2. page'[Max(Candidates)][0] = page[Max(Candidates)][0]
  BY <1>1
<1> QED BY <1>2 DEF BootMap

\* A block of the host lies in itself or in the pool, whatever a boot finds.
LEMMA BootMapCases ==
  IInv => \A b \in System : BootMap(b) = b \/ BootMap(b) \in Pool
<1> SUFFICES ASSUME IInv, NEW b \in System
             PROVE  BootMap(b) = b \/ BootMap(b) \in Pool
  OBVIOUS
<1>1. CASE Candidates # {}
  <2> DEFINE c == Max(Candidates)
             t == page[c][0].bmt
             hits == {i \in 0 .. t.count - 1 : t.table[i].bad_index = b}
  <2>1. c \in Candidates
    BY <1>1, CandidateBlocks
  <2>2. c \in Blocks /\ page[c][0].kind = "bmt"
    BY <2>1, PoolApart DEF Candidates
  <2>3. MappedTo(t.count, t.table) \subseteq Pool
    BY <2>2, GeometryFacts DEF IInv, StoredTablesDisjoint
  <2>4. t.count \in Nat
    BY <2>2, GeometryFacts DEF IInv, TypeOK, Page
  <2>5. BootMap(b) = IF hits = {} THEN b ELSE t.table[Min(hits)].mapped_index
    BY <1>1 DEF BootMap
  <2>6. CASE hits = {}
    BY <2>5, <2>6
  <2>7. CASE hits # {}
    <3>1. hits \in SUBSET Nat
      BY <2>4
    <3>2. Min(hits) \in hits
      BY <2>7, <3>1, MinIn
    <3>3. Min(hits) \in 0 .. t.count - 1
      BY <3>2
    <3> QED BY <2>3, <2>5, <2>7, <3>3 DEF MappedTo
  <2> QED BY <2>6, <2>7
<1>2. CASE Candidates = {}
  <2> DEFINE hits == {x \in Pool \ bad : page[x][0].idx = b}
  <2>1. BootMap(b) = IF b \notin bad \/ hits = {} THEN b ELSE Min(hits)
    BY <1>2 DEF BootMap
  <2>2. hits # {} => Min(hits) \in hits
    BY GeometryFacts, MinIn
  <2> QED BY <2>1, <2>2
<1> QED BY <1>1, <1>2

\* So it does at any time.
LEMMA HomeCases ==
  IInv => \A b \in System : Home(b) = b \/ Home(b) \in Pool
BY BootMapCases, MapCases DEF Home

\* The same after a step.
LEMMA HomeCasesNext ==
  IInv' => \A b \in System : Home(b)' = b \/ Home(b)' \in Pool
<1>1. (IInv => \A b \in System : Home(b) = b \/ Home(b) \in Pool)'
  BY HomeCases, PTL
<1> QED BY <1>1

\* The block of the table is none of the host's.
LEMMA BmtBlockApart ==
  ASSUME IInv, NEW b \in System, bmt_block_index # 0
  PROVE  bmt_block_index \in Pool \ Mapped /\ Map(b) # bmt_block_index
BY MapElsewhere DEF IInv, TypeOK, PoolDisjoint

\* A name leads to the block that bears it, unless the block named is given back.
LEMMA NamesByBlock ==
  NamesAreHomes <=> \A x \in Pool \ bad : \A b \in System :
                      page[x][0].idx = b => Home(b) = x \/ Astray(b)
BY DEF NamesAreHomes, Named

\* The same after a step.
LEMMA NamesByBlockNext ==
  (\A x \in Pool \ bad' : \A b \in System : page'[x][0].idx = b => Home(b)' = x \/ Astray(b)')
    => NamesAreHomes'
<1>1. (NamesAreHomes <=> \A x \in Pool \ bad : \A b \in System :
                           page[x][0].idx = b => Home(b) = x \/ Astray(b))'
  BY NamesByBlock, PTL
<1> QED BY <1>1

\* No block of the host moves or changes.
Stays == \A b \in System : Home(b)' = Home(b) /\ page'[Home(b)] = page[Home(b)]

\* Pool blocks keep their names or lose them.
NamesKept == \A x \in Pool \ bad : Named(x)' => page'[x][0].idx = page[x][0].idx

\* Nothing the host counts on turns up in the pool.
NoneHolds == \A b \in System : Holds(b)' /\ Home(b) # b => Holds(b)

\* A block that a boot gives back stays one, or no copy of it bears its name.
StraysKept == \A b \in System : Astray(b) =>
                Astray(b)' \/ \A x \in Pool \ bad : page'[x][0].idx = b => Home(b) = x

\* There is none while a table is found or the board is in service, and until
\* then it stays one.
LEMMA StraysStay ==
  ASSUME UNCHANGED bad,
         \/ pc \notin {"off", "scan", "find_bmt"} \/ Candidates # {}
         \/ pc' \in {"off", "scan", "find_bmt"} /\ Candidates' = {}
  PROVE  StraysKept
BY DEF StraysKept, Astray

\* Then its blocks are found as before.
LEMMA HostsKept ==
  ASSUME Powered, Stays, NamesKept, NoneHolds, NoMoreToWrite, StraysKept, UNCHANGED <<bad, void>>
  PROVE  Hosts'
<1>0. IInv /\ IInv' /\ HomesAreGood /\ HomesAreNamed /\ NamesAreHomes /\ RestIsBlank
  BY DEF Powered, Hosts
<1>1. HomesAreGood'
  BY <1>0 DEF Stays, HomesAreGood
<1>2. HomesAreNamed'
  <2> SUFFICES ASSUME NEW b \in System, Holds(b)', Home(b)' # b
               PROVE  page'[Home(b)'][0].idx = b
    BY DEF HomesAreNamed
  <2>1. Home(b)' = Home(b) /\ page'[Home(b)] = page[Home(b)]
    BY DEF Stays
  <2>2. Holds(b)
    BY <2>1 DEF NoneHolds
  <2> QED BY <1>0, <2>1, <2>2 DEF HomesAreNamed
<1>3. NamesAreHomes'
  <2>1. ASSUME NEW x \in Pool \ bad', NEW b \in System, page'[x][0].idx = b
        PROVE  Home(b)' = x \/ Astray(b)'
    <3>1. page[x][0].idx = b
      BY <2>1 DEF NamesKept, Named
    <3>2. Home(b) = x \/ Astray(b)
      BY <1>0, <3>1, NamesByBlock
    <3>3. Home(b) = x \/ Astray(b)'
      BY <2>1, <3>2 DEF StraysKept
    <3> QED BY <3>3 DEF Stays
  <2> QED BY <2>1, NamesByBlockNext
<1>4. RestIsBlank'
  <2> SUFFICES ASSUME NEW b \in System \ void', NEW p \in Pages, p >= next_page'[b]
               PROVE  page'[Home(b)'][p] = Blank
    BY DEF RestIsBlank
  <2>1. p >= next_page[b]
    BY PagesFew DEF NoMoreToWrite
  <2> QED BY <1>0, <2>1 DEF Stays, RestIsBlank
<1> QED BY <1>1, <1>2, <1>3, <1>4 DEF Hosts

\* No table is stored in this step, and one that stays is not changed.
StoredShrinks == \A c \in Candidates' : c \in Candidates /\ page'[c][0] = page[c][0]

\* What a table of n entries t has for a block.
OneEach(n, t) == \A i, j \in 0 .. n - 1 : t[i].bad_index = t[j].bad_index => i = j

\* Then what is stored stays sound, and a boot that finds it maps as before.
LEMMA StoredKept ==
  ASSUME Powered, StoredShrinks
  PROVE  /\ Candidates' \subseteq Candidates /\ \A c, d \in Candidates' : c = d
         /\ \A c \in Candidates' : OneEach(page'[c][0].bmt.count, page'[c][0].bmt.table)
         /\ Candidates' # {} => \A b \in System : BootMap(b)' = BootMap(b)
<1>0. (\A c, d \in Candidates : c = d)
      /\ \A c \in Candidates : OneEach(page[c][0].bmt.count, page[c][0].bmt.table)
  BY DEF Powered, Tables, OneTable, EntriesUnique, OneEach
<1>1. Candidates' \subseteq Candidates /\ \A c, d \in Candidates' : c = d
  BY <1>0 DEF StoredShrinks
<1>2. \A c \in Candidates' : OneEach(page'[c][0].bmt.count, page'[c][0].bmt.table)
  BY <1>0 DEF StoredShrinks
<1>3. ASSUME Candidates' # {} PROVE \A b \in System : BootMap(b)' = BootMap(b)
  <2>1. Candidates' = Candidates /\ Candidates # {}
    BY <1>0, <1>1, <1>3
  <2>2. \A c \in Candidates : page'[c][0] = page[c][0]
    BY <2>1 DEF StoredShrinks
  <2> QED BY <2>1, <2>2, BootSame
<1> QED BY <1>1, <1>2, <1>3

\* The three conjuncts about what is stored, from that.
LEMMA StoredStays ==
  ASSUME Powered, StoredShrinks, pc # "off", pc' \notin {"remark", "scan"},
         UNCHANGED bmt_block_index, OneEntryPerBadBlock'
  PROVE  OneTable' /\ EntriesUnique' /\ (pc' # "find_bmt" => ScanKnown')
<1>1. Candidates \subseteq {bmt_block_index}
  BY DEF Powered, Tables, OneTable
<1>2. OneTable'
  BY <1>1, StoredKept DEF OneTable
<1>3. EntriesUnique'
  BY StoredKept DEF EntriesUnique, OneEach
<1>4. pc' # "find_bmt" => ScanKnown'
  BY DEF ScanKnown
<1> QED BY <1>2, <1>3, <1>4

\* The table in the flash stays that in RAM.
LEMMA CurrentStays ==
  ASSUME Powered, StoredShrinks, pc \notin {"off", "scan", "erase_bmt"},
         UNCHANGED <<table, mapped_count>>,
         pc' \in {"idle", "program", "erase", "mark"} =>
           \/ pc \in {"idle", "program", "erase", "mark"} /\ Pool \cap bad \subseteq bad'
                /\ (Candidates # {} => Candidates' # {})
           \/ Candidates' # {} \/ Pool \subseteq bad'
  PROVE  StoredIsCurrent'
<1>1. \A b \in System : Map(b)' = Map(b)
  BY MapStays
<1>2. StoredIsCurrent
  BY DEF Powered, Tables
<1>3. Candidates' # {} => \A b \in System : BootMap(b)' = Map(b)'
  <2> SUFFICES ASSUME Candidates' # {} PROVE \A b \in System : BootMap(b)' = Map(b)'
    OBVIOUS
  <2>1. Candidates # {}
    BY StoredKept
  <2>2. \A b \in System : BootMap(b) = Map(b)
    BY <1>2, <2>1 DEF StoredIsCurrent
  <2> QED BY <1>1, <2>2, StoredKept
<1>4. pc' \in {"idle", "program", "erase", "mark"} => Candidates' # {} \/ Pool \subseteq bad'
  BY <1>2 DEF StoredIsCurrent
<1> QED BY <1>3, <1>4 DEF StoredIsCurrent

\* The table keeps its block.
LEMMA BlockStays ==
  ASSUME Powered, pc \notin {"off", "scan", "find_bmt"}, UNCHANGED bmt_block_index,
         Pool \cap bad \subseteq bad',
         bmt_block_index # 0 => /\ bmt_block_index \notin bad'
                                /\ Named(bmt_block_index)' => Named(bmt_block_index)
  PROVE  TableHasBlock'
<1>1. TableHasBlock
  BY DEF Powered, Tables
<1>2. CASE bmt_block_index # 0
  <2>1. bmt_block_index' # 0 /\ ~Named(bmt_block_index)' /\ bmt_block_index \notin bad'
    BY <1>1, <1>2 DEF TableHasBlock
  <2>2. page'[bmt_block_index'][0].idx \notin System
    BY <2>1 DEF Named
  <2> QED BY <2>1, <2>2 DEF TableHasBlock, Named
<1>3. CASE bmt_block_index = 0
  <2>1. Pool \subseteq bad'
    BY <1>1, <1>3 DEF TableHasBlock
  <2> QED BY <1>3, <2>1 DEF TableHasBlock
<1> QED BY <1>2, <1>3

\* A table has no name.
LEMMA TableUnnamed ==
  ASSUME IInv, NEW c \in Candidates PROVE c \in Pool \ bad /\ ~Named(c)
<1>1. c \in Pool \ bad /\ c \in Blocks /\ page[c][0].kind = "bmt"
  BY PoolApart DEF Candidates
<1>2. page[c][0].idx = NoIndex
  BY <1>1, GeometryFacts DEF IInv, TablesUnused, IsPageUsed
<1>3. NoIndex \notin System
  <2>1. FakeIndex \in Nat /\ NoIndex \in Nat /\ FakeIndex < NoIndex
    BY DEF FakeIndex, NoIndex
  <2>2. SystemBlockCount \in Nat /\ SystemBlockCount <= FakeIndex
    BY <2>1, Geometry
  <2> QED BY <2>1, <2>2 DEF System
<1> QED BY <1>1, <1>2, <1>3 DEF Named

\* With no request under way nothing is known of it.
LEMMA NoRequest == IInv /\ pc \in {"off", "remark", "scan", "idle"} => req = NoReq /\ req.op = "none"
BY DEF IInv, RequestInv, NoReq

-----------------------------------------------------------------------------
(* What a boot does to it: the search for the table and the scan.           *)

\* load_bmt_data finds the table the blocks of the host are mapped by.
LEMMA LoadBmtPower == ASSUME Powered, LoadBmt PROVE Hosts' /\ Tables' /\ Stays
<1> DEFINE found == Max(Candidates)
           t     == page[found][0].bmt
<1>1. /\ pc = "off" /\ pc' = "remark" /\ Candidates # {} /\ bmt_block_index' = found
      /\ mapped_count' = t.count
      /\ table' = [i \in Slots |-> IF i < t.count THEN t.table[i] ELSE Empty[i]]
      /\ UNCHANGED <<page, bad, cur, reason, error_block, req, next_page, void>>
  BY DEF LoadBmt, flash, locals, host
<1>2. IInv /\ IInv' /\ Tables /\ found \in Candidates
  BY <1>1, CandidateBlocks DEF Powered
<1>3. Candidates' = Candidates
  BY <1>1 DEF Candidates
<1>4. StoredShrinks
  BY <1>1, <1>3 DEF StoredShrinks
<1>5. \A b \in System : BootMap(b)' = BootMap(b)
  BY <1>1, <1>3, BootSame
<1>6. Stays
  BY <1>1, <1>5 DEF Stays, Home, InBoot
<1>7. Hosts'
  <2>1. NamesKept /\ NoneHolds /\ NoMoreToWrite
    BY <1>1 DEF NamesKept, NoneHolds, Holds, NoMoreToWrite
  <2>2. StraysKept
    BY <1>1, StraysStay
  <2> QED BY <1>1, <1>6, <2>1, <2>2, HostsKept
<1>8. t.count \in Nat /\ \A i \in 0 .. t.count - 1 : table'[i] = t.table[i]
  <2>0. found \in Blocks /\ page[found][0].kind = "bmt"
    BY <1>2, PoolApart DEF Candidates
  <2>1. found \in Blocks /\ page[found][0].kind = "bmt" /\ page[found][0] \in Page
    BY <1>2, <2>0, GeometryFacts DEF IInv, TypeOK
  <2>2. Distinct(t.count, t.table) /\ MappedTo(t.count, t.table) \subseteq Pool \ {found}
    BY <1>2, <2>1, GeometryFacts DEF IInv, StoredTablesDisjoint
  <2>3. t.count \in Nat
    BY <2>1 DEF Page
  <2> HIDE DEF t, found
  <2>4. t.count <= BmtBlockCount
    BY <2>2, <2>3, PigeonHole
  <2>5. 0 .. t.count - 1 \subseteq Slots
    BY <2>3, <2>4, Geometry DEF Slots
  <2> QED BY <1>1, <2>3, <2>5
<1> HIDE DEF t, found
<1>9. StoredIsCurrent'
  <2>1. \A b \in System : BootMap(b) = Looked(t.count, t.table, b)
    BY <1>1, BootMapIs DEF t, found
  <2>2. \A b \in System : Map(b)' = Looked(t.count, table', b)
    BY <1>1, MapIsNext
  <2>3. \A b \in System : Looked(t.count, table', b) = Looked(t.count, t.table, b)
    BY <1>8, LookedSame
  <2>4. \A b \in System : BootMap(b)' = Map(b)'
    BY <1>5, <2>1, <2>2, <2>3
  <2> QED BY <1>1, <2>4 DEF StoredIsCurrent
<1>10. OneTable'
  <2>1. Candidates' \subseteq {found}
    BY <1>2, <1>3 DEF Tables, OneTable
  <2> QED BY <1>1, <1>3, <2>1 DEF OneTable
<1>11. EntriesUnique'
  <2>1. OneEach(t.count, t.table)
    BY <1>2 DEF Tables, EntriesUnique, OneEach, t
  <2>2. OneEntryPerBadBlock'
    BY <1>1, <1>8, <2>1 DEF OneEach, OneEntryPerBadBlock, Live
  <2> QED BY <1>4, <2>2, StoredKept DEF EntriesUnique, OneEach
<1>12. TableHasBlock'
  <2>1. found \in Pool \ bad /\ ~Named(found)
    BY <1>2, TableUnnamed
  <2>2. found # 0 /\ page'[found][0].idx \notin System
    BY <1>1, <2>1, PoolNotZero DEF Named
  <2> QED BY <1>1, <2>1, <2>2 DEF TableHasBlock, Named
<1>13. req = NoReq /\ req.op = "none"
  BY <1>1, <1>2, NoRequest
<1>14. TableGoesToErased' /\ CallsInv' /\ UpdatesVoid' /\ ScanKnown'
  BY <1>1, <1>13 DEF TableGoesToErased, TableBlockErased, CallsInv, UpdatesVoid, ScanKnown
<1> QED BY <1>6, <1>7, <1>9, <1>10, <1>11, <1>12, <1>14 DEF Tables

\* A step that changes nothing but cur, left and the bounds keeps all of it.
LEMMA PowerStill ==
  ASSUME Powered,
         UNCHANGED <<page, bad, table, mapped_count, bmt_block_index, pool_erased, pc, reason>>,
         UNCHANGED <<error_block, map_index, req, next_page, void>>,
         UNCHANGED cur \/ pc = "remark"
  PROVE  Hosts' /\ Tables' /\ Stays
<1>0. Hosts /\ Tables
  BY DEF Powered
<1>1. Candidates' = Candidates /\ Live' = Live /\ Mapped' = Mapped /\ Free' = Free
  BY DEF Candidates, Live, Mapped, Free
<1>2. \A b \in System : BootMap(b)' = BootMap(b) /\ Map(b)' = Map(b) /\ Home(b)' = Home(b)
  BY <1>1 DEF BootMap, Map, Home, InBoot
<1>3. Stays
  BY <1>2 DEF Stays
<1>4. Hosts'
  <2>1. NamesKept /\ NoneHolds /\ NoMoreToWrite
    BY DEF NamesKept, NoneHolds, Holds, NoMoreToWrite
  <2>2. StraysKept
    BY <1>1, StraysStay
  <2> QED BY <1>3, <2>1, <2>2, HostsKept
<1>5. OneTable' /\ EntriesUnique' /\ StoredIsCurrent'
  BY <1>0, <1>1, <1>2 DEF Tables, OneTable, EntriesUnique, StoredIsCurrent, OneEntryPerBadBlock
<1>6. TableHasBlock' /\ TableGoesToErased'
  BY <1>0, <1>1, <1>2 DEF Tables, TableHasBlock, Named, TableGoesToErased, TableBlockErased
<1>7. Map(req.block)' = Map(req.block)
  BY <1>1 DEF Map
<1>8. CallsInv' /\ ScanKnown'
  BY <1>0, <1>1, <1>7 DEF Tables, CallsInv, ScanKnown, Named
<1>9. UpdatesVoid'
  BY <1>0, <1>7 DEF Tables, UpdatesVoid, Named
<1> QED BY <1>3, <1>4, <1>5, <1>6, <1>8, <1>9 DEF Tables

\* A block of the host that has moved is marked again if its mark was lost.
LEMMA ReMarkPower == ASSUME Powered, ReMark PROVE Hosts' /\ Tables' /\ Stays
<1> DEFINE b == table[cur].bad_index
<1>1. /\ pc = "remark" /\ pc' = "remark" /\ cur < mapped_count
      /\ IF b \in bad THEN UNCHANGED bad ELSE MarkBlockBad(b)
      /\ UNCHANGED <<page, table, mapped_count, bmt_block_index, pool_erased, pc, reason>>
      /\ UNCHANGED <<error_block, map_index, req, next_page, void>>
  BY DEF ReMark, bmt, host
<1>2. IInv /\ Hosts /\ Tables
  BY DEF Powered
<1>3. cur \in Live /\ b \in System
  <2>1. mapped_count \in Nat /\ cur \in Nat /\ mapped_count <= BmtBlockCount
    BY <1>2, CountBound DEF IInv, TypeOK
  <2>2. cur \in Live /\ cur \in Slots
    BY <1>1, <2>1, Geometry DEF Live, Slots
  <2> QED BY <1>2, <2>2 DEF IInv, TypeOK, Entry
<1>4. Map(b) # b
  <2> HIDE DEF b
  <2>1. Map(b) \in Pool
    BY <1>2, <1>3, MapCases DEF b
  <2> QED BY <1>3, <2>1, PoolApart
<1>5. BootMap(b) = Map(b)
  BY <1>1, <1>2, <1>3 DEF Tables, OneTable, StoredIsCurrent
<1>6. Home(b) = BootMap(b)
  BY <1>1 DEF Home, InBoot
<1> HIDE DEF b
<1>7. CASE UNCHANGED bad
  BY <1>1, <1>7, PowerStill
<1>8. CASE bad' = bad \cup {b}
  <2>1. b \notin Pool /\ Candidates # {}
    BY <1>1, <1>2, <1>3, PoolApart DEF Tables, OneTable
  <2>2. Candidates' = Candidates /\ Live' = Live /\ Pool \cap bad' = Pool \cap bad
    BY <1>1, <1>8, <2>1 DEF Candidates, Live
  <2>3. \A c \in System : BootMap(c)' = BootMap(c) /\ Home(c)' = Home(c)
    BY <1>1, <2>1, <2>2 DEF BootMap, Home, InBoot
  <2>4. Stays
    BY <1>1, <2>3 DEF Stays
  <2>5. HomesAreGood'
    <3> SUFFICES ASSUME NEW c \in System \ void PROVE Home(c) \notin bad \cup {b}
      BY <1>1, <1>8, <2>3 DEF HomesAreGood
    <3>1. Home(c) \notin bad
      BY <1>2 DEF Hosts, HomesAreGood
    <3>2. Home(c) # b
      BY <1>2, <1>4, <1>5, <1>6, <2>1, HomeCases
    <3> QED BY <3>1, <3>2
  <2>6. HomesAreNamed' /\ RestIsBlank'
    BY <1>1, <1>2, <2>3 DEF Hosts, HomesAreNamed, Holds, RestIsBlank
  <2>7. NamesAreHomes'
    <3>1. ASSUME NEW x \in Pool \ bad', NEW c \in System, page'[x][0].idx = c
          PROVE  Home(c)' = x
      <4>1. Home(c) = x
        BY <1>1, <1>2, <2>2, <3>1, NamesByBlock DEF Hosts, Astray
      <4> QED BY <2>3, <4>1
    <3> QED BY <3>1, NamesByBlockNext
  <2>8. \A c \in System : Map(c)' = Map(c)
    BY <1>1, MapStays
  <2>9. OneTable' /\ EntriesUnique' /\ StoredIsCurrent'
    BY <1>1, <1>2, <2>2, <2>3, <2>8
       DEF Tables, OneTable, EntriesUnique, StoredIsCurrent, OneEntryPerBadBlock
  <2>10. TableHasBlock'
    <3>1. bmt_block_index # 0 /\ bmt_block_index \in Pool
      BY <1>1, <1>2, <2>1, PoolNotZero DEF Tables, OneTable, Candidates
    <3> QED BY <1>1, <1>2, <2>2, <3>1 DEF Tables, TableHasBlock, Named
  <2>11. req = NoReq /\ req.op = "none"
    BY <1>1, <1>2, NoRequest
  <2>12. TableGoesToErased' /\ CallsInv' /\ UpdatesVoid' /\ ScanKnown'
    BY <1>1, <2>11 DEF TableGoesToErased, TableBlockErased, CallsInv, UpdatesVoid, ScanKnown
  <2> QED BY <2>4, <2>5, <2>6, <2>7, <2>9, <2>10, <2>12 DEF Hosts, Tables
<1> QED BY <1>1, <1>7, <1>8 DEF MarkBlockBad

\* Then the table serves.
LEMMA LoadDonePower == ASSUME Powered, LoadDone PROVE Hosts' /\ Tables' /\ Stays
<1>1. /\ pc = "remark" /\ pc' = "idle"
      /\ UNCHANGED <<page, bad, table, mapped_count, bmt_block_index, pool_erased, reason>>
      /\ UNCHANGED <<error_block, map_index, req, next_page, void>>
  BY DEF LoadDone, flash, bmt, host
<1>2. IInv /\ Hosts /\ Tables /\ Candidates # {}
  BY <1>1 DEF Powered, Tables, OneTable
<1>3. Candidates' = Candidates
  BY <1>1 DEF Candidates
<1>4. StoredShrinks
  BY <1>1, <1>3 DEF StoredShrinks
<1>5. \A b \in System : Map(b)' = Map(b) /\ BootMap(b) = Map(b)
  BY <1>1, <1>2, MapStays DEF Tables, StoredIsCurrent
<1>6. Stays
  BY <1>1, <1>5 DEF Stays, Home, InBoot
<1>7. Hosts'
  <2>1. NamesKept /\ NoneHolds /\ NoMoreToWrite
    BY <1>1 DEF NamesKept, NoneHolds, Holds, NoMoreToWrite
  <2>2. StraysKept
    BY <1>1, <1>2, <1>3, StraysStay
  <2> QED BY <1>1, <1>6, <2>1, <2>2, HostsKept
<1>8. req = NoReq /\ req.op = "none"
  BY <1>1, <1>2, NoRequest
<1>9. OneTable' /\ EntriesUnique' /\ ScanKnown'
  <2>1. OneEntryPerBadBlock'
    BY <1>1, <1>2, MapStays DEF Tables, EntriesUnique
  <2> QED BY <1>1, <1>4, <2>1, StoredStays
<1>10. StoredIsCurrent'
  BY <1>1, <1>2, <1>3, <1>4, CurrentStays
<1>11. TableHasBlock'
  BY <1>1, <1>2, BlockStays DEF Tables, TableHasBlock, Named
<1>12. TableGoesToErased' /\ CallsInv' /\ UpdatesVoid'
  BY <1>1, <1>8 DEF TableGoesToErased, TableBlockErased, CallsInv, UpdatesVoid
<1> QED BY <1>6, <1>7, <1>9, <1>10, <1>11, <1>12 DEF Tables

\* Without a table nothing is known yet, ...
LEMMA StartReconstructPower == ASSUME Powered, StartReconstruct PROVE Hosts' /\ Tables' /\ Stays
<1>1. /\ pc = "off" /\ pc' = "scan" /\ Candidates = {} /\ mapped_count' = 0
      /\ bmt_block_index' = 0 /\ pool_erased' = FALSE
      /\ UNCHANGED <<page, bad, cur, reason, error_block, req, next_page, void>>
  BY DEF StartReconstruct, flash, locals, host
<1>2. IInv /\ Tables
  BY DEF Powered
<1>3. Candidates' = {} /\ Live' = {} /\ Mapped' = {}
  BY <1>1, MapEmptyNext DEF Candidates
<1>4. \A b \in System : BootMap(b)' = BootMap(b)
  BY <1>1, <1>3 DEF BootMap
<1>5. Stays
  BY <1>1, <1>4 DEF Stays, Home, InBoot
<1>6. Hosts'
  <2>1. NamesKept /\ NoneHolds /\ NoMoreToWrite
    BY <1>1 DEF NamesKept, NoneHolds, Holds, NoMoreToWrite
  <2>2. StraysKept
    BY <1>1, <1>3, StraysStay
  <2> QED BY <1>1, <1>5, <2>1, <2>2, HostsKept
<1>7. req = NoReq /\ req.op = "none"
  BY <1>1, <1>2, NoRequest
<1>8. OneTable' /\ EntriesUnique' /\ StoredIsCurrent'
  BY <1>1, <1>3 DEF OneTable, EntriesUnique, StoredIsCurrent, OneEntryPerBadBlock
<1>9. Pool \subseteq bad \/ \E y \in Pool \ bad : ~Named(y)
  <2>1. bmt_block_index \in {0} \cup Pool
    BY <1>2 DEF IInv, TypeOK
  <2> QED BY <1>2, <2>1 DEF Tables, TableHasBlock
<1>10. TableHasBlock'
  BY <1>1, <1>3, <1>9 DEF TableHasBlock, Named
<1>11. cur' = 0
  BY <1>1, <1>2 DEF Tables, CallsInv
<1>12. ScanKnown'
  <2>1. \A x \in Pool : ~(x < SystemBlockCount + cur')
    BY <1>11, GeometryFacts, Geometry
  <2> QED BY <1>3, <2>1 DEF ScanKnown
<1>13. TableGoesToErased' /\ CallsInv' /\ UpdatesVoid'
  BY <1>1, <1>7 DEF TableGoesToErased, TableBlockErased, CallsInv, UpdatesVoid
<1> QED BY <1>5, <1>6, <1>8, <1>10, <1>12, <1>13 DEF Tables

\* ... and what a scan knows of a block that bears the name of a bad one: no
\* entry has it yet.
LEMMA ScanFacts ==
  ASSUME Powered, pc = "scan", NEW x, x \in Pool \ bad, NEW b, b = page[x][0].idx, b \in System,
         b \in bad
  PROVE  /\ Home(b) = x
         /\ \A i \in Live : table[i].bad_index = b => table[i].mapped_index = x
         /\ x \notin Mapped => SlotsOf(b) = {} /\ \A i \in Live : table[i].bad_index # b
<1>1. IInv /\ Hosts /\ Tables
  BY DEF Powered
<1>2. Home(b) = x
  BY <1>1, NamesByBlock DEF Hosts, Astray
<1>5. ASSUME NEW i \in Live, table[i].bad_index = b PROVE table[i].mapped_index = x
  <2>1. /\ table[i].mapped_index \in Pool \ bad /\ page[table[i].mapped_index][0].idx = b
    BY <1>1, <1>5 DEF Tables, ScanKnown, IInv, PoolDisjoint, Mapped
  <2> QED BY <1>1, <1>2, <2>1, NamesByBlock DEF Hosts, Astray
<1>6. x \notin Mapped => \A i \in Live : table[i].bad_index # b
  BY <1>5 DEF Mapped
<1>7. SlotsOf(b) = {}
  BY <1>1, PoolApart DEF SlotsOf, IInv, PoolDisjoint, Mapped
<1> QED BY <1>2, <1>5, <1>6, <1>7

\* The entry it adds.
LEMMA ScanAppends ==
  ASSUME Powered, Reconstruct, NEW x, x = SystemBlockCount + cur, x \in Pool \ bad,
         NEW b, b = page[x][0].idx, b \in System, b \in bad
  PROVE  /\ Live' = Live \cup {mapped_count} /\ mapped_count \notin Live /\ x \notin Mapped
         /\ \A i \in Live : table'[i] = table[i]
         /\ table'[mapped_count] = [bad_index |-> b, mapped_index |-> x]
<1>1. IInv /\ pc = "scan" /\ Dependable
  BY DEF Powered, Reconstruct
<1>2. cur \in Nat /\ SystemBlockCount \in Nat
  BY <1>1, Geometry DEF IInv, TypeOK
<1>3. x \notin Mapped
  BY <1>1, <1>2 DEF IInv, ScanInv
<1>4. SlotsOf(b) = {}
  BY <1>1, <1>3, ScanFacts
<1>5. ~(b >= SystemBlockCount)
  BY Geometry DEF System
<1>6. /\ table' = [table EXCEPT ![mapped_count] = [bad_index |-> b, mapped_index |-> x]]
      /\ mapped_count' = (mapped_count + 1) % CountModulus
  BY <1>4, <1>5 DEF Reconstruct
<1>7. mapped_count \in Nat /\ mapped_count < BmtBlockCount
  <2>1. Distinct(mapped_count, table) /\ MappedTo(mapped_count, table) = Mapped
    BY <1>1 DEF IInv, PoolDisjoint, MappedTo, Mapped, Live
  <2>2. Mapped \subseteq Pool \ {x} /\ mapped_count \in Nat
    BY <1>1, <1>3 DEF IInv, PoolDisjoint, TypeOK
  <2> QED BY <2>1, <2>2, PigeonHole
<1>8. mapped_count' = mapped_count + 1
  <2>1. mapped_count + 1 < CountModulus /\ CountModulus \in Nat \ {0} /\ BmtBlockCount \in Nat
    BY <1>1, <1>7, Bounds, Geometry DEF Dependable
  <2> QED BY <1>6, <1>7, <2>1
<1>9. mapped_count \in Slots /\ DOMAIN table = Slots
  <2>1. DOMAIN table = Slots
    BY <1>1 DEF IInv, TypeOK
  <2>2. mapped_count \in Slots
    BY <1>7, Geometry DEF Slots
  <2> QED BY <2>1, <2>2
<1>10. Live' = Live \cup {mapped_count} /\ mapped_count \notin Live
  BY <1>7, <1>8 DEF Live
<1>11. \A i \in Live : table'[i] = table[i]
  BY <1>6, <1>10
<1>12. table'[mapped_count] = [bad_index |-> b, mapped_index |-> x]
  BY <1>6, <1>9
<1> QED BY <1>3, <1>10, <1>11, <1>12

\* So it rebuilds, block by block, ...
LEMMA ReconstructPower == ASSUME Powered, Reconstruct PROVE Hosts' /\ Tables' /\ Stays
<1> DEFINE x == SystemBlockCount + cur
           b == page[x][0].idx
<1>1. /\ pc = "scan" /\ pc' = "scan" /\ cur < BmtBlockCount /\ cur' = cur + 1
      /\ UNCHANGED <<page, bad, bmt_block_index, pool_erased, req, next_page, void>>
  BY DEF Reconstruct, flash, host
<1>2. IInv /\ Hosts /\ Tables /\ bmt_block_index = 0
  BY <1>1 DEF Powered, IInv, ScanInv
<1>3. Candidates' = Candidates /\ Candidates = {}
  BY <1>1, <1>2, PoolNotZero DEF Candidates, Tables, OneTable
<1>4. \A c \in System : BootMap(c)' = BootMap(c)
  BY <1>1, <1>3 DEF BootMap
<1>5. Stays
  BY <1>1, <1>4 DEF Stays, Home, InBoot
<1>6. Hosts'
  <2>1. NamesKept /\ NoneHolds /\ NoMoreToWrite
    BY <1>1 DEF NamesKept, NoneHolds, Holds, NoMoreToWrite
  <2>2. StraysKept
    BY <1>1, <1>3, StraysStay
  <2> QED BY <1>1, <1>5, <2>1, <2>2, HostsKept
<1>7. req = NoReq /\ req.op = "none"
  BY <1>1, <1>2, NoRequest
<1>8. cur \in Nat /\ x \in Pool /\ SystemBlockCount \in Nat
  BY <1>1, <1>2, GeometryFacts, Geometry DEF IInv, TypeOK
<1>9. page[x][0] \in Page
  <2>1. x \in Blocks
    BY <1>8, PoolApart
  <2> HIDE DEF x
  <2> QED BY <1>2, <2>1, GeometryFacts DEF IInv, TypeOK
<1>10. b < SystemBlockCount <=> b \in System
  <2>1. b \in System \cup {FakeIndex, NoIndex}
    BY <1>9 DEF Page
  <2> HIDE DEF b
  <2> QED BY <2>1, GeometryFacts
<1>11. OneEntryPerBadBlock /\ ScanKnown
  BY <1>1, <1>2 DEF Tables, EntriesUnique
<1>12. OneEntryPerBadBlock' /\ ScanKnown' /\ Mapped' \subseteq Mapped \cup ({x} \cap {y \in Pool : Named(y)})
  <2>1. CASE x \in bad \/ b \notin System \/ b \notin bad
    <3>1. x \in bad \/ b >= SystemBlockCount \/ b \notin bad
      <4>1. FakeIndex \in Nat /\ NoIndex \in Nat /\ System \subseteq Nat
        BY GeometryFacts DEF FakeIndex, NoIndex
      <4>2. b \in Nat
        BY <1>9, <4>1 DEF Page
      <4> HIDE DEF b, x
      <4> QED BY <1>8, <1>10, <2>1, <4>2
    <3>2. UNCHANGED <<table, mapped_count>>
      BY <3>1 DEF Reconstruct
    <3>3. Live' = Live /\ Mapped' = Mapped
      BY <3>2 DEF Live, Mapped
    <3>4. \A y \in Pool \ bad : y < SystemBlockCount + cur' /\ Named(y) /\ page[y][0].idx \in bad
                                 => y \in Mapped
      <4> SUFFICES ASSUME NEW y \in Pool \ bad, y < SystemBlockCount + cur', Named(y),
                          page[y][0].idx \in bad
                   PROVE  y \in Mapped
        OBVIOUS
      <4>1. y \in Nat /\ y # x
        BY <2>1, GeometryFacts DEF Named
      <4>2. y < SystemBlockCount + cur
        BY <1>1, <1>8, <4>1
      <4> QED BY <1>1, <1>11, <4>2 DEF ScanKnown
    <3> QED BY <1>1, <1>11, <3>2, <3>3, <3>4 DEF OneEntryPerBadBlock, ScanKnown, Named
  <2>2. CASE x \notin bad /\ b \in System /\ b \in bad
    <3>1. /\ Live' = Live \cup {mapped_count} /\ mapped_count \notin Live /\ x \notin Mapped
          /\ \A i \in Live : table'[i] = table[i]
          /\ table'[mapped_count] = [bad_index |-> b, mapped_index |-> x]
      BY <1>8, <2>2, ScanAppends
    <3>2. b \in bad /\ \A i \in Live : table[i].bad_index # b
      BY <1>1, <1>8, <2>2, <3>1, ScanFacts
    <3> HIDE DEF b
    <3>3. /\ table'[mapped_count].bad_index = b /\ table'[mapped_count].mapped_index = x
          /\ b = page[x][0].idx
      BY <3>1 DEF b
    <3>4. Mapped' = Mapped \cup {x}
      BY <3>1, <3>3 DEF Mapped
    <3>5. OneEntryPerBadBlock'
      BY <1>11, <3>1, <3>2, <3>3 DEF OneEntryPerBadBlock
    <3>6. \A i \in Live' : /\ table'[i].mapped_index \notin bad /\ table'[i].bad_index \in bad
                           /\ page[table'[i].mapped_index][0].idx = table'[i].bad_index
      BY <1>1, <1>11, <2>2, <3>1, <3>2, <3>3 DEF ScanKnown
    <3>7. \A y \in Pool \ bad : y < SystemBlockCount + cur' /\ Named(y) /\ page[y][0].idx \in bad
                                 => y \in Mapped'
      <4> SUFFICES ASSUME NEW y \in Pool \ bad, y < SystemBlockCount + cur', Named(y),
                          page[y][0].idx \in bad, y # x
                   PROVE  y \in Mapped'
        BY <3>4
      <4>1. y \in Nat
        BY GeometryFacts
      <4>2. y < SystemBlockCount + cur
        BY <1>1, <1>8, <4>1
      <4> QED BY <1>1, <1>11, <3>4, <4>2 DEF ScanKnown
    <3>8. ScanKnown'
      BY <1>1, <3>6, <3>7 DEF ScanKnown, Named
    <3>9. Named(x)
      BY <2>2, <3>3 DEF Named
    <3> QED BY <1>8, <3>4, <3>5, <3>8, <3>9
  <2> QED BY <2>1, <2>2
<1>13. OneTable' /\ EntriesUnique' /\ StoredIsCurrent'
  BY <1>1, <1>3, <1>12 DEF OneTable, EntriesUnique, StoredIsCurrent
<1>14. TableHasBlock'
  <2>1. Pool \subseteq bad \/ \E y \in Pool \ bad : ~Named(y) /\ y \notin Mapped
    BY <1>1, <1>2 DEF Tables, TableHasBlock
  <2>2. Pool \subseteq bad \/ \E y \in Pool \ bad : ~Named(y) /\ y \notin Mapped'
    BY <1>12, <2>1
  <2> QED BY <1>1, <1>2, <2>2 DEF TableHasBlock, Named
<1>15. TableGoesToErased' /\ CallsInv' /\ UpdatesVoid'
  BY <1>1, <1>2, <1>7 DEF TableGoesToErased, TableBlockErased, Tables, CallsInv, UpdatesVoid
<1> QED BY <1>5, <1>6, <1>12, <1>13, <1>14, <1>15 DEF Tables

\* ... the mapping a boot goes by.
LEMMA ScanComplete ==
  ASSUME Powered, pc = "scan", cur = BmtBlockCount
  PROVE  \A b \in System : BootMap(b) = Map(b)
<1>1. IInv /\ Hosts /\ ScanKnown /\ bmt_block_index = 0
  BY DEF Powered, Tables, IInv, ScanInv
<1>2. Candidates = {}
  BY <1>1, PoolNotZero DEF Candidates, Powered, Tables, OneTable
<1> SUFFICES ASSUME NEW b \in System PROVE BootMap(b) = Map(b)
  OBVIOUS
<1>3. Home(b) = BootMap(b)
  BY DEF Home, InBoot
<1>4. CASE Map(b) = b /\ \A i \in Live : table[i].bad_index # b
  <2> DEFINE hits == {x \in Pool \ bad : page[x][0].idx = b}
  <2>1. BootMap(b) = IF b \notin bad \/ hits = {} THEN b ELSE Min(hits)
    BY <1>2 DEF BootMap
  <2>2. CASE b \notin bad \/ hits = {}
    BY <1>4, <2>1, <2>2
  <2>3. CASE b \in bad /\ hits # {}
    <3>1. PICK x \in Pool \ bad : page[x][0].idx = b
      BY <2>3
    <3>2. x < SystemBlockCount + cur
      BY Geometry DEF Pool
    <3>3. x \in Mapped
      BY <1>1, <2>3, <3>1, <3>2 DEF ScanKnown, Named
    <3>4. PICK i \in Live : table[i].mapped_index = x
      BY <3>3 DEF Mapped
    <3>5. table[i].bad_index = b
      BY <1>1, <3>1, <3>4 DEF ScanKnown
    <3> QED BY <1>4, <3>5
  <2> QED BY <2>2, <2>3
<1>5. CASE \E i \in Live : table[i].bad_index = b /\ Map(b) = table[i].mapped_index
  <2>1. PICK i \in Live : table[i].bad_index = b /\ Map(b) = table[i].mapped_index
    BY <1>5
  <2>2. Map(b) \in Pool \ bad /\ page[Map(b)][0].idx = b /\ b \in bad
    BY <1>1, <2>1 DEF ScanKnown, IInv, PoolDisjoint, Mapped
  <2>3. Home(b) = Map(b)
    BY <1>1, <2>2, NamesByBlock DEF Hosts, Astray
  <2> QED BY <1>3, <2>3
<1> QED BY <1>1, <1>4, <1>5, MapCases

\* The rebuilt table needs a block.
LEMMA ReconstructDonePower == ASSUME Powered, ReconstructDone PROVE Hosts' /\ Tables' /\ Stays
<1>1. /\ pc = "scan" /\ cur = BmtBlockCount /\ cur' = 0
      /\ UNCHANGED <<page, bad, table, mapped_count, bmt_block_index, pool_erased, reason>>
      /\ UNCHANGED <<error_block, map_index, req, next_page, void>>
  BY DEF ReconstructDone, flash, bmt, host
<1>2. IInv /\ Hosts /\ Tables /\ bmt_block_index = 0
  BY <1>1 DEF Powered, IInv, ScanInv
<1>3. pc' = "find_bmt" /\ ~pool_erased
  BY <1>1, <1>2 DEF ReconstructDone, WriteBmt, Tables, CallsInv
<1>4. Candidates = {} /\ Candidates' = {}
  BY <1>1, <1>2, PoolNotZero DEF Candidates, Tables, OneTable
<1>5. \A b \in System : Map(b)' = Map(b) /\ BootMap(b) = Map(b)
  BY <1>1, ScanComplete, MapStays
<1>6. Stays
  BY <1>1, <1>3, <1>5 DEF Stays, Home, InBoot
<1>7. Hosts'
  <2>1. NamesKept /\ NoneHolds /\ NoMoreToWrite
    BY <1>1 DEF NamesKept, NoneHolds, Holds, NoMoreToWrite
  <2>2. StraysKept
    BY <1>1, <1>3, <1>4, StraysStay
  <2> QED BY <1>1, <1>6, <2>1, <2>2, HostsKept
<1>8. req = NoReq /\ req.op = "none"
  BY <1>1, <1>2, NoRequest
<1>9. OneTable' /\ EntriesUnique' /\ StoredIsCurrent' /\ ScanKnown'
  <2>1. OneEntryPerBadBlock'
    BY <1>1, <1>2, MapStays DEF Tables, EntriesUnique
  <2>2. ScanKnown'
    <3>1. Live' = Live
      BY <1>1 DEF Live
    <3> QED BY <1>1, <1>2, <1>3, <3>1 DEF Tables, ScanKnown
  <2> QED BY <1>3, <1>4, <2>1, <2>2 DEF OneTable, EntriesUnique, StoredIsCurrent
<1>10. TableHasBlock'
  <2>1. Pool \subseteq bad \/ \E y \in Pool \ bad : ~Named(y) /\ y \notin Mapped
    BY <1>1, <1>2 DEF Tables, TableHasBlock
  <2>2. Mapped' = Mapped
    BY <1>1, MapStays
  <2> QED BY <1>1, <1>2, <1>3, <2>1, <2>2 DEF TableHasBlock, Named
<1>11. TableGoesToErased'
  <2>1. \A x \in Pool : ~(x < SystemBlockCount + cur')
    BY <1>1, GeometryFacts, Geometry
  <2>2. \A x \in Free' : x \in Pool
    BY DEF Free
  <2> QED BY <1>1, <1>3, <2>1, <2>2 DEF TableGoesToErased, TableBlockErased
<1>12. CallsInv' /\ UpdatesVoid'
  BY <1>1, <1>2, <1>3, <1>8 DEF CallsInv, UpdatesVoid
<1> QED BY <1>6, <1>7, <1>9, <1>10, <1>11, <1>12 DEF Tables

\* The boot, as a whole.
LEMMA BootPower ==
  ASSUME Powered, Boot PROVE Hosts' /\ Tables' /\ Stays /\ UNCHANGED <<req, void>>
<1>1. UNCHANGED <<req, void>>
  BY DEF Boot, LoadBmt, ReMark, LoadDone, StartReconstruct, Reconstruct, ReconstructDone, host
<1> QED BY <1>1, LoadBmtPower, ReMarkPower, LoadDonePower, StartReconstructPower,
           ReconstructPower, ReconstructDonePower DEF Boot

\* An erased page, or an unreadable one, names no block and holds no table.
LEMMA BlankUnnamed ==
  /\ Blank.idx \notin System /\ Blank.kind # "bmt"
  /\ Junk.idx \notin System /\ Junk.kind # "bmt" /\ NoIndex \notin System
<1>1. FakeIndex \in Nat /\ NoIndex \in Nat /\ FakeIndex < NoIndex
  BY DEF FakeIndex, NoIndex
<1>2. SystemBlockCount \in Nat /\ SystemBlockCount <= FakeIndex
  BY <1>1, Geometry
<1>3. NoIndex \notin System
  BY <1>1, <1>2 DEF System
<1> QED BY <1>3 DEF Blank, Junk

\* A search for a block leaves the blocks of the host alone.
LEMMA SearchPower ==
  ASSUME Powered, Finding, pc' \in {"find", "find_bmt"},
         UNCHANGED <<bad, table, mapped_count, bmt_block_index, pc, reason, error_block, map_index>>,
         UNCHANGED <<req, next_page, void>>,
         NEW x, UNCHANGED page \/ (x \in Pool \ Mapped /\ Elsewhere(x) /\ page'[x][0] = Blank),
         pc = "find_bmt" => \A y \in Free' : pool_erased' \/ y < SystemBlockCount + cur'
                                               => page'[y][0] = Blank
  PROVE  Hosts' /\ Tables' /\ Stays
<1>1. IInv /\ Hosts /\ Tables /\ pc \in {"find", "find_bmt"}
  BY DEF Powered, Finding
<1>2. \A b \in System : Map(b)' = Map(b) /\ Map(b) \in Blocks /\ (UNCHANGED page \/ Map(b) # x)
  BY <1>1, MapStays, MapElsewhere
<1>3. Stays
  BY <1>1, <1>2 DEF Stays, Home, InBoot, Elsewhere
<1>4. Blank.idx \notin System /\ Blank.kind # "bmt"
  BY BlankUnnamed
<1>5. \A y \in Pool : page'[y][0] = page[y][0] \/ page'[y][0] = Blank
  BY PoolApart DEF Elsewhere
<1>6. NamesKept /\ \A y \in Pool : Named(y)' => Named(y)
  BY <1>4, <1>5 DEF NamesKept, Named
<1>8. StoredShrinks
  BY <1>4, <1>5 DEF StoredShrinks, Candidates
<1>7. Hosts'
  <2>1. NoneHolds /\ NoMoreToWrite
    BY DEF NoneHolds, Holds, NoMoreToWrite
  <2>2. pc = "find_bmt" => pc' = "find_bmt" /\ Candidates = {} /\ Candidates' = {}
    <3> SUFFICES ASSUME pc = "find_bmt" PROVE Candidates = {} /\ Candidates' = {}
      OBVIOUS
    <3>1. Candidates \subseteq {0}
      BY <1>1 DEF Tables, OneTable, CallsInv
    <3> QED BY <1>8, <3>1, PoolNotZero DEF StoredShrinks, Candidates
  <2>3. StraysKept
    BY <1>1, <2>2, StraysStay
  <2> QED BY <1>3, <1>6, <2>1, <2>3, HostsKept
<1>9. OneTable' /\ EntriesUnique' /\ ScanKnown'
  <2>1. OneEntryPerBadBlock'
    BY <1>1, MapStays DEF Tables, EntriesUnique
  <2>2. ASSUME pc = "find_bmt" PROVE ScanKnown'
    <3>1. Live' = Live /\ \A i \in Live : table[i].mapped_index \in Mapped
      BY DEF Live, Mapped
    <3>2. \A y \in Mapped : page'[y] = page[y]
      <4> SUFFICES ASSUME NEW y \in Mapped PROVE page'[y] = page[y]
        OBVIOUS
      <4>1. y \in Blocks
        BY <1>1, PoolApart DEF IInv, PoolDisjoint
      <4> QED BY <4>1 DEF Elsewhere
    <3> QED BY <1>1, <2>2, <3>1, <3>2 DEF Tables, ScanKnown
  <2> QED BY <1>1, <1>8, <2>1, <2>2, StoredStays
<1>10. StoredIsCurrent'
  BY <1>1, <1>8, CurrentStays
<1>11. TableHasBlock'
  <2>1. TableHasBlock /\ bmt_block_index \in {0} \cup Pool /\ Mapped' = Mapped
    BY <1>1, MapStays DEF Tables, IInv, TypeOK
  <2>2. \A y \in Pool : ~Named(y) => page'[y][0].idx \notin System
    BY <1>6 DEF Named
  <2>3. CASE bmt_block_index # 0
    BY <2>1, <2>2, <2>3 DEF TableHasBlock, Named
  <2>4. CASE bmt_block_index = 0
    <3>1. Pool \subseteq bad \/ /\ pc \in {"off", "scan", "find_bmt"}
                                /\ \E y \in Pool \ bad : ~Named(y) /\ y \notin Mapped
      BY <1>1, <2>1, <2>4 DEF TableHasBlock
    <3>2. Pool \subseteq bad \/ /\ pc \in {"off", "scan", "find_bmt"}
                                /\ \E y \in Pool \ bad : page'[y][0].idx \notin System /\ y \notin Mapped
      BY <2>2, <3>1
    <3> QED BY <2>1, <2>4, <3>2 DEF TableHasBlock, Named
  <2> QED BY <2>3, <2>4
<1>12. TableGoesToErased'
  BY <1>1 DEF TableGoesToErased, TableBlockErased
<1>13. Map(req.block)' = Map(req.block)
  BY <1>2 DEF IInv, TypeOK, Powered
<1>14. CallsInv' /\ UpdatesVoid'
  BY <1>1, <1>13 DEF Tables, CallsInv, UpdatesVoid
<1> QED BY <1>3, <1>7, <1>9, <1>10, <1>11, <1>12, <1>14 DEF Tables

-----------------------------------------------------------------------------
(* The search for a block, for the table or for the host.                   *)

\* A dependable device does not fail.
LEMMA NeverFails == Dependable => /\ ~MayFail("program") /\ ~MayFail("erase")
                                  /\ \A b, p, v : ~ProgramFails(b, p, v)
                                  /\ \A b : ~EraseFails(b)
BY DEF Dependable, MayFail, ProgramFails, EraseFails

\* The pool is erased where no block of the host lies, ...
LEMMA ErasePoolPower == ASSUME Powered, ErasePool PROVE Hosts' /\ Tables' /\ Stays
<1> DEFINE x == SystemBlockCount + cur
<1>1. /\ Finding /\ ~pool_erased /\ cur < BmtBlockCount /\ cur' = cur + 1
      /\ UNCHANGED <<table, mapped_count, bmt_block_index, pool_erased, pc, reason>>
      /\ UNCHANGED <<error_block, map_index, req, next_page, void>>
  BY DEF ErasePool, bmt, host
<1>2. /\ bad' = bad
      /\ \/ SkipInPool(x) /\ page' = page
         \/ ~SkipInPool(x) /\ page' = Erased(page, x)
  BY NeverFails DEF ErasePool, flash, Powered
<1>3. IInv /\ Tables
  BY DEF Powered
<1>4. cur \in Nat /\ x \in Pool /\ SystemBlockCount \in Nat \ {0}
  BY <1>1, <1>3, GeometryFacts, Geometry DEF IInv, TypeOK
<1> HIDE DEF x
<1>5. \/ UNCHANGED page /\ SkipInPool(x)
      \/ x \in Pool \ Mapped /\ Elsewhere(x) /\ page'[x][0] = Blank
  <2>1. CASE SkipInPool(x) /\ page' = page
    BY <2>1
  <2>2. CASE ~SkipInPool(x) /\ page' = Erased(page, x)
    <3>1. x \in Blocks /\ 0 \in Pages
      BY <1>4, PoolApart, GeometryFacts
    <3>2. Elsewhere(x) /\ page'[x][0] = Blank
      BY <1>3, <2>2, <3>1, EraseEffect
    <3> QED BY <1>4, <2>2, <3>2 DEF SkipInPool
  <2> QED BY <1>2, <2>1, <2>2
<1>6. pc = "find_bmt" => \A y \in Free' : pool_erased' \/ y < SystemBlockCount + cur'
                                            => page'[y][0] = Blank
  <2> SUFFICES ASSUME pc = "find_bmt", NEW y \in Free', pool_erased' \/ y < SystemBlockCount + cur'
               PROVE  page'[y][0] = Blank
    OBVIOUS
  <2>1. y < SystemBlockCount + cur + 1 /\ y \in Nat /\ y \in Free /\ y \in Blocks
    BY <1>1, <1>2, <1>4, GeometryFacts, MapStays, PoolApart DEF Free
  <2>2. CASE y = x
    <3>1. ~SkipInPool(x)
      BY <1>3, <1>4, <2>1, <2>2 DEF SkipInPool, Free, Tables, CallsInv
    <3> QED BY <1>5, <2>2, <3>1
  <2>3. CASE y # x
    <3>1. y < SystemBlockCount + cur
      BY <1>4, <2>1, <2>3 DEF x
    <3>2. page[y][0] = Blank
      BY <1>3, <2>1, <3>1 DEF Tables, TableGoesToErased
    <3> QED BY <1>5, <2>1, <2>3, <3>2 DEF Elsewhere
  <2> QED BY <2>2, <2>3
<1>7. pc' \in {"find", "find_bmt"}
  BY <1>1 DEF Finding
<1>8. UNCHANGED page \/ (x \in Pool \ Mapped /\ Elsewhere(x) /\ page'[x][0] = Blank)
  BY <1>5
<1> QED BY <1>1, <1>2, <1>6, <1>7, <1>8, SearchPower

\* ... until it is erased.
LEMMA PoolErasedPower == ASSUME Powered, PoolErased PROVE Hosts' /\ Tables' /\ Stays
<1>1. /\ Finding /\ ~pool_erased /\ cur = BmtBlockCount
      /\ UNCHANGED <<page, bad, table, mapped_count, bmt_block_index, pc, reason>>
      /\ UNCHANGED <<error_block, map_index, req, next_page, void>>
  BY DEF PoolErased, flash, host
<1>2. IInv /\ Tables
  BY DEF Powered
<1>3. pc = "find_bmt" => \A y \in Free' : page'[y][0] = Blank
  <2> SUFFICES ASSUME pc = "find_bmt", NEW y \in Free' PROVE page'[y][0] = Blank
    OBVIOUS
  <2>1. y \in Free
    BY <1>1, MapStays DEF Free
  <2>2. y < SystemBlockCount + cur
    BY <1>1, <2>1, Geometry DEF Free, Pool
  <2> QED BY <1>1, <1>2, <2>1, <2>2 DEF Tables, TableGoesToErased
<1>4. pc' \in {"find", "find_bmt"}
  BY <1>1 DEF Finding
<1>5. UNCHANGED page \/ (0 \in Pool \ Mapped /\ Elsewhere(0) /\ page'[0][0] = Blank)
  BY <1>1
<1>6. pc = "find_bmt" => \A y \in Free' : pool_erased' \/ y < SystemBlockCount + cur'
                                            => page'[y][0] = Blank
  BY <1>3
<1> QED BY <1>1, <1>4, <1>5, <1>6, SearchPower

\* A block is found for a bad one, ...
LEMMA FindBlockPower == ASSUME Powered, FindBlock PROVE Hosts' /\ Tables' /\ Stays
<1>1. /\ pc = "find" /\ Free # {} /\ map_index' = Min(Free)
      /\ UNCHANGED <<page, bad, table, mapped_count, bmt_block_index, pool_erased, reason>>
      /\ UNCHANGED <<error_block, req, next_page, void>>
  BY DEF FindBlock, flash, bmt, host
<1>2. IInv /\ Hosts /\ Tables
  BY DEF Powered
<1>3. req # NoReq /\ reason = "unmapped" /\ error_block = Map(req.block)
  BY <1>1, <1>2 DEF Tables, UpdatesVoid
<1>4. pc' = "update"
  BY <1>3 DEF FindBlock
<1>5. \A b \in System : Map(b)' = Map(b)
  BY <1>1, MapStays
<1>6. Stays
  BY <1>1, <1>4, <1>5 DEF Stays, Home, InBoot
<1>7. Hosts'
  <2>1. NamesKept /\ NoneHolds /\ NoMoreToWrite
    BY <1>1 DEF NamesKept, NoneHolds, Holds, NoMoreToWrite
  <2>2. StraysKept
    BY <1>1, StraysStay
  <2> QED BY <1>1, <1>6, <2>1, <2>2, HostsKept
<1>8. StoredShrinks
  BY <1>1 DEF StoredShrinks, Candidates
<1>9. OneTable' /\ EntriesUnique' /\ ScanKnown'
  <2>1. OneEntryPerBadBlock'
    BY <1>1, <1>2, MapStays DEF Tables, EntriesUnique
  <2> QED BY <1>1, <1>4, <1>8, <2>1, StoredStays
<1>10. StoredIsCurrent'
  BY <1>1, <1>4, <1>8, CurrentStays
<1>11. bmt_block_index # 0 /\ bmt_block_index \notin bad
  BY <1>1, <1>2 DEF Tables, TableHasBlock, Free
<1>12. TableHasBlock'
  BY <1>1, <1>11, BlockStays DEF Named
<1>13. map_index' \notin bad
  BY <1>1, FreeBlocks DEF Free
<1>14. Map(req.block)' = Map(req.block)
  BY <1>1, <1>2, <1>5 DEF IInv, TypeOK
<1>15. TableGoesToErased' /\ CallsInv'
  BY <1>1, <1>2, <1>3, <1>4, <1>11 DEF TableGoesToErased, TableBlockErased, Tables, CallsInv
<1>16. UpdatesVoid'
  BY <1>1, <1>2, <1>3, <1>4, <1>13, <1>14 DEF Tables, UpdatesVoid
<1> QED BY <1>6, <1>7, <1>9, <1>10, <1>12, <1>15, <1>16 DEF Tables

\* ... or for the table at boot, ...
LEMMA FindBmtBlockPower == ASSUME Powered, FindBmtBlock PROVE Hosts' /\ Tables' /\ Stays
<1>1. /\ pc = "find_bmt" /\ pc' = "program_bmt" /\ pool_erased /\ Free # {} /\ bmt_block_index' = Max(Free)
      /\ UNCHANGED <<page, bad, table, mapped_count, pool_erased, reason>>
      /\ UNCHANGED <<error_block, map_index, req, next_page, void>>
  BY DEF FindBmtBlock, flash, locals, host
<1>2. IInv /\ Hosts /\ Tables /\ bmt_block_index = 0 /\ req = NoReq
  BY <1>1 DEF Powered, Tables, CallsInv
<1>3. \A b \in System : Map(b)' = Map(b)
  BY <1>1, MapStays
<1>4. Stays
  BY <1>1, <1>3 DEF Stays, Home, InBoot
<1>5. Hosts'
  <2>1. NamesKept /\ NoneHolds /\ NoMoreToWrite
    BY <1>1 DEF NamesKept, NoneHolds, Holds, NoMoreToWrite
  <2>2. StraysKept
    <3> SUFFICES ASSUME NEW b \in System \ bad, NEW x \in Pool \ bad, page[x][0].idx = b
                 PROVE  FALSE
      BY <1>1 DEF StraysKept, Astray
    <3>1. x \in Mapped
      <4>1. page[x][0] # Blank
        BY BlankUnnamed
      <4>2. x \notin Free
        BY <1>1, <1>2, <4>1 DEF Tables, TableGoesToErased
      <4> QED BY <1>2, <4>2, PoolNotZero DEF Free
    <3>2. PICK i \in Live : table[i].mapped_index = x
      BY <3>1 DEF Mapped
    <3>3. table[i].bad_index = b /\ table[i].bad_index \in bad
      BY <1>1, <1>2, <3>2 DEF Tables, ScanKnown
    <3> QED BY <3>3
  <2> QED BY <1>1, <1>4, <2>1, <2>2, HostsKept
<1>6. Candidates' = {}
  BY <1>1, <1>2, PoolNotZero DEF Candidates, Tables, OneTable
<1>7. OneTable' /\ EntriesUnique' /\ StoredIsCurrent' /\ ScanKnown'
  <2>1. OneEntryPerBadBlock'
    BY <1>1, <1>2, MapStays DEF Tables, EntriesUnique
  <2> QED BY <1>1, <1>6, <2>1 DEF OneTable, EntriesUnique, StoredIsCurrent, ScanKnown
<1>8. Max(Free) \in Pool \ bad /\ page[Max(Free)][0] = Blank
  BY <1>1, <1>2, FreeBlocks DEF Free, Tables, TableGoesToErased
<1>9. TableHasBlock' /\ TableGoesToErased'
  BY <1>1, <1>8, PoolNotZero, BlankUnnamed DEF TableHasBlock, Named, TableGoesToErased, TableBlockErased
<1>10. CallsInv' /\ UpdatesVoid'
  <2>1. bmt_block_index' # 0
    BY <1>1, <1>8, PoolNotZero
  <2> QED BY <1>1, <1>2, <2>1 DEF CallsInv, UpdatesVoid, NoReq
<1> QED BY <1>4, <1>5, <1>7, <1>9, <1>10 DEF Tables

\* ... where the pool may have no good block left.
LEMMA NoBmtBlockPower ==
  ASSUME Powered, NoBmtBlock PROVE Hosts' /\ Tables' /\ Stays /\ UNCHANGED <<req, void>>
<1>1. /\ pc = "find_bmt" /\ pc' = "idle" /\ Free = {} /\ req' = NoReq
      /\ UNCHANGED <<page, bad, table, mapped_count, bmt_block_index, pool_erased, void>>
      /\ next_page' = [next_page EXCEPT ![req.block] = PagePerBlock]
  BY DEF NoBmtBlock, Refused, Idle, flash, bmt
<1>2. IInv /\ Hosts /\ Tables /\ bmt_block_index = 0 /\ req = NoReq
  BY <1>1 DEF Powered, Tables, CallsInv
<1>3. Pool \subseteq bad
  BY <1>1, <1>2, PoolNotZero DEF Free, Tables, TableHasBlock
<1>4. \A b \in System : Map(b)' = Map(b) /\ Home(b) = Map(b)
  BY <1>1, MapStays DEF Home, InBoot
<1>5. Stays
  BY <1>1, <1>4 DEF Stays, Home, InBoot
<1>6. Hosts'
  <2>1. NamesKept
    BY <1>1 DEF NamesKept
  <2>2. NoMoreToWrite
    BY <1>1, <1>2 DEF NoMoreToWrite, IInv, TypeOK
  <2>3. NoneHolds
    BY <1>1, <1>2, <1>3, HomeCases DEF NoneHolds, Holds, Hosts, HomesAreGood
  <2>4. StraysKept
    BY <1>3 DEF StraysKept
  <2> QED BY <1>1, <1>5, <2>1, <2>2, <2>3, <2>4, HostsKept
<1>7. Candidates' = {}
  BY <1>1, <1>2, PoolNotZero DEF Candidates, Tables, OneTable
<1>8. OneTable' /\ EntriesUnique' /\ StoredIsCurrent' /\ ScanKnown'
  <2>1. OneEntryPerBadBlock'
    BY <1>1, <1>2, MapStays DEF Tables, EntriesUnique
  <2> QED BY <1>1, <1>3, <1>7, <2>1 DEF OneTable, EntriesUnique, StoredIsCurrent, ScanKnown
<1>9. TableHasBlock' /\ TableGoesToErased' /\ CallsInv' /\ UpdatesVoid'
  BY <1>1, <1>2, <1>3 DEF TableHasBlock, TableGoesToErased, TableBlockErased, CallsInv, UpdatesVoid, NoReq
<1> QED BY <1>1, <1>2, <1>5, <1>6, <1>8, <1>9 DEF Tables

\* The searches, as a whole.
LEMMA FindPower ==
  ASSUME Powered, Find PROVE Hosts' /\ Tables' /\ Stays /\ UNCHANGED <<req, void>>
<1>1. ~NoBlock
  <2> SUFFICES ASSUME NoBlock PROVE FALSE
    OBVIOUS
  <2>1. req # NoReq
    BY DEF NoBlock, Powered, Tables, UpdatesVoid
  <2> QED BY <2>1 DEF NoBlock, Refused, Powered
<1>2. ErasePool \/ PoolErased \/ FindBlock \/ FindBmtBlock => UNCHANGED <<req, void>>
  BY DEF ErasePool, PoolErased, FindBlock, FindBmtBlock, host
<1> QED BY <1>1, <1>2, ErasePoolPower, PoolErasedPower, FindBlockPower, FindBmtBlockPower,
           NoBmtBlockPower DEF Find

-----------------------------------------------------------------------------
(* The update of the table, and a write of the host.                        *)

\* What the host reads.
Seen(b, p) == Read(page[Home(b)][p])

\* No block the host may count on moves, and one that lies in the pool changes
\* only by a write to it.
Kept == \A b \in System \ void' :
          /\ Home(b)' = Home(b)
          /\ \/ Home(b) = b \/ (req.op = "write" /\ b = req.block)
             \/ \A p \in Pages : page'[Home(b)][p] = page[Home(b)][p]

\* It reads what it read, where it may count on anything.
SameSeen == /\ Kept
            /\ \A b \in System \ void' : \A p \in Pages : Seen(b, p)' = Seen(b, p)

\* The host sees the same then.
LEMMA StaysSeen == Stays => SameSeen
<1>1. Stays => Kept
  BY DEF Stays, Kept
<1> SUFFICES ASSUME Stays, NEW b \in System \ void', NEW p \in Pages PROVE Seen(b, p)' = Seen(b, p)
  BY <1>1 DEF SameSeen
<1> QED BY DEF Stays, Seen

\* The facts about an update that the invariants give.
LEMMA UpdatePower ==
  ASSUME Powered, UpdateTable
  PROVE  /\ OneEntryPerBadBlock' /\ req.block \in void /\ req.block \in System
         /\ \A b \in System : Map(b)' = IF b = req.block THEN map_index ELSE Map(b)
         /\ map_index \in Pool \ bad /\ ~Named(map_index)
         /\ error_block \in bad /\ Map(req.block) = error_block /\ req # NoReq
         /\ reason = "unmapped" /\ req.op \in {"erase", "isbad"} /\ bmt_block_index # 0
<1>1. IInv /\ IInv' /\ Hosts /\ Tables /\ pc = "update" /\ Dependable
  BY DEF Powered, UpdateTable
<1>2. /\ req # NoReq /\ error_block = Map(req.block) /\ map_index \notin bad
      /\ reason = "unmapped" /\ req.op \in {"erase", "isbad"}
      /\ req.block \in void /\ error_block \in bad
  BY <1>1 DEF Tables, UpdatesVoid
<1>3. CanUpdate
  BY <1>1, <1>2 DEF CanUpdate, Tables, EntriesUnique, Dependable
<1>4. OneEntryPerBadBlock' /\ \A b \in System : Map(b)' = IF b = req.block THEN map_index ELSE Map(b)
  BY <1>3, TableUpdated
<1>5. req.block \in System
  BY <1>1 DEF IInv, TypeOK
<1>6. \A b \in System : Home(b) = Map(b)
  BY <1>1 DEF Home, InBoot
<1>8. map_index \in Pool \ bad /\ map_index \notin Mapped
  BY <1>1, <1>2 DEF IInv, PoolDisjoint
<1>9. ~Named(map_index)
  <2> SUFFICES ASSUME Named(map_index) PROVE FALSE
    OBVIOUS
  <2>1. PICK c \in System : page[map_index][0].idx = c
    BY DEF Named
  <2>2. Map(c) = map_index
    BY <1>1, <1>6, <1>8, <2>1, NamesByBlock DEF Hosts, Astray
  <2> QED BY <1>1, <1>8, <2>2, MapElsewhere
<1>10. bmt_block_index # 0
  BY <1>1 DEF Tables, CallsInv
<1> QED BY <1>2, <1>4, <1>5, <1>8, <1>9, <1>10

\* The table is changed for a block that the host does not count on.
LEMMA UpdateTablePower == ASSUME Powered, UpdateTable PROVE Hosts' /\ Tables' /\ SameSeen
<1>1. /\ pc = "update" /\ UNCHANGED <<page, bad, bmt_block_index, pool_erased, reason>>
      /\ UNCHANGED <<error_block, map_index, req, next_page, void>>
  BY DEF UpdateTable, flash, locals, host
<1>2. /\ OneEntryPerBadBlock' /\ req.block \in void /\ req.block \in System
      /\ \A b \in System : Map(b)' = IF b = req.block THEN map_index ELSE Map(b)
      /\ map_index \in Pool \ bad /\ ~Named(map_index)
      /\ error_block \in bad /\ Map(req.block) = error_block /\ req # NoReq
      /\ reason = "unmapped" /\ req.op \in {"erase", "isbad"} /\ bmt_block_index # 0
  BY UpdatePower
<1>3. IInv /\ Hosts /\ Tables
  BY DEF Powered
<1>4. pc' = "erase_bmt"
  BY <1>2 DEF UpdateTable, WriteBmt
<1>5. \A b \in System : /\ Home(b) = Map(b)
                        /\ Home(b)' = IF b = req.block THEN map_index ELSE Home(b)
  BY <1>1, <1>2, <1>4 DEF Home, InBoot
<1>6. HomesAreGood'
  BY <1>1, <1>2, <1>3, <1>5 DEF Hosts, HomesAreGood
<1>7. HomesAreNamed'
  <2> SUFFICES ASSUME NEW b \in System, Holds(b)', Home(b)' # b
               PROVE  page'[Home(b)'][0].idx = b
    BY DEF HomesAreNamed
  <2>1. b # req.block /\ Holds(b) /\ Home(b)' = Home(b)
    BY <1>1, <1>2, <1>5 DEF Holds
  <2> QED BY <1>1, <1>3, <2>1 DEF Hosts, HomesAreNamed
<1>8. NamesAreHomes'
  <2>1. ASSUME NEW x \in Pool \ bad', NEW b \in System, page'[x][0].idx = b
        PROVE  Home(b)' = x
    <3>1. Home(b) = x
      BY <1>1, <1>3, <2>1, NamesByBlock DEF Hosts, Astray
    <3>2. b # req.block
      BY <1>1, <1>2, <1>5, <3>1
    <3> QED BY <1>5, <3>1, <3>2
  <2> QED BY <2>1, NamesByBlockNext
<1>9. RestIsBlank'
  <2> SUFFICES ASSUME NEW b \in System \ void', NEW p \in Pages, p >= next_page'[b]
               PROVE  page'[Home(b)'][p] = Blank
    BY DEF RestIsBlank
  <2>1. b # req.block
    BY <1>1, <1>2
  <2> QED BY <1>1, <1>3, <1>5, <2>1 DEF Hosts, RestIsBlank
<1>10. SameSeen
  <2>1. \A b \in System \ void' : Home(b)' = Home(b)
    BY <1>1, <1>2, <1>5
  <2>2. Kept
    BY <1>1, <2>1 DEF Kept
  <2> SUFFICES ASSUME NEW b \in System \ void', NEW p \in Pages PROVE Seen(b, p)' = Seen(b, p)
    BY <2>2 DEF SameSeen
  <2> QED BY <1>1, <2>1 DEF Seen
<1>11. StoredShrinks
  BY <1>1 DEF StoredShrinks, Candidates
<1>12. OneTable' /\ EntriesUnique' /\ ScanKnown'
  BY <1>1, <1>2, <1>4, <1>11, StoredStays
<1>13. StoredIsCurrent'
  <2> SUFFICES ASSUME Candidates' # {}, NEW b \in System, b # req.block PROVE BootMap(b)' = Map(b)'
    BY <1>1, <1>4 DEF StoredIsCurrent
  <2>1. Candidates # {} /\ BootMap(b)' = BootMap(b)
    BY <1>11, StoredKept
  <2> QED BY <1>1, <1>2, <1>3, <2>1 DEF Tables, StoredIsCurrent
<1>14. TableHasBlock'
  BY <1>1, <1>2, <1>3, BlockStays DEF Tables, TableHasBlock, Named
<1>15. Map(req.block)' = map_index
  BY <1>1, <1>2
<1>16. TableGoesToErased' /\ CallsInv'
  BY <1>1, <1>2, <1>3, <1>4 DEF TableGoesToErased, TableBlockErased, Tables, CallsInv
<1>17. UpdatesVoid'
  BY <1>1, <1>2, <1>4, <1>15 DEF UpdatesVoid, Named
<1> QED BY <1>6, <1>7, <1>8, <1>9, <1>10, <1>12, <1>13, <1>14, <1>16, <1>17 DEF Hosts, Tables

\* What is known of the block of the table while it is written.
LEMMA WrittenTable ==
  ASSUME Powered, pc \in {"erase_bmt", "program_bmt"}, UNCHANGED <<table, mapped_count>>,
         Elsewhere(bmt_block_index)
  PROVE  /\ bmt_block_index \in Pool \ bad /\ bmt_block_index \in Blocks /\ bmt_block_index # 0
         /\ \A b \in System : /\ Map(b)' = Map(b) /\ Home(b) = Map(b)
                              /\ page'[Map(b)] = page[Map(b)]
         /\ Candidates \subseteq {bmt_block_index} /\ Map(req.block) \in Blocks
         /\ Map(req.block) # bmt_block_index /\ req.block \in System
<1>1. IInv /\ Hosts /\ Tables
  BY DEF Powered
<1>2. bmt_block_index # 0 /\ bmt_block_index \in Pool \ bad
  BY <1>1 DEF Tables, CallsInv, TableHasBlock, IInv, TypeOK
<1>3. bmt_block_index \in Blocks /\ req.block \in System
  BY <1>1, <1>2, PoolApart DEF IInv, TypeOK
<1>4. \A b \in System : Map(b) # bmt_block_index /\ Map(b) \in Blocks /\ Map(b)' = Map(b)
  BY <1>1, <1>2, BmtBlockApart, MapStays, MapElsewhere
<1>5. \A b \in System : Home(b) = Map(b) /\ page'[Map(b)] = page[Map(b)]
  BY <1>4 DEF Home, InBoot, Elsewhere
<1>6. Candidates \subseteq {bmt_block_index}
  BY <1>1 DEF Tables, OneTable
<1> QED BY <1>2, <1>3, <1>4, <1>5, <1>6

\* The table's block is erased ...
LEMMA EraseBmtPower == ASSUME Powered, EraseBmt PROVE Hosts' /\ Tables' /\ Stays
<1>1. /\ pc = "erase_bmt" /\ pc' = "program_bmt" /\ page' = Erased(page, bmt_block_index)
      /\ bad' = bad \ {bmt_block_index}
      /\ UNCHANGED <<table, mapped_count, bmt_block_index, pool_erased, reason>>
      /\ UNCHANGED <<error_block, map_index, req, next_page, void>>
  BY DEF EraseBmt, bmt, locals, host
<1>2. IInv /\ Hosts /\ Tables
  BY DEF Powered
<1>3. Elsewhere(bmt_block_index) /\ page'[bmt_block_index][0] = Blank
  <2>1. bmt_block_index \in Blocks /\ 0 \in Pages
    BY <1>1, <1>2, PoolApart, GeometryFacts DEF Tables, CallsInv, IInv, TypeOK
  <2> QED BY <1>1, <1>2, <2>1, EraseEffect
<1>4. /\ bmt_block_index \in Pool \ bad /\ bmt_block_index \in Blocks /\ bmt_block_index # 0
      /\ \A b \in System : /\ Map(b)' = Map(b) /\ Home(b) = Map(b)
                           /\ page'[Map(b)] = page[Map(b)]
      /\ Candidates \subseteq {bmt_block_index} /\ Map(req.block) \in Blocks
      /\ Map(req.block) # bmt_block_index /\ req.block \in System
  BY <1>1, <1>3, WrittenTable
<1>5. bad' = bad
  BY <1>1, <1>4
<1>6. Stays
  BY <1>1, <1>4 DEF Stays, Home, InBoot
<1>7. Hosts'
  <2>1. NamesKept
    BY <1>3, <1>4, BlankUnnamed, PoolApart DEF NamesKept, Named, Elsewhere
  <2>2. NoneHolds /\ NoMoreToWrite
    BY <1>1 DEF NoneHolds, Holds, NoMoreToWrite
  <2>3. StraysKept
    BY <1>1, <1>5, StraysStay
  <2> QED BY <1>1, <1>5, <1>6, <2>1, <2>2, <2>3, HostsKept
<1>8. Candidates' = {}
  BY <1>3, <1>4, <1>5, BlankUnnamed, PoolApart DEF Candidates, Elsewhere
<1>9. OneTable' /\ EntriesUnique' /\ StoredIsCurrent' /\ ScanKnown'
  <2>1. OneEntryPerBadBlock'
    BY <1>1, <1>2, MapStays DEF Tables, EntriesUnique
  <2> QED BY <1>1, <1>8, <2>1 DEF OneTable, EntriesUnique, StoredIsCurrent, ScanKnown
<1>10. TableHasBlock' /\ TableGoesToErased'
  BY <1>1, <1>3, <1>4, <1>5, BlankUnnamed DEF TableHasBlock, Named, TableGoesToErased, TableBlockErased
<1>11. Map(req.block)' = Map(req.block)
  BY <1>1, <1>4
<1>12. CallsInv'
  BY <1>1, <1>2, <1>4 DEF Tables, CallsInv
<1>13. UpdatesVoid'
  <2>1. page'[Map(req.block)] = page[Map(req.block)]
    BY <1>4
  <2> QED BY <1>1, <1>2, <1>5, <1>11, <2>1 DEF Tables, UpdatesVoid, Named
<1> QED BY <1>6, <1>7, <1>9, <1>10, <1>12, <1>13 DEF Tables

\* ... and programmed.
LEMMA ProgramBmtPower ==
  ASSUME Powered, ProgramBmt PROVE Hosts' /\ Tables' /\ Stays /\ UNCHANGED <<req, void>>
<1> DEFINE v == TablePage(mapped_count, table)
<1>1. /\ pc = "program_bmt" /\ page' = Programmed(page, bmt_block_index, 0, v)
      /\ UNCHANGED <<bad, table, mapped_count, bmt_block_index, pool_erased, next_page, void>>
      /\ IF req = NoReq THEN Idle
                        ELSE pc' = "mark" /\ UNCHANGED <<req, reason, error_block, map_index>>
  BY DEF ProgramBmt, bmt
<1>2. IInv /\ Hosts /\ Tables /\ page[bmt_block_index][0] = Blank
  BY <1>1 DEF Powered, Tables, TableGoesToErased, TableBlockErased
<1>3. /\ v.kind = "bmt" /\ v.idx = NoIndex /\ v.bmt.count = mapped_count /\ v.bmt.table = table
  BY DEF TablePage, Blank
<1> HIDE DEF v
<1>4. Elsewhere(bmt_block_index) /\ page'[bmt_block_index][0] = v
  <2>1. bmt_block_index \in Blocks /\ 0 \in Pages
    BY <1>1, <1>2, PoolApart, GeometryFacts DEF Tables, CallsInv, IInv, TypeOK
  <2> QED BY <1>1, <1>2, <2>1, ProgramEffect
<1>5. /\ bmt_block_index \in Pool \ bad /\ bmt_block_index \in Blocks /\ bmt_block_index # 0
      /\ \A b \in System : /\ Map(b)' = Map(b) /\ Home(b) = Map(b)
                           /\ page'[Map(b)] = page[Map(b)]
      /\ Candidates \subseteq {bmt_block_index} /\ Map(req.block) \in Blocks
      /\ Map(req.block) # bmt_block_index /\ req.block \in System
  BY <1>1, <1>4, WrittenTable
<1>6. \/ pc' = "idle" /\ req = NoReq /\ req' = NoReq
      \/ pc' = "mark" /\ req # NoReq /\ UNCHANGED <<req, reason, error_block, map_index>>
  BY <1>1 DEF Idle
<1>7. UNCHANGED <<req, void>>
  BY <1>1, <1>6
<1>8. Stays
  BY <1>5, <1>6 DEF Stays, Home, InBoot
<1>9. Hosts'
  <2>1. NamesKept
    BY <1>3, <1>4, <1>5, BlankUnnamed, PoolApart DEF NamesKept, Named, Elsewhere
  <2>2. NoneHolds /\ NoMoreToWrite
    BY <1>1, <1>7 DEF NoneHolds, Holds, NoMoreToWrite
  <2>3. StraysKept
    BY <1>1, StraysStay
  <2> QED BY <1>1, <1>8, <2>1, <2>2, <2>3, HostsKept
<1>10. Candidates' = {bmt_block_index}
  BY <1>1, <1>3, <1>4, <1>5, PoolApart DEF Candidates, Elsewhere
<1>11. Max(Candidates') = bmt_block_index
  <2>1. Max({bmt_block_index}) \in {bmt_block_index}
    <3>1. {bmt_block_index} \in SUBSET Nat /\ bmt_block_index \in Nat
      BY <1>5, GeometryFacts
    <3> QED BY <3>1, MaxIn
  <2> QED BY <1>10, <2>1
<1>12. OneEntryPerBadBlock /\ OneEntryPerBadBlock' /\ OneEach(mapped_count, table)
  BY <1>1, <1>2, MapStays DEF Tables, EntriesUnique, OneEntryPerBadBlock, OneEach, Live
<1>13. OneTable' /\ EntriesUnique'
  BY <1>1, <1>3, <1>4, <1>6, <1>10, <1>12 DEF OneTable, EntriesUnique, OneEach
<1>14. StoredIsCurrent'
  <2>1. \A b \in System : Map(b) = Looked(mapped_count, table, b)
    BY MapIs
  <2>2. \A b \in System : BootMap(b)' = Looked(mapped_count, table, b)
    <3> SUFFICES ASSUME NEW b \in System PROVE BootMap(b)' = Looked(mapped_count, table, b)
      OBVIOUS
    <3>1. page'[Max(Candidates')][0].bmt = v.bmt /\ Candidates' # {}
      BY <1>4, <1>10, <1>11
    <3> QED BY <1>3, <3>1 DEF BootMap, Looked
  <2> QED BY <1>5, <1>10, <2>1, <2>2 DEF StoredIsCurrent
<1>15. TableHasBlock' /\ TableGoesToErased' /\ ScanKnown'
  BY <1>1, <1>3, <1>4, <1>5, <1>6, BlankUnnamed
     DEF TableHasBlock, Named, TableGoesToErased, TableBlockErased, ScanKnown
<1>16. Map(req.block)' = Map(req.block) /\ page'[Map(req.block)] = page[Map(req.block)]
  BY <1>5, <1>7
<1>17. CallsInv'
  BY <1>1, <1>2, <1>5, <1>6 DEF Tables, CallsInv, NoReq
<1>18. UpdatesVoid'
  BY <1>1, <1>2, <1>6, <1>16 DEF Tables, UpdatesVoid, Named
<1> QED BY <1>7, <1>8, <1>9, <1>13, <1>14, <1>15, <1>17, <1>18 DEF Tables

\* The old block, found bad, is bad already.
LEMMA MarkOldPower ==
  ASSUME Powered, MarkOld
  PROVE  /\ Hosts' /\ Tables' /\ Stays /\ UNCHANGED void
         /\ UNCHANGED req \/ (req # NoReq /\ req' = NoReq /\ req.op = "isbad")
<1>1. /\ pc = "mark" /\ MarkBlockBad(error_block)
      /\ UNCHANGED <<page, table, mapped_count, bmt_block_index, pool_erased>>
  BY DEF MarkOld, bmt
<1>2. IInv /\ Hosts /\ Tables
  BY DEF Powered
<1>3. /\ req # NoReq /\ reason = "unmapped" /\ req.op \in {"erase", "isbad"}
      /\ error_block \in bad /\ Map(req.block) \notin bad /\ bmt_block_index # 0
      /\ (req.op = "erase" => next_page[req.block] = PagePerBlock)
  BY <1>1, <1>2 DEF Tables, UpdatesVoid, CallsInv
<1>4. bad' = bad
  BY <1>1, <1>3 DEF MarkBlockBad
<1>5. \/ req.op = "erase" /\ pc' = "erase" /\ UNCHANGED <<req, next_page, void>>
      \/ /\ req.op = "isbad" /\ pc' = "idle" /\ req' = NoReq
         /\ UNCHANGED <<next_page, void>>
  BY <1>3 DEF MarkOld, Answered, Idle, host
<1>6. \A b \in System : Map(b)' = Map(b)
  BY <1>1, MapStays
<1>7. Stays
  BY <1>1, <1>5, <1>6 DEF Stays, Home, InBoot
<1>8. Hosts'
  <2>1. NamesKept
    BY <1>1 DEF NamesKept
  <2>2. NoneHolds /\ NoMoreToWrite
    BY <1>5 DEF NoneHolds, Holds, NoMoreToWrite
  <2>3. StraysKept
    BY <1>1, <1>4, StraysStay
  <2> QED BY <1>4, <1>5, <1>7, <2>1, <2>2, <2>3, HostsKept
<1>9. Candidates' = Candidates
  BY <1>1, <1>4 DEF Candidates
<1>10. StoredShrinks
  BY <1>1, <1>9 DEF StoredShrinks
<1>11. OneTable' /\ EntriesUnique' /\ ScanKnown'
  <2>1. OneEntryPerBadBlock'
    BY <1>1, <1>2, MapStays DEF Tables, EntriesUnique
  <2> QED BY <1>1, <1>5, <1>10, <2>1, StoredStays
<1>12. StoredIsCurrent'
  BY <1>1, <1>4, <1>9, <1>10, CurrentStays
<1>13. TableHasBlock'
  BY <1>1, <1>2, <1>4, BlockStays DEF Tables, TableHasBlock, Named
<1>14. req.op = "erase" => Map(req.block)' = Map(req.block)
  BY <1>2, <1>5, <1>6 DEF IInv, TypeOK
<1>15. TableGoesToErased' /\ CallsInv' /\ UpdatesVoid'
  BY <1>3, <1>4, <1>5, <1>14 DEF TableGoesToErased, TableBlockErased, CallsInv, UpdatesVoid, NoReq
<1> QED BY <1>3, <1>5, <1>7, <1>8, <1>11, <1>12, <1>13, <1>15 DEF Tables

\* A request is answered with success.
SeenSucceed ==
  /\ req # NoReq /\ req' = NoReq
  /\ void' = IF req.op # "erase" THEN void
             ELSE IF req.block \in Stuck THEN void \cup {req.block} ELSE void \ {req.block}
  /\ Kept
  /\ \A b \in System \ void' : \A p \in Pages :
       Seen(b, p)' = IF b = req.block /\ req.op = "erase" THEN FF
                     ELSE IF b = req.block /\ req.op = "write" /\ p = req.page
                     THEN req.data ELSE Seen(b, p)

\* The answer to a write or an erase that goes to x, the block the request is for
\* or the one it lies in: what is left to show of the invariant is about that block.
LEMMA ServedPower ==
  ASSUME Powered, pc \in {"program", "erase"}, pc' = "idle", req' = NoReq,
         UNCHANGED <<table, mapped_count, bmt_block_index>>,
         bad' \subseteq bad, bad \ {req.block} \subseteq bad',
         NEW x, x \in {Map(req.block), req.block}, Elsewhere(x),
         page'[x][0].kind = "bmt" => page'[x][0] = page[x][0]
  PROVE  /\ Tables'
         /\ \A b \in System : /\ Home(b) = Map(b) /\ Home(b)' = Home(b) /\ Map(b) \in Blocks
                              /\ (b # req.block => Map(b) # x /\ page'[Map(b)] = page[Map(b)])
<1>1. IInv /\ Hosts /\ Tables /\ req.block \in System
  BY DEF Powered, IInv, TypeOK
<1>2. \A b \in System : Map(b)' = Map(b) /\ Map(b) \in Blocks
  BY <1>1, MapStays, MapElsewhere
<1>3. \A b \in System : /\ Home(b) = Map(b) /\ Home(b)' = Home(b)
                        /\ (b # req.block => Map(b) # x /\ page'[Map(b)] = page[Map(b)])
  <2>1. ASSUME NEW b \in System, b # req.block PROVE Map(b) # x
    <3>1. Map(b) # Map(req.block)
      BY <1>1, <2>1, MapInjective
    <3>2. Map(b) # req.block
      BY <1>1, <2>1, MapElsewhere, MapCases, PoolApart
    <3> QED BY <3>1, <3>2
  <2> QED BY <1>2, <2>1 DEF Home, InBoot, Elsewhere
<1>4. \A c \in Pool : c # x => page'[c] = page[c]
  BY PoolApart DEF Elsewhere
<1>0. Pool \cap bad' = Pool \cap bad
  BY <1>1, PoolApart
<1>5. StoredShrinks
  BY <1>0, <1>4 DEF StoredShrinks, Candidates
<1>6. bmt_block_index # 0 => bmt_block_index \in Pool /\ bmt_block_index # x
                             /\ page'[bmt_block_index] = page[bmt_block_index]
  BY <1>1, <1>4, BmtBlockApart, PoolApart
<1>7. Candidates # {} => Candidates' # {}
  <2> SUFFICES ASSUME NEW c \in Candidates PROVE c \in Candidates'
    OBVIOUS
  <2>1. c = bmt_block_index /\ c \in Pool /\ c # 0
    BY <1>1, PoolNotZero DEF Tables, OneTable, Candidates
  <2> QED BY <1>0, <1>6, <2>1 DEF Candidates
<1>8. OneTable' /\ EntriesUnique' /\ ScanKnown'
  <2>1. OneEntryPerBadBlock'
    BY <1>1, MapStays DEF Tables, EntriesUnique
  <2> QED BY <1>5, <2>1, StoredStays
<1>9. StoredIsCurrent'
  BY <1>0, <1>5, <1>7, CurrentStays
<1>10. TableHasBlock'
  BY <1>0, <1>1, <1>6, BlockStays DEF Tables, TableHasBlock, Named
<1>11. TableGoesToErased' /\ CallsInv' /\ UpdatesVoid'
  BY DEF TableGoesToErased, TableBlockErased, CallsInv, UpdatesVoid, NoReq
<1> QED BY <1>2, <1>3, <1>8, <1>9, <1>10, <1>11 DEF Tables

\* A page is written: the first one of a block that has moved names it.
LEMMA WritePagePower ==
  ASSUME Powered, WritePage PROVE Hosts' /\ Tables' /\ SeenSucceed
<1> DEFINE r == req.block
           q == req.page
           x == Map(req.block)
           v == HostPage
<1>1. /\ pc = "program" /\ page' = Programmed(page, x, q, v) /\ Answered
      /\ UNCHANGED <<bad, table, mapped_count, bmt_block_index>>
  BY DEF WritePage, bmt
<1>2. IInv /\ Hosts /\ Tables /\ req.op = "write"
  BY <1>1 DEF Powered, Tables, CallsInv
<1>3. /\ r \in System /\ q \in Pages /\ q \in Nat /\ next_page[r] = q /\ req # NoReq /\ q < PagePerBlock
  <2>1. r \in System /\ q \in Pages /\ next_page[r] = q /\ req # NoReq
    BY <1>2 DEF IInv, TypeOK, RequestInv, NoReq
  <2>2. q \in Nat /\ q < PagePerBlock
    BY <2>1, Geometry DEF Pages
  <2> QED BY <2>1, <2>2
<1>4. /\ pc' = "idle" /\ req' = NoReq /\ UNCHANGED void
      /\ next_page' = [next_page EXCEPT ![r] = @ + 1]
  BY <1>1, <1>2 DEF Answered, Idle
<1>5. /\ Home(r) = x /\ x \in Blocks /\ (r \notin void => page[x][q] = Blank)
  <2>1. Home(r) = x
    BY <1>1 DEF Home, InBoot
  <2>2. q >= next_page[r]
    BY <1>3
  <2>3. r \notin void => page[x][q] = Blank
    BY <1>2, <1>3, <2>1, <2>2 DEF Hosts, RestIsBlank
  <2> QED BY <1>2, <1>3, <2>1, <2>3, MapElsewhere
<1>6. v.kind = "data" /\ v.data = req.data /\ (x # r => v.idx = r)
  BY DEF HostPage, DataPage
<1> HIDE DEF x, v, r, q
<1>7. /\ Elsewhere(x) /\ (\A p \in Pages : p # q => page'[x][p] = page[x][p])
      /\ page'[x][q] \in {v, Junk} /\ (r \notin void => page'[x][q] = v)
  BY <1>1, <1>2, <1>3, <1>5, ProgramEffect
<1>8. 0 \in Pages /\ (page'[x][0] = page[x][0] \/ (q = 0 /\ page'[x][0] \in {v, Junk}))
  BY <1>7, GeometryFacts
<1>9. page'[x][0].kind = "bmt" => page'[x][0] = page[x][0]
  BY <1>6, <1>8, BlankUnnamed
<1>10. /\ Tables'
       /\ \A b \in System : /\ Home(b) = Map(b) /\ Home(b)' = Home(b) /\ Map(b) \in Blocks
                            /\ (b # req.block => Map(b) # x /\ page'[Map(b)] = page[Map(b)])
  BY <1>1, <1>4, <1>7, <1>9, ServedPower DEF x
<1>11. \A b \in System : /\ next_page'[b] = IF b = r THEN q + 1 ELSE next_page[b]
  BY <1>2, <1>3, <1>4 DEF IInv, TypeOK
<1>12. HomesAreGood'
  BY <1>1, <1>2, <1>3, <1>4, <1>10, <1>11 DEF Hosts, HomesAreGood, IInv, TypeOK
<1>13. HomesAreNamed'
  <2> SUFFICES ASSUME NEW b \in System, Holds(b)', Home(b)' # b
               PROVE  page'[Home(b)'][0].idx = b
    BY DEF HomesAreNamed
  <2>1. CASE b # r
    <3>1. Holds(b) /\ page'[Home(b)] = page[Home(b)] /\ Home(b)' = Home(b)
      BY <1>2, <1>4, <1>10, <1>11, <2>1 DEF Holds, r
    <3> QED BY <1>2, <3>1 DEF Hosts, HomesAreNamed
  <2>2. CASE b = r
    <3>1. Home(b)' = x /\ x # r /\ r \notin void
      BY <1>4, <1>5, <1>10, <2>2 DEF Holds
    <3>2. CASE q = 0
      BY <1>6, <1>7, <2>2, <3>1, <3>2
    <3>3. CASE q # 0
      <4>1. Holds(r)
        BY <1>2, <1>3, <3>1, <3>3 DEF Holds
      <4>2. page'[x][0] = page[x][0]
        BY <1>8, <3>3
      <4> QED BY <1>2, <1>3, <1>5, <2>2, <3>1, <4>1, <4>2 DEF Hosts, HomesAreNamed
    <3> QED BY <3>2, <3>3
  <2> QED BY <2>1, <2>2
<1>14. NamesAreHomes'
  <2>1. ASSUME NEW y \in Pool \ bad', NEW b \in System, page'[y][0].idx = b
        PROVE  Home(b)' = y
    <3>1. CASE page'[y][0] = page[y][0]
      BY <1>1, <1>2, <1>10, <2>1, <3>1, NamesByBlock DEF Hosts, Astray
    <3>2. CASE page'[y][0] # page[y][0]
      <4>1. y = x
        BY <1>7, <3>2, PoolApart DEF Elsewhere
      <4>2. page'[y][0] = v /\ x # r
        BY <1>3, <1>8, <2>1, <3>2, <4>1, BlankUnnamed, PoolApart
      <4> QED BY <1>3, <1>5, <1>6, <1>10, <2>1, <4>1, <4>2
    <3> QED BY <3>1, <3>2
  <2> QED BY <2>1, NamesByBlockNext
<1>15. RestIsBlank'
  <2> SUFFICES ASSUME NEW b \in System \ void', NEW p \in Pages, p >= next_page'[b]
               PROVE  page'[Home(b)'][p] = Blank
    BY DEF RestIsBlank
  <2>1. CASE b # r
    <3>1. page'[Home(b)] = page[Home(b)] /\ Home(b)' = Home(b) /\ p >= next_page[b]
      BY <1>10, <1>11, <2>1 DEF r
    <3> QED BY <1>2, <1>4, <3>1 DEF Hosts, RestIsBlank
  <2>2. CASE b = r
    <3>1. p >= q + 1 /\ p \in Nat
      BY <1>11, <2>2, PagesFew
    <3>2. p # q /\ p >= next_page[r]
      BY <1>3, <3>1
    <3>3. page'[x][p] = page[x][p] /\ Home(b)' = x
      BY <1>5, <1>7, <1>10, <2>2, <3>2
    <3> QED BY <1>2, <1>3, <1>4, <1>5, <2>2, <3>2, <3>3 DEF Hosts, RestIsBlank
  <2> QED BY <2>1, <2>2
<1>16. SeenSucceed
  <2>0. Kept
    BY <1>2, <1>10 DEF Kept
  <2>1. \A b \in System \ void' : \A p \in Pages :
          Seen(b, p)' = IF b = r /\ p = q THEN req.data ELSE Seen(b, p)
    <3> SUFFICES ASSUME NEW b \in System \ void', NEW p \in Pages
                 PROVE  Seen(b, p)' = IF b = r /\ p = q THEN req.data ELSE Seen(b, p)
      OBVIOUS
    <3>1. Home(b)' = Home(b) /\ (b = r => Home(b) = x)
      BY <1>5, <1>10
    <3>2. b # r => page'[Home(b)] = page[Home(b)]
      BY <1>10 DEF r
    <3> QED BY <1>4, <1>6, <1>7, <3>1, <3>2 DEF Seen, Read
  <2> QED BY <1>2, <1>3, <1>4, <2>0, <2>1 DEF SeenSucceed, r, q
<1> QED BY <1>10, <1>12, <1>13, <1>14, <1>15, <1>16 DEF Hosts

-----------------------------------------------------------------------------
(* The calls of the host, from the ask to the answer.                       *)

\* An erase goes to the block of the logical address, wherever the host's lies.
LEMMA EraseBlockPower ==
  ASSUME Powered, EraseBlock PROVE Hosts' /\ Tables' /\ SeenSucceed
<1> DEFINE r == req.block
<1>1. /\ pc = "erase" /\ page' = Erased(page, r) /\ bad' = bad \ {r} /\ Answered
      /\ UNCHANGED <<table, mapped_count, bmt_block_index>>
  BY DEF EraseBlock, EraseTarget, bmt
<1>2. IInv /\ Hosts /\ Tables /\ req.op = "erase" /\ Map(r) \notin bad
  BY <1>1 DEF Powered, Tables, CallsInv
<1>3. r \in System /\ req # NoReq /\ r \in Blocks /\ r \notin Pool
  BY <1>2, PoolApart DEF IInv, TypeOK, NoReq
<1>4. /\ pc' = "idle" /\ req' = NoReq
      /\ void' = IF Map(r) = r \/ ErasedBlock(Map(r)) THEN void \ {r} ELSE void \cup {r}
      /\ next_page' = [next_page EXCEPT ![r] = 0]
  BY <1>1, <1>2 DEF Answered, Idle, Erasure
<1>5. Home(r) = Map(r)
  BY <1>1, <1>3 DEF Home, InBoot
<1>6. Elsewhere(r) /\ (\A p \in Pages : page'[r][p] = Blank) /\ page'[r][0] = Blank
  BY <1>1, <1>2, <1>3, EraseEffect, GeometryFacts
<1>7. page'[r][0].kind = "bmt" => page'[r][0] = page[r][0]
  BY <1>6, BlankUnnamed
<1>8. /\ Tables'
      /\ \A b \in System : /\ Home(b) = Map(b) /\ Home(b)' = Home(b) /\ Map(b) \in Blocks
                           /\ (b # req.block => Map(b) # r /\ page'[Map(b)] = page[Map(b)])
  <2>1. bad' \subseteq bad /\ bad \ {req.block} \subseteq bad'
    BY <1>1
  <2> QED BY <1>1, <1>4, <1>6, <1>7, <2>1, ServedPower
<1>9. \A b \in System : next_page'[b] = IF b = r THEN 0 ELSE next_page[b]
  BY <1>2, <1>3, <1>4 DEF IInv, TypeOK
<1>10. Map(r) # r => page'[Map(r)] = page[Map(r)]
  BY <1>3, <1>6, <1>8 DEF Elsewhere
<1> HIDE DEF r
<1>11. HomesAreGood'
  <2> SUFFICES ASSUME NEW b \in System \ void' PROVE Home(b)' \notin bad
    BY <1>1 DEF HomesAreGood
  <2>1. CASE b = r
    BY <1>2, <1>3, <1>8, <2>1
  <2>2. CASE b # r
    BY <1>2, <1>4, <1>8, <2>2 DEF Hosts, HomesAreGood
  <2> QED BY <2>1, <2>2
<1>12. HomesAreNamed'
  <2> SUFFICES ASSUME NEW b \in System, Holds(b)', Home(b)' # b
               PROVE  page'[Home(b)'][0].idx = b
    BY DEF HomesAreNamed
  <2>1. b # r
    BY <1>9 DEF Holds
  <2>2. Holds(b) /\ page'[Home(b)] = page[Home(b)] /\ Home(b)' = Home(b)
    BY <1>4, <1>8, <1>9, <2>1 DEF Holds, r
  <2> QED BY <1>2, <2>2 DEF Hosts, HomesAreNamed
<1>13. NamesAreHomes'
  <2>1. ASSUME NEW y \in Pool \ bad', NEW b \in System, page'[y][0].idx = b
        PROVE  Home(b)' = y
    <3>1. y # r /\ y \notin bad
      BY <1>1, <1>3, <2>1
    <3>2. page'[y] = page[y]
      BY <1>6, <3>1, PoolApart DEF Elsewhere
    <3> QED BY <1>1, <1>2, <1>8, <2>1, <3>1, <3>2, NamesByBlock DEF Hosts, Astray
  <2> QED BY <2>1, NamesByBlockNext
<1>14. ASSUME NEW p \in Pages, r \notin void' PROVE page'[Map(r)][p] = Blank
  <2>1. Map(r) = r \/ ErasedBlock(Map(r))
    BY <1>3, <1>4, <1>14
  <2>2. CASE Map(r) = r
    BY <1>6, <2>2
  <2>3. CASE Map(r) # r /\ ErasedBlock(Map(r))
    BY <1>10, <2>3 DEF ErasedBlock
  <2> QED BY <2>1, <2>2, <2>3
<1>15. RestIsBlank'
  <2> SUFFICES ASSUME NEW b \in System \ void', NEW p \in Pages, p >= next_page'[b]
               PROVE  page'[Home(b)'][p] = Blank
    BY DEF RestIsBlank
  <2>1. CASE b # r
    <3>1. page'[Home(b)] = page[Home(b)] /\ Home(b)' = Home(b) /\ p >= next_page[b] /\ b \notin void
      BY <1>4, <1>8, <1>9, <2>1 DEF r
    <3> QED BY <1>2, <3>1 DEF Hosts, RestIsBlank
  <2>2. CASE b = r
    BY <1>5, <1>8, <1>14, <2>2
  <2> QED BY <2>1, <2>2
<1>16. SeenSucceed
  <2>1. \A b \in System \ void' : \A p \in Pages :
          Seen(b, p)' = IF b = r THEN FF ELSE Seen(b, p)
    <3> SUFFICES ASSUME NEW b \in System \ void', NEW p \in Pages
                 PROVE  Seen(b, p)' = IF b = r THEN FF ELSE Seen(b, p)
      OBVIOUS
    <3>1. Home(b)' = Home(b) /\ (b = r => Home(b) = Map(r))
      BY <1>5, <1>8
    <3>2. b # r => page'[Home(b)] = page[Home(b)]
      BY <1>8 DEF r
    <3>3. Blank.data = FF
      BY DEF Blank
    <3> QED BY <1>14, <3>1, <3>2, <3>3 DEF Seen, Read
  <2>2. Kept
    <3> SUFFICES ASSUME NEW b \in System \ void'
                 PROVE  Home(b)' = Home(b) /\ (Home(b) = b \/ page'[Home(b)] = page[Home(b)])
      BY DEF Kept
    <3> QED BY <1>5, <1>8, <1>10 DEF r
  <2>3. void' = IF r \in Stuck THEN void \cup {r} ELSE void \ {r}
    BY <1>3, <1>4, <1>5 DEF Stuck
  <2> QED BY <1>2, <1>3, <1>4, <2>1, <2>2, <2>3 DEF SeenSucceed, r
<1> QED BY <1>8, <1>11, <1>12, <1>13, <1>15, <1>16 DEF Hosts

\* The update and the service of the host's own commands, as a whole.
LEMMA CommitPower ==
  ASSUME Powered, Commit
  PROVE  /\ Hosts' /\ Tables'
         /\ \/ SameSeen /\ UNCHANGED <<req, void>>
            \/ SeenSucceed
<1>1. ~EraseBmtFails /\ ~ProgramBmtFails
  BY NeverFails DEF Powered, EraseBmtFails, ProgramBmtFails
<1>2. CASE UpdateTable
  BY <1>2, UpdateTablePower DEF UpdateTable, host
<1>3. CASE EraseBmt
  BY <1>3, EraseBmtPower, StaysSeen DEF EraseBmt, host
<1>4. CASE ProgramBmt
  BY <1>4, ProgramBmtPower, StaysSeen
<1>5. CASE MarkOld
  <2>1. /\ Hosts' /\ Tables' /\ Stays /\ UNCHANGED void
        /\ UNCHANGED req \/ (req # NoReq /\ req' = NoReq /\ req.op = "isbad")
    BY <1>5, MarkOldPower
  <2>2. SameSeen
    BY <2>1, StaysSeen
  <2>3. CASE req # NoReq /\ req' = NoReq /\ req.op = "isbad"
    BY <2>1, <2>2, <2>3 DEF SeenSucceed, SameSeen
  <2> QED BY <2>1, <2>2, <2>3
<1> QED BY <1>1, <1>2, <1>3, <1>4, <1>5 DEF Commit

\* A served request keeps the invariant, and the host sees it succeed or sees no change.
LEMMA ServePower ==
  ASSUME Powered, Serve PROVE Hosts' /\ Tables' /\ SeenSucceed
<1>1. ~WritePageFails /\ ~EraseBlockFails
  BY NeverFails DEF Powered, WritePageFails, EraseBlockFails
<1> QED BY <1>1, WritePagePower, EraseBlockPower DEF Serve

\* Nothing is under way in a dependable device that migrates.
LEMMA MovePower == Powered => ~Move
BY DEF Powered, Tables, CallsInv, Move, Migrate, MigrateFails, MigrateDone

\* A call of the host that does not touch the flash.
LEMMA AskPower ==
  ASSUME Powered, pc = "idle", pc' \in {"program", "erase", "find"}, NoMoreToWrite, NoneHolds,
         UNCHANGED <<page, bad, table, mapped_count, bmt_block_index, void>>
  PROVE  /\ Hosts' /\ Stays /\ req = NoReq /\ \A b \in System : Map(b)' = Map(b) /\ Home(b) = Map(b)
         /\ OneTable' /\ EntriesUnique' /\ StoredIsCurrent' /\ TableHasBlock'
         /\ TableGoesToErased' /\ ScanKnown'
<1>1. IInv /\ Hosts /\ Tables
  BY DEF Powered
<1>2. req = NoReq /\ req.op = "none"
  BY <1>1, NoRequest
<1>3. \A b \in System : Map(b)' = Map(b)
  BY MapStays
<1>4. Stays /\ \A b \in System : Home(b) = Map(b)
  BY <1>3 DEF Stays, Home, InBoot
<1>5. Hosts'
  <2>1. NamesKept /\ StraysKept
    BY StraysStay DEF NamesKept
  <2> QED BY <1>4, <2>1, HostsKept
<1>6. StoredShrinks /\ Candidates' = Candidates
  BY DEF StoredShrinks, Candidates
<1>7. OneTable' /\ EntriesUnique' /\ ScanKnown'
  <2>1. OneEntryPerBadBlock'
    BY <1>1, MapStays DEF Tables, EntriesUnique
  <2> QED BY <1>6, <2>1, StoredStays
<1>8. StoredIsCurrent'
  BY <1>6, CurrentStays
<1>9. TableHasBlock'
  BY <1>1, BlockStays DEF Tables, TableHasBlock, Named
<1>10. TableGoesToErased'
  BY DEF TableGoesToErased, TableBlockErased
<1> QED BY <1>2, <1>3, <1>4, <1>5, <1>7, <1>8, <1>9, <1>10

\* The host writes, ...
LEMMA HostWritePower ==
  ASSUME Powered, NEW b \in System, NEW d \in Data, HostWrite(b, d)
  PROVE  Hosts' /\ Tables' /\ Stays /\ req = NoReq /\ req' # NoReq /\ UNCHANGED void
<1>1. /\ pc = "idle" /\ pc' = "program"
      /\ UNCHANGED <<page, bad, table, mapped_count, bmt_block_index, next_page, void>>
      /\ req' = [op |-> "write", block |-> b, page |-> next_page[b], data |-> d]
  BY DEF HostWrite, Request, flash, bmt
<1>2. req'.op = "write" /\ req' # NoReq
  BY <1>1 DEF NoReq
<1>3. IInv /\ req = NoReq /\ req.op = "none"
  BY <1>1, NoRequest DEF Powered
<1>4. NoMoreToWrite /\ NoneHolds
  BY <1>1, <1>3 DEF NoMoreToWrite, NoneHolds, Holds
<1>5. /\ Hosts' /\ Stays
      /\ OneTable' /\ EntriesUnique' /\ StoredIsCurrent' /\ TableHasBlock'
      /\ TableGoesToErased' /\ ScanKnown'
  BY <1>1, <1>4, AskPower
<1>6. CallsInv' /\ UpdatesVoid'
  BY <1>1, <1>2 DEF CallsInv, UpdatesVoid
<1> QED BY <1>1, <1>2, <1>3, <1>5, <1>6 DEF Tables

\* ... finds a block bad, which it has given up, ...
LEMMA BlockBadPower ==
  ASSUME Powered, pc = "idle", NEW b \in System, BlockBad(b),
         UNCHANGED <<bad, table, mapped_count, void>>, req'.op \in {"erase", "isbad"},
         req'.block = b, req' # NoReq, req'.op = "erase" => next_page'[b] = PagePerBlock
  PROVE  CallsInv' /\ UpdatesVoid'
<1>1. /\ pc' = "find" /\ Map(b) \in bad /\ error_block' = Map(b) /\ reason' = "unmapped"
  BY DEF BlockBad
<1>2. Map(b)' = Map(b) /\ Home(b) = Map(b)
  BY MapStays DEF Home, InBoot
<1>3. b \in void
  BY <1>1, <1>2 DEF Powered, Hosts, HomesAreGood
<1>4. Map(req.block)' = Map(b)
  BY <1>2 DEF Map, Live
<1> QED BY <1>1, <1>3, <1>4 DEF CallsInv, UpdatesVoid

\* ... also when it erases, ...
LEMMA HostErasePower ==
  ASSUME Powered, NEW b \in System, HostErase(b)
  PROVE  Hosts' /\ Tables' /\ Stays /\ req = NoReq /\ req' # NoReq /\ UNCHANGED void
<1>1. /\ pc = "idle" /\ pc' \in {"find", "erase"}
      /\ UNCHANGED <<page, bad, table, mapped_count, bmt_block_index, void>>
      /\ req' = [op |-> "erase", block |-> b, page |-> 0, data |-> FF]
      /\ next_page' = [next_page EXCEPT ![b] = PagePerBlock]
      /\ \/ BlockBad(b)
         \/ Map(b) \notin bad /\ pc' = "erase"
  BY DEF HostErase, Request, flash, bmt, BlockBad
<1>2. req'.op = "erase" /\ req' # NoReq /\ req'.block = b
  BY <1>1 DEF NoReq
<1>3. IInv /\ req = NoReq /\ req.op = "none"
  BY <1>1, NoRequest DEF Powered
<1>4. next_page'[b] = PagePerBlock /\ \A c \in System : c # b => next_page'[c] = next_page[c]
  BY <1>1, <1>3 DEF IInv, TypeOK
<1>5. NoMoreToWrite /\ NoneHolds
  BY <1>1, <1>2, <1>3, <1>4 DEF NoMoreToWrite, NoneHolds, Holds
<1>6. /\ Hosts' /\ Stays /\ \A c \in System : Map(c)' = Map(c)
      /\ OneTable' /\ EntriesUnique' /\ StoredIsCurrent' /\ TableHasBlock'
      /\ TableGoesToErased' /\ ScanKnown'
  BY <1>1, <1>5, AskPower
<1>7. CallsInv' /\ UpdatesVoid'
  <2>1. CASE BlockBad(b)
    BY <1>1, <1>2, <1>4, <2>1, BlockBadPower
  <2>2. CASE Map(b) \notin bad /\ pc' = "erase"
    <3>1. Map(req.block)' = Map(b)
      BY <1>1, <1>2 DEF Map, Live
    <3> QED BY <1>1, <1>2, <1>4, <2>2, <3>1 DEF CallsInv, UpdatesVoid
  <2> QED BY <1>1, <2>1, <2>2
<1> QED BY <1>1, <1>2, <1>3, <1>6, <1>7 DEF Tables

\* ... or asks, ...
LEMMA HostIsBadPower ==
  ASSUME Powered, NEW b \in System, HostIsBad(b)
  PROVE  Hosts' /\ Tables' /\ Stays /\ req = NoReq /\ req' # NoReq /\ UNCHANGED void
<1>1. /\ pc = "idle" /\ pc' = "find" /\ BlockBad(b)
      /\ UNCHANGED <<page, bad, table, mapped_count, bmt_block_index, next_page, void>>
      /\ req' = [op |-> "isbad", block |-> b, page |-> 0, data |-> FF]
  BY DEF HostIsBad, Request, flash, bmt, BlockBad
<1>2. req'.op = "isbad" /\ req' # NoReq /\ req'.block = b
  BY <1>1 DEF NoReq
<1>3. IInv /\ req = NoReq /\ req.op = "none"
  BY <1>1, NoRequest DEF Powered
<1>4. NoMoreToWrite /\ NoneHolds
  BY <1>1, <1>3 DEF NoMoreToWrite, NoneHolds, Holds
<1>5. /\ Hosts' /\ Stays
      /\ OneTable' /\ EntriesUnique' /\ StoredIsCurrent' /\ TableHasBlock'
      /\ TableGoesToErased' /\ ScanKnown'
  BY <1>1, <1>4, AskPower
<1>6. CallsInv' /\ UpdatesVoid'
  BY <1>1, <1>2, BlockBadPower
<1> QED BY <1>1, <1>2, <1>3, <1>5, <1>6 DEF Tables

\* ... and marks one, whether the mark is lost or not.
LEMMA HostMarkBadPower ==
  ASSUME Powered, NEW b \in System, HostMarkBad(b)
  PROVE  Hosts' /\ Tables' /\ SameSeen /\ req = NoReq /\ req' = NoReq /\ void' = void \cup {b}
<1>1. /\ pc = "idle" /\ pc' = "idle" /\ MarkBlockBad(Map(b))
      /\ UNCHANGED <<page, table, mapped_count, bmt_block_index, req>>
      /\ next_page' = [next_page EXCEPT ![b] = PagePerBlock]
      /\ void' = void \cup {b}
  BY DEF HostMarkBad, bmt
<1>2. IInv /\ Hosts /\ Tables
  BY DEF Powered
<1>3. req = NoReq /\ req.op = "none"
  BY <1>1, <1>2, NoRequest
<1>4. bad \subseteq bad' /\ bad' \subseteq bad \cup {Map(b)}
  BY <1>1 DEF MarkBlockBad
<1>5. \A c \in System : next_page'[c] = IF c = b THEN PagePerBlock ELSE next_page[c]
  BY <1>1, <1>2 DEF IInv, TypeOK
<1>6. \A c \in System : Map(c)' = Map(c) /\ Home(c) = Map(c) /\ Home(c)' = Home(c)
  BY <1>1, MapStays DEF Home, InBoot
<1>7. HomesAreGood'
  BY <1>1, <1>2, <1>4, <1>6, MapInjective DEF Hosts, HomesAreGood
<1>8. HomesAreNamed'
  <2> SUFFICES ASSUME NEW c \in System, Holds(c)', Home(c)' # c
               PROVE  page'[Home(c)'][0].idx = c
    BY DEF HomesAreNamed
  <2>1. Holds(c)
    BY <1>1, <1>3, <1>5 DEF Holds
  <2> QED BY <1>1, <1>2, <1>6, <2>1 DEF Hosts, HomesAreNamed
<1>9. NamesAreHomes'
  <2>1. ASSUME NEW y \in Pool \ bad', NEW c \in System, page'[y][0].idx = c
        PROVE  Home(c)' = y
    BY <1>1, <1>2, <1>4, <1>6, <2>1, NamesByBlock DEF Hosts, Astray
  <2> QED BY <2>1, NamesByBlockNext
<1>10. RestIsBlank'
  <2> SUFFICES ASSUME NEW c \in System \ void', NEW p \in Pages, p >= next_page'[c]
               PROVE  page'[Home(c)'][p] = Blank
    BY DEF RestIsBlank
  <2>1. p >= next_page[c]
    BY <1>5, PagesFew
  <2> QED BY <1>1, <1>2, <1>6, <2>1 DEF Hosts, RestIsBlank
<1>11. SameSeen
  BY <1>1, <1>6, StaysSeen DEF Stays
<1>12. bmt_block_index # 0 => bmt_block_index \notin bad'
  BY <1>2, <1>4, BmtBlockApart DEF Tables, TableHasBlock
<1>13. Candidates' = Candidates
  <2>1. Candidates' \subseteq Candidates
    BY <1>1, <1>4 DEF Candidates
  <2>2. ASSUME NEW c \in Candidates PROVE c \in Candidates'
    <3>1. c = bmt_block_index /\ c # 0
      BY <1>1, <1>2, PoolNotZero DEF Tables, OneTable, Candidates
    <3> QED BY <1>1, <1>12, <3>1 DEF Candidates
  <2> QED BY <2>1, <2>2
<1>14. StoredShrinks
  BY <1>1, <1>13 DEF StoredShrinks
<1>15. OneTable' /\ EntriesUnique' /\ ScanKnown'
  <2>1. OneEntryPerBadBlock'
    BY <1>1, <1>2, MapStays DEF Tables, EntriesUnique
  <2> QED BY <1>1, <1>14, <2>1, StoredStays
<1>16. StoredIsCurrent'
  BY <1>1, <1>4, <1>13, <1>14, CurrentStays
<1>17. TableHasBlock'
  BY <1>1, <1>4, <1>12, BlockStays DEF Named
<1>18. TableGoesToErased' /\ CallsInv' /\ UpdatesVoid'
  BY <1>1, <1>3 DEF TableGoesToErased, TableBlockErased, CallsInv, UpdatesVoid
<1> QED BY <1>1, <1>3, <1>7, <1>8, <1>9, <1>10, <1>11, <1>15, <1>16, <1>17, <1>18 DEF Hosts, Tables

-----------------------------------------------------------------------------
(* A loss of power.                                                         *)

\* What a loss of power does to the flash: one block is hit, and of a block of
\* the host at most the page that is being written, or a block being erased.
CutFlash ==
  /\ \A x \in Pool : page'[x][0] = page[x][0] \/ page'[x][0] = Junk
  /\ ~InBoot => \A b \in System \ void' :
       /\ page'[Map(b)][0] = page[Map(b)][0]
       /\ \A p \in Pages : \/ page'[Map(b)][p] = page[Map(b)][p]
                           \/ /\ req # NoReq /\ req.op = "write" /\ b = req.block /\ p = req.page
                              /\ page'[Map(b)][p] = Junk
  /\ InBoot \/ pc = "idle" => page' = page

\* What the host is told of it.
LEMMA CutHost ==
  ASSUME Powered, PowerCut
  PROVE  /\ pc' = "off" /\ cur' = 0 /\ req' = NoReq /\ bmt_block_index' = 0
         /\ mapped_count' = 0 /\ UNCHANGED bad
         /\ void' = void \cup Unwritten \cup Forgotten
         /\ \A b \in System : b = req.block /\ req # NoReq => next_page'[b] = PagePerBlock
         /\ \A b \in System : next_page'[b] \in {next_page[b], PagePerBlock}
         /\ \A b \in System \ void' :
              /\ b \notin void /\ ~(req.op = "erase" /\ b = req.block)
              /\ pc # "idle" => next_page[b] # 0 /\ Holds(b)
              /\ pc = "idle" => next_page'[b] = next_page[b]
<1>1. IInv /\ Hosts /\ Tables
  BY DEF Powered
<1>2. /\ pc' = "off" /\ cur' = 0 /\ req' = NoReq /\ bmt_block_index' = 0
      /\ mapped_count' = 0 /\ UNCHANGED bad
      /\ void' = void \cup Unwritten \cup Forgotten
      /\ next_page' = [b \in System |-> IF b \in Interrupted \cup Unwritten
                                        THEN PagePerBlock ELSE next_page[b]]
  BY DEF PowerCut
<1>3. \A b \in System : next_page'[b] = IF b \in Interrupted \cup Unwritten
                                        THEN PagePerBlock ELSE next_page[b]
  BY <1>2
<1>6. \A b \in System : b = req.block /\ req # NoReq => next_page'[b] = PagePerBlock
  BY <1>3 DEF Interrupted
<1>7. pc = "idle" => req = NoReq /\ req.op = "none" /\ Interrupted = {} /\ Unwritten = {}
  BY <1>1, NoRequest DEF Interrupted, Unwritten
<1>8. \A b \in System \ void' :
        /\ b \notin void /\ ~(req.op = "erase" /\ b = req.block)
        /\ pc # "idle" => next_page[b] # 0 /\ Holds(b)
        /\ pc = "idle" => next_page'[b] = next_page[b]
  BY <1>2, <1>3, <1>7 DEF Unwritten, Holds
<1> QED BY <1>2, <1>3, <1>6, <1>8

\* The command under way, by where the code is.
LEMMA TornCases ==
  /\ pc = "program" => Torn = {Spoiled(page, Map(req.block), req.page)}
  /\ pc = "program_bmt" => Torn = {Spoiled(page, bmt_block_index, 0)}
  /\ pc = "erase" => Torn = {SpoiledBlock(page, EraseTarget(req.block))}
  /\ pc = "erase_bmt" => Torn = {SpoiledBlock(page, bmt_block_index)}
<1>1. ASSUME pc = "program" PROVE Torn = {Spoiled(page, Map(req.block), req.page)}
  BY <1>1 DEF Torn, Finding
<1>2. ASSUME pc = "program_bmt" PROVE Torn = {Spoiled(page, bmt_block_index, 0)}
  BY <1>2 DEF Torn, Finding
<1>3. ASSUME pc = "erase" PROVE Torn = {SpoiledBlock(page, EraseTarget(req.block))}
  BY <1>3 DEF Torn, Finding
<1>4. ASSUME pc = "erase_bmt" PROVE Torn = {SpoiledBlock(page, bmt_block_index)}
  BY <1>4 DEF Torn, Finding
<1> QED BY <1>1, <1>2, <1>3, <1>4

\* So a loss of power hits the block of that command only.
LEMMA CutFlashPower == ASSUME Powered, PowerCut PROVE CutFlash
<1>1. IInv /\ Hosts /\ Tables /\ page' \in {page} \cup Torn
  BY DEF Powered, PowerCut
<1>2. Unwritten \subseteq void'
  BY DEF PowerCut
<1>3. CASE page' = page
  BY <1>3 DEF CutFlash
<1>4. CASE page' # page
  <2>1. page' \in Torn
    BY <1>1, <1>4
  <2>2. pc \in {"program", "program_bmt", "erase", "erase_bmt", "find", "find_bmt"}
    BY <1>1, <2>1 DEF Torn, Finding, Tables, CallsInv
  <2>3. ~InBoot /\ pc # "idle" /\ \A b \in System : Map(b) \in Blocks
    BY <1>1, <2>2, MapElsewhere DEF InBoot
  <2>4. req.block \in System /\ req.page \in Pages /\ 0 \in Pages /\ Pool \subseteq Blocks
    BY <1>1, GeometryFacts, PoolApart DEF IInv, TypeOK
  <2>5. CASE pc = "program"
    <3> DEFINE x == Map(req.block)
    <3>1. page' = Spoiled(page, x, req.page) /\ x \in Blocks
      BY <2>1, <2>3, <2>4, <2>5, TornCases
    <3>2. req.op = "write" /\ req # NoReq /\ next_page[req.block] = req.page
      BY <1>1, <2>5 DEF Tables, CallsInv, IInv, RequestInv, NoReq
    <3>3. \A b \in System : b # req.block => Map(b) # x
      BY <1>1, <2>4, MapInjective
    <3> HIDE DEF x
    <3>4. /\ Elsewhere(x) /\ page'[x][req.page] = Junk
          /\ \A p \in Pages : p # req.page => page'[x][p] = page[x][p]
      BY <1>1, <2>4, <3>1, SpoilEffect
    <3>5. req.block \notin void' => req.page # 0
      BY <1>2, <2>4, <2>5, <3>2 DEF Unwritten
    <3>6. \A y \in Pool : page'[y][0] = page[y][0] \/ page'[y][0] = Junk
      <4> SUFFICES ASSUME NEW y \in Pool PROVE page'[y][0] = page[y][0] \/ page'[y][0] = Junk
        OBVIOUS
      <4>1. CASE y = x
        BY <2>4, <3>4, <4>1
      <4>2. CASE y # x
        BY <2>4, <3>4, <4>2 DEF Elsewhere
      <4> QED BY <4>1, <4>2
    <3>7. ASSUME NEW b \in System \ void'
          PROVE  /\ page'[Map(b)][0] = page[Map(b)][0]
                 /\ \A p \in Pages : \/ page'[Map(b)][p] = page[Map(b)][p]
                                     \/ /\ req # NoReq /\ req.op = "write" /\ b = req.block /\ p = req.page
                                        /\ page'[Map(b)][p] = Junk
      <4>1. CASE b # req.block
        <5>1. page'[Map(b)] = page[Map(b)]
          BY <2>3, <3>3, <3>4, <4>1 DEF Elsewhere
        <5> QED BY <5>1
      <4>2. CASE b = req.block
        <5>1. Map(b) = x
          BY <4>2 DEF x
        <5> QED BY <2>4, <3>2, <3>4, <3>5, <4>2, <5>1
      <4> QED BY <4>1, <4>2
    <3> QED BY <2>3, <3>6, <3>7 DEF CutFlash
  <2>6. CASE pc = "erase"
    <3> DEFINE x == req.block
    <3>1. page' = SpoiledBlock(page, x) /\ x \in Blocks /\ x \notin Pool
      BY <2>1, <2>4, <2>6, TornCases, PoolApart DEF EraseTarget
    <3>2. x \in void'
      BY <1>1, <1>2, <2>4, <2>6 DEF Unwritten, Tables, CallsInv
    <3>3. \A b \in System : b # x => Map(b) # x
      BY <1>1, <2>4, <3>1, MapCases
    <3> HIDE DEF x
    <3>4. Elsewhere(x)
      BY <1>1, <3>1, SpoilBlockEffect
    <3>5. \A y \in Pool : page'[y][0] = page[y][0] \/ page'[y][0] = Junk
      BY <2>4, <3>1, <3>4 DEF Elsewhere
    <3>6. \A b \in System \ void' : page'[Map(b)] = page[Map(b)]
      BY <2>3, <3>2, <3>3, <3>4 DEF Elsewhere
    <3> QED BY <2>3, <3>5, <3>6 DEF CutFlash
  <2>7. ASSUME NEW x \in Pool \ Mapped,
               page' = Spoiled(page, x, 0) \/ page' = SpoiledBlock(page, x)
        PROVE  CutFlash
    <3>1. x \in Blocks /\ \A b \in System : Map(b) # x
      BY <1>1, <2>4, MapElsewhere
    <3>2. Elsewhere(x) /\ page'[x][0] = Junk
      BY <1>1, <2>4, <2>7, <3>1, SpoilEffect, SpoilBlockEffect
    <3>3. \A y \in Pool : page'[y][0] = page[y][0] \/ page'[y][0] = Junk
      BY <2>4, <3>2 DEF Elsewhere
    <3>4. \A b \in System : page'[Map(b)] = page[Map(b)]
      BY <2>3, <3>1, <3>2 DEF Elsewhere
    <3> QED BY <2>3, <3>3, <3>4 DEF CutFlash
  <2>8. CASE pc \in {"program_bmt", "erase_bmt"}
    <3>1. bmt_block_index \in Pool \ Mapped
      BY <1>1, <2>8 DEF Tables, CallsInv, IInv, TypeOK, PoolDisjoint
    <3>2. page' = Spoiled(page, bmt_block_index, 0) \/ page' = SpoiledBlock(page, bmt_block_index)
      BY <2>1, <2>8, TornCases
    <3> QED BY <2>7, <3>1, <3>2
  <2>9. CASE pc \in {"find", "find_bmt"}
    <3>1. cur < BmtBlockCount /\ ~SkipInPool(SystemBlockCount + cur)
          /\ page' = SpoiledBlock(page, SystemBlockCount + cur)
      BY <2>1, <2>9 DEF Torn, Finding
    <3>2. SystemBlockCount + cur \in Pool \ Mapped
      BY <1>1, <3>1, GeometryFacts DEF SkipInPool, IInv, TypeOK
    <3> QED BY <2>7, <3>1, <3>2
  <2> QED BY <2>2, <2>5, <2>6, <2>8, <2>9
<1> QED BY <1>3, <1>4

\* What a boot takes a pool block for after a cut, it took it for before.
LEMMA CutNames ==
  ASSUME Powered, PowerCut
  PROVE  /\ \A x \in Pool : \A b \in System : page'[x][0].idx = b => page[x][0].idx = b
         /\ StoredShrinks
<1>1. CutFlash /\ UNCHANGED bad
  BY CutFlashPower, CutHost
<1>2. \A x \in Pool : page'[x][0] = page[x][0] \/ page'[x][0] = Junk
  BY <1>1 DEF CutFlash
<1>3. \A x \in Pool : \A b \in System : page'[x][0].idx = b => page[x][0].idx = b
  BY <1>2, BlankUnnamed
<1>4. StoredShrinks
  BY <1>1, <1>2, BlankUnnamed DEF StoredShrinks, Candidates
<1> QED BY <1>3, <1>4

\* The next boot finds a table that is still there, or else goes by the names.
LEMMA CutHomes ==
  ASSUME Powered, PowerCut
  PROVE  /\ \A b \in System \ void' : Home(b)' = Home(b)
         /\ NamesAreHomes'
<1>1. IInv /\ Hosts /\ Tables /\ CutFlash /\ StoredShrinks
  BY CutFlashPower, CutNames DEF Powered
<1>2. /\ pc' = "off" /\ UNCHANGED bad
      /\ \A b \in System \ void' :
           /\ b \notin void /\ ~(req.op = "erase" /\ b = req.block)
           /\ pc # "idle" => next_page[b] # 0 /\ Holds(b)
  BY CutHost
<1>3. \A b \in System : Home(b)' = BootMap(b)'
  BY <1>2 DEF Home, InBoot
<1>4. \A x \in Pool : \A b \in System : page'[x][0].idx = b => page[x][0].idx = b
  BY CutNames
<1>5. \A x \in Pool \ bad : \A b \in System : page[x][0].idx = b => Home(b) = x \/ Astray(b)
  BY <1>1, NamesByBlock DEF Hosts
<1>6. CASE InBoot
  <2>1. page' = page
    BY <1>1, <1>6 DEF CutFlash
  <2>0. Candidates' = Candidates
    BY <1>2, <2>1 DEF Candidates
  <2>2. \A b \in System : Home(b)' = Home(b)
    <3>1. Candidates' = Candidates
      BY <2>0
    <3>2. \A b \in System : BootMap(b)' = BootMap(b)
      BY <1>2, <2>1, <3>1 DEF BootMap
    <3> QED BY <1>3, <1>6, <3>2 DEF Home
  <2>3. NamesAreHomes'
    <3>1. \A b \in System : Astray(b) => Astray(b)'
      BY <1>2, <2>0 DEF Astray
    <3> QED BY <1>2, <1>5, <2>1, <2>2, <3>1, NamesByBlockNext
  <2> QED BY <2>2, <2>3
<1>7. CASE ~InBoot /\ Candidates' # {}
  <2>1. \A b \in System : Home(b) = Map(b)
    BY <1>7 DEF Home
  <2>2. Candidates # {} /\ \A b \in System : BootMap(b)' = BootMap(b)
    BY <1>7, StoredKept, <1>1
  <2>3. \A b \in System : Home(b)' = Home(b) \/ (pc = "erase_bmt" /\ b = req.block)
    BY <1>1, <1>3, <1>7, <2>1, <2>2 DEF Tables, StoredIsCurrent, InBoot
  <2>4. pc = "erase_bmt" => /\ req.block \in void
                            /\ ~Named(Map(req.block)) /\ req.block \in System
    BY <1>1 DEF Tables, CallsInv, UpdatesVoid, IInv, TypeOK
  <2>5. NamesAreHomes'
    <3>1. ASSUME NEW x \in Pool \ bad', NEW b \in System, page'[x][0].idx = b
          PROVE  Home(b)' = x
      <4>1. page[x][0].idx = b /\ Home(b) = x
        BY <1>2, <1>4, <1>5, <2>2, <3>1 DEF Astray
      <4>2. ~(pc = "erase_bmt" /\ b = req.block)
        BY <2>1, <2>4, <4>1 DEF Named
      <4> QED BY <2>3, <4>1, <4>2
    <3> QED BY <3>1, NamesByBlockNext
  <2> QED BY <1>2, <2>3, <2>4, <2>5
<1>8. CASE ~InBoot /\ Candidates' = {}
  <2>1. \A b \in System : Home(b) = Map(b)
    BY <1>8 DEF Home
  <2>2. \A b \in System : \A h : FoundAt(b, h)' => Home(b)' = h
    BY <1>3, <1>8, BootByNameNext
  <2>3. ASSUME NEW b \in System \ void' PROVE Home(b)' = Home(b)
    <3>0. PICK h : h = Home(b)
      OBVIOUS
    <3>1. h # b => h \in Pool \ bad /\ b \in bad
      <4>1. h # b => h \in Pool \ bad
        BY <1>1, <1>2, <3>0, HomeCases DEF Hosts, HomesAreGood
      <4>2. b \notin Forgotten
        BY <2>3, CutHost
      <4> QED BY <1>8, <2>1, <3>0, <4>1, <4>2 DEF Forgotten
    <3>2. h # b => page'[h][0].idx = b
      <4>1. ASSUME h # b, pc = "idle" PROVE FALSE
        <5>1. page' = page /\ Candidates = {}
          BY <1>1, <1>2, <1>8, <4>1 DEF CutFlash, Candidates
        <5>2. Pool \subseteq bad
          BY <1>1, <4>1, <5>1 DEF Tables, StoredIsCurrent
        <5> QED BY <3>1, <4>1, <5>2
      <4>2. ASSUME h # b, pc # "idle" PROVE page'[h][0].idx = b
        <5>1. page[h][0].idx = b
          BY <1>1, <1>2, <3>0, <4>2 DEF Hosts, HomesAreNamed
        <5>2. page'[h][0] = page[h][0]
          BY <1>1, <1>8, <2>1, <3>0 DEF CutFlash
        <5> QED BY <5>1, <5>2
      <4> QED BY <4>1, <4>2
    <3>3. b \in bad => \A x \in Pool \ bad : page'[x][0].idx = b => x = h
      BY <1>4, <1>5, <3>0 DEF Astray
    <3>4. FoundAt(b, h)'
      BY <1>2, <3>1, <3>2, <3>3 DEF FoundAt
    <3>5. Home(b)' = h
      BY <2>2, <3>4
    <3> QED BY <3>0, <3>5
  <2>4. NamesAreHomes'
    <3>1. ASSUME NEW x \in Pool \ bad', NEW b \in System, page'[x][0].idx = b
          PROVE  Home(b)' = x \/ Astray(b)'
      <4>1. CASE b \notin bad
        BY <1>2, <1>8, <4>1 DEF Astray
      <4>2. CASE b \in bad
        <5>1. Home(b) = x /\ x \in Pool \ bad
          BY <1>2, <1>4, <1>5, <3>1, <4>2 DEF Astray
        <5>2. \A y \in Pool \ bad : page'[y][0].idx = b => y = x
          BY <1>4, <1>5, <4>2, <5>1 DEF Astray
        <5>3. FoundAt(b, x)'
          BY <1>2, <3>1, <4>2, <5>1, <5>2 DEF FoundAt
        <5> QED BY <2>2, <5>3
      <4> QED BY <4>1, <4>2
    <3> QED BY <3>1, NamesByBlockNext
  <2> QED BY <2>3, <2>4
<1> QED BY <1>6, <1>7, <1>8

\* Nothing is lost with the power.
LEMMA PowerCutPower ==
  ASSUME Powered, PowerCut PROVE Hosts' /\ Tables'
<1>1. IInv /\ IInv' /\ Hosts /\ Tables /\ CutFlash /\ StoredShrinks
  BY CutFlashPower, CutNames DEF Powered
<1>2. /\ pc' = "off" /\ cur' = 0 /\ req' = NoReq /\ bmt_block_index' = 0
      /\ mapped_count' = 0 /\ UNCHANGED bad
      /\ \A b \in System : b = req.block /\ req # NoReq => next_page'[b] = PagePerBlock
      /\ \A b \in System : next_page'[b] \in {next_page[b], PagePerBlock}
      /\ \A b \in System \ void' :
           /\ b \notin void /\ ~(req.op = "erase" /\ b = req.block)
           /\ pc # "idle" => next_page[b] # 0 /\ Holds(b)
           /\ pc = "idle" => next_page'[b] = next_page[b]
  BY CutHost
<1>3. /\ \A b \in System \ void' : Home(b)' = Home(b)
      /\ NamesAreHomes'
  BY CutHomes
<1>4. HomesAreGood'
  BY <1>1, <1>2, <1>3 DEF Hosts, HomesAreGood
<1>5. ASSUME NEW b \in System \ void' PROVE page'[Home(b)][0] = page[Home(b)][0]
  <2>1. CASE InBoot
    BY <1>1, <2>1 DEF CutFlash
  <2>2. CASE ~InBoot
    BY <1>1, <2>2 DEF CutFlash, Home
  <2> QED BY <2>1, <2>2
<1>6. HomesAreNamed'
  <2> SUFFICES ASSUME NEW b \in System, Holds(b)', Home(b)' # b
               PROVE  page'[Home(b)'][0].idx = b
    BY DEF HomesAreNamed
  <2>1. b \notin void' /\ next_page'[b] # 0
    BY DEF Holds
  <2>2. Holds(b)
    BY <1>2, <2>1 DEF Holds
  <2>3. Home(b)' = Home(b) /\ page'[Home(b)][0] = page[Home(b)][0]
    BY <1>3, <1>5, <2>1
  <2> QED BY <1>1, <2>2, <2>3 DEF Hosts, HomesAreNamed
<1>7. RestIsBlank'
  <2> SUFFICES ASSUME NEW b \in System \ void', NEW p \in Pages, p >= next_page'[b]
               PROVE  page'[Home(b)'][p] = Blank
    BY DEF RestIsBlank
  <2>1. next_page'[b] # PagePerBlock
    BY PagesFew
  <2>2. b \notin void' /\ ~(b = req.block /\ req # NoReq) /\ next_page'[b] = next_page[b]
    BY <1>2, <2>1
  <2>3. Home(b)' = Home(b)
    BY <1>3, <2>2
  <2>4. page'[Home(b)][p] = page[Home(b)][p]
    <3>1. CASE InBoot
      BY <1>1, <3>1 DEF CutFlash
    <3>2. CASE ~InBoot
      BY <1>1, <2>2, <3>2 DEF CutFlash, Home
    <3> QED BY <3>1, <3>2
  <2> QED BY <1>1, <1>2, <2>2, <2>3, <2>4 DEF Hosts, RestIsBlank
<1>8. OneTable' /\ EntriesUnique'
  BY <1>1, <1>2, StoredKept DEF OneTable, EntriesUnique, OneEach
<1>9. TableHasBlock'
  <2>1. Pool \subseteq bad \/ \E y \in Pool \ bad : ~Named(y)
    <3>1. bmt_block_index \in {0} \cup Pool
      BY <1>1 DEF IInv, TypeOK
    <3> QED BY <1>1, <3>1 DEF Tables, TableHasBlock
  <2>2. \A y \in Pool : ~Named(y) => page'[y][0].idx \notin System
    <3> SUFFICES ASSUME NEW y \in Pool, page'[y][0].idx \in System PROVE Named(y)
      OBVIOUS
    <3> QED BY CutNames DEF Named
  <2>3. Pool \subseteq bad \/ \E y \in Pool \ bad : page'[y][0].idx \notin System
    BY <2>1, <2>2
  <2> QED BY <1>2, <2>3 DEF TableHasBlock, Named
<1>10. StoredIsCurrent' /\ TableGoesToErased' /\ CallsInv' /\ UpdatesVoid' /\ ScanKnown'
  BY <1>2 DEF StoredIsCurrent, TableGoesToErased, TableBlockErased, CallsInv, UpdatesVoid,
              ScanKnown, NoReq
<1> QED BY <1>3, <1>4, <1>6, <1>7, <1>8, <1>9, <1>10 DEF Hosts, Tables

\* What the host finds after a loss of power.
CutSeen ==
  /\ req' = NoReq /\ void \subseteq void'
  /\ void' \subseteq void \cup {b \in System : \A p \in Pages : Seen(b, p) = FF} \cup Loose
                    \cup IF req.op = "erase" THEN {req.block} ELSE {}
  /\ Kept
  /\ \A b \in System \ void' : \A p \in Pages :
       \/ Seen(b, p)' = Seen(b, p)
       \/ req.op = "write" /\ b = req.block /\ p = req.page /\ Seen(b, p)' = FF

\* Whatever was under way when the power went.
LEMMA CutSeenPower == ASSUME Powered, PowerCut PROVE CutSeen
<1>1. IInv /\ Hosts /\ Tables /\ CutFlash
  BY CutFlashPower DEF Powered
<1>2. req' = NoReq /\ void' = void \cup Unwritten \cup Forgotten /\ UNCHANGED bad
  BY CutHost
<1>3. \A b \in System \ void' : Home(b)' = Home(b)
  BY CutHomes
<1>4. Blank.data = FF /\ Junk.data = FF
  BY DEF Blank, Junk
<1>5. ASSUME NEW b \in Unwritten, b \notin void
      PROVE  \/ b \in System /\ \A p \in Pages : Seen(b, p) = FF
             \/ req.op = "erase" /\ b = req.block
  <2>1. (b \in System /\ next_page[b] = 0) \/ (req.op = "erase" /\ b = req.block)
    BY <1>5 DEF Unwritten
  <2>2. CASE b \in System /\ next_page[b] = 0
    <3>1. \A p \in Pages : p >= next_page[b]
      BY <2>2, PagesFew
    <3>2. \A p \in Pages : page[Home(b)][p] = Blank
      BY <1>1, <1>5, <2>2, <3>1 DEF Hosts, RestIsBlank
    <3> QED BY <1>4, <2>2, <3>2 DEF Seen, Read
  <2> QED BY <2>1, <2>2
<1>8. ASSUME NEW b \in Forgotten PROVE b \in Loose
  <2>1. b \in System /\ Map(b) # b /\ b \notin bad /\ Candidates' = {}
    BY <1>8 DEF Forgotten
  <2>2. CASE ~InBoot
    BY <2>1, <2>2 DEF Loose, Home
  <2>3. CASE InBoot
    <3>1. PICK i \in Live : table[i].bad_index = b
      BY <1>1, <2>1, MapCases
    <3>2. pc # "off"
      <4>1. pc = "off" => Live = {}
        BY <1>1, MapEmpty DEF Tables, CallsInv
      <4> QED BY <3>1, <4>1
    <3>3. pc # "scan"
      BY <1>1, <2>1, <3>1 DEF Tables, ScanKnown
    <3>4. Candidates # {} /\ page' = page
      BY <1>1, <2>3, <3>2, <3>3 DEF InBoot, Tables, OneTable, CutFlash
    <3>5. Candidates' = Candidates
      BY <1>2, <3>4 DEF Candidates
    <3> QED BY <2>1, <3>4, <3>5
  <2> QED BY <2>2, <2>3
<1>6. void' \subseteq void \cup {b \in System : \A p \in Pages : Seen(b, p) = FF} \cup Loose
                     \cup IF req.op = "erase" THEN {req.block} ELSE {}
  BY <1>2, <1>5, <1>8
<1>7. ASSUME NEW b \in System \ void', NEW p \in Pages
      PROVE  \/ Seen(b, p)' = Seen(b, p)
             \/ req.op = "write" /\ b = req.block /\ p = req.page /\ Seen(b, p)' = FF
  <2>1. \/ page'[Home(b)][p] = page[Home(b)][p]
        \/ /\ req.op = "write" /\ b = req.block /\ p = req.page
           /\ page'[Home(b)][p] = Junk
    <3>1. CASE InBoot
      BY <1>1, <3>1 DEF CutFlash
    <3>2. CASE ~InBoot
      BY <1>1, <3>2 DEF CutFlash, Home
    <3> QED BY <3>1, <3>2
  <2> QED BY <1>3, <1>4, <2>1 DEF Seen, Read
<1>9. Kept
  <2> SUFFICES ASSUME NEW b \in System \ void', NEW p \in Pages,
                      ~(req.op = "write" /\ b = req.block)
               PROVE  page'[Home(b)][p] = page[Home(b)][p]
    BY <1>3 DEF Kept
  <2>1. CASE InBoot
    BY <1>1, <2>1 DEF CutFlash
  <2>2. CASE ~InBoot
    BY <1>1, <2>2 DEF CutFlash, Home
  <2> QED BY <2>1, <2>2
<1> QED BY <1>2, <1>6, <1>7, <1>9 DEF CutSeen

-----------------------------------------------------------------------------
(* The steps as a whole, and the theorems.                                  *)

\* The calls of the host, as a whole.
LEMMA AskedPower ==
  ASSUME Powered, Ask
  PROVE  /\ Hosts' /\ Tables' /\ SameSeen /\ req = NoReq
         /\ \/ req' # NoReq /\ UNCHANGED void
            \/ req' = NoReq /\ \E b \in System : void' = void \cup {b}
<1>1. PICK b \in System : \/ \E d \in Data : HostWrite(b, d)
                          \/ HostErase(b) \/ HostIsBad(b) \/ HostMarkBad(b)
  BY DEF Ask
<1>2. CASE \E d \in Data : HostWrite(b, d)
  BY <1>2, HostWritePower, StaysSeen
<1>3. CASE HostErase(b)
  BY <1>3, HostErasePower, StaysSeen
<1>4. CASE HostIsBad(b)
  BY <1>4, HostIsBadPower, StaysSeen
<1>5. CASE HostMarkBad(b)
  BY <1>5, HostMarkBadPower
<1> QED BY <1>1, <1>2, <1>3, <1>4, <1>5

\* What the host sees of a step, with power failing.
Visible ==
  \/ SameSeen /\ UNCHANGED <<req, void>>
  \/ SameSeen /\ req = NoReq /\ req' # NoReq /\ UNCHANGED void
  \/ SeenSucceed
  \/ SameSeen /\ req = NoReq /\ req' = NoReq /\ \E b \in System : void' = void \cup {b}
  \/ CutSeen

\* Every step keeps the invariant and does what the store allows.
LEMMA PoweredStep == ASSUME Powered, [Next]_vars PROVE Hosts' /\ Tables' /\ Visible
<1>1. CASE Boot
  BY <1>1, BootPower, StaysSeen DEF Visible
<1>2. CASE Find
  BY <1>2, FindPower, StaysSeen DEF Visible
<1>3. CASE Commit
  BY <1>3, CommitPower DEF Visible
<1>4. CASE Serve
  BY <1>4, ServePower DEF Visible
<1>5. CASE Ask
  BY <1>5, AskedPower DEF Visible
<1>6. CASE PowerCut
  BY <1>6, PowerCutPower, CutSeenPower DEF Visible
<1>7. CASE UNCHANGED vars
  <2>1. /\ UNCHANGED <<page, bad, table, mapped_count, bmt_block_index, pool_erased, pc, reason>>
        /\ UNCHANGED <<error_block, map_index, req, next_page, void, cur>>
    BY <1>7 DEF vars, flash, bmt, locals, host
  <2>2. Hosts' /\ Tables' /\ Stays
    BY <2>1, PowerStill
  <2> QED BY <2>1, <2>2, StaysSeen DEF Visible
<1> QED BY <1>1, <1>2, <1>3, <1>4, <1>5, <1>6, <1>7, MovePower DEF Next, Work

\* A new chip satisfies the invariant, ...
LEMMA InitPower == Init => PowerInv
<1> SUFFICES ASSUME Init PROVE Hosts /\ Tables
  BY DEF PowerInv
<1>1. /\ pc = "off" /\ cur = 0 /\ req = NoReq /\ req.op = "none" /\ mapped_count = 0
      /\ bmt_block_index = 0 /\ void = System
      /\ \A b \in Blocks : \A p \in Pages : page[b][p] = Blank
      /\ \A b \in System : next_page[b] = PagePerBlock
  BY DEF Init, NoReq
<1>2. \A x \in Pool : page[x][0] = Blank
  BY <1>1, GeometryFacts, PoolApart
<1>3. Candidates = {} /\ \A x \in Pool : ~Named(x)
  BY <1>2, BlankUnnamed DEF Candidates, Named
<1>4. \A b \in System : Home(b) = b
  <2> SUFFICES ASSUME NEW b \in System PROVE BootMap(b) = b
    BY <1>1 DEF Home, InBoot
  <2>1. {x \in Pool \ bad : page[x][0].idx = b} = {}
    BY <1>3 DEF Named
  <2> QED BY <1>3, <2>1 DEF BootMap
<1>5. HomesAreGood /\ HomesAreNamed /\ NamesAreHomes
  BY <1>1, <1>3, <1>4 DEF HomesAreGood, HomesAreNamed, NamesAreHomes
<1>6. RestIsBlank
  BY <1>1, <1>4, PoolApart DEF RestIsBlank
<1>7. OneTable /\ EntriesUnique /\ StoredIsCurrent
  BY <1>1, <1>3 DEF OneTable, EntriesUnique, StoredIsCurrent
<1>8. TableHasBlock
  BY <1>1, <1>3 DEF TableHasBlock
<1>9. TableGoesToErased /\ CallsInv /\ UpdatesVoid /\ ScanKnown
  BY <1>1 DEF TableGoesToErased, TableBlockErased, CallsInv, UpdatesVoid, ScanKnown
<1> QED BY <1>5, <1>6, <1>7, <1>8, <1>9 DEF Hosts, Tables

\* ... and every step keeps it until a request is refused.
LEMMA PowerStep ==
  ASSUME Dependable, IInv, IInv', PowerInv, [Next]_vars
  PROVE  PowerInv'
<1>1. CASE worn
  BY <1>1, WornStays DEF PowerInv
<1>2. CASE worn'
  BY <1>2 DEF PowerInv
<1>3. CASE ~worn /\ ~worn'
  <2>1. Powered
    BY <1>3 DEF Powered, PowerInv
  <2> QED BY <2>1, PoweredStep DEF PowerInv
<1> QED BY <1>1, <1>2, <1>3

\* What the store holds is what the host reads, ...
LEMMA ContentSeen ==
  \A b \in System : Content[b] = [p \in Pages |-> Seen(b, p)]
BY DEF Content, Seen

\* ... also after a step.
LEMMA ContentSeenNext ==
  \A b \in System : Content'[b] = [p \in Pages |-> Seen(b, p)']
<1>1. (\A b \in System : Content[b] = [p \in Pages |-> Seen(b, p)])'
  BY ContentSeen, PTL
<1> QED BY <1>1

\* Only the block of the request gets stuck or loose.
LEMMA KeptKeeps ==
  ASSUME IInv, Tables, [Next]_vars, Kept
  PROVE  Store!Keeps(req)
<1>1. pc = "erase_bmt" => bmt_block_index \in Pool
  BY DEF Tables, CallsInv, IInv, TypeOK
<1>2. pc = "erase" => req # NoReq
  BY DEF Tables, CallsInv, NoReq
<1>3. \A b \in System : b \in bad /\ b \notin bad' => req # NoReq /\ b = req.block
  BY <1>1, <1>2, MarksStay
<1>4. ASSUME NEW b \in Stuck', b \notin Stuck, b \notin void'
      PROVE  b \in System /\ req.op = "write" /\ b = req.block
  <2>1. b \in System /\ Home(b)' # b /\ ~(\A p \in Pages : page'[Home(b)'][p] = Blank)
    BY <1>4 DEF Stuck, ErasedBlock
  <2>2. Home(b)' = Home(b)
    BY <1>4, <2>1 DEF Kept
  <2>3. \A p \in Pages : page[Home(b)][p] = Blank
    BY <1>4, <2>1, <2>2 DEF Stuck, ErasedBlock
  <2> QED BY <1>4, <2>1, <2>2, <2>3 DEF Kept
<1>5. ASSUME NEW b \in Loose', b \notin Loose, b \notin void'
      PROVE  b \in System /\ req # NoReq /\ b = req.block
  <2>1. b \in System /\ Home(b)' # b /\ b \notin bad'
    BY <1>5 DEF Loose
  <2>2. Home(b)' = Home(b)
    BY <1>5, <2>1 DEF Kept
  <2>3. b \in bad
    BY <1>5, <2>1, <2>2 DEF Loose
  <2> QED BY <1>3, <2>1, <2>3
<1>6. Store!NoReq = NoReq
  BY DEF Store!NoReq, NoReq
<1> QED BY <1>4, <1>5, <1>6 DEF Store!Keeps

\* Each step is one of the store.
LEMMA PowerStoreStep ==
  ASSUME Dependable, IInv, IInv', PowerInv, [Next]_vars
  PROVE  [Store!Next]_Store!vars
<1>0. Store!NoReq = NoReq
  BY DEF Store!NoReq, NoReq
<1>1. CASE worn
  BY <1>1, WornStays DEF Store!Next, Store!Worn
<1>2. CASE ~worn /\ worn'
  <2>1. Next
    BY <1>2 DEF vars, host
  <2>2. req # NoReq /\ req' = NoReq /\ void' = void /\ worn' = TRUE
    BY <1>2, <2>1, RefusedStep DEF IInv, TypeOK, Dependable
  <2> QED BY <1>0, <2>2 DEF Store!Next, Store!Refuse
<1>3. CASE ~worn /\ ~worn'
  <2>1. Visible /\ UNCHANGED worn
    BY <1>3, PoweredStep DEF Powered, PowerInv, IInv, TypeOK
  <2>2. \A b \in System : \A p \in Pages : Content[b][p] = Seen(b, p) /\ Content'[b][p] = Seen(b, p)'
    <3> SUFFICES ASSUME NEW b \in System, NEW p \in Pages
                 PROVE  Content[b][p] = Seen(b, p) /\ Content'[b][p] = Seen(b, p)'
      OBVIOUS
    <3>1. Content[b] = [q \in Pages |-> Read(page[Home(b)][q])]
      BY ContentSeen DEF Seen
    <3>2. Content'[b] = [q \in Pages |-> Read(page'[Home(b)'][q])]
      BY ContentSeenNext DEF Seen
    <3>3. Content[b][p] = Read(page[Home(b)][p]) /\ Content'[b][p] = Read(page'[Home(b)'][p])
      BY <3>1, <3>2
    <3> QED BY <3>3 DEF Seen
  <2>3. SameSeen => \A b \in System \ void' : /\ Content'[b] = Content[b]
                                              /\ \A p \in Pages : Content'[b][p] = Content[b][p]
    <3> SUFFICES ASSUME SameSeen, NEW b \in System \ void'
                 PROVE  /\ Content'[b] = Content[b]
                        /\ \A p \in Pages : Content'[b][p] = Content[b][p]
      OBVIOUS
    <3>1. \A p \in Pages : Seen(b, p)' = Seen(b, p)
      BY DEF SameSeen
    <3>2. [p \in Pages |-> Seen(b, p)'] = [p \in Pages |-> Seen(b, p)]
      BY <3>1
    <3>3. Content[b] = [p \in Pages |-> Seen(b, p)] /\ Content'[b] = [p \in Pages |-> Seen(b, p)']
      BY ContentSeen, ContentSeenNext
    <3> QED BY <3>2, <3>3
  <2>0. Kept => Store!Keeps(req)
    BY <1>3, KeptKeeps DEF PowerInv
  <2>4. SameSeen => Store!Bounded(req)
    BY <2>0, <2>3 DEF Store!Bounded, Store!Untouched, Store!During, SameSeen
  <2>5. CASE SameSeen /\ UNCHANGED <<req, void>>
    BY <2>1, <2>4, <2>5 DEF Store!Next, Store!Progress
  <2>6. CASE SameSeen /\ req = NoReq /\ req' # NoReq /\ UNCHANGED void
    BY <1>0, <2>1, <2>4, <2>6 DEF Store!Next, Store!Submit
  <2>7. CASE SeenSucceed
    <3>1. \A b \in System \ void' : \A p \in Pages :
            Content'[b][p] = IF b = req.block /\ req.op = "erase" THEN FF
                             ELSE IF b = req.block /\ req.op = "write" /\ p = req.page
                             THEN req.data ELSE Content[b][p]
      <4>1. \A b \in System \ void' : \A p \in Pages :
              Seen(b, p)' = IF b = req.block /\ req.op = "erase" THEN FF
                            ELSE IF b = req.block /\ req.op = "write" /\ p = req.page
                            THEN req.data ELSE Seen(b, p)
        BY <2>7 DEF SeenSucceed
      <4> QED BY <2>2, <4>1 DEF Seen
    <3>2. Store!Keeps(req)
      BY <2>0, <2>7 DEF SeenSucceed
    <3> QED BY <1>0, <2>1, <2>7, <3>1, <3>2 DEF SeenSucceed, Store!Next, Store!Succeed
  <2>8. CASE SameSeen /\ req = NoReq /\ req' = NoReq /\ \E b \in System : void' = void \cup {b}
    <3>1. \A b \in System \ void' : Content'[b] = Content[b]
      BY <2>3, <2>8
    <3>2. Store!Keeps(req)
      BY <2>0, <2>8 DEF SameSeen
    <3> QED BY <1>0, <2>1, <2>8, <3>1, <3>2 DEF Store!Next, Store!GiveUp
  <2>9. CASE CutSeen
    <3>1. {b \in System : \A p \in Pages : Seen(b, p) = FF} \subseteq Store!Unwritten
      <4> SUFFICES ASSUME NEW b \in System, \A p \in Pages : Seen(b, p) = FF
                   PROVE  b \in Store!Unwritten
        OBVIOUS
      <4>1. \A p \in Pages : Content[b][p] = FF
        BY <2>2
      <4> QED BY <4>1 DEF Store!Unwritten
    <3>2. ASSUME NEW b \in Store!Untouched(req), NEW p \in Pages
          PROVE  Content'[b][p] \in Store!During(req, b, p)
      <4>1. b \in System \ void'
        BY <3>2 DEF Store!Untouched
      <4>2. \/ Seen(b, p)' = Seen(b, p)
            \/ req.op = "write" /\ b = req.block /\ p = req.page /\ Seen(b, p)' = FF
        BY <2>9, <4>1 DEF CutSeen
      <4>3. Content[b][p] = Seen(b, p) /\ Content'[b][p] = Seen(b, p)'
        BY <2>2, <4>1
      <4>4. \/ Content'[b][p] = Content[b][p]
            \/ req.op = "write" /\ b = req.block /\ p = req.page /\ Content'[b][p] = FF
        BY <4>2, <4>3 DEF Seen
      <4> QED BY <4>4 DEF Store!During
    <3>3. Store!Bounded(req)
      BY <2>0, <2>9, <3>2 DEF Store!Bounded, CutSeen
    <3>4. /\ req' = NoReq /\ void \subseteq void'
          /\ void' \subseteq void \cup Store!Unwritten \cup Loose
                        \cup IF req.op = "erase" THEN {req.block} ELSE {}
      BY <2>9, <3>1 DEF CutSeen
    <3> QED BY <1>0, <2>1, <3>3, <3>4 DEF Store!Next, Store!PowerCut
  <2> QED BY <2>1, <2>5, <2>6, <2>7, <2>8, <2>9 DEF Visible
<1> QED BY <1>1, <1>2, <1>3

\* The NAND stack also implements the store when power fails at any point and any
\* number of times and programs and erases succeed, for every geometry: a block that
\* is bad from the start, or that the host gives up, is mapped anew, and wherever the
\* update of the table is cut the next boot finds every block of the host again, by
\* the stored table or by the names in the spare areas.  No acknowledged page is lost
\* or reads as an older value, but for the two things the store leaves out: what an
\* erase does to a block that lies in the pool, and a block in the pool whose own
\* place is not marked bad when no table is found.
THEOREM PowerLossLosesNothing == ASSUME Dependable PROVE Spec => StoreSpec
<1>1. Init => PowerInv /\ Store!Init
  BY InitInv, InitPower, StoreInit
<1>2. IInv /\ PowerInv /\ IInv' /\ [Next]_vars => PowerInv'
  BY PowerStep
<1>3. IInv /\ PowerInv /\ IInv' /\ [Next]_vars => [Store!Next]_Store!vars
  BY PowerStoreStep
<1>4. Spec => []IInv
  BY Inductive
<1> QED BY <1>1, <1>2, <1>3, <1>4, PTL DEF Spec, StoreSpec, Store!Spec

\* The invariant holds, wherever power fails.
LEMMA PowerHolds == ASSUME Dependable PROVE Spec => []PowerInv
<1>1. Init => PowerInv
  BY InitPower
<1>2. IInv /\ IInv' /\ PowerInv /\ [Next]_vars => PowerInv'
  BY PowerStep
<1> QED BY <1>1, <1>2, Inductive, PTL DEF Spec

\* Then the block of the table is a good one whenever a call has returned: the mark
\* update_bmt sets never hits it, and the erase that clears one never needs to.
THEOREM TableBlockStaysGood == ASSUME Dependable PROVE Spec => [](worn \/ BmtBlockGood)
<1>1. PowerInv => worn \/ BmtBlockGood
  BY DEF PowerInv, Tables, TableHasBlock, BmtBlockGood
<1> QED BY <1>1, PowerHolds, PTL

\* And every program command, of the table or of a page of a block whose erase took
\* effect, hits an erased page: "we don't need to erase found block as it has been
\* erased".
THEOREM AllProgramsHitErasedPages ==
  ASSUME Dependable PROVE Spec => [](worn \/ ProgramsErasedPage)
<1>1. IInv /\ PowerInv => worn \/ ProgramsErasedPage
  <2> SUFFICES ASSUME IInv, Hosts, Tables PROVE ProgramsErasedPage
    BY DEF PowerInv
  <2>1. HostPageErased
    <3> SUFFICES ASSUME pc = "program", req.block \notin void
                 PROVE  page[Map(req.block)][req.page] = Blank
      BY DEF HostPageErased
    <3>1. next_page[req.block] = req.page /\ req.block \in System /\ req.page \in Pages
      BY DEF Tables, CallsInv, IInv, RequestInv, TypeOK
    <3>2. req.page >= next_page[req.block] /\ Home(req.block) = Map(req.block)
      BY <3>1, PagesFew DEF Home, InBoot
    <3>3. page[Home(req.block)][req.page] = Blank
      BY <3>1, <3>2 DEF Hosts, RestIsBlank
    <3> QED BY <3>2, <3>3
  <2>2. CopyPageErased
    BY DEF CopyPageErased, Tables, CallsInv
  <2>3. TableBlockErased
    BY DEF Tables, TableGoesToErased
  <2> QED BY <2>1, <2>2, <2>3 DEF ProgramsErasedPage
<1> QED BY <1>1, Inductive, PowerHolds, PTL

\* After a reconstruction too a bad block has one entry in the table, as long as no
\* command fails: it is an interrupted migration that leaves two blocks of one name.
THEOREM ReconstructedEntriesAreUnique ==
  ASSUME Dependable PROVE Spec => [](worn \/ pc = "off" \/ OneEntryPerBadBlock)
<1>1. PowerInv => worn \/ pc = "off" \/ OneEntryPerBadBlock
  BY DEF PowerInv, Tables, EntriesUnique
<1> QED BY <1>1, PowerHolds, PTL
=============================================================================
