---------------------------- MODULE StorageProofs ----------------------------
(***************************************************************************)
(* The partition table in the NAND flash is the newest one and is stored   *)
(* as often as the failures allow, for blocks of any size and any tables   *)
(* (module Pmt); and what the proofs of the drivers of the card and of the *)
(* SPI flash show of each holds of the program of which they are parts     *)
(* (module MCStorage).                                                     *)
(***************************************************************************)
EXTENDS MCStorage, CardProofs, NorProofs, WellFoundedInduction

SearchAt == {"main", "mirror", "copy", "construct"}
PairAts  == {"pair", "check", "reread"}
BeforeAt == SearchAt \cup {"empty", "found", "erase"} \cup PairAts
StoreAt  == {"write", "unwrite", "verify", "mark"}
NewAt    == {"empty", "found", "erase"} \cup PairAts \cup StoreAt

Good == Page("PT", Compiled)

PmtTypes ==
  /\ PmtTypeOK
  /\ page_buf \in Stored /\ pm_kept \in TwoBlocks
  /\ pm_seen \in BOOLEAN /\ pm_mark \in BOOLEAN /\ pm_faults \in 0 .. PmtFaults

\* How far the loops have come.
LoopsKnown ==
  /\ pm_pc \in {"main", "empty", "found"} \cup PairAts => pm_at >= 0
  /\ pm_pc \in {"mirror", "copy"} => pm_at <= P - 1
  /\ pm_pc = "copy" => pm_at >= 0
  /\ pm_pc \in PairAts => pm_at % 2 = 0 /\ pm_w <= 2
  /\ pm_pc \in {"check", "reread"} => pm_w < 2
  /\ pm_pc \in BeforeAt => pm_r = 0 /\ pm_base = -1
  /\ pm_pc \in BeforeAt \ PairAts => pm_w = 0
  /\ pm_pc \in StoreAt => pm_r < RETRY_TIMES
  /\ pm_pc \in StoreAt \ {"write"} => pm_w < RETRY_TIMES

NoMainCopy == \A k \in Pages : ~Valid(pm_kept["main"][k], "PT")

\* What a start has found, if its reads returned what was stored.
FoundKnown ==
  /\ pm_pc \in SearchAt => pm_flash = pm_kept
  /\ pm_pc = "main" /\ pm_seen => \A k \in Pages : k < pm_at => ~Valid(pm_kept["main"][k], "PT")
  /\ pm_pc \in {"mirror", "copy"} /\ pm_seen =>
       NoMainCopy /\ \A j \in Pages : j > pm_at => ~Valid(pm_kept["mirror"][j], "MPT")
  /\ pm_pc = "copy" /\ pm_seen => Valid(pm_kept["mirror"][pm_at], "MPT")
  /\ pm_pc = "construct" /\ pm_seen => lastest_part = Newest(pm_kept)
  /\ pm_pc \in NewAt => lastest_part = Compiled /\ pm_parts = Parts(Compiled)
  /\ pm_pc \in NewAt /\ pm_seen => Copies(pm_kept) = {}
  /\ pm_pc = "ready" /\ pm_seen => pm_parts = Parts(Newest(pm_kept))

\* What the main block holds while the table is stored in it: nothing from the
\* page at hand on, no copy that failed, and a failure for each try.
StoreKnown ==
  /\ pm_pc \in StoreAt =>
       /\ pm_base >= 0
       /\ pm_faults - pm_base >= pm_r + pm_w
       /\ \A k \in Pages : k > Row => pm_flash["main"][k] = Empty
       /\ pm_mark => \A k \in Pages : k # Row /\ Valid(pm_flash["main"][k], "PT") =>
                                        pm_flash["main"][k].tab = Compiled
  /\ pm_pc = "write" /\ Row \in Pages => pm_flash["main"][Row] = Empty
  /\ pm_pc = "unwrite" /\ Row \in Pages => ~Valid(pm_flash["main"][Row], "PT")
  /\ pm_pc \in {"unwrite", "mark"} => pm_faults - pm_base > pm_r + pm_w
  /\ pm_pc = "verify" /\ pm_flash["main"][Row] # Good => pm_faults - pm_base > pm_r + pm_w
  /\ pm_pc = "ready" => StoredUnlessTried /\ NoHalfCopy

PmtInv == PmtTypes /\ LoopsKnown /\ FoundKnown /\ StoreKnown
-----------------------------------------------------------------------------
LEMMA LeastExists ==
  ASSUME NEW S, S \subseteq Nat, S # {}
  PROVE  Min(S) \in S /\ \A y \in S : Min(S) <= y
<1>1. PICK x \in S : \A y \in S : ~(<<y, x>> \in OpToRel(<, Nat))
  BY NatLessThanWellFounded, WFMin
<1>2. \A y \in S : x <= y
  <2> SUFFICES ASSUME NEW y \in S
               PROVE  x <= y
    OBVIOUS
  <2>1. x \in Nat /\ y \in Nat
    OBVIOUS
  <2>2. ~(y < x)
    BY <1>1, <2>1 DEF OpToRel
  <2> QED BY <2>1, <2>2
<1> QED BY <1>2 DEF Min

\* construct_mtd_partition makes no partition of size 0.
LEMMA PartsPositive ==
  ASSUME NEW tab \in Seq(Nat \X Nat)
  PROVE  \A i \in DOMAIN Parts(tab) : Parts(tab)[i][2] > 0
<1> DEFINE I == {i \in 1 .. Len(tab) : tab[i][2] = 0}
           end == SelectInSeq(tab, LAMBDA e : e[2] = 0)
<1>1. end = IF I # {} THEN Min(I) ELSE 0
  BY DEF SelectInSeq
<1>2. I \subseteq Nat
  OBVIOUS
<1>3. Len(tab) \in Nat /\ DOMAIN tab = 1 .. Len(tab) /\ \A i \in 1 .. Len(tab) : tab[i][2] \in Nat
  OBVIOUS
<1>4. CASE I = {}
  <2>1. Parts(tab) = tab
    BY <1>1, <1>4 DEF Parts
  <2>2. \A i \in 1 .. Len(tab) : tab[i][2] # 0
    BY <1>4
  <2>3. \A i \in 1 .. Len(tab) : tab[i][2] > 0
    BY <1>3, <2>2
  <2> QED BY <1>3, <2>1, <2>3
<1>5. CASE I # {}
  <2>1. end \in I /\ \A y \in I : end <= y
    BY <1>1, <1>2, <1>5, LeastExists
  <2>2. end \in 1 .. Len(tab)
    BY <2>1
  <2>3. Parts(tab) = SubSeq(tab, 1, end - 1)
    BY <2>2 DEF Parts
  <2> HIDE DEF end
  <2>4. ASSUME NEW i \in 1 .. end - 1 PROVE i \in 1 .. Len(tab) /\ i \notin I
    <3> HIDE DEF I
    <3>1. end \in Nat /\ end <= Len(tab) /\ i < end
      BY <1>3, <2>2
    <3>2. i \in 1 .. Len(tab)
      BY <1>3, <3>1
    <3>3. i \notin I
      BY <2>1, <3>1
    <3> QED BY <3>2, <3>3
  <2>5. \A i \in 1 .. end - 1 : tab[i][2] > 0
    BY <1>3, <2>4
  <2>6. DOMAIN SubSeq(tab, 1, end - 1) = 1 .. end - 1
        /\ \A i \in 1 .. end - 1 : SubSeq(tab, 1, end - 1)[i] = tab[i]
    <3>1. tab \in Seq(Nat \X Nat) /\ 1 <= end /\ end - 1 <= Len(tab) /\ end \in Int /\ Len(tab) \in Nat
      BY <1>3, <2>2
    <3> HIDE DEF I
    <3> QED BY <3>1
  <2> QED BY <2>3, <2>5, <2>6
<1> QED BY <1>4, <1>5

\* The first copy of the main block goes before all others, ...
LEMMA NewestInMain ==
  ASSUME NEW flash \in TwoBlocks, NEW k \in Pages, Valid(flash["main"][k], "PT"),
         \A j \in Pages : j < k => ~Valid(flash["main"][j], "PT")
  PROVE  Newest(flash) = flash["main"][k].tab
<1>1. P \in Nat /\ k \in Nat /\ k < P
  BY PmtSizes DEF Pages
<1>2. k \in Copies(flash)
  BY DEF Copies
<1>3. \A y \in Copies(flash) : k <= y
  BY <1>1 DEF Copies, Pages
<1>4. \A x \in Copies(flash) : x \in Nat
  BY <1>1 DEF Copies, Pages
<1>5. Min(Copies(flash)) = k
  <2>1. \A x \in Copies(flash) : (\A y \in Copies(flash) : x <= y) => x = k
    <3> SUFFICES ASSUME NEW x \in Copies(flash), \A y \in Copies(flash) : x <= y
                 PROVE  x = k
      OBVIOUS
    <3>1. x \in Nat /\ x <= k /\ k <= x
      BY <1>2, <1>3, <1>4
    <3> QED BY <1>1, <3>1
  <2> QED BY <1>2, <1>3, <2>1, Zenon DEF Min
<1> QED BY <1>1, <1>2, <1>5 DEF Newest

\* ... the last of the mirror is next, ...
LEMMA NewestInMirror ==
  ASSUME NEW flash \in TwoBlocks, NEW k \in Pages, Valid(flash["mirror"][k], "MPT"),
         \A j \in Pages : j > k => ~Valid(flash["mirror"][j], "MPT"),
         \A j \in Pages : ~Valid(flash["main"][j], "PT")
  PROVE  Newest(flash) = flash["mirror"][k].tab
<1>1. P \in Nat /\ k \in Nat /\ k < P
  BY PmtSizes DEF Pages
<1>2. P + k \in Copies(flash)
  BY DEF Copies
<1>3. \A y \in Copies(flash) : y \in Nat /\ P <= y /\ y <= P + k
  BY <1>1 DEF Copies, Pages
<1>4. Max(Copies(flash)) = P + k
  <2>1. \A x : x \in Copies(flash) /\ (\A y \in Copies(flash) : x >= y) <=> x = P + k
    BY <1>1, <1>2, <1>3
  <2> QED BY <2>1, Zenon DEF Max
<1>5. (P + k) - P = k
  BY <1>1
<1>6. Copies(flash) # {} /\ ~(\E y \in Copies(flash) : y < P)
  BY <1>1, <1>2, <1>3
<1> QED BY <1>4, <1>5, <1>6 DEF Newest

\* ... and without any the table is the one compiled in.
LEMMA NoCopies ==
  ASSUME NEW flash \in TwoBlocks,
         \A j \in Pages : ~Valid(flash["main"][j], "PT") /\ ~Valid(flash["mirror"][j], "MPT")
  PROVE  Copies(flash) = {} /\ Newest(flash) = Compiled
BY DEF Copies, Newest

LEMMA PageKinds ==
  /\ Empty \in Stored /\ Junk \in Stored /\ Good \in Stored
  /\ ~Valid(Empty, "PT") /\ ~Valid(Junk, "PT") /\ Valid(Good, "PT") /\ Good.tab = Compiled
BY DEF Empty, Junk, Good, Page, Stored, Ruined, Valid

LEMMA DamagedKinds ==
  ASSUME NEW page \in Stored, NEW bad \in Damaged(page)
  PROVE  bad \in Stored /\ (Valid(bad, "PT") => Valid(page, "PT"))
<1>1. bad = Empty \/ bad = Junk \/ bad = [page EXCEPT !.tab = Ruined]
  BY DEF Damaged
<1>2. CASE bad = [page EXCEPT !.tab = Ruined]
  BY <1>2 DEF Stored, Valid
<1> QED BY <1>1, <1>2, PageKinds

LEMMA ReadStep ==
  ASSUME NEW b \in {"main", "mirror"}, NEW k \in Pages, NEW ok \in BOOLEAN, Read(b, k, ok), PmtTypes
  PROVE  /\ page_buf' \in Stored /\ pm_seen' \in BOOLEAN /\ pm_faults' \in 0 .. PmtFaults
         /\ ok \/ pm_seen' => page_buf' = pm_flash[b][k]
         /\ ok => pm_faults' = pm_faults
         /\ pm_seen' => pm_seen
         /\ ~ok => pm_faults' = pm_faults + 1
         /\ pm_faults <= pm_faults'
<1>1. pm_flash[b][k] \in Stored /\ pm_seen \in BOOLEAN /\ pm_faults \in 0 .. PmtFaults /\ PmtFaults \in Nat
  BY PmtSizes DEF PmtTypes, PmtTypeOK, TwoBlocks
<1>2. CASE ok = TRUE /\ page_buf' = pm_flash[b][k] /\ UNCHANGED <<pm_faults, pm_seen>>
  BY <1>1, <1>2
<1>3. CASE /\ pm_faults < PmtFaults /\ pm_faults' = pm_faults + 1
           /\ ok = FALSE /\ pm_seen' = FALSE
           /\ page_buf' \in Damaged(pm_flash[b][k])
  <2>1. page_buf' \in Stored
    BY <1>1, <1>3, DamagedKinds
  <2>2. ~ok /\ ~pm_seen' /\ pm_seen' \in BOOLEAN
    BY <1>3
  <2>3. pm_faults' = pm_faults + 1 /\ pm_faults' \in 0 .. PmtFaults /\ pm_faults <= pm_faults'
    BY <1>1, <1>3
  <2> QED BY <2>1, <2>2, <2>3
<1> QED BY <1>2, <1>3 DEF Read

\* What a write leaves in the page, and what it costs.
LEMMA WriteStep ==
  ASSUME NEW b \in {"main", "mirror"}, NEW k \in Pages, NEW ok \in BOOLEAN, NEW page \in Stored,
         Write(b, k, page, ok), PmtTypes
  PROVE  /\ pm_flash' \in TwoBlocks /\ pm_faults' \in 0 .. PmtFaults /\ pm_faults <= pm_faults'
         /\ \A j \in Pages : j # k => pm_flash'[b][j] = pm_flash[b][j]
         /\ ~ok => pm_faults' = pm_faults + 1 /\ pm_flash'[b][k] \in {pm_flash[b][k], Junk}
         /\ pm_faults' = pm_faults => ok /\ pm_flash'[b][k] = Over(pm_flash[b][k], page)
         /\ pm_faults' # pm_faults => pm_faults' = pm_faults + 1
         /\ Valid(pm_flash'[b][k], "PT") => (Valid(pm_flash[b][k], "PT") /\ ~ok) \/ Valid(page, "PT")
<1>1. pm_flash[b][k] \in Stored /\ pm_faults \in 0 .. PmtFaults /\ PmtFaults \in Nat /\ pm_flash \in TwoBlocks
  BY PmtSizes DEF PmtTypes, PmtTypeOK, TwoBlocks
<1>2. PICK new \in Stored : pm_flash' = [pm_flash EXCEPT ![b][k] = new]
                            /\ \/ ok = TRUE /\ new = Over(pm_flash[b][k], page) /\ UNCHANGED pm_faults
                               \/ /\ pm_faults < PmtFaults /\ pm_faults' = pm_faults + 1
                                  /\ \/ ok = TRUE /\ \E bad \in Damaged(page) : new = Over(pm_flash[b][k], bad)
                                     \/ ok = FALSE /\ new \in {pm_flash[b][k], Junk}
  <2>1. CASE /\ ok = TRUE /\ pm_flash' = [pm_flash EXCEPT ![b][k] = Over(@, page)]
             /\ UNCHANGED pm_faults
    <3>1. Over(pm_flash[b][k], page) \in Stored
      BY PageKinds DEF Over
    <3> QED BY <1>1, <2>1, <3>1
  <2>2. CASE /\ pm_faults < PmtFaults /\ pm_faults' = pm_faults + 1 /\ ok = TRUE
             /\ \E bad \in Damaged(page) : pm_flash' = [pm_flash EXCEPT ![b][k] = Over(@, bad)]
    <3>1. PICK bad \in Damaged(page) : pm_flash' = [pm_flash EXCEPT ![b][k] = Over(@, bad)]
      BY <2>2
    <3>2. Over(pm_flash[b][k], bad) \in Stored
      BY PageKinds, DamagedKinds DEF Over
    <3> QED BY <1>1, <2>2, <3>1, <3>2
  <2>3. CASE /\ pm_faults < PmtFaults /\ pm_faults' = pm_faults + 1 /\ ok = FALSE
             /\ pm_flash' = [pm_flash EXCEPT ![b][k] = Over(@, Junk)]
    <3>1. Over(pm_flash[b][k], Junk) = Junk
      BY DEF Over
    <3> QED BY <1>1, <2>3, <3>1, PageKinds
  <2>4. CASE /\ pm_faults < PmtFaults /\ pm_faults' = pm_faults + 1 /\ ok = FALSE
             /\ UNCHANGED pm_flash
    <3>1. pm_flash = [pm_flash EXCEPT ![b][k] = pm_flash[b][k]]
      BY <1>1 DEF TwoBlocks
    <3> QED BY <1>1, <2>4, <3>1
  <2> QED BY <2>1, <2>2, <2>3, <2>4 DEF Write
<1>3. pm_flash' \in TwoBlocks
  BY <1>1, <1>2 DEF TwoBlocks
<1>4. pm_flash'[b][k] = new /\ \A j \in Pages : j # k => pm_flash'[b][j] = pm_flash[b][j]
  BY <1>1, <1>2 DEF TwoBlocks
<1>5. Valid(new, "PT") => (Valid(pm_flash[b][k], "PT") /\ ~ok) \/ Valid(page, "PT")
  <2>1. CASE ok = TRUE /\ new = Over(pm_flash[b][k], page)
    BY <2>1, PageKinds DEF Over
  <2>2. CASE ok = TRUE /\ \E bad \in Damaged(page) : new = Over(pm_flash[b][k], bad)
    BY <2>2, PageKinds, DamagedKinds DEF Over
  <2>3. CASE ok = FALSE /\ new \in {pm_flash[b][k], Junk}
    BY <2>3, PageKinds
  <2> QED BY <1>2, <2>1, <2>2, <2>3
<1> QED BY <1>1, <1>2, <1>3, <1>4, <1>5
-----------------------------------------------------------------------------
LEMMA PmtBegins == PmtInit => PmtInv
<1> SUFFICES ASSUME PmtInit
             PROVE  PmtInv
  OBVIOUS
<1>1. pm_flash \in TwoBlocks /\ pm_kept = pm_flash
  BY PmtSizes DEF PmtInit
<1>2. PmtTypeOK
  BY <1>1, PmtSizes DEF PmtInit, PmtTypeOK, Ruined
<1>3. PmtTypes
  BY <1>1, <1>2, PmtSizes, PageKinds DEF PmtInit, PmtTypes
<1>4. LoopsKnown /\ FoundKnown /\ StoreKnown
  BY DEF PmtInit, LoopsKnown, FoundKnown, StoreKnown, SearchAt, PairAts, BeforeAt, StoreAt, NewAt
<1> QED BY <1>3, <1>4 DEF PmtInv

\* A step that leaves the flash and the figures of a store alone.
LEMMA SearchStep ==
  ASSUME PmtInv, UNCHANGED <<pm_flash, pm_kept, pm_r, pm_w, pm_base, pm_mark, pm_full>>,
         pm_pc' \in {"main", "mirror", "copy", "construct", "empty", "found", "pair", "reread", "erase", "ready"},
         page_buf' \in Stored, pm_seen' \in BOOLEAN, pm_faults' \in 0 .. PmtFaults,
         pm_at' \in -1 .. P, lastest_part' \in Tables \cup {Compiled, Ruined},
         \A i \in DOMAIN pm_parts' : pm_parts'[i][2] > 0,
         pm_pc' = "ready" => pm_base = -1,
         LoopsKnown', FoundKnown'
  PROVE  PmtInv'
<1>1. PmtTypeOK'
  BY DEF PmtInv, PmtTypes, PmtTypeOK
<1>2. PmtTypes'
  BY <1>1 DEF PmtInv, PmtTypes
<1>3. pm_pc' = "ready" => ~(pm_base' >= 0)
  BY DEF PmtInv
<1>4. StoreKnown'
  BY <1>3 DEF StoreKnown, StoreAt, StoredUnlessTried, NoHalfCopy
<1> QED BY <1>2, <1>4 DEF PmtInv

LEMMA StartStep == ASSUME PmtInv, StartPmt PROVE PmtInv'
<1>1. /\ pm_pc' = "main" /\ pm_at' = 0 /\ pm_r' = 0 /\ pm_w' = 0 /\ page_buf' = Junk
      /\ lastest_part' = <<>> /\ pm_parts' = <<>> /\ pm_kept' = pm_flash /\ pm_seen' = TRUE
      /\ pm_base' = -1 /\ pm_mark' = TRUE /\ UNCHANGED <<pm_flash, pm_faults>>
  BY DEF StartPmt, Goto
<1>2. PmtTypeOK'
  BY <1>1, PmtSizes DEF PmtInv, PmtTypes, PmtTypeOK, Ruined
<1>3. PmtTypes'
  BY <1>1, <1>2, PageKinds DEF PmtInv, PmtTypes, PmtTypeOK
<1>4. LoopsKnown'
  BY <1>1 DEF LoopsKnown, SearchAt, PairAts, BeforeAt, StoreAt
<1>5. FoundKnown'
  BY <1>1 DEF FoundKnown, SearchAt, PairAts, StoreAt, NewAt, Pages
<1>6. StoreKnown'
  BY <1>1 DEF StoreKnown, StoreAt
<1> QED BY <1>3, <1>4, <1>5, <1>6 DEF PmtInv

LEMMA LoadMainStep == ASSUME PmtInv, LoadMain PROVE PmtInv'
<1>1. /\ pm_pc = "main" /\ pm_at < P /\ pm_at \in Pages
      /\ UNCHANGED <<pm_flash, pm_parts, pm_full, pm_kept, pm_cuts, pm_r, pm_w, pm_base, pm_mark>>
  BY PmtSizes DEF LoadMain, StartVars, RetryVars, PmtInv, PmtTypes, PmtTypeOK, LoopsKnown, Pages
<1>2. PICK ok \in BOOLEAN : Read("main", pm_at, ok)
  BY DEF LoadMain
<1>3. /\ page_buf' \in Stored /\ pm_seen' \in BOOLEAN /\ pm_faults' \in 0 .. PmtFaults
      /\ (pm_seen' => pm_seen /\ page_buf' = pm_flash["main"][pm_at])
  BY <1>1, <1>2, ReadStep DEF PmtInv
<1>4. /\ pm_flash = pm_kept /\ pm_kept \in TwoBlocks /\ pm_r = 0 /\ pm_w = 0 /\ pm_base = -1
      /\ (pm_seen => \A k \in Pages : k < pm_at => ~Valid(pm_kept["main"][k], "PT"))
  BY <1>1 DEF PmtInv, PmtTypes, LoopsKnown, FoundKnown, SearchAt, BeforeAt, PairAts
<1>5. CASE Valid(page_buf', "PT")
  <2>1. lastest_part' = page_buf'.tab /\ pm_pc' = "construct" /\ pm_at' = pm_at
    BY <1>5 DEF LoadMain, Goto
  <2>2. lastest_part' \in Tables \cup {Compiled, Ruined}
    BY <1>3, <2>1 DEF Stored
  <2>3. LoopsKnown'
    BY <1>1, <1>4, <2>1 DEF LoopsKnown, SearchAt, BeforeAt, PairAts, StoreAt
  <2>4. pm_seen' => lastest_part' = Newest(pm_kept)
    BY <1>1, <1>3, <1>4, <1>5, <2>1, NewestInMain
  <2>5. FoundKnown'
    BY <1>1, <1>4, <2>1, <2>4 DEF FoundKnown, SearchAt, NewAt, PairAts, StoreAt
  <2> QED BY <1>1, <1>3, <2>1, <2>2, <2>3, <2>5, SearchStep DEF PmtInv, PmtTypes, PmtTypeOK
<1>6. CASE ~Valid(page_buf', "PT")
  <2>1. pm_at' = pm_at + 1 /\ pm_pc' = "main" /\ lastest_part' = lastest_part
    BY <1>1, <1>6 DEF LoadMain, Goto
  <2>2. pm_at' \in 0 .. P
    BY <1>1, <2>1, PmtSizes DEF Pages
  <2>3. LoopsKnown'
    BY <1>1, <1>4, <2>1, <2>2 DEF LoopsKnown, SearchAt, BeforeAt, PairAts, StoreAt
  <2>4. pm_seen' => \A k \in Pages : k < pm_at' => ~Valid(pm_kept["main"][k], "PT")
    <3> SUFFICES ASSUME pm_seen', NEW k \in Pages, k < pm_at'
                 PROVE  ~Valid(pm_kept["main"][k], "PT")
      OBVIOUS
    <3>1. k < pm_at \/ k = pm_at
      BY <1>1, <2>1, PmtSizes DEF Pages
    <3> QED BY <1>3, <1>4, <1>6, <3>1
  <2>5. FoundKnown'
    BY <1>1, <1>4, <2>1, <2>4 DEF FoundKnown, SearchAt, NewAt, PairAts, StoreAt
  <2>6. pm_at' \in -1 .. P
    BY <2>2
  <2> QED BY <1>1, <1>3, <2>1, <2>6, <2>3, <2>5, SearchStep DEF PmtInv, PmtTypes, PmtTypeOK
<1> QED BY <1>5, <1>6

LEMMA NoMainStep == ASSUME PmtInv, NoMain PROVE PmtInv'
<1>1. /\ pm_pc = "main" /\ pm_at = P /\ pm_pc' = "mirror" /\ pm_at' = P - 1
      /\ UNCHANGED <<pm_flash, page_buf, lastest_part, pm_parts, pm_full, pm_kept, pm_cuts, pm_r, pm_w,
                     pm_base, pm_mark, pm_seen, pm_faults>>
  BY DEF NoMain, StartVars, RetryVars, Goto
<1>2. /\ pm_flash = pm_kept /\ pm_r = 0 /\ pm_w = 0 /\ pm_base = -1
      /\ (pm_seen => \A k \in Pages : k < P => ~Valid(pm_kept["main"][k], "PT"))
  BY <1>1 DEF PmtInv, PmtTypes, LoopsKnown, FoundKnown, SearchAt, BeforeAt, PairAts
<1>3. \A k \in Pages : k < P /\ ~(k > P - 1)
  BY PmtSizes DEF Pages
<1>4. pm_at' \in -1 .. P /\ pm_at' <= P - 1
  BY <1>1, PmtSizes
<1>5. LoopsKnown'
  BY <1>1, <1>2, <1>4 DEF LoopsKnown, SearchAt, BeforeAt, PairAts, StoreAt
<1>6. pm_seen => NoMainCopy
  BY <1>2, <1>3 DEF NoMainCopy
<1>7. FoundKnown'
  <2>1. pm_seen' => NoMainCopy'
    BY <1>1, <1>6 DEF NoMainCopy
  <2>2. \A k \in Pages : ~(k > pm_at')
    BY <1>1, <1>3
  <2> QED BY <1>1, <1>2, <2>1, <2>2 DEF FoundKnown, SearchAt, NewAt, PairAts, StoreAt
<1> QED BY <1>1, <1>4, <1>5, <1>7, SearchStep DEF PmtInv, PmtTypes, PmtTypeOK

LEMMA FindMirrorStep == ASSUME PmtInv, FindMirror PROVE PmtInv'
<1>1. /\ pm_pc = "mirror" /\ pm_at \in Pages
      /\ UNCHANGED <<pm_flash, lastest_part, pm_parts, pm_full, pm_kept, pm_cuts, pm_r, pm_w, pm_base, pm_mark>>
  BY PmtSizes DEF FindMirror, MirrorEnd, StartVars, RetryVars, PmtInv, PmtTypes, PmtTypeOK, LoopsKnown, Pages
<1>2. PICK ok \in BOOLEAN : Read("mirror", pm_at, ok)
  BY DEF FindMirror, MirrorFrom
<1>3. /\ page_buf' \in Stored /\ pm_seen' \in BOOLEAN /\ pm_faults' \in 0 .. PmtFaults
      /\ (pm_seen' => pm_seen /\ page_buf' = pm_flash["mirror"][pm_at])
  BY <1>1, <1>2, ReadStep DEF PmtInv
<1>4. /\ pm_flash = pm_kept /\ pm_r = 0 /\ pm_w = 0 /\ pm_base = -1
      /\ (pm_seen => NoMainCopy /\ \A j \in Pages : j > pm_at => ~Valid(pm_kept["mirror"][j], "MPT"))
  BY <1>1 DEF PmtInv, PmtTypes, LoopsKnown, FoundKnown, SearchAt, BeforeAt, PairAts
<1>5. NoMainCopy' <=> NoMainCopy
  BY <1>1 DEF NoMainCopy
<1>6. pm_at \in Nat /\ pm_at <= P - 1 /\ P \in Nat
  BY <1>1, PmtSizes DEF Pages
<1>7. CASE Valid(page_buf', "MPT")
  <2>1. pm_pc' = "copy" /\ pm_at' = pm_at
    BY <1>7 DEF FindMirror, Goto
  <2>2. LoopsKnown'
    BY <1>1, <1>4, <1>6, <2>1 DEF LoopsKnown, SearchAt, BeforeAt, PairAts, StoreAt
  <2>3. pm_seen' => Valid(pm_kept["mirror"][pm_at], "MPT")
    BY <1>3, <1>4, <1>7
  <2>4. FoundKnown'
    BY <1>1, <1>3, <1>4, <1>5, <2>1, <2>3 DEF FoundKnown, SearchAt, NewAt, PairAts, StoreAt
  <2> QED BY <1>1, <1>3, <2>1, <2>2, <2>4, SearchStep DEF PmtInv, PmtTypes, PmtTypeOK
<1>8. CASE ~Valid(page_buf', "MPT")
  <2>1. pm_at' = pm_at - 1 /\ pm_pc' = "mirror"
    BY <1>1, <1>8 DEF FindMirror, Goto
  <2>2. pm_at' \in -1 .. P /\ pm_at' <= P - 1
    BY <1>6, <2>1
  <2>3. LoopsKnown'
    BY <1>1, <1>4, <2>1, <2>2 DEF LoopsKnown, SearchAt, BeforeAt, PairAts, StoreAt
  <2>4. pm_seen' => \A j \in Pages : j > pm_at' => ~Valid(pm_kept["mirror"][j], "MPT")
    <3> SUFFICES ASSUME pm_seen', NEW j \in Pages, j > pm_at'
                 PROVE  ~Valid(pm_kept["mirror"][j], "MPT")
      OBVIOUS
    <3>1. j > pm_at \/ j = pm_at
      BY <1>6, <2>1 DEF Pages
    <3> QED BY <1>3, <1>4, <1>8, <3>1
  <2>5. FoundKnown'
    BY <1>1, <1>3, <1>4, <1>5, <2>1, <2>4 DEF FoundKnown, SearchAt, NewAt, PairAts, StoreAt
  <2> QED BY <1>1, <1>3, <2>1, <2>2, <2>3, <2>5, SearchStep DEF PmtInv, PmtTypes, PmtTypeOK
<1> QED BY <1>7, <1>8

LEMMA ReadMirrorStep == ASSUME PmtInv, ReadMirror PROVE PmtInv'
<1>1. /\ pm_pc = "copy" /\ pm_at \in Pages /\ lastest_part' = page_buf'.tab /\ pm_pc' = "construct"
      /\ UNCHANGED <<pm_flash, pm_at, pm_parts, pm_full, pm_kept, pm_cuts, pm_r, pm_w, pm_base, pm_mark>>
  BY PmtSizes DEF ReadMirror, Goto, StartVars, RetryVars, PmtInv, PmtTypes, PmtTypeOK, LoopsKnown, Pages
<1>2. PICK ok \in BOOLEAN : Read("mirror", pm_at, ok)
  BY DEF ReadMirror, MirrorFrom
<1>3. /\ page_buf' \in Stored /\ pm_seen' \in BOOLEAN /\ pm_faults' \in 0 .. PmtFaults
      /\ (pm_seen' => pm_seen /\ page_buf' = pm_flash["mirror"][pm_at])
  BY <1>1, <1>2, ReadStep DEF PmtInv
<1>4. /\ pm_flash = pm_kept /\ pm_kept \in TwoBlocks /\ pm_r = 0 /\ pm_w = 0 /\ pm_base = -1
      /\ (pm_seen => /\ NoMainCopy /\ Valid(pm_kept["mirror"][pm_at], "MPT")
                     /\ \A j \in Pages : j > pm_at => ~Valid(pm_kept["mirror"][j], "MPT"))
  BY <1>1 DEF PmtInv, PmtTypes, LoopsKnown, FoundKnown, SearchAt, BeforeAt, PairAts
<1>5. lastest_part' \in Tables \cup {Compiled, Ruined}
  BY <1>1, <1>3 DEF Stored
<1>6. LoopsKnown'
  BY <1>1, <1>4 DEF LoopsKnown, SearchAt, BeforeAt, PairAts, StoreAt
<1>7. pm_seen' => lastest_part' = Newest(pm_kept)
  BY <1>1, <1>3, <1>4, NewestInMirror DEF NoMainCopy
<1>8. FoundKnown'
  BY <1>1, <1>4, <1>7 DEF FoundKnown, SearchAt, NewAt, PairAts, StoreAt
<1> QED BY <1>1, <1>3, <1>5, <1>6, <1>8, SearchStep DEF PmtInv, PmtTypes, PmtTypeOK

LEMMA FromCompilerStep == ASSUME PmtInv, FromCompiler PROVE PmtInv'
<1>1. /\ pm_pc = "mirror" /\ pm_at = -1 /\ lastest_part' = Compiled /\ pm_parts' = Parts(Compiled)
      /\ pm_pc' = "empty" /\ pm_at' = 0
      /\ UNCHANGED <<pm_flash, page_buf, pm_full, pm_kept, pm_cuts, pm_r, pm_w, pm_base, pm_mark, pm_seen,
                     pm_faults>>
  BY DEF FromCompiler, MirrorEnd, Goto, RetryVars
<1>2. /\ pm_kept \in TwoBlocks /\ pm_r = 0 /\ pm_w = 0 /\ pm_base = -1
      /\ (pm_seen => NoMainCopy /\ \A j \in Pages : j > pm_at => ~Valid(pm_kept["mirror"][j], "MPT"))
  BY <1>1 DEF PmtInv, PmtTypes, LoopsKnown, FoundKnown, SearchAt, BeforeAt, PairAts
<1>3. pm_at' \in -1 .. P /\ Compiled \in Seq(Nat \X Nat)
  BY <1>1, PmtSizes
<1>4. \A i \in DOMAIN pm_parts' : pm_parts'[i][2] > 0
  BY <1>1, <1>3, PartsPositive
<1>5. LoopsKnown'
  BY <1>1, <1>2 DEF LoopsKnown, SearchAt, BeforeAt, PairAts, StoreAt
<1>6. pm_seen => Copies(pm_kept) = {}
  <2>1. \A j \in Pages : j > -1
    BY DEF Pages
  <2> QED BY <1>1, <1>2, <2>1, NoCopies DEF NoMainCopy
<1>7. FoundKnown'
  BY <1>1, <1>6 DEF FoundKnown, SearchAt, NewAt, PairAts, StoreAt
<1> QED BY <1>1, <1>3, <1>4, <1>5, <1>7, SearchStep DEF PmtInv, PmtTypes, PmtTypeOK

LEMMA UseTableStep == ASSUME PmtInv, UseTable PROVE PmtInv'
<1>1. /\ pm_pc = "construct" /\ pm_pc' = "ready" /\ pm_parts' = Parts(lastest_part)
      /\ UNCHANGED <<pm_flash, pm_at, page_buf, lastest_part, pm_full, pm_kept, pm_cuts, pm_r, pm_w,
                     pm_base, pm_mark, pm_seen, pm_faults>>
  BY DEF UseTable, Goto, RetryVars
<1>2. pm_base = -1 /\ (pm_seen => lastest_part = Newest(pm_kept))
  BY <1>1 DEF PmtInv, LoopsKnown, FoundKnown, SearchAt, BeforeAt
<1>3. lastest_part \in Seq(Nat \X Nat)
  <2>1. lastest_part \in Tables \cup {Compiled, Ruined}
    BY DEF PmtInv, PmtTypes, PmtTypeOK
  <2>2. Ruined \in Seq(Nat \X Nat)
    BY DEF Ruined
  <2> QED BY <2>1, <2>2, PmtSizes
<1>4. \A i \in DOMAIN pm_parts' : pm_parts'[i][2] > 0
  BY <1>1, <1>3, PartsPositive
<1>5. LoopsKnown'
  BY <1>1 DEF LoopsKnown, SearchAt, BeforeAt, PairAts, StoreAt
<1>6. FoundKnown'
  BY <1>1, <1>2 DEF FoundKnown, SearchAt, NewAt, PairAts, StoreAt
<1> QED BY <1>1, <1>2, <1>4, <1>5, <1>6, SearchStep DEF PmtInv, PmtTypes, PmtTypeOK
-----------------------------------------------------------------------------
\* Once the table is the one compiled in it stays so for the start at hand.
LEMMA NewTableStays ==
  ASSUME PmtInv, pm_pc \in NewAt, pm_pc' \in NewAt \cup {"ready"}, pm_seen' \in BOOLEAN,
         UNCHANGED <<lastest_part, pm_parts, pm_kept>>, pm_seen' => pm_seen
  PROVE  FoundKnown' /\ lastest_part = Compiled
<1>1. /\ lastest_part = Compiled /\ pm_parts = Parts(Compiled) /\ pm_kept \in TwoBlocks
      /\ (pm_seen => Copies(pm_kept) = {})
  BY DEF PmtInv, PmtTypes, FoundKnown
<1>2. pm_seen => Newest(pm_kept) = Compiled
  BY <1>1 DEF Newest
<1>3. pm_pc' \notin SearchAt
  BY DEF SearchAt, NewAt, PairAts, StoreAt
<1> QED BY <1>1, <1>2, <1>3 DEF FoundKnown, SearchAt

LEMMA EvenPage ==
  ASSUME NEW x \in 0 .. P
  PROVE  x + (x % 2) \in 0 .. P /\ (x + (x % 2)) % 2 = 0
<1>1. P \in Nat /\ P % 2 = 0
  BY PmtSizes
<1>2. CASE x % 2 = 0
  BY <1>1, <1>2, SMT
<1>3. CASE x % 2 # 0
  <2>1. x % 2 = 1 /\ x # P
    BY <1>1, <1>3, SMT
  <2> QED BY <1>1, <2>1, SMT
<1> QED BY <1>2, <1>3

LEMMA FindEmptyStep == ASSUME PmtInv, FindEmpty PROVE PmtInv'
<1>1. /\ pm_pc = "empty" /\ pm_at \in Pages
      /\ UNCHANGED <<pm_flash, lastest_part, pm_parts, pm_full, pm_kept, pm_cuts, pm_r, pm_w, pm_base, pm_mark>>
  BY PmtSizes DEF FindEmpty, StartVars, RetryVars, PmtInv, PmtTypes, PmtTypeOK, LoopsKnown, Pages
<1>2. PICK ok \in BOOLEAN :
        /\ Read("main", pm_at, ok)
        /\ \/ pm_pc' = "found" /\ UNCHANGED pm_at
           \/ pm_at' = pm_at + 1 /\ UNCHANGED pm_pc
  BY DEF FindEmpty, Goto
<1>3. /\ page_buf' \in Stored /\ pm_seen' \in BOOLEAN /\ pm_faults' \in 0 .. PmtFaults
      /\ (pm_seen' => pm_seen)
  BY <1>1, <1>2, ReadStep DEF PmtInv
<1>4. pm_at' \in -1 .. P /\ pm_at' >= 0 /\ pm_pc' \in {"empty", "found"}
  BY <1>1, <1>2, PmtSizes DEF Pages
<1>5. LoopsKnown'
  BY <1>1, <1>4 DEF PmtInv, LoopsKnown, SearchAt, BeforeAt, PairAts, StoreAt
<1>6. FoundKnown'
  BY <1>1, <1>3, <1>4, NewTableStays DEF NewAt
<1> QED BY <1>1, <1>3, <1>4, <1>5, <1>6, SearchStep DEF PmtInv, PmtTypes, PmtTypeOK

LEMMA UseEmptyStep == ASSUME PmtInv, UseEmpty PROVE PmtInv'
<1>1. /\ pm_pc \in {"empty", "found"} /\ pm_pc' = "pair" /\ pm_at' = pm_at + (pm_at % 2)
      /\ page_buf' = Page("MPT", lastest_part) /\ pm_at \in 0 .. P
      /\ UNCHANGED <<pm_flash, lastest_part, pm_parts, pm_full, pm_kept, pm_cuts, pm_r, pm_w, pm_base,
                     pm_mark, pm_seen, pm_faults>>
  BY PmtSizes DEF UseEmpty, Goto, StartVars, RetryVars, PmtInv, PmtTypes, PmtTypeOK, LoopsKnown
<1>2. pm_at' \in 0 .. P /\ pm_at' % 2 = 0
  BY <1>1, EvenPage
<1>3. pm_at' \in -1 .. P /\ pm_at' >= 0
  BY <1>2
<1>4. page_buf' \in Stored
  BY <1>1 DEF Page, Stored, PmtInv, PmtTypes, PmtTypeOK
<1>5. LoopsKnown'
  BY <1>1, <1>2, <1>3 DEF PmtInv, LoopsKnown, SearchAt, BeforeAt, PairAts, StoreAt
<1>6. FoundKnown'
  BY <1>1, NewTableStays DEF NewAt, PairAts, PmtInv, PmtTypes
<1> QED BY <1>1, <1>3, <1>4, <1>5, <1>6, SearchStep DEF PmtInv, PmtTypes, PmtTypeOK

LEMMA ErasedIs ==
  ASSUME pm_flash \in TwoBlocks
  PROVE  ErasedBlock("main") \in TwoBlocks /\ \A k \in Pages : ErasedBlock("main")["main"][k] = Empty
BY PageKinds DEF ErasedBlock, TwoBlocks

\* A step up to the erase of the main block: the copies in its pages and in
\* those of the next block may change.
LEMMA PairStep ==
  ASSUME PmtInv, pm_pc \in {"empty", "found"} \cup PairAts, pm_pc' \in {"pair", "check", "reread", "erase"},
         UNCHANGED <<pm_kept, pm_r, pm_base, pm_mark, pm_full, lastest_part, pm_parts>>,
         pm_flash' \in TwoBlocks, page_buf' \in Stored, pm_seen' \in BOOLEAN,
         pm_faults' \in 0 .. PmtFaults, pm_seen' => pm_seen,
         pm_at' \in 0 .. P, pm_pc' # "erase" => pm_at' % 2 = 0,
         pm_w' \in 0 .. 2, pm_pc' \in {"check", "reread"} => pm_w' < 2, pm_pc' = "erase" => pm_w' = 0
  PROVE  PmtInv'
<1>1. pm_w' \in 0 .. RETRY_TIMES /\ pm_at' \in -1 .. P
  BY PmtSizes
<1>2. PmtTypeOK'
  BY <1>1 DEF PmtInv, PmtTypes, PmtTypeOK
<1>3. PmtTypes'
  BY <1>2 DEF PmtInv, PmtTypes
<1>4. LoopsKnown'
  <2>1. pm_r = 0 /\ pm_base = -1
    BY DEF PmtInv, LoopsKnown, BeforeAt, PairAts
  <2>2. pm_r' = 0 /\ pm_base' = -1
    BY <2>1
  <2>3. pm_at' >= 0 /\ pm_w' <= 2
    BY PmtSizes
  <2>4. pm_pc' \notin {"main", "empty", "found", "mirror", "copy"} \cup StoreAt
    BY DEF StoreAt
  <2>5. pm_pc' \in PairAts => pm_at' % 2 = 0
    BY DEF PairAts
  <2>6. pm_pc' \in BeforeAt \ PairAts => pm_w' = 0
    BY DEF PairAts
  <2> QED BY <2>2, <2>3, <2>4, <2>5, <2>6 DEF LoopsKnown
<1>5. FoundKnown'
  BY NewTableStays DEF NewAt, PairAts
<1>6. StoreKnown'
  BY DEF StoreKnown, StoreAt
<1> QED BY <1>3, <1>4, <1>5, <1>6 DEF PmtInv

LEMMA NoEmptyStep == ASSUME PmtInv, NoEmpty PROVE PmtInv'
<1>1. /\ pm_pc \in {"empty", "found"} /\ pm_at \in 0 .. P /\ pm_w = 0
      /\ UNCHANGED <<lastest_part, pm_parts, pm_full, pm_kept, pm_cuts, pm_r, pm_w, pm_base, pm_mark, pm_seen>>
  BY PmtSizes DEF NoEmpty, StartVars, RetryVars, PmtInv, PmtTypes, PmtTypeOK, LoopsKnown, BeforeAt, PairAts
<1>2. /\ pm_flash \in TwoBlocks /\ page_buf \in Stored /\ pm_seen \in BOOLEAN /\ pm_faults \in 0 .. PmtFaults
      /\ lastest_part \in Tables \cup {Compiled, Ruined} /\ P \in Nat /\ PmtFaults \in Nat
  BY PmtSizes DEF PmtInv, PmtTypes, PmtTypeOK
<1>3. CASE /\ pm_flash' = ErasedBlock("main") /\ pm_pc' = "pair" /\ pm_at' = 0
           /\ page_buf' = Page("MPT", lastest_part) /\ UNCHANGED pm_faults
  <2>1. page_buf' \in Stored
    BY <1>2, <1>3 DEF Page, Stored
  <2>2. pm_flash' \in TwoBlocks
    BY <1>2, <1>3, ErasedIs
  <2>3. pm_at' \in 0 .. P /\ pm_at' % 2 = 0
    BY <1>2, <1>3
  <2> QED BY <1>1, <1>2, <1>3, <2>1, <2>2, <2>3, PairStep
<1>4. CASE /\ pm_faults < PmtFaults /\ pm_faults' = pm_faults + 1
           /\ pm_pc' = "erase" /\ UNCHANGED <<pm_flash, pm_at, page_buf>>
  <2>1. pm_faults' \in 0 .. PmtFaults
    BY <1>2, <1>4
  <2> QED BY <1>1, <1>2, <1>4, <2>1, PairStep
<1> QED BY <1>3, <1>4 DEF NoEmpty, Goto

\* The two pages of a pair are in the main block, or are the first of the next.
LEMMA PairPlace ==
  ASSUME pm_at \in 0 .. P, pm_at % 2 = 0, NEW i \in 0 .. 1
  PROVE  PairAt(i)[1] \in {"main", "mirror"} /\ PairAt(i)[2] \in Pages
<1>1. P \in Nat \ {0} /\ P % 2 = 0
  BY PmtSizes
<1>2. P >= 2
  BY <1>1, SMT
<1>3. CASE pm_at + i < P
  BY <1>1, <1>3 DEF PairAt, Pages
<1>4. CASE ~(pm_at + i < P)
  <2>1. pm_at = P
    BY <1>1, <1>4, SMT
  <2>2. pm_at + i - P = i
    BY <1>1, <2>1
  <2> QED BY <1>1, <1>2, <1>4, <2>2 DEF PairAt, Pages
<1> QED BY <1>3, <1>4

LEMMA AtPair ==
  ASSUME PmtInv, pm_pc \in PairAts
  PROVE  /\ pm_at \in 0 .. P /\ pm_at % 2 = 0 /\ pm_w \in 0 .. 2
         /\ pm_pc \in {"check", "reread"} => pm_w < 2
         /\ page_buf \in Stored /\ pm_seen \in BOOLEAN /\ pm_flash \in TwoBlocks /\ pm_faults \in 0 .. PmtFaults
BY PmtSizes DEF PmtInv, PmtTypes, PmtTypeOK, LoopsKnown

LEMMA WritePairStep == ASSUME PmtInv, WritePair PROVE PmtInv'
<1>1. /\ pm_pc = "pair" /\ pm_pc \in PairAts /\ pm_w < 2
      /\ UNCHANGED <<pm_at, pm_r, page_buf, lastest_part, pm_parts, pm_full, pm_kept, pm_cuts, pm_seen,
                     pm_base, pm_mark>>
  BY DEF WritePair, StartVars, PairAts
<1>2. PICK ok \in BOOLEAN :
        /\ Write(PairAt(pm_w)[1], PairAt(pm_w)[2], page_buf, ok)
        /\ \/ pm_pc' = "check" /\ UNCHANGED pm_w
           \/ pm_w' = pm_w + 1 /\ pm_pc' = pm_pc
  BY DEF WritePair, Goto
<1>3. pm_w \in 0 .. 1
  BY <1>1, AtPair
<1>4. PairAt(pm_w)[1] \in {"main", "mirror"} /\ PairAt(pm_w)[2] \in Pages
  BY <1>1, <1>3, AtPair, PairPlace
<1>5. pm_flash' \in TwoBlocks /\ pm_faults' \in 0 .. PmtFaults
  BY <1>1, <1>2, <1>4, AtPair, WriteStep DEF PmtInv
<1>6. pm_pc' \in {"pair", "check"} /\ pm_w' \in 0 .. 2 /\ (pm_pc' = "check" => pm_w' < 2)
  BY <1>1, <1>2, <1>3
<1> QED BY <1>1, <1>5, <1>6, AtPair, PairStep

LEMMA CheckPairStep == ASSUME PmtInv, CheckPair PROVE PmtInv'
<1>1. /\ pm_pc = "check" /\ pm_pc \in PairAts
      /\ UNCHANGED <<pm_flash, pm_at, pm_r, lastest_part, pm_parts, pm_full, pm_kept, pm_cuts, pm_base, pm_mark>>
  BY DEF CheckPair, StartVars, PairAts
<1>2. PICK ok \in BOOLEAN :
        /\ Read(PairAt(pm_w)[1], PairAt(pm_w)[2], ok)
        /\ \/ pm_pc' = "pair" /\ pm_w' = pm_w + 1
           \/ pm_pc' = "reread" /\ UNCHANGED pm_w
  BY DEF CheckPair, Goto
<1>3. pm_w \in 0 .. 1
  BY <1>1, AtPair
<1>4. PairAt(pm_w)[1] \in {"main", "mirror"} /\ PairAt(pm_w)[2] \in Pages
  BY <1>1, <1>3, AtPair, PairPlace
<1>5. page_buf' \in Stored /\ pm_seen' \in BOOLEAN /\ pm_faults' \in 0 .. PmtFaults /\ (pm_seen' => pm_seen)
  BY <1>2, <1>4, ReadStep DEF PmtInv
<1>6. pm_pc' \in {"pair", "reread"} /\ pm_w' \in 0 .. 2 /\ (pm_pc' = "reread" => pm_w' < 2)
  BY <1>2, <1>3
<1> QED BY <1>1, <1>5, <1>6, AtPair, PairStep

LEMMA RereadPairStep == ASSUME PmtInv, RereadPair PROVE PmtInv'
<1>1. /\ pm_pc = "reread" /\ pm_pc \in PairAts /\ pm_pc' = "pair" /\ pm_w' = pm_w + 1
      /\ UNCHANGED <<pm_flash, pm_at, pm_r, lastest_part, pm_parts, pm_full, pm_kept, pm_cuts, pm_base, pm_mark>>
  BY DEF RereadPair, Goto, StartVars, PairAts
<1>2. PICK ok \in BOOLEAN : Read(PairAt(pm_w)[1], PairAt(pm_w)[2], ok)
  BY DEF RereadPair
<1>3. pm_w \in 0 .. 1
  BY <1>1, AtPair
<1>4. PairAt(pm_w)[1] \in {"main", "mirror"} /\ PairAt(pm_w)[2] \in Pages
  BY <1>1, <1>3, AtPair, PairPlace
<1>5. page_buf' \in Stored /\ pm_seen' \in BOOLEAN /\ pm_faults' \in 0 .. PmtFaults /\ (pm_seen' => pm_seen)
  BY <1>2, <1>4, ReadStep DEF PmtInv
<1>6. pm_w' \in 0 .. 2
  BY <1>1, <1>3
<1> QED BY <1>1, <1>5, <1>6, AtPair, PairStep

LEMMA PairDoneStep == ASSUME PmtInv, PairDone PROVE PmtInv'
<1>1. /\ pm_pc = "pair" /\ pm_pc \in PairAts /\ pm_pc' = "erase" /\ pm_w' = 0
      /\ UNCHANGED <<pm_flash, pm_at, pm_r, page_buf, lastest_part, pm_parts, pm_full, pm_kept, pm_cuts,
                     pm_seen, pm_base, pm_mark, pm_faults>>
  BY DEF PairDone, Goto, StartVars, PairAts
<1> QED BY <1>1, AtPair, PairStep
-----------------------------------------------------------------------------
\* Failures since the erase are only ever added to.
LEMMA MoreFaults ==
  ASSUME NEW f \in Nat, NEW g \in Nat, NEW b \in Int, NEW r \in Nat, NEW w \in Nat, f <= g
  PROVE  /\ f - b >= r + w => g - b >= r + w
         /\ f - b > r + w => /\ g - b > r + w /\ g - b >= r + w
                             /\ g - b >= r + (w + 1) /\ g - b >= (r + 1) + 0
         /\ f - b >= r + w /\ f < g => g - b > r + w
OBVIOUS

\* The tries go through the block from its beginning, and never past it.
LEMMA RowInBlock ==
  ASSUME PmtInv, pm_pc \in StoreAt, pm_w < RETRY_TIMES
  PROVE  /\ Row \in Pages /\ Row = pm_w + pm_r * RETRY_TIMES
         /\ pm_w \in Nat /\ pm_r \in Nat /\ pm_r < RETRY_TIMES /\ RETRY_TIMES \in Nat /\ P \in Nat
         /\ pm_r * RETRY_TIMES \in Nat /\ (pm_r + 1) * RETRY_TIMES = pm_r * RETRY_TIMES + RETRY_TIMES
<1>1. /\ pm_w \in Nat /\ pm_r \in Nat /\ pm_r < RETRY_TIMES /\ RETRY_TIMES \in Nat /\ P \in Nat
      /\ RETRY_TIMES * RETRY_TIMES <= P
  BY PmtSizes DEF PmtInv, PmtTypes, PmtTypeOK, LoopsKnown
<1>2. \A r, t \in Nat : r < t => r * t \in Nat /\ (r + 1) * t = r * t + t /\ (r + 1) * t <= t * t
  BY SMT
<1>3. /\ pm_r * RETRY_TIMES \in Nat /\ (pm_r + 1) * RETRY_TIMES = pm_r * RETRY_TIMES + RETRY_TIMES
      /\ (pm_r + 1) * RETRY_TIMES <= RETRY_TIMES * RETRY_TIMES
  BY <1>1, <1>2
<1> DEFINE a == pm_r * RETRY_TIMES
           b == RETRY_TIMES * RETRY_TIMES
           c == (pm_r + 1) * RETRY_TIMES
<1>4. b \in Nat
  BY <1>1
<1>5. a \in Nat /\ c = a + RETRY_TIMES /\ c <= b /\ b <= P
  BY <1>1, <1>3
<1> HIDE DEF a, b, c
<1>6. pm_w + a \in Pages
  BY <1>1, <1>4, <1>5 DEF Pages
<1> QED BY <1>1, <1>3, <1>6 DEF Row, a

\* A step of update_part_tab after its erase.
LEMMA StoreStep ==
  ASSUME PmtInv, pm_pc \in StoreAt \cup {"erase"}, pm_pc' \in StoreAt \cup {"ready"},
         UNCHANGED <<pm_kept, pm_full, lastest_part, pm_parts, pm_at>>,
         pm_flash' \in TwoBlocks, page_buf' \in Stored, pm_seen' \in BOOLEAN, pm_mark' \in BOOLEAN,
         pm_faults' \in 0 .. PmtFaults, pm_seen' => pm_seen, pm_base' \in -1 .. PmtFaults,
         pm_w' \in 0 .. RETRY_TIMES, pm_r' \in 0 .. RETRY_TIMES,
         pm_pc' \in StoreAt => pm_r' < RETRY_TIMES,
         pm_pc' \in StoreAt \ {"write"} => pm_w' < RETRY_TIMES,
         StoreKnown'
  PROVE  PmtInv'
<1>1. PmtTypeOK'
  BY DEF PmtInv, PmtTypes, PmtTypeOK, StoreAt
<1>2. PmtTypes'
  BY <1>1 DEF PmtInv, PmtTypes
<1>3. LoopsKnown'
  BY DEF LoopsKnown, SearchAt, BeforeAt, PairAts, StoreAt
<1>4. FoundKnown'
  BY NewTableStays DEF NewAt, PairAts, StoreAt
<1> QED BY <1>2, <1>3, <1>4 DEF PmtInv

LEMMA AtStore ==
  ASSUME PmtInv, pm_pc \in StoreAt \cup {"erase"}
  PROVE  /\ pm_flash \in TwoBlocks /\ page_buf \in Stored /\ pm_seen \in BOOLEAN /\ pm_mark \in BOOLEAN
         /\ pm_faults \in 0 .. PmtFaults /\ pm_base \in -1 .. PmtFaults /\ PmtFaults \in Nat
         /\ pm_w \in 0 .. RETRY_TIMES /\ pm_r \in 0 .. RETRY_TIMES /\ lastest_part = Compiled
BY PmtSizes DEF PmtInv, PmtTypes, PmtTypeOK, FoundKnown, NewAt, StoreAt

LEMMA EraseMainStep == ASSUME PmtInv, EraseMain PROVE PmtInv'
<1>1. /\ pm_pc = "erase"
      /\ UNCHANGED <<pm_at, pm_r, pm_w, page_buf, lastest_part, pm_parts, pm_full, pm_kept, pm_cuts,
                     pm_seen, pm_mark>>
  BY DEF EraseMain, StartVars
<1>2. pm_r = 0 /\ pm_w = 0 /\ pm_base = -1
  BY <1>1 DEF PmtInv, LoopsKnown, BeforeAt, PairAts
<1>3. CASE /\ pm_flash' = ErasedBlock("main") /\ pm_pc' = "write" /\ pm_base' = pm_faults
           /\ UNCHANGED pm_faults
  <2>1. pm_flash' \in TwoBlocks /\ \A k \in Pages : pm_flash'["main"][k] = Empty
    BY <1>1, <1>3, AtStore, ErasedIs
  <2>2. /\ pm_base' >= 0 /\ pm_base' \in -1 .. PmtFaults /\ pm_r' = 0 /\ pm_w' = 0
        /\ pm_faults' - pm_base' >= pm_r' + pm_w'
    BY <1>1, <1>2, <1>3, AtStore
  <2>3. StoreKnown'
    BY <1>3, <2>1, <2>2, PageKinds DEF StoreKnown, StoreAt
  <2>4. 0 < RETRY_TIMES /\ 0 \in 0 .. RETRY_TIMES
    BY PmtSizes
  <2> QED BY <1>1, <1>3, <2>1, <2>2, <2>3, <2>4, AtStore, StoreStep DEF StoreAt
<1>4. CASE /\ pm_faults < PmtFaults /\ pm_faults' = pm_faults + 1
           /\ pm_pc' = "ready" /\ UNCHANGED <<pm_flash, pm_base>>
  <2>1. pm_faults' \in 0 .. PmtFaults
    BY <1>1, <1>4, AtStore
  <2>2. StoreKnown'
    BY <1>2, <1>4 DEF StoreKnown, StoreAt, StoredUnlessTried, NoHalfCopy
  <2> QED BY <1>1, <1>4, <2>1, <2>2, AtStore, StoreStep DEF StoreAt
<1> QED BY <1>3, <1>4 DEF EraseMain, Goto

LEMMA WriteTableStep == ASSUME PmtInv, WriteTable PROVE PmtInv'
<1>1. /\ pm_pc = "write" /\ pm_pc \in StoreAt /\ pm_w < RETRY_TIMES
      /\ UNCHANGED <<pm_at, pm_r, pm_w, page_buf, lastest_part, pm_parts, pm_full, pm_kept, pm_cuts,
                     pm_seen, pm_base, pm_mark>>
  BY DEF WriteTable, StartVars, StoreAt
<1>2. PICK ok \in BOOLEAN :
        /\ Write("main", Row, Page("PT", lastest_part), ok)
        /\ \/ ok /\ pm_pc' = "verify"
           \/ ~ok /\ pm_pc' = "unwrite"
  BY DEF WriteTable, Goto
<1>3. Page("PT", lastest_part) = Good
  BY <1>1, AtStore DEF Good
<1>4. /\ Row \in Pages /\ pm_w \in Nat /\ pm_r \in Nat /\ pm_r < RETRY_TIMES
  BY <1>1, RowInBlock
<1>5. /\ pm_flash' \in TwoBlocks /\ pm_faults' \in 0 .. PmtFaults /\ pm_faults <= pm_faults'
      /\ \A j \in Pages : j # Row => pm_flash'["main"][j] = pm_flash["main"][j]
      /\ ~ok => pm_faults' = pm_faults + 1 /\ pm_flash'["main"][Row] \in {pm_flash["main"][Row], Junk}
      /\ pm_faults' = pm_faults => pm_flash'["main"][Row] = Over(pm_flash["main"][Row], Good)
      /\ pm_faults' # pm_faults => pm_faults' = pm_faults + 1
  BY <1>2, <1>3, <1>4, PageKinds, WriteStep DEF PmtInv
<1>6. /\ pm_base >= 0 /\ pm_faults - pm_base >= pm_r + pm_w /\ pm_flash["main"][Row] = Empty
      /\ \A k \in Pages : k > Row => pm_flash["main"][k] = Empty
      /\ pm_mark => \A k \in Pages : k # Row /\ Valid(pm_flash["main"][k], "PT") =>
                                       pm_flash["main"][k].tab = Compiled
  BY <1>1, <1>4 DEF PmtInv, StoreKnown
<1>7. Row' = Row
  BY <1>1 DEF Row
<1>8. pm_faults \in Nat /\ pm_faults' \in Nat /\ pm_base \in Int /\ Row \in Nat
  BY <1>1, <1>4, <1>5, AtStore DEF Pages
<1>9. pm_faults' - pm_base >= pm_r + pm_w
  <2>1. pm_faults <= pm_faults' /\ pm_faults - pm_base >= pm_r + pm_w
    BY <1>5, <1>6
  <2> QED BY <1>4, <1>8, <2>1, MoreFaults
<1>10. \A k \in Pages : k > Row => pm_flash'["main"][k] = Empty
  BY <1>5, <1>6, <1>8 DEF Pages
<1>11. pm_mark => \A k \in Pages : k # Row /\ Valid(pm_flash'["main"][k], "PT") =>
                                     pm_flash'["main"][k].tab = Compiled
  BY <1>5, <1>6
<1>12. pm_pc' = "unwrite" => /\ ~Valid(pm_flash'["main"][Row], "PT")
                             /\ pm_faults' - pm_base > pm_r + pm_w
  <2>1. pm_pc' = "unwrite" => ~ok
    BY <1>2
  <2>2. ~ok => pm_faults' - pm_base > pm_r + pm_w
    BY <1>4, <1>5, <1>6, <1>8
  <2> QED BY <1>5, <1>6, <2>1, <2>2, PageKinds
<1>13. pm_flash'["main"][Row] # Good => pm_faults' - pm_base > pm_r + pm_w
  <2>1. CASE pm_faults' = pm_faults
    BY <1>5, <1>6, <2>1 DEF Over
  <2>2. CASE pm_faults' = pm_faults + 1
    BY <1>4, <1>6, <1>8, <2>2
  <2> QED BY <1>5, <2>1, <2>2
<1>14. StoreKnown'
  BY <1>1, <1>2, <1>6, <1>7, <1>9, <1>10, <1>11, <1>12, <1>13 DEF StoreKnown, StoreAt
<1> QED BY <1>1, <1>2, <1>4, <1>5, <1>14, AtStore, StoreStep DEF StoreAt

\* Overwriting a signature leaves no copy, or is known to have failed.
LEMMA UnsignStep ==
  ASSUME PmtInv, pm_pc \in StoreAt, NEW k \in Pages, Unsign(k), lastest_part = Compiled
  PROVE  /\ pm_flash' \in TwoBlocks /\ pm_faults' \in 0 .. PmtFaults /\ pm_faults <= pm_faults'
         /\ \A j \in Pages : j # k => pm_flash'["main"][j] = pm_flash["main"][j]
         /\ pm_mark' \in BOOLEAN /\ (pm_mark' => pm_mark)
         /\ pm_mark' => ~Valid(pm_flash'["main"][k], "PT")
         /\ ~Valid(pm_flash["main"][k], "PT") => ~Valid(pm_flash'["main"][k], "PT")
<1>1. PICK ok \in BOOLEAN : Write("main", k, Junk, ok) /\ pm_mark' = (pm_mark /\ ok)
  BY DEF Unsign
<1>2. pm_mark' \in BOOLEAN /\ (pm_mark' => pm_mark /\ ok)
  BY <1>1, AtStore
<1>3. /\ pm_flash' \in TwoBlocks /\ pm_faults' \in 0 .. PmtFaults /\ pm_faults <= pm_faults'
      /\ \A j \in Pages : j # k => pm_flash'["main"][j] = pm_flash["main"][j]
      /\ Valid(pm_flash'["main"][k], "PT") => Valid(pm_flash["main"][k], "PT") /\ ~ok
  BY <1>1, PageKinds, WriteStep DEF PmtInv
<1> QED BY <1>2, <1>3

LEMMA UnwriteStep == ASSUME PmtInv, Unwrite PROVE PmtInv'
<1>1. /\ pm_pc = "unwrite" /\ pm_pc \in StoreAt /\ pm_w < RETRY_TIMES /\ Unsign(Row)
      /\ pm_w' = pm_w + 1 /\ pm_pc' = "write"
      /\ UNCHANGED <<pm_at, pm_r, page_buf, lastest_part, pm_parts, pm_full, pm_kept, pm_cuts, pm_seen, pm_base>>
  BY DEF Unwrite, Goto, StartVars, StoreAt, PmtInv, LoopsKnown
<1>2. /\ Row \in Pages /\ Row = pm_w + pm_r * RETRY_TIMES /\ pm_w \in Nat /\ pm_r \in Nat
      /\ pm_r < RETRY_TIMES /\ RETRY_TIMES \in Nat /\ P \in Nat /\ pm_r * RETRY_TIMES \in Nat
  BY <1>1, RowInBlock
<1>3. /\ pm_flash' \in TwoBlocks /\ pm_faults' \in 0 .. PmtFaults /\ pm_faults <= pm_faults'
      /\ \A j \in Pages : j # Row => pm_flash'["main"][j] = pm_flash["main"][j]
      /\ pm_mark' \in BOOLEAN /\ (pm_mark' => pm_mark)
      /\ ~Valid(pm_flash["main"][Row], "PT") => ~Valid(pm_flash'["main"][Row], "PT")
  BY <1>1, <1>2, AtStore, UnsignStep
<1>4. /\ pm_base >= 0 /\ pm_faults - pm_base > pm_r + pm_w /\ ~Valid(pm_flash["main"][Row], "PT")
      /\ \A k \in Pages : k > Row => pm_flash["main"][k] = Empty
      /\ pm_mark => \A k \in Pages : k # Row /\ Valid(pm_flash["main"][k], "PT") =>
                                       pm_flash["main"][k].tab = Compiled
  BY <1>1, <1>2 DEF PmtInv, StoreKnown
<1>5. Row' = Row + 1
  <2> DEFINE a == pm_r * RETRY_TIMES
  <2>1. Row' = (pm_w + 1) + a
    BY <1>1 DEF Row
  <2>2. a \in Nat /\ Row = pm_w + a
    BY <1>2
  <2> HIDE DEF a
  <2> QED BY <1>2, <2>1, <2>2
<1>6. /\ pm_faults \in Nat /\ pm_faults' \in Nat /\ pm_base \in Int /\ Row \in Nat
      /\ \A k \in Pages : k \in Nat
  BY <1>1, <1>2, <1>3, AtStore DEF Pages
<1>7. pm_faults' - pm_base' >= pm_r' + pm_w'
  <2>1. pm_faults <= pm_faults' /\ pm_faults - pm_base > pm_r + pm_w
    BY <1>3, <1>4
  <2>2. pm_faults' - pm_base >= pm_r + (pm_w + 1) /\ pm_faults' - pm_base >= (pm_r + 1) + 0
    BY <1>2, <1>6, <2>1, MoreFaults
  <2> QED BY <1>1, <2>2
<1>8. \A k \in Pages : k > Row => pm_flash'["main"][k] = Empty
  BY <1>3, <1>4, <1>6
<1>9. \A k \in Pages : k > Row' => pm_flash'["main"][k] = Empty
  BY <1>5, <1>6, <1>8
<1>10. Row' \in Pages => pm_flash'["main"][Row'] = Empty
  BY <1>5, <1>6, <1>8
<1>11. pm_mark' => \A k \in Pages : Valid(pm_flash'["main"][k], "PT") => pm_flash'["main"][k].tab = Compiled
  <2> SUFFICES ASSUME pm_mark', NEW k \in Pages, Valid(pm_flash'["main"][k], "PT")
               PROVE  pm_flash'["main"][k].tab = Compiled
    OBVIOUS
  <2>1. k # Row
    BY <1>3, <1>4
  <2> QED BY <1>3, <1>4, <2>1
<1>12. StoreKnown'
  <2>1. pm_base' >= 0
    BY <1>1, <1>4
  <2> QED BY <1>1, <1>7, <1>9, <1>10, <1>11, <2>1 DEF StoreKnown, StoreAt
<1>13. pm_w' \in 0 .. RETRY_TIMES /\ pm_r' < RETRY_TIMES
  BY <1>1, <1>2
<1> QED BY <1>1, <1>3, <1>12, <1>13, AtStore, StoreStep DEF StoreAt

LEMMA WriteGivesUpStep == ASSUME PmtInv, WriteGivesUp PROVE PmtInv'
<1>1. /\ pm_pc = "write" /\ pm_pc \in StoreAt /\ pm_w = RETRY_TIMES /\ pm_pc' = "ready"
      /\ UNCHANGED <<pm_flash, pm_at, page_buf, lastest_part, pm_parts, pm_full, pm_kept, pm_cuts, pm_r, pm_w,
                     pm_base, pm_mark, pm_seen, pm_faults>>
  BY DEF WriteGivesUp, Goto, StartVars, RetryVars, StoreAt
<1>2. /\ pm_base >= 0 /\ pm_faults - pm_base >= pm_r + pm_w
      /\ pm_mark => \A k \in Pages : k # Row /\ Valid(pm_flash["main"][k], "PT") =>
                                       pm_flash["main"][k].tab = Compiled
      /\ Row \in Pages => pm_flash["main"][Row] = Empty
  BY <1>1 DEF PmtInv, StoreKnown
<1>3. pm_r \in Nat /\ pm_w \in Nat /\ pm_faults \in Nat /\ pm_base \in Int
  BY <1>1, AtStore
<1>4. ~(pm_faults - pm_base < RETRY_TIMES)
  BY <1>1, <1>2, <1>3
<1>5. StoredUnlessTried' /\ NoHalfCopy'
  <2>1. StoredUnlessTried'
    BY <1>1, <1>4 DEF StoredUnlessTried
  <2>2. ASSUME pm_mark, NEW k \in Pages, Valid(pm_flash["main"][k], "PT")
        PROVE  pm_flash["main"][k].tab = Compiled
    <3>1. k # Row
      BY <1>2, <2>2, PageKinds
    <3> QED BY <1>2, <2>2, <3>1
  <2> QED BY <1>1, <2>1, <2>2 DEF NoHalfCopy
<1>6. StoreKnown'
  BY <1>1, <1>5 DEF StoreKnown, StoreAt
<1> QED BY <1>1, <1>6, AtStore, StoreStep DEF StoreAt

LEMMA VerifyTableStep == ASSUME PmtInv, VerifyTable PROVE PmtInv'
<1>1. /\ pm_pc = "verify" /\ pm_pc \in StoreAt /\ pm_w < RETRY_TIMES
      /\ UNCHANGED <<pm_flash, pm_at, lastest_part, pm_parts, pm_full, pm_kept, pm_cuts, pm_r, pm_w, pm_base,
                     pm_mark>>
  BY DEF VerifyTable, StartVars, RetryVars, StoreAt, PmtInv, LoopsKnown
<1>2. PICK ok \in BOOLEAN :
        /\ Read("main", Row, ok)
        /\ \/ ok /\ page_buf' = Page("PT", lastest_part) /\ pm_pc' = "ready"
           \/ ~(ok /\ page_buf' = Page("PT", lastest_part)) /\ pm_pc' = "mark"
  BY DEF VerifyTable, Same, Goto
<1>3. Page("PT", lastest_part) = Good
  BY <1>1, AtStore DEF Good
<1>4. /\ Row \in Pages /\ pm_w \in Nat /\ pm_r \in Nat /\ pm_r < RETRY_TIMES
  BY <1>1, RowInBlock
<1>5. /\ page_buf' \in Stored /\ pm_seen' \in BOOLEAN /\ pm_faults' \in 0 .. PmtFaults
      /\ (ok => page_buf' = pm_flash["main"][Row]) /\ (pm_seen' => pm_seen)
      /\ (ok => pm_faults' = pm_faults) /\ (~ok => pm_faults' = pm_faults + 1) /\ pm_faults <= pm_faults'
  BY <1>2, <1>4, ReadStep DEF PmtInv
<1>6. /\ pm_base >= 0 /\ pm_faults - pm_base >= pm_r + pm_w
      /\ \A k \in Pages : k > Row => pm_flash["main"][k] = Empty
      /\ pm_mark => \A k \in Pages : k # Row /\ Valid(pm_flash["main"][k], "PT") =>
                                       pm_flash["main"][k].tab = Compiled
      /\ pm_flash["main"][Row] # Good => pm_faults - pm_base > pm_r + pm_w
  BY <1>1 DEF PmtInv, StoreKnown
<1>7. pm_faults \in Nat /\ pm_faults' \in Nat /\ pm_base \in Int
  BY <1>1, <1>5, AtStore
<1>8. CASE ok /\ page_buf' = Good /\ pm_pc' = "ready"
  <2>1. pm_flash["main"][Row] = Good
    BY <1>5, <1>8
  <2>2. StoredUnlessTried'
    <3>1. \E k \in Pages : pm_flash'["main"][k] = Page("PT", Compiled)
      BY <1>1, <1>4, <2>1 DEF Good
    <3> QED BY <3>1 DEF StoredUnlessTried
  <2>3. pm_mark => \A k \in Pages : Valid(pm_flash["main"][k], "PT") => pm_flash["main"][k].tab = Compiled
    BY <1>6, <2>1, PageKinds
  <2>4. NoHalfCopy'
    BY <1>1, <2>3 DEF NoHalfCopy
  <2>5. StoreKnown'
    BY <1>8, <2>2, <2>4 DEF StoreKnown, StoreAt
  <2> QED BY <1>1, <1>5, <1>8, <2>5, AtStore, StoreStep DEF StoreAt
<1>9. CASE ~(ok /\ page_buf' = Good) /\ pm_pc' = "mark"
  <2>1. pm_faults' - pm_base > pm_r + pm_w
    <3>1. CASE ok
      <4>1. pm_flash["main"][Row] # Good /\ pm_faults' = pm_faults
        BY <1>5, <1>9, <3>1
      <4> QED BY <1>6, <4>1
    <3>2. CASE ~ok
      <4>1. pm_faults' = pm_faults + 1
        BY <1>5, <3>2
      <4> QED BY <1>4, <1>6, <1>7, <4>1
    <3> QED BY <3>1, <3>2
  <2>2. Row' = Row
    BY <1>1 DEF Row
  <2>3. pm_faults' - pm_base' >= pm_r' + pm_w' /\ pm_faults' - pm_base' > pm_r' + pm_w'
    <3>1. pm_faults' - pm_base >= pm_r + pm_w
      BY <1>1, <1>4, <1>7, <1>5, <1>6, MoreFaults
    <3> QED BY <1>1, <2>1, <3>1
  <2>4. StoreKnown'
    BY <1>1, <1>6, <1>9, <2>2, <2>3 DEF StoreKnown, StoreAt
  <2> QED BY <1>1, <1>4, <1>5, <1>9, <2>4, AtStore, StoreStep DEF StoreAt
<1> QED BY <1>2, <1>3, <1>8, <1>9

LEMMA MarkTableStep == ASSUME PmtInv, MarkTable PROVE PmtInv'
<1>1. /\ pm_pc = "mark" /\ pm_pc \in StoreAt /\ pm_w < RETRY_TIMES /\ Unsign(Row)
      /\ pm_r' = pm_r + 1 /\ pm_w' = 0 /\ pm_pc' = IF pm_r' = RETRY_TIMES THEN "ready" ELSE "write"
      /\ UNCHANGED <<pm_at, page_buf, lastest_part, pm_parts, pm_full, pm_kept, pm_cuts, pm_seen, pm_base>>
  BY DEF MarkTable, NextRound, Goto, StartVars, StoreAt, PmtInv, LoopsKnown
<1>2. /\ Row \in Pages /\ Row = pm_w + pm_r * RETRY_TIMES /\ pm_w \in Nat /\ pm_r \in Nat
      /\ pm_r < RETRY_TIMES /\ RETRY_TIMES \in Nat /\ P \in Nat /\ pm_r * RETRY_TIMES \in Nat
      /\ (pm_r + 1) * RETRY_TIMES = pm_r * RETRY_TIMES + RETRY_TIMES
  BY <1>1, RowInBlock
<1>3. /\ pm_flash' \in TwoBlocks /\ pm_faults' \in 0 .. PmtFaults /\ pm_faults <= pm_faults'
      /\ \A j \in Pages : j # Row => pm_flash'["main"][j] = pm_flash["main"][j]
      /\ pm_mark' \in BOOLEAN /\ (pm_mark' => pm_mark)
      /\ pm_mark' => ~Valid(pm_flash'["main"][Row], "PT")
  BY <1>1, <1>2, AtStore, UnsignStep
<1>4. /\ pm_base >= 0 /\ pm_faults - pm_base > pm_r + pm_w
      /\ \A k \in Pages : k > Row => pm_flash["main"][k] = Empty
      /\ pm_mark => \A k \in Pages : k # Row /\ Valid(pm_flash["main"][k], "PT") =>
                                       pm_flash["main"][k].tab = Compiled
  BY <1>1 DEF PmtInv, StoreKnown
<1>5. Row' > Row /\ Row' \in Nat
  <2> DEFINE a == pm_r * RETRY_TIMES
  <2>1. Row' = 0 + (pm_r + 1) * RETRY_TIMES
    BY <1>1 DEF Row
  <2>2. a \in Nat /\ Row = pm_w + a /\ (pm_r + 1) * RETRY_TIMES = a + RETRY_TIMES
    BY <1>2
  <2> HIDE DEF a
  <2>3. Row' = 0 + (a + RETRY_TIMES)
    BY <2>1, <2>2
  <2> QED BY <1>1, <1>2, <2>2, <2>3
<1>6. /\ pm_faults \in Nat /\ pm_faults' \in Nat /\ pm_base \in Int /\ Row \in Nat
      /\ \A k \in Pages : k \in Nat
  BY <1>1, <1>2, <1>3, AtStore DEF Pages
<1>7. pm_faults' - pm_base' >= pm_r' + pm_w'
  <2>1. pm_faults <= pm_faults' /\ pm_faults - pm_base > pm_r + pm_w
    BY <1>3, <1>4
  <2>2. pm_faults' - pm_base >= pm_r + (pm_w + 1) /\ pm_faults' - pm_base >= (pm_r + 1) + 0
    BY <1>2, <1>6, <2>1, MoreFaults
  <2> QED BY <1>1, <2>2
<1>8. \A k \in Pages : k > Row => pm_flash'["main"][k] = Empty
  BY <1>3, <1>4, <1>6
<1>9. /\ \A k \in Pages : k > Row' => pm_flash'["main"][k] = Empty
      /\ Row' \in Pages => pm_flash'["main"][Row'] = Empty
  BY <1>5, <1>6, <1>8
<1>10. pm_mark' => \A k \in Pages : Valid(pm_flash'["main"][k], "PT") => pm_flash'["main"][k].tab = Compiled
  <2> SUFFICES ASSUME pm_mark', NEW k \in Pages, Valid(pm_flash'["main"][k], "PT")
               PROVE  pm_flash'["main"][k].tab = Compiled
    OBVIOUS
  <2>1. k # Row
    BY <1>3
  <2> QED BY <1>3, <1>4, <2>1
<1>11. pm_base' >= 0
  BY <1>1, <1>4
<1>12. StoreKnown'
  <2>1. CASE pm_r' = RETRY_TIMES
    <3>1. pm_pc' = "ready"
      BY <1>1, <2>1
    <3>2. ~(pm_faults' - pm_base' < RETRY_TIMES)
      <4>1. pm_faults' - pm_base >= RETRY_TIMES + 0
        BY <1>1, <1>7, <2>1
      <4>2. \A n \in Nat, d \in Int : d >= n + 0 => ~(d < n)
        OBVIOUS
      <4>3. pm_faults' - pm_base \in Int
        BY <1>6
      <4>4. ~(pm_faults' - pm_base < RETRY_TIMES)
        BY <1>2, <4>1, <4>2, <4>3
      <4> QED BY <1>1, <4>4
    <3> QED BY <1>10, <3>1, <3>2 DEF StoreKnown, StoreAt, StoredUnlessTried, NoHalfCopy
  <2>2. CASE pm_r' # RETRY_TIMES
    <3>1. pm_pc' = "write"
      BY <1>1, <2>2
    <3> QED BY <1>7, <1>9, <1>10, <1>11, <3>1 DEF StoreKnown, StoreAt
  <2> QED BY <2>1, <2>2
<1>13. pm_w' \in 0 .. RETRY_TIMES /\ pm_r' \in 0 .. RETRY_TIMES /\ (pm_r' # RETRY_TIMES => pm_r' < RETRY_TIMES)
  BY <1>1, <1>2
<1>14. pm_pc' \in {"write", "ready"} /\ (pm_pc' = "write" => pm_r' # RETRY_TIMES)
  BY <1>1
<1> QED BY <1>1, <1>3, <1>12, <1>13, <1>14, AtStore, StoreStep DEF StoreAt
-----------------------------------------------------------------------------
\* A loss of power leaves the mirror block alone, and of the main block what
\* the operation at hand makes of it.
LEMMA CutLeaves ==
  ASSUME PmtInv, PowerCut
  PROVE  /\ pm_flash' \in TwoBlocks
         /\ pm_pc \notin {"erase", "write", "unwrite", "mark"} => pm_flash' = pm_flash
<1>1. pm_flash \in TwoBlocks
  BY DEF PmtInv, PmtTypes, PmtTypeOK
<1>2. PICK m \in Torn \cup {pm_flash["main"]} : pm_flash' = [pm_flash EXCEPT !["main"] = m]
  BY DEF PowerCut
<1>3. \A m1 \in Torn : /\ pm_pc \in {"erase", "write", "unwrite", "mark"}
                       /\ m1 \in [Pages -> Stored]
  <2>1. [k \in Pages |-> Junk] \in [Pages -> Stored]
    BY PageKinds
  <2>2. [pm_flash["main"] EXCEPT ![Row] = Junk] \in [Pages -> Stored]
    BY <1>1, PageKinds DEF TwoBlocks
  <2>3. CASE pm_pc = "erase"
    BY <2>1, <2>3 DEF Torn
  <2>4. CASE pm_pc \in {"unwrite", "mark"}
    BY <2>2, <2>4 DEF Torn
  <2>5. CASE pm_pc = "write"
    <3>1. Torn = IF pm_w < RETRY_TIMES THEN {[pm_flash["main"] EXCEPT ![Row] = Junk]} ELSE {}
      BY <2>5 DEF Torn
    <3> QED BY <2>2, <2>5, <3>1
  <2>6. CASE pm_pc \notin {"erase", "write", "unwrite", "mark"}
    BY <2>6 DEF Torn
  <2> QED BY <2>3, <2>4, <2>5, <2>6
<1>4. m \in [Pages -> Stored]
  BY <1>1, <1>2, <1>3 DEF TwoBlocks
<1>5. pm_flash' \in TwoBlocks
  BY <1>1, <1>2, <1>4 DEF TwoBlocks
<1>6. pm_pc \notin {"erase", "write", "unwrite", "mark"} => pm_flash' = pm_flash
  <2>1. pm_pc \notin {"erase", "write", "unwrite", "mark"} => m = pm_flash["main"]
    BY <1>2, <1>3
  <2> QED BY <1>1, <1>2, <2>1 DEF TwoBlocks
<1> QED BY <1>5, <1>6

LEMMA PowerCutStep == ASSUME PmtInv, PowerCut PROVE PmtInv'
<1>1. /\ pm_pc' = "off"
      /\ UNCHANGED <<pm_at, pm_r, pm_w, page_buf, lastest_part, pm_parts, pm_full, pm_kept, pm_seen, pm_base,
                     pm_mark, pm_faults>>
  BY DEF PowerCut, Goto
<1>2. pm_flash' \in TwoBlocks
  BY CutLeaves
<1>3. PmtTypeOK'
  BY <1>1, <1>2 DEF PmtInv, PmtTypes, PmtTypeOK
<1>4. PmtTypes'
  BY <1>1, <1>3 DEF PmtInv, PmtTypes
<1>5. LoopsKnown' /\ FoundKnown' /\ StoreKnown'
  BY <1>1 DEF LoopsKnown, FoundKnown, StoreKnown, SearchAt, PairAts, BeforeAt, StoreAt, NewAt
<1> QED BY <1>4, <1>5 DEF PmtInv

LEMMA PmtNextStep == ASSUME PmtInv, [PmtNext]_pmtVars PROVE PmtInv'
<1>1. CASE PmtStep
  BY <1>1, StartStep, LoadMainStep, NoMainStep, FindMirrorStep, ReadMirrorStep, FromCompilerStep,
     UseTableStep, FindEmptyStep, UseEmptyStep, NoEmptyStep, WritePairStep, CheckPairStep, RereadPairStep,
     PairDoneStep, EraseMainStep, WriteTableStep, UnwriteStep, WriteGivesUpStep, VerifyTableStep,
     MarkTableStep
     DEF PmtStep
<1>2. CASE PowerCut
  BY <1>2, PowerCutStep
<1>3. CASE UNCHANGED pmtVars
  <2>1. UNCHANGED <<pm_flash, pm_pc, pm_at, pm_r, pm_w, page_buf, lastest_part, pm_parts, pm_full,
                    pm_kept, pm_seen, pm_base, pm_mark, pm_faults, pm_cuts>>
    BY <1>3 DEF pmtVars
  <2>2. PmtTypes'
    BY <2>1 DEF PmtInv, PmtTypes, PmtTypeOK
  <2>3. LoopsKnown'
    BY <2>1 DEF PmtInv, LoopsKnown
  <2>4. FoundKnown'
    BY <2>1 DEF PmtInv, FoundKnown, NoMainCopy
  <2>5. StoreKnown'
    BY <2>1 DEF PmtInv, StoreKnown, Row, StoredUnlessTried, NoHalfCopy
  <2> QED BY <2>2, <2>3, <2>4, <2>5 DEF PmtInv
<1> QED BY <1>1, <1>2, <1>3 DEF PmtNext

LEMMA PmtInvariant == PmtSpec => []PmtInv
<1>1. PmtInit => PmtInv
  BY PmtBegins
<1>2. PmtInv /\ [PmtNext]_pmtVars => PmtInv'
  BY PmtNextStep
<1> QED BY <1>1, <1>2, PTL DEF PmtSpec

\* The partitions U-Boot makes are those of the newest table that its reads
\* found (load_exist_part_tab), for blocks of any size with any pages in them.
THEOREM NewestTableIsUsed == PmtSpec => []TableIsNewest
<1>1. PmtInv => TableIsNewest
  BY DEF PmtInv, FoundKnown, TableIsNewest
<1> QED BY <1>1, PmtInvariant, PTL

\* After a start that erased the main block the new table is in it unless
\* RETRY_TIMES operations failed, and a copy that failed does not pass for one
\* (the loops of update_part_tab).
THEOREM NewTableIsStored == PmtSpec => []TableIsStored
<1>1. PmtInv => TableIsStored
  <2> SUFFICES ASSUME PmtInv
               PROVE  TableIsStored
    OBVIOUS
  <2>1. CASE pm_pc = "ready"
    BY <2>1 DEF PmtInv, StoreKnown, TableIsStored
  <2>2. CASE pm_pc # "ready"
    BY <2>2 DEF TableIsStored, StoredUnlessTried, NoHalfCopy
  <2> QED BY <2>1, <2>2
<1> QED BY <1>1, PmtInvariant, PTL

\* As long as the reads of a start return what is stored, and there is a copy,
\* no step of it changes either block, not even one that is cut off.
LEMMA CopiesUntouched ==
  ASSUME PmtInv, [PmtNext]_pmtVars, pm_seen, Copies(pm_kept) # {}
  PROVE  pm_flash' = pm_flash
<1>1. pm_pc \notin NewAt
  BY DEF PmtInv, FoundKnown
<1>2. pm_pc \notin {"empty", "found", "pair", "erase", "write", "unwrite", "mark"}
  BY <1>1 DEF NewAt, PairAts, StoreAt
<1>3. CASE PowerCut
  BY <1>2, <1>3, CutLeaves
<1>4. CASE PmtStep
  BY <1>2, <1>4 DEF PmtStep, StartPmt, LoadMain, NoMain, FindMirror, ReadMirror, FromCompiler, UseTable,
     FindEmpty, UseEmpty, NoEmpty, WritePair, CheckPair, RereadPair, PairDone, EraseMain, WriteTable, Unwrite,
     WriteGivesUp, VerifyTable, MarkTable
<1> QED BY <1>3, <1>4 DEF PmtNext, pmtVars

\* A start that could read a stored table leaves both blocks as they are,
\* wherever the power fails (part_init_pmt writes only on ERR_NO_EXIST).
THEOREM StoredCopiesSurvive == PmtSpec => CopiesSurvive
<1> DEFINE Survive == pm_seen /\ Copies(pm_kept) # {} => pm_flash' = pm_flash
<1>1. PmtInv /\ [PmtNext]_pmtVars => [Survive]_pmtVars
  BY CopiesUntouched
<1>2. CopiesSurvive <=> [][Survive]_pmtVars
  BY DEF CopiesSurvive
<1> HIDE DEF Survive
<1> QED BY <1>1, <1>2, PmtInvariant, PTL DEF PmtSpec
-----------------------------------------------------------------------------
(* MCStorage: each step is one of a part, and no step to the others.       *)

StorageInv == CommandInv /\ BlockInv /\ CardInitInv /\ NorInv /\ PmtInv

LEMMA PartsStep ==
  ASSUME [StorageNext]_storageVars
  PROVE  /\ [CommandNext]_cmVars /\ [BlockNext]_mbVars /\ [InitNext]_miVars
         /\ [NorNext]_norVars /\ [PmtNext]_pmtVars
BY DEF StorageNext, storageVars, Card, CommandPart, BlockPart, InitPart, NorPart, PmtPart,
       OnlyCommand, OnlyBlock, OnlyInit, OnlyNor, OnlyPmt, CardAlone

LEMMA StorageInvariant == StorageSpec => []StorageInv
<1>1. StorageInit => StorageInv
  BY CommandBegins, BlockBegins, InitBegins, NorBegins, PmtBegins DEF StorageInit, StorageInv
<1>2. StorageInv /\ [StorageNext]_storageVars => StorageInv'
  <2> SUFFICES ASSUME StorageInv, [StorageNext]_storageVars
               PROVE  StorageInv'
    OBVIOUS
  <2>1. /\ [CommandNext]_cmVars /\ [BlockNext]_mbVars /\ [InitNext]_miVars
        /\ [NorNext]_norVars /\ [PmtNext]_pmtVars
    BY PartsStep
  <2>2. CommandInv /\ BlockInv /\ CardInitInv /\ NorInv /\ PmtInv
    BY DEF StorageInv
  <2>3. CommandInv' /\ BlockInv' /\ CardInitInv'
    BY <2>1, <2>2, CommandStep, BlockStep, InitStep
  <2>4. NorInv' /\ PmtInv'
    BY <2>1, <2>2, NorStep, PmtNextStep
  <2> QED BY <2>3, <2>4 DEF StorageInv
<1> QED BY <1>1, <1>2, PTL DEF StorageSpec

\* Registers, states of the cards and flashes, and counters of retries keep to
\* the values they can have, for cards, flashes and requests of any kind.
THEOREM StorageTypesCorrect == StorageSpec => []StorageTypeOK
<1>1. StorageInv => StorageTypeOK
  <2> SUFFICES ASSUME StorageInv
               PROVE  StorageTypeOK
    OBVIOUS
  <2>1. CommandTypeOK
    BY DEF StorageInv, CommandInv, CommandTypes
  <2>2. BlockTypeOK
    BY DEF StorageInv, BlockInv, BlockTypes
  <2>3. InitTypeOK
    BY DEF StorageInv, CardInitInv, InitTypes
  <2>4. NorTypeOK /\ PmtTypeOK
    BY DEF StorageInv, NorInv, NorTypes, PmtInv, PmtTypes
  <2> QED BY <2>1, <2>2, <2>3, <2>4 DEF StorageTypeOK
<1> QED BY <1>1, StorageInvariant, PTL
=============================================================================
