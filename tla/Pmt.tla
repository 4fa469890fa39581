-------------------------------- MODULE Pmt --------------------------------
(***************************************************************************)
(* The partition table (PMT) of the NAND flash (partition_mt.c) as U-Boot  *)
(* uses it: at each start it looks for the table in the main block, then   *)
(* in the mirror block, and writes the table it was compiled with when it  *)
(* finds neither.  A write goes through the bad-block manager, so one that *)
(* fails means that its pool is used up.  An erase goes to the address it  *)
(* names (module Bmt): neither block is taken to have been moved.          *)
(***************************************************************************)
EXTENDS Integers, FiniteSetsExt, SequencesExt

CONSTANTS
  P,             \* pages of a block
  RETRY_TIMES,   \* tries to write, for each try to read back
  Tables,        \* what tools may have stored
  Compiled,      \* the table of cust_part.c
  Flashes,        \* what the two blocks hold before the first start
  PmtFaults,     \* bound: operations of the flash that fail
  PmtCuts        \* bound: losses of power

Empty == [sig |-> "FF", tab |-> <<>>]
Junk  == [sig |-> "00", tab |-> <<>>]      \* no signature
Page(sig, tab) == [sig |-> sig, tab |-> tab]
Ruined == << >>                              \* the table of a page whose data is damaged

Pages == 0 .. P - 1

\* What a page can be found to hold.
Stored    == [sig : {"FF", "00", "PT", "MPT"}, tab : Tables \cup {Compiled, Ruined}]
TwoBlocks == [{"main", "mirror"} -> [Pages -> Stored]]

\* All the tries fit in the block; a block has an even number of pages.
ASSUME PmtSizes ==
  /\ P \in Nat \ {0} /\ P % 2 = 0
  /\ RETRY_TIMES \in Nat \ {0, 1} /\ RETRY_TIMES * RETRY_TIMES <= P
  /\ Tables \cup {Compiled} \subseteq Seq(Nat \X Nat)
  /\ Flashes \subseteq TwoBlocks
  /\ PmtFaults \in Nat

VARIABLES
  pm_flash,      \* "main" and "mirror": the pages of the two blocks
  pm_pc,
  pm_at,         \* the page the loops are at
  pm_r, pm_w,    \* retry_r and retry_w
  page_buf,      \* what the last read returned
  lastest_part,  \* the table as loaded; the source spells it so
  pm_parts,      \* the partitions made from it
  pm_full,       \* the page number 0x40, that ends the search for an empty page
  pm_kept,       \* of the start at hand: the flash when it began,
  pm_seen,       \*   whether all its reads returned what was stored,
  pm_base,       \*   pm_faults at the erase of the main block, -1 without one,
  pm_mark,       \*   and whether each copy that failed could be marked
  pm_faults, pm_cuts

pmtVars == <<pm_flash, pm_pc, pm_at, pm_r, pm_w, page_buf, lastest_part, pm_parts, pm_full,
             pm_kept, pm_seen, pm_base, pm_mark, pm_faults, pm_cuts>>

\* is_valid_pt and is_valid_mpt, of the signature in the data and of its copy in
\* the spare bytes.  The two are one field here: the ECC is over both
\* (mtk_nand_configure_fdm), so one is not damaged in a read that works.
Valid(page, sig) == page.sig = sig

\* The result of programming a page: bits only change from 1 to 0.
Over(old, new) == IF old = Empty THEN new ELSE Junk

Damaged(page) == IF page = Empty THEN {Empty} ELSE {Junk, [page EXCEPT !.tab = Ruined]}

\* Every read ignores, or has no, result but the data it leaves in page_buf.
Read(b, k, ok) ==
  \/ ok = TRUE /\ page_buf' = pm_flash[b][k] /\ UNCHANGED <<pm_faults, pm_seen>>
  \/ /\ pm_faults < PmtFaults /\ pm_faults' = pm_faults + 1
     /\ ok = FALSE /\ pm_seen' = FALSE
     /\ page_buf' \in Damaged(pm_flash[b][k])

\* A write works, works but leaves other data, or fails before or after it
\* has changed the page.
Write(b, k, page, ok) ==
  \/ /\ ok = TRUE /\ pm_flash' = [pm_flash EXCEPT ![b][k] = Over(@, page)]
     /\ UNCHANGED pm_faults
  \/ /\ pm_faults < PmtFaults /\ pm_faults' = pm_faults + 1
     /\ \/ /\ ok = TRUE
           /\ \E bad \in Damaged(page) : pm_flash' = [pm_flash EXCEPT ![b][k] = Over(@, bad)]
        \/ ok = FALSE /\ pm_flash' = [pm_flash EXCEPT ![b][k] = Over(@, Junk)]
        \/ ok = FALSE /\ UNCHANGED pm_flash

Goto(pc) == pm_pc' = pc
StartVars == <<pm_parts, pm_full, pm_kept, pm_cuts>>
RetryVars == <<pm_r, pm_w, pm_base, pm_mark>>

\* part_init_pmt clears the tables and the state of the module.
StartPmt ==
  /\ pm_pc = "off" /\ Goto("main") /\ pm_at' = 0 /\ pm_r' = 0 /\ pm_w' = 0
  /\ page_buf' = Junk /\ lastest_part' = <<>> /\ pm_parts' = <<>>
  /\ pm_kept' = pm_flash /\ pm_seen' = TRUE /\ pm_base' = -1 /\ pm_mark' = TRUE
  /\ UNCHANGED <<pm_flash, pm_full, pm_faults, pm_cuts>>

\* load_exist_part_tab: the first page of the main block with a signature.
LoadMain ==
  /\ pm_pc = "main" /\ pm_at < P
  /\ \E ok \in BOOLEAN : Read("main", pm_at, ok)
  /\ IF Valid(page_buf', "PT")
     THEN lastest_part' = page_buf'.tab /\ Goto("construct") /\ UNCHANGED pm_at
     ELSE pm_at' = pm_at + 1 /\ UNCHANGED <<lastest_part, pm_pc>>
  /\ UNCHANGED <<pm_flash, StartVars, RetryVars>>

NoMain ==
  /\ pm_pc = "main" /\ pm_at = P
  /\ Goto("mirror") /\ pm_at' = P - 1
  /\ UNCHANGED <<pm_flash, page_buf, lastest_part, StartVars, RetryVars, pm_seen, pm_faults>>

\* Faulty variant of MirrorFrom: the search begins at the first page.
MirrorFromTop(k) == P - 1 - k

\* The page of a step of the search from the bottom.
MirrorFrom(k) == k

\* Faulty variant of MirrorEnd: the first page is left out.
MirrorEndEarly == 0

MirrorEnd == -1       \* where the search from the bottom ends

\* find_mirror_pt_from_bottom: the last copy is the newest.
FindMirror ==
  /\ pm_pc = "mirror" /\ pm_at # MirrorEnd
  /\ \E ok \in BOOLEAN : Read("mirror", MirrorFrom(pm_at), ok)
  /\ IF Valid(page_buf', "MPT")
     THEN Goto("copy") /\ UNCHANGED pm_at
     ELSE pm_at' = pm_at - 1 /\ UNCHANGED pm_pc
  /\ UNCHANGED <<pm_flash, lastest_part, StartVars, RetryVars>>

\* The copy is read once more; its signature is not looked at again.
ReadMirror ==
  /\ pm_pc = "copy"
  /\ \E ok \in BOOLEAN : Read("mirror", MirrorFrom(pm_at), ok)
  /\ lastest_part' = page_buf'.tab /\ Goto("construct")
  /\ UNCHANGED <<pm_flash, pm_at, StartVars, RetryVars>>

\* Faulty variant of Parts: the entry that ends the table counts.
PartsAll(tab) == tab

\* construct_mtd_partition: entries, of offset and size, up to the first of size 0.
Parts(tab) ==
  LET end == SelectInSeq(tab, LAMBDA e : e[2] = 0)
  IN  IF end = 0 THEN tab ELSE SubSeq(tab, 1, end - 1)

\* get_part_tab_from_complier; new_part_tab(NULL) takes the table as changed
\* and goes one block back, to the main block.
FromCompiler ==
  /\ pm_pc = "mirror" /\ pm_at = MirrorEnd
  /\ lastest_part' = Compiled /\ pm_parts' = Parts(Compiled) /\ Goto("empty") /\ pm_at' = 0
  /\ UNCHANGED <<pm_flash, page_buf, pm_full, pm_kept, pm_cuts, RetryVars, pm_seen, pm_faults>>

UseTable ==
  /\ pm_pc = "construct" /\ Goto("ready") /\ pm_parts' = Parts(lastest_part)
  /\ UNCHANGED <<pm_flash, pm_at, page_buf, lastest_part, pm_full, pm_kept, pm_cuts, RetryVars,
                 pm_seen, pm_faults>>

\* find_empty_page_from_top: the first page that reads as empty ...
FindEmpty ==
  /\ pm_pc = "empty" /\ pm_at < P
  /\ \E ok \in BOOLEAN :
       /\ Read("main", pm_at, ok)
       /\ IF ok /\ page_buf' = Empty
          THEN Goto("found") /\ UNCHANGED pm_at
          ELSE pm_at' = pm_at + 1 /\ UNCHANGED pm_pc
  /\ UNCHANGED <<pm_flash, lastest_part, StartVars, RetryVars>>

ErasedBlock(b) == [pm_flash EXCEPT ![b] = [k \in Pages |-> Empty]]

\* ... or the page past the last, and then the next even one.
UseEmpty ==
  /\ pm_pc \in {"empty", "found"} /\ (pm_pc = "empty" => pm_at = P)
  /\ pm_at # pm_full /\ Goto("pair") /\ pm_at' = pm_at + (pm_at % 2)
  /\ page_buf' = Page("MPT", lastest_part)
  /\ UNCHANGED <<pm_flash, lastest_part, StartVars, RetryVars, pm_seen, pm_faults>>

\* At page 0x40 the block counts as full and is erased, if that works.
NoEmpty ==
  /\ pm_pc \in {"empty", "found"} /\ (pm_pc = "empty" => pm_at = P)
  /\ pm_at = pm_full
  /\ \/ pm_flash' = ErasedBlock("main") /\ Goto("pair") /\ pm_at' = 0
        /\ page_buf' = Page("MPT", lastest_part) /\ UNCHANGED pm_faults
     \/ /\ pm_faults < PmtFaults /\ pm_faults' = pm_faults + 1
        /\ Goto("erase") /\ UNCHANGED <<pm_flash, pm_at, page_buf>>
  /\ UNCHANGED <<lastest_part, StartVars, RetryVars, pm_seen>>

\* The two pages begin at an even one; past the last page of the main block
\* they are those of the next block, the mirror.
PairAt(i) == IF pm_at + i < P THEN <<"main", pm_at + i>> ELSE <<"mirror", pm_at + i - P>>

\* new_part_tab: two copies with the signature of a mirror, from page_buf.  A
\* copy that fails its read back is to be marked, but is read once more, and
\* so the second is a copy of what the first page returned.
WritePair ==
  /\ pm_pc = "pair" /\ pm_w < 2
  /\ \E ok \in BOOLEAN :
       /\ Write(PairAt(pm_w)[1], PairAt(pm_w)[2], page_buf, ok)
       /\ IF ok THEN Goto("check") /\ UNCHANGED pm_w
                ELSE pm_w' = pm_w + 1 /\ UNCHANGED pm_pc
  /\ UNCHANGED <<pm_at, pm_r, page_buf, lastest_part, StartVars, pm_seen, pm_base, pm_mark>>

CheckPair ==
  /\ pm_pc = "check"
  /\ \E ok \in BOOLEAN :
       /\ Read(PairAt(pm_w)[1], PairAt(pm_w)[2], ok)
       /\ IF ok /\ page_buf' = page_buf THEN Goto("pair") /\ pm_w' = pm_w + 1
                                        ELSE Goto("reread") /\ UNCHANGED pm_w
  /\ UNCHANGED <<pm_flash, pm_at, pm_r, lastest_part, StartVars, pm_base, pm_mark>>

RereadPair ==
  /\ pm_pc = "reread" /\ Goto("pair") /\ pm_w' = pm_w + 1
  /\ \E ok \in BOOLEAN : Read(PairAt(pm_w)[1], PairAt(pm_w)[2], ok)
  /\ UNCHANGED <<pm_flash, pm_at, pm_r, lastest_part, StartVars, pm_base, pm_mark>>

PairDone ==
  /\ pm_pc = "pair" /\ pm_w = 2 /\ Goto("erase") /\ pm_w' = 0
  /\ UNCHANGED <<pm_flash, pm_at, pm_r, page_buf, lastest_part, StartVars, pm_seen, pm_base,
                 pm_mark, pm_faults>>

\* update_part_tab: without an erase that works nothing is written.
EraseMain ==
  /\ pm_pc = "erase"
  /\ \/ pm_flash' = ErasedBlock("main") /\ Goto("write") /\ pm_base' = pm_faults /\ UNCHANGED pm_faults
     \/ /\ pm_faults < PmtFaults /\ pm_faults' = pm_faults + 1
        /\ Goto("ready") /\ UNCHANGED <<pm_flash, pm_base>>
  /\ UNCHANGED <<pm_at, pm_r, pm_w, page_buf, lastest_part, StartVars, pm_seen, pm_mark>>

\* Faulty variant of Row: each round writes the pages of the round before.
RowSame == pm_w

Row == pm_w + pm_r * RETRY_TIMES

WriteTable ==
  /\ pm_pc = "write" /\ pm_w < RETRY_TIMES
  /\ \E ok \in BOOLEAN :
       /\ Write("main", Row, Page("PT", lastest_part), ok)
       /\ IF ok THEN Goto("verify") ELSE Goto("unwrite")
  /\ UNCHANGED <<pm_at, pm_r, pm_w, page_buf, lastest_part, StartVars, pm_seen, pm_base, pm_mark>>

\* Faulty variant of Unsign: the failed copy stays as it is.
UnsignNone(k) == UNCHANGED <<pm_flash, pm_faults, pm_mark>>

\* A copy that failed is marked: its signature is overwritten with zeros.
Unsign(k) == \E ok \in BOOLEAN : Write("main", k, Junk, ok) /\ pm_mark' = (pm_mark /\ ok)

Unwrite ==
  /\ pm_pc = "unwrite" /\ Unsign(Row)
  /\ pm_w' = pm_w + 1 /\ Goto("write")
  /\ UNCHANGED <<pm_at, pm_r, page_buf, lastest_part, StartVars, pm_seen, pm_base>>

\* The result does not tell this end from the others, whatever the comment on
\* the mirror says: memset makes mirror_pt_dl non-zero from the start.
WriteGivesUp ==
  /\ pm_pc = "write" /\ pm_w = RETRY_TIMES /\ Goto("ready")
  /\ UNCHANGED <<pm_flash, pm_at, page_buf, lastest_part, StartVars, RetryVars, pm_seen, pm_faults>>

\* Faulty variant of Same: the result of the read is what counts.
SameRead(ok) == ok

\* The read back must work and return what was written.  memcmp compares the
\* data only; of the spare bytes it is the read that tells (see Valid).
Same(ok) == ok /\ page_buf' = Page("PT", lastest_part)

VerifyTable ==
  /\ pm_pc = "verify"
  /\ \E ok \in BOOLEAN :
       /\ Read("main", Row, ok)
       /\ IF Same(ok) THEN Goto("ready") ELSE Goto("mark")
  /\ UNCHANGED <<pm_flash, pm_at, lastest_part, StartVars, RetryVars>>

\* Faulty variant of NextRound: retry_r is not counted.
NextRoundSame == pm_r

NextRound == pm_r + 1

MarkTable ==
  /\ pm_pc = "mark" /\ Unsign(Row)
  /\ pm_r' = NextRound /\ pm_w' = 0
  /\ Goto(IF pm_r' = RETRY_TIMES THEN "ready" ELSE "write")
  /\ UNCHANGED <<pm_at, page_buf, lastest_part, StartVars, pm_seen, pm_base>>

\* What an operation that is cut off leaves of the main block.
Torn ==
  CASE pm_pc = "erase" -> {[k \in Pages |-> Junk]}
    [] pm_pc \in {"unwrite", "mark"} -> {[pm_flash["main"] EXCEPT ![Row] = Junk]}
    [] pm_pc = "write" /\ pm_w < RETRY_TIMES -> {[pm_flash["main"] EXCEPT ![Row] = Junk]}
    [] OTHER -> {}

PowerCut ==
  /\ pm_pc # "off" /\ pm_cuts < PmtCuts
  /\ pm_cuts' = pm_cuts + 1 /\ Goto("off")
  /\ \E m \in Torn \cup {pm_flash["main"]} : pm_flash' = [pm_flash EXCEPT !["main"] = m]
  /\ UNCHANGED <<pm_at, pm_r, pm_w, page_buf, lastest_part, pm_parts, pm_full, pm_kept,
                 pm_seen, pm_base, pm_mark, pm_faults>>

PmtInit ==
  /\ pm_flash \in Flashes
  /\ pm_pc = "off" /\ pm_at = 0 /\ pm_r = 0 /\ pm_w = 0 /\ page_buf = Junk
  /\ lastest_part = <<>> /\ pm_parts = <<>> /\ pm_full \in {P \div 2, P} /\ pm_kept = pm_flash /\ pm_seen = TRUE /\ pm_base = -1
  /\ pm_mark = TRUE /\ pm_faults = 0 /\ pm_cuts = 0

PmtStep ==
  \/ StartPmt \/ LoadMain \/ NoMain \/ FindMirror \/ ReadMirror \/ FromCompiler \/ UseTable
  \/ FindEmpty \/ UseEmpty \/ NoEmpty \/ WritePair \/ CheckPair \/ RereadPair \/ PairDone
  \/ EraseMain \/ WriteTable \/ Unwrite \/ WriteGivesUp \/ VerifyTable \/ MarkTable

PmtNext == PmtStep \/ PowerCut

PmtSpec == PmtInit /\ [][PmtNext]_pmtVars /\ WF_pmtVars(PmtStep)

-----------------------------------------------------------------------------
PmtTypeOK ==
  /\ pm_flash \in TwoBlocks
  /\ pm_pc \in {"off", "main", "mirror", "copy", "construct", "empty", "found", "pair", "check", "reread", "erase",
                "write", "unwrite", "verify", "mark", "ready"}
  /\ pm_at \in -1 .. P /\ pm_r \in 0 .. RETRY_TIMES /\ pm_w \in 0 .. RETRY_TIMES
  /\ lastest_part \in Tables \cup {Compiled, Ruined} /\ pm_base \in -1 .. PmtFaults
  /\ \A i \in DOMAIN pm_parts : pm_parts[i][2] > 0

\* The copies in a flash that the start at hand may use.
Copies(flash) == {k \in Pages : Valid(flash["main"][k], "PT")} \cup
                 {P + k : k \in {j \in Pages : Valid(flash["mirror"][j], "MPT")}}

Newest(flash) ==
  CASE Copies(flash) = {} -> Compiled
    [] \E k \in Copies(flash) : k < P -> flash["main"][Min(Copies(flash))].tab
    [] OTHER -> flash["mirror"][Max(Copies(flash)) - P].tab

\* When every read of a start returned what was stored, the partitions are
\* those of the main block, else of the newest copy in the mirror block, and
\* those compiled in only when neither has any (load_exist_part_tab).
TableIsNewest == pm_pc = "ready" /\ pm_seen => pm_parts = Parts(Newest(pm_kept))

\* A start that could read a stored table changes neither block, wherever the
\* power fails (part_init_pmt writes only on ERR_NO_EXIST).
CopiesSurvive == [][pm_seen /\ Copies(pm_kept) # {} => pm_flash' = pm_flash]_pmtVars

\* After a start that erased the main block the table is in it, unless
\* RETRY_TIMES operations or more failed (the two loops of update_part_tab).
StoredUnlessTried ==
  pm_pc = "ready" /\ pm_base >= 0 /\ pm_faults - pm_base < RETRY_TIMES
    => \E k \in Pages : pm_flash["main"][k] = Page("PT", Compiled)

\* A copy that could not be written or read back is never found by a later
\* start, as long as its signature could be overwritten.
NoHalfCopy ==
  pm_pc = "ready" /\ pm_base >= 0 /\ pm_mark
    => \A k \in Pages : Valid(pm_flash["main"][k], "PT") => pm_flash["main"][k].tab = Compiled

\* After a start the main block holds the table if it was erased for it, and no
\* copy that failed can pass for it: StoredUnlessTried and NoHalfCopy.
TableIsStored == StoredUnlessTried /\ NoHalfCopy
=============================================================================
