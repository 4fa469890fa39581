----------------------------- MODULE PageDevice -----------------------------
(***************************************************************************)
(* What the functions of mtk_nand.c below the bad-block table promise to   *)
(* it: a device whose pages are read, programmed and erased one call at a  *)
(* time.  A read never passes off one page's contents as another's; it may *)
(* report an error.  Once the controller has not answered in time there is *)
(* no promise left.                                                        *)
(***************************************************************************)
EXTENDS Naturals

CONSTANTS NumPages, PagesPerBlock, Data, Blank, Spoiled, Marked

VARIABLES
  pages,        \* what each page holds
  asked,        \* the request: operation, page and data
  reply, trusted, two_dies

devVars == <<pages, asked, reply, trusted, two_dies>>

PageNos     == 0 .. NumPages - 1
FirstPage(p) == p - (p % PagesPerBlock)
BlockOf(p)   == FirstPage(p) .. FirstPage(p) + PagesPerBlock - 1

DevInit ==
  /\ pages = [p \in PageNos |-> Blank]
  /\ asked = [op |-> "none", page |-> 0, data |-> Blank]
  /\ reply = "none"
  /\ trusted = TRUE
  /\ two_dies \in BOOLEAN

Request(op, p, d) == asked' = [op |-> op, page |-> p, data |-> d]

DevAsk(p) == Request("read", p, Blank) /\ UNCHANGED <<pages, reply, trusted, two_dies>>

\* A page that was programmed twice, half or raw may read as anything.
DevRead ==
  /\ asked.op = "read"
  /\ LET p == asked.page IN
     \/ reply' = "error"
     \/ pages[p] \in Data \cup {Blank} /\ reply' = pages[p]
     \/ pages[p] \in {Spoiled, Marked}
  /\ UNCHANGED <<pages, asked, trusted, two_dies>>

DevProgram(p, d) ==
  /\ Request("program", p, d)
  /\ \/ pages[p] = Blank /\ pages' = [pages EXCEPT ![p] = d] /\ reply' = "done"
     \/ pages[p] # Blank /\ pages' = [pages EXCEPT ![p] = Spoiled] /\ reply' = "done"
     \/ pages' = [pages EXCEPT ![p] = Spoiled] /\ reply' = "fail"
  /\ UNCHANGED <<trusted, two_dies>>

Filled(p, c) == [q \in PageNos |-> IF q \in BlockOf(p) THEN c ELSE pages[q]]

DevErase(p) ==
  /\ Request("erase", p, Blank)
  /\ \/ pages' = Filled(p, Blank) /\ reply' = "done"
     \/ pages' = Filled(p, Spoiled) /\ reply' = "fail"
  /\ UNCHANGED <<trusted, two_dies>>

\* A mark goes to the first page of its block; on a chip with two dies it
\* may go to a page of either die.
DevMark(p) ==
  /\ Request("mark", p, Blank)
  /\ \E q \in IF two_dies THEN PageNos ELSE {FirstPage(p)} :
       \/ reply' = "fail" /\ UNCHANGED pages
       \/ reply' = "fail" /\ pages' = [pages EXCEPT ![q] = Spoiled]
       \/ reply' = "done" /\ pages' = [pages EXCEPT ![q] = Marked]
  /\ UNCHANGED <<trusted, two_dies>>

DevNext ==
  \/ DevRead
  \/ \E p \in PageNos : DevAsk(p) \/ DevErase(p) \/ DevMark(p)
  \/ \E p \in PageNos, d \in Data : DevProgram(p, d)
  \/ ~trusted' /\ UNCHANGED two_dies

DevSpec == DevInit /\ [][DevNext]_devVars
=============================================================================
