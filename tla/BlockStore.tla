----------------------------- MODULE BlockStore -----------------------------
(***************************************************************************)
(* What the NAND stack promises to its host: an array of blocks of pages   *)
(* that never go bad.  A request that is answered with success took        *)
(* effect; while it runs, and when power fails under it, only the pages it *)
(* addresses may change, and only to their old, their new or the erased    *)
(* value.  Nothing is promised for a block nobody has erased yet, whose    *)
(* erase failed or that the host itself has marked bad (`void'), nor once  *)
(* the device has refused a request for want of spare blocks (`worn').     *)
(*                                                                         *)
(* A block that went bad is kept in the pool, and two promises end there:  *)
(* an erase of a block that has been written in the pool does not reach it *)
(* (`stuck'), and a loss of power may lose a block whose own place is not  *)
(* marked bad (`loose').  Only a write makes a block stuck, and only a     *)
(* request for it makes a block loose.                                     *)
(***************************************************************************)
EXTENDS Naturals

CONSTANTS System, Pages, Data, FF

VARIABLES content,   \* what a read of a page returns
          req,       \* the host's request in progress
          void,      \* blocks without defined content
          worn,      \* a request has been refused
          stuck,     \* blocks an erase does not reach
          loose      \* blocks a loss of power may lose

vars == <<content, req, void, worn, stuck, loose>>

NoReq == [op |-> "none", block |-> 0, page |-> 0, data |-> FF]

Init == /\ content \in [System -> [Pages -> Data \cup {FF}]]
        /\ req = NoReq
        /\ void = System
        /\ worn = FALSE
        /\ stuck = {} /\ loose = {}

(* While request r runs, a page keeps its value unless r addresses it: the *)
(* page a write addresses may read as erased or as the new value, and an   *)
(* erase may do anything to its block.                                     *)
During(r, b, p) ==
  {content[b][p]} \cup
    IF r.op = "write" /\ b = r.block /\ p = r.page THEN {r.data, FF} ELSE {}

Untouched(r) == System \ (void' \cup IF r.op = "erase" THEN {r.block} ELSE {})

\* Only the block of request r gets stuck or loose.
Keeps(r) ==
  /\ stuck' \ (stuck \cup void') \subseteq {b \in System : r.op = "write" /\ b = r.block}
  /\ loose' \ (loose \cup void') \subseteq {b \in System : r # NoReq /\ b = r.block}

Bounded(r) == /\ \A b \in Untouched(r) : \A p \in Pages :
                   content'[b][p] \in During(r, b, p)
              /\ Keeps(r)

Submit == /\ req = NoReq
          /\ req' # NoReq
          /\ UNCHANGED <<void, worn>>
          /\ Bounded(NoReq)

Progress == /\ UNCHANGED <<req, void, worn>>
            /\ Bounded(req)

\* The host is told that its request succeeded.
Succeed ==
  /\ req # NoReq
  /\ req' = NoReq
  /\ void' = IF req.op # "erase" THEN void
             ELSE IF req.block \in stuck THEN void \cup {req.block} ELSE void \ {req.block}
  /\ \A b \in System \ void' : \A p \in Pages :
       content'[b][p] = IF b = req.block /\ req.op = "erase" THEN FF
                        ELSE IF b = req.block /\ req.op = "write" /\ p = req.page
                        THEN req.data ELSE content[b][p]
  /\ Keeps(req)
  /\ UNCHANGED worn

\* The host marks a block bad: it gives its content up.
GiveUp == \E b \in System : /\ req = NoReq
                            /\ void' = void \cup {b}
                            /\ \A c \in System \ void' : content'[c] = content[c]
                            /\ Keeps(NoReq)
                            /\ UNCHANGED <<req, worn>>

\* The host is told that its erase failed: it gives the block up.
EraseFails == /\ req.op = "erase" /\ req' = NoReq
              /\ void' = void \cup {req.block}
              /\ Bounded(req)
              /\ UNCHANGED worn

Refuse == /\ req # NoReq
          /\ req' = NoReq
          /\ worn' = TRUE
          /\ void' = void

\* An unclean shutdown leaves a block that is being erased, or that holds
\* nothing but erased pages, without defined content.
Unwritten == {b \in System : \A p \in Pages :
                \/ content[b][p] = FF
                \/ req.op = "write" /\ b = req.block /\ p = req.page}

PowerCut ==
  /\ req' = NoReq
  /\ void \subseteq void'
  /\ void' \subseteq void \cup Unwritten \cup loose
                \cup IF req.op = "erase" THEN {req.block} ELSE {}
  /\ Bounded(req)
  /\ UNCHANGED worn

Worn == worn /\ worn'

Next == Submit \/ Progress \/ Succeed \/ GiveUp \/ EraseFails \/ Refuse \/ PowerCut \/ Worn

Spec == Init /\ [][Next]_vars
=============================================================================
