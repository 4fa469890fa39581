-------------------------------- MODULE MCBmt --------------------------------
(* Instances of Bmt for TLC.                                               *)
EXTENDS BmtProperties, TLC

\* Power may go anywhere, or only between two requests (a clean shutdown).
Anywhere == {"remark", "scan", "idle", "program", "erase", "find", "migrate", "update",
             "find_bmt", "erase_bmt", "program_bmt", "mark"}
WhenIdle == {"idle"}

Symmetry == Permutations(Data)
==============================================================================
