---------------------------- MODULE MCIdoMalloc ----------------------------
(* Three bins with items of one, two and five words, so that a chunk holds  *)
(* two nodes, one with its unused page given up, and less than one (the     *)
(* chunk is then made larger).  One size is 0, one is too large for any     *)
(* bin.  The region has room for two or three chunks (not for one of the     *)
(* first bin and one of the third), so that it also runs out.               *)
EXTENDS IdoMalloc

MCItem == [b \in 3 .. 5 |-> IF b = 3 THEN 4 ELSE IF b = 4 THEN 8 ELSE 20]
MCItem2 == [b \in 3 .. 4 |-> IF b = 3 THEN 4 ELSE 8]
=============================================================================
