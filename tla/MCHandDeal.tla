----------------------------- MODULE MCHandDeal -----------------------------
(***************************************************************************)
(* Model-checking instances of HandDeal: two seats, one hole card each,    *)
(* one board card, a deck of four.  Every wallet draws the same shuffle,   *)
(* one that moves every card; its secrets still differ from draw to draw.  *)
(***************************************************************************)
EXTENDS HandDeal

Shuffle == [p \in 0..3 |-> IF p = 0 THEN 2 ELSE IF p = 2 THEN 1 ELSE IF p = 1 THEN 3 ELSE 0]

OnePerm == {Shuffle}
=============================================================================
