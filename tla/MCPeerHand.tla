----------------------------- MODULE MCPeerHand -----------------------------
(***************************************************************************)
(* Model-checking instances of PeerHand: two seats, one hole card each,    *)
(* one board card and one card that is not dealt.                          *)
(***************************************************************************)
EXTENDS PeerHand

Rotate == [p \in 0..3 |-> IF p = 3 THEN 0 ELSE p + 1]
Swap == [p \in 0..3 |-> IF p = 0 THEN 2 ELSE IF p = 2 THEN 0 ELSE p]

TwoPerms == {Rotate, Swap}
=============================================================================
