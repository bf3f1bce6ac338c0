---------------------------- MODULE MCWalletGate ----------------------------
(***************************************************************************)
(* Model-checking instances of WalletGate: the nonce cache fills up, and   *)
(* the clock runs past the time a nonce is kept.                           *)
(***************************************************************************)
EXTENDS WalletGate, TLC

SlotSymmetry == Permutations(Slots)
=============================================================================
