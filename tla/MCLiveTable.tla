---------------------------- MODULE MCLiveTable -----------------------------
(***************************************************************************)
(* Model-checking instances of LiveTable: three players for two seats.     *)
(***************************************************************************)
EXTENDS LiveTable
=============================================================================
