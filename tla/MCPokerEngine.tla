--------------------------- MODULE MCPokerEngine ---------------------------
(***************************************************************************)
(* The model-checking instance of PokerEngine: four seats around a button  *)
(* that may be anywhere, with stacks below, at and above the blinds, so    *)
(* that up to four uneven all-ins, short blinds and reopened betting       *)
(* happen.  The rotations of a table need no listing of their own.         *)
(***************************************************************************)
EXTENDS PokerEngine

Around(a, b, c, d) == [s \in Seats |-> <<a, b, c, d>>[s + 1]]

Tables == {Around(1, 2, 4, 4), Around(1, 4, 2, 4), Around(1, 4, 4, 4),
           Around(1, 2, 4, 6), Around(1, 2, 5, 7)}

\* FairSpec on the hands that start from one of the tables.
TablesInit == bought \in Tables /\ Init
TablesSpec == TablesInit /\ [][Next]_vars /\ Fairness
=============================================================================
