---------------------------- MODULE MCSessionPot ----------------------------
(***************************************************************************)
(* Model-checking instances of SessionPot: two seats and a pot of 4, 6 or  *)
(* 8, with hands that chop it, leave a seat short, or bust a seat.         *)
(***************************************************************************)
EXTENDS SessionPot

Split(a, b) == [s \in {0, 1} |-> IF s = 0 THEN a ELSE b]

ResultsOf4 == {Split(2, 2), Split(1, 3), Split(4, 0)}
ResultsOf6 == {Split(3, 3), Split(4, 2), Split(5, 1)}
ResultsOf8 == {Split(4, 4), Split(3, 5)}
=============================================================================
