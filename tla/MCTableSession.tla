--------------------------- MODULE MCTableSession ---------------------------
(***************************************************************************)
(* The model-checking instance of TableSession: two players, and one kind  *)
(* of message of each sort: free of phases, tied to a phase, and private.  *)
(***************************************************************************)
EXTENDS TableSession, TLC

Public == {"hello", "boardReveal"}
Reveals == {"holeReveal"}
Symmetry == Permutations(Players)

Numbered == unsent \cup UNION {Logged(s) : s \in Seats}

\* Seat 1 asks once for what it missed of two messages of seat 0.  A seat's copies
\* of its own messages only raise its own mark, so they are left out here.
CatchUp ==
    /\ \A e \in Numbered : e.seat = 1 <=> e.kind = Request
    /\ \A d \in InFlight : d.to # d.env.seat
    /\ \A s \in Seats : applied[s][s] = 0

\* Any two messages, or a catch-up of three.  The sessions read the phase and the
\* roster alone, so the marks and the stalled seat vary only while there are none.
Focus ==
    /\ sessions # {} => refundHeld = {} /\ stalledSeat = NoSeat
    /\ Cardinality(Numbered) <= 2 \/ CatchUp

\* Spec on the behaviours that stay within Focus.
FocusSpec == Init /\ [][Next /\ Focus']_vars
=============================================================================
