------------------------------- MODULE Escrow -------------------------------
(***************************************************************************)
(* What a session pot promises the players, apart from how it is kept:     *)
(* the stakes are deposited once; all seats agree, again and again, on     *)
(* what each of them takes home; and the money is released once, either    *)
(* by settling the latest agreement or by falling back on one of them.     *)
(* Settling instead of falling back moves nobody's money but the fees.     *)
(* Module SessionPot implements this specification.                        *)
(***************************************************************************)
EXTENDS Integers, Sequences

CONSTANTS
    Seats,        \* the players' seats
    FallbackFee,  \* the fee one seat bears in every agreed fallback
    SettlementFee \* the fee one seat bears in a settlement

VARIABLES
    escrow,   \* "empty", "held" or "released"
    agreed,   \* the fallbacks every seat signed, oldest first
    released  \* what each seat was paid

escrowVars == <<escrow, agreed, released>>

\* The fee a transaction takes from seat x alone.
FeeOn(x, fee) == [s \in Seats |-> IF s = x THEN fee ELSE 0]

\* p with the fallback's fee given back to the seat x that bore it.
Restored(p, x) == [s \in Seats |-> p[s] + FeeOn(x, FallbackFee)[s]]

\* What may be settled where p is agreed: the restored shares with the
\* settlement's fee taken from a seat y, or with no fee taken where nobody's
\* share exceeds it.
Settlements(p) ==
    UNION {IF \E s \in Seats : Restored(p, x)[s] > SettlementFee
           THEN {[s \in Seats |-> Restored(p, x)[s] - FeeOn(y, SettlementFee)[s]] : y \in Seats}
           ELSE {Restored(p, x)} : x \in Seats}

Init ==
    /\ escrow = "empty"
    /\ agreed = <<>>
    /\ released = [s \in Seats |-> 0]

Deposit ==
    /\ escrow = "empty"
    /\ escrow' = "held"
    /\ UNCHANGED <<agreed, released>>

\* One more agreement; earlier ones are neither lost nor altered.  Agreeing may
\* come too late, after the money is gone.
Agree ==
    /\ escrow # "empty"
    /\ Len(agreed') = Len(agreed) + 1
    /\ agreed = SubSeq(agreed', 1, Len(agreed))
    /\ UNCHANGED <<escrow, released>>

Settle ==
    /\ escrow = "held"
    /\ escrow' = "released"
    /\ agreed # <<>>
    /\ released' \in Settlements(agreed[Len(agreed)])
    /\ UNCHANGED agreed

FallBack ==
    /\ escrow = "held"
    /\ escrow' = "released"
    /\ \E i \in 1..Len(agreed) : released' = agreed[i]
    /\ UNCHANGED agreed

Next == Deposit \/ Agree \/ Settle \/ FallBack

Spec == Init /\ [][Next]_escrowVars
=============================================================================
