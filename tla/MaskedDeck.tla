----------------------------- MODULE MaskedDeck -----------------------------
(***************************************************************************)
(* The cards of a dealerless deal (game/mentalpoker).  A masked card is    *)
(* the card and the scalars multiplied onto it, each with its exponent.  A *)
(* scalar is named <<seat, set of secrets, position, exponent>>; the one a *)
(* seat puts on every card while it shuffles has the position Everywhere.  *)
(*                                                                         *)
(* The module says which scalars open a card for the code that opens them  *)
(* (Unmask, CardIndexOf).  It says nothing of what else can be worked out  *)
(* from the points: card i is the point (i + 1)G (CardPoint), so the cards *)
(* of a deck under one scalar are known multiples of each other, and no    *)
(* secrecy follows from Readable being false.                              *)
(***************************************************************************)
EXTENDS Integers, FiniteSets

CONSTANTS
    N,              \* number of seats
    HoleCards,      \* cards dealt to each seat (2)
    BoardCards,     \* community cards (5)
    DeckSize,       \* cards.DeckSize
    Perms           \* the permutations a seat may draw

Seats == 0..(N - 1)
Positions == 0..(DeckSize - 1)

\* A permutation maps no two positions to one (ValidatePermutation).
IsPermutation(p) ==
    /\ p \in [Positions -> Positions]
    /\ \A i, j \in Positions : p[i] = p[j] => i = j

ASSUME DeckConstants ==
    /\ N \in Nat /\ N >= 2
    /\ HoleCards \in Nat \ {0}
    /\ BoardCards \in Nat \ {0}
    /\ DeckSize \in Nat /\ N * HoleCards + BoardCards <= DeckSize
    /\ Perms # {} /\ \A p \in Perms : IsPermutation(p)

-----------------------------------------------------------------------------
(* Which position is whose: public and fixed *)

\* Mutant: the board starts on the last hole card.
BoardStartShort == N * HoleCards - 1

BoardStart == N * HoleCards

Hole(s) == (s * HoleCards)..(s * HoleCards + HoleCards - 1)

Board == BoardStart..(BoardStart + BoardCards - 1)

-----------------------------------------------------------------------------
(* Masks *)

\* The scalars of seat s in its g-th set of secrets, and their inverses.
Everywhere == DeckSize
Global(s, g) == <<s, g, Everywhere, 1>>
Own(s, g, p) == <<s, g, p, 1>>
InverseOf(x) == [x EXCEPT ![4] = -@]

\* Multiplication by a scalar: exponents add, and a mask of exponent 0 is gone.
Mask(m, x) ==
    LET others == {y \in m : [y EXCEPT ![4] = x[4]] # x}
        power == x[4] + IF others = m THEN 0 ELSE (CHOOSE y \in m \ others : TRUE)[4]
    IN others \cup (IF power = 0 THEN {} ELSE {[x EXCEPT ![4] = power]})

BaseDeck == [p \in Positions |-> [card |-> p, masks |-> {}]]
NoDeck == <<>>

\* ShuffleStep: every card masked with one scalar, then permuted.
ShuffleStep(d, s, g, perm) ==
    [q \in Positions |->
        LET i == CHOOSE i \in Positions : perm[i] = q
        IN [card |-> d[i].card, masks |-> Mask(d[i].masks, Global(s, g))]]

\* RemaskStep: the global scalar comes off, one of its own goes on each card.
RemaskStep(d, s, g) ==
    [p \in Positions |->
        [card |-> d[p].card,
         masks |-> Mask(Mask(d[p].masks, InverseOf(Global(s, g))), Own(s, g, p))]]

\* Unmask and CardIndexOf: the code recognises a card when nothing is left on it.
Readable(masked, scalars) == masked.masks = scalars

\* A whole deck.
IsDeck(d) == DOMAIN d = Positions /\ \A p \in Positions : d[p].card \in Positions
=============================================================================
