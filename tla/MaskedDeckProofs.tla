-------------------------- MODULE MaskedDeckProofs --------------------------
(***************************************************************************)
(* Facts about the masked deck that the proofs about both deals use: where *)
(* the cards of each seat lie, what the scalars' names tell apart, what    *)
(* masking adds and removes, and that shuffling and remasking make whole   *)
(* decks of whole decks.                                                   *)
(***************************************************************************)
EXTENDS MaskedDeck, FiniteSetTheorems, TLAPS

\* The seats and the positions are numbers from 0 on, at least two of each.
LEMMA Table ==
    /\ N \in Nat /\ N >= 2 /\ DeckSize \in Nat
    /\ Seats \subseteq Nat /\ 0 \in Seats /\ 1 \in Seats /\ N - 1 \in Seats
    /\ Positions \subseteq Nat /\ DeckSize \notin Positions
  BY DeckConstants DEF Seats, Positions

\* Any set of numbers that is not empty has a least member.
LEMMA LeastMember ==
    ASSUME NEW T, T \subseteq Nat, T # {}
    PROVE  \E x \in T : \A y \in T : x <= y
  <1> DEFINE R == OpToRel(<, Nat)
  <1>1. IsWellFoundedOn(R, Nat)
    BY NatLessThanWellFounded
  <1>2. R = {ss \in Nat \X Nat : ss[1] < ss[2]}
    BY Zenon DEF OpToRel
  <1> HIDE DEF R
  <1>3. PICK x \in T : \A y \in T : ~(<<y, x>> \in R)
    BY <1>1, WFMin
  <1>4. ASSUME NEW y \in T PROVE x <= y
    <2>1. x \in Nat /\ y \in Nat
      OBVIOUS
    <2>2. y < x => <<y, x>> \in R
      BY <1>2, <2>1
    <2> QED BY <1>3, <2>1, <2>2
  <1> QED BY <1>4

\* A row of blocks of equal size: a later block starts after an earlier one ends.
LEMMA BlocksInOrder ==
    ASSUME NEW c \in Nat, NEW r \in Nat, NEW s \in Nat, r < s
    PROVE  r * c \in Nat /\ s * c \in Nat /\ r * c + c <= s * c
  <1>1. PICK k \in Nat : s = r + 1 + k
    <2>1. s - r - 1 \in Nat /\ s = r + 1 + (s - r - 1)
      OBVIOUS
    <2> QED BY <2>1
  <1>2. k * c \in Nat /\ r * c \in Nat
    OBVIOUS
  <1>3. s * c = r * c + c + k * c
    BY <1>1
  <1> QED BY <1>2, <1>3

\* Where the cards lie: a block of hole cards per seat, then the board, all of
\* them on the deck and no position in two blocks.
LEMMA Layout ==
    /\ BoardStart \in Nat /\ BoardStart \in Board
    /\ Board \subseteq Positions
    /\ \A s \in Seats : /\ s * HoleCards \in Nat /\ s * HoleCards \in Hole(s)
                        /\ Hole(s) \subseteq Positions /\ \A p \in Hole(s) : p < BoardStart
    /\ \A s \in Seats : Hole(s) \cap Board = {}
    /\ \A r, s \in Seats : r # s => Hole(r) \cap Hole(s) = {}
  <1>1. /\ N \in Nat /\ HoleCards \in Nat /\ HoleCards >= 1 /\ BoardCards \in Nat /\ BoardCards >= 1
        /\ DeckSize \in Nat /\ N * HoleCards + BoardCards <= DeckSize
    BY DeckConstants
  <1>2. BoardStart \in Nat /\ BoardStart + BoardCards <= DeckSize
    BY <1>1 DEF BoardStart
  <1>3. ASSUME NEW s \in Seats
        PROVE  s \in Nat /\ s * HoleCards \in Nat /\ s * HoleCards + HoleCards <= BoardStart
    <2>1. s \in Nat /\ s < N
      BY <1>1 DEF Seats
    <2> QED BY <1>1, <2>1, BlocksInOrder DEF BoardStart
  <1>4. BoardStart \in Board /\ Board \subseteq Positions
    <2>1. BoardStart <= BoardStart + BoardCards - 1
      BY <1>1, <1>2
    <2> QED BY <1>1, <1>2, <2>1 DEF Board, Positions
  <1>5. ASSUME NEW s \in Seats
        PROVE  /\ s * HoleCards \in Hole(s) /\ Hole(s) \subseteq Positions
               /\ \A p \in Hole(s) : p < BoardStart
    BY <1>1, <1>2, <1>3 DEF Hole, Positions
  <1>6. \A p \in Board : p >= BoardStart
    BY <1>2 DEF Board
  <1>7. ASSUME NEW s \in Seats PROVE Hole(s) \cap Board = {}
    <2> SUFFICES ASSUME NEW p \in Hole(s) \cap Board PROVE FALSE
      OBVIOUS
    <2>1. p \in Nat /\ p < BoardStart /\ p >= BoardStart
      BY <1>5, <1>6, Table
    <2> QED BY <1>2, <2>1
  <1>8. ASSUME NEW r \in Seats, NEW s \in Seats, r < s
        PROVE  Hole(r) \cap Hole(s) = {}
    <2>1. r * HoleCards \in Nat /\ s * HoleCards \in Nat /\ r * HoleCards + HoleCards <= s * HoleCards
      BY <1>1, <1>3, <1>8, BlocksInOrder
    <2> QED BY <1>1, <2>1 DEF Hole
  <1>9. ASSUME NEW r \in Seats, NEW s \in Seats, r # s
        PROVE  Hole(r) \cap Hole(s) = {}
    <2>1. r < s \/ s < r
      BY <1>3, <1>9
    <2> QED BY <1>8, <2>1
  <1> QED BY <1>2, <1>3, <1>4, <1>5, <1>7, <1>9

\* A permutation leaves no position out: the positions are finitely many.
LEMMA PermutationOnto ==
    ASSUME NEW f \in Perms, NEW q \in Positions
    PROVE  \E i \in Positions : f[i] = q
  <1>1. IsPermutation(f)
    BY DeckConstants
  <1>2. f \in Injection(Positions, Positions)
    BY <1>1 DEF IsPermutation, Injection, IsInjective
  <1>3. IsFiniteSet(Positions)
    BY Table, FS_Interval DEF Positions
  <1>4. f \in Surjection(Positions, Positions)
    BY <1>2, <1>3, FS_Injection
  <1> QED BY <1>4 DEF Surjection

-----------------------------------------------------------------------------
\* What the names of scalars tell apart, and how they change with the exponent.
LEMMA ScalarNames ==
    ASSUME NEW s, NEW g
    PROVE  /\ Global(s, g)[4] = 1 /\ InverseOf(Global(s, g))[4] = -1
           /\ Global(s, g)[1] = s /\ InverseOf(Global(s, g))[1] = s
           /\ [Global(s, g) EXCEPT ![4] = 1] = Global(s, g)
           /\ [Global(s, g) EXCEPT ![4] = -1] = InverseOf(Global(s, g))
           /\ [InverseOf(Global(s, g)) EXCEPT ![4] = 1] = Global(s, g)
           /\ [InverseOf(Global(s, g)) EXCEPT ![4] = -1] = InverseOf(Global(s, g))
           /\ InverseOf(Global(s, g)) = <<s, g, Everywhere, -1>>
           /\ \A o, h : Global(o, h) = Global(s, g) => o = s /\ h = g
           /\ \A o, h : InverseOf(Global(o, h)) = InverseOf(Global(s, g)) => o = s /\ h = g
           /\ \A o, h : InverseOf(Global(o, h)) # Global(s, g)
  <1>1. -1 # 1
    OBVIOUS
  <1> QED BY <1>1 DEF Global, InverseOf

\* The same of the scalars of one position.
LEMMA OwnNames ==
    ASSUME NEW s, NEW g, NEW p \in Positions
    PROVE  /\ Own(s, g, p)[4] = 1 /\ Own(s, g, p)[1] = s
           /\ [Own(s, g, p) EXCEPT ![4] = 1] = Own(s, g, p)
           /\ \A o, h : Own(s, g, p) # Global(o, h) /\ Own(s, g, p) # InverseOf(Global(o, h))
           /\ \A o, h : [Own(s, g, p) EXCEPT ![4] = -1] # InverseOf(Global(o, h))
           /\ \A o, h, q : Own(o, h, q) = Own(s, g, p) => o = s /\ h = g /\ q = p
  <1>1. Everywhere # p
    BY Table DEF Everywhere
  <1> QED BY <1>1 DEF Own, Global, InverseOf

\* Masking with a scalar that is not on the card yet adds it.
LEMMA MaskAdds ==
    ASSUME NEW m, NEW x, x[4] \in {1, -1}, [x EXCEPT ![4] = x[4]] = x,
           \A y \in m : [y EXCEPT ![4] = x[4]] # x
    PROVE  Mask(m, x) = m \cup {x}
  <1>1. x[4] + 0 = x[4] /\ x[4] # 0
    OBVIOUS
  <1>2. {y \in m : [y EXCEPT ![4] = x[4]] # x} = m
    OBVIOUS
  <1> QED BY <1>1, <1>2 DEF Mask

\* A scalar meets its inverse: both are gone.
LEMMA MaskCancels ==
    ASSUME NEW m, NEW s, NEW g, Global(s, g) \in m,
           \A y \in m : y # Global(s, g) => [y EXCEPT ![4] = -1] # InverseOf(Global(s, g))
    PROVE  Mask(m, InverseOf(Global(s, g))) = m \ {Global(s, g)}
  <1> DEFINE x == InverseOf(Global(s, g))
             others == {y \in m : [y EXCEPT ![4] = x[4]] # x}
  <1>1. x[4] = -1 /\ [Global(s, g) EXCEPT ![4] = -1] = x /\ Global(s, g)[4] = 1
    BY ScalarNames
  <1>2. others = m \ {Global(s, g)}
    BY <1>1
  <1>3. others # m /\ m \ others = {Global(s, g)}
    BY <1>2
  <1>4. (CHOOSE y \in m \ others : TRUE) = Global(s, g)
    BY <1>3
  <1>5. x[4] + (IF others = m THEN 0 ELSE (CHOOSE y \in m \ others : TRUE)[4]) = 0
    BY <1>1, <1>3, <1>4
  <1> HIDE DEF others, x
  <1>6. Mask(m, x) = others \cup {}
    BY <1>5 DEF Mask, others
  <1> QED BY <1>2, <1>6 DEF x

\* The position that the permutation f moves to q.
From(f, q) == CHOOSE i \in Positions : f[i] = q

\* A shuffle makes a whole deck of a whole deck: the card of each position comes
\* from the position that the permutation moves there, masked once more.
LEMMA ShuffleDeck ==
    ASSUME NEW d, IsDeck(d), NEW s, NEW g, NEW f \in Perms
    PROVE  /\ IsDeck(ShuffleStep(d, s, g, f))
           /\ \A q \in Positions :
                 /\ From(f, q) \in Positions /\ f[From(f, q)] = q
                 /\ ShuffleStep(d, s, g, f)[q].card = d[From(f, q)].card
                 /\ ShuffleStep(d, s, g, f)[q].masks = Mask(d[From(f, q)].masks, Global(s, g))
  <1> DEFINE out == ShuffleStep(d, s, g, f)
             at(q) == From(f, q)
  <1>1. \A q \in Positions : at(q) \in Positions /\ f[at(q)] = q
    BY PermutationOnto DEF From
  <1>2. \A q \in Positions : out[q] = [card |-> d[at(q)].card, masks |-> Mask(d[at(q)].masks, Global(s, g))]
    BY DEF ShuffleStep, From
  <1>3. DOMAIN out = Positions
    BY DEF ShuffleStep
  <1> HIDE DEF at, out
  <1>4. \A q \in Positions : out[q].card = d[at(q)].card
                             /\ out[q].masks = Mask(d[at(q)].masks, Global(s, g))
    <2> TAKE q \in Positions
    <2> DEFINE c == d[at(q)].card
               k == Mask(d[at(q)].masks, Global(s, g))
    <2>1. out[q] = [card |-> c, masks |-> k]
      BY <1>2
    <2> HIDE DEF c, k
    <2>2. out[q].card = c /\ out[q].masks = k
      BY <2>1
    <2> QED BY <2>2 DEF c, k
  <1>5. \A q \in Positions : out[q].card \in Positions
    BY <1>1, <1>4 DEF IsDeck
  <1>6. IsDeck(out)
    BY <1>3, <1>5 DEF IsDeck
  <1> QED BY <1>1, <1>4, <1>6 DEF out, at

\* A remask makes a whole deck of a whole deck and moves no card.
LEMMA RemaskDeck ==
    ASSUME NEW d, IsDeck(d), NEW s, NEW g
    PROVE  /\ IsDeck(RemaskStep(d, s, g))
           /\ \A p \in Positions :
                 /\ RemaskStep(d, s, g)[p].card = d[p].card
                 /\ RemaskStep(d, s, g)[p].masks =
                       Mask(Mask(d[p].masks, InverseOf(Global(s, g))), Own(s, g, p))
  BY DEF RemaskStep, IsDeck
=============================================================================
