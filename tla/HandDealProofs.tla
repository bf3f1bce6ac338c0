--------------------------- MODULE HandDealProofs ---------------------------
(***************************************************************************)
(* What the dealerless deal keeps, for any number of seats, cards, hands,  *)
(* restarts and late calls and any permutations: a hand that starts has    *)
(* the cards of the deck all seats contributed to, the disclosed scalars   *)
(* add up to the board alone, a deal that nothing disturbs can be read,    *)
(* and the hands of one table process share no secrets.                    *)
(*                                                                         *)
(* The heart of the argument is where a deck comes from (Origin): which    *)
(* secrets shuffled it decides its cards, and its masks tell whether they  *)
(* have been taken off again.  A wallet can be left with the deck of an    *)
(* earlier attempt, by a call that arrives late; it opens only with the    *)
(* scalars of the secrets that shuffled it, and when these are the ones    *)
(* disclosed in this deal, the two decks have the same cards.              *)
(***************************************************************************)
EXTENDS HandDeal, MaskedDeckProofs

Gens == 0..MaxDrawn

\* An order of cards, moved by the permutation f.
Moved(order, f) == [q \in Positions |-> order[From(f, q)]]

\* The card at each position after the first k of the shuffles V.
Order(V) ==
    LET order[k \in 0..N] ==
            IF k = 0 THEN [p \in Positions |-> p] ELSE Moved(order[k - 1], V[k - 1])
    IN order

\* The permutations of the secrets G, if P are the permutations the wallets drew.
Vector(P, G) == [s \in Seats |-> P[s][G[s]]]

\* What may be on the card at p once a seats have shuffled and b have remasked.
\* A seat that drew its secrets anew in between leaves its old mask on and the
\* inverse of its new one too.
Loose(a, b, p) ==
    {Global(o, g) : o \in 0..(a - 1), g \in Gens}
        \cup {InverseOf(Global(o, g)) : o \in 0..(b - 1), g \in Gens}
        \cup {Own(o, g, p) : o \in 0..(b - 1), g \in Gens}

\* A deck that a seats shuffled with the secrets G and b of them remasked.
CardOf(V, a, d, p) == d[p].card = Order(V)[a][p]
MasksOf(G, a, b, d, p) ==
    /\ d[p].masks \subseteq Loose(a, b, p)
    /\ \A s \in b..(a - 1) : Global(s, G[s]) \in d[p].masks
    /\ \A s \in 0..(b - 1) : \E g \in Gens :
          Own(s, g, p) \in d[p].masks /\ (g = G[s] \/ Global(s, G[s]) \in d[p].masks)
Origin(P, G, a, b, d) ==
    /\ IsDeck(d)
    /\ \A p \in Positions : CardOf(Vector(P, G), a, d, p) /\ MasksOf(G, a, b, d, p)

-----------------------------------------------------------------------------
\* The bounds are numbers.
LEMMA Numbers ==
    /\ MaxHands \in Nat /\ MaxRestarts \in Nat /\ MaxDrawn \in Nat
    /\ Gens \subseteq Nat /\ 0 \in Gens /\ Hands \subseteq Nat /\ 0 \in Hands
    /\ IsFiniteSet(Hands) /\ Cardinality(Hands) = MaxHands + 1
  <1>1. MaxHands \in Nat /\ MaxRestarts \in Nat
    BY DealConstants
  <1>2. MaxDrawn \in Nat
    BY <1>1 DEF MaxDrawn
  <1>3. IsFiniteSet(Hands) /\ Cardinality(Hands) = MaxHands + 1
    BY <1>1, FS_Interval DEF Hands
  <1> QED BY <1>1, <1>2, <1>3 DEF Gens, Hands

\* The order of the cards is defined: there is no first length at which it is not.
LEMMA OrderDefined ==
    ASSUME NEW V
    PROVE  /\ Order(V)[0] = [p \in Positions |-> p]
           /\ \A s \in Seats : Order(V)[s + 1] = Moved(Order(V)[s], V[s])
  <1> DEFINE First == [p \in Positions |-> p]
             Step(f, k) == IF k = 0 THEN First ELSE Moved(f[k - 1], V[k - 1])
             Chain(f, n) == f = [k \in 0..n |-> Step(f, k)]
             Bad == {n \in Nat : ~\E f : Chain(f, n)}
  <1>0. Order(V) = CHOOSE f : Chain(f, N)
    BY DEF Order
  <1> HIDE DEF First
  <1>1. Bad = {}
    <2> SUFFICES ASSUME Bad # {} PROVE FALSE
      OBVIOUS
    <2>1. PICK n \in Bad : \A y \in Bad : n <= y
      <3>1. Bad \subseteq Nat
        OBVIOUS
      <3> HIDE DEF Bad
      <3> QED BY <3>1, LeastMember
    <2>2. n \in Nat /\ ~\E f : Chain(f, n)
      OBVIOUS
    <2>3. n # 0
      <3> DEFINE f == [k \in 0..0 |-> First]
      <3>1. \A k \in 0..0 : Step(f, k) = First
        OBVIOUS
      <3>2. Chain(f, 0)
        BY <3>1
      <3> QED BY <2>2, <3>2
    <2>4. n - 1 \in Nat /\ n - 1 \notin Bad
      BY <2>1, <2>2, <2>3
    <2>5. PICK f : Chain(f, n - 1)
      BY <2>4
    <2> DEFINE g == [k \in 0..n |-> Step(f, k)]
    <2>6. \A k \in 0..(n - 1) : g[k] = f[k]
      <3> SUFFICES ASSUME NEW k \in 0..(n - 1) PROVE g[k] = f[k]
        OBVIOUS
      <3>1. k \in 0..n
        BY <2>2
      <3> HIDE DEF Step
      <3> QED BY <2>5, <3>1
    <2>7. \A k \in 0..n : Step(g, k) = Step(f, k)
      <3> SUFFICES ASSUME NEW k \in 0..n PROVE Step(g, k) = Step(f, k)
        OBVIOUS
      <3>1. CASE k = 0
        BY <3>1
      <3>2. CASE k # 0
        <4>1. k - 1 \in 0..(n - 1)
          BY <2>2, <3>2
        <4>2. g[k - 1] = f[k - 1]
          BY <2>6, <4>1
        <4> HIDE DEF g
        <4> QED BY <4>2
      <3> QED BY <3>1, <3>2
    <2>8. Chain(g, n)
      <3> HIDE DEF Step
      <3> QED BY <2>7
    <2> QED BY <2>2, <2>8
  <1>2. \E f : Chain(f, N)
    BY <1>1, Table
  <1>3. Chain(Order(V), N)
    <2> HIDE DEF Chain
    <2> QED BY <1>0, <1>2
  <1>4. Order(V)[0] = First
    <2>1. 0 \in 0..N
      BY Table
    <2> QED BY <1>3, <2>1
  <1>5. ASSUME NEW s \in Seats
        PROVE  Order(V)[s + 1] = Moved(Order(V)[s], V[s])
    <2>1. s \in Nat /\ s < N /\ N \in Nat
      BY Table DEF Seats
    <2>2. ASSUME NEW k \in 0..N, k # 0, k - 1 = s
          PROVE  Order(V)[k] = Moved(Order(V)[s], V[s])
      <3>1. Order(V)[k] = Step(Order(V), k)
        <4> HIDE DEF Step
        <4> QED BY <1>3
      <3>2. Step(Order(V), k) = Moved(Order(V)[k - 1], V[k - 1])
        BY <2>2, Zenon
      <3> QED BY <2>2, <3>1, <3>2, Zenon
    <2>3. PICK k \in 0..N : k = s + 1 /\ k # 0 /\ k - 1 = s
      <3>1. s + 1 \in 0..N /\ s + 1 # 0 /\ (s + 1) - 1 = s
        BY <2>1
      <3> QED BY <3>1
    <2> QED BY <2>2, <2>3, Zenon
  <1> QED BY <1>4, <1>5 DEF First

\* The first k shuffles decide the order after them.
LEMMA OrderPrefix ==
    ASSUME NEW V, NEW W, NEW k \in 0..N, \A s \in 0..(k - 1) : V[s] = W[s]
    PROVE  Order(V)[k] = Order(W)[k]
  <1> DEFINE Bad == {n \in 0..k : Order(V)[n] # Order(W)[n]}
  <1>0. k \in Nat /\ k <= N /\ N \in Nat
    BY Table
  <1>1. Bad = {}
    <2> SUFFICES ASSUME Bad # {} PROVE FALSE
      OBVIOUS
    <2>1. PICK n \in Bad : \A y \in Bad : n <= y
      <3>1. Bad \subseteq Nat
        BY <1>0
      <3> HIDE DEF Bad
      <3> QED BY <3>1, LeastMember
    <2>2. n \in 0..k /\ n \in Nat /\ Order(V)[n] # Order(W)[n]
      BY <1>0
    <2>3. n # 0
      BY <2>2, OrderDefined
    <2>4. PICK s \in Seats : n = s + 1 /\ s \in 0..(k - 1) /\ s \in 0..k /\ s \notin Bad
      <3>1. n - 1 \in Seats /\ n = (n - 1) + 1 /\ n - 1 \in 0..(k - 1) /\ n - 1 \in 0..k
        BY <1>0, <2>2, <2>3 DEF Seats
      <3>2. n - 1 \notin Bad
        BY <2>1, <2>2
      <3> QED BY <3>1, <3>2
    <2>5. Order(V)[s] = Order(W)[s] /\ V[s] = W[s]
      BY <2>4
    <2>6. Order(V)[s + 1] = Order(W)[s + 1]
      <3>1. Order(V)[s + 1] = Moved(Order(V)[s], V[s])
        BY OrderDefined
      <3>2. Order(W)[s + 1] = Moved(Order(W)[s], W[s])
        BY OrderDefined
      <3> QED BY <2>5, <3>1, <3>2
    <2> QED BY <2>2, <2>4, <2>6
  <1>2. k \in 0..k
    BY <1>0
  <1> QED BY <1>1, <1>2

\* A shuffle by the next seat in turn, with any of its secrets.
LEMMA ShuffleOrigin ==
    ASSUME NEW P \in [Seats -> [Gens -> Perms]], NEW G \in [Seats -> Gens],
           NEW t \in Seats, NEW g \in Gens, NEW d, Origin(P, G, t, 0, d)
    PROVE  Origin(P, [G EXCEPT ![t] = g], t + 1, 0, ShuffleStep(d, t, g, P[t][g]))
  <1> DEFINE H == [G EXCEPT ![t] = g]
             f == P[t][g]
             out == ShuffleStep(d, t, g, f)
             V == Vector(P, G)
             W == Vector(P, H)
  <1>1. t \in Nat /\ t < N /\ N \in Nat /\ t \in 0..N
    BY Table DEF Seats
  <1>2. f \in Perms /\ H \in [Seats -> Gens] /\ H[t] = g /\ \A s \in Seats : s # t => H[s] = G[s]
    <2>1. P[t] \in [Gens -> Perms]
      OBVIOUS
    <2> QED BY <2>1
  <1>3. W[t] = f /\ \A s \in 0..(t - 1) : V[s] = W[s]
    <2>1. \A s \in 0..(t - 1) : s \in Seats /\ s # t
      BY <1>1 DEF Seats
    <2> QED BY <1>2, <2>1 DEF Vector
  <1>4. Order(W)[t] = Order(V)[t]
    BY <1>1, <1>3, OrderPrefix
  <1>5. IsDeck(d) /\ \A p \in Positions : /\ d[p].card = Order(V)[t][p]
                                          /\ d[p].masks \subseteq Loose(t, 0, p)
                                          /\ \A s \in 0..(t - 1) : Global(s, G[s]) \in d[p].masks
    BY DEF Origin, CardOf, MasksOf
  <1> HIDE DEF H, f, out, V, W
  <1>6. IsDeck(out)
    BY <1>2, <1>5, ShuffleDeck DEF out
  <1>7. ASSUME NEW q \in Positions
        PROVE  CardOf(W, t + 1, out, q) /\ MasksOf(H, t + 1, 0, out, q)
    <2> DEFINE i == From(f, q)
    <2>1. /\ i \in Positions /\ f[i] = q /\ out[q].card = d[i].card
          /\ out[q].masks = Mask(d[i].masks, Global(t, g))
      BY <1>2, <1>5, ShuffleDeck DEF out
    <2>2. Order(W)[t + 1][q] = Order(W)[t][i]
      <3>1. Order(W)[t + 1] = Moved(Order(W)[t], W[t])
        BY OrderDefined
      <3> QED BY <1>3, <3>1 DEF Moved
    <2> HIDE DEF i
    <2>3. out[q].card = Order(W)[t + 1][q]
      BY <1>4, <1>5, <2>1, <2>2
    <2>4. \A y \in d[i].masks : \E o \in 0..(t - 1), h \in Gens : y = Global(o, h)
      <3>1. Loose(t, 0, i) = {Global(o, h) : o \in 0..(t - 1), h \in Gens}
        <4>1. 0..(0 - 1) = {}
          OBVIOUS
        <4> QED BY <4>1 DEF Loose
      <3> QED BY <1>5, <2>1, <3>1
    <2>5. out[q].masks = d[i].masks \cup {Global(t, g)}
      <3>1. ASSUME NEW y \in d[i].masks PROVE [y EXCEPT ![4] = 1] # Global(t, g)
        <4>1. PICK o \in 0..(t - 1), h \in Gens : y = Global(o, h)
          BY <2>4
        <4>2. o # t
          BY <1>1
        <4> QED BY <4>1, <4>2, ScalarNames
      <3>2. Global(t, g)[4] = 1 /\ [Global(t, g) EXCEPT ![4] = 1] = Global(t, g)
        BY ScalarNames
      <3> QED BY <2>1, <3>1, <3>2, MaskAdds
    <2>6. 0..(t - 1) \subseteq 0..((t + 1) - 1) /\ t \in 0..((t + 1) - 1)
      BY <1>1
    <2>7. out[q].masks \subseteq Loose(t + 1, 0, q)
      <3>1. ASSUME NEW o \in 0..((t + 1) - 1), NEW h \in Gens
            PROVE  Global(o, h) \in Loose(t + 1, 0, q)
        BY DEF Loose
      <3>2. Global(t, g) \in Loose(t + 1, 0, q)
        BY <2>6, <3>1
      <3>3. \A y \in d[i].masks : y \in Loose(t + 1, 0, q)
        BY <2>4, <2>6, <3>1
      <3> QED BY <2>5, <3>2, <3>3
    <2>8. ASSUME NEW s \in 0..((t + 1) - 1) PROVE Global(s, H[s]) \in out[q].masks
      <3>1. CASE s = t
        BY <1>2, <2>5, <3>1
      <3>2. CASE s # t
        <4>1. s \in 0..(t - 1) /\ s \in Seats
          BY <1>1, <3>2 DEF Seats
        <4> QED BY <1>2, <1>5, <2>1, <2>5, <3>2, <4>1
      <3> QED BY <3>1, <3>2
    <2>9. \A s \in 0..(0 - 1) : FALSE
      OBVIOUS
    <2>10. MasksOf(H, t + 1, 0, out, q)
      BY <2>7, <2>8, <2>9 DEF MasksOf
    <2> QED BY <2>3, <2>10 DEF CardOf
  <1>8. Origin(P, H, t + 1, 0, out)
    BY <1>6, <1>7 DEF Origin, W
  <1> QED BY <1>8 DEF H, out, f

\* A remask by the next seat in turn, with any of its secrets: the mask of its
\* shuffle comes off if these are the secrets it shuffled with, and stays if not.
LEMMA RemaskOrigin ==
    ASSUME NEW P, NEW G \in [Seats -> Gens], NEW t \in Seats, NEW g \in Gens, NEW d,
           Origin(P, G, N, t, d)
    PROVE  Origin(P, G, N, t + 1, RemaskStep(d, t, g))
  <1> DEFINE out == RemaskStep(d, t, g)
  <1>1. t \in Nat /\ t < N /\ N \in Nat
    BY Table DEF Seats
  <1>2. /\ IsDeck(d)
        /\ \A p \in Positions :
              /\ d[p].card = Order(Vector(P, G))[N][p]
              /\ d[p].masks \subseteq Loose(N, t, p)
              /\ \A s \in t..(N - 1) : Global(s, G[s]) \in d[p].masks
              /\ \A s \in 0..(t - 1) : \E h \in Gens :
                    Own(s, h, p) \in d[p].masks /\ (h = G[s] \/ Global(s, G[s]) \in d[p].masks)
    BY DEF Origin, CardOf, MasksOf
  <1>3. /\ IsDeck(out)
        /\ \A p \in Positions :
              /\ out[p].card = d[p].card
              /\ out[p].masks = Mask(Mask(d[p].masks, InverseOf(Global(t, g))), Own(t, g, p))
    BY <1>2, RemaskDeck
  <1> HIDE DEF out
  <1>4. ASSUME NEW p \in Positions
        PROVE  \E mid : /\ out[p].masks = mid \cup {Own(t, g, p)}
                        /\ mid \subseteq d[p].masks \cup {InverseOf(Global(t, g))}
                        /\ \A y \in d[p].masks : y # Global(t, g) => y \in mid
    <2> DEFINE m == d[p].masks
               x == InverseOf(Global(t, g))
               mid == Mask(m, x)
    <2>1. ASSUME NEW y \in m
          PROVE  \/ \E o \in 0..(N - 1), h \in Gens : y = Global(o, h)
                 \/ \E o \in 0..(t - 1), h \in Gens : y = InverseOf(Global(o, h)) \/ y = Own(o, h, p)
      <3>1. y \in Loose(N, t, p)
        BY <1>2
      <3> QED BY <3>1 DEF Loose
    <2>2. x[4] = -1 /\ [x EXCEPT ![4] = -1] = x
      BY ScalarNames
    <2>3. ASSUME NEW y \in m, y # Global(t, g) PROVE [y EXCEPT ![4] = -1] # x
      <3>1. ASSUME NEW o, NEW h, y = Global(o, h) PROVE [y EXCEPT ![4] = -1] # x
        BY <2>3, <3>1, ScalarNames
      <3>2. ASSUME NEW o \in 0..(t - 1), NEW h, y = InverseOf(Global(o, h)) PROVE [y EXCEPT ![4] = -1] # x
        <4>1. o # t
          BY <1>1
        <4> QED BY <3>2, <4>1, ScalarNames
      <3>3. ASSUME NEW o, NEW h, y = Own(o, h, p) PROVE [y EXCEPT ![4] = -1] # x
        BY <3>3, OwnNames
      <3> QED BY <2>1, <3>1, <3>2, <3>3
    <2> HIDE DEF m, x
    <2>4. mid = m \cup {x} \/ mid = m \ {Global(t, g)}
      <3>1. CASE Global(t, g) \in m
        BY <2>3, <3>1, MaskCancels DEF x
      <3>2. CASE Global(t, g) \notin m
        <4>1. \A y \in m : [y EXCEPT ![4] = x[4]] # x
          BY <2>2, <2>3, <3>2
        <4> QED BY <2>2, <4>1, MaskAdds
      <3> QED BY <3>1, <3>2
    <2> HIDE DEF mid
    <2>5. ASSUME NEW y \in mid PROVE [y EXCEPT ![4] = 1] # Own(t, g, p)
      <3>1. ASSUME NEW o, NEW h, y = Global(o, h) \/ y = InverseOf(Global(o, h))
            PROVE  [y EXCEPT ![4] = 1] # Own(t, g, p)
        BY <3>1, ScalarNames, OwnNames
      <3>2. ASSUME NEW o \in 0..(t - 1), NEW h, y = Own(o, h, p)
            PROVE  [y EXCEPT ![4] = 1] # Own(t, g, p)
        <4>1. o # t
          BY <1>1
        <4> QED BY <3>2, <4>1, OwnNames
      <3>3. y \in m \/ y = x
        BY <2>4
      <3> QED BY <2>1, <3>1, <3>2, <3>3 DEF x
    <2>6. Own(t, g, p)[4] = 1 /\ [Own(t, g, p) EXCEPT ![4] = 1] = Own(t, g, p)
      BY OwnNames
    <2>7. Mask(mid, Own(t, g, p)) = mid \cup {Own(t, g, p)}
      BY <2>5, <2>6, MaskAdds
    <2>8. out[p].masks = mid \cup {Own(t, g, p)}
      BY <1>3, <2>7 DEF mid, m, x
    <2>9. mid \subseteq m \cup {x} /\ \A y \in m : y # Global(t, g) => y \in mid
      BY <2>4
    <2> QED BY <2>8, <2>9 DEF m, x
  <1>5. ASSUME NEW p \in Positions
        PROVE  CardOf(Vector(P, G), N, out, p) /\ MasksOf(G, N, t + 1, out, p)
    <2>1. PICK mid : /\ out[p].masks = mid \cup {Own(t, g, p)}
                     /\ mid \subseteq d[p].masks \cup {InverseOf(Global(t, g))}
                     /\ \A y \in d[p].masks : y # Global(t, g) => y \in mid
      BY <1>4
    <2>2. 0..(t - 1) \subseteq 0..((t + 1) - 1) /\ t \in 0..((t + 1) - 1)
          /\ \A s \in 0..((t + 1) - 1) : s = t \/ s \in 0..(t - 1)
      BY <1>1
    <2>3. Loose(N, t, p) \subseteq Loose(N, t + 1, p)
      BY <2>2 DEF Loose
    <2>4. InverseOf(Global(t, g)) \in Loose(N, t + 1, p) /\ Own(t, g, p) \in Loose(N, t + 1, p)
      BY <2>2 DEF Loose
    <2>5. out[p].masks \subseteq Loose(N, t + 1, p)
      BY <1>2, <2>1, <2>3, <2>4
    <2>6. ASSUME NEW s \in (t + 1)..(N - 1) PROVE Global(s, G[s]) \in out[p].masks
      <3>1. s \in t..(N - 1) /\ s # t
        BY <1>1
      <3>2. Global(s, G[s]) \in d[p].masks /\ Global(s, G[s]) # Global(t, g)
        BY <1>2, <3>1, ScalarNames
      <3> QED BY <2>1, <3>2
    <2>7. ASSUME NEW s \in 0..(t - 1)
          PROVE  \E h \in Gens : /\ Own(s, h, p) \in out[p].masks
                                 /\ h = G[s] \/ Global(s, G[s]) \in out[p].masks
      <3>1. PICK h \in Gens : Own(s, h, p) \in d[p].masks /\ (h = G[s] \/ Global(s, G[s]) \in d[p].masks)
        BY <1>2
      <3>2. s # t
        BY <1>1
      <3>3. Own(s, h, p) # Global(t, g) /\ Global(s, G[s]) # Global(t, g)
        BY <3>2, ScalarNames, OwnNames
      <3> QED BY <2>1, <3>1, <3>3
    <2>8. Own(t, g, p) \in out[p].masks /\ (g = G[t] \/ Global(t, G[t]) \in out[p].masks)
      <3>1. t \in t..(N - 1)
        BY <1>1
      <3>2. Global(t, G[t]) \in d[p].masks
        BY <1>2, <3>1
      <3>3. g # G[t] => Global(t, G[t]) # Global(t, g)
        BY ScalarNames
      <3> QED BY <2>1, <3>2, <3>3
    <2>9. \A s \in 0..((t + 1) - 1) : \E h \in Gens :
             Own(s, h, p) \in out[p].masks /\ (h = G[s] \/ Global(s, G[s]) \in out[p].masks)
      BY <2>2, <2>7, <2>8
    <2>10. MasksOf(G, N, t + 1, out, p)
      BY <2>5, <2>6, <2>9 DEF MasksOf
    <2> QED BY <1>2, <1>3, <2>10 DEF CardOf
  <1>6. Origin(P, G, N, t + 1, out)
    BY <1>3, <1>5 DEF Origin
  <1> QED BY <1>6 DEF out

-----------------------------------------------------------------------------
(* Calls *)

Calls == [do : Kinds, seat : Seats, to : Seats, pos : Positions]

\* A call Deal makes: nobody discloses to itself, and cards are read where they are.
WellCalled(c) ==
    /\ c \in Calls
    /\ c.do = "reveal" => c.seat # c.to
    /\ c.do = "card" => c.seat = c.to /\ c.pos \in Hole(c.to)
    /\ c.do = "board" => c.seat \in {0, 1} /\ c.pos \in Board

\* How many seats have shuffled and remasked the deck that the call is about.
Shuffles(c) == IF c.do = "commit" THEN 0 ELSE IF c.do = "shuffle" THEN c.seat ELSE N
Remasks(c) == IF c.do \in {"commit", "shuffle"} THEN 0 ELSE IF c.do = "remask" THEN c.seat ELSE N

\* The calls in order: seats exist, positions exist, and the counts above go up as
\* the seats answer.
LEMMA FollowingCall ==
    ASSUME NEW c, WellCalled(c), c.do # "none"
    PROVE  /\ WellCalled(Following(c))
           /\ Following(c).do = "none" <=> Following(c) = NoCall
           /\ c.do = "commit" => /\ Following(c).do \in {"commit", "shuffle"}
                                 /\ Shuffles(Following(c)) = 0 /\ Remasks(Following(c)) = 0
           /\ c.do = "shuffle" => /\ Following(c).do \in {"shuffle", "remask"}
                                  /\ Shuffles(Following(c)) = c.seat + 1 /\ Remasks(Following(c)) = 0
           /\ c.do = "remask" => /\ Following(c).do \in {"remask", "final"}
                                 /\ Shuffles(Following(c)) = N /\ Remasks(Following(c)) = c.seat + 1
           /\ c.do \notin {"commit", "shuffle", "remask"}
                 => /\ Following(c).do \in {"final", "reveal", "card", "open", "board", "none"}
                    /\ Shuffles(Following(c)) = N /\ Remasks(Following(c)) = N
           /\ c.do \notin {"commit"} \cup Passes => Following(c).do \notin {"commit"} \cup Passes
  <1> DEFINE next == Following(c)
  <1>1. c.do \in Kinds /\ c.seat \in Seats /\ c.to \in Seats /\ c.pos \in Positions
    BY DEF WellCalled, Calls
  <1>2. /\ N \in Nat /\ N >= 2 /\ c.seat \in Nat /\ c.to \in Nat /\ c.seat < N /\ c.to < N
        /\ 0 \in Seats /\ 1 \in Seats /\ 0 \in Positions
    <2>1. 0 \in Positions
      BY Layout, DeckConstants DEF Positions, Board, BoardStart
    <2> QED BY <1>1, <2>1, Table DEF Seats
  <1>3. \A k \in Kinds, s \in Seats : Call(k, s) \in Calls
    BY <1>2 DEF Call, Calls
  <1>4. \A r, s \in Seats : r # s => WellCalled(Reveal(r, s))
    BY <1>2 DEF Reveal, WellCalled, Calls, Kinds
  <1>5. \A s \in Seats : \A p \in Hole(s) : WellCalled(ReadHole(s, p))
    BY Layout DEF ReadHole, WellCalled, Calls, Kinds
  <1>6. \A s \in {0, 1} : \A p \in Board : WellCalled(ReadBoard(s, p))
    BY <1>2, Layout DEF ReadBoard, WellCalled, Calls, Kinds
  <1>7. \A k \in Kinds, s \in Seats : k \notin {"reveal", "card", "board"} => WellCalled(Call(k, s))
    BY <1>3 DEF WellCalled, Call
  <1>8. \A s \in Seats : FirstOther(s) \in Seats /\ FirstOther(s) # s
    BY <1>2, Table DEF FirstOther
  <1>9. c.seat < N - 1 => c.seat + 1 \in Seats
    BY <1>2 DEF Seats
  <1>10. CASE c.do \in {"commit", "shuffle", "remask"}
    <2>1. CASE c.do = "commit"
      <3>1. \/ next = Call("commit", c.seat + 1) /\ c.seat + 1 \in Seats
            \/ next = Call("shuffle", 0) /\ c.seat = N - 1
        BY <1>2, <1>9, <2>1 DEF Following
      <3> QED BY <1>2, <1>7, <2>1, <3>1 DEF Call, NoCall, Kinds, Shuffles, Remasks, Passes
    <2>2. CASE c.do = "shuffle"
      <3>1. \/ next = Call("shuffle", c.seat + 1) /\ c.seat + 1 \in Seats
            \/ next = Call("remask", 0) /\ c.seat = N - 1
        BY <1>2, <1>9, <2>2 DEF Following
      <3> QED BY <1>2, <1>7, <2>2, <3>1 DEF Call, NoCall, Kinds, Shuffles, Remasks, Passes
    <2>3. CASE c.do = "remask"
      <3>1. \/ next = Call("remask", c.seat + 1) /\ c.seat + 1 \in Seats
            \/ next = Call("final", 0) /\ c.seat = N - 1
        BY <1>2, <1>9, <2>3 DEF Following
      <3> QED BY <1>2, <1>7, <2>3, <3>1 DEF Call, NoCall, Kinds, Shuffles, Remasks, Passes
    <2> QED BY <1>10, <2>1, <2>2, <2>3
  <1>11. CASE c.do = "final"
    <2>1. \/ next = Call("final", c.seat + 1) /\ c.seat + 1 \in Seats
          \/ next = Reveal(FirstOther(0), 0)
      BY <1>2, <1>9, <1>11 DEF Following
    <2> QED BY <1>2, <1>4, <1>7, <1>8, <1>11, <2>1 DEF Call, Reveal, NoCall, Kinds, Shuffles, Remasks, Passes
  <1>12. CASE c.do = "reveal"
    <2>1. \/ next = Reveal(NextOther(c.seat, c.to), c.to) /\ NextOther(c.seat, c.to) < N
          \/ next = ReadHole(c.to, c.to * HoleCards)
      BY <1>12 DEF Following
    <2>2. NextOther(c.seat, c.to) < N => NextOther(c.seat, c.to) \in Seats /\ NextOther(c.seat, c.to) # c.to
      BY <1>2 DEF NextOther, Seats
    <2>3. c.to * HoleCards \in Hole(c.to)
      BY <1>1, Layout
    <2>4. WellCalled(next)
      BY <1>1, <1>4, <1>5, <2>1, <2>2, <2>3
    <2> QED BY <1>12, <2>1, <2>4 DEF Call, Reveal, ReadHole, NoCall, Shuffles, Remasks, Passes
  <1>13. CASE c.do = "card"
    <2>1. \/ next = ReadHole(c.to, c.pos + 1) /\ c.pos + 1 \in Hole(c.to)
          \/ next = Reveal(FirstOther(c.to + 1), c.to + 1) /\ c.to < N - 1
          \/ next = Call("open", 0)
      BY <1>13 DEF Following
    <2>2. c.to < N - 1 => c.to + 1 \in Seats
      BY <1>2 DEF Seats
    <2>3. WellCalled(next)
      BY <1>1, <1>2, <1>4, <1>5, <1>7, <1>8, <2>1, <2>2 DEF Kinds
    <2> QED BY <1>13, <2>1, <2>3 DEF Call, Reveal, ReadHole, NoCall, Shuffles, Remasks, Passes
  <1>14. CASE c.do = "open"
    <2>1. \/ next = Call("open", c.seat + 1) /\ c.seat + 1 \in Seats
          \/ next = ReadBoard(0, BoardStart)
      BY <1>2, <1>9, <1>14 DEF Following
    <2>2. WellCalled(next)
      BY <1>6, <1>7, <2>1, Layout DEF Kinds
    <2> QED BY <1>14, <2>1, <2>2 DEF Call, ReadBoard, NoCall, Shuffles, Remasks, Passes
  <1>15. CASE c.do = "board"
    <2>1. \/ next = ReadBoard(1, c.pos) /\ c.pos \in Board
          \/ next = ReadBoard(0, c.pos + 1) /\ c.pos + 1 \in Board
          \/ next = NoCall
      BY <1>15 DEF Following, WellCalled
    <2>2. WellCalled(NoCall)
      BY <1>2, <1>7 DEF NoCall, Kinds
    <2>3. WellCalled(next)
      BY <1>6, <2>1, <2>2
    <2> QED BY <1>15, <2>1, <2>3 DEF Call, ReadBoard, NoCall, Shuffles, Remasks, Passes
  <1> QED BY <1>1, <1>10, <1>11, <1>12, <1>13, <1>14, <1>15 DEF Kinds

-----------------------------------------------------------------------------
(* Wallets *)

Shape(w) ==
    /\ DOMAIN w = Seats
    /\ \A s \in Seats : /\ DOMAIN w[s] = Hands
                        /\ \A h \in Hands : DOMAIN w[s][h] = {"gen", "perm", "deck"}

\* What a wallet did for hand h, if anything, it did to that hand only.
OnlyAt(s, h) ==
    /\ Shape(wallet)'
    /\ \A o \in Seats, k \in Hands : (o # s \/ k # h) => wallet'[o][k] = wallet[o][k]
Drew(s, h) ==
    /\ wallet[s][h].gen = 0
    /\ born' = [born EXCEPT ![s] = @ + 1]
    /\ wallet'[s][h].gen = born[s] + 1
    /\ wallet'[s][h].perm \in Perms
    /\ wallet'[s][h].deck = NoDeck
Took(s, h, d) ==
    /\ wallet[s][h].gen # 0
    /\ born' = born
    /\ wallet'[s][h].gen = wallet[s][h].gen
    /\ wallet'[s][h].perm = wallet[s][h].perm
    /\ wallet'[s][h].deck = d

\* A wallet that handles a call keeps its secrets, draws them, or takes a deck.
LEMMA HandlesEffect ==
    ASSUME Shape(wallet), NEW c, WellCalled(c), NEW h \in Hands, NEW d, WalletHandles(c, h, d)
    PROVE  /\ OnlyAt(c.seat, h)
           /\ \/ c.do = "commit" /\ wallet[c.seat][h].gen # 0 /\ wallet' = wallet /\ born' = born
              \/ c.do = "commit" /\ Drew(c.seat, h)
              \/ c.do \in Passes /\ Took(c.seat, h, Passed(c, d, wallet[c.seat][h]))
  <1> DEFINE s == c.seat
  <1>1. s \in Seats
    BY DEF WellCalled, Calls
  <1> HIDE DEF s
  <1>2. ASSUME NEW v, DOMAIN v = {"gen", "perm", "deck"}, wallet' = [wallet EXCEPT ![s][h] = v]
        PROVE  OnlyAt(s, h) /\ wallet'[s][h] = v
    <2>1. wallet' = [wallet EXCEPT ![s] = [wallet[s] EXCEPT ![h] = v]]
      BY <1>2
    <2> DEFINE row == [wallet[s] EXCEPT ![h] = v]
    <2>2. DOMAIN row = Hands /\ row[h] = v /\ \A k \in Hands : k # h => row[k] = wallet[s][k]
      BY <1>1 DEF Shape
    <2> HIDE DEF row
    <2>3. DOMAIN wallet' = Seats /\ wallet'[s] = row /\ \A o \in Seats : o # s => wallet'[o] = wallet[o]
      BY <1>1, <2>1 DEF Shape, row
    <2> QED BY <1>1, <1>2, <2>2, <2>3 DEF OnlyAt, Shape
  <1>3. CASE wallet' = wallet /\ born' = born /\ wallet[s][h].gen # 0 /\ c.do = "commit"
    BY <1>1, <1>3 DEF OnlyAt, s, Shape
  <1>4. CASE c.do = "commit" /\ ~(wallet' = wallet /\ born' = born /\ wallet[s][h].gen # 0)
    <2>1. Begin(s, h)
      BY <1>4 DEF WalletHandles, s, Passes
    <2>2. wallet[s][h].gen = 0 /\ born' = [born EXCEPT ![s] = @ + 1]
      BY <1>4, <2>1 DEF Begin, walletVars
    <2>3. PICK perm \in Perms : wallet' = [wallet EXCEPT ![s][h] =
                                   [gen |-> born[s] + 1, perm |-> perm, deck |-> NoDeck]]
      BY <1>4, <2>1, <2>2 DEF Begin, walletVars
    <2> DEFINE v == [gen |-> born[s] + 1, perm |-> perm, deck |-> NoDeck]
    <2>4. DOMAIN v = {"gen", "perm", "deck"} /\ v.gen = born[s] + 1 /\ v.perm = perm /\ v.deck = NoDeck
      OBVIOUS
    <2> HIDE DEF v
    <2>5. wallet' = [wallet EXCEPT ![s][h] = v]
      BY <2>3 DEF v
    <2>6. OnlyAt(s, h) /\ wallet'[s][h] = v
      BY <1>2, <2>4, <2>5
    <2>7. Drew(s, h)
      BY <2>2, <2>4, <2>6 DEF Drew
    <2> QED BY <1>4, <2>6, <2>7 DEF s
  <1>5. CASE c.do \in Passes
    <2> DEFINE x == Passed(c, d, wallet[s][h])
               v == [wallet[s][h] EXCEPT !.deck = x]
    <2>1. wallet[s][h].gen # 0 /\ born' = born /\ wallet' = [wallet EXCEPT ![s][h].deck = x]
      BY <1>5 DEF WalletHandles, s, Passes
    <2> HIDE DEF x
    <2>2. wallet' = [wallet EXCEPT ![s][h] = v]
      BY <2>1
    <2>3. DOMAIN wallet[s][h] = {"gen", "perm", "deck"}
      BY <1>1 DEF Shape
    <2>4. DOMAIN v = {"gen", "perm", "deck"} /\ v.gen = wallet[s][h].gen
          /\ v.perm = wallet[s][h].perm /\ v.deck = x
      BY <2>3
    <2> HIDE DEF v
    <2>5. OnlyAt(s, h) /\ wallet'[s][h] = v
      BY <1>2, <2>2, <2>4
    <2>6. Took(s, h, x)
      BY <2>1, <2>4, <2>5 DEF Took
    <2> QED BY <1>5, <2>5, <2>6 DEF s, x
  <1> QED BY <1>3, <1>4, <1>5 DEF WalletHandles

\* Every wallet's secrets are sets it drew, one per hand; it holds a deck only with
\* secrets; and it draws at most once per hand until it restarts.
Drawn(s) == {h \in Hands : wallet[s][h].gen # 0}
Stock ==
    /\ Shape(wallet)
    /\ born \in [Seats -> Nat]
    /\ \A s \in Seats, h \in Hands :
          /\ wallet[s][h].gen \in 0..born[s]
          /\ wallet[s][h].perm \in Perms
          /\ wallet[s][h].gen = 0 => wallet[s][h].deck = NoDeck
    /\ \A s \in Seats : \A h, k \in Hands :
          wallet[s][h].gen = wallet[s][k].gen /\ wallet[s][h].gen # 0 => h = k
    /\ \A s \in Seats : born[s] <= Cardinality(Drawn(s)) + (MaxHands + 1) * restarts

Emptied(s) ==
    /\ wallet' = [wallet EXCEPT ![s] = [h \in Hands |-> NoSecrets]]
    /\ born' = born

\* What can happen to the wallets in one step.
WalletMove ==
    \/ wallet' = wallet /\ born' = born /\ restarts' >= restarts
    \/ \E s \in Seats, h \in Hands : OnlyAt(s, h) /\ Drew(s, h) /\ restarts' = restarts
    \/ \E s \in Seats, h \in Hands : \E d : OnlyAt(s, h) /\ Took(s, h, d) /\ restarts' = restarts
    \/ \E s \in Seats : Emptied(s) /\ restarts' = restarts + 1

\* What it does to the sets of secrets: kept, forgotten, or drawn anew.
GenMove ==
    /\ \A s \in Seats : born'[s] >= born[s]
    /\ \A s \in Seats, h \in Hands :
          wallet'[s][h].gen \in {wallet[s][h].gen, 0, born[s] + 1}

\* Multiplication keeps the order.
LEMMA TimesMonotone ==
    ASSUME NEW c \in Nat, NEW a \in Nat, NEW b \in Nat, a <= b
    PROVE  c * a \in Nat /\ c * b \in Nat /\ c * a <= c * b
  <1>1. PICK k \in Nat : b = a + k
    <2>1. b - a \in Nat /\ b = a + (b - a)
      OBVIOUS
    <2> QED BY <2>1
  <1>2. c * k \in Nat /\ c * a \in Nat
    OBVIOUS
  <1>3. c * b = c * a + c * k
    BY <1>1
  <1> QED BY <1>2, <1>3

\* Few enough sets of secrets are ever drawn.
LEMMA DrawnFew ==
    ASSUME NEW D, D \subseteq Hands, NEW r \in 0..MaxRestarts,
           NEW k \in Nat, k <= Cardinality(D) + (MaxHands + 1) * r
    PROVE  k \in Gens
  <1>1. /\ MaxHands \in Nat /\ MaxRestarts \in Nat /\ IsFiniteSet(Hands) /\ Cardinality(Hands) = MaxHands + 1
    BY Numbers
  <1>2. Cardinality(D) \in Nat /\ Cardinality(D) <= MaxHands + 1
    BY <1>1, FS_Subset, FS_CardinalityType
  <1>3. (MaxHands + 1) * r <= (MaxHands + 1) * MaxRestarts
        /\ (MaxHands + 1) * r \in Nat /\ (MaxHands + 1) * MaxRestarts \in Nat
    <2>1. MaxHands + 1 \in Nat /\ r \in Nat /\ r <= MaxRestarts
      BY <1>1
    <2> QED BY <1>1, <2>1, TimesMonotone
  <1>4. (MaxHands + 1) * (MaxRestarts + 1) = (MaxHands + 1) * MaxRestarts + (MaxHands + 1)
    BY <1>1
  <1> QED BY <1>1, <1>2, <1>3, <1>4 DEF Gens, MaxDrawn

\* A wallet never draws more sets of secrets than MaxDrawn.
LEMMA StockBound ==
    ASSUME Stock, restarts \in 0..MaxRestarts
    PROVE  \A s \in Seats : born[s] \in Gens
  <1> SUFFICES ASSUME NEW s \in Seats PROVE born[s] \in Gens
    OBVIOUS
  <1>1. Drawn(s) \subseteq Hands
    BY DEF Drawn
  <1>2. born[s] \in Nat /\ born[s] <= Cardinality(Drawn(s)) + (MaxHands + 1) * restarts
    BY DEF Stock
  <1> QED BY <1>1, <1>2, DrawnFew

\* The wallets stay in order whatever happens to them.
LEMMA StockStep ==
    ASSUME Stock, restarts \in Nat, restarts' \in Nat, WalletMove
    PROVE  Stock' /\ GenMove
  <1>0. MaxHands \in Nat /\ IsFiniteSet(Hands) /\ Cardinality(Hands) = MaxHands + 1 /\ 0 \in Hands
    BY Numbers
  <1>1. \A s \in Seats : /\ IsFiniteSet(Drawn(s)) /\ Cardinality(Drawn(s)) \in Nat
                         /\ Cardinality(Drawn(s)) <= MaxHands + 1
    BY <1>0, FS_Subset, FS_CardinalityType DEF Drawn
  <1>2. CASE wallet' = wallet /\ born' = born /\ restarts' >= restarts
    <2>1. (MaxHands + 1) * restarts <= (MaxHands + 1) * restarts'
      <3>1. MaxHands + 1 \in Nat /\ restarts <= restarts'
        BY <1>0, <1>2
      <3> QED BY <3>1, TimesMonotone
    <2>2. \A s \in Seats : born'[s] <= Cardinality(Drawn(s)') + (MaxHands + 1) * restarts'
      <3>0. \A s \in Seats : Drawn(s)' = Drawn(s)
        BY <1>2 DEF Drawn
      <3> SUFFICES ASSUME NEW s \in Seats
                   PROVE  born[s] <= Cardinality(Drawn(s)) + (MaxHands + 1) * restarts'
        BY <1>2, <3>0
      <3>1. (MaxHands + 1) * restarts \in Nat /\ (MaxHands + 1) * restarts' \in Nat
        <4>1. MaxHands + 1 \in Nat /\ restarts <= restarts'
          BY <1>0, <1>2
        <4> QED BY <4>1, TimesMonotone
      <3>2. born[s] \in Nat /\ born[s] <= Cardinality(Drawn(s)) + (MaxHands + 1) * restarts
        BY DEF Stock
      <3> QED BY <1>1, <2>1, <3>1, <3>2
    <2>3. Stock'
      BY <1>2, <2>2 DEF Stock
    <2>4. GenMove
      BY <1>2 DEF GenMove, Stock
    <2> QED BY <2>3, <2>4
  <1>3. ASSUME NEW s \in Seats, NEW h \in Hands, OnlyAt(s, h), Drew(s, h), restarts' = restarts
        PROVE  Stock' /\ GenMove
    <2>1. born' \in [Seats -> Nat] /\ born'[s] = born[s] + 1 /\ \A o \in Seats : o # s => born'[o] = born[o]
      BY <1>3 DEF Drew, Stock
    <2>2. \A o \in Seats, k \in Hands :
             IF o = s /\ k = h THEN wallet'[o][k].gen = born[s] + 1 /\ wallet'[o][k].perm \in Perms
                                     /\ wallet'[o][k].deck = NoDeck /\ wallet[o][k].gen = 0
             ELSE wallet'[o][k] = wallet[o][k]
      BY <1>3 DEF OnlyAt, Drew
    <2>3. \A o \in Seats : born[o] \in Nat /\ born'[o] \in Nat /\ born'[o] >= born[o]
      BY <2>1 DEF Stock
    <2>4. GenMove
      BY <2>2, <2>3 DEF GenMove
    <2>5. \A o \in Seats, k \in Hands :
             /\ wallet'[o][k].gen \in 0..born'[o]
             /\ wallet'[o][k].perm \in Perms
             /\ wallet'[o][k].gen = 0 => wallet'[o][k].deck = NoDeck
      <3> SUFFICES ASSUME NEW o \in Seats, NEW k \in Hands
                   PROVE  /\ wallet'[o][k].gen \in 0..born'[o]
                          /\ wallet'[o][k].perm \in Perms
                          /\ wallet'[o][k].gen = 0 => wallet'[o][k].deck = NoDeck
        OBVIOUS
      <3>1. CASE o = s /\ k = h
        BY <2>1, <2>2, <2>3, <3>1
      <3>2. CASE ~(o = s /\ k = h)
        <4>1. wallet'[o][k] = wallet[o][k]
          BY <2>2, <3>2
        <4> QED BY <2>3, <4>1 DEF Stock
      <3> QED BY <3>1, <3>2
    <2>6. ASSUME NEW o \in Seats, NEW j \in Hands, NEW k \in Hands,
                 wallet'[o][j].gen = wallet'[o][k].gen, wallet'[o][j].gen # 0
          PROVE  j = k
      <3>1. wallet[o][j].gen \in 0..born[o] /\ wallet[o][k].gen \in 0..born[o]
            /\ (wallet[o][j].gen = wallet[o][k].gen /\ wallet[o][j].gen # 0 => j = k)
        BY DEF Stock
      <3> QED BY <2>2, <2>3, <2>6, <3>1
    <2>7. ASSUME NEW o \in Seats
          PROVE  born'[o] <= Cardinality(Drawn(o)') + (MaxHands + 1) * restarts'
      <3>1. born[o] <= Cardinality(Drawn(o)) + (MaxHands + 1) * restarts /\ (MaxHands + 1) * restarts \in Nat
        BY <1>0 DEF Stock
      <3>2. CASE o = s
        <4>1. Drawn(o)' = Drawn(o) \cup {h} /\ h \notin Drawn(o)
          BY <2>2, <2>3, <3>2 DEF Drawn
        <4>2. Cardinality(Drawn(o)') = Cardinality(Drawn(o)) + 1
          BY <1>1, <4>1, FS_AddElement
        <4> QED BY <1>1, <1>3, <2>1, <2>3, <3>1, <3>2, <4>2
      <3>3. CASE o # s
        <4>1. Drawn(o)' = Drawn(o)
          BY <2>2, <3>3 DEF Drawn
        <4> QED BY <1>3, <2>1, <3>1, <3>3, <4>1
      <3> QED BY <3>2, <3>3
    <2>8. Shape(wallet)'
      BY <1>3 DEF OnlyAt
    <2>9. Stock'
      BY <2>1, <2>5, <2>6, <2>7, <2>8 DEF Stock
    <2> QED BY <2>4, <2>9
  <1>4. ASSUME NEW s \in Seats, NEW h \in Hands, NEW d, OnlyAt(s, h), Took(s, h, d), restarts' = restarts
        PROVE  Stock' /\ GenMove
    <2>1. \A o \in Seats, k \in Hands :
             /\ wallet'[o][k].gen = wallet[o][k].gen
             /\ wallet'[o][k].perm = wallet[o][k].perm
             /\ wallet[o][k].gen = 0 => wallet'[o][k].deck = wallet[o][k].deck
      BY <1>4 DEF OnlyAt, Took
    <2>2. born' = born /\ Shape(wallet)'
      BY <1>4 DEF OnlyAt, Took
    <2>3. \A o \in Seats : Drawn(o)' = Drawn(o)
      BY <2>1 DEF Drawn
    <2>4. \A o \in Seats : born'[o] <= Cardinality(Drawn(o)') + (MaxHands + 1) * restarts'
      BY <1>4, <2>2, <2>3 DEF Stock
    <2>5. Stock'
      BY <2>1, <2>2, <2>4 DEF Stock
    <2>6. \A o \in Seats : born[o] \in Nat
      BY DEF Stock
    <2>7. GenMove
      BY <2>1, <2>2, <2>6 DEF GenMove
    <2> QED BY <2>5, <2>7
  <1>5. ASSUME NEW s \in Seats, Emptied(s), restarts' = restarts + 1
        PROVE  Stock' /\ GenMove
    <2>1. NoSecrets.gen = 0 /\ NoSecrets.perm \in Perms /\ NoSecrets.deck = NoDeck
          /\ DOMAIN NoSecrets = {"gen", "perm", "deck"}
      BY DeckConstants DEF NoSecrets
    <2>2. /\ Shape(wallet)'
          /\ \A o \in Seats, k \in Hands :
                wallet'[o][k] = IF o = s THEN NoSecrets ELSE wallet[o][k]
      BY <1>5, <2>1 DEF Emptied, Stock, Shape
    <2>3. born' = born /\ born \in [Seats -> Nat]
      BY <1>5 DEF Emptied, Stock
    <2>4. \A o \in Seats : born'[o] \in Nat
      BY <2>3
    <2>5. GenMove
      BY <2>1, <2>2, <2>3, <2>4 DEF GenMove
    <2>6. ASSUME NEW o \in Seats
          PROVE  born'[o] <= Cardinality(Drawn(o)') + (MaxHands + 1) * restarts'
      <3>1. born[o] <= Cardinality(Drawn(o)) + (MaxHands + 1) * restarts /\ (MaxHands + 1) * restarts \in Nat
        BY <1>0 DEF Stock
      <3>2. (MaxHands + 1) * restarts' = (MaxHands + 1) * restarts + (MaxHands + 1)
        BY <1>0, <1>5
      <3>3. CASE o = s
        <4>1. Drawn(o)' = {}
          BY <2>1, <2>2, <3>3 DEF Drawn
        <4>2. Cardinality(Drawn(o)') = 0
          BY <4>1, FS_EmptySet
        <4>3. Cardinality(Drawn(o)) \in Nat /\ Cardinality(Drawn(o)) <= MaxHands + 1 /\ born'[o] = born[o]
          BY <1>1, <2>3
        <4> DEFINE before == (MaxHands + 1) * restarts
                   after == (MaxHands + 1) * restarts'
                   held == Cardinality(Drawn(o))
        <4>4. before \in Nat /\ after = before + (MaxHands + 1) /\ held \in Nat /\ held <= MaxHands + 1
              /\ born'[o] \in Nat /\ born'[o] <= held + before
          BY <2>4, <3>1, <3>2, <4>3
        <4> HIDE DEF before, after, held
        <4>5. born'[o] <= 0 + after
          BY <1>0, <4>4
        <4> QED BY <4>2, <4>5 DEF after
      <3>4. CASE o # s
        <4>1. Drawn(o)' = Drawn(o)
          BY <2>2, <3>4 DEF Drawn
        <4>2. Cardinality(Drawn(o)) \in Nat /\ born'[o] = born[o] /\ Cardinality(Drawn(o)') = Cardinality(Drawn(o))
          BY <1>1, <2>3, <4>1
        <4> DEFINE before == (MaxHands + 1) * restarts
                   after == (MaxHands + 1) * restarts'
                   held == Cardinality(Drawn(o))
        <4>3. before \in Nat /\ after = before + (MaxHands + 1) /\ held \in Nat
              /\ born'[o] \in Nat /\ born'[o] <= held + before
          BY <2>4, <3>1, <3>2, <4>2
        <4> HIDE DEF before, after, held
        <4>4. born'[o] <= held + after
          BY <1>0, <4>3
        <4>5. Cardinality(Drawn(o)') = held
          BY <4>2 DEF held
        <4> QED BY <4>4, <4>5 DEF after
      <3> QED BY <3>3, <3>4
    <2>7. \A o \in Seats, k \in Hands :
             /\ wallet'[o][k].gen \in 0..born'[o]
             /\ wallet'[o][k].perm \in Perms
             /\ wallet'[o][k].gen = 0 => wallet'[o][k].deck = NoDeck
      <3> SUFFICES ASSUME NEW o \in Seats, NEW k \in Hands
                   PROVE  /\ wallet'[o][k].gen \in 0..born'[o]
                          /\ wallet'[o][k].perm \in Perms
                          /\ wallet'[o][k].gen = 0 => wallet'[o][k].deck = NoDeck
        OBVIOUS
      <3>1. CASE o = s
        BY <2>1, <2>2, <2>4, <3>1
      <3>2. CASE o # s
        <4>1. wallet'[o][k] = wallet[o][k]
          BY <2>2, <3>2
        <4> QED BY <2>3, <4>1 DEF Stock
      <3> QED BY <3>1, <3>2
    <2>8. \A o \in Seats : \A j, k \in Hands :
             wallet'[o][j].gen = wallet'[o][k].gen /\ wallet'[o][j].gen # 0 => j = k
      BY <2>1, <2>2 DEF Stock
    <2>9. Stock'
      BY <2>2, <2>3, <2>6, <2>7, <2>8 DEF Stock
    <2> QED BY <2>5, <2>9
  <1> QED BY <1>2, <1>3, <1>4, <1>5 DEF WalletMove

-----------------------------------------------------------------------------
(* Where the deal is *)

Place ==
    /\ st \in {"none", "dealing", "playing", "over"}
    /\ handNo \in Hands /\ process \in Nat /\ restarts \in 0..MaxRestarts
    /\ WellCalled(call) /\ (call.do # "none" <=> st = "dealing")
    /\ \A m \in late : m.hand \in Hands /\ WellCalled(m.call) /\ m.call.do \in {"commit"} \cup Passes
    /\ used \in [Seats -> Nat] /\ \A s \in Seats : used[s] <= born[s]

\* Going on to the next call.
LEMMA ProceedEffect ==
    ASSUME Place, st = "dealing", Proceed
    PROVE  /\ WellCalled(call)' /\ st' \in {"dealing", "playing"}
           /\ call'.do # "none" <=> st' = "dealing"
           /\ call' = Following(call) /\ call.do # "none"
           /\ st' = "dealing" => played' = played
           /\ st' = "playing" => played' = Append(played, [table |-> process, gens |-> used])
  <1>1. WellCalled(call) /\ call.do # "none" /\ call' = Following(call)
    BY DEF Place, Proceed
  <1>2. WellCalled(Following(call)) /\ (Following(call).do = "none" <=> Following(call) = NoCall)
    BY <1>1, FollowingCall
  <1>3. CASE Following(call) = NoCall
    BY <1>1, <1>2, <1>3 DEF Proceed
  <1>4. CASE Following(call) # NoCall
    BY <1>1, <1>2, <1>4 DEF Proceed
  <1> QED BY <1>3, <1>4

\* The call that begins a deal and the one that stands for none.
LEMMA FirstCalls ==
    /\ WellCalled(NoCall) /\ WellCalled(Call("commit", 0))
    /\ NoCall.do = "none" /\ Call("commit", 0).do = "commit"
    /\ NothingUsed \in [Seats -> Nat] /\ \A s \in Seats : NothingUsed[s] = 0
  <1>1. 0 \in Positions
    BY Layout, DeckConstants DEF Positions, Board, BoardStart
  <1> QED BY <1>1, Table DEF NoCall, Call, WellCalled, Calls, Kinds, NothingUsed

\* The deal does not end with a pass.
LEMMA FinalGoesOn ==
    ASSUME NEW c, WellCalled(c), c.do = "final"
    PROVE  Following(c).do \in {"final", "reveal"}
  BY DEF Following, Call, Reveal

\* Every step keeps the deal in place and moves the wallets in one of the known ways.
LEMMA PlaceStep ==
    ASSUME Place, Stock, [Next]_vars
    PROVE  Place' /\ WalletMove
  <1>0. restarts \in Nat /\ handNo \in Hands /\ handNo \in Nat /\ MaxHands \in Nat /\ MaxRestarts \in Nat
    BY Numbers DEF Place
  <1>1. \A s \in Seats : born[s] \in Nat /\ used[s] \in Nat /\ used[s] <= born[s]
    BY DEF Place, Stock
  <1>2. CASE UNCHANGED vars
    BY <1>0, <1>2 DEF vars, tableVars, walletVars, history, Place, WalletMove
  <1>3. CASE StartDeal \/ NextHand
    <2>1. /\ st' = "dealing" /\ call' = Call("commit", 0) /\ used' = NothingUsed
          /\ UNCHANGED <<handNo, wallet, born, late, restarts, process>>
      BY <1>3 DEF StartDeal, NextHand, BeginDeal, walletVars
    <2>2. \A s \in Seats : used'[s] <= born'[s]
      BY <1>1, <2>1, FirstCalls
    <2>3. used' \in [Seats -> Nat] /\ WellCalled(call)' /\ call'.do # "none"
      BY <2>1, FirstCalls
    <2> QED BY <1>0, <2>1, <2>2, <2>3 DEF Place, WalletMove
  <1>4. CASE PassAnswered
    <2>1. /\ st = "dealing" /\ WalletHandles(call, handNo, deck) /\ Proceed
          /\ UNCHANGED <<handNo, late, restarts, process>>
          /\ used' = IF call.do = "shuffle" THEN [used EXCEPT ![call.seat] = Secrets(call.seat).gen] ELSE used
      BY <1>4 DEF PassAnswered
    <2>2. WellCalled(call) /\ call.seat \in Seats
      BY DEF Place, WellCalled, Calls
    <2>3. /\ OnlyAt(call.seat, handNo)
          /\ \/ wallet' = wallet /\ born' = born
             \/ Drew(call.seat, handNo)
             \/ Took(call.seat, handNo, Passed(call, deck, wallet[call.seat][handNo]))
      BY <1>0, <2>1, <2>2, HandlesEffect DEF Stock
    <2>4. WalletMove
      <3>1. CASE wallet' = wallet /\ born' = born
        BY <1>0, <2>1, <3>1 DEF WalletMove
      <3>2. CASE Drew(call.seat, handNo)
        BY <1>0, <2>1, <2>2, <2>3, <3>2 DEF WalletMove
      <3>3. CASE Took(call.seat, handNo, Passed(call, deck, wallet[call.seat][handNo]))
        BY <1>0, <2>1, <2>2, <2>3, <3>3 DEF WalletMove
      <3> QED BY <2>3, <3>1, <3>2, <3>3
    <2>5. restarts' = restarts /\ GenMove
      BY <1>0, <2>1, <2>4, StockStep
    <2>6. \A s \in Seats : born'[s] >= born[s] /\ born'[s] \in Nat
      BY <1>0, <2>4, <2>5, StockStep DEF GenMove, Stock
    <2>7. Secrets(call.seat).gen \in 0..born[call.seat]
      BY <1>0, <2>2 DEF Stock, Secrets
    <2>8. used' \in [Seats -> Nat] /\ \A s \in Seats : used'[s] <= born[s]
      BY <1>1, <2>1, <2>2, <2>7 DEF Place
    <2>9. \A s \in Seats : used'[s] <= born'[s]
      BY <1>1, <2>6, <2>8
    <2>10. WellCalled(call)' /\ st' \in {"dealing", "playing"} /\ (call'.do # "none" <=> st' = "dealing")
      BY <2>1, ProceedEffect
    <2> QED BY <2>1, <2>4, <2>8, <2>9, <2>10 DEF Place
  <1>5. CASE RevealAnswered \/ CardAnswered
    <2>1. st = "dealing" /\ Proceed /\ UNCHANGED <<handNo, wallet, born, late, restarts, process, used>>
      BY <1>5 DEF RevealAnswered, CardAnswered, walletVars
    <2>2. WellCalled(call)' /\ st' \in {"dealing", "playing"} /\ (call'.do # "none" <=> st' = "dealing")
      BY <2>1, ProceedEffect
    <2> QED BY <1>0, <2>1, <2>2 DEF Place, WalletMove
  <1>6. CASE CallFails
    <2>1. /\ st = "dealing" /\ st' = "none" /\ call' = NoCall /\ used' = NothingUsed
          /\ UNCHANGED <<handNo, wallet, born, restarts, process>>
          /\ \/ late' = late
             \/ /\ call.do \in {"commit"} \cup Passes
                /\ late' = late \cup {[call |-> call, hand |-> handNo, deck |-> deck]}
      BY <1>6 DEF CallFails, NoHand, walletVars
    <2>2. \A s \in Seats : used'[s] <= born'[s]
      BY <1>1, <2>1, FirstCalls
    <2>3. used' \in [Seats -> Nat] /\ WellCalled(call)' /\ call'.do = "none"
      BY <2>1, FirstCalls
    <2>4. \A m \in late' : m.hand \in Hands /\ WellCalled(m.call) /\ m.call.do \in {"commit"} \cup Passes
      BY <1>0, <2>1 DEF Place
    <2> QED BY <1>0, <2>1, <2>2, <2>3, <2>4 DEF Place, WalletMove
  <1>7. ASSUME NEW m \in late, LateArrives(m)
        PROVE  Place' /\ WalletMove
    <2>1. /\ late' = late \ {m} /\ UNCHANGED <<st, handNo, call, used, restarts, process>>
          /\ WalletHandles(m.call, m.hand, m.deck) \/ UNCHANGED <<wallet, born>>
      BY <1>7 DEF LateArrives, tableVars, history, walletVars
    <2>2. m.hand \in Hands /\ WellCalled(m.call) /\ m.call.seat \in Seats
      BY DEF Place, WellCalled, Calls
    <2>3. WalletMove
      <3>1. CASE UNCHANGED <<wallet, born>>
        BY <1>0, <2>1, <3>1 DEF WalletMove
      <3>2. CASE WalletHandles(m.call, m.hand, m.deck)
        <4>1. /\ OnlyAt(m.call.seat, m.hand)
              /\ \/ wallet' = wallet /\ born' = born
                 \/ Drew(m.call.seat, m.hand)
                 \/ Took(m.call.seat, m.hand, Passed(m.call, m.deck, wallet[m.call.seat][m.hand]))
          BY <2>2, <3>2, HandlesEffect DEF Stock
        <4>2. CASE wallet' = wallet /\ born' = born
          BY <1>0, <2>1, <4>2 DEF WalletMove
        <4>3. CASE Drew(m.call.seat, m.hand)
          BY <2>1, <2>2, <4>1, <4>3 DEF WalletMove
        <4>4. CASE Took(m.call.seat, m.hand, Passed(m.call, m.deck, wallet[m.call.seat][m.hand]))
          BY <2>1, <2>2, <4>1, <4>4 DEF WalletMove
        <4> QED BY <4>1, <4>2, <4>3, <4>4
      <3> QED BY <2>1, <3>1, <3>2
    <2>4. \A s \in Seats : born'[s] >= born[s] /\ born'[s] \in Nat
      BY <1>0, <2>1, <2>3, StockStep DEF GenMove, Stock
    <2>5. \A s \in Seats : used'[s] <= born'[s]
      BY <1>1, <2>1, <2>4
    <2> QED BY <2>1, <2>3, <2>5 DEF Place
  <1>8. CASE FinishHand
    <2>1. /\ st = "playing" /\ st' = "over" /\ handNo < MaxHands /\ handNo' = handNo + 1
          /\ UNCHANGED <<call, wallet, born, late, restarts, process, used>>
      BY <1>8 DEF FinishHand, walletVars, history
    <2>2. handNo' \in Hands
      BY <1>0, <2>1 DEF Hands
    <2> QED BY <1>0, <2>1, <2>2 DEF Place, WalletMove
  <1>9. CASE TableRestarts
    <2>1. /\ restarts < MaxRestarts /\ restarts' = restarts + 1 /\ process' = process + 1
          /\ st' = "none" /\ call' = NoCall /\ handNo' = 0 /\ used' = NothingUsed
          /\ UNCHANGED <<wallet, born, late>>
      BY <1>9 DEF TableRestarts, NoHand, walletVars
    <2>2. \A s \in Seats : used'[s] <= born'[s]
      BY <1>1, <2>1, FirstCalls
    <2>3. used' \in [Seats -> Nat] /\ WellCalled(call)' /\ call'.do = "none"
      BY <2>1, FirstCalls
    <2>4. handNo' \in Hands /\ restarts' \in 0..MaxRestarts /\ restarts' >= restarts /\ process' \in Nat
      BY <1>0, <2>1, Numbers DEF Place
    <2> QED BY <2>1, <2>2, <2>3, <2>4 DEF Place, WalletMove
  <1>10. ASSUME NEW s \in Seats, WalletRestarts(s)
         PROVE  Place' /\ WalletMove
    <2>1. /\ restarts < MaxRestarts /\ restarts' = restarts + 1
          /\ Emptied(s) /\ UNCHANGED <<st, handNo, call, late, process, used, born>>
      BY <1>10 DEF WalletRestarts, Emptied, tableVars
    <2>2. restarts' \in 0..MaxRestarts
      BY <1>0, <2>1
    <2> QED BY <2>1, <2>2 DEF Place, WalletMove
  <1> QED BY <1>2, <1>3, <1>4, <1>5, <1>6, <1>7, <1>8, <1>9, <1>10 DEF Next, DealStep

-----------------------------------------------------------------------------
(* The hands of one table process share no secrets *)

HasShuffled(s) == st = "playing" \/ (st = "dealing" /\ s < Shuffles(call))

\* The secrets of this deal belong to no other hand id.
UsedHere ==
    \A s \in Seats : HasShuffled(s) =>
        used[s] \in 1..born[s] /\ \A h \in Hands \ {handNo} : wallet[s][h].gen # used[s]

\* The secrets of a hand that is over are gone from this hand id and all later ones.
Gone(gens) ==
    \A s \in Seats : /\ gens[s] \in 1..born[s]
                     /\ \A h \in Hands : h >= handNo => wallet[s][h].gen # gens[s]
                     /\ HasShuffled(s) => used[s] # gens[s]
Current(i) == st = "playing" /\ i = Len(played)
Past ==
    \A i \in 1..Len(played) :
        /\ played[i].table <= process
        /\ played[i].table = process => IF Current(i) THEN played[i].gens = used ELSE Gone(played[i].gens)

DealtHands == [table : Nat, gens : [Seats -> Nat]]
Fresh == played \in Seq(DealtHands) /\ UsedHere /\ Past /\ HandsAreFresh

\* A seat that has shuffled did so before, or has done it in this step with its
\* secrets of this hand.
Shuffling ==
    \A s \in Seats : HasShuffled(s)' =>
        \/ HasShuffled(s) /\ used'[s] = used[s]
        \/ used'[s] = wallet[s][handNo].gen /\ used'[s] # 0

\* While no hand starts or ends.
LEMMA FreshMove ==
    ASSUME Place, Stock, Fresh, GenMove, Shuffling, \A s \in Seats : born'[s] \in Nat,
           handNo' = handNo, process' = process, played' = played,
           st' = "playing" => st = "playing", st = "playing" => st' = "playing" /\ used' = used
    PROVE  Fresh'
  <1>1. handNo \in Hands /\ \A s \in Seats : born[s] \in Nat /\ born'[s] \in Nat /\ born'[s] >= born[s]
    BY DEF Place, Stock, GenMove
  <1>2. ASSUME NEW s \in Seats, HasShuffled(s)'
        PROVE  used'[s] \in 1..born'[s] /\ \A h \in Hands \ {handNo} : wallet'[s][h].gen # used'[s]
    <2>1. used'[s] \in 1..born[s] /\ \A h \in Hands \ {handNo} : wallet[s][h].gen # used'[s]
      <3>1. CASE HasShuffled(s) /\ used'[s] = used[s]
        BY <3>1 DEF Fresh, UsedHere
      <3>2. CASE used'[s] = wallet[s][handNo].gen /\ used'[s] # 0
        <4>1. wallet[s][handNo].gen \in 0..born[s]
          BY <1>1 DEF Stock
        <4>2. \A h \in Hands \ {handNo} : wallet[s][h].gen # wallet[s][handNo].gen
          BY <1>1, <3>2 DEF Stock
        <4> QED BY <1>1, <3>2, <4>1, <4>2
      <3> QED BY <1>2, <3>1, <3>2 DEF Shuffling
    <2>2. \A h \in Hands : wallet'[s][h].gen \in {wallet[s][h].gen, 0, born[s] + 1}
      BY DEF GenMove
    <2>3. used'[s] # 0 /\ used'[s] # born[s] + 1 /\ used'[s] \in 1..born'[s]
      BY <1>1, <2>1
    <2> QED BY <2>1, <2>2, <2>3
  <1>3. UsedHere'
    BY <1>2 DEF UsedHere
  <1>4. ASSUME NEW gens, Gone(gens) PROVE Gone(gens)'
    <2> SUFFICES ASSUME NEW s \in Seats
                 PROVE  /\ gens[s] \in 1..born'[s]
                        /\ \A h \in Hands : h >= handNo => wallet'[s][h].gen # gens[s]
                        /\ HasShuffled(s)' => used'[s] # gens[s]
      BY DEF Gone
    <2>1. /\ gens[s] \in 1..born[s]
          /\ \A h \in Hands : h >= handNo => wallet[s][h].gen # gens[s]
          /\ HasShuffled(s) => used[s] # gens[s]
      BY <1>4 DEF Gone
    <2>2. gens[s] # 0 /\ gens[s] # born[s] + 1 /\ gens[s] \in 1..born'[s]
      BY <1>1, <2>1
    <2>3. \A h \in Hands : wallet'[s][h].gen \in {wallet[s][h].gen, 0, born[s] + 1}
      BY DEF GenMove
    <2>4. handNo >= handNo
      BY <1>1, Numbers
    <2>5. HasShuffled(s)' => used'[s] # gens[s]
      BY <1>1, <2>1, <2>4 DEF Shuffling
    <2> QED BY <2>1, <2>2, <2>3, <2>5
  <1>5. Past'
    <2> SUFFICES ASSUME NEW i \in 1..Len(played)
                 PROVE  /\ played[i].table <= process
                        /\ played[i].table = process =>
                              IF Current(i)' THEN played[i].gens = used' ELSE Gone(played[i].gens)'
      BY DEF Past, Current
    <2>1. /\ played[i].table <= process
          /\ played[i].table = process => IF Current(i) THEN played[i].gens = used ELSE Gone(played[i].gens)
      BY DEF Fresh, Past
    <2>2. (Current(i)' => Current(i) /\ used' = used) /\ (Current(i) => Current(i)')
      BY DEF Current
    <2>3. CASE Current(i)
      BY <2>1, <2>2, <2>3
    <2>4. CASE ~Current(i)
      BY <1>4, <2>1, <2>2, <2>4
    <2> QED BY <2>3, <2>4
  <1>6. HandsAreFresh' /\ played' \in Seq(DealtHands)
    BY DEF Fresh, HandsAreFresh
  <1> QED BY <1>3, <1>5, <1>6 DEF Fresh

\* The last card is read and the hand starts.
LEMMA FreshStart ==
    ASSUME Place, Stock, Fresh, st = "dealing", st' = "playing", \A s \in Seats : HasShuffled(s),
           played' = Append(played, [table |-> process, gens |-> used]),
           UNCHANGED <<handNo, process, wallet, born, used>>
    PROVE  Fresh'
  <1> DEFINE new == [table |-> process, gens |-> used]
             n == Len(played)
  <1>1. new \in DealtHands /\ new.table = process /\ new.gens = used
    BY DEF Place, DealtHands
  <1>2. n \in Nat /\ played \in Seq(DealtHands)
    BY DEF Fresh
  <1> HIDE DEF new
  <1>3. /\ played' \in Seq(DealtHands) /\ Len(played') = n + 1 /\ played'[n + 1] = new
        /\ \A i \in 1..n : played'[i] = played[i]
    BY <1>1, <1>2 DEF new
  <1> HIDE DEF n
  <1>4. \A i \in 1..n : played[i].table <= process /\ (played[i].table = process => Gone(played[i].gens))
    BY DEF Fresh, Past, Current, n
  <1>5. \A gens : Gone(gens) => Gone(gens)'
    BY DEF Gone, HasShuffled
  <1>6. UsedHere'
    BY DEF Fresh, UsedHere, HasShuffled
  <1>7. Past'
    <2> SUFFICES ASSUME NEW i \in 1..(n + 1), NEW gens, gens = played'[i].gens
                 PROVE  /\ played'[i].table <= process
                        /\ played'[i].table = process => IF Current(i)' THEN gens = used ELSE Gone(gens)'
      BY <1>3 DEF Past, Gone
    <2>1. process \in Nat
      BY DEF Place
    <2>2. CASE i = n + 1
      BY <1>1, <1>3, <2>1, <2>2 DEF Current
    <2>3. CASE i # n + 1
      <3>1. i \in 1..n /\ ~Current(i)'
        BY <1>2, <1>3, <2>3 DEF Current
      <3> QED BY <1>3, <1>4, <1>5, <3>1
    <2> QED BY <2>2, <2>3
  <1>8. HandsAreFresh'
    <2> SUFFICES ASSUME NEW i \in 1..(n + 1), NEW j \in 1..(n + 1), i < j,
                        played'[i].table = played'[j].table, NEW s \in Seats
                 PROVE  played'[i].gens[s] # played'[j].gens[s]
      BY <1>3 DEF HandsAreFresh
    <2>1. i \in 1..n
      BY <1>2
    <2>2. CASE j = n + 1
      <3>1. Gone(played[i].gens)
        BY <1>1, <1>3, <1>4, <2>1, <2>2
      <3> QED BY <1>1, <1>3, <2>1, <2>2, <3>1 DEF Gone
    <2>3. CASE j # n + 1
      <3>1. j \in 1..n
        BY <1>2, <2>3
      <3> QED BY <1>3, <2>1, <3>1 DEF Fresh, HandsAreFresh, n
    <2> QED BY <2>2, <2>3
  <1> QED BY <1>3, <1>6, <1>7, <1>8 DEF Fresh

\* The hand ends: the counter moves past its secrets.
LEMMA FreshFinish ==
    ASSUME Place, Stock, Fresh, FinishHand
    PROVE  Fresh'
  <1>1. /\ st = "playing" /\ st' = "over" /\ handNo' = handNo + 1
        /\ UNCHANGED <<process, wallet, born, used, played>>
    BY DEF FinishHand, walletVars, history
  <1>2. handNo \in Hands /\ handNo \in Nat /\ Hands \subseteq Nat
    BY Numbers DEF Place
  <1>3. \A s \in Seats : ~HasShuffled(s)' /\ HasShuffled(s)
    BY <1>1 DEF HasShuffled
  <1>4. ASSUME NEW gens, gens = used PROVE Gone(gens)'
    <2> SUFFICES ASSUME NEW s \in Seats
                 PROVE  used[s] \in 1..born[s] /\ \A h \in Hands : h >= handNo + 1 => wallet[s][h].gen # used[s]
      BY <1>1, <1>3, <1>4 DEF Gone
    <2>1. used[s] \in 1..born[s] /\ \A h \in Hands \ {handNo} : wallet[s][h].gen # used[s]
      BY <1>3 DEF Fresh, UsedHere
    <2>2. \A h \in Hands : h >= handNo + 1 => h # handNo
      BY <1>2
    <2> QED BY <2>1, <2>2
  <1>5. ASSUME NEW gens, Gone(gens) PROVE Gone(gens)'
    <2>1. \A h \in Hands : h >= handNo + 1 => h >= handNo
      BY <1>2
    <2> QED BY <1>1, <1>3, <1>5, <2>1 DEF Gone
  <1>6. Past'
    <2> SUFFICES ASSUME NEW i \in 1..Len(played), NEW gens, gens = played[i].gens
                 PROVE  played[i].table <= process /\ (played[i].table = process => Gone(gens)')
      BY <1>1 DEF Past, Current, Gone
    <2> QED BY <1>4, <1>5 DEF Fresh, Past
  <1> QED BY <1>1, <1>3, <1>6 DEF Fresh, UsedHere, HandsAreFresh

\* A deal that goes on or begins: who has shuffled did so in this deal.
LEMMA ShufflingStep ==
    ASSUME Place, Stock, [Next]_vars, st' = "dealing"
    PROVE  handNo' = handNo /\ st # "playing" /\ Shuffling /\ process' = process /\ played' = played
  <1>1. Seats \subseteq Nat /\ N \in Nat /\ \A s \in Seats : s < N
    BY Table DEF Seats
  <1>2. CASE UNCHANGED <<st, call, handNo, process, played, used>>
    BY <1>2 DEF Shuffling, HasShuffled
  <1>3. CASE StartDeal \/ NextHand
    <2>1. /\ st # "playing" /\ st' = "dealing" /\ call' = Call("commit", 0)
          /\ UNCHANGED <<handNo, process, played>>
      BY <1>3 DEF StartDeal, NextHand, BeginDeal
    <2>2. Shuffles(call') = 0
      BY <2>1, FirstCalls DEF Shuffles
    <2>3. Shuffling
      BY <1>1, <2>1, <2>2 DEF Shuffling, HasShuffled
    <2> QED BY <2>1, <2>3
  <1>4. CASE PassAnswered
    <2>1. /\ st = "dealing" /\ WalletHandles(call, handNo, deck) /\ Proceed
          /\ UNCHANGED <<handNo, process>>
          /\ used' = IF call.do = "shuffle" THEN [used EXCEPT ![call.seat] = Secrets(call.seat).gen] ELSE used
      BY <1>4 DEF PassAnswered
    <2>2. /\ WellCalled(call) /\ call.seat \in Seats /\ call.do \in {"commit", "shuffle", "remask", "final"}
      BY <2>1 DEF Place, WellCalled, Calls, WalletHandles, Passes
    <2>3. call.do = "shuffle" => Secrets(call.seat).gen # 0
      BY <2>1 DEF WalletHandles, Passes, Secrets
    <2>4. call' = Following(call) /\ (call'.do # "none" <=> st' = "dealing") /\ (st' = "dealing" => played' = played)
      BY <2>1, ProceedEffect
    <2>5. /\ call'.do # "none"
          /\ call.do = "commit" => Shuffles(call') = 0
          /\ call.do = "shuffle" => Shuffles(call') = call.seat + 1 /\ Shuffles(call) = call.seat
          /\ call.do \in {"remask", "final"} => Shuffles(call') = N /\ Shuffles(call) = N
      <3>1. call.do = "final" => call'.do # "none"
        BY <2>2, <2>4, FinalGoesOn
      <3> QED BY <2>2, <2>4, <3>1, FollowingCall DEF Shuffles
    <2>6. Shuffling
      <3> SUFFICES ASSUME NEW s \in Seats, s < Shuffles(call')
                   PROVE  \/ s < Shuffles(call) /\ used'[s] = used[s]
                          \/ used'[s] = wallet[s][handNo].gen /\ used'[s] # 0
        BY <2>1, <2>4, <2>5 DEF Shuffling, HasShuffled
      <3>1. CASE call.do = "commit"
        BY <1>1, <2>5, <3>1
      <3>2. CASE call.do = "shuffle" /\ s = call.seat
        <4>1. used' = [used EXCEPT ![s] = Secrets(s).gen] /\ used \in [Seats -> Nat]
          BY <2>1, <3>2 DEF Place
        <4>2. used'[s] = Secrets(s).gen
          BY <4>1
        <4> QED BY <2>3, <3>2, <4>2 DEF Secrets
      <3>3. CASE call.do = "shuffle" /\ s # call.seat
        <4>1. used' = [used EXCEPT ![call.seat] = Secrets(call.seat).gen] /\ used \in [Seats -> Nat]
          BY <2>1, <3>3 DEF Place
        <4>2. used'[s] = used[s]
          BY <3>3, <4>1
        <4>3. s < call.seat
          <5>1. s < call.seat + 1
            BY <2>5, <3>3
          <5>2. s \in Nat /\ call.seat \in Nat
            BY <1>1, <2>2
          <5> QED BY <3>3, <5>1, <5>2
        <4> QED BY <2>5, <3>3, <4>2, <4>3
      <3>4. CASE call.do \in {"remask", "final"}
        BY <1>1, <2>1, <2>5, <3>4
      <3> QED BY <2>2, <3>1, <3>2, <3>3, <3>4
    <2> QED BY <2>1, <2>4, <2>6
  <1>5. CASE RevealAnswered \/ CardAnswered
    <2>1. /\ st = "dealing" /\ Proceed /\ UNCHANGED <<handNo, wallet, born, process, used>>
          /\ call.do \in {"reveal", "open", "card", "board"}
      BY <1>5 DEF RevealAnswered, CardAnswered, walletVars
    <2>2. Shuffles(call) = N
      BY <2>1 DEF Shuffles
    <2>3. Shuffling
      BY <1>1, <2>1, <2>2 DEF Shuffling, HasShuffled
    <2> QED BY <2>1, <2>3, ProceedEffect
  <1>6. CASE CallFails \/ FinishHand \/ TableRestarts
    BY <1>6 DEF CallFails, FinishHand, TableRestarts, NoHand
  <1>7. CASE UNCHANGED vars
    BY <1>2, <1>7 DEF vars, tableVars, history
  <1>8. ASSUME NEW m \in late, LateArrives(m)
        PROVE  UNCHANGED <<st, call, handNo, process, played, used>>
    BY <1>8 DEF tableVars, history, LateArrives
  <1>9. ASSUME NEW s \in Seats, WalletRestarts(s)
        PROVE  UNCHANGED <<st, call, handNo, process, played, used>>
    BY <1>9 DEF tableVars, WalletRestarts
  <1> QED BY <1>2, <1>3, <1>4, <1>5, <1>6, <1>7, <1>8, <1>9 DEF Next, DealStep

\* No step makes two hands of one table process share secrets.
LEMMA FreshStep ==
    ASSUME Place, Stock, Fresh, [Next]_vars
    PROVE  Fresh'
  <1>0. /\ Place' /\ Stock' /\ GenMove /\ \A s \in Seats : born[s] \in Nat /\ born'[s] \in Nat
    <2>1. Place' /\ WalletMove
      BY PlaceStep
    <2>2. restarts \in Nat /\ restarts' \in Nat
      BY <2>1, Numbers DEF Place
    <2>3. Stock' /\ GenMove
      BY <2>1, <2>2, StockStep
    <2> QED BY <2>1, <2>3 DEF Stock
  <1>1. Seats \subseteq Nat /\ N \in Nat /\ \A s \in Seats : s < N
    BY Table DEF Seats
  <1>2. CASE UNCHANGED <<st, call, handNo, process, played, used>>
    <2>1. Shuffling
      BY <1>2 DEF Shuffling, HasShuffled
    <2> QED BY <1>0, <1>2, <2>1, FreshMove
  <1>3. CASE st' = "dealing"
    BY <1>0, <1>3, ShufflingStep, FreshMove
  <1>4. CASE PassAnswered /\ st' # "dealing"
    <2>1. st = "dealing" /\ WalletHandles(call, handNo, deck) /\ Proceed
      BY <1>4 DEF PassAnswered
    <2>2. WellCalled(call) /\ call.do \in {"commit", "shuffle", "remask", "final"}
      BY <2>1 DEF Place, WalletHandles, Passes
    <2>3. call' = Following(call) /\ (call'.do # "none" <=> st' = "dealing")
      BY <2>1, ProceedEffect
    <2>4. call.do = "final" => call'.do # "none"
      BY <2>2, <2>3, FinalGoesOn
    <2> QED BY <1>4, <2>2, <2>3, <2>4, FollowingCall
  <1>5. CASE (RevealAnswered \/ CardAnswered) /\ st' # "dealing"
    <2>1. /\ st = "dealing" /\ Proceed /\ UNCHANGED <<handNo, wallet, born, process, used>>
          /\ call.do \in {"reveal", "open", "card", "board"}
      BY <1>5 DEF RevealAnswered, CardAnswered, walletVars
    <2>2. Shuffles(call) = N
      BY <2>1 DEF Shuffles
    <2>3. \A s \in Seats : HasShuffled(s)
      BY <1>1, <2>1, <2>2 DEF HasShuffled
    <2>4. /\ st' = "playing" /\ played' = Append(played, [table |-> process, gens |-> used])
      BY <1>5, <2>1, ProceedEffect
    <2> QED BY <2>1, <2>3, <2>4, FreshStart
  <1>6. CASE CallFails
    <2>1. st = "dealing" /\ st' = "none" /\ UNCHANGED <<handNo, process, played>>
      BY <1>6 DEF CallFails, NoHand
    <2>2. Shuffling
      BY <2>1 DEF Shuffling, HasShuffled
    <2> QED BY <1>0, <2>1, <2>2, FreshMove
  <1>7. CASE FinishHand
    BY <1>7, FreshFinish
  <1>8. CASE TableRestarts
    <2>1. st' = "none" /\ process' = process + 1 /\ played' = played
      BY <1>8 DEF TableRestarts, NoHand
    <2>2. process \in Nat /\ \A i \in 1..Len(played) : played[i].table \in Nat /\ played[i].table <= process
      <3>1. \A i \in 1..Len(played) : played[i] \in DealtHands
        BY DEF Fresh
      <3> QED BY <3>1 DEF Place, Fresh, Past, DealtHands
    <2>3. \A i \in 1..Len(played) : played[i].table <= process + 1 /\ played[i].table # process + 1
      BY <2>2
    <2>4. Past'
      BY <2>1, <2>3 DEF Past
    <2> QED BY <2>1, <2>4 DEF Fresh, UsedHere, HasShuffled, HandsAreFresh
  <1>9. CASE UNCHANGED vars
    BY <1>2, <1>9 DEF vars, tableVars, history
  <1>10. ASSUME NEW m \in late, LateArrives(m) PROVE Fresh'
    BY <1>2, <1>10 DEF tableVars, history, LateArrives
  <1>11. ASSUME NEW s \in Seats, WalletRestarts(s) PROVE Fresh'
    BY <1>2, <1>11 DEF tableVars, WalletRestarts
  <1>12. CASE StartDeal \/ NextHand
    BY <1>3, <1>12 DEF StartDeal, NextHand, BeginDeal
  <1> QED BY <1>3, <1>4, <1>5, <1>6, <1>7, <1>8, <1>9, <1>10, <1>11, <1>12 DEF Next, DealStep

-----------------------------------------------------------------------------
(* Where every deck comes from *)

\* G are sets of secrets that exist and are no newer than those held for hand h.
OfHand(G, h) ==
    \A s \in Seats : G[s] <= born[s] /\ (wallet[s][h].gen = 0 \/ G[s] <= wallet[s][h].gen)

\* ... and no newer than those this deal has been shuffled with.
Trusted(G) == st = "dealing" => \A s \in Seats : s < Shuffles(call) => G[s] <= used[s]

TableDeck(P) ==
    /\ st # "none" => Origin(P, used, Shuffles(call), Remasks(call), deck)
    /\ st = "dealing" => OfHand(used, handNo)
LateDecks(P) ==
    \A m \in late : \E G \in [Seats -> Gens] :
        /\ Origin(P, G, Shuffles(m.call), Remasks(m.call), m.deck)
        /\ OfHand(G, m.hand) /\ (m.hand = handNo => Trusted(G))
Holds(P, h, d) ==
    \E G \in [Seats -> Gens], a \in 1..N, b \in 0..N :
        /\ b = 0 \/ a = N
        /\ Origin(P, G, a, b, d) /\ OfHand(G, h)
        /\ b = N /\ h = handNo => Trusted(G)
WalletDecks(P) ==
    \A s \in Seats, h \in Hands : wallet[s][h].deck = NoDeck \/ Holds(P, h, wallet[s][h].deck)
Draws(P) ==
    \A s \in Seats, h \in Hands :
        wallet[s][h].gen # 0 => wallet[s][h].perm = P[s][wallet[s][h].gen]

Traced(P) == TableDeck(P) /\ LateDecks(P) /\ WalletDecks(P) /\ Draws(P)
Provenance == \E P \in [Seats -> [Gens -> Perms]] : Traced(P)

\* The secrets in use are among those there can be.
LEMMA InGens ==
    ASSUME Place, Stock
    PROVE  /\ used \in [Seats -> Gens]
           /\ \A s \in Seats : born[s] \in Gens /\ born[s] \in Nat
           /\ \A s \in Seats, h \in Hands : wallet[s][h].gen \in Gens /\ wallet[s][h].gen \in Nat
                                           /\ wallet[s][h].gen <= born[s]
  <1>1. \A s \in Seats : born[s] \in Gens /\ born[s] \in Nat
    BY StockBound DEF Place, Stock
  <1>2. MaxDrawn \in Nat
    BY Numbers
  <1>3. \A s \in Seats : used[s] \in Gens
    BY <1>1, <1>2 DEF Place, Gens
  <1>4. \A s \in Seats, h \in Hands : wallet[s][h].gen \in 0..born[s]
    BY DEF Stock
  <1>5. \A s \in Seats, h \in Hands : wallet[s][h].gen \in Gens /\ wallet[s][h].gen \in Nat
                                        /\ wallet[s][h].gen <= born[s]
    BY <1>1, <1>2, <1>4 DEF Gens
  <1> QED BY <1>1, <1>3, <1>5 DEF Place

\* The deck nobody has touched.
LEMMA BaseOrigin ==
    ASSUME NEW P, NEW G
    PROVE  Origin(P, G, 0, 0, BaseDeck)
  <1>1. IsDeck(BaseDeck)
    BY DEF IsDeck, BaseDeck
  <1>2. ASSUME NEW p \in Positions
        PROVE  CardOf(Vector(P, G), 0, BaseDeck, p) /\ MasksOf(G, 0, 0, BaseDeck, p)
    <2>1. BaseDeck[p].card = p /\ BaseDeck[p].masks = {}
      BY DEF BaseDeck
    <2>2. Order(Vector(P, G))[0] = [q \in Positions |-> q]
      BY OrderDefined
    <2>3. CardOf(Vector(P, G), 0, BaseDeck, p)
      BY <2>1, <2>2 DEF CardOf
    <2>4. \A s \in 0..(0 - 1) : FALSE
      OBVIOUS
    <2>5. MasksOf(G, 0, 0, BaseDeck, p)
      BY <2>1, <2>4 DEF MasksOf
    <2> QED BY <2>3, <2>5
  <1> QED BY <1>1, <1>2 DEF Origin

\* The secrets a pass leaves behind, and the deck it makes.
After(G, c, w) == IF c.do = "shuffle" THEN [G EXCEPT ![c.seat] = w.gen] ELSE G

\* A pass on a deck of known origin makes a deck of known origin.
LEMMA PassOrigin ==
    ASSUME NEW P \in [Seats -> [Gens -> Perms]], NEW G \in [Seats -> Gens],
           NEW c, WellCalled(c), c.do \in Passes, NEW d, Origin(P, G, Shuffles(c), Remasks(c), d),
           NEW w, w.gen \in Gens, w.perm = P[c.seat][w.gen]
    PROVE  /\ Origin(P, After(G, c, w), Shuffles(Following(c)), Remasks(Following(c)), Passed(c, d, w))
           /\ After(G, c, w) \in [Seats -> Gens]
           /\ Shuffles(Following(c)) \in 1..N /\ Remasks(Following(c)) \in 0..N
           /\ Remasks(Following(c)) = 0 \/ Shuffles(Following(c)) = N
           /\ Remasks(Following(c)) = N => After(G, c, w) = G /\ c.do # "shuffle"
  <1>1. c.seat \in Seats /\ c.do # "none" /\ c.seat \in Nat /\ c.seat < N /\ N \in Nat /\ N >= 2
    BY Table DEF WellCalled, Calls, Seats, Passes
  <1>2. CASE c.do = "shuffle"
    <2>1. Shuffles(c) = c.seat /\ Remasks(c) = 0
      BY <1>2 DEF Shuffles, Remasks
    <2>2. Shuffles(Following(c)) = c.seat + 1 /\ Remasks(Following(c)) = 0
      BY <1>1, <1>2, FollowingCall
    <2>3. Passed(c, d, w) = ShuffleStep(d, c.seat, w.gen, P[c.seat][w.gen])
      BY <1>2 DEF Passed
    <2>4. After(G, c, w) = [G EXCEPT ![c.seat] = w.gen]
      BY <1>2 DEF After
    <2>5. Origin(P, [G EXCEPT ![c.seat] = w.gen], c.seat + 1, 0,
                 ShuffleStep(d, c.seat, w.gen, P[c.seat][w.gen]))
      BY <1>1, <2>1, ShuffleOrigin
    <2> QED BY <1>1, <2>2, <2>3, <2>4, <2>5
  <1>3. CASE c.do = "remask"
    <2>1. Shuffles(c) = N /\ Remasks(c) = c.seat
      BY <1>3 DEF Shuffles, Remasks
    <2>2. Shuffles(Following(c)) = N /\ Remasks(Following(c)) = c.seat + 1
      BY <1>1, <1>3, FollowingCall
    <2>3. Passed(c, d, w) = RemaskStep(d, c.seat, w.gen) /\ After(G, c, w) = G
      BY <1>3 DEF Passed, After
    <2>4. Origin(P, G, N, c.seat + 1, RemaskStep(d, c.seat, w.gen))
      BY <1>1, <2>1, RemaskOrigin
    <2> QED BY <1>1, <1>3, <2>2, <2>3, <2>4
  <1>4. CASE c.do = "final"
    <2>1. Shuffles(c) = N /\ Remasks(c) = N
      BY <1>4 DEF Shuffles, Remasks
    <2>2. Shuffles(Following(c)) = N /\ Remasks(Following(c)) = N
      BY <1>1, <1>4, FollowingCall
    <2>3. Passed(c, d, w) = d /\ After(G, c, w) = G
      BY <1>4 DEF Passed, After
    <2> QED BY <1>1, <1>4, <2>1, <2>2, <2>3
  <1> QED BY <1>2, <1>3, <1>4 DEF Passes

\* Secrets that were old enough stay so.
LEMMA OfHandMove ==
    ASSUME Stock, GenMove, \A s \in Seats : born'[s] \in Nat,
           NEW G \in [Seats -> Gens], NEW h \in Hands, OfHand(G, h)
    PROVE  OfHand(G, h)'
  <1> SUFFICES ASSUME NEW s \in Seats
               PROVE  G[s] <= born'[s] /\ (wallet'[s][h].gen = 0 \/ G[s] <= wallet'[s][h].gen)
    BY DEF OfHand
  <1>1. G[s] \in Nat /\ born[s] \in Nat /\ born'[s] \in Nat /\ born'[s] >= born[s]
    BY Numbers DEF Stock, GenMove
  <1>2. G[s] <= born[s] /\ (wallet[s][h].gen = 0 \/ G[s] <= wallet[s][h].gen)
    BY DEF OfHand
  <1>3. wallet'[s][h].gen \in {wallet[s][h].gen, 0, born[s] + 1}
    BY DEF GenMove
  <1> QED BY <1>1, <1>2, <1>3

\* Secrets no newer than the deal's stay so as the seats shuffle.
LEMMA TrustedMove ==
    ASSUME Shuffling, handNo' = handNo, st # "playing",
           NEW G, OfHand(G, handNo), Trusted(G), Stock, handNo \in Hands
    PROVE  Trusted(G)'
  <1> SUFFICES ASSUME st' = "dealing", NEW s \in Seats, s < Shuffles(call')
               PROVE  G[s] <= used'[s]
    BY DEF Trusted
  <1>1. HasShuffled(s)'
    BY DEF HasShuffled
  <1>2. CASE HasShuffled(s) /\ used'[s] = used[s]
    BY <1>2 DEF HasShuffled, Trusted
  <1>3. CASE used'[s] = wallet[s][handNo].gen /\ used'[s] # 0
    BY <1>3 DEF OfHand
  <1> QED BY <1>1, <1>2, <1>3 DEF Shuffling

\* The permutations that are drawn are fixed from then on: those of the sets of
\* secrets that exist already do not change.
LEMMA DrawsStep ==
    ASSUME Place, Stock, Place', Stock', WalletMove,
           NEW P \in [Seats -> [Gens -> Perms]], Draws(P)
    PROVE  \E Q \in [Seats -> [Gens -> Perms]] :
              /\ Draws(Q) /\ Draws(Q)'
              /\ \A G \in [Seats -> Gens] : (\A s \in Seats : G[s] <= born[s]) => Vector(Q, G) = Vector(P, G)
  <1>0. Gens \subseteq Nat
    BY Numbers
  <1>1. CASE wallet' = wallet /\ born' = born
    BY <1>1 DEF Draws
  <1>2. ASSUME NEW s \in Seats, NEW h \in Hands, OnlyAt(s, h), Drew(s, h)
        PROVE  \E Q \in [Seats -> [Gens -> Perms]] :
                  /\ Draws(Q) /\ Draws(Q)'
                  /\ \A G \in [Seats -> Gens] : (\A o \in Seats : G[o] <= born[o]) => Vector(Q, G) = Vector(P, G)
    <2>1. PICK g \in Gens : g = born[s] + 1 /\ born[s] \in Nat
      <3>1. born[s] \in Nat /\ born'[s] = born[s] + 1
        BY <1>2 DEF Drew, Stock
      <3>2. born'[s] \in Nat /\ born'[s] <= Cardinality(Drawn(s)') + (MaxHands + 1) * restarts'
        BY DEF Stock
      <3>3. Drawn(s)' \subseteq Hands /\ restarts' \in 0..MaxRestarts
        BY DEF Drawn, Place
      <3>4. born'[s] \in Gens
        BY <3>2, <3>3, DrawnFew
      <3> QED BY <3>1, <3>4
    <2>2. PICK f \in Perms : f = wallet'[s][h].perm
      BY <1>2 DEF Drew
    <2> DEFINE row == [P[s] EXCEPT ![g] = f]
               Q == [P EXCEPT ![s] = row]
    <2>3. row \in [Gens -> Perms] /\ row[g] = f /\ \A k \in Gens : k # g => row[k] = P[s][k]
      <3>1. P[s] \in [Gens -> Perms]
        OBVIOUS
      <3> QED BY <3>1
    <2> HIDE DEF row
    <2>4. Q \in [Seats -> [Gens -> Perms]] /\ Q[s] = row /\ \A o \in Seats : o # s => Q[o] = P[o]
      BY <2>3
    <2> HIDE DEF Q
    <2>5. ASSUME NEW o \in Seats, NEW k \in Gens, k <= born[o] PROVE Q[o][k] = P[o][k]
      <3>1. CASE o = s
        <4>1. k # g
          BY <1>0, <2>1, <2>5, <3>1
        <4> QED BY <2>3, <2>4, <3>1, <4>1
      <3>2. CASE o # s
        BY <2>4, <3>2
      <3> QED BY <3>1, <3>2
    <2>6. Draws(Q)
      <3> SUFFICES ASSUME NEW o \in Seats, NEW k \in Hands, wallet[o][k].gen # 0
                   PROVE  wallet[o][k].perm = Q[o][wallet[o][k].gen]
        BY DEF Draws
      <3>1. wallet[o][k].gen \in Gens /\ wallet[o][k].gen <= born[o]
        BY InGens
      <3> QED BY <2>5, <3>1 DEF Draws
    <2>7. Draws(Q)'
      <3> SUFFICES ASSUME NEW o \in Seats, NEW k \in Hands, wallet'[o][k].gen # 0
                   PROVE  wallet'[o][k].perm = Q[o][wallet'[o][k].gen]
        BY DEF Draws
      <3>1. CASE o = s /\ k = h
        <4>1. wallet'[o][k].gen = g
          BY <1>2, <2>1, <3>1 DEF Drew
        <4> QED BY <2>2, <2>3, <2>4, <3>1, <4>1
      <3>2. CASE ~(o = s /\ k = h)
        <4>1. wallet'[o][k] = wallet[o][k]
          BY <1>2, <3>2 DEF OnlyAt
        <4> QED BY <2>6, <4>1 DEF Draws
      <3> QED BY <3>1, <3>2
    <2>8. ASSUME NEW G \in [Seats -> Gens], \A o \in Seats : G[o] <= born[o]
          PROVE  Vector(Q, G) = Vector(P, G)
      <3>1. \A o \in Seats : Q[o][G[o]] = P[o][G[o]]
        BY <2>5, <2>8
      <3> QED BY <3>1 DEF Vector
    <2> QED BY <2>4, <2>6, <2>7, <2>8
  <1>3. ASSUME NEW s \in Seats, NEW h \in Hands, NEW d, OnlyAt(s, h), Took(s, h, d)
        PROVE  Draws(P)'
    <2>1. \A o \in Seats, k \in Hands : wallet'[o][k].gen = wallet[o][k].gen
                                         /\ wallet'[o][k].perm = wallet[o][k].perm
      BY <1>3 DEF OnlyAt, Took
    <2> QED BY <2>1 DEF Draws
  <1>4. ASSUME NEW s \in Seats, Emptied(s)
        PROVE  Draws(P)'
    <2>1. \A o \in Seats, k \in Hands : wallet'[o][k] = IF o = s THEN NoSecrets ELSE wallet[o][k]
      BY <1>4 DEF Emptied, Stock, Shape
    <2>2. NoSecrets.gen = 0
      BY DEF NoSecrets
    <2> QED BY <2>1, <2>2 DEF Draws
  <1>5. CASE Draws(P)'
    BY <1>5
  <1> QED BY <1>1, <1>2, <1>3, <1>4, <1>5 DEF WalletMove

\* The permutations of secrets not yet drawn do not matter.
LEMMA Retrace ==
    ASSUME Place, Stock, NEW P, NEW Q, Traced(P), Draws(Q),
           \A G \in [Seats -> Gens] : (\A s \in Seats : G[s] <= born[s]) => Vector(Q, G) = Vector(P, G)
    PROVE  Traced(Q)
  <1>1. ASSUME NEW G \in [Seats -> Gens], \A s \in Seats : G[s] <= born[s],
               NEW a, NEW b, NEW d, Origin(P, G, a, b, d)
        PROVE  Origin(Q, G, a, b, d)
    <2>1. Vector(Q, G) = Vector(P, G)
      BY <1>1
    <2> QED BY <1>1, <2>1 DEF Origin
  <1>2. TableDeck(Q)
    <2>1. used \in [Seats -> Gens] /\ \A s \in Seats : used[s] <= born[s]
      BY InGens DEF Place
    <2> QED BY <1>1, <2>1 DEF Traced, TableDeck
  <1>3. LateDecks(Q)
    <2> SUFFICES ASSUME NEW m \in late
                 PROVE  \E G \in [Seats -> Gens] :
                           /\ Origin(Q, G, Shuffles(m.call), Remasks(m.call), m.deck)
                           /\ OfHand(G, m.hand) /\ (m.hand = handNo => Trusted(G))
      BY DEF LateDecks
    <2>1. PICK G \in [Seats -> Gens] :
                  /\ Origin(P, G, Shuffles(m.call), Remasks(m.call), m.deck)
                  /\ OfHand(G, m.hand) /\ (m.hand = handNo => Trusted(G))
      BY DEF Traced, LateDecks
    <2>2. \A s \in Seats : G[s] <= born[s]
      BY <2>1 DEF OfHand
    <2> QED BY <1>1, <2>1, <2>2
  <1>4. WalletDecks(Q)
    <2> SUFFICES ASSUME NEW h \in Hands, NEW d, Holds(P, h, d) PROVE Holds(Q, h, d)
      BY DEF Traced, WalletDecks
    <2>1. PICK G \in [Seats -> Gens], a \in 1..N, b \in 0..N :
                  /\ b = 0 \/ a = N
                  /\ Origin(P, G, a, b, d) /\ OfHand(G, h)
                  /\ b = N /\ h = handNo => Trusted(G)
      BY DEF Holds
    <2>2. \A s \in Seats : G[s] <= born[s]
      BY <2>1 DEF OfHand
    <2>3. Origin(Q, G, a, b, d)
      BY <1>1, <2>1, <2>2
    <2> QED BY <2>1, <2>3 DEF Holds
  <1> QED BY <1>2, <1>3, <1>4 DEF Traced

\* What a step leaves of the limits on G.
LEMMA LimitsStep ==
    ASSUME Place, Stock, Stock', GenMove, [Next]_vars,
           NEW G \in [Seats -> Gens], NEW h \in Hands, OfHand(G, h)
    PROVE  OfHand(G, h)' /\ ((h = handNo => Trusted(G)) => (h = handNo' => Trusted(G)'))
  <1>1. \A s \in Seats : born'[s] \in Nat
    BY DEF Stock
  <1>2. OfHand(G, h)'
    BY <1>1, OfHandMove
  <1>3. CASE st' # "dealing"
    BY <1>2, <1>3 DEF Trusted
  <1>4. CASE st' = "dealing"
    <2>1. handNo' = handNo /\ st # "playing" /\ Shuffling
      BY <1>4, ShufflingStep
    <2>2. h = handNo /\ Trusted(G) => Trusted(G)'
      BY <2>1, TrustedMove
    <2> QED BY <1>2, <2>1, <2>2
  <1> QED BY <1>3, <1>4

\* A call on its way keeps its deck's origin, whether it was abandoned now or before.
LEMMA LateStep ==
    ASSUME Place, Stock, Stock', GenMove, [Next]_vars, NEW Q, TableDeck(Q), LateDecks(Q)
    PROVE  LateDecks(Q)'
  <1> SUFFICES ASSUME NEW m \in late'
               PROVE  \E G \in [Seats -> Gens] :
                         /\ Origin(Q, G, Shuffles(m.call), Remasks(m.call), m.deck)
                         /\ OfHand(G, m.hand)' /\ (m.hand = handNo' => Trusted(G)')
    BY DEF LateDecks
  <1>1. CASE m \in late
    <2>1. PICK G \in [Seats -> Gens] :
                  /\ Origin(Q, G, Shuffles(m.call), Remasks(m.call), m.deck)
                  /\ OfHand(G, m.hand) /\ (m.hand = handNo => Trusted(G))
      BY <1>1 DEF LateDecks
    <2>2. m.hand \in Hands
      BY <1>1 DEF Place
    <2> QED BY <2>1, <2>2, LimitsStep
  <1>2. CASE m \notin late
    <2>1. CallFails
      <3>1. late' \subseteq late \/ CallFails
        BY DEF Next, DealStep, StartDeal, NextHand, PassAnswered, RevealAnswered, CardAnswered,
               LateArrives, FinishHand, TableRestarts, WalletRestarts, vars
      <3> QED BY <1>2, <3>1
    <2>2. m = [call |-> call, hand |-> handNo, deck |-> deck] /\ st = "dealing" /\ st' = "none"
      BY <1>2, <2>1 DEF CallFails, NoHand
    <2>3. m.call = call /\ m.hand = handNo /\ m.deck = deck /\ handNo \in Hands
      BY <2>2 DEF Place
    <2>4. PICK G \in [Seats -> Gens] : G = used
      BY InGens
    <2>5. Origin(Q, G, Shuffles(m.call), Remasks(m.call), m.deck) /\ OfHand(G, m.hand)
      BY <2>2, <2>3, <2>4 DEF TableDeck
    <2>6. OfHand(G, m.hand)' /\ Trusted(G)'
      BY <2>2, <2>3, <2>5, LimitsStep DEF Trusted
    <2> QED BY <2>5, <2>6
  <1> QED BY <1>1, <1>2

\* A deck the wallet of seat s takes for hand h.
LEMMA TakenDeck ==
    ASSUME Place, Stock, Stock', GenMove, [Next]_vars,
           NEW Q \in [Seats -> [Gens -> Perms]], Draws(Q),
           NEW c, WellCalled(c), c.do \in Passes, NEW h \in Hands, wallet[c.seat][h].gen # 0,
           NEW G \in [Seats -> Gens], NEW d, Origin(Q, G, Shuffles(c), Remasks(c), d), OfHand(G, h),
           c.do # "shuffle" => (h = handNo' => Trusted(G)')
    PROVE  \A x : x = Passed(c, d, wallet[c.seat][h]) => Holds(Q, h, x)'
  <1> SUFFICES ASSUME NEW x, x = Passed(c, d, wallet[c.seat][h]) PROVE Holds(Q, h, x)'
    OBVIOUS
  <1>1. c.seat \in Seats
    BY DEF WellCalled, Calls
  <1>2. PICK w : w = wallet[c.seat][h]
    OBVIOUS
  <1>3. w.gen \in Gens /\ w.gen \in Nat /\ w.gen <= born[c.seat] /\ w.perm = Q[c.seat][w.gen]
    BY <1>1, <1>2, InGens DEF Draws
  <1> DEFINE H == After(G, c, w)
             a == Shuffles(Following(c))
             b == Remasks(Following(c))
  <1>4. /\ Origin(Q, H, a, b, x) /\ H \in [Seats -> Gens]
        /\ a \in 1..N /\ b \in 0..N /\ (b = 0 \/ a = N)
        /\ b = N => H = G /\ c.do # "shuffle"
    BY <1>2, <1>3, PassOrigin
  <1>5. OfHand(H, h)
    <2> SUFFICES ASSUME NEW s \in Seats
                 PROVE  H[s] <= born[s] /\ (wallet[s][h].gen = 0 \/ H[s] <= wallet[s][h].gen)
      BY DEF OfHand
    <2>1. G[s] <= born[s] /\ (wallet[s][h].gen = 0 \/ G[s] <= wallet[s][h].gen)
      BY DEF OfHand
    <2>2. CASE c.do = "shuffle" /\ s = c.seat
      <3>1. H[s] = w.gen
        BY <2>2 DEF After
      <3> QED BY <1>2, <1>3, <2>2, <3>1
    <2>3. CASE ~(c.do = "shuffle" /\ s = c.seat)
      <3>1. H[s] = G[s]
        BY <2>3 DEF After
      <3> QED BY <2>1, <3>1
    <2> QED BY <2>2, <2>3
  <1> HIDE DEF H, a, b
  <1>6. OfHand(H, h)'
    BY <1>4, <1>5, LimitsStep
  <1>7. b = N /\ h = handNo' => Trusted(H)'
    BY <1>4
  <1> QED BY <1>4, <1>6, <1>7 DEF Holds

\* So does every deck a wallet holds, the one it has just taken too.
LEMMA WalletStep ==
    ASSUME Place, Stock, Stock', GenMove, [Next]_vars,
           NEW Q \in [Seats -> [Gens -> Perms]], Traced(Q)
    PROVE  WalletDecks(Q)'
  <1>0. handNo \in Hands /\ Shape(wallet)
    BY DEF Place, Stock
  <1> SUFFICES ASSUME NEW s \in Seats, NEW h \in Hands, NEW x, x = wallet'[s][h].deck, x # NoDeck
               PROVE  Holds(Q, h, x)'
    BY DEF WalletDecks, Holds
  <1>1. CASE x = wallet[s][h].deck
    <2>1. Holds(Q, h, x)
      BY <1>1 DEF Traced, WalletDecks
    <2>2. PICK G \in [Seats -> Gens], a \in 1..N, b \in 0..N :
                  /\ b = 0 \/ a = N
                  /\ Origin(Q, G, a, b, x) /\ OfHand(G, h)
                  /\ b = N /\ h = handNo => Trusted(G)
      BY <2>1 DEF Holds
    <2>3. OfHand(G, h)' /\ ((h = handNo => Trusted(G)) => (h = handNo' => Trusted(G)'))
      BY <2>2, LimitsStep
    <2>4. b = N /\ h = handNo' => Trusted(G)'
      BY <2>2, <2>3
    <2> QED BY <2>2, <2>3, <2>4 DEF Holds
  <1>2. ASSUME NEW c, WellCalled(c), NEW k \in Hands, NEW d, WalletHandles(c, k, d), x # wallet[s][h].deck
        PROVE  /\ c.do \in Passes /\ s = c.seat /\ h = k /\ wallet[s][h].gen # 0
               /\ x = Passed(c, d, wallet[c.seat][h])
    <2>1. /\ OnlyAt(c.seat, k)
          /\ \/ wallet' = wallet
             \/ Drew(c.seat, k)
             \/ c.do \in Passes /\ Took(c.seat, k, Passed(c, d, wallet[c.seat][k]))
      BY <1>0, <1>2, HandlesEffect
    <2>2. s = c.seat /\ h = k
      BY <1>2, <2>1 DEF OnlyAt
    <2>3. wallet' # wallet /\ ~Drew(c.seat, k)
      BY <1>2, <2>2 DEF Drew
    <2> QED BY <2>1, <2>2, <2>3 DEF Took
  <1>3. CASE PassAnswered
    <2>1. /\ st = "dealing" /\ WalletHandles(call, handNo, deck) /\ WellCalled(call) /\ handNo' = handNo
          /\ used' = IF call.do = "shuffle" THEN [used EXCEPT ![call.seat] = Secrets(call.seat).gen] ELSE used
      BY <1>3 DEF PassAnswered, Place
    <2>2. CASE x # wallet[s][h].deck
      <3>0. PICK c, d : c = call /\ d = deck
        OBVIOUS
      <3>1. PICK G \in [Seats -> Gens] : G = used
        BY InGens
      <3>2. /\ c.do \in Passes /\ s = c.seat /\ h = handNo /\ wallet[c.seat][h].gen # 0
            /\ x = Passed(c, d, wallet[c.seat][h])
        BY <1>0, <1>2, <2>1, <2>2, <3>0
      <3>3. Origin(Q, G, Shuffles(c), Remasks(c), d) /\ OfHand(G, h)
        BY <2>1, <3>0, <3>1, <3>2 DEF Traced, TableDeck
      <3>4. c.do # "shuffle" => Trusted(G)'
        <4>1. \A o \in Seats : G[o] \in Nat
          BY Numbers
        <4> QED BY <2>1, <3>0, <3>1, <4>1 DEF Trusted
      <3> QED BY <2>1, <3>0, <3>1, <3>2, <3>3, <3>4, TakenDeck DEF Traced
    <2> QED BY <1>1, <2>2
  <1>4. ASSUME NEW m \in late, LateArrives(m)
        PROVE  Holds(Q, h, x)'
    <2>1. CASE x # wallet[s][h].deck
      <3>1. WellCalled(m.call) /\ m.hand \in Hands
        BY DEF Place
      <3>2. WalletHandles(m.call, m.hand, m.deck)
        BY <1>4, <2>1 DEF LateArrives, walletVars
      <3>3. /\ m.call.do \in Passes /\ s = m.call.seat /\ h = m.hand /\ wallet[m.call.seat][h].gen # 0
            /\ x = Passed(m.call, m.deck, wallet[m.call.seat][h])
        BY <1>2, <2>1, <3>1, <3>2
      <3>4. PICK G \in [Seats -> Gens] :
                    /\ Origin(Q, G, Shuffles(m.call), Remasks(m.call), m.deck)
                    /\ OfHand(G, m.hand) /\ (m.hand = handNo => Trusted(G))
        BY DEF Traced, LateDecks
      <3>5. m.hand = handNo' => Trusted(G)'
        BY <3>1, <3>4, LimitsStep
      <3> QED BY <3>1, <3>3, <3>4, <3>5, TakenDeck DEF Traced
    <2> QED BY <1>1, <2>1
  <1>5. ASSUME NEW o \in Seats, WalletRestarts(o)
        PROVE  Holds(Q, h, x)'
    <2>1. wallet'[s][h] = IF s = o THEN NoSecrets ELSE wallet[s][h]
      BY <1>0, <1>5 DEF WalletRestarts, Shape
    <2>2. NoSecrets.deck = NoDeck
      BY DEF NoSecrets
    <2> QED BY <1>1, <2>1, <2>2
  <1>6. CASE wallet' = wallet
    BY <1>1, <1>6
  <1>7. CASE \/ UNCHANGED vars \/ StartDeal \/ NextHand \/ RevealAnswered \/ CardAnswered
            \/ CallFails \/ FinishHand \/ TableRestarts
    BY <1>6, <1>7 DEF vars, walletVars, StartDeal, NextHand, RevealAnswered, CardAnswered, CallFails,
                      FinishHand, TableRestarts
  <1> QED BY <1>3, <1>4, <1>5, <1>7 DEF Next, DealStep

\* And so does the coordinator's deck.
LEMMA TableStep ==
    ASSUME Place, Stock, Stock', GenMove, [Next]_vars,
           NEW Q \in [Seats -> [Gens -> Perms]], Traced(Q)
    PROVE  TableDeck(Q)'
  <1>0. handNo \in Hands /\ used \in [Seats -> Gens] /\ Shape(wallet)
        /\ \A s \in Seats : born'[s] \in Nat /\ born[s] \in Nat
    BY InGens DEF Place, Stock
  <1>1. ASSUME used' = used, handNo' = handNo, st = "dealing"
        PROVE  OfHand(used, handNo)'
    <2>1. OfHand(used, handNo)
      BY <1>1 DEF Traced, TableDeck
    <2>2. PICK G \in [Seats -> Gens], h \in Hands : G = used /\ h = handNo
      BY <1>0
    <2>3. OfHand(G, h)'
      BY <2>1, <2>2, LimitsStep
    <2> QED BY <1>1, <2>2, <2>3 DEF OfHand
  <1>2. CASE UNCHANGED <<st, handNo, call, deck, used>>
    BY <1>1, <1>2 DEF Traced, TableDeck
  <1>3. CASE StartDeal \/ NextHand
    <2>1. /\ st' = "dealing" /\ call' = Call("commit", 0) /\ used' = NothingUsed /\ deck' = BaseDeck
          /\ UNCHANGED <<handNo, wallet, born>>
      BY <1>3 DEF StartDeal, NextHand, BeginDeal, walletVars
    <2>2. Shuffles(call') = 0 /\ Remasks(call') = 0
      BY <2>1, FirstCalls DEF Shuffles, Remasks
    <2>3. Origin(Q, used', 0, 0, deck')
      BY <2>1, BaseOrigin
    <2>4. \A s \in Seats : used'[s] = 0
      BY <2>1, FirstCalls
    <2>5. \A s \in Seats, h \in Hands : wallet[s][h].gen \in Nat
      BY InGens
    <2>6. OfHand(used, handNo)'
      BY <1>0, <2>1, <2>4, <2>5 DEF OfHand
    <2> QED BY <2>1, <2>2, <2>3, <2>6 DEF TableDeck
  <1>4. CASE PassAnswered
    <2>1. /\ st = "dealing" /\ WalletHandles(call, handNo, deck) /\ WellCalled(call) /\ handNo' = handNo
          /\ used' = IF call.do = "shuffle" THEN [used EXCEPT ![call.seat] = Secrets(call.seat).gen] ELSE used
          /\ deck' = IF call.do \in {"shuffle", "remask"} THEN wallet'[call.seat][handNo].deck ELSE deck
          /\ Proceed
      BY <1>4 DEF PassAnswered, Place
    <2>2. call' = Following(call) /\ call.seat \in Seats /\ call.do # "none"
      BY <2>1, ProceedEffect DEF WellCalled, Calls
    <2>3. Origin(Q, used, Shuffles(call), Remasks(call), deck) /\ OfHand(used, handNo)
      BY <2>1 DEF Traced, TableDeck
    <2>4. CASE call.do = "commit"
      <3>1. used' = used /\ deck' = deck /\ Shuffles(call) = 0 /\ Remasks(call) = 0
        BY <2>1, <2>4 DEF Shuffles, Remasks
      <3>2. Shuffles(call') = 0 /\ Remasks(call') = 0
        BY <2>1, <2>2, <2>4, FollowingCall
      <3>3. OfHand(used, handNo)'
        BY <1>1, <2>1, <3>1
      <3> QED BY <2>3, <3>1, <3>2, <3>3 DEF TableDeck
    <2>5. CASE call.do \in Passes
      <3>1. PICK w : w = wallet[call.seat][handNo]
        OBVIOUS
      <3>2. w.gen # 0 /\ Took(call.seat, handNo, Passed(call, deck, w))
        BY <1>0, <2>1, <2>5, <3>1, HandlesEffect DEF Passes, Took
      <3>3. w.gen \in Gens /\ w.gen \in Nat /\ w.gen <= born[call.seat] /\ w.perm = Q[call.seat][w.gen]
        BY <1>0, <2>2, <3>1, <3>2, InGens DEF Traced, Draws
      <3>4. Origin(Q, After(used, call, w), Shuffles(call'), Remasks(call'), Passed(call, deck, w))
        BY <1>0, <2>1, <2>2, <2>3, <2>5, <3>3, PassOrigin
      <3>5. used' = After(used, call, w)
        BY <2>1, <3>1 DEF After, Secrets
      <3>6. deck' = Passed(call, deck, w)
        <4>1. CASE call.do = "final"
          BY <2>1, <4>1 DEF Passed
        <4>2. CASE call.do # "final"
          BY <2>1, <2>5, <3>2, <4>2 DEF Took, Passes
        <4> QED BY <4>1, <4>2
      <3>7. OfHand(used, handNo)'
        <4>1. CASE call.do # "shuffle"
          BY <1>1, <2>1, <4>1
        <4>2. CASE call.do = "shuffle"
          <5> SUFFICES ASSUME NEW s \in Seats
                       PROVE  /\ used'[s] <= born'[s]
                              /\ wallet'[s][handNo].gen = 0 \/ used'[s] <= wallet'[s][handNo].gen
            BY <2>1 DEF OfHand
          <5>1. wallet'[s][handNo].gen = wallet[s][handNo].gen /\ born' = born
            <6>1. OnlyAt(call.seat, handNo)
              BY <1>0, <2>1, HandlesEffect
            <6> QED BY <1>0, <3>1, <3>2, <6>1 DEF OnlyAt, Took
          <5>2. used[s] <= born[s] /\ (wallet[s][handNo].gen = 0 \/ used[s] <= wallet[s][handNo].gen)
            BY <2>3 DEF OfHand
          <5>3. used' = [used EXCEPT ![call.seat] = w.gen]
            BY <2>1, <3>1, <4>2 DEF Secrets
          <5>4. CASE s = call.seat
            <6>1. used'[s] = w.gen
              BY <1>0, <5>3, <5>4
            <6> QED BY <3>1, <3>3, <5>1, <5>4, <6>1
          <5>5. CASE s # call.seat
            <6>1. used'[s] = used[s]
              BY <1>0, <5>3, <5>5
            <6> QED BY <5>1, <5>2, <6>1
          <5> QED BY <5>4, <5>5
        <4> QED BY <4>1, <4>2
      <3> QED BY <3>4, <3>5, <3>6, <3>7 DEF TableDeck
    <2> QED BY <2>1, <2>4, <2>5 DEF WalletHandles
  <1>5. CASE RevealAnswered \/ CardAnswered
    <2>1. /\ st = "dealing" /\ Proceed /\ UNCHANGED <<handNo, deck, used>> /\ WellCalled(call)
          /\ call.do \in {"reveal", "open", "card", "board"}
      BY <1>5 DEF RevealAnswered, CardAnswered, Place
    <2>2. call' = Following(call) /\ call.do # "none"
      BY <2>1, ProceedEffect
    <2>3. Shuffles(call') = N /\ Remasks(call') = N /\ Shuffles(call) = N /\ Remasks(call) = N
      BY <2>1, <2>2, FollowingCall DEF Shuffles, Remasks
    <2>4. OfHand(used, handNo)'
      BY <1>1, <2>1
    <2> QED BY <2>1, <2>3, <2>4 DEF Traced, TableDeck
  <1>6. CASE CallFails \/ TableRestarts
    BY <1>6 DEF CallFails, TableRestarts, NoHand, TableDeck
  <1>7. CASE FinishHand
    <2>1. st = "playing" /\ st' = "over" /\ UNCHANGED <<call, deck, used>>
      BY <1>7 DEF FinishHand, history
    <2> QED BY <2>1 DEF Traced, TableDeck
  <1>8. CASE UNCHANGED vars
    BY <1>2, <1>8 DEF vars, tableVars, history
  <1>9. ASSUME NEW m \in late, LateArrives(m) PROVE TableDeck(Q)'
    BY <1>2, <1>9 DEF tableVars, history, LateArrives
  <1>10. ASSUME NEW s \in Seats, WalletRestarts(s) PROVE TableDeck(Q)'
    BY <1>2, <1>10 DEF tableVars, WalletRestarts
  <1> QED BY <1>3, <1>4, <1>5, <1>6, <1>7, <1>8, <1>9, <1>10 DEF Next, DealStep

\* Every deck can be traced after every step.
LEMMA ProvenanceStep ==
    ASSUME Place, Stock, Provenance, [Next]_vars
    PROVE  Provenance'
  <1>1. Place' /\ WalletMove
    BY PlaceStep
  <1>2. restarts \in Nat /\ restarts' \in Nat
    BY <1>1, Numbers DEF Place
  <1>3. Stock' /\ GenMove
    BY <1>1, <1>2, StockStep
  <1>4. PICK P \in [Seats -> [Gens -> Perms]] : Traced(P)
    BY DEF Provenance
  <1>5. PICK Q \in [Seats -> [Gens -> Perms]] :
              /\ Draws(Q) /\ Draws(Q)'
              /\ \A G \in [Seats -> Gens] : (\A s \in Seats : G[s] <= born[s]) => Vector(Q, G) = Vector(P, G)
    <2>1. Draws(P)
      BY <1>4 DEF Traced
    <2> QED BY <1>1, <1>3, <2>1, DrawsStep
  <1>6. Traced(Q)
    BY <1>4, <1>5, Retrace
  <1>7. TableDeck(Q)' /\ WalletDecks(Q)'
    BY <1>3, <1>6, TableStep, WalletStep
  <1>8. LateDecks(Q)'
    BY <1>3, <1>6, LateStep DEF Traced
  <1> QED BY <1>5, <1>7, <1>8 DEF Provenance, Traced

-----------------------------------------------------------------------------
(* What is disclosed *)

\* The coordinator holds, per position, scalars of that position, of secrets no
\* older than those of the deal; the table has been told no scalar of a seat's own
\* hole cards.
SharedForm ==
    /\ (st = "none" \/ call.do \in {"commit"} \cup Passes) => shared = NothingShared
    /\ \A p \in Positions : \A x \in shared[p] :
          \E o \in Seats, g \in Gens : x = Own(o, g, p) /\ used[o] <= g
LearnedForm ==
    \A x \in learned : \E s \in Seats, g \in Gens, p \in Positions :
        x = Own(s, g, p) /\ (p \in Board \/ \E r \in Seats : r # s /\ p \in Hole(r))

\* Only scalars of the named positions are ever told.
LEMMA DisclosedStep ==
    ASSUME Place, Stock, Provenance, SharedForm, LearnedForm, [Next]_vars
    PROVE  SharedForm' /\ LearnedForm'
  <1>0. \A p \in Positions : NothingShared[p] = {}
    BY DEF NothingShared
  <1>1. CASE UNCHANGED <<st, call, shared, learned, used>>
    BY <1>1 DEF SharedForm, LearnedForm
  <1>2. CASE StartDeal \/ NextHand \/ CallFails \/ TableRestarts
    <2>1. shared' = NothingShared /\ (learned' = learned \/ learned' = {})
      BY <1>2 DEF StartDeal, NextHand, CallFails, TableRestarts, BeginDeal, NoHand
    <2> QED BY <1>0, <2>1 DEF SharedForm, LearnedForm
  <1>3. CASE PassAnswered
    <2>1. /\ WalletHandles(call, handNo, deck) /\ UNCHANGED <<shared, learned>>
      BY <1>3 DEF PassAnswered
    <2>2. shared' = NothingShared
      BY <2>1 DEF SharedForm, WalletHandles
    <2> QED BY <1>0, <2>1, <2>2 DEF SharedForm, LearnedForm
  <1>4. CASE RevealAnswered
    <2> DEFINE g == Secrets(call.seat).gen
               told(p) == Own(call.seat, g, p)
    <2>1. /\ st = "dealing" /\ call.do \in {"reveal", "open"} /\ g # 0 /\ Proceed /\ used' = used
          /\ shared' = [p \in Positions |-> IF p \in Disclosed(call) THEN shared[p] \cup {told(p)} ELSE shared[p]]
          /\ learned' = learned \cup {told(p) : p \in Disclosed(call)}
      BY <1>4 DEF RevealAnswered
    <2>2. WellCalled(call) /\ call.seat \in Seats /\ call.to \in Seats /\ handNo \in Hands
          /\ (call.do = "reveal" => call.seat # call.to)
      BY DEF Place, WellCalled, Calls
    <2>3. g \in Gens /\ g \in Nat
      BY <2>2, InGens DEF Secrets
    <2>4. used[call.seat] <= g
      <3>1. OfHand(used, handNo)
        BY <2>1 DEF Provenance, Traced, TableDeck
      <3> QED BY <2>1, <2>2, <3>1 DEF OfHand, Secrets
    <2> HIDE DEF g
    <2>5. call' = Following(call) /\ call.do # "none" /\ st' # "none"
      BY <2>1, ProceedEffect
    <2>6. call'.do \notin {"commit"} \cup Passes
      <3>1. call.do \notin {"commit"} \cup Passes
        BY <2>1 DEF Passes
      <3> QED BY <2>2, <2>5, <3>1, FollowingCall
    <2>7. ASSUME NEW p \in Positions, NEW x \in shared'[p]
          PROVE  \E o \in Seats, k \in Gens : x = Own(o, k, p) /\ used'[o] <= k
      <3>1. x \in shared[p] \/ x = told(p)
        BY <2>1, <2>7
      <3>2. CASE x \in shared[p]
        BY <2>1, <3>2 DEF SharedForm
      <3>3. CASE x = told(p)
        BY <2>1, <2>2, <2>3, <2>4, <3>3
      <3> QED BY <3>1, <3>2, <3>3
    <2>8. SharedForm'
      BY <2>5, <2>6, <2>7 DEF SharedForm
    <2>9. ASSUME NEW x \in learned'
          PROVE  \E s \in Seats, k \in Gens, p \in Positions :
                    x = Own(s, k, p) /\ (p \in Board \/ \E r \in Seats : r # s /\ p \in Hole(r))
      <3>1. CASE x \in learned
        BY <3>1 DEF LearnedForm
      <3>2. CASE x \notin learned
        <4>1. PICK p \in Disclosed(call) : x = told(p)
          BY <2>1, <2>9, <3>2
        <4>2. p \in Positions /\ (p \in Board \/ (call.to # call.seat /\ p \in Hole(call.to)))
          BY <2>1, <2>2, <4>1, Layout DEF Disclosed
        <4> QED BY <2>2, <2>3, <4>1, <4>2
      <3> QED BY <3>1, <3>2
    <2>10. LearnedForm'
      BY <2>9 DEF LearnedForm
    <2> QED BY <2>8, <2>10
  <1>5. CASE CardAnswered
    <2>1. st = "dealing" /\ call.do \in {"card", "board"} /\ Proceed /\ UNCHANGED <<shared, learned, used>>
          /\ WellCalled(call)
      BY <1>5 DEF CardAnswered, Place
    <2>2. call' = Following(call) /\ call.do # "none" /\ st' # "none"
      BY <2>1, ProceedEffect
    <2>3. call'.do \notin {"commit"} \cup Passes
      <3>1. call.do \notin {"commit"} \cup Passes
        BY <2>1 DEF Passes
      <3> QED BY <2>1, <2>2, <3>1, FollowingCall
    <2> QED BY <2>1, <2>2, <2>3 DEF SharedForm, LearnedForm
  <1>6. CASE FinishHand
    <2>1. st' = "over" /\ st = "playing" /\ UNCHANGED <<call, shared, learned, used>>
      BY <1>6 DEF FinishHand, history
    <2>2. SharedForm'
      BY <2>1 DEF SharedForm
    <2> QED BY <2>1, <2>2 DEF LearnedForm
  <1>7. CASE UNCHANGED vars
    BY <1>1, <1>7 DEF vars, tableVars, history
  <1>8. ASSUME NEW m \in late, LateArrives(m)
        PROVE  SharedForm' /\ LearnedForm'
    BY <1>1, <1>8 DEF tableVars, history, LateArrives
  <1>9. ASSUME NEW s \in Seats, WalletRestarts(s)
        PROVE  SharedForm' /\ LearnedForm'
    BY <1>1, <1>9 DEF tableVars, WalletRestarts
  <1> QED BY <1>2, <1>3, <1>4, <1>5, <1>6, <1>7, <1>8, <1>9 DEF Next, DealStep

\* A position off the board keeps the mask of a seat that was not asked for it.
LEMMA DisclosedTooLittle ==
    ASSUME Place, Provenance, LearnedForm
    PROVE  DisclosuresOpenBoardOnly
  <1> SUFFICES ASSUME st # "none", call.do \notin {"commit", "shuffle"},
                      NEW p \in Positions, p \notin Board, deck[p].masks \subseteq learned
               PROVE  FALSE
    BY DEF DisclosuresOpenBoardOnly
  <1>1. PICK P : Origin(P, used, Shuffles(call), Remasks(call), deck)
    BY DEF Provenance, Traced, TableDeck
  <1>2. Shuffles(call) = N /\ Remasks(call) \in 0..N
    <2>1. call.seat \in Seats /\ N \in Nat
      BY Table DEF Place, WellCalled, Calls
    <2> QED BY <2>1 DEF Shuffles, Remasks, Seats
  <1> DEFINE b == Remasks(call)
  <1>3. MasksOf(used, N, b, deck, p)
    BY <1>1, <1>2 DEF Origin
  <1>4. \A o, g : Global(o, g) \notin learned
    <2> SUFFICES ASSUME NEW o, NEW g, Global(o, g) \in learned PROVE FALSE
      OBVIOUS
    <2>1. PICK s \in Seats, k \in Gens, q \in Positions : Global(o, g) = Own(s, k, q)
      BY DEF LearnedForm
    <2> QED BY <2>1, OwnNames
  <1>5. N \in Nat /\ N >= 2 /\ 0 \in Seats
    BY Table
  <1>6. b = N
    <2>1. CASE b # N
      <3>1. N - 1 \in b..(N - 1)
        BY <1>2, <1>5, <2>1
      <3>2. Global(N - 1, used[N - 1]) \in deck[p].masks
        BY <1>3, <3>1 DEF MasksOf
      <3> QED BY <1>4, <3>2
    <2> QED BY <2>1
  <1> HIDE DEF b
  <1>7. ASSUME NEW s \in Seats
        PROVE  \E r \in Seats : r # s /\ p \in Hole(r)
    <2>1. s \in 0..(N - 1)
      BY DEF Seats
    <2>2. PICK g \in Gens : Own(s, g, p) \in deck[p].masks
      BY <1>3, <1>6, <2>1 DEF MasksOf
    <2>3. PICK o \in Seats, k \in Gens, q \in Positions :
                 Own(s, g, p) = Own(o, k, q) /\ (q \in Board \/ \E r \in Seats : r # o /\ q \in Hole(r))
      BY <2>2 DEF LearnedForm
    <2>4. o = s /\ q = p
      BY <2>3, OwnNames
    <2> QED BY <2>3, <2>4
  <1>8. PICK r \in Seats : r # 0 /\ p \in Hole(r)
    BY <1>5, <1>7
  <1>9. PICK q \in Seats : q # r /\ p \in Hole(q)
    BY <1>7
  <1> QED BY <1>8, <1>9, Layout

-----------------------------------------------------------------------------
(* What is read *)

\* The cards below this position have been read.
ReadUpTo(c) ==
    CASE c.do = "reveal" -> c.to * HoleCards
      [] c.do \in {"card", "board"} -> c.pos
      [] c.do = "open" -> BoardStart
      [] c.do = "none" -> BoardStart + BoardCards
      [] OTHER -> 0

\* The deal reads the positions in order and leaves none out.
LEMMA ReadingOrder ==
    ASSUME NEW c, WellCalled(c), c.do # "none"
    PROVE  \A p \in Positions : p < ReadUpTo(Following(c)) =>
              p < ReadUpTo(c) \/ (c.do \in {"card", "board"} /\ p = c.pos)
  <1> SUFFICES ASSUME NEW p \in Positions, p < ReadUpTo(Following(c))
               PROVE  p < ReadUpTo(c) \/ (c.do \in {"card", "board"} /\ p = c.pos)
    OBVIOUS
  <1>0. /\ c.do \in Kinds /\ c.seat \in Seats /\ c.to \in Seats /\ c.to \in Nat /\ c.pos \in Nat
        /\ p \in Nat /\ N \in Nat /\ c.to < N /\ HoleCards \in Nat /\ BoardCards \in Nat /\ BoardStart \in Nat
        /\ c.to * HoleCards \in Nat
    <2>1. c.do \in Kinds /\ c.seat \in Seats /\ c.to \in Seats /\ c.pos \in Positions
      BY DEF WellCalled, Calls
    <2>2. N \in Nat /\ Seats \subseteq Nat /\ Positions \subseteq Nat /\ c.to < N
      BY <2>1, Table DEF Seats
    <2>3. HoleCards \in Nat /\ BoardCards \in Nat /\ BoardStart \in Nat /\ c.to * HoleCards \in Nat
      BY <2>1, Layout, DeckConstants
    <2> QED BY <2>1, <2>2, <2>3
  <1>1. CASE c.do \in {"commit", "shuffle", "remask"}
    <2>1. Following(c).do \in {"commit", "shuffle", "remask", "final"}
      BY <1>1, FollowingCall
    <2> QED BY <1>0, <2>1 DEF ReadUpTo
  <1>2. CASE c.do = "final"
    <2>1. Following(c).do = "final" \/ Following(c) = Reveal(FirstOther(0), 0)
      BY <1>2 DEF Following, Call
    <2>2. 0 * HoleCards = 0
      BY <1>0
    <2> QED BY <1>0, <2>1, <2>2 DEF ReadUpTo, Reveal
  <1>3. CASE c.do = "reveal"
    <2>1. \/ Following(c).do = "reveal" /\ Following(c).to = c.to
          \/ Following(c).do = "card" /\ Following(c).pos = c.to * HoleCards
      BY <1>3 DEF Following, Reveal, ReadHole
    <2> QED BY <1>3, <2>1 DEF ReadUpTo
  <1>4. CASE c.do = "card"
    <2>1. \/ Following(c) = ReadHole(c.to, c.pos + 1)
          \/ c.pos + 1 \notin Hole(c.to) /\ c.to < N - 1 /\ Following(c) = Reveal(FirstOther(c.to + 1), c.to + 1)
          \/ c.pos + 1 \notin Hole(c.to) /\ ~(c.to < N - 1) /\ Following(c) = Call("open", 0)
      BY <1>4 DEF Following
    <2>2. (c.to + 1) * HoleCards = c.to * HoleCards + HoleCards
      BY <1>0
    <2>3. c.pos + 1 \notin Hole(c.to) => c.pos + 1 = c.to * HoleCards + HoleCards
      <3>1. c.pos \in Hole(c.to)
        BY <1>4 DEF WellCalled
      <3> DEFINE lo == c.to * HoleCards
      <3>2. lo \in Nat /\ c.pos \in lo..(lo + HoleCards - 1)
            /\ (c.pos + 1 \notin Hole(c.to) => c.pos + 1 \notin lo..(lo + HoleCards - 1))
        BY <1>0, <3>1 DEF Hole
      <3> HIDE DEF lo
      <3>3. c.pos + 1 \notin Hole(c.to) => c.pos + 1 = lo + HoleCards
        BY <1>0, <3>2
      <3> QED BY <3>3 DEF lo
    <2>4. ~(c.to < N - 1) => BoardStart = c.to * HoleCards + HoleCards
      <3>1. ~(c.to < N - 1) => N = c.to + 1
        BY <1>0
      <3> QED BY <2>2, <3>1 DEF BoardStart
    <2>5. ReadUpTo(Following(c)) = c.pos + 1
      <3>1. CASE Following(c) = ReadHole(c.to, c.pos + 1)
        BY <3>1 DEF ReadUpTo, ReadHole
      <3>2. CASE c.pos + 1 \notin Hole(c.to) /\ c.to < N - 1 /\ Following(c) = Reveal(FirstOther(c.to + 1), c.to + 1)
        BY <2>2, <2>3, <3>2 DEF ReadUpTo, Reveal
      <3>3. CASE c.pos + 1 \notin Hole(c.to) /\ ~(c.to < N - 1) /\ Following(c) = Call("open", 0)
        BY <2>3, <2>4, <3>3 DEF ReadUpTo, Call
      <3> QED BY <2>1, <3>1, <3>2, <3>3
    <2>6. ReadUpTo(c) = c.pos
      BY <1>4 DEF ReadUpTo
    <2>7. p < c.pos + 1
      BY <2>5
    <2>8. p < c.pos \/ p = c.pos
      BY <1>0, <2>7
    <2> QED BY <1>4, <2>6, <2>8
  <1>5. CASE c.do = "open"
    <2>1. \/ Following(c).do = "open"
          \/ Following(c).do = "board" /\ Following(c).pos = BoardStart
      BY <1>5 DEF Following, Call, ReadBoard
    <2> QED BY <1>5, <2>1 DEF ReadUpTo
  <1>6. CASE c.do = "board"
    <2>1. \/ Following(c) = ReadBoard(1, c.pos)
          \/ Following(c) = ReadBoard(0, c.pos + 1)
          \/ Following(c) = NoCall /\ c.pos + 1 \notin Board
      BY <1>6 DEF Following
    <2>2. c.pos + 1 \notin Board => c.pos + 1 = BoardStart + BoardCards
      <3>1. c.pos \in Board
        BY <1>6 DEF WellCalled
      <3> QED BY <1>0, <3>1 DEF Board
    <2>3. ReadUpTo(Following(c)) = c.pos \/ ReadUpTo(Following(c)) = c.pos + 1
      BY <2>1, <2>2 DEF ReadUpTo, ReadBoard, NoCall, Call
    <2>4. ReadUpTo(c) = c.pos
      BY <1>6 DEF ReadUpTo
    <2> QED BY <1>0, <1>6, <2>3, <2>4
  <1> QED BY <1>0, <1>1, <1>2, <1>3, <1>4, <1>5, <1>6 DEF Kinds

\* A wallet that can read a card with what was disclosed reads the card of the deck
\* of this deal, though it may hold the deck of another attempt: that deck bears the
\* masks of the secrets it was shuffled with, and they are those of this deal.
LEMMA ReadsRight ==
    ASSUME Place, Stock, Provenance, SharedForm, st = "dealing", call.do \in {"card", "board"}, CanRead(call)
    PROVE  /\ Secrets(call.seat).deck[call.pos].card = deck[call.pos].card
           /\ deck[call.pos].card \in Positions
  <1> DEFINE s == call.seat
             p == call.pos
             own == Secrets(s)
             rest == {x \in shared[p] : x[1] # s}
  <1>1. s \in Seats /\ p \in Positions /\ handNo \in Hands /\ own = wallet[s][handNo]
        /\ N \in Nat /\ N >= 2
    BY Table DEF Place, WellCalled, Calls, Secrets
  <1>2. own.deck # NoDeck /\ own.deck[p].masks = rest \cup {Own(s, own.gen, p)}
    BY DEF CanRead, Readable
  <1>3. Shuffles(call) = N /\ Remasks(call) = N
    BY DEF Shuffles, Remasks
  <1>4. PICK P \in [Seats -> [Gens -> Perms]] : Traced(P)
    BY DEF Provenance
  <1>5. Origin(P, used, N, N, deck) /\ OfHand(used, handNo)
    BY <1>3, <1>4 DEF Traced, TableDeck
  <1>6. PICK G \in [Seats -> Gens], a \in 1..N, b \in 0..N :
                /\ b = 0 \/ a = N
                /\ Origin(P, G, a, b, own.deck) /\ OfHand(G, handNo)
                /\ b = N => Trusted(G)
    <2>1. Holds(P, handNo, own.deck)
      BY <1>1, <1>2, <1>4 DEF Traced, WalletDecks
    <2> QED BY <2>1 DEF Holds
  <1>7. MasksOf(G, a, b, own.deck, p) /\ CardOf(Vector(P, G), a, own.deck, p)
    BY <1>1, <1>6 DEF Origin
  <1>8. /\ own.gen # 0 /\ own.gen \in Nat
        /\ \A x \in rest : \E o \in Seats, g \in Gens : o # s /\ x = Own(o, g, p) /\ used[o] <= g
    <2>1. own.gen # 0 /\ own.gen \in Nat
      BY <1>1, <1>2, InGens DEF Stock
    <2>2. ASSUME NEW x \in rest PROVE \E o \in Seats, g \in Gens : o # s /\ x = Own(o, g, p) /\ used[o] <= g
      <3>1. PICK o \in Seats, g \in Gens : x = Own(o, g, p) /\ used[o] <= g
        BY <1>1 DEF SharedForm
      <3>2. x[1] = o
        BY <1>1, <3>1, OwnNames
      <3> QED BY <3>1, <3>2
    <2> QED BY <2>1, <2>2
  <1> HIDE DEF s, p, own, rest
  <1>9. \A o, g : Global(o, g) \notin own.deck[p].masks
    BY <1>1, <1>2, <1>8, OwnNames
  <1>10. b = N /\ a = N
    <2>1. ASSUME b <= a - 1 PROVE FALSE
      <3>1. b \in b..(a - 1)
        BY <1>1, <2>1
      <3>2. Global(b, G[b]) \in own.deck[p].masks
        BY <1>7, <3>1 DEF MasksOf
      <3> QED BY <1>9, <3>2
    <2> QED BY <1>1, <1>6, <2>1
  <1>11. ASSUME NEW o \in Seats PROVE G[o] = used[o]
    <2>1. G[o] \in Nat /\ used[o] \in Nat
      BY Numbers DEF Place
    <2>2. o \in 0..(b - 1) /\ o < N
      BY <1>1, <1>10 DEF Seats
    <2>3. PICK g \in Gens : Own(o, g, p) \in own.deck[p].masks /\ (g = G[o] \/ Global(o, G[o]) \in own.deck[p].masks)
      BY <1>7, <2>2 DEF MasksOf
    <2>4. Own(o, G[o], p) \in own.deck[p].masks
      BY <1>9, <2>3
    <2>5. G[o] <= used[o]
      BY <1>3, <1>6, <1>10, <2>2 DEF Trusted
    <2>6. used[o] <= G[o]
      <3>1. CASE Own(o, G[o], p) \in rest
        <4>1. PICK q \in Seats, k \in Gens : Own(o, G[o], p) = Own(q, k, p) /\ used[q] <= k
          BY <1>8, <3>1
        <4>2. q = o /\ k = G[o]
          BY <1>1, <4>1, OwnNames
        <4> QED BY <4>1, <4>2
      <3>2. CASE Own(o, G[o], p) = Own(s, own.gen, p)
        <4>1. o = s /\ G[o] = own.gen
          BY <1>1, <3>2, OwnNames
        <4>2. used[o] <= own.gen
          BY <1>1, <1>5, <1>8, <4>1 DEF OfHand
        <4> QED BY <4>1, <4>2
      <3>3. Own(o, G[o], p) \in rest \/ Own(o, G[o], p) = Own(s, own.gen, p)
        BY <1>2, <2>4
      <3> QED BY <3>1, <3>2, <3>3
    <2>7. \A x, y \in Nat : x <= y /\ y <= x => x = y
      OBVIOUS
    <2> QED BY <2>1, <2>5, <2>6, <2>7, Zenon
  <1>12. Vector(P, G) = Vector(P, used)
    BY <1>11 DEF Vector
  <1>13. CardOf(Vector(P, used), N, deck, p) /\ deck[p].card \in Positions
    BY <1>1, <1>5 DEF Origin, IsDeck
  <1>14. own.deck[p].card = deck[p].card
    BY <1>7, <1>10, <1>12, <1>13 DEF CardOf
  <1> QED BY <1>13, <1>14 DEF s, p, own

CardsRead ==
    /\ cards \in [Positions -> Positions \cup {-1}]
    /\ st # "none" => \A p \in Positions : p < ReadUpTo(call) => cards[p] = deck[p].card

\* Every card that has been read is the one in the coordinator's deck.
LEMMA CardsStep ==
    ASSUME Place, Stock, Provenance, SharedForm, CardsRead, [Next]_vars
    PROVE  CardsRead'
  <1>0. Positions \subseteq Nat /\ NoCards \in [Positions -> Positions \cup {-1}]
    BY Table DEF NoCards
  <1>1. CASE UNCHANGED <<st, call, deck, cards>>
    BY <1>1 DEF CardsRead
  <1>2. CASE StartDeal \/ NextHand
    <2>1. cards' = NoCards /\ call' = Call("commit", 0)
      BY <1>2 DEF StartDeal, NextHand, BeginDeal
    <2>2. ReadUpTo(call') = 0
      BY <2>1, FirstCalls DEF ReadUpTo
    <2>3. \A p \in Positions : ~(p < 0)
      BY <1>0
    <2> QED BY <1>0, <2>1, <2>2, <2>3 DEF CardsRead
  <1>3. CASE CallFails \/ TableRestarts
    BY <1>0, <1>3 DEF CallFails, TableRestarts, NoHand, CardsRead
  <1>4. CASE PassAnswered
    <2>1. /\ st = "dealing" /\ Proceed /\ WellCalled(call) /\ cards' = cards
          /\ call.do \in {"commit", "shuffle", "remask", "final"}
      BY <1>4 DEF PassAnswered, Place, WalletHandles, Passes
    <2>2. call' = Following(call) /\ call.do # "none"
      BY <2>1, ProceedEffect
    <2>3. ReadUpTo(call) = 0
      BY <2>1 DEF ReadUpTo
    <2>4. \A p \in Positions : ~(p < ReadUpTo(call'))
      <3>1. \A p \in Positions : p < ReadUpTo(call') => p < 0
        BY <2>1, <2>2, <2>3, ReadingOrder
      <3> QED BY <1>0, <3>1
    <2> QED BY <2>1, <2>4 DEF CardsRead
  <1>5. CASE RevealAnswered
    <2>1. /\ st = "dealing" /\ Proceed /\ WellCalled(call) /\ cards' = cards /\ deck' = deck
          /\ call.do \in {"reveal", "open"}
      BY <1>5 DEF RevealAnswered, Place
    <2>2. call' = Following(call) /\ call.do # "none"
      BY <2>1, ProceedEffect
    <2>3. \A p \in Positions : p < ReadUpTo(call') => p < ReadUpTo(call)
      BY <2>1, <2>2, ReadingOrder
    <2> QED BY <2>1, <2>3 DEF CardsRead
  <1>6. CASE CardAnswered
    <2> DEFINE card == Secrets(call.seat).deck[call.pos].card
    <2>1. /\ st = "dealing" /\ Proceed /\ WellCalled(call) /\ deck' = deck
          /\ cards' = [cards EXCEPT ![call.pos] = card] /\ CanRead(call)
          /\ call.do \in {"card", "board"} /\ call.pos \in Positions
      BY <1>6 DEF CardAnswered, Place, WellCalled, Calls
    <2>2. call' = Following(call) /\ call.do # "none"
      BY <2>1, ProceedEffect
    <2>3. card = deck[call.pos].card /\ card \in Positions
      BY <2>1, ReadsRight
    <2> HIDE DEF card
    <2>4. /\ cards' \in [Positions -> Positions \cup {-1}] /\ cards'[call.pos] = card
          /\ \A p \in Positions : p # call.pos => cards'[p] = cards[p]
      BY <2>1, <2>3 DEF CardsRead
    <2>5. \A p \in Positions : p < ReadUpTo(call') => p < ReadUpTo(call) \/ p = call.pos
      BY <2>1, <2>2, ReadingOrder
    <2>6. \A p \in Positions : p < ReadUpTo(call) => cards[p] = deck[p].card
      BY <2>1 DEF CardsRead
    <2>7. \A p \in Positions : p < ReadUpTo(call') => cards'[p] = deck'[p].card
      BY <2>1, <2>3, <2>4, <2>5, <2>6
    <2> QED BY <2>4, <2>7 DEF CardsRead
  <1>7. CASE FinishHand
    BY <1>7 DEF FinishHand, CardsRead
  <1>8. CASE UNCHANGED vars
    BY <1>1, <1>8 DEF vars, tableVars
  <1>9. ASSUME NEW m \in late, LateArrives(m) PROVE CardsRead'
    BY <1>1, <1>9 DEF tableVars, LateArrives
  <1>10. ASSUME NEW s \in Seats, WalletRestarts(s) PROVE CardsRead'
    BY <1>1, <1>10 DEF tableVars, WalletRestarts
  <1> QED BY <1>2, <1>3, <1>4, <1>5, <1>6, <1>7, <1>8, <1>9, <1>10 DEF Next, DealStep

\* However often it is shuffled, a deck holds no card twice.
LEMMA OrderInjective ==
    ASSUME NEW V, \A s \in Seats : V[s] \in Perms
    PROVE  \A p, q \in Positions : Order(V)[N][p] = Order(V)[N][q] => p = q
  <1> DEFINE Inj(o) == \A p, q \in Positions : o[p] = o[q] => p = q
             Bad == {n \in 0..N : ~Inj(Order(V)[n])}
  <1>0. N \in Nat
    BY Table
  <1>1. Bad = {}
    <2> SUFFICES ASSUME Bad # {} PROVE FALSE
      OBVIOUS
    <2>1. PICK n \in Bad : \A y \in Bad : n <= y
      <3>1. Bad \subseteq Nat
        BY <1>0
      <3> HIDE DEF Bad
      <3> QED BY <3>1, LeastMember
    <2>2. n \in 0..N /\ n \in Nat /\ ~Inj(Order(V)[n])
      BY <1>0
    <2>3. n # 0
      <3>1. Order(V)[0] = [p \in Positions |-> p]
        BY OrderDefined
      <3>2. Inj(Order(V)[0])
        BY <3>1
      <3> QED BY <2>2, <3>2
    <2>4. PICK s \in Seats : n = s + 1 /\ s \in 0..N /\ s \notin Bad
      <3>1. n - 1 \in Seats /\ n = (n - 1) + 1 /\ n - 1 \in 0..N
        BY <1>0, <2>2, <2>3 DEF Seats
      <3>2. n - 1 \notin Bad
        BY <2>1, <2>2
      <3> QED BY <3>1, <3>2
    <2>5. Inj(Order(V)[s])
      BY <2>4
    <2>6. PICK o : o = Order(V)[s]
      OBVIOUS
    <2>7. PICK f \in Perms : f = V[s]
      OBVIOUS
    <2>8. Order(V)[n] = Moved(o, f)
      BY <2>4, <2>6, <2>7, OrderDefined
    <2>9. \A q \in Positions : From(f, q) \in Positions /\ f[From(f, q)] = q
      BY PermutationOnto DEF From
    <2>10. ASSUME NEW p \in Positions, NEW q \in Positions, Moved(o, f)[p] = Moved(o, f)[q]
           PROVE  p = q
      <3>1. o[From(f, p)] = o[From(f, q)]
        BY <2>10 DEF Moved
      <3>2. From(f, p) = From(f, q)
        BY <2>5, <2>6, <2>9, <3>1
      <3> QED BY <2>9, <3>2
    <2> QED BY <2>2, <2>8, <2>10
  <1>2. N \in 0..N
    BY <1>0
  <1> QED BY <1>1, <1>2

\* The dealt positions are the first ones of the deck, each for one purpose.
LEMMA DealtFirst ==
    /\ DealtPositions = 0..(BoardStart + BoardCards - 1)
    /\ DealtPositions \subseteq Positions
    /\ \A p \in DealtPositions : p < BoardStart + BoardCards
    /\ Cardinality(DealtPositions) = N * HoleCards + BoardCards
  <1>1. /\ N \in Nat /\ HoleCards \in Nat /\ HoleCards >= 1 /\ BoardCards \in Nat /\ BoardCards >= 1
        /\ BoardStart \in Nat /\ BoardStart = N * HoleCards
    BY DeckConstants, Layout DEF BoardStart
  <1>2. Board \subseteq Positions /\ \A s \in Seats : Hole(s) \subseteq Positions
                                   /\ \A p \in Hole(s) : p < BoardStart
    BY Layout
  <1>3. Positions \subseteq Nat
    BY Table
  <1>4. ASSUME NEW p \in DealtPositions
        PROVE  p \in Positions /\ p \in Nat /\ p < BoardStart + BoardCards
    <2>1. CASE p \in Board
      BY <1>1, <1>2, <1>3, <2>1 DEF Board
    <2>2. CASE \E s \in Seats : p \in Hole(s)
      <3>1. p \in Positions /\ p < BoardStart
        BY <1>2, <2>2
      <3> QED BY <1>1, <1>3, <3>1
    <2> QED BY <2>1, <2>2 DEF DealtPositions
  <1>5. ASSUME NEW p \in 0..(BoardStart + BoardCards - 1)
        PROVE  p \in DealtPositions
    <2>1. p \in Nat
      BY <1>1
    <2>2. CASE p >= BoardStart
      <3>1. p \in Board
        BY <1>1, <2>2 DEF Board
      <3> QED BY <3>1 DEF DealtPositions
    <2>3. CASE p < BoardStart
      <3> DEFINE T == {s \in Nat : p < (s + 1) * HoleCards}
      <3>1. T # {} /\ T \subseteq Nat
        <4>1. N - 1 \in Nat /\ (N - 1) + 1 = N
          BY Table
        <4>2. p < ((N - 1) + 1) * HoleCards
          BY <1>1, <2>3, <4>1
        <4> QED BY <4>1, <4>2
      <3> HIDE DEF T
      <3>2. PICK s \in T : \A y \in T : s <= y
        BY <3>1, LeastMember
      <3>3. s \in Nat /\ p < (s + 1) * HoleCards
        BY <3>2 DEF T
      <3>4. s * HoleCards \in Nat /\ (s + 1) * HoleCards = s * HoleCards + HoleCards
        BY <1>1, <3>3
      <3>5. p >= s * HoleCards
        <4>1. CASE s = 0
          BY <1>1, <2>1, <4>1
        <4>2. CASE s # 0
          <5>1. s - 1 \in Nat /\ (s - 1) + 1 = s /\ ~(s <= s - 1)
            BY <3>3, <4>2
          <5>2. s - 1 \notin T
            BY <3>2, <5>1
          <5>3. ~(p < ((s - 1) + 1) * HoleCards)
            BY <5>1, <5>2 DEF T
          <5> QED BY <2>1, <3>4, <5>1, <5>3
        <4> QED BY <4>1, <4>2
      <3>6. s \in Seats
        <4>1. CASE s >= N
          <5>1. N * HoleCards <= s * HoleCards
            <6>1. HoleCards * N <= HoleCards * s
              BY <1>1, <3>3, <4>1, TimesMonotone
            <6>2. HoleCards * N = N * HoleCards /\ HoleCards * s = s * HoleCards
              BY <1>1, <3>3
            <6> QED BY <6>1, <6>2
          <5> QED BY <1>1, <2>1, <2>3, <3>4, <3>5, <5>1
        <4> QED BY <1>1, <3>3, <4>1 DEF Seats
      <3> DEFINE lo == s * HoleCards
      <3>7. lo \in Nat /\ p >= lo /\ p < lo + HoleCards
        BY <3>3, <3>4, <3>5
      <3> HIDE DEF lo
      <3>8. p \in lo..(lo + HoleCards - 1)
        BY <1>1, <2>1, <3>7
      <3>9. p \in Hole(s)
        BY <3>8 DEF Hole, lo
      <3> QED BY <3>6, <3>9 DEF DealtPositions
    <2> QED BY <1>1, <2>1, <2>2, <2>3
  <1>6. DealtPositions = 0..(BoardStart + BoardCards - 1)
    <2>1. \A p \in DealtPositions : p \in 0..(BoardStart + BoardCards - 1)
      BY <1>1, <1>4
    <2> QED BY <1>5, <2>1
  <1>7. Cardinality(DealtPositions) = N * HoleCards + BoardCards
    <2> DEFINE last == BoardStart + BoardCards - 1
    <2>1. last \in Nat /\ 0 <= last /\ last + 1 = N * HoleCards + BoardCards
      BY <1>1
    <2> HIDE DEF last
    <2>2. Cardinality(0..last) = last - 0 + 1
      BY <2>1, FS_Interval
    <2>3. last - 0 + 1 = last + 1
      BY <2>1
    <2> QED BY <1>6, <2>1, <2>2, <2>3 DEF last
  <1> QED BY <1>4, <1>6, <1>7

\* When all have been read, the hand has the cards of that deck.
LEMMA DealtWell ==
    ASSUME Place, Stock, Provenance, CardsRead
    PROVE  DealtRight
  <1> SUFFICES ASSUME st \in {"playing", "over"}
               PROVE  /\ \A p \in DealtPositions : cards[p] = deck[p].card
                      /\ \A p, q \in DealtPositions : cards[p] = cards[q] => p = q
                      /\ Cardinality(DealtPositions) = N * HoleCards + BoardCards
    BY DEF DealtRight
  <1>1. call.do = "none" /\ st # "none"
    BY DEF Place
  <1>2. Shuffles(call) = N /\ ReadUpTo(call) = BoardStart + BoardCards
    BY <1>1 DEF Shuffles, ReadUpTo
  <1>3. \A p \in DealtPositions : p \in Positions /\ cards[p] = deck[p].card
    BY <1>1, <1>2, DealtFirst DEF CardsRead
  <1>4. PICK P \in [Seats -> [Gens -> Perms]] : Origin(P, used, N, Remasks(call), deck)
    BY <1>1, <1>2 DEF Provenance, Traced, TableDeck
  <1> DEFINE V == Vector(P, used)
  <1>5. \A s \in Seats : V[s] \in Perms
    <2>1. used \in [Seats -> Gens]
      BY InGens
    <2> QED BY <2>1 DEF Vector
  <1>6. \A p \in Positions : deck[p].card = Order(V)[N][p]
    BY <1>4 DEF Origin, CardOf
  <1> HIDE DEF V
  <1>7. \A p, q \in Positions : deck[p].card = deck[q].card => p = q
    BY <1>5, <1>6, OrderInjective
  <1> QED BY <1>3, <1>7, DealtFirst

-----------------------------------------------------------------------------
(* A deal that nothing disturbs *)

Owns(G, T, p) == {Own(o, G[o], p) : o \in T}
Globals(G, T) == {Global(o, G[o]) : o \in T}

\* The masks of a deck that a seats shuffled and b remasked, each with its secrets in G.
Exact(G, a, b, p) == Owns(G, 0..(b - 1), p) \cup Globals(G, b..(a - 1))

MaskedBy(G, a, b, d) == \A p \in Positions : d[p].masks = Exact(G, a, b, p)

\* A shuffle adds its seat's mask to every card.
LEMMA ShuffleExact ==
    ASSUME NEW G \in [Seats -> Gens], NEW t \in Seats, NEW g \in Gens, NEW f \in Perms,
           NEW d, IsDeck(d), MaskedBy(G, t, 0, d)
    PROVE  MaskedBy([G EXCEPT ![t] = g], t + 1, 0, ShuffleStep(d, t, g, f))
  <1> DEFINE H == [G EXCEPT ![t] = g]
  <1> SUFFICES ASSUME NEW q \in Positions
               PROVE  ShuffleStep(d, t, g, f)[q].masks = Exact(H, t + 1, 0, q)
    BY DEF MaskedBy
  <1> DEFINE m == Globals(G, 0..(t - 1))
  <1>1. t \in Nat /\ t < N /\ N \in Nat
    BY Table DEF Seats
  <1>2. H[t] = g /\ \A o \in 0..(t - 1) : o # t /\ H[o] = G[o]
    BY <1>1 DEF Seats
  <1>3. 0..(0 - 1) = {}
    OBVIOUS
  <1>4. ShuffleStep(d, t, g, f)[q].masks = Mask(m, Global(t, g))
    <2>1. PICK i \in Positions : ShuffleStep(d, t, g, f)[q].masks = Mask(d[i].masks, Global(t, g))
      BY ShuffleDeck
    <2>2. d[i].masks = m
      BY <1>3 DEF MaskedBy, Exact, Owns
    <2> QED BY <2>1, <2>2
  <1>5. ASSUME NEW y \in m PROVE [y EXCEPT ![4] = 1] # Global(t, g)
    <2>1. PICK o \in 0..(t - 1) : y = Global(o, G[o])
      BY <1>5 DEF Globals
    <2>2. o # t
      BY <1>2
    <2> QED BY <2>1, <2>2, ScalarNames
  <1>6. Mask(m, Global(t, g)) = m \cup {Global(t, g)}
    <2>1. Global(t, g)[4] = 1 /\ [Global(t, g) EXCEPT ![4] = 1] = Global(t, g)
      BY ScalarNames
    <2> HIDE DEF m
    <2> QED BY <1>5, <2>1, MaskAdds
  <1>7. m \cup {Global(t, g)} = Globals(H, 0..((t + 1) - 1))
    <2>1. \A o \in 0..((t + 1) - 1) : o = t \/ o \in 0..(t - 1)
      BY <1>1
    <2>2. t \in 0..((t + 1) - 1) /\ \A o \in 0..(t - 1) : o \in 0..((t + 1) - 1)
      BY <1>1
    <2> HIDE DEF H
    <2> QED BY <1>2, <2>1, <2>2 DEF Globals
  <1>8. Exact(H, t + 1, 0, q) = Globals(H, 0..((t + 1) - 1))
    BY <1>3 DEF Exact, Owns
  <1> QED BY <1>4, <1>6, <1>7, <1>8

\* A remask takes that mask off again and puts the position's own on.
LEMMA RemaskExact ==
    ASSUME NEW G \in [Seats -> Gens], NEW t \in Seats, NEW d, IsDeck(d), MaskedBy(G, N, t, d)
    PROVE  MaskedBy(G, N, t + 1, RemaskStep(d, t, G[t]))
  <1> SUFFICES ASSUME NEW p \in Positions
               PROVE  RemaskStep(d, t, G[t])[p].masks = Exact(G, N, t + 1, p)
    BY DEF MaskedBy
  <1> DEFINE m == Exact(G, N, t, p)
             g == G[t]
             mid == m \ {Global(t, g)}
  <1>1. t \in Nat /\ t < N /\ N \in Nat
    BY Table DEF Seats
  <1>2. RemaskStep(d, t, g)[p].masks = Mask(Mask(m, InverseOf(Global(t, g))), Own(t, g, p))
    BY RemaskDeck DEF MaskedBy
  <1>3. \A y : y \in m <=> \/ \E o \in 0..(t - 1) : y = Own(o, G[o], p)
                           \/ \E o \in t..(N - 1) : y = Global(o, G[o])
    BY DEF Exact, Owns, Globals
  <1>4. Global(t, g) \in m
    <2>1. t \in t..(N - 1)
      BY <1>1
    <2> QED BY <1>3, <2>1
  <1> HIDE DEF m
  <1>5. ASSUME NEW y \in m, y # Global(t, g) PROVE [y EXCEPT ![4] = -1] # InverseOf(Global(t, g))
    <2>1. CASE \E o \in 0..(t - 1) : y = Own(o, G[o], p)
      BY <2>1, OwnNames
    <2>2. CASE \E o \in t..(N - 1) : y = Global(o, G[o])
      BY <1>5, <2>2, ScalarNames
    <2> QED BY <1>3, <2>1, <2>2
  <1>6. Mask(m, InverseOf(Global(t, g))) = mid
    <2> HIDE DEF g
    <2> QED BY <1>4, <1>5, MaskCancels
  <1>7. ASSUME NEW y \in mid PROVE [y EXCEPT ![4] = 1] # Own(t, g, p)
    <2>1. CASE \E o \in 0..(t - 1) : y = Own(o, G[o], p)
      <3>1. PICK o \in 0..(t - 1) : y = Own(o, G[o], p)
        BY <2>1
      <3>2. o # t
        BY <1>1
      <3> QED BY <3>1, <3>2, OwnNames
    <2>2. CASE \E o \in t..(N - 1) : y = Global(o, G[o])
      BY <2>2, ScalarNames, OwnNames
    <2> QED BY <1>3, <2>1, <2>2
  <1>8. Mask(mid, Own(t, g, p)) = mid \cup {Own(t, g, p)}
    <2>1. Own(t, g, p)[4] = 1 /\ [Own(t, g, p) EXCEPT ![4] = 1] = Own(t, g, p)
      BY OwnNames
    <2> HIDE DEF mid, g
    <2> QED BY <1>7, <2>1, MaskAdds
  <1>9. mid \cup {Own(t, g, p)} = Exact(G, N, t + 1, p)
    <2>1. /\ \A o \in 0..((t + 1) - 1) : o = t \/ o \in 0..(t - 1)
          /\ t \in 0..((t + 1) - 1) /\ \A o \in 0..(t - 1) : o \in 0..((t + 1) - 1)
          /\ \A o \in t..(N - 1) : o = t \/ o \in (t + 1)..(N - 1)
          /\ \A o \in (t + 1)..(N - 1) : o # t /\ o \in t..(N - 1)
      BY <1>1
    <2>2. \A y : y \in Exact(G, N, t + 1, p) <=> \/ \E o \in 0..((t + 1) - 1) : y = Own(o, G[o], p)
                                                 \/ \E o \in (t + 1)..(N - 1) : y = Global(o, G[o])
      BY DEF Exact, Owns, Globals
    <2>3. \A o \in 0..(t - 1) : Own(o, G[o], p) # Global(t, g)
      BY OwnNames
    <2>4. \A o \in (t + 1)..(N - 1) : Global(o, G[o]) # Global(t, g)
      BY <2>1, ScalarNames
    <2>5. ASSUME NEW y \in mid \cup {Own(t, g, p)} PROVE y \in Exact(G, N, t + 1, p)
      BY <1>3, <2>1, <2>2
    <2>6. ASSUME NEW y \in Exact(G, N, t + 1, p) PROVE y \in mid \cup {Own(t, g, p)}
      BY <1>3, <2>1, <2>2, <2>3, <2>4
    <2> QED BY <2>5, <2>6
  <1> QED BY <1>2, <1>6, <1>8, <1>9

\* Who has disclosed the positions of seat r, and of the board, when call c is made.
HoleTellers(c, r) ==
    CASE c.do = "reveal" /\ r = c.to -> {o \in Seats : o # r /\ o < c.seat}
      [] c.do = "reveal" /\ r < c.to -> Seats \ {r}
      [] c.do = "card" /\ r <= c.to -> Seats \ {r}
      [] c.do \in {"open", "board"} -> Seats \ {r}
      [] OTHER -> {}
BoardTellers(c) ==
    CASE c.do = "open" -> {o \in Seats : o < c.seat}
      [] c.do = "board" -> Seats
      [] OTHER -> {}

\* One more seat has told its scalars after a disclosure, and nobody after another call.
LEMMA TellersStep ==
    ASSUME NEW c, WellCalled(c), c.do # "none", Following(c).do # "none"
    PROVE  /\ \A r \in Seats : HoleTellers(Following(c), r) =
                 HoleTellers(c, r) \cup (IF c.do = "reveal" /\ r = c.to THEN {c.seat} ELSE {})
           /\ BoardTellers(Following(c)) =
                 BoardTellers(c) \cup (IF c.do = "open" THEN {c.seat} ELSE {})
  <1>0. /\ c.do \in Kinds /\ c.seat \in Seats /\ c.to \in Seats /\ N \in Nat /\ N >= 2
        /\ \A r \in Seats : r \in Nat /\ r < N
    BY Table DEF WellCalled, Calls, Seats
  <1>1. CASE c.do \in {"commit", "shuffle", "remask"}
    <2>1. Following(c).do \in {"commit", "shuffle", "remask", "final"}
      BY <1>1, FollowingCall
    <2> QED BY <1>1, <2>1 DEF HoleTellers, BoardTellers
  <1>2. CASE c.do = "final"
    <2>1. Following(c).do = "final" \/ Following(c) = Reveal(FirstOther(0), 0)
      BY <1>2 DEF Following, Call
    <2>2. CASE Following(c).do = "final"
      BY <1>2, <2>2 DEF HoleTellers, BoardTellers
    <2>3. CASE Following(c) = Reveal(FirstOther(0), 0)
      <3>1. Following(c).do = "reveal" /\ Following(c).to = 0 /\ Following(c).seat = 1
        BY <2>3 DEF Reveal, FirstOther
      <3>2. \A r \in Seats : HoleTellers(Following(c), r) = {}
        BY <1>0, <3>1 DEF HoleTellers
      <3> QED BY <1>2, <3>1, <3>2 DEF HoleTellers, BoardTellers
    <2> QED BY <2>1, <2>2, <2>3
  <1>3. CASE c.do = "reveal"
    <2> DEFINE n == NextOther(c.seat, c.to)
    <2>0. n \in Nat /\ c.seat # c.to
          /\ \A o \in Seats : o # c.to => (o < n <=> o < c.seat \/ o = c.seat)
      BY <1>0, <1>3 DEF NextOther, WellCalled
    <2>1. \/ Following(c) = Reveal(n, c.to) /\ n < N
          \/ Following(c) = ReadHole(c.to, c.to * HoleCards) /\ ~(n < N)
      BY <1>3 DEF Following
    <2> HIDE DEF n
    <2>2. CASE Following(c) = Reveal(n, c.to)
      <3>1. Following(c).do = "reveal" /\ Following(c).to = c.to /\ Following(c).seat = n
        BY <2>2 DEF Reveal
      <3>2. ASSUME NEW r \in Seats
            PROVE  HoleTellers(Following(c), r) =
                      HoleTellers(c, r) \cup (IF c.do = "reveal" /\ r = c.to THEN {c.seat} ELSE {})
        <4>1. CASE r = c.to
          BY <1>0, <1>3, <2>0, <3>1, <4>1 DEF HoleTellers
        <4>2. CASE r # c.to
          BY <1>3, <3>1, <4>2 DEF HoleTellers
        <4> QED BY <4>1, <4>2
      <3> QED BY <1>3, <3>1, <3>2 DEF BoardTellers
    <2>3. CASE Following(c) = ReadHole(c.to, c.to * HoleCards) /\ ~(n < N)
      <3>1. Following(c).do = "card" /\ Following(c).to = c.to
        BY <2>3 DEF ReadHole
      <3>2. \A o \in Seats : o # c.to => o < c.seat \/ o = c.seat
        BY <1>0, <2>0, <2>3
      <3>3. ASSUME NEW r \in Seats
            PROVE  HoleTellers(Following(c), r) =
                      HoleTellers(c, r) \cup (IF c.do = "reveal" /\ r = c.to THEN {c.seat} ELSE {})
        <4>1. CASE r = c.to
          <5>1. HoleTellers(Following(c), r) = Seats \ {r}
            BY <1>0, <3>1, <4>1 DEF HoleTellers
          <5>2. HoleTellers(c, r) = {o \in Seats : o # r /\ o < c.seat}
            BY <1>0, <1>3, <4>1 DEF HoleTellers
          <5> QED BY <1>0, <1>3, <2>0, <3>2, <4>1, <5>1, <5>2
        <4>2. CASE r < c.to
          BY <1>0, <1>3, <3>1, <4>2 DEF HoleTellers
        <4>3. CASE r > c.to
          BY <1>0, <1>3, <3>1, <4>3 DEF HoleTellers
        <4> QED BY <1>0, <4>1, <4>2, <4>3
      <3> QED BY <1>3, <3>1, <3>3 DEF BoardTellers
    <2> QED BY <2>1, <2>2, <2>3
  <1>4. CASE c.do = "card"
    <2>1. \/ Following(c) = ReadHole(c.to, c.pos + 1)
          \/ c.to < N - 1 /\ Following(c) = Reveal(FirstOther(c.to + 1), c.to + 1)
          \/ ~(c.to < N - 1) /\ Following(c) = Call("open", 0)
      BY <1>4 DEF Following
    <2>2. CASE Following(c) = ReadHole(c.to, c.pos + 1)
      <3>1. Following(c).do = "card" /\ Following(c).to = c.to
        BY <2>2 DEF ReadHole
      <3> QED BY <1>4, <3>1 DEF HoleTellers, BoardTellers
    <2>3. CASE c.to < N - 1 /\ Following(c) = Reveal(FirstOther(c.to + 1), c.to + 1)
      <3>1. Following(c).do = "reveal" /\ Following(c).to = c.to + 1 /\ Following(c).seat = 0
        BY <1>0, <2>3 DEF Reveal, FirstOther
      <3>2. ASSUME NEW r \in Seats PROVE HoleTellers(Following(c), r) = HoleTellers(c, r)
        <4>1. CASE r = c.to + 1
          <5>1. HoleTellers(Following(c), r) = {o \in Seats : o # r /\ o < 0}
            BY <1>0, <3>1, <4>1 DEF HoleTellers
          <5>2. HoleTellers(c, r) = {}
            BY <1>0, <1>4, <4>1 DEF HoleTellers
          <5> QED BY <1>0, <5>1, <5>2
        <4>2. CASE r < c.to + 1
          BY <1>0, <1>4, <3>1, <4>2 DEF HoleTellers
        <4>3. CASE r > c.to + 1
          BY <1>0, <1>4, <3>1, <4>3 DEF HoleTellers
        <4> QED BY <1>0, <4>1, <4>2, <4>3
      <3> QED BY <1>4, <3>1, <3>2 DEF BoardTellers
    <2>4. CASE ~(c.to < N - 1) /\ Following(c) = Call("open", 0)
      <3>1. Following(c).do = "open" /\ Following(c).seat = 0
        BY <2>4 DEF Call
      <3>2. \A r \in Seats : r <= c.to
        BY <1>0, <2>4
      <3>3. BoardTellers(Following(c)) = {}
        BY <1>0, <3>1 DEF BoardTellers
      <3> QED BY <1>4, <3>1, <3>2, <3>3 DEF HoleTellers, BoardTellers
    <2> QED BY <2>1, <2>2, <2>3, <2>4
  <1>5. CASE c.do = "open"
    <2>1. \/ c.seat < N - 1 /\ Following(c) = Call("open", c.seat + 1)
          \/ ~(c.seat < N - 1) /\ Following(c) = ReadBoard(0, BoardStart)
      BY <1>5 DEF Following
    <2>2. CASE c.seat < N - 1 /\ Following(c) = Call("open", c.seat + 1)
      <3>1. Following(c).do = "open" /\ Following(c).seat = c.seat + 1
        BY <2>2 DEF Call
      <3>2. {o \in Seats : o < c.seat + 1} = {o \in Seats : o < c.seat} \cup {c.seat}
        BY <1>0
      <3> QED BY <1>5, <3>1, <3>2 DEF HoleTellers, BoardTellers
    <2>3. CASE ~(c.seat < N - 1) /\ Following(c) = ReadBoard(0, BoardStart)
      <3>1. Following(c).do = "board"
        BY <2>3 DEF ReadBoard
      <3>2. Seats = {o \in Seats : o < c.seat} \cup {c.seat}
        BY <1>0, <2>3
      <3> QED BY <1>5, <3>1, <3>2 DEF HoleTellers, BoardTellers
    <2> QED BY <2>1, <2>2, <2>3
  <1>6. CASE c.do = "board"
    <2>1. Following(c).do = "board"
      BY <1>6 DEF Following, ReadBoard, NoCall, Call
    <2> QED BY <1>6, <2>1 DEF HoleTellers, BoardTellers
  <1> QED BY <1>0, <1>1, <1>2, <1>3, <1>4, <1>5, <1>6 DEF Kinds

\* The deal so far, when nothing disturbed it: every seat that shuffled still has
\* the secrets it shuffled with, the deck carries exactly the masks of those who
\* have had it, whoever took the final deck holds this one, and the scalars told
\* are those of the seats that were asked.
CleanSecrets == \A s \in Seats : s < Shuffles(call) => Secrets(s).gen = used[s]
CleanMasks == MaskedBy(used, Shuffles(call), Remasks(call), deck)
HasFinal(c, s) == c.do \notin {"commit"} \cup Passes \/ (c.do = "final" /\ s < c.seat)
CleanFinal == \A s \in Seats : HasFinal(call, s) => Secrets(s).deck = deck
CleanShared ==
    /\ \A r \in Seats : \A p \in Hole(r) : shared[p] = Owns(used, HoleTellers(call, r), p)
    /\ \A p \in Board : shared[p] = Owns(used, BoardTellers(call), p)
Clean ==
    /\ disturbed \in BOOLEAN /\ (late # {} => disturbed)
    /\ (st = "dealing" /\ ~disturbed) => CleanSecrets /\ CleanMasks /\ CleanFinal /\ CleanShared

\* A deal begins clean.
LEMMA CleanStart ==
    ASSUME BeginDeal
    PROVE  (CleanSecrets /\ CleanMasks /\ CleanFinal /\ CleanShared)'
  <1>1. call' = Call("commit", 0) /\ deck' = BaseDeck /\ shared' = NothingShared
    BY DEF BeginDeal
  <1>2. call'.do = "commit" /\ Shuffles(call') = 0 /\ Remasks(call') = 0
    BY <1>1, FirstCalls DEF Shuffles, Remasks
  <1>3. CleanSecrets'
    BY <1>2, Table DEF CleanSecrets
  <1>4. 0..(0 - 1) = {}
    OBVIOUS
  <1>5. \A p \in Positions : BaseDeck[p].masks = {}
    BY DEF BaseDeck
  <1>6. CleanMasks'
    BY <1>1, <1>2, <1>4, <1>5 DEF CleanMasks, MaskedBy, Exact, Owns, Globals
  <1>7. CleanFinal'
    BY <1>2 DEF CleanFinal, HasFinal
  <1>8. (\A r \in Seats : HoleTellers(call', r) = {}) /\ BoardTellers(call') = {}
    BY <1>2 DEF HoleTellers, BoardTellers
  <1>9. CleanShared'
    BY <1>1, <1>8, Layout DEF CleanShared, Owns, NothingShared
  <1> QED BY <1>3, <1>6, <1>7, <1>9

\* A pass that is answered leaves the deal clean.
LEMMA CleanPass ==
    ASSUME Place, Stock, Provenance, SharedForm, PassAnswered,
           CleanSecrets, CleanMasks, CleanFinal
    PROVE  (CleanSecrets /\ CleanMasks /\ CleanFinal /\ CleanShared)'
  <1>0. /\ st = "dealing" /\ WalletHandles(call, handNo, deck) /\ WellCalled(call) /\ handNo' = handNo
        /\ used' = IF call.do = "shuffle" THEN [used EXCEPT ![call.seat] = Secrets(call.seat).gen] ELSE used
        /\ deck' = IF call.do \in {"shuffle", "remask"} THEN wallet'[call.seat][handNo].deck ELSE deck
        /\ Proceed /\ shared' = shared /\ call.do \in {"commit"} \cup Passes
    BY DEF PassAnswered, Place, WalletHandles
  <1>1. /\ call' = Following(call) /\ call.seat \in Seats /\ call.do # "none" /\ handNo \in Hands
        /\ Shape(wallet) /\ used \in [Seats -> Gens] /\ N \in Nat /\ N >= 2
        /\ \A s \in Seats : s \in Nat /\ s < N
    <2>1. call' = Following(call) /\ call.do # "none"
      BY <1>0, ProceedEffect
    <2>2. call.seat \in Seats /\ handNo \in Hands /\ Shape(wallet)
      BY <1>0 DEF WellCalled, Calls, Place, Stock
    <2>3. used \in [Seats -> Gens]
      BY InGens
    <2> QED BY <2>1, <2>2, <2>3, Table DEF Seats
  <1>2. Following(call).do # "none"
    BY <1>0, <1>1, FollowingCall, FinalGoesOn DEF Passes
  <1>3. IsDeck(deck)
    BY <1>0 DEF Provenance, Traced, TableDeck, Origin
  <1>4. CleanShared'
    <2>1. (\A r \in Seats : HoleTellers(call, r) = {}) /\ BoardTellers(call) = {}
      BY <1>0 DEF HoleTellers, BoardTellers, Passes
    <2>2. call.do \notin {"reveal", "open"}
      BY <1>0 DEF Passes
    <2>3. (\A r \in Seats : HoleTellers(call', r) = {}) /\ BoardTellers(call') = {}
      BY <1>0, <1>1, <1>2, <2>1, <2>2, TellersStep
    <2>4. shared' = NothingShared
      BY <1>0 DEF SharedForm
    <2> QED BY <2>3, <2>4, Layout DEF CleanShared, Owns, NothingShared
  <1>5. CASE call.do = "commit"
    <2>1. used' = used /\ deck' = deck /\ Shuffles(call) = 0 /\ Remasks(call) = 0
      BY <1>0, <1>5 DEF Shuffles, Remasks
    <2>2. Shuffles(call') = 0 /\ Remasks(call') = 0 /\ call'.do \in {"commit", "shuffle"}
      BY <1>0, <1>1, <1>5, FollowingCall
    <2>3. CleanSecrets'
      BY <1>1, <2>2 DEF CleanSecrets
    <2>4. CleanMasks'
      BY <2>1, <2>2 DEF CleanMasks
    <2>5. CleanFinal'
      BY <2>2 DEF CleanFinal, HasFinal, Passes
    <2> QED BY <1>4, <2>3, <2>4, <2>5
  <1>6. CASE call.do \in Passes
    <2>0. PICK w : w = wallet[call.seat][handNo]
      OBVIOUS
    <2>1. OnlyAt(call.seat, handNo) /\ Took(call.seat, handNo, Passed(call, deck, w))
      BY <1>0, <1>1, <1>6, <2>0, HandlesEffect DEF Passes
    <2>2. w.gen \in Gens /\ w.perm \in Perms
      BY <1>1, <2>0, InGens DEF Stock
    <2>3. \A s \in Seats : wallet'[s][handNo].gen = wallet[s][handNo].gen
      BY <1>1, <2>1 DEF OnlyAt, Took
    <2>4. \A s \in Seats : s # call.seat => wallet'[s][handNo] = wallet[s][handNo]
      BY <1>1, <2>1 DEF OnlyAt
    <2>5. wallet'[call.seat][handNo].deck = Passed(call, deck, w)
      BY <2>1 DEF Took
    <2>6. CASE call.do = "shuffle"
      <3>1. /\ used' = [used EXCEPT ![call.seat] = w.gen]
            /\ deck' = ShuffleStep(deck, call.seat, w.gen, w.perm)
        BY <1>0, <2>0, <2>5, <2>6 DEF Secrets, Passed
      <3>2. Shuffles(call) = call.seat /\ Remasks(call) = 0
        BY <2>6 DEF Shuffles, Remasks
      <3>3. Shuffles(call') = call.seat + 1 /\ Remasks(call') = 0 /\ call'.do \in {"shuffle", "remask"}
        BY <1>0, <1>1, <2>6, FollowingCall
      <3>4. ASSUME NEW s \in Seats, s < call.seat + 1
            PROVE  wallet'[s][handNo].gen = used'[s]
        <4>1. CASE s = call.seat
          BY <1>1, <2>0, <2>3, <3>1, <4>1
        <4>2. CASE s # call.seat
          <5>1. s < call.seat
            BY <1>1, <3>4, <4>2
          <5>2. wallet[s][handNo].gen = used[s]
            BY <3>2, <5>1 DEF CleanSecrets, Secrets
          <5> QED BY <1>1, <2>3, <3>1, <4>2, <5>2
        <4> QED BY <4>1, <4>2
      <3>5. CleanSecrets'
        BY <1>0, <3>3, <3>4 DEF CleanSecrets, Secrets
      <3>6. CleanMasks'
        <4>1. MaskedBy(used, call.seat, 0, deck)
          BY <3>2 DEF CleanMasks
        <4>2. MaskedBy([used EXCEPT ![call.seat] = w.gen], call.seat + 1, 0,
                       ShuffleStep(deck, call.seat, w.gen, w.perm))
          BY <1>1, <1>3, <2>2, <4>1, ShuffleExact
        <4> QED BY <3>1, <3>3, <4>2 DEF CleanMasks
      <3>7. CleanFinal'
        BY <3>3 DEF CleanFinal, HasFinal, Passes
      <3> QED BY <1>4, <3>5, <3>6, <3>7
    <2>7. CASE call.do # "shuffle"
      <3>1. used' = used /\ Shuffles(call) = N /\ Shuffles(call') = N
        BY <1>0, <1>1, <1>6, <2>7, FollowingCall DEF Shuffles, Passes
      <3>2. CleanSecrets'
        BY <1>0, <2>3, <3>1 DEF CleanSecrets, Secrets
      <3>3. CASE call.do = "remask"
        <4>1. deck' = RemaskStep(deck, call.seat, used[call.seat])
          <5>1. w.gen = used[call.seat]
            BY <1>1, <2>0, <3>1 DEF CleanSecrets, Secrets
          <5> QED BY <1>0, <2>5, <3>3, <5>1 DEF Passed
        <4>2. Remasks(call) = call.seat /\ Remasks(call') = call.seat + 1
          BY <1>0, <1>1, <3>3, FollowingCall DEF Remasks
        <4>3. MaskedBy(used, N, call.seat, deck)
          BY <3>1, <4>2 DEF CleanMasks
        <4>4. CleanMasks'
          <5>1. MaskedBy(used, N, call.seat + 1, RemaskStep(deck, call.seat, used[call.seat]))
            BY <1>1, <1>3, <4>3, RemaskExact
          <5> QED BY <3>1, <4>1, <4>2, <5>1 DEF CleanMasks
        <4>5. call'.do = "remask" \/ (call'.do = "final" /\ call'.seat = 0)
          BY <1>1, <3>3 DEF Following, Call
        <4>6. CleanFinal'
          BY <1>1, <4>5 DEF CleanFinal, HasFinal, Passes
        <4> QED BY <1>4, <3>2, <4>4, <4>6
      <3>4. CASE call.do = "final"
        <4>1. deck' = deck /\ wallet'[call.seat][handNo].deck = deck
          BY <1>0, <2>5, <3>4 DEF Passed
        <4>2. Remasks(call) = N /\ Remasks(call') = N
          BY <1>0, <1>1, <3>4, FollowingCall DEF Remasks
        <4>3. CleanMasks'
          BY <3>1, <4>1, <4>2 DEF CleanMasks
        <4>4. \/ call'.do = "final" /\ call'.seat = call.seat + 1
              \/ call.seat = N - 1
          BY <1>1, <3>4 DEF Following, Call
        <4>5. ASSUME NEW s \in Seats, HasFinal(call', s) PROVE wallet'[s][handNo].deck = deck
          <5>1. s < call.seat \/ s = call.seat
            BY <1>1, <4>4, <4>5 DEF HasFinal, Passes
          <5>2. CASE s < call.seat
            <6>1. wallet[s][handNo].deck = deck
              BY <3>4, <5>2 DEF CleanFinal, HasFinal, Secrets
            <6> QED BY <1>1, <2>4, <5>2, <6>1
          <5> QED BY <4>1, <5>1, <5>2
        <4>6. CleanFinal'
          BY <1>0, <4>1, <4>5 DEF CleanFinal, Secrets
        <4> QED BY <1>4, <3>2, <4>3, <4>6
      <3> QED BY <1>6, <2>7, <3>3, <3>4 DEF Passes
    <2> QED BY <2>6, <2>7
  <1> QED BY <1>0, <1>5, <1>6

\* So does a disclosure.
LEMMA CleanReveal ==
    ASSUME Place, Stock, RevealAnswered, st' = "dealing",
           CleanSecrets, CleanMasks, CleanFinal, CleanShared
    PROVE  (CleanSecrets /\ CleanMasks /\ CleanFinal /\ CleanShared)'
  <1> DEFINE told(p) == Own(call.seat, Secrets(call.seat).gen, p)
  <1>1. /\ st = "dealing" /\ call.do \in {"reveal", "open"} /\ Proceed /\ WellCalled(call)
        /\ UNCHANGED <<handNo, deck, wallet, used>>
        /\ shared' = [p \in Positions |-> IF p \in Disclosed(call) THEN shared[p] \cup {told(p)} ELSE shared[p]]
    BY DEF RevealAnswered, Place, walletVars
  <1>2. /\ call' = Following(call) /\ call.seat \in Seats /\ call.to \in Seats
        /\ call.do # "none" /\ call'.do # "none"
    BY <1>1, ProceedEffect DEF WellCalled, Calls
  <1>3. /\ Shuffles(call') = N /\ Remasks(call') = N /\ Shuffles(call) = N /\ Remasks(call) = N
        /\ \A s \in Seats : HasFinal(call, s)
    BY <1>1, <1>2, FollowingCall DEF Shuffles, Remasks, HasFinal, Passes
  <1>4. (CleanSecrets /\ CleanMasks /\ CleanFinal)'
    BY <1>1, <1>3 DEF CleanSecrets, CleanMasks, CleanFinal, Secrets
  <1>5. Secrets(call.seat).gen = used[call.seat]
    BY <1>2, <1>3, Table DEF CleanSecrets, Seats
  <1>6. /\ \A r \in Seats : HoleTellers(call', r) =
                HoleTellers(call, r) \cup (IF call.do = "reveal" /\ r = call.to THEN {call.seat} ELSE {})
        /\ BoardTellers(call') =
                BoardTellers(call) \cup (IF call.do = "open" THEN {call.seat} ELSE {})
    BY <1>1, <1>2, TellersStep
  <1>7. \A T, p : Owns(used, T \cup {call.seat}, p) = Owns(used, T, p) \cup {told(p)}
    BY <1>5 DEF Owns
  <1> HIDE DEF told
  <1>8. ASSUME NEW r \in Seats, NEW p \in Hole(r)
        PROVE  shared'[p] = Owns(used, HoleTellers(call', r), p)
    <2>1. p \in Positions /\ p \notin Board
      BY Layout
    <2>2. shared[p] = Owns(used, HoleTellers(call, r), p)
      BY DEF CleanShared
    <2>3. CASE call.do = "reveal" /\ r = call.to
      BY <1>1, <1>6, <1>7, <2>1, <2>2, <2>3 DEF Disclosed
    <2>4. CASE ~(call.do = "reveal" /\ r = call.to)
      <3>1. p \notin Disclosed(call)
        BY <1>1, <1>2, <2>1, <2>4, Layout DEF Disclosed
      <3>2. HoleTellers(call', r) = HoleTellers(call, r)
        BY <1>6, <2>4
      <3> QED BY <1>1, <2>1, <2>2, <3>1, <3>2
    <2> QED BY <2>3, <2>4
  <1>9. ASSUME NEW p \in Board
        PROVE  shared'[p] = Owns(used, BoardTellers(call'), p)
    <2>1. p \in Positions /\ p \notin Hole(call.to)
      BY <1>2, Layout
    <2>2. shared[p] = Owns(used, BoardTellers(call), p)
      BY DEF CleanShared
    <2>3. CASE call.do = "open"
      BY <1>1, <1>6, <1>7, <1>9, <2>1, <2>2, <2>3 DEF Disclosed
    <2>4. CASE call.do # "open"
      <3>1. p \notin Disclosed(call)
        BY <1>1, <2>1, <2>4 DEF Disclosed
      <3>2. BoardTellers(call') = BoardTellers(call)
        BY <1>6, <2>4
      <3> QED BY <1>1, <2>1, <2>2, <3>1, <3>2
    <2> QED BY <2>3, <2>4
  <1>10. CleanShared'
    BY <1>1, <1>8, <1>9 DEF CleanShared
  <1> QED BY <1>4, <1>10

\* And a card that is read.
LEMMA CleanCard ==
    ASSUME Place, Stock, CardAnswered, st' = "dealing",
           CleanSecrets, CleanMasks, CleanFinal, CleanShared
    PROVE  (CleanSecrets /\ CleanMasks /\ CleanFinal /\ CleanShared)'
  <1>1. /\ st = "dealing" /\ call.do \in {"card", "board"} /\ Proceed /\ WellCalled(call)
        /\ UNCHANGED <<handNo, deck, wallet, used, shared>>
    BY DEF CardAnswered, Place, walletVars
  <1>2. call' = Following(call) /\ call.do # "none" /\ call'.do # "none"
    BY <1>1, ProceedEffect
  <1>3. /\ Shuffles(call') = N /\ Remasks(call') = N /\ Shuffles(call) = N /\ Remasks(call) = N
        /\ \A s \in Seats : HasFinal(call, s)
    BY <1>1, <1>2, FollowingCall DEF Shuffles, Remasks, HasFinal, Passes
  <1>4. (CleanSecrets /\ CleanMasks /\ CleanFinal)'
    BY <1>1, <1>3 DEF CleanSecrets, CleanMasks, CleanFinal, Secrets
  <1>5. (\A r \in Seats : HoleTellers(call', r) = HoleTellers(call, r))
        /\ BoardTellers(call') = BoardTellers(call)
    <2>1. call.do \notin {"reveal", "open"}
      BY <1>1
    <2>2. /\ \A r \in Seats : HoleTellers(call', r) =
                HoleTellers(call, r) \cup (IF call.do = "reveal" /\ r = call.to THEN {call.seat} ELSE {})
          /\ BoardTellers(call') =
                BoardTellers(call) \cup (IF call.do = "open" THEN {call.seat} ELSE {})
      BY <1>1, <1>2, TellersStep
    <2> QED BY <2>1, <2>2
  <1>6. CleanShared'
    BY <1>1, <1>5 DEF CleanShared
  <1> QED BY <1>4, <1>6

\* Every step keeps an undisturbed deal clean, and disturbs it where it must.
LEMMA CleanStep ==
    ASSUME Place, Stock, Provenance, SharedForm, Clean, [Next]_vars
    PROVE  Clean'
  <1> DEFINE AllClean == CleanSecrets /\ CleanMasks /\ CleanFinal /\ CleanShared
  <1>1. disturbed \in BOOLEAN /\ (late # {} => disturbed) /\ (st = "dealing" /\ ~disturbed => AllClean)
    BY DEF Clean
  <1>2. CASE StartDeal \/ NextHand
    <2>1. BeginDeal /\ UNCHANGED <<disturbed, late>>
      BY <1>2 DEF StartDeal, NextHand
    <2>2. AllClean'
      BY <2>1, CleanStart
    <2> QED BY <1>1, <2>1, <2>2 DEF Clean
  <1>3. CASE PassAnswered \/ RevealAnswered \/ CardAnswered
    <2>1. UNCHANGED <<disturbed, late>> /\ st = "dealing"
      BY <1>3 DEF PassAnswered, RevealAnswered, CardAnswered
    <2>2. ASSUME st' = "dealing", ~disturbed' PROVE AllClean'
      <3>1. AllClean
        BY <1>1, <2>1, <2>2
      <3> QED BY <1>3, <2>2, <3>1, CleanPass, CleanReveal, CleanCard
    <2> HIDE DEF AllClean
    <2>3. (st = "dealing" /\ ~disturbed => AllClean)'
      BY <2>2
    <2> QED BY <1>1, <2>1, <2>3 DEF Clean, AllClean
  <1>4. CASE CallFails \/ TableRestarts
    BY <1>4 DEF CallFails, TableRestarts, NoHand, Clean
  <1>5. CASE FinishHand
    <2>1. st' = "over" /\ UNCHANGED <<disturbed, late>>
      BY <1>5 DEF FinishHand, history
    <2> QED BY <1>1, <2>1 DEF Clean
  <1>6. CASE UNCHANGED vars
    <2>1. UNCHANGED <<st, handNo, call, deck, shared, wallet, used, disturbed, late>>
      BY <1>6 DEF vars, tableVars, walletVars, history
    <2> QED BY <1>1, <2>1 DEF Clean, CleanSecrets, CleanMasks, CleanFinal, CleanShared, Secrets
  <1>7. ASSUME NEW m \in late, LateArrives(m) PROVE Clean'
    <2>1. disturbed /\ disturbed' = disturbed
      BY <1>1, <1>7 DEF LateArrives, history
    <2> QED BY <1>1, <2>1 DEF Clean
  <1>8. ASSUME NEW s \in Seats, WalletRestarts(s) PROVE Clean'
    BY <1>8 DEF WalletRestarts, Clean
  <1> QED BY <1>2, <1>3, <1>4, <1>5, <1>6, <1>7, <1>8 DEF Next, DealStep

\* A clean deal can be read: what was told and the reader's own scalar are the masks.
LEMMA CleanReads ==
    ASSUME Place, Provenance, Clean
    PROVE  CleanDealReads
  <1> SUFFICES ASSUME st = "dealing", call.do \in {"card", "board"}, ~disturbed
               PROVE  CanRead(call)
    BY DEF CleanDealReads
  <1> DEFINE t == call.seat
             p == call.pos
  <1>1. CleanSecrets /\ CleanMasks /\ CleanFinal /\ CleanShared
    BY DEF Clean
  <1>2. /\ WellCalled(call) /\ t \in Seats /\ p \in Positions /\ N \in Nat
        /\ Shuffles(call) = N /\ Remasks(call) = N /\ HasFinal(call, t)
    BY Table DEF Place, WellCalled, Calls, Shuffles, Remasks, HasFinal, Passes
  <1>3. Secrets(t).deck = deck /\ Secrets(t).gen = used[t]
    BY <1>1, <1>2 DEF CleanFinal, CleanSecrets, Seats
  <1>4. deck # NoDeck
    <2>1. IsDeck(deck)
      BY DEF Provenance, Traced, TableDeck, Origin
    <2>2. DOMAIN deck # {} /\ DOMAIN NoDeck = {}
      BY <1>2, <2>1 DEF IsDeck, NoDeck
    <2> QED BY <2>2
  <1>5. deck[p].masks = Owns(used, Seats, p)
    <2>1. N..(N - 1) = {} /\ 0..(N - 1) = Seats
      BY <1>2 DEF Seats
    <2>2. MaskedBy(used, N, N, deck)
      BY <1>1, <1>2 DEF CleanMasks
    <2>3. deck[p].masks = Exact(used, N, N, p)
      BY <1>2, <2>2 DEF MaskedBy
    <2> HIDE DEF p
    <2>4. Exact(used, N, N, p) = Owns(used, Seats, p)
      BY <2>1 DEF Exact, Globals
    <2> QED BY <2>3, <2>4
  <1>6. shared[p] = Owns(used, Seats, p) \/ shared[p] = Owns(used, Seats \ {t}, p)
    <2>1. CASE call.do = "card"
      <3>1. t = call.to /\ p \in Hole(t)
        BY <1>2, <2>1 DEF WellCalled
      <3>2. HoleTellers(call, t) = Seats \ {t}
        BY <1>2, <2>1, <3>1, Table DEF HoleTellers
      <3> QED BY <1>1, <1>2, <3>1, <3>2 DEF CleanShared
    <2>2. CASE call.do = "board"
      <3>1. p \in Board /\ BoardTellers(call) = Seats
        BY <1>2, <2>2 DEF WellCalled, BoardTellers
      <3> QED BY <1>1, <3>1 DEF CleanShared
    <2> QED BY <2>1, <2>2
  <1>7. \A o \in Seats : Own(o, used[o], p)[1] = o
    BY <1>2, OwnNames
  <1>8. {x \in shared[p] : x[1] # t} \cup {Own(t, used[t], p)} = Owns(used, Seats, p)
    <2> HIDE DEF t, p
    <2> QED BY <1>2, <1>6, <1>7 DEF Owns
  <1> QED BY <1>3, <1>4, <1>5, <1>8 DEF CanRead, Readable

-----------------------------------------------------------------------------
(* The invariant and what follows from it *)

\* With no hand on the table, nobody has touched the deck.
Idle == st = "none" => deck = BaseDeck

\* The deck of a deal that ended without a hand is put back.
LEMMA IdleStep ==
    ASSUME Idle, Place, [Next]_vars
    PROVE  Idle'
  <1>1. CASE StartDeal \/ NextHand \/ CallFails \/ TableRestarts
    BY <1>1 DEF StartDeal, NextHand, CallFails, TableRestarts, BeginDeal, NoHand, Idle
  <1>2. CASE PassAnswered \/ RevealAnswered \/ CardAnswered
    <2>1. st = "dealing" /\ Proceed
      BY <1>2 DEF PassAnswered, RevealAnswered, CardAnswered
    <2>2. st' # "none"
      BY <2>1, ProceedEffect
    <2> QED BY <2>2 DEF Idle
  <1>3. CASE FinishHand
    BY <1>3 DEF FinishHand, Idle
  <1>4. CASE UNCHANGED <<st, deck>>
    BY <1>4 DEF Idle
  <1>5. CASE UNCHANGED vars
    BY <1>4, <1>5 DEF vars, tableVars
  <1>6. ASSUME NEW m \in late, LateArrives(m) PROVE Idle'
    BY <1>4, <1>6 DEF LateArrives, tableVars
  <1>7. ASSUME NEW s \in Seats, WalletRestarts(s) PROVE Idle'
    BY <1>4, <1>7 DEF WalletRestarts, tableVars
  <1> QED BY <1>1, <1>2, <1>3, <1>5, <1>6, <1>7 DEF Next, DealStep

DealInv ==
    /\ Place /\ Stock /\ Fresh /\ Provenance
    /\ SharedForm /\ LearnedForm /\ CardsRead /\ Clean /\ Idle

\* Nothing has been drawn, dealt or told.
LEMMA DealInit ==
    ASSUME Init
    PROVE  DealInv
  <1>1. /\ st = "none" /\ handNo = 0 /\ call = NoCall /\ deck = BaseDeck /\ shared = NothingShared
        /\ cards = NoCards /\ wallet = [s \in Seats |-> [h \in Hands |-> NoSecrets]] /\ late = {}
        /\ born = [s \in Seats |-> 0] /\ restarts = 0 /\ process = 0 /\ learned = {}
        /\ used = NothingUsed /\ played = <<>> /\ disturbed = FALSE
    BY DEF Init
  <1>2. Place
    <2>1. \A s \in Seats : born[s] = 0
      BY <1>1
    <2> QED BY <1>1, <2>1, FirstCalls, Numbers DEF Place
  <1>3. /\ NoSecrets.gen = 0 /\ NoSecrets.perm \in Perms /\ NoSecrets.deck = NoDeck
        /\ DOMAIN NoSecrets = {"gen", "perm", "deck"}
    BY DeckConstants DEF NoSecrets
  <1>4. \A s \in Seats, h \in Hands : wallet[s][h] = NoSecrets
    BY <1>1
  <1>5. Stock
    <2>1. Shape(wallet)
      BY <1>1, <1>3 DEF Shape
    <2>2. \A s \in Seats : Drawn(s) = {}
      BY <1>3, <1>4 DEF Drawn
    <2>3. Cardinality({}) = 0
      BY FS_EmptySet
    <2>4. \A s \in Seats : born[s] <= Cardinality(Drawn(s)) + (MaxHands + 1) * restarts
      BY <1>1, <2>2, <2>3, Numbers
    <2>5. born \in [Seats -> Nat] /\ \A s \in Seats : 0 \in 0..born[s]
      BY <1>1
    <2> QED BY <1>3, <1>4, <2>1, <2>4, <2>5 DEF Stock
  <1>6. Fresh
    <2>1. played \in Seq(DealtHands) /\ 1..Len(played) = {}
      BY <1>1
    <2>2. UsedHere
      BY <1>1 DEF UsedHere, HasShuffled
    <2> QED BY <2>1, <2>2 DEF Fresh, Past, HandsAreFresh
  <1>7. Provenance
    <2>1. PICK f : f \in Perms
      BY DeckConstants
    <2>2. PICK P \in [Seats -> [Gens -> Perms]] : TRUE
      <3>1. [s \in Seats |-> [g \in Gens |-> f]] \in [Seats -> [Gens -> Perms]]
        BY <2>1
      <3> QED BY <3>1
    <2>3. TableDeck(P)
      BY <1>1 DEF TableDeck
    <2>4. LateDecks(P)
      BY <1>1 DEF LateDecks
    <2>5. WalletDecks(P) /\ Draws(P)
      BY <1>3, <1>4 DEF WalletDecks, Draws
    <2> QED BY <2>3, <2>4, <2>5 DEF Provenance, Traced
  <1>8. SharedForm /\ LearnedForm
    BY <1>1 DEF SharedForm, LearnedForm, NothingShared
  <1>9. CardsRead
    BY <1>1 DEF CardsRead, NoCards
  <1>10. Clean /\ Idle
    BY <1>1 DEF Clean, Idle
  <1> QED BY <1>2, <1>5, <1>6, <1>7, <1>8, <1>9, <1>10 DEF DealInv

\* Every step keeps the invariant.
LEMMA DealStepKeeps ==
    ASSUME DealInv, [Next]_vars
    PROVE  DealInv'
  <1>1. /\ Place /\ Stock /\ Fresh /\ Provenance
        /\ SharedForm /\ LearnedForm /\ CardsRead /\ Clean /\ Idle
    BY DEF DealInv
  <1>2. Place' /\ WalletMove
    BY <1>1, PlaceStep
  <1>3. Stock' /\ GenMove
    <2>1. restarts \in Nat /\ restarts' \in Nat
      BY <1>1, <1>2, Numbers DEF Place
    <2> QED BY <1>1, <1>2, <2>1, StockStep
  <1>4. Fresh'
    BY <1>1, <1>2, <1>3, FreshStep
  <1>5. Provenance'
    BY <1>1, <1>2, <1>3, ProvenanceStep
  <1>6. SharedForm' /\ LearnedForm'
    BY <1>1, DisclosedStep
  <1>7. CardsRead'
    BY <1>1, CardsStep
  <1>8. Clean'
    BY <1>1, CleanStep
  <1>9. Idle'
    BY <1>1, IdleStep
  <1> QED BY <1>2, <1>3, <1>4, <1>5, <1>6, <1>7, <1>8, <1>9 DEF DealInv

\* The masks a deck may carry are scalars there can be.
LEMMA LooseScalars ==
    ASSUME NEW a \in 0..N, NEW b \in 0..N, NEW p \in Positions
    PROVE  Loose(a, b, p) \subseteq Scalars
  <1> SUFFICES ASSUME NEW x \in Loose(a, b, p) PROVE x \in Scalars
    OBVIOUS
  <1>1. /\ 0..(a - 1) \subseteq Seats /\ 0..(b - 1) \subseteq Seats
        /\ Everywhere \in 0..DeckSize /\ p \in 0..DeckSize
    BY Table DEF Seats, Positions, Everywhere
  <1>2. CASE \E o \in 0..(a - 1), g \in Gens : x = Global(o, g)
    BY <1>1, <1>2 DEF Global, Scalars, Gens
  <1>3. CASE \E o \in 0..(b - 1), g \in Gens : x = InverseOf(Global(o, g))
    <2>1. PICK o \in 0..(b - 1), g \in Gens : x = <<o, g, Everywhere, -1>>
      BY <1>3, ScalarNames
    <2> QED BY <1>1, <2>1 DEF Scalars, Gens
  <1>4. CASE \E o \in 0..(b - 1), g \in Gens : x = Own(o, g, p)
    BY <1>1, <1>4 DEF Own, Scalars, Gens
  <1> QED BY <1>2, <1>3, <1>4 DEF Loose

\* A deck of known origin is a whole deck with scalars there can be.
LEMMA OriginDeck ==
    ASSUME NEW P, NEW G, NEW a \in 0..N, NEW b \in 0..N, NEW d, Origin(P, G, a, b, d)
    PROVE  IsDealDeck(d)
  BY LooseScalars DEF Origin, MasksOf, IsDealDeck

\* The type invariant is a consequence.
LEMMA DealTypes ==
    ASSUME DealInv
    PROVE  TypeOK
  <1>1. /\ Place /\ Stock /\ Provenance /\ SharedForm /\ LearnedForm /\ CardsRead /\ Idle
    BY DEF DealInv
  <1>2. call.do \in Kinds /\ call.seat \in Seats /\ call.to \in Seats /\ call.pos \in Positions
    BY <1>1 DEF Place, WellCalled, Calls
  <1>3. PICK P \in [Seats -> [Gens -> Perms]] : Traced(P)
    BY <1>1 DEF Provenance
  <1>4. IsDealDeck(deck)
    <2>1. CASE st = "none"
      BY <1>1, <2>1 DEF Idle, IsDealDeck, IsDeck, BaseDeck
    <2>2. CASE st # "none"
      <3>1. Origin(P, used, Shuffles(call), Remasks(call), deck)
        BY <1>3, <2>2 DEF Traced, TableDeck
      <3>2. Shuffles(call) \in 0..N /\ Remasks(call) \in 0..N
        BY <1>2, Table DEF Shuffles, Remasks, Seats
      <3> QED BY <3>1, <3>2, OriginDeck
    <2> QED BY <2>1, <2>2
  <1>5. \A s \in Seats, g \in Gens, p \in Positions : Own(s, g, p) \in Scalars
    <2>1. \A p \in Positions : p \in 0..DeckSize
      BY Table DEF Positions
    <2> QED BY <2>1 DEF Own, Scalars, Gens
  <1>6. \A p \in Positions : shared[p] \subseteq Scalars /\ cards[p] \in Positions \cup {-1}
    BY <1>1, <1>5 DEF SharedForm, CardsRead
  <1>7. learned \subseteq Scalars
    BY <1>1, <1>5 DEF LearnedForm
  <1>8. ASSUME NEW s \in Seats, NEW h \in Hands
        PROVE  /\ wallet[s][h].gen \in 0..born[s]
               /\ wallet[s][h].deck = NoDeck \/ IsDealDeck(wallet[s][h].deck)
    <2>1. wallet[s][h].gen \in 0..born[s]
      BY <1>1 DEF Stock
    <2>2. CASE Holds(P, h, wallet[s][h].deck)
      <3>1. PICK G \in [Seats -> Gens], a \in 1..N, b \in 0..N : Origin(P, G, a, b, wallet[s][h].deck)
        BY <2>2 DEF Holds
      <3>2. a \in 0..N
        BY <3>1, Table
      <3> QED BY <2>1, <3>1, <3>2, OriginDeck
    <2> QED BY <1>3, <2>1, <2>2 DEF Traced, WalletDecks
  <1>9. st \in {"none", "dealing", "playing", "over"} /\ handNo \in Hands
    BY <1>1 DEF Place
  <1> QED BY <1>2, <1>4, <1>6, <1>7, <1>8, <1>9 DEF TypeOK

-----------------------------------------------------------------------------
(* Theorems *)

\* Every deck in the system, the table's, the wallets' and the ones still on their
\* way, can be traced to the secrets that shuffled it (Deal, agent/deal.go).
THEOREM DealInvariant == Spec => []DealInv
  <1>1. Init => DealInv
    BY DealInit
  <1>2. DealInv /\ [Next]_vars => DealInv'
    BY DealStepKeeps
  <1> QED BY <1>1, <1>2, PTL DEF Spec

\* Every call names a seat and a position that exist and every deck is a whole deck,
\* and a wallet draws no more secrets than hands and restarts allow.
THEOREM DealTypeTheorem == Spec => []TypeOK
  <1>1. DealInv => TypeOK
    BY DealTypes
  <1> QED BY <1>1, DealInvariant, PTL

\* A hand that starts has the cards of the deck all seats contributed to, none of
\* them twice, whatever was retried, restarted or delivered late (Deal).
THEOREM DealtRightTheorem == Spec => []DealtRight
  <1>1. DealInv => DealtRight
    BY DealtWell DEF DealInv
  <1> QED BY <1>1, DealInvariant, PTL

\* The scalars disclosed to one table process clear no hole card and no undealt card
\* of a deck that every seat has shuffled (handleDealReveal).  Hole cards reach the
\* table all the same, in their owners' answers (see DisclosuresOpenBoardOnly).
THEOREM DisclosuresTheorem == Spec => []DisclosuresOpenBoardOnly
  <1>1. DealInv => DisclosuresOpenBoardOnly
    BY DisclosedTooLittle DEF DealInv
  <1> QED BY <1>1, DealInvariant, PTL

\* While nothing is abandoned and nothing restarts, every card a seat is asked to
\* read can be read (Deal steps 2 to 6, handleDealCard).
THEOREM CleanDealReadsTheorem == Spec => []CleanDealReads
  <1>1. DealInv => CleanDealReads
    BY CleanReads DEF DealInv
  <1> QED BY <1>1, DealInvariant, PTL

\* No two hands of one table process were shuffled with the same secrets of any seat
\* (handIDLocked).
THEOREM HandsAreFreshTheorem == Spec => []HandsAreFresh
  <1>1. DealInv => HandsAreFresh
    BY DEF DealInv, Fresh
  <1> QED BY <1>1, DealInvariant, PTL
=============================================================================
