--------------------------- MODULE PeerHandProofs ---------------------------
(***************************************************************************)
(* What the deal without a coordinator keeps, for any number of seats,     *)
(* cards, permutations and catch-ups, in whatever order, and however often,*)
(* the copies arrive: every deck is whole, and a card that a seat can read *)
(* is the one the committed permutations put there.  A deal that nobody    *)
(* had to catch up on comes to rest on one of two known decks.             *)
(*                                                                         *)
(* The invariant follows a deck from hand to hand.  A shuffled deck is the *)
(* k-th of the chain of shuffles and still bears the mask of the seat that *)
(* shuffled it last, which no disclosed scalar removes; a remasked deck,   *)
(* even one remasked out of turn or twice, has the cards of the last       *)
(* shuffle.                                                                *)
(*                                                                         *)
(* Without a catch-up every turn is taken once: ChainInv says how many of  *)
(* the 2N turns were taken, and where the one copy that calls for the next *)
(* is, in an inbox or with the handler that took it out.                   *)
(***************************************************************************)
EXTENDS PeerHand, MaskedDeckProofs

\* The deck that seat s has just shuffled.
ShuffledBy(s, d) ==
    /\ d = AfterTurn[s + 1]
    /\ \A p \in Positions :
          /\ Global(s, 1) \in d[p].masks
          /\ d[p].masks \subseteq {Global(o, 1) : o \in 0..s}

\* A deck with the cards of the last shuffle, whatever masks them.
RightCards(d) == \A p \in Positions : d[p].card = AfterShuffles[p].card

\* A message that some seat's turn can produce.
Lawful(m) ==
    /\ m.seat \in Seats /\ IsDeck(m.deck)
    /\ \/ m.kind = "shuffle" /\ ShuffledBy(m.seat, m.deck)
       \/ m.kind = "remask" /\ RightCards(m.deck)

Shape ==
    /\ perm \in [Seats -> Perms]
    /\ DOMAIN deck = Seats /\ DOMAIN jobs = Seats /\ DOMAIN log = Seats /\ DOMAIN inbox = Seats
    /\ \A s \in Seats : log[s] \in Seq(ToSet(log[s]))
    /\ replays \in 0..MaxReplays

Mail == \A s \in Seats : \A m \in inbox[s] \cup ToSet(log[s]) : Lawful(m)

Held ==
    \A s \in Seats :
        \/ deck[s] = NoDeck
        \/ IsDeck(deck[s]) /\ (RightCards(deck[s]) \/ \E o \in Seats : ShuffledBy(o, deck[s]))

\* What a handler has yet to do; only seat 0 reads its deck to remask it, and it
\* then holds no deck but the last shuffle's or a remasked one.
Work ==
    \A s \in Seats : \A j \in jobs[s] :
        \/ j.do = "read" /\ s = 0 /\ IsDeck(deck[s]) /\ RightCards(deck[s])
        \/ j.do = "set" /\ Lawful(j.msg) /\ j.msg.kind = "remask" /\ j.msg.seat = s
        \/ j.do = "send" /\ Lawful(j.msg)

\* What a seat is told of a position are scalars of that position.
Told ==
    \A s \in Seats, p \in Positions : disclosed[s][p] \subseteq {Mine(o, p) : o \in Seats}

PeerInv == Shape /\ Mail /\ Held /\ Work /\ Told

(* The stages of a deal that nobody had to catch up on *)

\* The seat that takes the i-th turn, and what it sends when it has.
Turn(i) == IF i < N THEN i ELSE i - N
Link(i) == Message(IF i < N THEN "shuffle" ELSE "remask", Turn(i), AfterTurn[i + 1])

\* i turns were taken and sent: no copy is of anything else, the copy that called
\* for a turn is gone from the seat that took it, and a seat sent what it owed.
Posted(i) ==
    /\ \A s \in Seats : \A m \in inbox[s] : \E l \in 0..(i - 1) : m = Link(l)
    /\ \A l \in 0..(i - 2) : Link(l) \notin inbox[Turn(l + 1)]
    /\ \A s \in Seats : \A m \in ToSet(log[s]) : \E l \in 0..(i - 1) : m = Link(l) /\ Turn(l) = s
    /\ i # 0 => log[0] # <<>>

\* The next turn waits for the copy of the last one, or is under way in one handler
\* of its seat; seat 0 opens the remask in two regions of its lock.
Job(i, phase) == [do |-> phase, msg |-> IF phase = "read" THEN NoMessage ELSE Link(i)]

Underway(i, phase) ==
    \/ /\ phase = "wait"
       /\ \A s \in Seats : jobs[s] = {}
       /\ i \notin {0, 2 * N} => Link(i - 1) \in inbox[Turn(i)]
    \/ /\ phase \in {"read", "set", "send"} /\ i # 2 * N
       /\ \A s \in Seats : jobs[s] = IF s = Turn(i) THEN {Job(i, phase)} ELSE {}
       /\ i # 0 => Link(i - 1) \notin inbox[Turn(i)]
       /\ phase # "send" => i = N
       /\ phase = "read" => deck[0] = AfterShuffles

\* Once all turns are taken, a seat that has read the last copy holds the final deck
\* or the last shuffle's; seat 0 read the latter before it remasked.
Settled(i) ==
    i = 2 * N =>
        \A s \in Seats :
            \/ Link(2 * N - 1) \in inbox[s]
            \/ deck[s] = FinalDeck
            \/ s # 0 /\ deck[s] = AfterShuffles

Stage(i, phase) == Posted(i) /\ Underway(i, phase) /\ Settled(i)

Phases == {"wait", "read", "set", "send"}

ChainInv == replays = 0 => \E i \in 0..(2 * N), phase \in Phases : Stage(i, phase)

-----------------------------------------------------------------------------
\* The chain of turns is defined: there is no first length at which it is not.
LEMMA ChainDefined ==
    /\ AfterTurn[0] = BaseDeck
    /\ \A s \in Seats : AfterTurn[s + 1] = ShuffleStep(AfterTurn[s], s, 1, perm[s])
    /\ \A s \in Seats : AfterTurn[N + s + 1] = RemaskStep(AfterTurn[N + s], s, 1)
  <1> DEFINE Step(f, k) == IF k = 0 THEN BaseDeck
                           ELSE IF k <= N THEN ShuffleStep(f[k - 1], k - 1, 1, perm[k - 1])
                           ELSE RemaskStep(f[k - 1], k - 1 - N, 1)
             Chain(f, n) == f = [k \in 0..n |-> Step(f, k)]
             Bad == {n \in Nat : ~\E f : Chain(f, n)}
  <1>1. Bad = {}
    <2> SUFFICES ASSUME Bad # {} PROVE FALSE
      OBVIOUS
    <2>1. PICK n \in Bad : \A y \in Bad : n <= y
      <3>1. Bad \subseteq Nat
        OBVIOUS
      <3> HIDE DEF Bad
      <3> QED BY <3>1, LeastMember
    <2>2. n \in Nat /\ ~\E f : Chain(f, n)
      OBVIOUS
    <2>3. n # 0
      <3> DEFINE f == [k \in 0..0 |-> BaseDeck]
      <3>1. \A k \in 0..0 : Step(f, k) = BaseDeck
        OBVIOUS
      <3>2. Chain(f, 0)
        BY <3>1
      <3> QED BY <2>2, <3>2
    <2>4. n - 1 \in Nat /\ n - 1 \notin Bad
      BY <2>1, <2>2, <2>3
    <2>5. PICK f : Chain(f, n - 1)
      BY <2>4
    <2> DEFINE g == [k \in 0..n |-> Step(f, k)]
    <2>6. \A k \in 0..(n - 1) : g[k] = f[k]
      <3> SUFFICES ASSUME NEW k \in 0..(n - 1) PROVE g[k] = f[k]
        OBVIOUS
      <3>1. k \in 0..n
        BY <2>2
      <3> HIDE DEF Step
      <3> QED BY <2>5, <3>1
    <2>7. \A k \in 0..n : Step(g, k) = Step(f, k)
      <3> SUFFICES ASSUME NEW k \in 0..n PROVE Step(g, k) = Step(f, k)
        OBVIOUS
      <3>1. CASE k = 0
        BY <3>1
      <3>2. CASE k # 0
        <4>1. k - 1 \in 0..(n - 1)
          BY <2>2, <3>2
        <4>2. g[k - 1] = f[k - 1]
          BY <2>6, <4>1
        <4> HIDE DEF g
        <4> QED BY <4>2
      <3> QED BY <3>1, <3>2
    <2>8. Chain(g, n)
      <3> HIDE DEF Step
      <3> QED BY <2>7
    <2> QED BY <2>2, <2>8
  <1>2. 2 * N \in Nat /\ \E f : Chain(f, 2 * N)
    <2>1. 2 * N \in Nat
      BY Table
    <2> HIDE DEF Chain
    <2> QED BY <1>1, <2>1
  <1>3. AfterTurn = CHOOSE f : Chain(f, 2 * N)
    BY DEF AfterTurn
  <1>4. Chain(AfterTurn, 2 * N)
    <2> HIDE DEF Chain
    <2> QED BY <1>2, <1>3
  <1>5. ASSUME NEW k \in 0..(2 * N) PROVE AfterTurn[k] = Step(AfterTurn, k)
    <2> HIDE DEF Step
    <2> QED BY <1>4
  <1>6. AfterTurn[0] = BaseDeck
    <2>1. 0 \in 0..(2 * N)
      BY Table
    <2> QED BY <1>5, <2>1
  <1>7. ASSUME NEW s \in Seats
        PROVE  AfterTurn[s + 1] = ShuffleStep(AfterTurn[s], s, 1, perm[s])
    <2>1. PICK k \in 0..(2 * N) : k = s + 1 /\ k # 0 /\ k <= N /\ k - 1 = s
      <3>1. s + 1 \in 0..(2 * N) /\ s + 1 # 0 /\ s + 1 <= N /\ (s + 1) - 1 = s
        BY Table DEF Seats
      <3> QED BY <3>1
    <2>2. Step(AfterTurn, k) = ShuffleStep(AfterTurn[k - 1], k - 1, 1, perm[k - 1])
      BY <2>1, Zenon
    <2> QED BY <1>5, <2>1, <2>2, Zenon
  <1>8. ASSUME NEW s \in Seats
        PROVE  AfterTurn[N + s + 1] = RemaskStep(AfterTurn[N + s], s, 1)
    <2>1. PICK k \in 0..(2 * N) : /\ k = N + s + 1 /\ k # 0 /\ ~(k <= N)
                                  /\ k - 1 = N + s /\ k - 1 - N = s
      <3>1. /\ N + s + 1 \in 0..(2 * N) /\ N + s + 1 # 0 /\ ~(N + s + 1 <= N)
            /\ (N + s + 1) - 1 = N + s /\ (N + s + 1) - 1 - N = s
        BY Table DEF Seats
      <3> QED BY <3>1
    <2>2. Step(AfterTurn, k) = RemaskStep(AfterTurn[k - 1], k - 1 - N, 1)
      BY <2>1, Zenon
    <2> QED BY <1>5, <2>1, <2>2, Zenon
  <1> QED BY <1>6, <1>7, <1>8

-----------------------------------------------------------------------------
\* Seat 0 shuffles the base deck, and any other seat what the seat before it did.
LEMMA ChainStep ==
    ASSUME NEW s \in Seats, perm \in [Seats -> Perms],
           NEW d, IsDeck(d), d = AfterTurn[s],
           \A p \in Positions : d[p].masks \subseteq {Global(o, 1) : o \in 0..(s - 1)}
    PROVE  IsDeck(ShuffleStep(d, s, 1, perm[s])) /\ ShuffledBy(s, ShuffleStep(d, s, 1, perm[s]))
  <1> DEFINE out == ShuffleStep(d, s, 1, perm[s])
  <1>1. perm[s] \in Perms
    OBVIOUS
  <1>2. /\ IsDeck(out)
        /\ \A q \in Positions : \E i \in Positions : out[q].masks = Mask(d[i].masks, Global(s, 1))
    <2>1. IsDeck(out)
      BY <1>1, ShuffleDeck
    <2>2. ASSUME NEW q \in Positions
          PROVE  \E i \in Positions : out[q].masks = Mask(d[i].masks, Global(s, 1))
      <3> DEFINE at == From(perm[s], q)
      <3>1. at \in Positions /\ out[q].masks = Mask(d[at].masks, Global(s, 1))
        BY <1>1, ShuffleDeck
      <3> HIDE DEF at, out
      <3> QED BY <3>1
    <2> QED BY <2>1, <2>2
  <1>3. out = AfterTurn[s + 1]
    BY ChainDefined
  <1> HIDE DEF out
  <1>4. ASSUME NEW i \in Positions
        PROVE  Mask(d[i].masks, Global(s, 1)) = d[i].masks \cup {Global(s, 1)}
    <2>1. ASSUME NEW y \in d[i].masks PROVE [y EXCEPT ![4] = 1] # Global(s, 1)
      <3>1. PICK o \in 0..(s - 1) : y = Global(o, 1)
        BY <2>1
      <3>2. o # s
        BY Table
      <3>3. [y EXCEPT ![4] = 1] = y
        BY <3>1, ScalarNames
      <3> QED BY <3>1, <3>2, <3>3, ScalarNames
    <2>2. Global(s, 1)[4] = 1 /\ [Global(s, 1) EXCEPT ![4] = 1] = Global(s, 1)
      BY ScalarNames
    <2> QED BY <2>1, <2>2, MaskAdds
  <1>5. 0..(s - 1) \subseteq 0..s /\ s \in 0..s
    BY Table
  <1>6. ASSUME NEW q \in Positions
        PROVE  Global(s, 1) \in out[q].masks /\ out[q].masks \subseteq {Global(o, 1) : o \in 0..s}
    <2>1. PICK i \in Positions : out[q].masks = Mask(d[i].masks, Global(s, 1))
      BY <1>2
    <2>2. out[q].masks = d[i].masks \cup {Global(s, 1)}
      BY <1>4, <2>1
    <2>3. d[i].masks \subseteq {Global(o, 1) : o \in 0..(s - 1)}
      OBVIOUS
    <2> QED BY <1>5, <2>2, <2>3
  <1> QED BY <1>2, <1>3, <1>6 DEF ShuffledBy, out

\* The first shuffle.
LEMMA FirstShuffle ==
    ASSUME perm \in [Seats -> Perms]
    PROVE  \A out \in Shuffled(0, BaseDeck) : IsDeck(out) /\ ShuffledBy(0, out)
  <1>1. IsDeck(BaseDeck) /\ \A p \in Positions : BaseDeck[p].masks = {}
    BY DEF BaseDeck, IsDeck
  <1>2. BaseDeck = AfterTurn[0]
    BY ChainDefined
  <1> QED BY <1>1, <1>2, Table, ChainStep DEF Shuffled

\* The later ones.
LEMMA NextShuffle ==
    ASSUME perm \in [Seats -> Perms], NEW s \in Seats, NEW o \in Seats, o = s - 1,
           NEW d, IsDeck(d), ShuffledBy(o, d)
    PROVE  \A out \in Shuffled(s, d) : IsDeck(out) /\ ShuffledBy(s, out)
  <1>1. o + 1 = s
    BY Table
  <1>2. d = AfterTurn[s] /\ \A p \in Positions : d[p].masks \subseteq {Global(x, 1) : x \in 0..(s - 1)}
    BY <1>1, Zenon DEF ShuffledBy
  <1> QED BY <1>2, ChainStep DEF Shuffled

\* The last seat's shuffle has the cards of the last shuffle.
LEMMA LastShuffle ==
    ASSUME NEW d, ShuffledBy(N - 1, d)
    PROVE  RightCards(d)
  <1>1. N - 1 + 1 = N
    BY Table
  <1>2. d = AfterTurn[N]
    BY <1>1, Zenon DEF ShuffledBy
  <1> QED BY <1>2 DEF RightCards, AfterShuffles

\* Remasking keeps the cards.
LEMMA RemaskedCards ==
    ASSUME NEW s, NEW d, IsDeck(d), RightCards(d)
    PROVE  \A out \in Remasked(s, d) : IsDeck(out) /\ RightCards(out)
  BY RemaskDeck DEF Remasked, RightCards

-----------------------------------------------------------------------------
\* The chain depends on the permutations alone, which nobody changes.
LEMMA SamePerms ==
    ASSUME perm' = perm
    PROVE  /\ \A s, d : ShuffledBy(s, d)' <=> ShuffledBy(s, d)
           /\ \A d : RightCards(d)' <=> RightCards(d)
           /\ \A m : Lawful(m)' <=> Lawful(m)
  <1>1. AfterTurn' = AfterTurn
    BY DEF AfterTurn
  <1>2. AfterShuffles' = AfterShuffles
    BY <1>1 DEF AfterShuffles
  <1>3. \A s, d : ShuffledBy(s, d)' <=> ShuffledBy(s, d)
    BY <1>1 DEF ShuffledBy
  <1>4. \A d : RightCards(d)' <=> RightCards(d)
    BY <1>2 DEF RightCards
  <1> QED BY <1>3, <1>4 DEF Lawful

\* Nothing was dealt, sent or told yet.
LEMMA InitPeerInv == Init => PeerInv
  <1> SUFFICES ASSUME Init PROVE PeerInv
    OBVIOUS
  <1>1. \A s \in Seats : log[s] = <<>> /\ ToSet(log[s]) = {} /\ log[s] \in Seq(ToSet(log[s]))
    BY DEF Init, ToSet
  <1>2. Shape
    BY <1>1, PeerConstants DEF Init, Shape
  <1>3. Mail /\ Held /\ Work
    BY <1>1 DEF Init, Mail, Held, Work
  <1>4. Told
    BY DEF Init, Told
  <1> QED BY <1>2, <1>3, <1>4 DEF PeerInv

\* A turn taken on a lawful deck: the seat holds its own output and will send it.
LEMMA ContributeInv ==
    ASSUME PeerInv, NEW kind, NEW s \in Seats, NEW outs, Contribute(kind, s, outs),
           s # 0 \/ jobs[0] = {},
           \A out \in outs : Lawful(Message(kind, s, out)),
           UNCHANGED <<perm, disclosed, log, replays>>,
           DOMAIN inbox' = Seats /\ \A r \in Seats : inbox'[r] \subseteq inbox[r]
    PROVE  PeerInv'
  <1>1. Shape /\ Mail /\ Held /\ Work /\ Told
    BY DEF PeerInv
  <1>2. PICK out \in outs : /\ deck' = [deck EXCEPT ![s] = out]
                            /\ jobs' = [jobs EXCEPT ![s] = @ \cup {Send(kind, s, out)}]
    BY DEF Contribute
  <1>3. /\ DOMAIN deck' = Seats /\ deck'[s] = out
        /\ DOMAIN jobs' = Seats /\ jobs'[s] = jobs[s] \cup {Send(kind, s, out)}
        /\ \A r \in Seats \ {s} : deck'[r] = deck[r] /\ jobs'[r] = jobs[r]
    BY <1>1, <1>2 DEF Shape
  <1>4. /\ Lawful(Message(kind, s, out))
        /\ Send(kind, s, out).do = "send" /\ Send(kind, s, out).msg = Message(kind, s, out)
    BY DEF Send
  <1>5. IsDeck(out) /\ (RightCards(out) \/ ShuffledBy(s, out))
    BY <1>4 DEF Lawful, Message
  <1>6. Shape'
    BY <1>1, <1>3 DEF Shape
  <1>7. Mail'
    BY <1>1, SamePerms DEF Mail
  <1>8. Held'
    BY <1>1, <1>3, <1>5, SamePerms DEF Held
  <1>9. Work'
    <2> SUFFICES ASSUME NEW r \in Seats, NEW j \in jobs'[r]
                 PROVE  \/ j.do = "read" /\ r = 0 /\ IsDeck(deck'[r]) /\ RightCards(deck'[r])
                        \/ j.do = "set" /\ Lawful(j.msg) /\ j.msg.kind = "remask" /\ j.msg.seat = r
                        \/ j.do = "send" /\ Lawful(j.msg)
      BY SamePerms DEF Work
    <2>1. CASE r # s
      BY <1>1, <1>3, <2>1 DEF Work
    <2>2. CASE r = s /\ j = Send(kind, s, out)
      BY <1>4, <2>2
    <2>3. CASE r = s /\ j \in jobs[s]
      BY <1>1, <1>3, <2>3 DEF Work
    <2> QED BY <1>3, <2>1, <2>2, <2>3
  <1>10. Told'
    BY <1>1 DEF Told
  <1> QED BY <1>6, <1>7, <1>8, <1>9, <1>10 DEF PeerInv

\* Seat 0 opens the chain, once: it has sent nothing and nothing waits.
LEMMA StartShuffleInv ==
    ASSUME PeerInv, StartShuffle
    PROVE  PeerInv'
  <1>1. perm \in [Seats -> Perms] /\ DOMAIN inbox = Seats
    BY DEF PeerInv, Shape
  <1>2. \A out \in Shuffled(0, BaseDeck) : Lawful(Message("shuffle", 0, out))
    BY <1>1, FirstShuffle, Table DEF Lawful, Message
  <1> QED BY <1>1, <1>2, Table, ContributeInv DEF StartShuffle

\* The deck of a last shuffle or last remask becomes the seat's own.
LEMMA SetDeckInv ==
    ASSUME PeerInv, NEW s \in Seats, NEW d, IsDeck(d), RightCards(d), SetDeck(s, d),
           UNCHANGED <<perm, disclosed, log, replays>>,
           DOMAIN jobs' = Seats,
           \A r \in Seats : \A j \in jobs'[r] : j \in jobs[r] \/ (r = 0 /\ r = s /\ j = ReadDeck),
           DOMAIN inbox' = Seats /\ \A r \in Seats : inbox'[r] \subseteq inbox[r]
    PROVE  PeerInv'
  <1>1. Shape /\ Mail /\ Held /\ Work /\ Told
    BY DEF PeerInv
  <1>2. DOMAIN deck' = Seats /\ deck'[s] = d /\ \A r \in Seats \ {s} : deck'[r] = deck[r]
    BY <1>1 DEF Shape, SetDeck
  <1>4. Shape'
    BY <1>1, <1>2 DEF Shape
  <1>5. Mail'
    BY <1>1, SamePerms DEF Mail
  <1>6. Held'
    BY <1>1, <1>2, SamePerms DEF Held
  <1>7. Work'
    <2> SUFFICES ASSUME NEW r \in Seats, NEW j \in jobs'[r]
                 PROVE  \/ j.do = "read" /\ r = 0 /\ IsDeck(deck'[r]) /\ RightCards(deck'[r])
                        \/ j.do = "set" /\ Lawful(j.msg) /\ j.msg.kind = "remask" /\ j.msg.seat = r
                        \/ j.do = "send" /\ Lawful(j.msg)
      BY SamePerms DEF Work
    <2>1. ReadDeck.do = "read"
      BY DEF ReadDeck
    <2>2. CASE j \in jobs[r]
      BY <1>1, <1>2, <2>2 DEF Work
    <2>3. CASE r = 0 /\ r = s /\ j = ReadDeck
      BY <1>2, <2>1, <2>3
    <2> QED BY <2>2, <2>3
  <1>8. Told'
    BY <1>1 DEF Told
  <1> QED BY <1>4, <1>5, <1>6, <1>7, <1>8 DEF PeerInv

\* A copy that its seat has no use for is gone.
LEMMA IgnoredInv ==
    ASSUME PeerInv, UNCHANGED <<perm, deck, jobs, disclosed, log, replays>>,
           DOMAIN inbox' = Seats /\ \A r \in Seats : inbox'[r] \subseteq inbox[r]
    PROVE  PeerInv'
  <1>1. Shape /\ Mail /\ Held /\ Work /\ Told
    BY DEF PeerInv
  <1>2. Shape'
    BY <1>1 DEF Shape
  <1>3. Mail'
    BY <1>1, SamePerms DEF Mail
  <1>4. Held'
    BY <1>1, SamePerms DEF Held
  <1>5. Work'
    BY <1>1, SamePerms DEF Work
  <1>6. Told'
    BY <1>1 DEF Told
  <1> QED BY <1>2, <1>3, <1>4, <1>5, <1>6 DEF PeerInv

\* The handlers of shuffle and remask, whichever copy arrives.
LEMMA ReceiveInv ==
    ASSUME PeerInv, NEW s \in Seats, NEW m \in inbox[s], Receive(s, m)
    PROVE  PeerInv'
  <1>1. /\ perm \in [Seats -> Perms] /\ Lawful(m)
        /\ DOMAIN inbox' = Seats /\ \A r \in Seats : inbox'[r] \subseteq inbox[r]
        /\ UNCHANGED <<perm, disclosed, log, replays>>
    BY DEF PeerInv, Shape, Mail, Receive
  <1>2. m.seat \in Seats /\ IsDeck(m.deck)
    BY <1>1 DEF Lawful
  <1>3. m.seat = s - 1 => s # 0
    BY <1>2, Table
  <1>4. CASE m.kind = "shuffle" /\ OnShuffle(s, m)
    <2>1. ShuffledBy(m.seat, m.deck)
      BY <1>1, <1>4 DEF Lawful
    <2>2. CASE /\ m.seat = N - 1 /\ SetDeck(s, m.deck)
               /\ jobs' = [jobs EXCEPT ![s] = IF s = 0 THEN @ \cup {ReadDeck} ELSE @]
      <3>1. RightCards(m.deck)
        BY <2>1, <2>2, LastShuffle
      <3>2. /\ DOMAIN jobs' = Seats
            /\ \A r \in Seats : \A j \in jobs'[r] : j \in jobs[r] \/ (r = 0 /\ r = s /\ j = ReadDeck)
        BY <2>2 DEF PeerInv, Shape
      <3> QED BY <1>1, <1>2, <2>2, <3>1, <3>2, SetDeckInv
    <2>3. CASE m.seat = s - 1 /\ Contribute("shuffle", s, Shuffled(s, m.deck))
      <3>1. \A out \in Shuffled(s, m.deck) : Lawful(Message("shuffle", s, out))
        BY <1>1, <1>2, <2>1, <2>3, NextShuffle DEF Lawful, Message
      <3> QED BY <1>1, <1>3, <2>3, <3>1, ContributeInv
    <2>4. CASE UNCHANGED <<deck, jobs>>
      BY <1>1, <2>4, IgnoredInv
    <2> QED BY <1>4, <2>2, <2>3, <2>4 DEF OnShuffle
  <1>5. CASE m.kind = "remask" /\ OnRemask(s, m)
    <2>1. RightCards(m.deck)
      BY <1>1, <1>5 DEF Lawful
    <2>2. CASE SetDeck(s, m.deck) /\ UNCHANGED jobs
      <3>1. DOMAIN jobs' = Seats /\ \A r \in Seats : \A j \in jobs'[r] : j \in jobs[r]
        BY <2>2 DEF PeerInv, Shape
      <3> QED BY <1>1, <1>2, <2>1, <2>2, <3>1, SetDeckInv
    <2>3. CASE m.seat = s - 1 /\ Contribute("remask", s, Remasked(s, m.deck))
      <3>1. \A out \in Remasked(s, m.deck) : Lawful(Message("remask", s, out))
        BY <1>1, <1>2, <2>1, RemaskedCards DEF Lawful, Message
      <3> QED BY <1>1, <1>3, <2>3, <3>1, ContributeInv
    <2>4. CASE UNCHANGED <<deck, jobs>>
      BY <1>1, <2>4, IgnoredInv
    <2> QED BY <1>5, <2>2, <2>3, <2>4 DEF OnRemask
  <1> QED BY <1>4, <1>5 DEF Receive

\* Seat 0 reads its deck and remasks it: whatever was set since, it is a deck of
\* the last shuffle's cards.
LEMMA StartRemaskInv ==
    ASSUME PeerInv, NEW s \in Seats, NEW j \in jobs[s], StartRemask(s, j)
    PROVE  PeerInv'
  <1>1. Shape /\ Mail /\ Held /\ Work /\ Told
    BY DEF PeerInv
  <1>2. /\ j.do = "read"
        /\ jobs' = [jobs EXCEPT ![s] = (@ \ {j}) \cup {SetOut(s, out) : out \in Remasked(s, deck[s])}]
        /\ UNCHANGED <<perm, deck, disclosed, log, inbox, replays>>
    BY DEF StartRemask
  <1>3. IsDeck(deck[s]) /\ RightCards(deck[s])
    BY <1>1, <1>2 DEF Work
  <1>4. \A out \in Remasked(s, deck[s]) :
           /\ Lawful(Message("remask", s, out)) /\ Message("remask", s, out).kind = "remask"
           /\ Message("remask", s, out).seat = s
    BY <1>3, RemaskedCards DEF Lawful, Message
  <1>5. /\ DOMAIN jobs' = Seats /\ \A r \in Seats \ {s} : jobs'[r] = jobs[r]
        /\ \A x \in jobs'[s] : x \in jobs[s] \/ \E out \in Remasked(s, deck[s]) : x = SetOut(s, out)
    BY <1>1, <1>2 DEF Shape
  <1>6. \A out : SetOut(s, out).do = "set" /\ SetOut(s, out).msg = Message("remask", s, out)
    BY DEF SetOut
  <1>7. Shape'
    BY <1>1, <1>2, <1>5 DEF Shape
  <1>8. Mail' /\ Told'
    BY <1>1, <1>2, SamePerms DEF Mail, Told
  <1>9. Held'
    BY <1>1, <1>2, SamePerms DEF Held
  <1>10. Work'
    <2> SUFFICES ASSUME NEW r \in Seats, NEW x \in jobs'[r]
                 PROVE  \/ x.do = "read" /\ r = 0 /\ IsDeck(deck[r]) /\ RightCards(deck[r])
                        \/ x.do = "set" /\ Lawful(x.msg) /\ x.msg.kind = "remask" /\ x.msg.seat = r
                        \/ x.do = "send" /\ Lawful(x.msg)
      BY <1>2, SamePerms DEF Work
    <2>1. CASE x \in jobs[r]
      BY <1>1, <2>1 DEF Work
    <2>2. CASE r = s /\ \E out \in Remasked(s, deck[s]) : x = SetOut(s, out)
      BY <1>4, <1>6, <2>2
    <2> QED BY <1>5, <2>1, <2>2
  <1> QED BY <1>7, <1>8, <1>9, <1>10 DEF PeerInv

\* Seat 0 holds what it remasked, and will send it.
LEMMA SetRemaskedInv ==
    ASSUME PeerInv, NEW s \in Seats, NEW j \in jobs[s], SetRemasked(s, j)
    PROVE  PeerInv'
  <1>1. Shape /\ Mail /\ Held /\ Work /\ Told
    BY DEF PeerInv
  <1>2. /\ j.do = "set"
        /\ deck' = [deck EXCEPT ![s] = j.msg.deck]
        /\ jobs' = [jobs EXCEPT ![s] = (@ \ {j}) \cup {Send("remask", s, j.msg.deck)}]
        /\ UNCHANGED <<perm, disclosed, log, inbox, replays>>
    BY DEF SetRemasked
  <1>3. Lawful(j.msg) /\ j.msg.kind = "remask"
    BY <1>1, <1>2 DEF Work
  <1> DEFINE d == j.msg.deck
  <1>4. IsDeck(d) /\ RightCards(d) /\ Lawful(Message("remask", s, d))
    BY <1>3 DEF Lawful, Message
  <1> HIDE DEF d
  <1>5. Send("remask", s, d).do = "send" /\ Send("remask", s, d).msg = Message("remask", s, d)
    BY DEF Send
  <1>6. /\ DOMAIN deck' = Seats /\ deck'[s] = d
        /\ DOMAIN jobs' = Seats /\ jobs'[s] = (jobs[s] \ {j}) \cup {Send("remask", s, d)}
        /\ \A r \in Seats \ {s} : deck'[r] = deck[r] /\ jobs'[r] = jobs[r]
    BY <1>1, <1>2 DEF Shape, d
  <1>7. Shape'
    BY <1>1, <1>2, <1>6 DEF Shape
  <1>8. Mail' /\ Told'
    BY <1>1, <1>2, SamePerms DEF Mail, Told
  <1>9. Held'
    BY <1>1, <1>2, <1>4, <1>6, SamePerms DEF Held
  <1>10. Work'
    <2> SUFFICES ASSUME NEW r \in Seats, NEW x \in jobs'[r]
                 PROVE  \/ x.do = "read" /\ r = 0 /\ IsDeck(deck'[r]) /\ RightCards(deck'[r])
                        \/ x.do = "set" /\ Lawful(x.msg) /\ x.msg.kind = "remask" /\ x.msg.seat = r
                        \/ x.do = "send" /\ Lawful(x.msg)
      BY <1>2, SamePerms DEF Work
    <2>1. CASE x \in jobs[r]
      BY <1>1, <1>4, <1>6, <2>1 DEF Work
    <2>2. CASE x = Send("remask", s, d)
      BY <1>4, <1>5, <2>2
    <2> QED BY <1>6, <2>1, <2>2
  <1> QED BY <1>7, <1>8, <1>9, <1>10 DEF PeerInv

\* A log that grew by one message.
LEMMA AppendToSet ==
    ASSUME NEW L, L \in Seq(ToSet(L)), NEW m
    PROVE  /\ ToSet(Append(L, m)) = ToSet(L) \cup {m} /\ Append(L, m) # <<>>
           /\ Append(L, m) \in Seq(ToSet(Append(L, m)))
  <1> DEFINE T == ToSet(L)
  <1>1. T = {L[i] : i \in 1..Len(L)} /\ Len(L) \in Nat
    BY DEF ToSet
  <1> HIDE DEF T
  <1>2. L \in Seq(T)
    BY DEF T
  <1>3. /\ Append(L, m) \in Seq(T \cup {m}) /\ Len(Append(L, m)) = Len(L) + 1
        /\ \A i \in 1..Len(L) : Append(L, m)[i] = L[i]
        /\ Append(L, m)[Len(L) + 1] = m
    BY <1>2
  <1>4. ToSet(Append(L, m)) = {Append(L, m)[i] : i \in 1..(Len(L) + 1)}
    BY <1>1, <1>3 DEF ToSet
  <1>5. 1..(Len(L) + 1) = 1..Len(L) \cup {Len(L) + 1}
    BY <1>1
  <1>6. ToSet(Append(L, m)) = T \cup {m}
    BY <1>1, <1>3, <1>4, <1>5
  <1>7. Append(L, m) # <<>>
    BY <1>1, <1>3
  <1> QED BY <1>3, <1>6, <1>7 DEF T

\* What is sent is logged and delivered to all.
LEMMA SendOutInv ==
    ASSUME PeerInv, NEW s \in Seats, NEW j \in jobs[s], SendOut(s, j)
    PROVE  PeerInv'
  <1>1. Shape /\ Mail /\ Held /\ Work /\ Told
    BY DEF PeerInv
  <1>2. /\ j.do = "send"
        /\ jobs' = [jobs EXCEPT ![s] = @ \ {j}]
        /\ log' = [log EXCEPT ![s] = Append(@, j.msg)]
        /\ inbox' = [r \in Seats |-> inbox[r] \cup {j.msg}]
        /\ UNCHANGED <<perm, deck, disclosed, replays>>
    BY DEF SendOut, Publish
  <1>3. Lawful(j.msg)
    BY <1>1, <1>2 DEF Work
  <1> DEFINE m == j.msg
  <1> HIDE DEF m
  <1>4. /\ DOMAIN log' = Seats /\ log'[s] = Append(log[s], m)
        /\ \A r \in Seats \ {s} : log'[r] = log[r]
    BY <1>1, <1>2 DEF Shape, m
  <1>5. ToSet(log'[s]) = ToSet(log[s]) \cup {m} /\ log'[s] \in Seq(ToSet(log'[s]))
    <2>1. log[s] \in Seq(ToSet(log[s]))
      BY <1>1 DEF Shape
    <2> QED BY <1>4, <2>1, AppendToSet
  <1>6. /\ DOMAIN jobs' = Seats /\ \A r \in Seats : jobs'[r] \subseteq jobs[r]
        /\ DOMAIN inbox' = Seats /\ \A r \in Seats : inbox'[r] = inbox[r] \cup {m}
    BY <1>1, <1>2 DEF Shape, m
  <1>7. Shape'
    BY <1>1, <1>2, <1>4, <1>5, <1>6 DEF Shape
  <1>8. Mail'
    BY <1>1, <1>2, <1>3, <1>4, <1>5, <1>6, SamePerms DEF Mail, m
  <1>9. Held' /\ Told'
    BY <1>1, <1>2, SamePerms DEF Held, Told
  <1>10. Work'
    BY <1>1, <1>2, <1>6, SamePerms DEF Work
  <1> QED BY <1>7, <1>8, <1>9, <1>10 DEF PeerInv

\* A catch-up sends again what was logged.
LEMMA ServeCatchUpInv ==
    ASSUME PeerInv, NEW s \in Seats, ServeCatchUp(s)
    PROVE  PeerInv'
  <1>1. Shape /\ Mail /\ Held /\ Work /\ Told
    BY DEF PeerInv
  <1>2. /\ replays < MaxReplays /\ replays' = replays + 1
        /\ UNCHANGED <<perm, deck, disclosed, jobs, log>>
    BY DEF ServeCatchUp
  <1>3. PICK have \in 0..(Len(log[s]) - 1) :
           inbox' = [r \in Seats |-> inbox[r] \cup ToSet(SubSeq(log[s], have + 1, Len(log[s])))]
    BY DEF ServeCatchUp, Publish
  <1>4. ToSet(SubSeq(log[s], have + 1, Len(log[s]))) \subseteq ToSet(log[s])
    <2> DEFINE L == log[s]
               T == ToSet(L)
    <2>1. L \in Seq(T)
      BY <1>1 DEF Shape
    <2> HIDE DEF L, T
    <2>2. Len(L) \in Nat /\ have + 1 \in 1..Len(L)
      BY <1>3, <2>1 DEF L
    <2>3. SubSeq(L, have + 1, Len(L)) \in Seq(T)
      BY <2>1, <2>2
    <2>4. ToSet(SubSeq(L, have + 1, Len(L))) \subseteq T
      BY <2>3 DEF ToSet
    <2> QED BY <2>4 DEF L, T
  <1>5. Shape'
    BY <1>1, <1>2, <1>3, PeerConstants DEF Shape
  <1>6. Mail'
    BY <1>1, <1>2, <1>3, <1>4, SamePerms DEF Mail
  <1>7. Held' /\ Told'
    BY <1>1, <1>2, SamePerms DEF Held, Told
  <1>8. Work'
    BY <1>1, <1>2, SamePerms DEF Work
  <1> QED BY <1>5, <1>6, <1>7, <1>8 DEF PeerInv

\* Disclosures add the discloser's own scalars.
LEMMA DiscloseInv ==
    ASSUME PeerInv, NEW s \in Seats, NEW rs, NEW pos, Disclose(s, rs, pos),
           UNCHANGED <<perm, deck, jobs, log, inbox, replays>>
    PROVE  PeerInv'
  <1>1. Shape /\ Mail /\ Held /\ Work /\ Told
    BY DEF PeerInv
  <1>2. Shape' /\ Mail' /\ Held' /\ Work'
    BY <1>1, SamePerms DEF Shape, Mail, Held, Work
  <1>3. Told'
    <2> SUFFICES ASSUME NEW r \in Seats, NEW p \in Positions
                 PROVE  disclosed'[r][p] \subseteq {Mine(o, p) : o \in Seats}
      BY DEF Told
    <2>1. disclosed'[r][p] = IF r \in rs /\ p \in pos THEN disclosed[r][p] \cup {Mine(s, p)}
                             ELSE disclosed[r][p]
      BY DEF Disclose
    <2>2. Mine(s, p) \in {Mine(o, p) : o \in Seats}
      OBVIOUS
    <2> QED BY <1>1, <2>1, <2>2 DEF Told
  <1> QED BY <1>2, <1>3 DEF PeerInv

-----------------------------------------------------------------------------
(* The stages of the chain *)

\* The turns, one to a seat in each pass, send different messages.
LEMMA Links ==
    /\ \A i \in 0..(2 * N - 1) :
          /\ Turn(i) \in Seats /\ Link(i).seat = Turn(i) /\ Link(i).deck = AfterTurn[i + 1]
          /\ Link(i).kind = IF i < N THEN "shuffle" ELSE "remask"
    /\ \A i, l \in 0..(2 * N - 1) : Link(i) = Link(l) => i = l
  <1>1. ASSUME NEW i \in 0..(2 * N - 1)
        PROVE  /\ Link(i).seat = Turn(i) /\ Link(i).deck = AfterTurn[i + 1]
               /\ Link(i).kind = IF i < N THEN "shuffle" ELSE "remask"
    BY DEF Link, Message
  <1>2. ASSUME NEW i \in 0..(2 * N - 1) PROVE Turn(i) \in Seats
    BY Table DEF Turn, Seats
  <1>3. ASSUME NEW i \in 0..(2 * N - 1), NEW l \in 0..(2 * N - 1), Link(i) = Link(l) PROVE i = l
    <2>1. (IF i < N THEN "shuffle" ELSE "remask") = (IF l < N THEN "shuffle" ELSE "remask")
      BY <1>1, <1>3
    <2>2. Turn(i) = Turn(l)
      BY <1>1, <1>3
    <2>3. i < N <=> l < N
      BY <2>1
    <2> QED BY <2>2, <2>3, Table DEF Turn
  <1> QED BY <1>1, <1>2, <1>3

\* What a seat makes of the deck it is called upon for.
LEMMA TurnOutputs ==
    /\ Shuffled(0, BaseDeck) = {AfterTurn[1]}
    /\ \A i \in 0..(N - 1) : Shuffled(i, AfterTurn[i]) = {AfterTurn[i + 1]}
    /\ \A i \in N..(2 * N - 1) : Remasked(i - N, AfterTurn[i]) = {AfterTurn[i + 1]}
  <1>1. ASSUME NEW i \in Seats PROVE Shuffled(i, AfterTurn[i]) = {AfterTurn[i + 1]}
    BY ChainDefined DEF Shuffled
  <1>2. ASSUME NEW i \in N..(2 * N - 1) PROVE Remasked(i - N, AfterTurn[i]) = {AfterTurn[i + 1]}
    <2>1. PICK s \in Seats : s = i - N /\ N + s = i
      <3>1. i - N \in Seats /\ N + (i - N) = i
        BY Table DEF Seats
      <3> QED BY <3>1
    <2>2. AfterTurn[N + s + 1] = RemaskStep(AfterTurn[N + s], s, 1)
      BY ChainDefined
    <2> QED BY <2>1, <2>2 DEF Remasked
  <1>3. 0 \in Seats /\ 0 + 1 = 1
    BY Table
  <1>4. Shuffled(0, BaseDeck) = {AfterTurn[1]}
    <2>1. Shuffled(0, AfterTurn[0]) = {AfterTurn[0 + 1]}
      BY <1>1, <1>3
    <2> QED BY <1>3, <2>1, ChainDefined
  <1> QED BY <1>1, <1>2, <1>4 DEF Seats

\* Nor do the stages' decks and messages change.
LEMMA SameLinks ==
    ASSUME perm' = perm
    PROVE  /\ \A i : Link(i)' = Link(i) /\ Turn(i)' = Turn(i)
           /\ \A i, phase : Job(i, phase)' = Job(i, phase)
           /\ AfterShuffles' = AfterShuffles /\ FinalDeck' = FinalDeck
  <1>1. AfterTurn' = AfterTurn
    BY DEF AfterTurn
  <1>2. \A i : Link(i)' = Link(i) /\ Turn(i)' = Turn(i)
    BY <1>1 DEF Link, Turn
  <1> QED BY <1>1, <1>2 DEF Job, AfterShuffles, FinalDeck

\* What was posted, told in the next state.
LEMMA PostedNext ==
    ASSUME perm' = perm, NEW i \in Nat,
           \A s \in Seats : \A m \in inbox'[s] : \E l \in 0..(i - 1) : m = Link(l),
           \A l \in 0..(i - 2) : Link(l) \notin inbox'[Turn(l + 1)],
           \A s \in Seats : \A m \in ToSet(log'[s]) : \E l \in 0..(i - 1) : m = Link(l) /\ Turn(l) = s,
           i # 0 => log'[0] # <<>>
    PROVE  Posted(i)'
  <1>1. \A l : Link(l)' = Link(l) /\ Turn(l)' = Turn(l)
    BY SameLinks
  <1>2. (\A s \in Seats : \A m \in inbox[s] : \E l \in 0..(i - 1) : m = Link(l))'
    BY <1>1
  <1>3. (\A l \in 0..(i - 2) : Link(l) \notin inbox[Turn(l + 1)])'
    BY <1>1
  <1>4. (\A s \in Seats : \A m \in ToSet(log[s]) : \E l \in 0..(i - 1) : m = Link(l) /\ Turn(l) = s)'
    BY <1>1
  <1> QED BY <1>2, <1>3, <1>4 DEF Posted

\* A copy that is read leaves the others where they were.
LEMMA PostedLess ==
    ASSUME NEW i \in 0..(2 * N), Posted(i), perm' = perm, log' = log,
           \A r \in Seats : inbox'[r] \subseteq inbox[r]
    PROVE  Posted(i)'
  <1>1. i \in Nat /\ \A l \in 0..(i - 2) : Turn(l + 1) \in Seats
    BY Links, Table
  <1>2. \A l \in 0..(i - 2) : Link(l) \notin inbox'[Turn(l + 1)]
    BY <1>1 DEF Posted
  <1>3. \A s \in Seats : \A m \in inbox'[s] : \E l \in 0..(i - 1) : m = Link(l)
    BY DEF Posted
  <1>4. \A s \in Seats : \A m \in ToSet(log'[s]) : \E l \in 0..(i - 1) : m = Link(l) /\ Turn(l) = s
    BY DEF Posted
  <1>5. i # 0 => log'[0] # <<>>
    BY DEF Posted
  <1> QED BY <1>1, <1>2, <1>3, <1>4, <1>5, PostedNext

\* How the decks settled, told in the next state.
LEMMA SettledNext ==
    ASSUME perm' = perm, NEW i,
           i = 2 * N => \A s \in Seats : \/ Link(2 * N - 1) \in inbox'[s]
                                         \/ deck'[s] = FinalDeck
                                         \/ s # 0 /\ deck'[s] = AfterShuffles
    PROVE  Settled(i)'
  <1>1. Link(2 * N - 1)' = Link(2 * N - 1) /\ AfterShuffles' = AfterShuffles /\ FinalDeck' = FinalDeck
    BY SameLinks
  <1> QED BY <1>1 DEF Settled

\* A seat takes its turn: it holds what it will send.
LEMMA TurnStage ==
    ASSUME NEW i \in 0..(2 * N - 1), Posted(i), DOMAIN jobs = Seats,
           \A s \in Seats : jobs[s] = {},
           Contribute(IF i < N THEN "shuffle" ELSE "remask", Turn(i), {AfterTurn[i + 1]}),
           perm' = perm, log' = log,
           \A r \in Seats : inbox'[r] \subseteq inbox[r],
           i # 0 => Link(i - 1) \notin inbox'[Turn(i)]
    PROVE  Stage(i, "send")'
  <1>1. i \in 0..(2 * N) /\ i # 2 * N /\ Turn(i) \in Seats
    BY Links, Table
  <1>2. Posted(i)'
    BY <1>1, PostedLess
  <1>3. Send(IF i < N THEN "shuffle" ELSE "remask", Turn(i), AfterTurn[i + 1]) = Job(i, "send")
    BY DEF Send, Job, Link
  <1>4. jobs' = [jobs EXCEPT ![Turn(i)] = @ \cup {Job(i, "send")}]
    BY <1>3 DEF Contribute
  <1>5. \A s \in Seats : jobs'[s] = IF s = Turn(i) THEN {Job(i, "send")} ELSE {}
    BY <1>1, <1>4
  <1>6. Underway(i, "send")'
    BY <1>1, <1>5, SameLinks DEF Underway
  <1> QED BY <1>1, <1>2, <1>6 DEF Stage, Settled

\* Seat 0 opens the deal, and only then.
LEMMA StartShuffleStage ==
    ASSUME PeerInv, NEW i \in 0..(2 * N), NEW phase \in Phases, Stage(i, phase), StartShuffle
    PROVE  Stage(0, "send")'
  <1>1. /\ Posted(i) /\ Underway(i, phase) /\ DOMAIN jobs = Seats
        /\ log[0] = <<>> /\ jobs[0] = {} /\ Contribute("shuffle", 0, Shuffled(0, BaseDeck))
        /\ perm' = perm /\ log' = log /\ inbox' = inbox
    BY DEF Stage, StartShuffle, PeerInv, Shape
  <1>2. i = 0
    BY <1>1 DEF Posted
  <1>3. Turn(0) = 0 /\ 0 \in Seats /\ 0 < N /\ 0 \in 0..(2 * N - 1) /\ 0 + 1 = 1
    BY Table DEF Turn
  <1>4. \A s \in Seats : jobs[s] = {}
    BY <1>1, <1>2, <1>3 DEF Underway
  <1>5. Contribute(IF 0 < N THEN "shuffle" ELSE "remask", Turn(0), {AfterTurn[0 + 1]})
    BY <1>1, <1>3, TurnOutputs
  <1> QED BY <1>1, <1>2, <1>3, <1>4, <1>5, TurnStage

\* The seat whose turn it is reads the copy that calls for it.
LEMMA CalledStage ==
    ASSUME PeerInv, NEW i \in 1..(2 * N - 1), Stage(i, "wait"), Receive(Turn(i), Link(i - 1))
    PROVE  \E phase \in Phases : Stage(i, phase)'
  <1> DEFINE s == Turn(i)
             m == Link(i - 1)
  <1>1. /\ Posted(i) /\ DOMAIN jobs = Seats /\ DOMAIN inbox = Seats /\ DOMAIN deck = Seats
        /\ \A r \in Seats : jobs[r] = {}
        /\ perm' = perm /\ log' = log
        /\ inbox' = [inbox EXCEPT ![s] = @ \ {m}]
        /\ (m.kind = "shuffle" /\ OnShuffle(s, m)) \/ (m.kind = "remask" /\ OnRemask(s, m))
    BY DEF Stage, Underway, PeerInv, Shape, Receive
  <1>2. /\ s \in Seats /\ m.seat = Turn(i - 1) /\ m.deck = AfterTurn[i]
        /\ m.kind = IF i - 1 < N THEN "shuffle" ELSE "remask"
    <2>1. i \in 0..(2 * N - 1) /\ i - 1 \in 0..(2 * N - 1) /\ (i - 1) + 1 = i
      BY Table
    <2> QED BY <2>1, Links
  <1>3. (\A r \in Seats : inbox'[r] \subseteq inbox[r]) /\ m \notin inbox'[s]
    BY <1>1, <1>2
  <1>4. i \in 0..(2 * N) /\ i \in 0..(2 * N - 1) /\ i # 0 /\ i # 2 * N
    BY Table
  <1>5. CASE i < N
    <2>1. s = i /\ m.seat = s - 1 /\ m.seat # N - 1 /\ m.kind = "shuffle"
      BY <1>2, <1>5, Table DEF Turn
    <2>2. Contribute("shuffle", s, Shuffled(s, m.deck))
      BY <1>1, <2>1 DEF OnShuffle
    <2>3. Shuffled(s, m.deck) = {AfterTurn[i + 1]}
      <3>1. i \in 0..(N - 1)
        BY <1>5, Table
      <3> QED BY <1>2, <2>1, <3>1, TurnOutputs
    <2>4. Contribute(IF i < N THEN "shuffle" ELSE "remask", s, {AfterTurn[i + 1]})
      BY <1>5, <2>2, <2>3
    <2> QED BY <1>1, <1>3, <1>4, <2>4, TurnStage DEF Phases
  <1>6. CASE i > N
    <2>1. s = i - N /\ m.seat = s - 1 /\ m.seat # N - 1 /\ m.kind = "remask"
      BY <1>2, <1>6, Table DEF Turn
    <2>2. Contribute("remask", s, Remasked(s, m.deck))
      BY <1>1, <2>1 DEF OnRemask
    <2>3. Remasked(s, m.deck) = {AfterTurn[i + 1]}
      <3>1. i \in N..(2 * N - 1)
        BY <1>6, Table
      <3> QED BY <1>2, <2>1, <3>1, TurnOutputs
    <2>4. Contribute(IF i < N THEN "shuffle" ELSE "remask", s, {AfterTurn[i + 1]})
      <3>1. ~(i < N)
        BY <1>6, Table
      <3> QED BY <2>2, <2>3, <3>1
    <2> QED BY <1>1, <1>3, <1>4, <2>4, TurnStage DEF Phases
  <1>7. CASE i = N
    <2>1. s = 0 /\ m.seat = N - 1 /\ m.kind = "shuffle" /\ m.deck = AfterShuffles
      BY <1>2, <1>7, Table DEF Turn, AfterShuffles
    <2>2. SetDeck(s, m.deck) /\ jobs' = [jobs EXCEPT ![s] = IF s = 0 THEN @ \cup {ReadDeck} ELSE @]
      BY <1>1, <2>1 DEF OnShuffle
    <2>3. ReadDeck = Job(i, "read")
      BY DEF ReadDeck, Job
    <2>4. \A r \in Seats : jobs'[r] = IF r = s THEN {Job(i, "read")} ELSE {}
      BY <1>1, <1>2, <2>1, <2>2, <2>3
    <2>5. deck'[0] = AfterShuffles
      BY <1>1, <1>2, <2>1, <2>2 DEF SetDeck
    <2>6. Underway(i, "read")'
      <3>1. perm' = perm
        BY <1>1
      <3>2. /\ \A k : Link(k)' = Link(k) /\ Turn(k)' = Turn(k)
            /\ \A k, phase : Job(k, phase)' = Job(k, phase)
            /\ AfterShuffles' = AfterShuffles
        BY <3>1, SameLinks
      <3>3. (\A r \in Seats : jobs[r] = IF r = Turn(i) THEN {Job(i, "read")} ELSE {})'
        BY <2>4, <3>2
      <3>4. (Link(i - 1) \notin inbox[Turn(i)])'
        BY <1>3, <3>2
      <3>5. (deck[0] = AfterShuffles)'
        BY <2>5, <3>2
      <3> QED BY <1>4, <1>7, <3>3, <3>4, <3>5 DEF Underway
    <2>7. Posted(i)'
      BY <1>1, <1>3, <1>4, PostedLess
    <2>8. Stage(i, "read")'
      BY <1>4, <2>6, <2>7 DEF Stage, Settled
    <2> QED BY <2>8 DEF Phases
  <1> QED BY <1>5, <1>6, <1>7, Table

\* Any other copy starts no turn: it is ignored, or its deck is kept.
LEMMA IdleReceive ==
    ASSUME NEW s \in Seats, NEW l \in 0..(2 * N - 1), l = 2 * N - 1 \/ s # Turn(l + 1),
           DOMAIN jobs = Seats, Receive(s, Link(l))
    PROVE  /\ \A r \in Seats : jobs'[r] = jobs[r]
           /\ \/ l # 2 * N - 1 /\ deck' = deck
              \/ l = N - 1 /\ s # 0 /\ SetDeck(s, AfterShuffles)
              \/ l = 2 * N - 1 /\ SetDeck(s, FinalDeck)
  <1> DEFINE m == Link(l)
  <1>1. (m.kind = "shuffle" /\ OnShuffle(s, m)) \/ (m.kind = "remask" /\ OnRemask(s, m))
    BY DEF Receive
  <1>2. /\ m.seat = Turn(l) /\ m.deck = AfterTurn[l + 1]
        /\ m.kind = IF l < N THEN "shuffle" ELSE "remask"
    BY Links
  <1> HIDE DEF m
  <1>3. CASE l < N
    <2>1. m.seat = l /\ m.kind = "shuffle"
      BY <1>2, <1>3 DEF Turn
    <2>2. OnShuffle(s, m)
      BY <1>1, <2>1
    <2>3. CASE l = N - 1
      <3>1. s # 0 /\ l # 2 * N - 1 /\ l + 1 = N
        BY <2>3, Table DEF Turn
      <3>2. SetDeck(s, m.deck) /\ jobs' = [jobs EXCEPT ![s] = @]
        BY <2>1, <2>2, <2>3, <3>1 DEF OnShuffle
      <3>3. m.deck = AfterShuffles
        BY <1>2, <3>1 DEF AfterShuffles
      <3> QED BY <2>3, <3>1, <3>2, <3>3
    <2>4. CASE l # N - 1
      <3>1. m.seat # N - 1 /\ m.seat # s - 1 /\ l # 2 * N - 1
        BY <1>3, <2>1, <2>4, Table DEF Turn
      <3> QED BY <2>2, <3>1 DEF OnShuffle
    <2> QED BY <2>3, <2>4
  <1>4. CASE ~(l < N)
    <2>1. m.seat = l - N /\ m.kind = "remask"
      BY <1>2, <1>4 DEF Turn
    <2>2. OnRemask(s, m)
      BY <1>1, <2>1
    <2>3. CASE l = 2 * N - 1
      <3>1. m.seat = N - 1 /\ l + 1 = 2 * N
        BY <2>1, <2>3, Table
      <3>2. m.deck = FinalDeck
        BY <1>2, <3>1 DEF FinalDeck
      <3> QED BY <2>2, <2>3, <3>1, <3>2 DEF OnRemask
    <2>4. CASE l # 2 * N - 1
      <3>1. m.seat # N - 1 /\ m.seat # s - 1
        BY <1>4, <2>1, <2>4, Table DEF Turn
      <3> QED BY <2>2, <2>4, <3>1 DEF OnRemask
    <2> QED BY <2>3, <2>4
  <1> QED BY <1>3, <1>4

LEMMA IdleStage ==
    ASSUME PeerInv, NEW i \in 0..(2 * N), NEW phase \in Phases, Stage(i, phase),
           NEW s \in Seats, NEW l \in 0..(i - 1), Link(l) \in inbox[s], Receive(s, Link(l)),
           ~(i \in 1..(2 * N - 1) /\ phase = "wait" /\ s = Turn(i) /\ l = i - 1)
    PROVE  Stage(i, phase)'
  <1>1. /\ Posted(i) /\ Underway(i, phase) /\ Settled(i)
        /\ DOMAIN jobs = Seats /\ DOMAIN inbox = Seats /\ DOMAIN deck = Seats
        /\ perm' = perm /\ log' = log
        /\ inbox' = [inbox EXCEPT ![s] = @ \ {Link(l)}]
    BY DEF Stage, PeerInv, Shape, Receive
  <1>2. l \in 0..(2 * N - 1)
    BY Table
  <1>3. l = 2 * N - 1 \/ s # Turn(l + 1)
    <2>1. CASE l \in 0..(i - 2)
      BY <1>1, <2>1 DEF Posted
    <2>2. CASE l = i - 1 /\ i # 2 * N
      <3>1. i \in 1..(2 * N - 1) /\ l + 1 = i /\ i # 0
        BY <2>2, Table
      <3>2. phase # "wait" => Link(i - 1) \notin inbox[Turn(i)]
        BY <1>1, <3>1 DEF Underway
      <3> QED BY <2>2, <3>1, <3>2
    <2> QED BY <2>1, <2>2, Table
  <1>4. /\ \A r \in Seats : jobs'[r] = jobs[r]
        /\ \/ l # 2 * N - 1 /\ deck' = deck
           \/ l = N - 1 /\ s # 0 /\ SetDeck(s, AfterShuffles)
           \/ l = 2 * N - 1 /\ SetDeck(s, FinalDeck)
    BY <1>1, <1>2, <1>3, IdleReceive
  <1>5. /\ \A r \in Seats : inbox'[r] \subseteq inbox[r]
        /\ \A r \in Seats : \A x \in inbox[r] : r # s \/ x # Link(l) => x \in inbox'[r]
    BY <1>1
  <1>6. \A r \in Seats : r # s => deck'[r] = deck[r]
    BY <1>1, <1>4 DEF SetDeck
  <1>7. /\ l = N - 1 /\ s # 0 => deck'[s] \in {deck[s], AfterShuffles}
        /\ l = 2 * N - 1 => deck'[s] = FinalDeck
        /\ l # 2 * N - 1 => deck'[s] = deck[s] \/ (s # 0 /\ deck'[s] = AfterShuffles)
    BY <1>1, <1>4, Table DEF SetDeck
  <1>8. Posted(i)'
    BY <1>1, <1>5, PostedLess
  <1>9. Underway(i, phase)'
    <2>1. CASE phase = "wait"
      <3>1. ASSUME i \notin {0, 2 * N} PROVE Link(i - 1) \in inbox'[Turn(i)]
        <4>1. i \in 1..(2 * N - 1) /\ i \in 0..(2 * N - 1) /\ i - 1 \in 0..(2 * N - 1)
          BY <3>1, Table
        <4>2. Link(i - 1) \in inbox[Turn(i)]
          BY <1>1, <2>1, <3>1 DEF Underway
        <4>3. Turn(i) # s \/ Link(i - 1) # Link(l)
          BY <1>2, <2>1, <4>1, Links
        <4> QED BY <1>5, <4>1, <4>2, <4>3, Links
      <3> QED BY <1>1, <1>4, <2>1, <3>1, SameLinks DEF Underway
    <2>2. CASE phase # "wait"
      <3>1. ASSUME i # 0 PROVE Link(i - 1) \notin inbox'[Turn(i)]
        <4>1. i \in 0..(2 * N - 1)
          BY <1>1, <2>2, Table DEF Underway
        <4> QED BY <1>1, <1>5, <2>2, <3>1, <4>1, Links DEF Underway
      <3>2. phase = "read" => deck'[0] = AfterShuffles
        <4> SUFFICES ASSUME phase = "read" PROVE deck'[0] = AfterShuffles
          OBVIOUS
        <4>1. i = N /\ deck[0] = AfterShuffles
          BY <1>1 DEF Underway
        <4>2. l # 2 * N - 1 /\ 0 \in Seats
          BY <4>1, Table
        <4> QED BY <1>6, <1>7, <4>1, <4>2
      <3>3. /\ phase \in {"read", "set", "send"} /\ i # 2 * N
            /\ \A r \in Seats : jobs[r] = IF r = Turn(i) THEN {Job(i, phase)} ELSE {}
            /\ phase # "send" => i = N
        BY <1>1, <2>2 DEF Underway
      <3>4. \A r \in Seats : jobs'[r] = IF r = Turn(i) THEN {Job(i, phase)} ELSE {}
        BY <1>4, <3>3
      <3>5. perm' = perm
        BY <1>1
      <3> QED BY <3>1, <3>2, <3>3, <3>4, <3>5, SameLinks DEF Underway
    <2> QED BY <2>1, <2>2
  <1>10. Settled(i)'
    <2> SUFFICES ASSUME i = 2 * N, NEW r \in Seats
                 PROVE  \/ Link(2 * N - 1) \in inbox'[r]
                        \/ deck'[r] = FinalDeck
                        \/ r # 0 /\ deck'[r] = AfterShuffles
      BY <1>1, SettledNext
    <2>1. \/ Link(2 * N - 1) \in inbox[r]
          \/ deck[r] = FinalDeck
          \/ r # 0 /\ deck[r] = AfterShuffles
      BY <1>1 DEF Settled
    <2>2. CASE r # s
      BY <1>5, <1>6, <2>1, <2>2
    <2>3. CASE r = s /\ l = 2 * N - 1
      BY <1>7, <2>3
    <2>4. CASE r = s /\ l # 2 * N - 1
      <3>1. Link(2 * N - 1) # Link(l)
        BY <1>2, <2>4, Links, Table
      <3> QED BY <1>5, <1>7, <2>1, <2>4, <3>1
    <2> QED BY <2>2, <2>3, <2>4
  <1> QED BY <1>8, <1>9, <1>10 DEF Stage

\* A copy of some turn arrives: it calls its seat to the next one, or changes no stage.
LEMMA ReceiveStage ==
    ASSUME PeerInv, NEW i \in 0..(2 * N), NEW phase \in Phases, Stage(i, phase),
           NEW s \in Seats, NEW m \in inbox[s], Receive(s, m)
    PROVE  \E ph \in Phases : Stage(i, ph)'
  <1>1. PICK l \in 0..(i - 1) : m = Link(l)
    BY DEF Stage, Posted
  <1>2. CASE i \in 1..(2 * N - 1) /\ phase = "wait" /\ s = Turn(i) /\ l = i - 1
    BY <1>1, <1>2, CalledStage
  <1>3. CASE ~(i \in 1..(2 * N - 1) /\ phase = "wait" /\ s = Turn(i) /\ l = i - 1)
    <2>1. Stage(i, phase)'
      BY <1>1, <1>3, IdleStage
    <2> QED BY <2>1
  <1> QED BY <1>2, <1>3

\* A running handler is that of the turn under way.
LEMMA OneJob ==
    ASSUME NEW i \in 0..(2 * N), NEW phase \in Phases, Underway(i, phase),
           NEW s \in Seats, NEW j \in jobs[s]
    PROVE  /\ phase # "wait" /\ i \in 0..(2 * N - 1) /\ s = Turn(i)
           /\ j = Job(i, phase) /\ j.do = phase /\ jobs[s] = {j}
           /\ \A r \in Seats : r # s => jobs[r] = {}
  <1>1. /\ phase # "wait" /\ i # 2 * N
        /\ \A r \in Seats : jobs[r] = IF r = Turn(i) THEN {Job(i, phase)} ELSE {}
    BY DEF Underway
  <1>2. s = Turn(i) /\ j = Job(i, phase)
    BY <1>1
  <1>3. j.do = phase
    BY <1>2 DEF Job
  <1>4. i \in 0..(2 * N - 1)
    BY <1>1, Table
  <1> QED BY <1>1, <1>2, <1>3, <1>4

\* Seat 0 reads its deck: nothing has set another since the last shuffle.
LEMMA StartRemaskStage ==
    ASSUME PeerInv, NEW i \in 0..(2 * N), NEW phase \in Phases, Stage(i, phase),
           NEW s \in Seats, NEW j \in jobs[s], StartRemask(s, j)
    PROVE  Stage(i, "set")'
  <1>1. /\ Posted(i) /\ Underway(i, phase) /\ Settled(i) /\ DOMAIN jobs = Seats
        /\ j.do = "read"
        /\ jobs' = [jobs EXCEPT ![s] = (@ \ {j}) \cup {SetOut(s, out) : out \in Remasked(s, deck[s])}]
        /\ perm' = perm /\ deck' = deck /\ log' = log /\ inbox' = inbox
    BY DEF Stage, PeerInv, Shape, StartRemask
  <1>2. /\ phase = "read" /\ i \in 0..(2 * N - 1) /\ s = Turn(i) /\ jobs[s] = {j}
        /\ \A r \in Seats : r # s => jobs[r] = {}
    BY <1>1, OneJob
  <1>3. i = N /\ deck[0] = AfterTurn[i]
    BY <1>1, <1>2 DEF Underway, AfterShuffles
  <1>4. s = 0 /\ s = i - N /\ ~(i < N) /\ i \in N..(2 * N - 1)
    BY <1>2, <1>3, Table DEF Turn
  <1>5. Remasked(s, deck[s]) = {AfterTurn[i + 1]}
    BY <1>3, <1>4, TurnOutputs
  <1>6. SetOut(s, AfterTurn[i + 1]) = Job(i, "set")
    BY <1>2, <1>4 DEF SetOut, Job, Link
  <1>7. \A r \in Seats : jobs'[r] = IF r = Turn(i) THEN {Job(i, "set")} ELSE {}
    <2>1. jobs'[s] = {Job(i, "set")}
      BY <1>1, <1>2, <1>5, <1>6
    <2> QED BY <1>1, <1>2, <2>1
  <1>8. Underway(i, "set")'
    <2>1. /\ i # 2 * N /\ perm' = perm
          /\ i # 0 => Link(i - 1) \notin inbox'[Turn(i)]
      BY <1>1, <1>2, Table DEF Underway
    <2> QED BY <1>3, <1>7, <2>1, SameLinks DEF Underway
  <1>9. Posted(i)'
    BY <1>1, PostedLess
  <1>10. i # 2 * N
    BY <1>2, Table
  <1> QED BY <1>8, <1>9, <1>10 DEF Stage, Settled

\* The remasked deck becomes its own.
LEMMA SetRemaskedStage ==
    ASSUME PeerInv, NEW i \in 0..(2 * N), NEW phase \in Phases, Stage(i, phase),
           NEW s \in Seats, NEW j \in jobs[s], SetRemasked(s, j)
    PROVE  Stage(i, "send")'
  <1>1. /\ Posted(i) /\ Underway(i, phase) /\ DOMAIN jobs = Seats
        /\ j.do = "set"
        /\ jobs' = [jobs EXCEPT ![s] = (@ \ {j}) \cup {Send("remask", s, j.msg.deck)}]
        /\ perm' = perm /\ log' = log /\ inbox' = inbox
    BY DEF Stage, PeerInv, Shape, SetRemasked
  <1>2. /\ phase = "set" /\ i \in 0..(2 * N - 1) /\ s = Turn(i) /\ jobs[s] = {j}
        /\ j = Job(i, phase) /\ \A r \in Seats : r # s => jobs[r] = {}
    BY <1>1, OneJob
  <1>3. i = N /\ ~(i < N)
    BY <1>1, <1>2, Table DEF Underway
  <1>4. j.msg = Link(i)
    BY <1>2 DEF Job
  <1>5. Send("remask", s, j.msg.deck) = Job(i, "send")
    <2>1. j.msg.deck = AfterTurn[i + 1]
      BY <1>2, <1>4, Links
    <2> QED BY <1>2, <1>3, <2>1 DEF Send, Job, Link
  <1>6. \A r \in Seats : jobs'[r] = IF r = Turn(i) THEN {Job(i, "send")} ELSE {}
    <2>1. jobs'[s] = {Job(i, "send")}
      BY <1>1, <1>2, <1>5
    <2> QED BY <1>1, <1>2, <2>1
  <1>7. Underway(i, "send")'
    <2>1. /\ i # 2 * N /\ perm' = perm
          /\ i # 0 => Link(i - 1) \notin inbox'[Turn(i)]
      BY <1>1, <1>2, Table DEF Underway
    <2> QED BY <1>6, <2>1, SameLinks DEF Underway
  <1>8. Posted(i)'
    BY <1>1, PostedLess
  <1>9. i # 2 * N
    BY <1>2, Table
  <1> QED BY <1>7, <1>8, <1>9 DEF Stage, Settled

\* The turn's output goes out, and the next turn waits for it.
LEMMA SendOutStage ==
    ASSUME PeerInv, NEW i \in 0..(2 * N), NEW phase \in Phases, Stage(i, phase),
           NEW s \in Seats, NEW j \in jobs[s], SendOut(s, j)
    PROVE  i + 1 \in 0..(2 * N) /\ Stage(i + 1, "wait")'
  <1>1. /\ Posted(i) /\ Underway(i, phase) /\ DOMAIN jobs = Seats /\ DOMAIN log = Seats
        /\ log[s] \in Seq(ToSet(log[s]))
        /\ j.do = "send"
        /\ jobs' = [jobs EXCEPT ![s] = @ \ {j}]
        /\ log' = [log EXCEPT ![s] = Append(@, j.msg)]
        /\ inbox' = [r \in Seats |-> inbox[r] \cup {j.msg}]
        /\ perm' = perm
    BY DEF Stage, PeerInv, Shape, SendOut, Publish
  <1>2. /\ phase = "send" /\ i \in 0..(2 * N - 1) /\ s = Turn(i) /\ jobs[s] = {j}
        /\ j = Job(i, phase) /\ \A r \in Seats : r # s => jobs[r] = {}
    BY <1>1, OneJob
  <1>3. j.msg = Link(i)
    BY <1>2 DEF Job
  <1>4. /\ i + 1 \in 0..(2 * N) /\ i \in 0..i /\ (i + 1) - 1 = i /\ (i + 1) - 2 = i - 1
        /\ 0..(i - 1) \subseteq 0..i /\ 0..i \subseteq 0..(2 * N - 1) /\ i + 1 # 0
    BY <1>2, Table
  <1>5. \A r \in Seats : inbox'[r] = inbox[r] \cup {Link(i)}
    BY <1>1, <1>3
  <1>6. /\ ToSet(log'[s]) = ToSet(log[s]) \cup {Link(i)} /\ log'[s] # <<>>
        /\ \A r \in Seats : r # s => log'[r] = log[r]
    <2>1. log'[s] = Append(log[s], Link(i))
      BY <1>1, <1>3
    <2>2. ToSet(Append(log[s], Link(i))) = ToSet(log[s]) \cup {Link(i)} /\ Append(log[s], Link(i)) # <<>>
      BY <1>1, AppendToSet
    <2> QED BY <1>1, <2>1, <2>2
  <1>7. \A r \in Seats : \A m \in inbox'[r] : \E l \in 0..i : m = Link(l)
    <2>1. \A r \in Seats : \A m \in inbox[r] : \E l \in 0..(i - 1) : m = Link(l)
      BY <1>1 DEF Posted
    <2> QED BY <1>4, <1>5, <2>1
  <1>8. ASSUME NEW l \in 0..(i - 1) PROVE Link(l) \notin inbox'[Turn(l + 1)]
    <2>1. l \in 0..(2 * N - 1) /\ l + 1 \in 0..(2 * N - 1) /\ l # i /\ (l = i - 1 \/ l \in 0..(i - 2))
      BY <1>2, <1>4, Table
    <2>2. Link(l) \notin inbox[Turn(l + 1)]
      <3>1. CASE l \in 0..(i - 2)
        BY <1>1, <3>1 DEF Posted
      <3>2. CASE l = i - 1
        <4>1. i # 0 /\ l + 1 = i
          BY <1>2, <3>2
        <4> QED BY <1>1, <1>2, <3>2, <4>1 DEF Underway
      <3> QED BY <2>1, <3>1, <3>2
    <2>3. Link(l) # Link(i)
      BY <1>2, <2>1, Links
    <2> QED BY <1>5, <2>1, <2>2, <2>3, Links
  <1>9. \A r \in Seats : \A m \in ToSet(log'[r]) : \E l \in 0..i : m = Link(l) /\ Turn(l) = r
    <2> SUFFICES ASSUME NEW r \in Seats, NEW m \in ToSet(log'[r])
                 PROVE  \E l \in 0..i : m = Link(l) /\ Turn(l) = r
      OBVIOUS
    <2>1. CASE m \in ToSet(log[r])
      BY <1>1, <1>4, <2>1 DEF Posted
    <2>2. CASE r = s /\ m = Link(i)
      BY <1>2, <1>4, <2>2
    <2> QED BY <1>6, <2>1, <2>2
  <1>10. log'[0] # <<>>
    <2>1. CASE s = 0
      BY <1>6, <2>1
    <2>2. CASE s # 0
      <3>1. i # 0 /\ 0 \in Seats
        BY <1>2, <2>2, Table DEF Turn
      <3> QED BY <1>1, <1>6, <2>2, <3>1 DEF Posted
    <2> QED BY <2>1, <2>2
  <1>11. Posted(i + 1)'
    <2>1. PICK k \in Nat : k = i + 1 /\ k - 1 = i /\ k - 2 = i - 1
      BY <1>4
    <2>2. perm' = perm
      BY <1>1
    <2>3. Posted(k)'
      BY <1>7, <1>8, <1>9, <1>10, <2>1, <2>2, PostedNext
    <2> QED BY <2>1, <2>3
  <1>12. Underway(i + 1, "wait")'
    <2>1. \A r \in Seats : jobs'[r] = {}
      BY <1>1, <1>2
    <2>2. ASSUME i + 1 # 2 * N PROVE Link(i) \in inbox'[Turn(i + 1)]
      <3>1. i + 1 \in 0..(2 * N - 1)
        BY <1>2, <2>2, Table
      <3> QED BY <1>5, <3>1, Links
    <2> QED BY <1>1, <1>4, <2>1, <2>2, SameLinks DEF Underway
  <1>13. Settled(i + 1)'
    <2>1. ASSUME i + 1 = 2 * N PROVE 2 * N - 1 = i
      BY <1>2, <2>1, Table
    <2> QED BY <1>1, <1>5, <2>1, SettledNext
  <1> QED BY <1>4, <1>11, <1>12, <1>13 DEF Stage

\* A step that leaves the turns alone.
LEMMA SameStage ==
    ASSUME NEW i \in 0..(2 * N), NEW phase \in Phases, Stage(i, phase),
           UNCHANGED <<perm, deck, jobs, log, inbox>>
    PROVE  Stage(i, phase)'
  <1>1. Posted(i) /\ Underway(i, phase) /\ Settled(i)
    BY DEF Stage
  <1>2. Posted(i)' /\ Settled(i)'
    <2>1. Posted(i)'
      BY <1>1, PostedLess
    <2>2. Settled(i)'
      BY <1>1, SettledNext DEF Settled
    <2> QED BY <2>1, <2>2
  <1>3. Underway(i, phase)'
    BY <1>1, SameLinks DEF Underway
  <1> QED BY <1>2, <1>3 DEF Stage

-----------------------------------------------------------------------------
\* The invariant of the deal: decks pass from hand to hand as the turns make them.
THEOREM PeerInvariant == Spec => []PeerInv
  <1>1. Init => PeerInv
    BY InitPeerInv
  <1>2. PeerInv /\ [Next]_vars => PeerInv'
    <2> SUFFICES ASSUME PeerInv, [Next]_vars PROVE PeerInv'
      OBVIOUS
    <2>1. CASE StartShuffle
      BY <2>1, StartShuffleInv
    <2>2. CASE \E s \in Seats : \E m \in inbox[s] : Receive(s, m)
      BY <2>2, ReceiveInv
    <2>3. CASE \E s \in Seats : \E j \in jobs[s] : JobStep(s, j)
      BY <2>3, StartRemaskInv, SetRemaskedInv, SendOutInv DEF JobStep
    <2>4. ASSUME NEW s \in Seats, NEW r \in Seats, RevealHoleTo(s, r) PROVE PeerInv'
      BY <2>4, DiscloseInv DEF RevealHoleTo
    <2>5. ASSUME NEW s \in Seats, RevealBoard(s) PROVE PeerInv'
      BY <2>5, DiscloseInv DEF RevealBoard
    <2>6. CASE \E s \in Seats : ServeCatchUp(s)
      BY <2>6, ServeCatchUpInv
    <2>7. CASE UNCHANGED vars
      <3>1. DOMAIN inbox' = Seats /\ \A r \in Seats : inbox'[r] \subseteq inbox[r]
        BY <2>7 DEF vars, PeerInv, Shape
      <3> QED BY <2>7, <3>1, IgnoredInv DEF vars
    <2> QED BY <2>1, <2>2, <2>3, <2>4, <2>5, <2>6, <2>7 DEF Next
  <1> QED BY <1>1, <1>2, PTL DEF Spec

\* Every deck that a seat holds or sends is whole: a permutation leaves no card
\* out, however the turns were taken.
THEOREM PeerTypeTheorem == Spec => []TypeOK
  <1>1. PeerInv => TypeOK
    BY DEF PeerInv, Shape, Mail, Held, Work, Told, Lawful, TypeOK
  <1> QED BY <1>1, PeerInvariant, PTL

\* A card that a seat can read is the card of the committed shuffles: a deck that
\* still bears a shuffle's mask opens to nothing, and any other has its cards.
THEOREM ReadIsRightTheorem == Spec => []ReadIsRight
  <1>1. PeerInv => ReadIsRight
    <2> SUFFICES ASSUME PeerInv, NEW s \in Seats, NEW p \in Positions, CanRead(s, p)
                 PROVE  deck[s][p].card = AfterShuffles[p].card
      BY DEF ReadIsRight
    <2>1. deck[s] # NoDeck /\ deck[s][p].masks = {Mine(o, p) : o \in Seats}
      BY DEF CanRead, Readable
    <2>2. ~\E o \in Seats : ShuffledBy(o, deck[s])
      <3> SUFFICES ASSUME NEW o \in Seats, ShuffledBy(o, deck[s]) PROVE FALSE
        OBVIOUS
      <3>1. Global(o, 1) \in {Mine(x, p) : x \in Seats}
        BY <2>1 DEF ShuffledBy
      <3> QED BY <3>1, OwnNames DEF Mine
    <2>3. RightCards(deck[s])
      BY <2>1, <2>2 DEF PeerInv, Held
    <2> QED BY <2>3 DEF RightCards
  <1> QED BY <1>1, PeerInvariant, PTL

\* Until somebody catches up, the deal is one baton: the turns are taken in order, one
\* at a time, whatever the order in which the copies arrive.
THEOREM ChainInvariant == Spec => []ChainInv
  <1>1. Init => ChainInv
    <2> SUFFICES ASSUME Init PROVE Stage(0, "wait")
      BY Table DEF ChainInv, Phases
    <2>1. \A s \in Seats : inbox[s] = {} /\ jobs[s] = {} /\ ToSet(log[s]) = {}
      BY DEF Init, ToSet
    <2>2. Posted(0) /\ Underway(0, "wait")
      BY <2>1 DEF Posted, Underway
    <2>3. 0 # 2 * N
      BY Table
    <2> QED BY <2>2, <2>3 DEF Stage, Settled
  <1>2. PeerInv /\ ChainInv /\ [Next]_vars => ChainInv'
    <2> SUFFICES ASSUME PeerInv, ChainInv, [Next]_vars, replays' = 0
                 PROVE  \E i \in 0..(2 * N), phase \in Phases : Stage(i, phase)'
      BY DEF ChainInv
    <2>1. replays \in Nat
      BY PeerConstants DEF PeerInv, Shape
    <2>2. ~\E s \in Seats : ServeCatchUp(s)
      BY <2>1 DEF ServeCatchUp
    <2>3. replays = 0
      BY <2>2 DEF Next, vars, StartShuffle, Receive, JobStep, StartRemask, SetRemasked, SendOut,
                  RevealHoleTo, RevealBoard
    <2>4. PICK i \in 0..(2 * N), phase \in Phases : Stage(i, phase)
      BY <2>3 DEF ChainInv
    <2>5. CASE StartShuffle
      BY <2>4, <2>5, StartShuffleStage, Table DEF Phases
    <2>6. CASE \E s \in Seats : \E m \in inbox[s] : Receive(s, m)
      BY <2>4, <2>6, ReceiveStage
    <2>7. CASE \E s \in Seats : \E j \in jobs[s] : JobStep(s, j)
      <3>0. PICK s \in Seats : \E j \in jobs[s] : JobStep(s, j)
        BY <2>7
      <3>1. PICK j \in jobs[s] : JobStep(s, j)
        BY <3>0
      <3>2. CASE StartRemask(s, j)
        BY <2>4, <3>2, StartRemaskStage DEF Phases
      <3>3. CASE SetRemasked(s, j)
        BY <2>4, <3>3, SetRemaskedStage DEF Phases
      <3>4. CASE SendOut(s, j)
        BY <2>4, <3>4, SendOutStage DEF Phases
      <3> QED BY <3>1, <3>2, <3>3, <3>4 DEF JobStep
    <2>8. CASE UNCHANGED <<perm, deck, jobs, log, inbox>>
      <3>1. Stage(i, phase)'
        BY <2>4, <2>8, SameStage
      <3> QED BY <3>1
    <2> QED BY <2>2, <2>5, <2>6, <2>7, <2>8 DEF Next, vars, RevealHoleTo, RevealBoard
  <1> QED BY <1>1, <1>2, PeerInvariant, PTL DEF Spec

\* A deal that came to rest without a catch-up left every seat with the final deck or
\* the last shuffle's, and seat 0 with the final one.
THEOREM QuietDecksTheorem == Spec => []QuietDecks
  <1>1. PeerInv /\ ChainInv => QuietDecks
    <2> SUFFICES ASSUME PeerInv, ChainInv, Quiet, Chained, replays = 0
                 PROVE  /\ deck[0] = FinalDeck
                        /\ \A s \in Seats : deck[s] \in {AfterShuffles, FinalDeck}
      BY DEF QuietDecks
    <2>1. PICK i \in 0..(2 * N), phase \in Phases : Stage(i, phase)
      BY DEF ChainInv
    <2>2. PICK m \in ToSet(log[N - 1]) : m.kind = "remask"
      BY DEF Chained, ToSet
    <2>3. PICK l \in 0..(i - 1) : m = Link(l) /\ Turn(l) = N - 1
      BY <2>1, <2>2, Table DEF Stage, Posted
    <2>4. l \in 0..(2 * N - 1) /\ ~(l < N)
      <3>1. l \in 0..(2 * N - 1)
        BY Table
      <3> QED BY <2>2, <2>3, <3>1, Links
    <2>5. i = 2 * N
      BY <2>3, <2>4, Table DEF Turn
    <2> QED BY <2>1, <2>5, Table DEF Stage, Settled, Quiet
  <1> QED BY <1>1, PeerInvariant, ChainInvariant, PTL
=============================================================================
