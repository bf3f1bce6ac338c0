------------------------- MODULE PokerEngineProofs -------------------------
(***************************************************************************)
(* What PokerEngine promises of one hand, for every number of seats, every *)
(* stack and every blind: the state is well typed (no stack, bet or payout *)
(* goes negative), every seat's chips are accounted for, the board belongs *)
(* to the street and a contested hand is scored only on all of it, the     *)
(* hand is never left with nobody to act, the closed streets cost everyone *)
(* the same, raises are full, the pot is paid exactly and fairly, and      *)
(* every step shortens the hand.                                           *)
(*                                                                         *)
(* None of these is inductive alone.  EngineInv joins the first four with  *)
(* Pauses, which ties the two pauses of a deferred deal to the street, the *)
(* end of the hand and the payouts; RoundInv says what holds in the middle *)
(* of a betting round; PayInv that two seats are live until the hand ends. *)
(* The payouts rest on sums over the side-pot layers: the layers up to an  *)
(* amount hold what all seats put in up to it (LayersHold), each layer is  *)
(* paid out whole (LayerPaid), and the two are summed by rows or columns.  *)
(* That a hand is finite needs TurnInv: seats act in their order round the *)
(* table, so a seat that has acted is asked again only after a raise.      *)
(***************************************************************************)
EXTENDS PokerEngine, FiniteSetTheorems, WellFoundedInduction, TLAPS

NoPayouts == [s \in Seats |-> 0]

\* What a pause means, and that nothing is paid before the hand is done.
Pauses ==
    /\ done => ~awaitingBoard /\ ~awaitingShowdown /\ street = "complete"
    /\ ~done => payouts = NoPayouts /\ street # "complete"
    /\ awaitingBoard =>
          /\ ~awaitingShowdown
          /\ street # "river"
          /\ pendingStreet = After(street)
          /\ pendingBoardCount = CardsFor(street)

EngineInv ==
    /\ TypeOK
    /\ SeatAccounts
    /\ BoardMatchesStreet
    /\ Pauses
    /\ SomeoneActs

\* Seats that are well typed and accounted for, with nothing paid yet.
SeatsOK(ss) ==
    /\ ss \in [Seats -> SeatRecord]
    /\ \A s \in Seats : ss[s].stack + ss[s].totalCommit = bought[s]

-----------------------------------------------------------------------------
(* The least and the greatest of a set of naturals *)

\* A nonempty set of naturals has the minimum that Min chooses.
LEMMA MinOfNaturals ==
    ASSUME NEW T \in SUBSET Nat, T # {}
    PROVE  Min(T) \in T /\ \A y \in T : Min(T) <= y
  <1>1. PICK x \in T : \A y \in T : ~(<<y, x>> \in OpToRel(<, Nat))
    BY NatLessThanWellFounded, WFMin
  <1>2. \A y \in T : x <= y
    <2> SUFFICES ASSUME NEW y \in T PROVE x <= y
      OBVIOUS
    <2>1. ~(y < x)
      BY <1>1 DEF OpToRel
    <2> QED BY <2>1
  <1> QED BY <1>2 DEF Min

\* So has a set of naturals with an upper bound the maximum that Max chooses.
LEMMA MaxOfBounded ==
    ASSUME NEW b \in Nat, NEW T \in SUBSET (0..b), T # {}
    PROVE  Max(T) \in T /\ \A y \in T : y <= Max(T)
  <1> DEFINE D == {b - x : x \in T}
  <1>1. D \in SUBSET Nat /\ D # {}
    <2>1. \A x \in T : x \in Nat /\ x <= b
      OBVIOUS
    <2>2. \A x \in T : b - x \in Nat
      BY <2>1
    <2>3. PICK x0 \in T : TRUE
      OBVIOUS
    <2>4. b - x0 \in D
      OBVIOUS
    <2> QED BY <2>2, <2>4
  <1>2. Min(D) \in D /\ \A d \in D : Min(D) <= d
    BY <1>1, MinOfNaturals
  <1>3. PICK m \in T : Min(D) = b - m
    BY <1>2
  <1>4. \A y \in T : m >= y
    <2> SUFFICES ASSUME NEW y \in T PROVE m >= y
      OBVIOUS
    <2>1. b - y \in D
      OBVIOUS
    <2>2. b - m <= b - y
      BY <1>2, <1>3, <2>1
    <2> QED BY <2>2
  <1>5. Max(T) \in T /\ \A y \in T : Max(T) >= y
    BY <1>4 DEF Max
  <1> QED BY <1>5

-----------------------------------------------------------------------------
(* The seats *)

\* Adding up naturals over the seats gives a natural.
LEMMA SeatSumType ==
    ASSUME NEW f \in [Seats -> Nat]
    PROVE  SeatSum(f) \in Nat
  <1> DEFINE at(s) == IF s < N THEN f[s] ELSE 0
  <1>1. \A s \in 0..5 : at(s) \in Nat
    BY EngineConstants DEF Seats
  <1>2. at(0) \in Nat /\ at(1) \in Nat /\ at(2) \in Nat /\ at(3) \in Nat /\ at(4) \in Nat /\ at(5) \in Nat
    BY <1>1
  <1> HIDE DEF at
  <1>3. at(0) + at(1) + at(2) + at(3) + at(4) + at(5) \in Nat
    BY <1>2
  <1> QED BY <1>3 DEF SeatSum, at

\* Any set of seats is finite, and counts at most six.
LEMMA SeatSetSize ==
    ASSUME NEW T \in SUBSET Seats
    PROVE  /\ IsFiniteSet(T)
           /\ Cardinality(T) \in 0..6
           /\ Cardinality(T) = 0 <=> T = {}
  <1>1. IsFiniteSet(Seats) /\ Cardinality(Seats) = N
    BY FS_Interval, EngineConstants DEF Seats
  <1>2. IsFiniteSet(T) /\ Cardinality(T) <= N
    BY <1>1, FS_Subset
  <1>3. Cardinality(T) \in Nat /\ (Cardinality(T) = 0 <=> T = {})
    BY <1>2, FS_CardinalityType, FS_EmptySet
  <1> QED BY <1>2, <1>3, EngineConstants

\* The seat after `from` that can act is one that can, and there is one
\* whenever anyone can (nextAbleToAct).
LEMMA NextAbleToActSeat ==
    ASSUME NEW ss, NEW from \in Seats
    PROVE  /\ NextAbleToAct(ss, from) \in Able(ss) \cup {NoSeat}
           /\ Able(ss) # {} => NextAbleToAct(ss, from) \in Able(ss)
  <1> DEFINE turns == {k \in 1..N : (from + k) % N \in Able(ss)}
  <1>1. NextAbleToAct(ss, from) = IF turns = {} THEN NoSeat ELSE (from + Min(turns)) % N
    BY DEF NextAbleToAct
  <1>2. turns # {} => (from + Min(turns)) % N \in Able(ss)
    <2>1. turns \in SUBSET Nat
      BY EngineConstants
    <2>2. turns # {} => Min(turns) \in turns
      BY <2>1, MinOfNaturals
    <2> QED BY <2>2
  <1>3. Able(ss) # {} => turns # {}
    <2> SUFFICES ASSUME NEW s \in Able(ss) PROVE turns # {}
      OBVIOUS
    <2>1. s \in 0..(N - 1) /\ from \in 0..(N - 1) /\ N \in 2..6
      BY EngineConstants DEF Able, Live, Seats
    <2> DEFINE k == IF s > from THEN s - from ELSE s - from + N
    <2>2. k \in 1..N
      BY <2>1
    <2>3. (from + k) % N = s
      <3>1. from + k = s \/ from + k = s + N
        BY <2>1
      <3> HIDE DEF k
      <3>2. k \in Int
        BY <2>2
      <3>3. CASE N = 2
        BY <2>1, <3>1, <3>2, <3>3
      <3>4. CASE N = 3
        BY <2>1, <3>1, <3>2, <3>4
      <3>5. CASE N = 4
        BY <2>1, <3>1, <3>2, <3>5
      <3>6. CASE N = 5
        BY <2>1, <3>1, <3>2, <3>6
      <3>7. CASE N = 6
        BY <2>1, <3>1, <3>2, <3>7
      <3> QED BY <2>1, <3>3, <3>4, <3>5, <3>6, <3>7
    <2> QED BY <2>2, <2>3
  <1> QED BY <1>1, <1>2, <1>3

\* Paying into the pot keeps the accounts and never overdraws (commit).
LEMMA CommitOK ==
    ASSUME NEW ss, SeatsOK(ss), NEW s \in Seats, NEW amt \in Nat
    PROVE  SeatsOK(Commit(ss, s, amt))
  <1> DEFINE pay == Lesser(amt, ss[s].stack)
             c == [ss[s] EXCEPT !.stack = @ - pay, !.streetCommit = @ + pay,
                                !.totalCommit = @ + pay, !.allIn = @ \/ ss[s].stack = pay]
  <1>1. ss[s] \in SeatRecord /\ ss \in [Seats -> SeatRecord]
    BY DEF SeatsOK
  <1>2. pay \in Nat /\ pay <= ss[s].stack
    BY <1>1 DEF Lesser, SeatRecord
  <1>3. Commit(ss, s, amt) = [ss EXCEPT ![s] = c]
    BY <1>1 DEF Commit, SeatRecord
  <1> HIDE DEF pay
  <1>4. /\ c \in SeatRecord
        /\ c.stack + c.totalCommit = ss[s].stack + ss[s].totalCommit
    <2> DEFINE r == ss[s]
               a == r.allIn \/ r.stack = pay
    <2>1. c = [r EXCEPT !.stack = r.stack - pay, !.streetCommit = r.streetCommit + pay,
                        !.totalCommit = r.totalCommit + pay, !.allIn = a]
      BY <1>1 DEF SeatRecord
    <2>2. r \in SeatRecord /\ a \in BOOLEAN
      BY <1>1
    <2>3. /\ r.stack - pay \in Nat /\ r.streetCommit + pay \in Nat
          /\ r.totalCommit + pay \in Nat
          /\ (r.stack - pay) + (r.totalCommit + pay) = r.stack + r.totalCommit
      BY <1>2, <2>2 DEF SeatRecord
    <2> HIDE DEF r, a
    <2>4. /\ c \in SeatRecord
          /\ c.stack = r.stack - pay /\ c.totalCommit = r.totalCommit + pay
      BY <2>1, <2>2, <2>3 DEF SeatRecord
    <2> QED BY <2>3, <2>4 DEF r
  <1> HIDE DEF c
  <1> QED BY <1>1, <1>3, <1>4 DEF SeatsOK

\* Marking, folding, reopening the action and clearing the street touch no
\* chips (Apply, advance, nextStreet).
LEMMA MarksOK ==
    ASSUME NEW ss, SeatsOK(ss), toAct \in Seats
    PROVE  /\ SeatsOK(HasActed(ss))
           /\ SeatsOK([ss EXCEPT ![toAct].folded = TRUE])
           /\ SeatsOK(Reopen(ss))
           /\ SeatsOK(FreshStreet(ss))
  <1>1. ss \in [Seats -> SeatRecord]
    BY DEF SeatsOK
  <1>2. \A s \in Seats : ss[s] \in SeatRecord
    BY <1>1
  <1>3. SeatsOK(HasActed(ss))
    BY <1>1, <1>2 DEF SeatsOK, HasActed, SeatRecord
  <1>4. SeatsOK([ss EXCEPT ![toAct].folded = TRUE])
    BY <1>1, <1>2 DEF SeatsOK, SeatRecord
  <1>5. SeatsOK(Reopen(ss))
    BY <1>1, <1>2 DEF SeatsOK, Reopen, SeatRecord
  <1>6. SeatsOK(FreshStreet(ss))
    BY <1>1, <1>2 DEF SeatsOK, FreshStreet, SeatRecord
  <1> QED BY <1>3, <1>4, <1>5, <1>6

-----------------------------------------------------------------------------
(* Paying out *)

\* A layer's bottom is below its top, so the layer holds no negative pot.
LEMMA LayerBottomBelow ==
    ASSUME NEW ss \in [Seats -> SeatRecord], NEW lvl \in Nat
    PROVE  LayerBottom(ss, lvl) \in Nat /\ LayerBottom(ss, lvl) <= lvl
  <1> DEFINE T == {0} \cup {l \in Levels(ss) : l < lvl}
  <1>1. \A l \in Levels(ss) : l \in Nat
    BY DEF Levels, SeatRecord
  <1>2. T \in SUBSET (0..lvl) /\ T # {}
    BY <1>1
  <1>3. Max(T) \in T
    BY <1>2, MaxOfBounded
  <1>4. LayerBottom(ss, lvl) = Max(T)
    BY DEF LayerBottom
  <1> HIDE DEF T
  <1>5. Max(T) \in 0..lvl
    BY <1>2, <1>3
  <1> QED BY <1>4, <1>5

\* A winner's share of a layer is a natural number of chips: splitting the
\* layer never takes more from it than it holds (scoreAndPay).
LEMMA LayerShareType ==
    ASSUME NEW ss \in [Seats -> SeatRecord], NEW sc, NEW lvl \in Nat, NEW s \in Seats
    PROVE  LayerShare(ss, sc, lvl, s) \in Nat
  <1> DEFINE won == Winners(ss, sc, lvl)
             c == Cardinality(won)
             e == Cardinality(Eligible(ss, lvl))
             p == (lvl - LayerBottom(ss, lvl)) * e
  <1>1. won \in SUBSET Seats /\ Eligible(ss, lvl) \in SUBSET Seats
    BY DEF Winners, Contenders, Eligible, Live
  <1>2. e \in 0..6 /\ c \in 0..6 /\ (c = 0 <=> won = {})
    BY <1>1, SeatSetSize
  <1>3. p \in Nat
    <2> DEFINE d == lvl - LayerBottom(ss, lvl)
    <2>1. d \in Nat
      BY LayerBottomBelow
    <2> HIDE DEF d, e
    <2>2. d * e \in Nat
      BY <1>2, <2>1
    <2> QED BY <2>2 DEF d
  <1>4. CASE s \notin won
    BY <1>4 DEF LayerShare
  <1>5. CASE s \in won
    <2>1. c \in 1..6
      BY <1>2, <1>5
    <2>2. /\ p \div c \in Nat
          /\ p - (p \div c) * (c - 1) \in Nat
      <3> HIDE DEF p, c
      <3>1. \A q \in Nat : q \div 1 = q
        OBVIOUS
      <3>2. CASE c = 1 BY <1>3, <3>1, <3>2
      <3>3. CASE c = 2 BY <1>3, <3>3
      <3>4. CASE c = 3 BY <1>3, <3>4
      <3>5. CASE c = 4 BY <1>3, <3>5
      <3>6. CASE c = 5 BY <1>3, <3>6
      <3>7. CASE c = 6 BY <1>3, <3>7
      <3> QED BY <2>1, <3>2, <3>3, <3>4, <3>5, <3>6, <3>7
    <2>3. LayerShare(ss, sc, lvl, s) =
             IF s = Min(won) THEN p - (p \div c) * (c - 1) ELSE p \div c
      BY <1>5 DEF LayerShare
    <2> HIDE DEF p, c, won
    <2> QED BY <2>2, <2>3
  <1> QED BY <1>4, <1>5

\* What the layers pay is a natural number of chips for every seat.
LEMMA WonType ==
    ASSUME NEW ss \in [Seats -> SeatRecord], NEW sc
    PROVE  Won(ss, sc) \in [Seats -> Nat]
  <1> SUFFICES ASSUME NEW s \in Seats
               PROVE  SeatSum([t \in Seats |-> IF Tops(ss, t)
                                 THEN LayerShare(ss, sc, ss[t].totalCommit, s) ELSE 0]) \in Nat
    BY DEF Won
  <1> DEFINE f == [t \in Seats |-> IF Tops(ss, t)
                                 THEN LayerShare(ss, sc, ss[t].totalCommit, s) ELSE 0]
  <1>1. \A t \in Seats : LayerShare(ss, sc, ss[t].totalCommit, s) \in Nat
    BY LayerShareType DEF SeatRecord
  <1>2. f \in [Seats -> Nat]
    BY <1>1
  <1> HIDE DEF f
  <1>3. SeatSum(f) \in Nat
    BY <1>2, SeatSumType
  <1> QED BY <1>3 DEF f

\* Paying winners adds to stacks and touches nothing else.
LEMMA PayOK ==
    ASSUME NEW ss, SeatsOK(ss), NEW won \in [Seats -> Nat], bought \in [Seats -> Nat]
    PROVE  /\ Pay(ss, won) \in [Seats -> SeatRecord]
           /\ \A s \in Seats :
                 Pay(ss, won)[s].stack + Pay(ss, won)[s].totalCommit = bought[s] + won[s]
           /\ Live(Pay(ss, won)) = Live(ss)
  <1>1. \A s \in Seats : /\ ss[s] \in SeatRecord
                         /\ Pay(ss, won)[s] = [ss[s] EXCEPT !.stack = @ + won[s]]
    BY DEF SeatsOK, Pay
  <1>2. \A s \in Seats : /\ Pay(ss, won)[s] \in SeatRecord
                         /\ Pay(ss, won)[s].stack = ss[s].stack + won[s]
                         /\ Pay(ss, won)[s].totalCommit = ss[s].totalCommit
                         /\ Pay(ss, won)[s].folded = ss[s].folded
    <2> SUFFICES ASSUME NEW s \in Seats
                 PROVE  /\ Pay(ss, won)[s] \in SeatRecord
                        /\ Pay(ss, won)[s].stack = ss[s].stack + won[s]
                        /\ Pay(ss, won)[s].totalCommit = ss[s].totalCommit
                        /\ Pay(ss, won)[s].folded = ss[s].folded
      OBVIOUS
    <2> DEFINE r == ss[s]
               w == won[s]
    <2>1. r \in SeatRecord /\ w \in Nat /\ r.stack \in Nat
      BY <1>1 DEF SeatRecord
    <2>2. Pay(ss, won)[s] = [r EXCEPT !.stack = r.stack + w]
      BY <1>1, <2>1 DEF SeatRecord
    <2> HIDE DEF r, w
    <2>3. r.stack + w \in Nat
      BY <2>1
    <2> QED BY <2>1, <2>2, <2>3 DEF SeatRecord, r, w
  <1>3. Pay(ss, won) \in [Seats -> SeatRecord]
    BY <1>2 DEF Pay
  <1>4. Live(Pay(ss, won)) = Live(ss)
    BY <1>2 DEF Live
  <1>5. ASSUME NEW s \in Seats
        PROVE Pay(ss, won)[s].stack + Pay(ss, won)[s].totalCommit = bought[s] + won[s]
    <2>1. ss[s].stack \in Nat /\ ss[s].totalCommit \in Nat /\ bought[s] \in Nat /\ won[s] \in Nat
      BY <1>1 DEF SeatRecord
    <2>2. ss[s].stack + ss[s].totalCommit = bought[s]
      BY DEF SeatsOK
    <2> QED BY <1>2, <2>1, <2>2
  <1> QED BY <1>3, <1>4, <1>5

\* A running hand whose seats are accounted for: what every settlement of
\* cards or chips starts from.
Running(ss) ==
    /\ SeatsOK(ss)
    /\ bought \in [Seats -> Nat]
    /\ score \in [Seats -> Nat]
    /\ ~done
    /\ ~awaitingShowdown
    /\ payouts = NoPayouts

\* What the seats look like once the chips have moved.
PaidOut(ss) ==
    /\ seats' \in [Seats -> SeatRecord]
    /\ payouts' \in [Seats -> Nat]
    /\ score' \in [Seats -> Nat]
    /\ \A s \in Seats : seats'[s].stack + seats'[s].totalCommit = bought[s] + payouts'[s]
    /\ Live(seats') = Live(ss)

\* Scoring the hand pays winners and ends it.
LEMMA ScoreAndPayStep ==
    ASSUME NEW ss, SeatsOK(ss), bought \in [Seats -> Nat], ScoreAndPay(ss)
    PROVE  PaidOut(ss) /\ done' = TRUE /\ street' = "complete" /\ toAct' = NoSeat
  <1>1. PICK sc \in [Seats -> Scores] :
           score' = sc /\ payouts' = Won(ss, sc) /\ seats' = Pay(ss, Won(ss, sc))
    BY DEF ScoreAndPay
  <1>2. sc \in [Seats -> Nat]
    BY EngineConstants
  <1>3. Won(ss, sc) \in [Seats -> Nat]
    BY WonType DEF SeatsOK
  <1>4. PaidOut(ss)
    BY <1>1, <1>2, <1>3, PayOK DEF PaidOut
  <1> QED BY <1>4 DEF ScoreAndPay

\* Settling ends the hand with everyone accounted for, or, in deferred mode,
\* pauses it for the showdown with nothing paid.
LEMMA SettleStep ==
    ASSUME NEW ss, Running(ss), NEW str, Settle(ss, str)
    PROVE  /\ PaidOut(ss)
           /\ toAct' = NoSeat
           /\ \/ /\ done' = TRUE
                 /\ street' = "complete"
                 /\ awaitingShowdown' = awaitingShowdown
              \/ /\ done' = done
                 /\ awaitingShowdown' = TRUE
                 /\ street' = str
                 /\ payouts' = NoPayouts
                 /\ deferReveal
                 /\ Cardinality(Live(ss)) # 1
  <1>1. CASE AwardUncontested(ss) /\ UNCHANGED awaitingShowdown
    <2> DEFINE f == [s \in Seats |-> ss[s].totalCommit]
               won == [s \in Seats |-> IF s \in Live(ss) THEN SeatSum(f) ELSE 0]
    <2>1. f \in [Seats -> Nat]
      BY DEF Running, SeatsOK, SeatRecord
    <2>2. payouts' = won /\ seats' = Pay(ss, won) /\ UNCHANGED score
      BY <1>1 DEF AwardUncontested
    <2> HIDE DEF f
    <2>3. won \in [Seats -> Nat]
      BY <2>1, SeatSumType
    <2> HIDE DEF won
    <2>4. PaidOut(ss)
      BY <2>2, <2>3, PayOK DEF PaidOut, Running
    <2> QED BY <1>1, <2>4 DEF AwardUncontested
  <1>2. CASE /\ Cardinality(Live(ss)) # 1
             /\ deferReveal
             /\ awaitingShowdown' = TRUE
             /\ toAct' = NoSeat
             /\ seats' = ss
             /\ street' = str
             /\ UNCHANGED <<done, payouts, score>>
    <2>1. payouts' = NoPayouts /\ NoPayouts \in [Seats -> Nat]
      BY <1>2 DEF Running, NoPayouts
    <2>2. \A s \in Seats : bought[s] + payouts'[s] = bought[s]
      BY <2>1 DEF Running, NoPayouts
    <2>3. PaidOut(ss)
      BY <1>2, <2>1, <2>2 DEF PaidOut, Running, SeatsOK
    <2> QED BY <1>2, <2>1, <2>3
  <1>3. CASE ScoreAndPay(ss) /\ UNCHANGED awaitingShowdown
    BY <1>3, ScoreAndPayStep DEF Running
  <1> QED BY <1>1, <1>2, <1>3 DEF Settle

-----------------------------------------------------------------------------
(* What each way to leave a betting round establishes *)

\* The board that belongs to a street on which there is still play.
BoardOf(str) ==
    CASE str = "preflop" -> 0 [] str = "flop" -> 3 [] str = "turn" -> 4 [] OTHER -> 5

Playing == {"preflop", "flop", "turn", "river"}

\* What a step leaves well typed besides the seats and the turn.
Numbers ==
    /\ currentBet' \in Nat
    /\ minRaise' \in Nat
    /\ pendingBoardCount' \in 0..3
    /\ pendingStreet' \in Streets

\* Settling a hand: only a last live seat, or the full board, may settle it.
LEMMA SettledInv ==
    ASSUME EngineInv, NEW ss, Running(ss), NEW str \in Playing, Settle(ss, str),
           board' \in 0..5, Cardinality(Live(ss)) # 1 => str = "river" /\ board' = 5,
           awaitingBoard' = FALSE, Numbers, UNCHANGED configVars
    PROVE  EngineInv'
  <1>1. PaidOut(ss) /\ toAct' = NoSeat
    BY SettleStep
  <1>2. \/ /\ done' = TRUE /\ street' = "complete" /\ awaitingShowdown' = FALSE
        \/ /\ done' = FALSE /\ awaitingShowdown' = TRUE /\ street' = str
           /\ payouts' = NoPayouts /\ Cardinality(Live(ss)) # 1
    <2>1. awaitingShowdown = FALSE /\ done = FALSE
      BY DEF Running, EngineInv, TypeOK
    <2> QED BY <2>1, SettleStep
  <1>3. Cardinality(Live(seats')) = Cardinality(Live(ss)) /\ Cardinality(Live(ss)) \in Nat
    <2>1. Live(ss) \in SUBSET Seats
      BY DEF Live
    <2>2. Cardinality(Live(ss)) \in 0..6
      BY <2>1, SeatSetSize
    <2> QED BY <1>1, <2>2 DEF PaidOut
  <1>4. TypeOK'
    BY <1>1, <1>2 DEF PaidOut, Numbers, EngineInv, TypeOK, configVars, Streets, Playing
  <1>5. SeatAccounts'
    BY <1>1 DEF PaidOut, SeatAccounts, configVars
  <1>6. BoardMatchesStreet'
    BY <1>2, <1>3 DEF BoardMatchesStreet
  <1>7. Pauses'
    BY <1>2 DEF Pauses, NoPayouts, Playing
  <1>8. SomeoneActs'
    BY <1>2 DEF SomeoneActs
  <1> QED BY <1>4, <1>5, <1>6, <1>7, <1>8 DEF EngineInv

\* Betting goes on, or opens on a street whose cards are out.
LEMMA BettingInv ==
    ASSUME EngineInv, NEW ss, Running(ss), seats' = ss, toAct' \in Able(ss),
           street' \in Playing, board' = BoardOf(street'),
           awaitingBoard' = FALSE, UNCHANGED <<done, awaitingShowdown, payouts, score>>,
           Numbers, UNCHANGED configVars
    PROVE  EngineInv'
  <1>1. done' = FALSE /\ awaitingShowdown' = FALSE /\ payouts' = NoPayouts
    BY DEF Running, EngineInv, TypeOK
  <1>2. toAct' \in Seats
    BY DEF Able, Live
  <1>3. board' \in 0..5
    BY DEF BoardOf, Playing
  <1>4. TypeOK'
    BY <1>1, <1>2, <1>3 DEF Running, SeatsOK, Numbers, EngineInv, TypeOK, configVars, Streets, Playing
  <1>5. SeatAccounts'
    <2>1. \A s \in Seats : bought[s] + NoPayouts[s] = bought[s]
      BY DEF Running, NoPayouts
    <2> QED BY <1>1, <2>1 DEF Running, SeatsOK, SeatAccounts, configVars
  <1>6. BoardMatchesStreet'
    BY <1>1 DEF BoardMatchesStreet, BoardOf, Playing
  <1>7. Pauses'
    BY <1>1 DEF Pauses, NoPayouts, Playing
  <1>8. SomeoneActs'
    BY DEF SomeoneActs
  <1> QED BY <1>4, <1>5, <1>6, <1>7, <1>8 DEF EngineInv

\* The hand pauses until the seats reveal the next street.
LEMMA PausedInv ==
    ASSUME EngineInv, NEW ss, Running(ss), NEW str \in Playing, str # "river",
           PauseForBoard(ss, str), board' = BoardOf(str),
           currentBet' \in Nat, minRaise' \in Nat, UNCHANGED configVars
    PROVE  EngineInv'
  <1>1. /\ done' = FALSE /\ awaitingShowdown' = FALSE /\ payouts' = NoPayouts
        /\ score' = score /\ seats' = ss /\ street' = str /\ toAct' = NoSeat
        /\ awaitingBoard' = TRUE
        /\ pendingStreet' = After(str) /\ pendingBoardCount' = CardsFor(str)
    BY DEF Running, EngineInv, TypeOK, PauseForBoard
  <1>2. board' \in 0..5 /\ After(str) \in Streets /\ CardsFor(str) \in 0..3
    BY DEF BoardOf, Playing, After, Streets, CardsFor
  <1>3. TypeOK'
    BY <1>1, <1>2 DEF Running, SeatsOK, EngineInv, TypeOK, configVars, Streets, Playing
  <1>4. SeatAccounts'
    <2>1. \A s \in Seats : bought[s] + NoPayouts[s] = bought[s]
      BY DEF Running, NoPayouts
    <2> QED BY <1>1, <2>1 DEF Running, SeatsOK, SeatAccounts, configVars
  <1>5. BoardMatchesStreet'
    BY <1>1 DEF BoardMatchesStreet, BoardOf, Playing
  <1>6. Pauses'
    BY <1>1 DEF Pauses, NoPayouts, Playing
  <1>7. SomeoneActs'
    BY <1>1 DEF SomeoneActs
  <1> QED BY <1>3, <1>4, <1>5, <1>6, <1>7 DEF EngineInv

\* What EngineInv says of a round in which a seat may act.
LEMMA RoundFacts ==
    ASSUME EngineInv, ~done, ~awaitingShowdown
    PROVE  /\ street \in Playing /\ board = BoardOf(street)
           /\ payouts = NoPayouts /\ bought \in [Seats -> Nat] /\ score \in [Seats -> Nat]
           /\ SeatsOK(seats)
  <1>1. street \in Playing /\ board = BoardOf(street) /\ payouts = NoPayouts
    BY DEF EngineInv, TypeOK, Streets, Playing, BoardMatchesStreet, BoardOf, Pauses
  <1>2. bought \in [Seats -> Nat] /\ score \in [Seats -> Nat]
    BY EngineConstants DEF EngineInv, TypeOK
  <1>3. \A s \in Seats : seats[s].stack + seats[s].totalCommit = bought[s]
    BY <1>1, <1>2 DEF EngineInv, SeatAccounts, NoPayouts
  <1>4. SeatsOK(seats)
    BY <1>3 DEF EngineInv, TypeOK, SeatsOK
  <1> QED BY <1>1, <1>2, <1>4

\* Leaving a street: it settles on the river, pauses for cards in deferred
\* mode, and otherwise opens the next street or runs the board out.
LEMMA NextStreetInv ==
    ASSUME EngineInv, NEW ss, Running(ss), ~awaitingBoard, toAct \in Seats,
           NEW bet \in Nat, NEW raise \in Nat, NextStreet(ss, bet, raise),
           UNCHANGED configVars
    PROVE  EngineInv'
  <1>1. street \in Playing /\ board = BoardOf(street)
    BY RoundFacts DEF Running
  <1>2. awaitingBoard = FALSE /\ pendingBoardCount \in 0..3 /\ pendingStreet \in Streets
        /\ button \in Seats /\ BigBlind \in Nat
    BY EngineConstants DEF EngineInv, TypeOK
  <1>3. CASE street = "river" /\ Settle(ss, street)
    <2>1. board' = 5 /\ awaitingBoard' = FALSE /\ Numbers
      BY <1>1, <1>2, <1>3 DEF NextStreet, BoardOf, Numbers
    <2>2. board' \in 0..5
      BY <2>1
    <2> QED BY <1>1, <1>3, <2>1, <2>2, SettledInv
  <1> DEFINE fresh == FreshStreet(ss)
  <1>4. Running(fresh)
    BY MarksOK DEF Running
  <1>5. CASE street # "river" /\ PauseForBoard(fresh, street) /\ UNCHANGED board
    <2>1. currentBet' \in Nat /\ minRaise' \in Nat
      BY <1>2, <1>5 DEF NextStreet
    <2> HIDE DEF fresh
    <2> QED BY <1>1, <1>4, <1>5, <2>1, PausedInv
  <1>6. CASE street # "river" /\ DealBoard(fresh)
    <2>1. Numbers /\ awaitingBoard' = FALSE
      BY <1>2, <1>6 DEF NextStreet, DealBoard, Numbers
    <2> HIDE DEF fresh
    <2>2. CASE OpenBetting(fresh, After(street)) /\ board' = board + CardsFor(street)
      <3>1. After(street) \in Playing /\ board' = BoardOf(After(street))
        BY <1>1, <1>6, <2>2 DEF Playing, After, CardsFor, BoardOf
      <3>2. toAct' \in Able(fresh)
        <4>1. Able(fresh) \in SUBSET Seats
          BY DEF Able, Live
        <4>2. Able(fresh) # {}
          BY <2>2, <4>1, SeatSetSize DEF OpenBetting
        <4> QED BY <1>2, <2>2, <4>2, NextAbleToActSeat DEF OpenBetting
      <3> QED BY <1>4, <2>1, <2>2, <3>1, <3>2, BettingInv DEF OpenBetting
    <2>3. CASE Settle(fresh, "river") /\ board' = 5
      <3>1. board' \in 0..5 /\ "river" \in Playing
        BY <2>3 DEF Playing
      <3> QED BY <1>4, <2>1, <2>3, <3>1, SettledInv
    <2> QED BY <1>6, <2>2, <2>3 DEF DealBoard
  <1> QED BY <1>3, <1>5, <1>6 DEF NextStreet

\* advance() keeps the invariant whatever the seat that acted did.
LEMMA AdvanceInv ==
    ASSUME EngineInv, MayAct, NEW ss, SeatsOK(ss),
           NEW bet \in Nat, NEW raise \in Nat, Advance(ss, bet, raise), UNCHANGED configVars
    PROVE  EngineInv'
  <1>1. /\ street \in Playing /\ board = BoardOf(street)
        /\ payouts = NoPayouts /\ bought \in [Seats -> Nat] /\ score \in [Seats -> Nat]
    BY RoundFacts DEF MayAct
  <1>2. Running(ss)
    BY <1>1 DEF Running, MayAct
  <1>3. toAct \in Seats /\ ~awaitingBoard /\ awaitingBoard = FALSE
        /\ pendingBoardCount \in 0..3 /\ pendingStreet \in Streets
    BY DEF MayAct, EngineInv, TypeOK
  <1>4. CASE Cardinality(Live(ss)) = 1 /\ Settle(ss, street)
    <2>1. UNCHANGED <<board, awaitingBoard>> /\ Numbers
      BY <1>3, <1>4 DEF Advance, Numbers
    <2>2. board' \in 0..5
      BY <1>1, <2>1 DEF BoardOf, Playing
    <2> QED BY <1>1, <1>2, <1>3, <1>4, <2>1, <2>2, SettledInv
  <1>5. CASE /\ NextAbleToAct(ss, toAct) # NoSeat
             /\ toAct' = NextAbleToAct(ss, toAct)
             /\ seats' = ss
             /\ currentBet' = bet
             /\ minRaise' = raise
             /\ UNCHANGED <<street, board, done, pauseVars, payouts, score>>
    <2>1. toAct' \in Able(ss)
      BY <1>3, <1>5, NextAbleToActSeat
    <2>2. Numbers /\ awaitingBoard' = FALSE
          /\ UNCHANGED <<done, awaitingShowdown, payouts, score>>
      BY <1>3, <1>5 DEF Numbers, pauseVars
    <2>3. street' \in Playing /\ board' = BoardOf(street')
      BY <1>1, <1>5 DEF BoardOf
    <2> QED BY <1>2, <1>5, <2>1, <2>2, <2>3, BettingInv
  <1>6. CASE NextStreet(ss, bet, raise)
    BY <1>2, <1>3, <1>6, NextStreetInv
  <1> QED BY <1>4, <1>5, <1>6 DEF Advance

-----------------------------------------------------------------------------
(* The actions *)

\* Seat numbers wrap around the table; neither of the next two seats is the
\* seat itself when at least three play.
LEMMA SeatsWrap ==
    ASSUME NEW s \in Seats
    PROVE  /\ (s + 1) % N \in Seats /\ (s + 2) % N \in Seats
           /\ (s + 1) % N # s
           /\ N > 2 => (s + 2) % N # s
  <1>1. s \in 0..(N - 1) /\ N \in 2..6
    BY EngineConstants DEF Seats
  <1>2. CASE N = 2 BY <1>1, <1>2 DEF Seats
  <1>3. CASE N = 3 BY <1>1, <1>3 DEF Seats
  <1>4. CASE N = 4 BY <1>1, <1>4 DEF Seats
  <1>5. CASE N = 5 BY <1>1, <1>5 DEF Seats
  <1>6. CASE N = 6 BY <1>1, <1>6 DEF Seats
  <1> QED BY <1>1, <1>2, <1>3, <1>4, <1>5, <1>6

\* The blinds are posted by two seats of the table (New).
LEMMA BlindSeats ==
    ASSUME button \in Seats
    PROVE  sbSeat \in Seats /\ bbSeat \in Seats /\ sbSeat # bbSeat
  <1>1. CASE N = 2
    BY <1>1, SeatsWrap DEF sbSeat, bbSeat
  <1>2. CASE N # 2
    <2>1. button \in 0..(N - 1) /\ N \in 3..6
      BY <1>2, EngineConstants DEF Seats
    <2>2. (button + 1) % N # (button + 2) % N
      <3>1. CASE N = 3 BY <2>1, <3>1
      <3>2. CASE N = 4 BY <2>1, <3>2
      <3>3. CASE N = 5 BY <2>1, <3>3
      <3>4. CASE N = 6 BY <2>1, <3>4
      <3> QED BY <2>1, <3>1, <3>2, <3>3, <3>4
    <2> QED BY <1>2, <2>2, SeatsWrap DEF sbSeat, bbSeat
  <1> QED BY <1>1, <1>2

\* A payment leaves the other seats alone, and a seat that had more than it
\* paid is still able to act.
LEMMA CommitLeaves ==
    ASSUME NEW ss \in [Seats -> SeatRecord], NEW s \in Seats, NEW amt \in Nat
    PROVE  /\ \A o \in Seats \ {s} : Commit(ss, s, amt)[o] = ss[o]
           /\ s \in Able(ss) /\ ss[s].stack > amt => s \in Able(Commit(ss, s, amt))
  <1>1. \A o \in Seats \ {s} : Commit(ss, s, amt)[o] = ss[o]
    BY DEF Commit
  <1>2. ASSUME s \in Able(ss), ss[s].stack > amt
        PROVE  s \in Able(Commit(ss, s, amt))
    <2>1. ss[s] \in SeatRecord /\ ss[s].stack \in Nat
      BY DEF SeatRecord
    <2>2. Lesser(amt, ss[s].stack) = amt /\ ss[s].stack # amt
      BY <1>2, <2>1 DEF Lesser
    <2>3. /\ Commit(ss, s, amt)[s].folded = ss[s].folded
          /\ Commit(ss, s, amt)[s].allIn = (ss[s].allIn \/ ss[s].stack = amt)
      BY <2>1, <2>2 DEF Commit, SeatRecord
    <2>4. ~ss[s].folded /\ ~ss[s].allIn
      BY <1>2 DEF Able, Live
    <2> QED BY <2>2, <2>3, <2>4 DEF Able, Live
  <1> QED BY <1>1, <1>2

\* New posts the blinds and leaves someone to act, unless they put both
\* heads-up seats all in.
LEMMA InitInv == Init => EngineInv
  <1> SUFFICES ASSUME Init PROVE EngineInv
    OBVIOUS
  <1> DEFINE new == NewSeats(bought)
             small == Commit(new, sbSeat, SmallBlind)
             both == Commit(small, bbSeat, BigBlind)
  <1>1. /\ button \in Seats /\ bought \in [Seats -> Stacks] /\ bought \in [Seats -> Nat]
        /\ SmallBlind \in Nat /\ BigBlind \in Nat
        /\ \A s \in Seats : bought[s] \in Nat
    BY EngineConstants DEF Init
  <1>2. sbSeat \in Seats /\ bbSeat \in Seats /\ sbSeat # bbSeat
    BY <1>1, BlindSeats
  <1>3. SeatsOK(new) /\ \A s \in Seats : new[s].stack = bought[s] /\ s \in Able(new)
    BY <1>1 DEF SeatsOK, NewSeats, SeatRecord, Able, Live
  <1> HIDE DEF new
  <1>4. SeatsOK(small)
    BY <1>1, <1>2, <1>3, CommitOK
  <1> HIDE DEF small
  <1>5. SeatsOK(both)
    BY <1>1, <1>2, <1>4, CommitOK
  <1>6. seats = both
    BY DEF Init, new, small
  <1> HIDE DEF both
  <1>7. toAct = NextAbleToAct(both, bbSeat)
    BY <1>6 DEF Init
  <1>8. toAct \in Seats \cup {NoSeat} /\ (Able(both) # {} => toAct \in Able(both))
    BY <1>2, <1>7, NextAbleToActSeat DEF Able, Live
  <1>9. BlindsLeaveAPlayer => Able(both) # {}
    <2>1. new \in [Seats -> SeatRecord] /\ small \in [Seats -> SeatRecord]
      BY <1>3, <1>4 DEF SeatsOK
    <2>2. /\ \A o \in Seats \ {sbSeat} : small[o] = new[o]
          /\ bought[sbSeat] > SmallBlind => sbSeat \in Able(small)
      BY <1>1, <1>2, <1>3, <2>1, CommitLeaves DEF small
    <2>3. /\ \A o \in Seats \ {bbSeat} : both[o] = small[o]
          /\ bbSeat \in Able(small) /\ small[bbSeat].stack > BigBlind => bbSeat \in Able(both)
      BY <1>1, <1>2, <2>1, CommitLeaves DEF both
    <2>4. CASE N > 2
      <3>1. button # sbSeat /\ button # bbSeat
        BY <1>1, <2>4, SeatsWrap, EngineConstants DEF sbSeat, bbSeat
      <3>2. both[button] = new[button] /\ button \in Able(new)
        BY <1>1, <1>3, <2>2, <2>3, <3>1
      <3> QED BY <1>1, <3>2 DEF Able, Live
    <2>5. CASE bought[sbSeat] > SmallBlind
      <3>1. both[sbSeat] = small[sbSeat] /\ sbSeat \in Able(small)
        BY <1>2, <2>2, <2>3, <2>5
      <3> QED BY <1>2, <3>1 DEF Able, Live
    <2>6. CASE bought[bbSeat] > BigBlind
      <3>1. small[bbSeat] = new[bbSeat] /\ bbSeat \in Able(new) /\ new[bbSeat].stack = bought[bbSeat]
        BY <1>2, <1>3, <2>2
      <3>2. bbSeat \in Able(small)
        BY <1>2, <3>1 DEF Able, Live
      <3> QED BY <2>3, <2>6, <3>1, <3>2
    <2> QED BY <2>4, <2>5, <2>6 DEF BlindsLeaveAPlayer
  <1>10. Min(Scores) \in Nat
    BY MinOfNaturals, EngineConstants
  <1>11. TypeOK
    <2>1. seats \in [Seats -> SeatRecord]
      BY <1>5, <1>6 DEF SeatsOK
    <2>2. payouts \in [Seats -> Nat] /\ score \in [Seats -> Nat]
      BY <1>10 DEF Init
    <2>3. /\ board = 0 /\ street = "preflop" /\ currentBet = BigBlind /\ minRaise = BigBlind
          /\ done = FALSE /\ awaitingBoard = FALSE /\ pendingBoardCount = 0
          /\ pendingStreet = "preflop" /\ awaitingShowdown = FALSE /\ deferReveal \in BOOLEAN
      BY DEF Init
    <2>4. /\ board \in 0..5 /\ currentBet \in Nat /\ minRaise \in Nat
          /\ pendingBoardCount \in 0..3
      BY <1>1, <2>3
    <2>5. street \in Streets /\ pendingStreet \in Streets
      BY <2>3 DEF Streets
    <2>6. /\ done \in BOOLEAN /\ awaitingBoard \in BOOLEAN /\ awaitingShowdown \in BOOLEAN
          /\ deferReveal \in BOOLEAN
      BY <2>3
    <2> QED BY <1>1, <1>8, <2>1, <2>2, <2>4, <2>5, <2>6 DEF TypeOK
  <1>12. SeatAccounts
    <2>1. \A s \in Seats : payouts[s] = 0
      BY DEF Init
    <2> QED BY <1>1, <1>5, <1>6, <2>1 DEF SeatAccounts, SeatsOK
  <1>13. BoardMatchesStreet /\ Pauses
    BY DEF Init, BoardMatchesStreet, Pauses, NoPayouts
  <1>14. SomeoneActs
    BY <1>6, <1>8, <1>9 DEF SomeoneActs
  <1> QED BY <1>11, <1>12, <1>13, <1>14 DEF EngineInv

\* The actions of a seat: each commits a natural amount at most and advances.
LEMMA ActInv ==
    ASSUME EngineInv, Act
    PROVE  EngineInv'
  <1>1. MayAct /\ UNCHANGED configVars
    BY DEF Act, Fold, Check, Call, BetOrRaise
  <1>2. SeatsOK(seats)
    BY <1>1, RoundFacts DEF MayAct
  <1>3. /\ toAct \in Seats /\ seats[toAct] \in SeatRecord
        /\ seats[toAct].streetCommit \in Nat /\ seats[toAct].stack \in Nat
        /\ currentBet \in Nat /\ minRaise \in Nat
    BY <1>1 DEF MayAct, EngineInv, TypeOK, SeatRecord
  <1>4. CASE Fold
    <2> DEFINE f == [seats EXCEPT ![toAct].folded = TRUE]
    <2>1. SeatsOK(f)
      BY <1>2, <1>3, MarksOK
    <2> HIDE DEF f
    <2>2. SeatsOK(HasActed(f))
      BY <1>3, <2>1, MarksOK
    <2>3. Advance(HasActed(f), currentBet, minRaise)
      BY <1>4 DEF Fold, f
    <2> QED BY <1>1, <1>3, <2>2, <2>3, AdvanceInv
  <1>5. CASE Check
    <2>1. SeatsOK(HasActed(seats)) /\ Advance(HasActed(seats), currentBet, minRaise)
      BY <1>2, <1>3, <1>5, MarksOK DEF Check
    <2> QED BY <1>1, <1>3, <2>1, AdvanceInv
  <1>6. CASE Call
    <2>1. ToCall \in Nat
      BY <1>3, <1>6 DEF Call, ToCall
    <2> DEFINE c == Commit(seats, toAct, ToCall)
    <2>2. SeatsOK(c)
      BY <1>2, <1>3, <2>1, CommitOK
    <2> HIDE DEF c
    <2>3. SeatsOK(HasActed(c))
      BY <1>3, <2>2, MarksOK
    <2>4. Advance(HasActed(c), currentBet, minRaise)
      BY <1>6 DEF Call, c
    <2> QED BY <1>1, <1>3, <2>3, <2>4, AdvanceInv
  <1>7. ASSUME NEW to \in 1..MaxChips, BetOrRaise(to)
        PROVE  EngineInv'
    <2> DEFINE target == Lesser(to, MaxTo)
               amt == target - seats[toAct].streetCommit
               paid == Commit(seats, toAct, amt)
               increment == target - currentBet
               raise == IF increment >= minRaise THEN increment ELSE minRaise
    <2>1. MaxTo \in Nat /\ to \in Int
      BY <1>3 DEF MaxTo
    <2>2. target \in Int
      BY <2>1 DEF Lesser
    <2>3. target > seats[toAct].streetCommit
      BY <1>7 DEF BetOrRaise
    <2> HIDE DEF target
    <2>4. amt \in Nat /\ target \in Nat /\ raise \in Nat
      BY <1>3, <2>2, <2>3
    <2> HIDE DEF amt
    <2>5. SeatsOK(paid)
      BY <1>2, <1>3, <2>4, CommitOK
    <2>6. \/ Advance(HasActed(Reopen(paid)), target, raise)
          \/ Advance(HasActed(paid), currentBet, minRaise)
      BY <1>7 DEF BetOrRaise, target, amt
    <2> HIDE DEF paid, raise
    <2>7. SeatsOK(HasActed(paid)) /\ SeatsOK(HasActed(Reopen(paid)))
      BY <1>3, <2>5, MarksOK
    <2> QED BY <1>1, <1>3, <2>4, <2>6, <2>7, AdvanceInv
  <1> QED BY <1>4, <1>5, <1>6, <1>7 DEF Act

\* The revealed cards arrive: the board grows by what was awaited.
LEMMA SupplyBoardInv ==
    ASSUME EngineInv, SupplyBoard
    PROVE  EngineInv'
  <1>1. /\ ~done /\ ~awaitingShowdown /\ street # "river"
        /\ pendingStreet = After(street) /\ pendingBoardCount = CardsFor(street)
        /\ UNCHANGED configVars /\ board' = board + pendingBoardCount
    BY DEF EngineInv, Pauses, SupplyBoard
  <1>2. /\ street \in Playing /\ board = BoardOf(street) /\ Running(seats)
    BY <1>1, RoundFacts DEF Running
  <1>3. pendingStreet \in Playing /\ board' = BoardOf(pendingStreet)
    BY <1>1, <1>2 DEF Playing, After, CardsFor, BoardOf
  <1>4. /\ button \in Seats /\ BigBlind \in Nat /\ currentBet \in Nat /\ minRaise \in Nat
        /\ pendingStreet \in Streets
    BY EngineConstants DEF EngineInv, TypeOK
  <1>5. CASE /\ OpenBetting(seats, pendingStreet)
             /\ awaitingBoard' = FALSE
             /\ pendingBoardCount' = 0
             /\ UNCHANGED <<pendingStreet, currentBet, minRaise>>
    <2>1. Numbers
      BY <1>4, <1>5 DEF Numbers
    <2>2. toAct' \in Able(seats)
      <3>1. Able(seats) \in SUBSET Seats
        BY DEF Able, Live
      <3>2. Able(seats) # {}
        BY <1>5, <3>1, SeatSetSize DEF OpenBetting
      <3> QED BY <1>4, <1>5, <3>2, NextAbleToActSeat DEF OpenBetting
    <2>3. street' \in Playing /\ board' = BoardOf(street') /\ seats' = seats
          /\ UNCHANGED <<done, awaitingShowdown, payouts, score>>
      BY <1>3, <1>5 DEF OpenBetting
    <2> QED BY <1>1, <1>2, <1>5, <2>1, <2>2, <2>3, BettingInv
  <1>6. CASE /\ pendingStreet # "river"
             /\ PauseForBoard(FreshStreet(seats), pendingStreet)
             /\ currentBet' = 0
             /\ minRaise' = BigBlind
    <2>1. Running(FreshStreet(seats))
      <3>1. SeatsOK(FreshStreet(seats))
        BY <1>2 DEF Running, SeatsOK, FreshStreet, SeatRecord
      <3> QED BY <1>2, <3>1 DEF Running
    <2>2. currentBet' \in Nat /\ minRaise' \in Nat
      BY <1>4, <1>6
    <2> QED BY <1>1, <1>3, <1>6, <2>1, <2>2, PausedInv
  <1>7. CASE /\ pendingStreet = "river"
             /\ Settle(seats, pendingStreet)
             /\ awaitingBoard' = FALSE
             /\ pendingBoardCount' = 0
             /\ UNCHANGED <<pendingStreet, currentBet, minRaise>>
    <2>1. Numbers
      BY <1>4, <1>7 DEF Numbers
    <2>2. board' = 5 /\ board' \in 0..5
      BY <1>3, <1>7 DEF BoardOf
    <2> QED BY <1>1, <1>2, <1>3, <1>7, <2>1, <2>2, SettledInv
  <1> QED BY <1>5, <1>6, <1>7 DEF SupplyBoard

\* The showdown: the deferred hand is scored on the full board.
LEMMA CompleteShowdownInv ==
    ASSUME EngineInv, CompleteShowdown
    PROVE  EngineInv'
  <1>1. /\ awaitingShowdown /\ ~done /\ ~awaitingBoard /\ board = 5
    BY DEF EngineInv, Pauses, BoardMatchesStreet, CompleteShowdown
  <1>2. /\ payouts = NoPayouts /\ bought \in [Seats -> Nat]
    BY <1>1, EngineConstants DEF EngineInv, Pauses, TypeOK
  <1>3. SeatsOK(seats)
    <2>1. \A s \in Seats : seats[s].stack + seats[s].totalCommit = bought[s]
      BY <1>2 DEF EngineInv, SeatAccounts, NoPayouts
    <2> QED BY <2>1 DEF EngineInv, TypeOK, SeatsOK
  <1>4. PaidOut(seats) /\ done' = TRUE /\ street' = "complete" /\ toAct' = NoSeat
    BY <1>2, <1>3, ScoreAndPayStep DEF CompleteShowdown
  <1>5. /\ awaitingShowdown' = FALSE
        /\ UNCHANGED <<board, currentBet, minRaise, awaitingBoard, pendingBoardCount,
                       pendingStreet, button, deferReveal, bought>>
    BY DEF CompleteShowdown, configVars
  <1>6. TypeOK'
    BY <1>4, <1>5 DEF EngineInv, TypeOK, PaidOut, Streets
  <1>7. SeatAccounts'
    BY <1>4, <1>5 DEF SeatAccounts, PaidOut
  <1>8. BoardMatchesStreet' /\ Pauses' /\ SomeoneActs'
    BY <1>1, <1>4, <1>5 DEF BoardMatchesStreet, Pauses, SomeoneActs
  <1> QED BY <1>6, <1>7, <1>8 DEF EngineInv

-----------------------------------------------------------------------------
(* The theorems *)

\* EngineInv is an invariant of every hand.
THEOREM EngineInvariant == Spec => []EngineInv
  <1>1. EngineInv /\ [Next]_vars => EngineInv'
    <2> SUFFICES ASSUME EngineInv, [Next]_vars PROVE EngineInv'
      OBVIOUS
    <2>1. CASE UNCHANGED vars
      BY <2>1 DEF vars, seatVars, turnVars, pauseVars, configVars, EngineInv, TypeOK,
                  SeatAccounts, BoardMatchesStreet, Pauses, SomeoneActs, NoPayouts,
                  BlindsLeaveAPlayer, sbSeat, bbSeat, Live, Able
    <2>2. CASE Act
      BY <2>2, ActInv
    <2>3. CASE SupplyBoard
      BY <2>3, SupplyBoardInv
    <2>4. CASE CompleteShowdown
      BY <2>4, CompleteShowdownInv
    <2> QED BY <2>1, <2>2, <2>3, <2>4 DEF Next
  <1> QED BY InitInv, <1>1, PTL DEF Spec

\* Every hand is well typed: no stack, commitment, bet or payout goes
\* negative, and the board never outgrows five cards.
THEOREM TypeCorrect == Spec => []TypeOK
  <1>1. EngineInv => TypeOK
    BY DEF EngineInv
  <1> QED BY EngineInvariant, <1>1, PTL

\* Every seat's chips are accounted for at every moment of a hand (commit,
\* postBlind, settle, scoreAndPay).
THEOREM SeatAccountsTheorem == Spec => []SeatAccounts
  <1>1. EngineInv => SeatAccounts
    BY DEF EngineInv
  <1> QED BY EngineInvariant, <1>1, PTL

\* The board has the cards of its street, and a contested hand is scored only
\* on five (nextStreet, SupplyBoard, finishStreetTransition, settle).
THEOREM BoardTheorem == Spec => []BoardMatchesStreet
  <1>1. EngineInv => BoardMatchesStreet
    BY DEF EngineInv
  <1> QED BY EngineInvariant, <1>1, PTL

\* Unless the blinds put both heads-up seats all in, a running hand always
\* has a seat able to act or says which reveal it awaits (New, advance).
THEOREM SomeoneActsTheorem == Spec => []SomeoneActs
  <1>1. EngineInv => SomeoneActs
    BY DEF EngineInv
  <1> QED BY EngineInvariant, <1>1, PTL
-----------------------------------------------------------------------------
(* The betting rounds *)

Prior(ss, s) == ss[s].totalCommit - ss[s].streetCommit

\* No seat is past the bet, a seat that has acted and still can act matches it,
\* and such seats have paid the same, and the most, on the closed streets.
RoundOK(ss, bet) ==
    /\ \A s \in Seats : ss[s].streetCommit <= bet
    /\ \A s \in Able(ss) : ss[s].acted => ss[s].streetCommit = bet
    /\ \A s \in Able(ss), o \in Seats : Prior(ss, o) <= Prior(ss, s)

\* The minimum raise is positive, and the big blind while nobody has bet.
RaiseOK(bet, raise) == raise >= 1 /\ (bet = 0 => raise = BigBlind)

RoundInv ==
    ~done => /\ RoundOK(seats, currentBet)
             /\ RaiseOK(currentBet, minRaise)
             /\ awaitingBoard => currentBet = 0

\* What one seat's action does to the round: the seat adds `pay` to both of its
\* commitments, and the others keep theirs and at most lose their mark.
ActedOn(ss, tt, s, pay) ==
    /\ tt[s].streetCommit = ss[s].streetCommit + pay
    /\ tt[s].totalCommit = ss[s].totalCommit + pay
    /\ s \in Able(tt) => s \in Able(ss)
    /\ \A o \in Seats \ {s} :
          /\ tt[o].streetCommit = ss[o].streetCommit
          /\ tt[o].totalCommit = ss[o].totalCommit
          /\ o \in Able(tt) => o \in Able(ss)
          /\ tt[o].acted => ss[o].acted

\* Such an action keeps the round in order, if the seat does not pass the bet
\* and matches it if it can still act, and a new bet takes the others' marks.
LEMMA ActedRound ==
    ASSUME NEW ss \in [Seats -> SeatRecord], NEW tt \in [Seats -> SeatRecord], NEW s \in Seats,
           NEW pay \in Nat, NEW bet \in Nat, NEW bet2 \in Nat,
           RoundOK(ss, bet), ActedOn(ss, tt, s, pay), bet <= bet2,
           tt[s].streetCommit <= bet2,
           s \in Able(tt) /\ tt[s].acted => tt[s].streetCommit = bet2,
           bet2 # bet => \A o \in Able(tt) \ {s} : ~tt[o].acted
    PROVE  RoundOK(tt, bet2)
  <1>1. \A o \in Seats : /\ ss[o].streetCommit \in Nat /\ ss[o].totalCommit \in Nat
                         /\ tt[o].streetCommit \in Nat /\ tt[o].totalCommit \in Nat
    BY DEF SeatRecord
  <1>2. \A o \in Seats : Prior(tt, o) = Prior(ss, o) /\ Prior(ss, o) \in Int
    <2> SUFFICES ASSUME NEW o \in Seats PROVE Prior(tt, o) = Prior(ss, o) /\ Prior(ss, o) \in Int
      OBVIOUS
    <2>1. CASE o = s
      BY <1>1, <2>1 DEF ActedOn, Prior
    <2>2. CASE o # s
      BY <1>1, <2>2 DEF ActedOn, Prior
    <2> QED BY <2>1, <2>2
  <1>3. \A o \in Able(tt) : o \in Able(ss) /\ o \in Seats
    BY DEF ActedOn, Able, Live
  <1>4. \A o \in Seats : tt[o].streetCommit <= bet2
    <2> SUFFICES ASSUME NEW o \in Seats PROVE tt[o].streetCommit <= bet2
      OBVIOUS
    <2>1. CASE o # s
      <3>1. tt[o].streetCommit = ss[o].streetCommit /\ ss[o].streetCommit <= bet
        BY <2>1 DEF ActedOn, RoundOK
      <3> QED BY <1>1, <3>1
    <2> QED BY <2>1
  <1>5. ASSUME NEW o \in Able(tt), tt[o].acted PROVE tt[o].streetCommit = bet2
    <2>1. CASE o # s
      <3>1. bet2 = bet
        BY <1>5, <2>1
      <3>2. ss[o].acted /\ tt[o].streetCommit = ss[o].streetCommit /\ o \in Able(ss)
        BY <1>3, <1>5, <2>1 DEF ActedOn
      <3> QED BY <3>1, <3>2 DEF RoundOK
    <2> QED BY <1>5, <2>1
  <1>6. \A x \in Able(tt), o \in Seats : Prior(tt, o) <= Prior(tt, x)
    BY <1>2, <1>3 DEF RoundOK
  <1> QED BY <1>4, <1>5, <1>6 DEF RoundOK

\* What a payment does to the seat that pays.
LEMMA CommitSeat ==
    ASSUME NEW ss \in [Seats -> SeatRecord], NEW s \in Seats, NEW amt \in Nat
    PROVE  LET pay == Lesser(amt, ss[s].stack)
               c == Commit(ss, s, amt)
           IN  /\ pay \in Nat /\ pay <= amt /\ pay <= ss[s].stack
               /\ (pay # amt => pay = ss[s].stack)
               /\ c[s].streetCommit = ss[s].streetCommit + pay
               /\ c[s].totalCommit = ss[s].totalCommit + pay
               /\ c[s].folded = ss[s].folded /\ c[s].acted = ss[s].acted
               /\ c[s].allIn = (ss[s].allIn \/ ss[s].stack = pay)
  <1> DEFINE pay == Lesser(amt, ss[s].stack)
  <1>1. ss[s] \in SeatRecord /\ ss[s].stack \in Nat
    BY DEF SeatRecord
  <1>2. pay \in Nat /\ pay <= amt /\ pay <= ss[s].stack /\ (pay # amt => pay = ss[s].stack)
    BY <1>1 DEF Lesser
  <1>3. Commit(ss, s, amt) = [ss EXCEPT ![s].stack = @ - pay, ![s].streetCommit = @ + pay,
                                        ![s].totalCommit = @ + pay,
                                        ![s].allIn = @ \/ ss[s].stack = pay]
    BY DEF Commit
  <1> HIDE DEF pay
  <1>4. /\ Commit(ss, s, amt)[s].streetCommit = ss[s].streetCommit + pay
        /\ Commit(ss, s, amt)[s].totalCommit = ss[s].totalCommit + pay
        /\ Commit(ss, s, amt)[s].folded = ss[s].folded
        /\ Commit(ss, s, amt)[s].acted = ss[s].acted
        /\ Commit(ss, s, amt)[s].allIn = (ss[s].allIn \/ ss[s].stack = pay)
    BY <1>1, <1>3 DEF SeatRecord
  <1> QED BY <1>2, <1>4 DEF pay

\* Marking a seat changes its mark only.
LEMMA HasActedSeat ==
    ASSUME NEW ss \in [Seats -> SeatRecord], toAct \in Seats
    PROVE  /\ Able(HasActed(ss)) = Able(ss)
           /\ HasActed(ss)[toAct].acted
           /\ \A s \in Seats : /\ HasActed(ss)[s].streetCommit = ss[s].streetCommit
                               /\ HasActed(ss)[s].totalCommit = ss[s].totalCommit
                               /\ HasActed(ss)[s].allIn = ss[s].allIn
                               /\ s # toAct => HasActed(ss)[s].acted = ss[s].acted
  <1>1. \A s \in Seats : ss[s] \in SeatRecord
    OBVIOUS
  <1>2. \A s \in Seats : HasActed(ss)[s] = IF s = toAct THEN [ss[s] EXCEPT !.acted = TRUE] ELSE ss[s]
    BY DEF HasActed
  <1>3. \A s \in Seats : /\ HasActed(ss)[s].streetCommit = ss[s].streetCommit
                         /\ HasActed(ss)[s].totalCommit = ss[s].totalCommit
                         /\ HasActed(ss)[s].allIn = ss[s].allIn
                         /\ HasActed(ss)[s].folded = ss[s].folded
                         /\ s # toAct => HasActed(ss)[s].acted = ss[s].acted
    BY <1>1, <1>2 DEF SeatRecord
  <1>4. HasActed(ss)[toAct].acted
    BY <1>1, <1>2 DEF SeatRecord
  <1>5. Able(HasActed(ss)) = Able(ss)
    BY <1>3 DEF Able, Live
  <1> QED BY <1>3, <1>4, <1>5

\* When a round closes everyone able has matched the bet, so what each has paid
\* in all is the same and the most: the next street starts in order.
LEMMA FreshRound ==
    ASSUME NEW ss \in [Seats -> SeatRecord], NEW bet \in Nat, RoundOK(ss, bet),
           \A s \in Able(ss) : ss[s].streetCommit = bet
    PROVE  RoundOK(FreshStreet(ss), 0)
  <1> DEFINE tt == FreshStreet(ss)
  <1>1. \A s \in Seats : ss[s] \in SeatRecord /\ ss[s].totalCommit \in Nat /\ ss[s].streetCommit \in Nat
    BY DEF SeatRecord
  <1>2. \A s \in Seats : /\ tt[s].streetCommit = 0 /\ ~tt[s].acted
                         /\ tt[s].totalCommit = ss[s].totalCommit
                         /\ tt[s].folded = ss[s].folded /\ tt[s].allIn = ss[s].allIn
    BY <1>1 DEF FreshStreet, SeatRecord
  <1> HIDE DEF tt
  <1>3. Able(tt) = Able(ss) /\ Able(ss) \subseteq Seats
    BY <1>2 DEF Able, Live
  <1>4. ASSUME NEW s \in Able(ss), NEW o \in Seats
        PROVE  Prior(tt, o) <= Prior(tt, s)
    <2>1. /\ ss[o].streetCommit <= bet /\ ss[s].streetCommit = bet
          /\ ss[o].totalCommit - ss[o].streetCommit <= ss[s].totalCommit - ss[s].streetCommit
      BY <1>3 DEF RoundOK, Prior
    <2>2. ss[o].totalCommit <= ss[s].totalCommit
      BY <1>1, <1>3, <2>1
    <2>3. Prior(tt, o) = ss[o].totalCommit /\ Prior(tt, s) = ss[s].totalCommit
      BY <1>1, <1>2, <1>3 DEF Prior
    <2> QED BY <2>2, <2>3
  <1>5. RoundOK(tt, 0)
    BY <1>2, <1>3, <1>4 DEF RoundOK
  <1> QED BY <1>5 DEF tt

\* Settling ends the hand or leaves the seats as they are.
LEMMA SettleRound ==
    ASSUME NEW ss, NEW str, Settle(ss, str), NEW bet, NEW raise, RoundOK(ss, bet), RaiseOK(bet, raise),
           currentBet' = bet, minRaise' = raise, awaitingBoard' => bet = 0
    PROVE  RoundInv'
  <1>1. done' = TRUE \/ seats' = ss
    BY DEF Settle, AwardUncontested, ScoreAndPay
  <1> QED BY <1>1 DEF RoundInv, RoundOK, RaiseOK, Prior, Able, Live

\* advance(), nextStreet and finishStreetTransition keep the round in order.
LEMMA AdvanceRound ==
    ASSUME EngineInv, MayAct, NEW ss \in [Seats -> SeatRecord], NEW bet \in Nat, NEW raise \in Nat,
           RoundOK(ss, bet), RaiseOK(bet, raise), Advance(ss, bet, raise)
    PROVE  RoundInv'
  <1>1. toAct \in Seats /\ ~awaitingBoard /\ BigBlind >= 1 /\ BigBlind \in Nat
    BY EngineConstants DEF MayAct, EngineInv, TypeOK
  <1>2. RaiseOK(0, BigBlind)
    BY <1>1 DEF RaiseOK
  <1>3. ASSUME seats' = ss, currentBet' = bet, minRaise' = raise, ~awaitingBoard' PROVE RoundInv'
    BY <1>3 DEF RoundInv, RoundOK, RaiseOK, Prior, Able, Live
  <1>4. ASSUME NEW tt, RoundOK(tt, 0), seats' = tt, currentBet' = 0, minRaise' = BigBlind PROVE RoundInv'
    BY <1>2, <1>4 DEF RoundInv, RoundOK, RaiseOK, Prior, Able, Live
  <1>5. CASE Settle(ss, street) /\ currentBet' = bet /\ minRaise' = raise /\ UNCHANGED awaitingBoard
    BY <1>1, <1>5, SettleRound
  <1>6. CASE seats' = ss /\ currentBet' = bet /\ minRaise' = raise /\ UNCHANGED pauseVars
    BY <1>1, <1>3, <1>6 DEF pauseVars
  <1>7. CASE /\ ~(~Closed(ss, bet) /\ NextAbleToAct(ss, toAct) # NoSeat)
             /\ street # "river" /\ currentBet' = 0 /\ minRaise' = BigBlind
             /\ \/ PauseForBoard(FreshStreet(ss), street)
                \/ DealBoard(FreshStreet(ss))
    <2> DEFINE tt == FreshStreet(ss)
    <2>1. \A s \in Able(ss) : ss[s].streetCommit = bet
      <3>1. CASE Closed(ss, bet)
        BY <3>1 DEF Closed, RoundOK
      <3>2. CASE NextAbleToAct(ss, toAct) = NoSeat
        <4>1. \A s \in Able(ss) : s \in 0..(N - 1)
          BY DEF Able, Live, Seats
        <4>2. NoSeat \notin Able(ss)
          BY <4>1, EngineConstants DEF NoSeat
        <4> QED BY <1>1, <3>2, <4>2, NextAbleToActSeat
      <3> QED BY <1>7, <3>1, <3>2
    <2>2. RoundOK(tt, 0)
      BY <2>1, FreshRound
    <2> HIDE DEF tt
    <2>3. CASE PauseForBoard(tt, street) \/ OpenBetting(tt, After(street))
      BY <1>4, <1>7, <2>2, <2>3 DEF PauseForBoard, OpenBetting
    <2>4. CASE Settle(tt, "river")
      BY <1>2, <1>7, <2>2, <2>4, SettleRound
    <2> QED BY <1>7, <2>3, <2>4 DEF DealBoard, tt
  <1> QED BY <1>5, <1>6, <1>7 DEF Advance, NextStreet

\* New posts the blinds: nobody has acted, and the big blind is the bet.
LEMMA InitRound == Init => RoundInv
  <1> SUFFICES ASSUME Init PROVE RoundInv
    OBVIOUS
  <1> DEFINE new == NewSeats(bought)
             small == Commit(new, sbSeat, SmallBlind)
             both == Commit(small, bbSeat, BigBlind)
             Blinds(ss) == \A s \in Seats : /\ ss[s].streetCommit = ss[s].totalCommit
                                            /\ ss[s].streetCommit \in Nat
                                            /\ ss[s].streetCommit <= BigBlind
                                            /\ ~ss[s].acted
  <1>2. /\ button \in Seats /\ bought \in [Seats -> Nat]
        /\ SmallBlind \in Nat /\ BigBlind \in Nat /\ SmallBlind <= BigBlind /\ BigBlind >= 1
    <2>1. button \in Seats /\ bought \in [Seats -> Stacks]
      BY DEF Init
    <2>2. bought \in [Seats -> Nat]
      BY <2>1, EngineConstants
    <2> QED BY <2>1, <2>2, EngineConstants
  <1>3. sbSeat \in Seats /\ bbSeat \in Seats /\ sbSeat # bbSeat
    BY <1>2, BlindSeats
  <1>4. new \in [Seats -> SeatRecord] /\ SeatsOK(new)
        /\ \A s \in Seats : new[s].streetCommit = 0 /\ new[s].totalCommit = 0 /\ ~new[s].acted
    BY <1>2 DEF NewSeats, SeatRecord, SeatsOK
  <1> HIDE DEF new
  <1>5. SeatsOK(small) /\ small \in [Seats -> SeatRecord]
    <2>1. SeatsOK(small)
      BY <1>2, <1>3, <1>4, CommitOK
    <2> QED BY <2>1 DEF SeatsOK
  <1>6. Blinds(small) /\ small[bbSeat].streetCommit = 0
    <2>1. \A o \in Seats \ {sbSeat} : small[o] = new[o]
      BY <1>2, <1>3, <1>4, CommitLeaves DEF small
    <2> DEFINE pay == Lesser(SmallBlind, new[sbSeat].stack)
    <2>2. /\ pay \in Nat /\ pay <= SmallBlind
          /\ small[sbSeat].streetCommit = new[sbSeat].streetCommit + pay
          /\ small[sbSeat].totalCommit = new[sbSeat].totalCommit + pay
          /\ small[sbSeat].acted = new[sbSeat].acted
      <3> DEFINE s == sbSeat
                 b == SmallBlind
      <3>1. s \in Seats /\ b \in Nat /\ new \in [Seats -> SeatRecord] /\ small = Commit(new, s, b)
        BY <1>2, <1>3, <1>4 DEF small
      <3> HIDE DEF s, b, small
      <3>2. /\ Lesser(b, new[s].stack) \in Nat /\ Lesser(b, new[s].stack) <= b
            /\ small[s].streetCommit = new[s].streetCommit + Lesser(b, new[s].stack)
            /\ small[s].totalCommit = new[s].totalCommit + Lesser(b, new[s].stack)
            /\ small[s].acted = new[s].acted
        BY <3>1, CommitSeat
      <3> QED BY <3>2 DEF s, b
    <2> HIDE DEF pay
    <2>3. small[sbSeat].streetCommit = pay /\ small[sbSeat].totalCommit = pay /\ ~small[sbSeat].acted
      BY <1>3, <1>4, <2>2
    <2> SUFFICES ASSUME NEW s \in Seats
                 PROVE  /\ small[s].streetCommit = small[s].totalCommit /\ small[s].streetCommit \in Nat
                        /\ small[s].streetCommit <= BigBlind /\ ~small[s].acted
      BY <1>3, <1>4, <2>1
    <2>4. CASE s = sbSeat
      BY <1>2, <2>2, <2>3, <2>4
    <2>5. CASE s # sbSeat
      BY <1>2, <1>4, <2>1, <2>5
    <2> QED BY <2>4, <2>5
  <1> HIDE DEF small
  <1>7. Blinds(both)
    <2>1. \A o \in Seats \ {bbSeat} : both[o] = small[o]
      BY <1>2, <1>3, <1>5, CommitLeaves DEF both
    <2> DEFINE pay == Lesser(BigBlind, small[bbSeat].stack)
    <2>2. /\ pay \in Nat /\ pay <= BigBlind
          /\ both[bbSeat].streetCommit = small[bbSeat].streetCommit + pay
          /\ both[bbSeat].totalCommit = small[bbSeat].totalCommit + pay
          /\ both[bbSeat].acted = small[bbSeat].acted
      <3> DEFINE s == bbSeat
                 b == BigBlind
      <3>1. s \in Seats /\ b \in Nat /\ small \in [Seats -> SeatRecord] /\ both = Commit(small, s, b)
        BY <1>2, <1>3, <1>5 DEF both
      <3> HIDE DEF s, b, both
      <3>2. /\ Lesser(b, small[s].stack) \in Nat /\ Lesser(b, small[s].stack) <= b
            /\ both[s].streetCommit = small[s].streetCommit + Lesser(b, small[s].stack)
            /\ both[s].totalCommit = small[s].totalCommit + Lesser(b, small[s].stack)
            /\ both[s].acted = small[s].acted
        BY <3>1, CommitSeat
      <3> QED BY <3>2 DEF s, b
    <2> HIDE DEF pay
    <2>3. both[bbSeat].streetCommit = pay /\ both[bbSeat].totalCommit = pay /\ ~both[bbSeat].acted
      BY <1>3, <1>6, <2>2
    <2> SUFFICES ASSUME NEW s \in Seats
                 PROVE  /\ both[s].streetCommit = both[s].totalCommit /\ both[s].streetCommit \in Nat
                        /\ both[s].streetCommit <= BigBlind /\ ~both[s].acted
      OBVIOUS
    <2>4. CASE s = bbSeat
      BY <2>2, <2>3, <2>4
    <2>5. CASE s # bbSeat
      BY <1>6, <2>1, <2>5
    <2> QED BY <2>4, <2>5
  <1> HIDE DEF both
  <1>8. RoundOK(both, BigBlind)
    <2>1. \A s \in Seats : Prior(both, s) = 0
      BY <1>7 DEF Prior
    <2>2. \A s \in Able(both) : s \in Seats
      BY DEF Able, Live
    <2> QED BY <1>7, <2>1, <2>2 DEF RoundOK
  <1>9. seats = both /\ currentBet = BigBlind /\ minRaise = BigBlind /\ ~awaitingBoard
    BY DEF Init, both, small, new
  <1> QED BY <1>2, <1>8, <1>9 DEF RoundInv, RaiseOK

\* A bet or raise is to more than the bet, the stack covers what it adds, and
\* unless it is all in it raises by the minimum at least (Legal, betOrRaise).
LEMMA RaiseFacts ==
    ASSUME EngineInv, RoundInv, NEW to \in 1..MaxChips, BetOrRaise(to)
    PROVE  LET target == Lesser(to, MaxTo)
               amt == target - seats[toAct].streetCommit
           IN  /\ target \in Nat /\ target > currentBet
               /\ amt \in Nat /\ amt <= seats[toAct].stack
               /\ target - currentBet < minRaise => amt = seats[toAct].stack
  <1> DEFINE target == Lesser(to, MaxTo)
             sc == seats[toAct].streetCommit
             st == seats[toAct].stack
  <1>1. /\ MayAct /\ CanBetRaise /\ (to >= MaxTo \/ to >= MinTo) /\ target > sc
    BY DEF BetOrRaise
  <1>2. /\ sc \in Nat /\ st \in Nat /\ currentBet \in Nat /\ minRaise \in Nat /\ to \in Int
    BY <1>1 DEF MayAct, EngineInv, TypeOK, SeatRecord
  <1>3. minRaise >= 1 /\ (currentBet = 0 => minRaise = BigBlind)
    BY <1>1 DEF RoundInv, RaiseOK, MayAct
  <1>4. MaxTo = sc + st /\ MaxTo > currentBet
    BY <1>1 DEF MaxTo, CanBetRaise
  <1>5. target = IF to < MaxTo THEN to ELSE MaxTo
    BY DEF Lesser
  <1>6. MinTo = IF currentBet + minRaise < MaxTo THEN currentBet + minRaise ELSE MaxTo
    <2>1. CASE currentBet = 0
      BY <1>2, <1>3, <2>1 DEF MinTo, Lesser
    <2>2. CASE currentBet > 0
      BY <1>2, <2>2 DEF MinTo, Lesser
    <2> QED BY <1>2, <2>1, <2>2
  <1> HIDE DEF target, sc, st
  <1>7. target \in Nat /\ target > currentBet /\ target - sc \in Nat /\ target - sc <= st
        /\ (target - currentBet < minRaise => target - sc = st)
    BY <1>1, <1>2, <1>3, <1>4, <1>5, <1>6
  <1> QED BY <1>7 DEF target, sc, st

\* The seats, the bet and the minimum raise that a bet or raise advances with.
LEMMA RaisedRound ==
    ASSUME EngineInv, RoundInv, NEW to \in 1..MaxChips, BetOrRaise(to)
    PROVE  \E tt \in [Seats -> SeatRecord], bet \in Nat, raise \in Nat :
              /\ Advance(tt, bet, raise)
              /\ RoundOK(tt, bet) /\ RaiseOK(bet, raise)
              /\ bet > currentBet /\ raise >= minRaise
              /\ bet - currentBet < minRaise => tt[toAct].allIn
  <1> DEFINE target == Lesser(to, MaxTo)
             amt == target - seats[toAct].streetCommit
             paid == Commit(seats, toAct, amt)
             open == Reopen(paid)
             tt == HasActed(open)
             increment == target - currentBet
             raise == IF increment >= minRaise THEN increment ELSE minRaise
  <1>1. MayAct /\ toAct \in Seats /\ seats \in [Seats -> SeatRecord] /\ SeatsOK(seats)
    <2>1. MayAct
      BY DEF BetOrRaise
    <2>2. toAct \in Seats /\ seats \in [Seats -> SeatRecord]
      BY <2>1 DEF MayAct, EngineInv, TypeOK
    <2> QED BY <2>1, <2>2, RoundFacts DEF MayAct
  <1>2. /\ target \in Nat /\ target > currentBet /\ amt \in Nat /\ amt <= seats[toAct].stack
        /\ target - currentBet < minRaise => amt = seats[toAct].stack
    BY RaiseFacts
  <1>3. Advance(tt, target, raise)
    BY <1>2 DEF BetOrRaise
  <1>4. /\ currentBet \in Nat /\ minRaise \in Nat
        /\ seats[toAct].streetCommit \in Nat /\ seats[toAct].totalCommit \in Nat
        /\ seats[toAct].stack \in Nat
    BY <1>1 DEF EngineInv, TypeOK, SeatRecord
  <1>5. RoundOK(seats, currentBet) /\ minRaise >= 1
    BY <1>1 DEF RoundInv, RaiseOK, MayAct
  <1>6. seats[toAct].streetCommit + amt = target
    <2> HIDE DEF target
    <2> QED BY <1>2, <1>4
  <1>7. /\ raise \in Nat /\ raise >= minRaise /\ RaiseOK(target, raise)
    <2> HIDE DEF target
    <2> QED BY <1>2, <1>4, <1>5 DEF RaiseOK
  <1> HIDE DEF target, amt, raise
  <1>8. /\ paid[toAct].streetCommit = target
        /\ paid[toAct].totalCommit = seats[toAct].totalCommit + amt
        /\ paid[toAct].folded = seats[toAct].folded
        /\ paid[toAct].allIn = (seats[toAct].allIn \/ seats[toAct].stack = amt)
        /\ \A o \in Seats \ {toAct} : paid[o] = seats[o]
    <2>1. Lesser(amt, seats[toAct].stack) = amt
      BY <1>2, <1>4 DEF Lesser
    <2> QED BY <1>1, <1>2, <1>6, <2>1, CommitSeat, CommitLeaves
  <1>9. SeatsOK(paid) /\ paid \in [Seats -> SeatRecord]
    <2>1. SeatsOK(paid)
      BY <1>1, <1>2, CommitOK
    <2> QED BY <2>1 DEF SeatsOK
  <1> HIDE DEF paid
  <1>10. SeatsOK(open) /\ open \in [Seats -> SeatRecord]
    <2>1. SeatsOK(open)
      BY <1>1, <1>9, MarksOK
    <2> QED BY <2>1 DEF SeatsOK
  <1>11. /\ \A s \in Seats : /\ open[s].streetCommit = paid[s].streetCommit
                             /\ open[s].totalCommit = paid[s].totalCommit
                             /\ open[s].folded = paid[s].folded
                             /\ open[s].allIn = paid[s].allIn
                             /\ open[s].acted => paid[s].acted
         /\ \A s \in Able(open) \ {toAct} : ~open[s].acted
    <2>1. \A s \in Seats : paid[s] \in SeatRecord
      BY <1>9
    <2>2. \A s \in Seats : open[s] = IF s # toAct /\ s \in Able(paid)
                                     THEN [paid[s] EXCEPT !.acted = FALSE] ELSE paid[s]
      BY DEF Reopen
    <2>3. \A s \in Seats : /\ open[s].streetCommit = paid[s].streetCommit
                           /\ open[s].totalCommit = paid[s].totalCommit
                           /\ open[s].folded = paid[s].folded
                           /\ open[s].allIn = paid[s].allIn
                           /\ open[s].acted => paid[s].acted
                           /\ s # toAct /\ s \in Able(paid) => ~open[s].acted
      <3> SUFFICES ASSUME NEW s \in Seats
                   PROVE  /\ open[s].streetCommit = paid[s].streetCommit
                          /\ open[s].totalCommit = paid[s].totalCommit
                          /\ open[s].folded = paid[s].folded
                          /\ open[s].allIn = paid[s].allIn
                          /\ open[s].acted => paid[s].acted
                          /\ s # toAct /\ s \in Able(paid) => ~open[s].acted
        OBVIOUS
      <3> HIDE DEF open
      <3>1. CASE s # toAct /\ s \in Able(paid)
        <4>1. open[s] = [paid[s] EXCEPT !.acted = FALSE] /\ paid[s] \in SeatRecord
          BY <2>1, <2>2, <3>1
        <4> QED BY <4>1 DEF SeatRecord
      <3>2. CASE ~(s # toAct /\ s \in Able(paid))
        BY <2>2, <3>2
      <3> QED BY <3>1, <3>2
    <2> HIDE DEF open
    <2>4. \A s \in Able(open) : s \in Able(paid) /\ s \in Seats
      BY <2>3 DEF Able, Live
    <2> QED BY <2>3, <2>4
  <1> HIDE DEF open
  <1>12. SeatsOK(tt) /\ tt \in [Seats -> SeatRecord]
    <2>1. SeatsOK(tt)
      BY <1>1, <1>10, MarksOK
    <2> QED BY <2>1 DEF SeatsOK
  <1>13. /\ Able(tt) = Able(open) /\ tt[toAct].acted
         /\ \A s \in Seats : /\ tt[s].streetCommit = open[s].streetCommit
                             /\ tt[s].totalCommit = open[s].totalCommit
                             /\ tt[s].allIn = open[s].allIn
                             /\ s # toAct => tt[s].acted = open[s].acted
    BY <1>1, <1>10, HasActedSeat
  <1> HIDE DEF tt
  <1>14. /\ \A s \in Able(tt) : s \in Able(seats) /\ s \in Seats
         /\ \A s \in Able(tt) \ {toAct} : ~tt[s].acted
    <2>1. \A s \in Able(open) : s \in Able(paid) /\ s \in Seats
      BY <1>11 DEF Able, Live
    <2>2. \A s \in Able(paid) : s \in Able(seats)
      <3> SUFFICES ASSUME NEW s \in Able(paid) PROVE s \in Able(seats)
        OBVIOUS
      <3>1. s \in Seats /\ ~paid[s].folded /\ ~paid[s].allIn
        BY DEF Able, Live
      <3>2. ~seats[s].folded /\ ~seats[s].allIn
        <4>1. CASE s = toAct
          BY <1>8, <3>1, <4>1
        <4>2. CASE s # toAct
          BY <1>8, <3>1, <4>2
        <4> QED BY <4>1, <4>2
      <3> QED BY <3>1, <3>2 DEF Able, Live
    <2> QED BY <1>11, <1>13, <2>1, <2>2
  <1>15. ActedOn(seats, tt, toAct, amt)
    BY <1>1, <1>6, <1>8, <1>11, <1>13, <1>14 DEF ActedOn
  <1>16. RoundOK(tt, target)
    <2>1. tt[toAct].streetCommit = target
      BY <1>1, <1>8, <1>11, <1>13
    <2>2. currentBet <= target /\ tt[toAct].streetCommit <= target
      BY <1>2, <1>4, <2>1
    <2> QED BY <1>1, <1>2, <1>4, <1>5, <1>12, <1>14, <1>15, <2>1, <2>2, ActedRound
  <1>17. target - currentBet < minRaise => tt[toAct].allIn
    BY <1>1, <1>2, <1>8, <1>11, <1>13
  <1> QED BY <1>2, <1>3, <1>7, <1>12, <1>16, <1>17

\* A seat's action keeps the round in order.
LEMMA ActRound ==
    ASSUME EngineInv, RoundInv, Act
    PROVE  RoundInv'
  <1>1. MayAct
    BY DEF Act, Fold, Check, Call, BetOrRaise
  <1>2. /\ toAct \in Seats /\ seats \in [Seats -> SeatRecord] /\ SeatsOK(seats)
        /\ currentBet \in Nat /\ minRaise \in Nat
    <2>1. /\ toAct \in Seats /\ seats \in [Seats -> SeatRecord]
          /\ currentBet \in Nat /\ minRaise \in Nat
      BY <1>1 DEF MayAct, EngineInv, TypeOK
    <2> QED BY <1>1, <2>1, RoundFacts DEF MayAct
  <1>3. RoundOK(seats, currentBet) /\ RaiseOK(currentBet, minRaise)
    BY <1>1 DEF RoundInv, MayAct
  <1>4. /\ seats[toAct].streetCommit \in Nat /\ seats[toAct].totalCommit \in Nat
        /\ seats[toAct].stack \in Nat /\ seats[toAct].streetCommit <= currentBet
    BY <1>2, <1>3 DEF SeatRecord, RoundOK
  <1>5. CASE Fold
    <2> DEFINE f == [seats EXCEPT ![toAct].folded = TRUE]
               tt == HasActed(f)
    <2>1. SeatsOK(f) /\ f \in [Seats -> SeatRecord]
      <3>1. SeatsOK(f)
        BY <1>2, MarksOK
      <3> QED BY <3>1 DEF SeatsOK
    <2>2. /\ f[toAct].folded
          /\ f[toAct].streetCommit = seats[toAct].streetCommit
          /\ f[toAct].totalCommit = seats[toAct].totalCommit
          /\ \A o \in Seats \ {toAct} : f[o] = seats[o]
      <3>1. seats[toAct] \in SeatRecord
        BY <1>2
      <3> QED BY <1>2, <3>1 DEF SeatRecord
    <2> HIDE DEF f
    <2>3. tt \in [Seats -> SeatRecord]
      <3>1. SeatsOK(tt)
        BY <1>2, <2>1, MarksOK
      <3> QED BY <3>1 DEF SeatsOK
    <2>4. /\ Able(tt) = Able(f)
          /\ \A s \in Seats : /\ tt[s].streetCommit = f[s].streetCommit
                              /\ tt[s].totalCommit = f[s].totalCommit
                              /\ s # toAct => tt[s].acted = f[s].acted
      BY <1>2, <2>1, HasActedSeat
    <2>5. Advance(tt, currentBet, minRaise)
      BY <1>5 DEF Fold, f
    <2> HIDE DEF tt
    <2>6. toAct \notin Able(tt) /\ \A s \in Able(tt) : s \in Able(seats)
      BY <2>2, <2>4 DEF Able, Live
    <2>7. ActedOn(seats, tt, toAct, 0)
      BY <1>2, <1>4, <2>2, <2>4, <2>6 DEF ActedOn
    <2>8. RoundOK(tt, currentBet)
      <3>1. tt[toAct].streetCommit <= currentBet /\ currentBet <= currentBet /\ 0 \in Nat
        BY <1>2, <1>4, <2>2, <2>4
      <3> QED BY <1>2, <1>3, <2>3, <2>6, <2>7, <3>1, ActedRound
    <2> QED BY <1>1, <1>2, <1>3, <2>3, <2>5, <2>8, AdvanceRound
  <1>6. CASE Check
    <2> DEFINE tt == HasActed(seats)
    <2>1. tt \in [Seats -> SeatRecord]
      <3>1. SeatsOK(tt)
        BY <1>2, MarksOK
      <3> QED BY <3>1 DEF SeatsOK
    <2>2. /\ Able(tt) = Able(seats)
          /\ \A s \in Seats : /\ tt[s].streetCommit = seats[s].streetCommit
                              /\ tt[s].totalCommit = seats[s].totalCommit
                              /\ s # toAct => tt[s].acted = seats[s].acted
      BY <1>2, HasActedSeat
    <2>3. Advance(tt, currentBet, minRaise) /\ ToCall <= 0
      BY <1>6 DEF Check
    <2> HIDE DEF tt
    <2>4. tt[toAct].streetCommit = currentBet
      BY <1>2, <1>4, <2>2, <2>3 DEF ToCall
    <2>5. ActedOn(seats, tt, toAct, 0)
      BY <1>2, <1>4, <2>2 DEF ActedOn
    <2>6. RoundOK(tt, currentBet)
      <3>1. tt[toAct].streetCommit <= currentBet /\ currentBet <= currentBet /\ 0 \in Nat
        BY <1>2, <2>4
      <3> QED BY <1>2, <1>3, <2>1, <2>4, <2>5, <3>1, ActedRound
    <2> QED BY <1>1, <1>2, <1>3, <2>1, <2>3, <2>6, AdvanceRound
  <1>7. CASE Call
    <2> DEFINE amt == ToCall
               c == Commit(seats, toAct, amt)
               tt == HasActed(c)
               pay == Lesser(amt, seats[toAct].stack)
    <2>1. amt \in Nat /\ seats[toAct].streetCommit + amt = currentBet
      BY <1>2, <1>4, <1>7 DEF Call, ToCall
    <2>2. Advance(tt, currentBet, minRaise)
      BY <1>7 DEF Call
    <2> HIDE DEF amt
    <2>3. SeatsOK(c) /\ c \in [Seats -> SeatRecord]
      <3>1. SeatsOK(c)
        BY <1>2, <2>1, CommitOK
      <3> QED BY <3>1 DEF SeatsOK
    <2>4. /\ pay \in Nat /\ pay <= amt /\ (pay # amt => pay = seats[toAct].stack)
          /\ c[toAct].streetCommit = seats[toAct].streetCommit + pay
          /\ c[toAct].totalCommit = seats[toAct].totalCommit + pay
          /\ c[toAct].folded = seats[toAct].folded
          /\ c[toAct].allIn = (seats[toAct].allIn \/ seats[toAct].stack = pay)
      BY <1>2, <2>1, CommitSeat
    <2>5. \A o \in Seats \ {toAct} : c[o] = seats[o]
      BY <1>2, <2>1, CommitLeaves
    <2> HIDE DEF c, pay
    <2>6. tt \in [Seats -> SeatRecord]
      <3>1. SeatsOK(tt)
        BY <1>2, <2>3, MarksOK
      <3> QED BY <3>1 DEF SeatsOK
    <2>7. /\ Able(tt) = Able(c)
          /\ \A s \in Seats : /\ tt[s].streetCommit = c[s].streetCommit
                              /\ tt[s].totalCommit = c[s].totalCommit
                              /\ s # toAct => tt[s].acted = c[s].acted
      BY <1>2, <2>3, HasActedSeat
    <2> HIDE DEF tt
    <2>8. \A s \in Able(tt) : s \in Able(seats)
      <3> SUFFICES ASSUME NEW s \in Able(c) PROVE s \in Able(seats)
        BY <2>7
      <3>1. s \in Seats /\ ~c[s].folded /\ ~c[s].allIn
        BY DEF Able, Live
      <3>2. ~seats[s].folded /\ ~seats[s].allIn
        <4>1. CASE s = toAct
          BY <2>4, <3>1, <4>1
        <4>2. CASE s # toAct
          BY <2>5, <3>1, <4>2
        <4> QED BY <4>1, <4>2
      <3> QED BY <3>1, <3>2 DEF Able, Live
    <2>9. ActedOn(seats, tt, toAct, pay)
      BY <1>2, <2>4, <2>5, <2>7, <2>8 DEF ActedOn
    <2>10. tt[toAct].streetCommit <= currentBet
      BY <1>2, <1>4, <2>1, <2>4, <2>7
    <2>11. toAct \in Able(tt) => tt[toAct].streetCommit = currentBet
      <3>1. toAct \in Able(tt) => ~c[toAct].allIn
        BY <2>7 DEF Able, Live
      <3>2. toAct \in Able(tt) => pay = amt
        BY <2>4, <3>1
      <3> QED BY <1>2, <2>1, <2>4, <2>7, <3>2
    <2>12. RoundOK(tt, currentBet)
      <3>1. currentBet <= currentBet
        BY <1>2
      <3> QED BY <1>2, <1>3, <2>4, <2>6, <2>9, <2>10, <2>11, <3>1, ActedRound
    <2> QED BY <1>1, <1>2, <1>3, <2>2, <2>6, <2>12, AdvanceRound
  <1>8. ASSUME NEW to \in 1..MaxChips, BetOrRaise(to) PROVE RoundInv'
    BY <1>1, <1>8, RaisedRound, AdvanceRound
  <1> QED BY <1>5, <1>6, <1>7, <1>8 DEF Act

\* The revealed cards arrive with nothing bet on the street they open.
LEMMA SupplyBoardRound ==
    ASSUME EngineInv, RoundInv, SupplyBoard
    PROVE  RoundInv'
  <1>1. /\ ~done /\ awaitingBoard
    BY DEF EngineInv, Pauses, SupplyBoard
  <1>2. /\ seats \in [Seats -> SeatRecord] /\ currentBet \in Nat /\ BigBlind \in Nat /\ BigBlind >= 1
    BY EngineConstants DEF EngineInv, TypeOK
  <1>3. RoundOK(seats, 0) /\ RaiseOK(0, minRaise) /\ currentBet = 0
    BY <1>1 DEF RoundInv
  <1>4. CASE OpenBetting(seats, pendingStreet) /\ UNCHANGED <<currentBet, minRaise>>
    BY <1>3, <1>4 DEF OpenBetting, RoundInv, RoundOK, RaiseOK, Prior, Able, Live
  <1>5. CASE /\ PauseForBoard(FreshStreet(seats), pendingStreet)
             /\ currentBet' = 0
             /\ minRaise' = BigBlind
    <2> DEFINE tt == FreshStreet(seats)
    <2>1. \A s \in Able(seats) : seats[s].streetCommit = 0
      <3>1. \A s \in Able(seats) : seats[s].streetCommit \in Nat /\ seats[s].streetCommit <= 0
        BY <1>2, <1>3 DEF RoundOK, Able, Live, SeatRecord
      <3> QED BY <3>1
    <2>2. RoundOK(tt, 0)
      BY <1>2, <1>3, <2>1, FreshRound
    <2> HIDE DEF tt
    <2>3. seats' = tt
      BY <1>5 DEF PauseForBoard, tt
    <2> QED BY <1>2, <1>5, <2>2, <2>3 DEF RoundInv, RoundOK, RaiseOK, Prior, Able, Live
  <1>6. CASE Settle(seats, pendingStreet) /\ UNCHANGED <<currentBet, minRaise>>
    BY <1>3, <1>6, SettleRound
  <1> QED BY <1>4, <1>5, <1>6 DEF SupplyBoard

\* The betting rounds of every hand are in order.
THEOREM RoundInvariant == Spec => []RoundInv
  <1>1. EngineInv /\ RoundInv /\ [Next]_vars => RoundInv'
    <2> SUFFICES ASSUME EngineInv, RoundInv, [Next]_vars PROVE RoundInv'
      OBVIOUS
    <2>1. CASE UNCHANGED vars
      BY <2>1 DEF vars, seatVars, turnVars, pauseVars, RoundInv, RoundOK, RaiseOK, Prior, Able, Live
    <2>2. CASE Act
      BY <2>2, ActRound
    <2>3. CASE SupplyBoard
      BY <2>3, SupplyBoardRound
    <2>4. CASE CompleteShowdown
      BY <2>4 DEF CompleteShowdown, ScoreAndPay, RoundInv
    <2> QED BY <2>1, <2>2, <2>3, <2>4 DEF Next
  <1> QED BY InitRound, EngineInvariant, <1>1, PTL DEF Spec

\* Whoever can still act has paid exactly what the others who can have paid on
\* the closed streets, and nobody paid more (advance, nextStreet).
THEOREM StreetsMatchedTheorem == Spec => []StreetsMatched
  <1>1. RoundInv => StreetsMatched
    BY DEF RoundInv, RoundOK, StreetsMatched, Prior, PriorCommit
  <1> QED BY RoundInvariant, <1>1, PTL

\* Within a street the bet and the minimum raise only go up, and a raise below
\* the minimum is an all-in (Legal, betOrRaise, advance).
THEOREM RaisesAreFullTheorem == Spec => RaisesAreFull
  <1> DEFINE Full ==
        (street' = street /\ ~awaitingBoard' /\ ~awaitingShowdown' /\ currentBet' # currentBet)
          => /\ currentBet' > currentBet
             /\ minRaise' >= minRaise
             /\ currentBet' - currentBet < minRaise => seats'[toAct].allIn
  <1>1. ASSUME EngineInv, RoundInv, [Next]_vars PROVE [Full]_vars
    <2> SUFFICES ASSUME street' = street, ~awaitingBoard', ~awaitingShowdown', currentBet' # currentBet
                 PROVE  /\ currentBet' > currentBet
                        /\ minRaise' >= minRaise
                        /\ currentBet' - currentBet < minRaise => seats'[toAct].allIn
      OBVIOUS
    <2>1. ~CompleteShowdown /\ ~SupplyBoard
      BY DEF CompleteShowdown, SupplyBoard, PauseForBoard
    <2>2. Act
      BY <1>1, <2>1 DEF Next, vars, turnVars
    <2>3. MayAct /\ street \in Playing
      <3>1. MayAct
        BY <2>2 DEF Act, Fold, Check, Call, BetOrRaise
      <3> QED BY <1>1, <3>1, RoundFacts DEF MayAct
    <2>4. ASSUME NEW ss, NEW str, Settle(ss, str) PROVE FALSE
      <3>1. street' = "complete"
        BY <2>4 DEF Settle, AwardUncontested, ScoreAndPay
      <3> QED BY <2>3, <3>1 DEF Playing
    <2>5. ASSUME NEW ss, NEW bet, NEW raise, Advance(ss, bet, raise)
          PROVE  seats' = ss /\ currentBet' = bet /\ minRaise' = raise
      <3>1. ~NextStreet(ss, bet, raise)
        <4>1. ~PauseForBoard(FreshStreet(ss), street)
          BY DEF PauseForBoard
        <4>2. ~OpenBetting(FreshStreet(ss), After(street)) \/ street = "river"
          BY <2>3 DEF OpenBetting, After, Playing
        <4> QED BY <2>4, <4>1, <4>2 DEF NextStreet, DealBoard
      <3> QED BY <2>4, <2>5, <3>1 DEF Advance
    <2>6. ~Fold /\ ~Check /\ ~Call
      BY <2>5 DEF Fold, Check, Call
    <2>7. PICK to \in 1..MaxChips : BetOrRaise(to)
      BY <2>2, <2>6 DEF Act
    <2>8. PICK tt \in [Seats -> SeatRecord], bet \in Nat, raise \in Nat :
              /\ Advance(tt, bet, raise)
              /\ bet > currentBet /\ raise >= minRaise
              /\ bet - currentBet < minRaise => tt[toAct].allIn
      BY <1>1, <2>7, RaisedRound
    <2> QED BY <2>5, <2>8
  <1> QED BY EngineInvariant, RoundInvariant, <1>1, PTL DEF Spec, RaisesAreFull
-----------------------------------------------------------------------------
(* Sums over the seats *)

\* The i-th of the six summands of SeatSum.
At(f, i) == IF i < N THEN f[i] ELSE 0

\* SeatSum is the sum of its six summands, and each is an integer.
LEMMA SeatSumParts ==
    ASSUME NEW f \in [Seats -> Int]
    PROVE  /\ SeatSum(f) = At(f, 0) + At(f, 1) + At(f, 2) + At(f, 3) + At(f, 4) + At(f, 5)
           /\ At(f, 0) \in Int /\ At(f, 1) \in Int /\ At(f, 2) \in Int
           /\ At(f, 3) \in Int /\ At(f, 4) \in Int /\ At(f, 5) \in Int
           /\ SeatSum(f) \in Int
  <1>1. \A i \in 0..5 : At(f, i) \in Int
    BY EngineConstants DEF At, Seats
  <1>2. SeatSum(f) = At(f, 0) + At(f, 1) + At(f, 2) + At(f, 3) + At(f, 4) + At(f, 5)
    BY DEF SeatSum, At
  <1> HIDE DEF At
  <1>3. /\ At(f, 0) \in Int /\ At(f, 1) \in Int /\ At(f, 2) \in Int
        /\ At(f, 3) \in Int /\ At(f, 4) \in Int /\ At(f, 5) \in Int
    BY <1>1
  <1> QED BY <1>2, <1>3

\* Two functions that agree on the seats have the same sum.
LEMMA SeatSumSame ==
    ASSUME NEW f \in [Seats -> Int], NEW g \in [Seats -> Int], \A s \in Seats : f[s] = g[s]
    PROVE  SeatSum(f) = SeatSum(g)
  <1>1. f = g
    OBVIOUS
  <1> QED BY <1>1

\* The sum of the sums.
LEMMA SeatSumAdd ==
    ASSUME NEW f \in [Seats -> Int], NEW g \in [Seats -> Int], NEW h \in [Seats -> Int],
           \A s \in Seats : h[s] = f[s] + g[s]
    PROVE  SeatSum(h) = SeatSum(f) + SeatSum(g)
  <1>1. \A i \in 0..5 : At(h, i) = At(f, i) + At(g, i)
    BY EngineConstants DEF At, Seats
  <1>2. /\ At(h, 0) = At(f, 0) + At(g, 0) /\ At(h, 1) = At(f, 1) + At(g, 1)
        /\ At(h, 2) = At(f, 2) + At(g, 2) /\ At(h, 3) = At(f, 3) + At(g, 3)
        /\ At(h, 4) = At(f, 4) + At(g, 4) /\ At(h, 5) = At(f, 5) + At(g, 5)
    BY <1>1
  <1> QED BY <1>2, SeatSumParts

\* A sum of larger summands is no smaller.
LEMMA SeatSumLeq ==
    ASSUME NEW f \in [Seats -> Int], NEW g \in [Seats -> Int], \A s \in Seats : f[s] <= g[s]
    PROVE  SeatSum(f) <= SeatSum(g)
  <1>1. \A i \in 0..5 : At(f, i) <= At(g, i)
    BY EngineConstants DEF At, Seats
  <1>2. /\ At(f, 0) <= At(g, 0) /\ At(f, 1) <= At(g, 1) /\ At(f, 2) <= At(g, 2)
        /\ At(f, 3) <= At(g, 3) /\ At(f, 4) <= At(g, 4) /\ At(f, 5) <= At(g, 5)
    BY <1>1
  <1> QED BY <1>2, SeatSumParts

\* Adding zeros gives zero.
LEMMA SeatSumZero ==
    ASSUME NEW f \in [Seats -> Int], \A s \in Seats : f[s] = 0
    PROVE  SeatSum(f) = 0
  <1>1. \A i \in 0..5 : At(f, i) = 0
    BY EngineConstants DEF At, Seats
  <1>2. At(f, 0) = 0 /\ At(f, 1) = 0 /\ At(f, 2) = 0 /\ At(f, 3) = 0 /\ At(f, 4) = 0 /\ At(f, 5) = 0
    BY <1>1
  <1> QED BY <1>2, SeatSumParts

\* A function that is zero but at one seat sums to what it is there.
LEMMA SeatSumOne ==
    ASSUME NEW f \in [Seats -> Int], NEW t \in Seats, \A s \in Seats \ {t} : f[s] = 0
    PROVE  SeatSum(f) = f[t]
  <1>1. \A i \in 0..5 : At(f, i) = IF i = t THEN f[t] ELSE 0
    BY EngineConstants DEF At, Seats
  <1>2. t \in 0..5 /\ f[t] \in Int
    BY EngineConstants DEF Seats
  <1>3. /\ At(f, 0) = IF 0 = t THEN f[t] ELSE 0
        /\ At(f, 1) = IF 1 = t THEN f[t] ELSE 0
        /\ At(f, 2) = IF 2 = t THEN f[t] ELSE 0
        /\ At(f, 3) = IF 3 = t THEN f[t] ELSE 0
        /\ At(f, 4) = IF 4 = t THEN f[t] ELSE 0
        /\ At(f, 5) = IF 5 = t THEN f[t] ELSE 0
    BY <1>1
  <1>4. t = 0 \/ t = 1 \/ t = 2 \/ t = 3 \/ t = 4 \/ t = 5
    BY <1>2
  <1>5. SeatSum(f) = At(f, 0) + At(f, 1) + At(f, 2) + At(f, 3) + At(f, 4) + At(f, 5)
    BY SeatSumParts
  <1> DEFINE v == f[t]
  <1> HIDE DEF v
  <1>6. /\ v \in Int /\ v = f[t]
        /\ At(f, 0) = (IF 0 = t THEN v ELSE 0) /\ At(f, 1) = (IF 1 = t THEN v ELSE 0)
        /\ At(f, 2) = (IF 2 = t THEN v ELSE 0) /\ At(f, 3) = (IF 3 = t THEN v ELSE 0)
        /\ At(f, 4) = (IF 4 = t THEN v ELSE 0) /\ At(f, 5) = (IF 5 = t THEN v ELSE 0)
    BY <1>2, <1>3 DEF v
  <1>7. CASE t = 0 BY <1>5, <1>6, <1>7
  <1>8. CASE t = 1 BY <1>5, <1>6, <1>8
  <1>9. CASE t = 2 BY <1>5, <1>6, <1>9
  <1>10. CASE t = 3 BY <1>5, <1>6, <1>10
  <1>11. CASE t = 4 BY <1>5, <1>6, <1>11
  <1>12. CASE t = 5 BY <1>5, <1>6, <1>12
  <1> QED BY <1>4, <1>7, <1>8, <1>9, <1>10, <1>11, <1>12

\* A sum with one summand smaller, and no other larger, is smaller.
LEMMA SeatSumLess ==
    ASSUME NEW f \in [Seats -> Int], NEW g \in [Seats -> Int], NEW t \in Seats,
           \A s \in Seats \ {t} : f[s] = g[s], f[t] < g[t]
    PROVE  SeatSum(f) < SeatSum(g)
  <1> DEFINE h == [s \in Seats |-> IF s = t THEN g[t] - f[t] ELSE 0]
  <1>1. f[t] \in Int /\ g[t] \in Int /\ g[t] - f[t] > 0 /\ g[t] - f[t] \in Int
    OBVIOUS
  <1>2. h \in [Seats -> Int] /\ \A s \in Seats \ {t} : h[s] = 0
    BY <1>1
  <1>3. \A s \in Seats : g[s] = f[s] + h[s]
    BY <1>1
  <1>4. h[t] = g[t] - f[t]
    OBVIOUS
  <1> HIDE DEF h
  <1>5. SeatSum(g) = SeatSum(f) + SeatSum(h)
    BY <1>2, <1>3, SeatSumAdd
  <1>6. SeatSum(h) = h[t]
    BY <1>2, SeatSumOne
  <1>7. SeatSum(f) \in Int
    BY SeatSumParts
  <1> QED BY <1>1, <1>4, <1>5, <1>6, <1>7

\* Summing a table by rows or by columns is the same.
LEMMA SeatSumSwap ==
    ASSUME NEW F \in [Seats -> [Seats -> Int]]
    PROVE  SeatSum([s \in Seats |-> SeatSum([t \in Seats |-> F[s][t]])])
             = SeatSum([t \in Seats |-> SeatSum([s \in Seats |-> F[s][t]])])
  <1> DEFINE a(i, j) == IF i < N /\ j < N THEN F[i][j] ELSE 0
             row(i) == a(i, 0) + a(i, 1) + a(i, 2) + a(i, 3) + a(i, 4) + a(i, 5)
             col(j) == a(0, j) + a(1, j) + a(2, j) + a(3, j) + a(4, j) + a(5, j)
             rows == [s \in Seats |-> SeatSum([t \in Seats |-> F[s][t]])]
             cols == [t \in Seats |-> SeatSum([s \in Seats |-> F[s][t]])]
  <1>1. N \in 2..6 /\ Seats = 0..(N - 1)
    BY EngineConstants DEF Seats
  <1>2. \A i, j \in 0..5 : a(i, j) \in Int
    <2> SUFFICES ASSUME NEW i \in 0..5, NEW j \in 0..5, i < N, j < N PROVE F[i][j] \in Int
      OBVIOUS
    <2>1. i \in Seats /\ j \in Seats
      BY <1>1
    <2> QED BY <2>1
  <1>3. \A i \in 0..5 : /\ a(i, 0) \in Int /\ a(i, 1) \in Int /\ a(i, 2) \in Int
                         /\ a(i, 3) \in Int /\ a(i, 4) \in Int /\ a(i, 5) \in Int
    <2> HIDE DEF a
    <2> QED BY <1>2
  <1>4. \A j \in 0..5 : /\ a(0, j) \in Int /\ a(1, j) \in Int /\ a(2, j) \in Int
                         /\ a(3, j) \in Int /\ a(4, j) \in Int /\ a(5, j) \in Int
    <2> HIDE DEF a
    <2> QED BY <1>2
  <1>5. ASSUME NEW i \in 0..5 PROVE At(rows, i) = row(i) /\ row(i) \in Int
    <2>1. row(i) \in Int
      <3> HIDE DEF a
      <3> QED BY <1>3
    <2>2. CASE i < N
      <3> DEFINE f == [t \in Seats |-> F[i][t]]
      <3>1. i \in Seats
        BY <1>1, <2>2
      <3>2. \A j \in 0..5 : At(f, j) = a(i, j)
        BY <1>1, <2>2 DEF At
      <3>3. At(rows, i) = SeatSum(f)
        BY <2>2, <3>1 DEF At
      <3>4. f \in [Seats -> Int]
        BY <3>1
      <3> HIDE DEF f, a, rows
      <3>5. SeatSum(f) = At(f, 0) + At(f, 1) + At(f, 2) + At(f, 3) + At(f, 4) + At(f, 5)
        BY <3>4, SeatSumParts
      <3> QED BY <2>1, <3>2, <3>3, <3>5
    <2>3. CASE ~(i < N)
      <3>1. \A j \in 0..5 : a(i, j) = 0
        BY <2>3
      <3>2. At(rows, i) = 0
        BY <2>3 DEF At
      <3> HIDE DEF a, rows
      <3>3. row(i) = 0
        BY <3>1
      <3> QED BY <2>1, <3>2, <3>3
    <2> QED BY <2>2, <2>3
  <1>6. ASSUME NEW j \in 0..5 PROVE At(cols, j) = col(j) /\ col(j) \in Int
    <2>1. col(j) \in Int
      <3> HIDE DEF a
      <3> QED BY <1>4
    <2>2. CASE j < N
      <3> DEFINE f == [s \in Seats |-> F[s][j]]
      <3>1. j \in Seats
        BY <1>1, <2>2
      <3>2. \A i \in 0..5 : At(f, i) = a(i, j)
        BY <1>1, <2>2 DEF At
      <3>3. At(cols, j) = SeatSum(f)
        BY <2>2, <3>1 DEF At
      <3>4. f \in [Seats -> Int]
        BY <3>1
      <3> HIDE DEF f, a, cols
      <3>5. SeatSum(f) = At(f, 0) + At(f, 1) + At(f, 2) + At(f, 3) + At(f, 4) + At(f, 5)
        BY <3>4, SeatSumParts
      <3> QED BY <2>1, <3>2, <3>3, <3>5
    <2>3. CASE ~(j < N)
      <3>1. \A i \in 0..5 : a(i, j) = 0
        BY <2>3
      <3>2. At(cols, j) = 0
        BY <2>3 DEF At
      <3> HIDE DEF a, cols
      <3>3. col(j) = 0
        BY <3>1
      <3> QED BY <2>1, <3>2, <3>3
    <2> QED BY <2>2, <2>3
  <1>7. SeatSum(rows) = row(0) + row(1) + row(2) + row(3) + row(4) + row(5)
    <2>1. SeatSum(rows) = At(rows, 0) + At(rows, 1) + At(rows, 2) + At(rows, 3) + At(rows, 4) + At(rows, 5)
      BY DEF SeatSum, At
    <2> HIDE DEF rows, row
    <2> QED BY <1>5, <2>1
  <1>8. SeatSum(cols) = col(0) + col(1) + col(2) + col(3) + col(4) + col(5)
    <2>1. SeatSum(cols) = At(cols, 0) + At(cols, 1) + At(cols, 2) + At(cols, 3) + At(cols, 4) + At(cols, 5)
      BY DEF SeatSum, At
    <2> HIDE DEF cols, col
    <2> QED BY <1>6, <2>1
  <1>9. row(0) + row(1) + row(2) + row(3) + row(4) + row(5)
          = col(0) + col(1) + col(2) + col(3) + col(4) + col(5)
    <2>1. /\ a(0, 0) \in Int /\ a(0, 1) \in Int /\ a(0, 2) \in Int /\ a(0, 3) \in Int /\ a(0, 4) \in Int /\ a(0, 5) \in Int
          /\ a(1, 0) \in Int /\ a(1, 1) \in Int /\ a(1, 2) \in Int /\ a(1, 3) \in Int /\ a(1, 4) \in Int /\ a(1, 5) \in Int
          /\ a(2, 0) \in Int /\ a(2, 1) \in Int /\ a(2, 2) \in Int /\ a(2, 3) \in Int /\ a(2, 4) \in Int /\ a(2, 5) \in Int
          /\ a(3, 0) \in Int /\ a(3, 1) \in Int /\ a(3, 2) \in Int /\ a(3, 3) \in Int /\ a(3, 4) \in Int /\ a(3, 5) \in Int
          /\ a(4, 0) \in Int /\ a(4, 1) \in Int /\ a(4, 2) \in Int /\ a(4, 3) \in Int /\ a(4, 4) \in Int /\ a(4, 5) \in Int
          /\ a(5, 0) \in Int /\ a(5, 1) \in Int /\ a(5, 2) \in Int /\ a(5, 3) \in Int /\ a(5, 4) \in Int /\ a(5, 5) \in Int
      <3> HIDE DEF a
      <3> QED BY <1>3
    <2> HIDE DEF a
    <2> QED BY <2>1, SMTT(30)
  <1> HIDE DEF row, col
  <1>10. SeatSum(rows) = SeatSum(cols)
    <2> HIDE DEF rows, cols
    <2> QED BY <1>7, <1>8, <1>9
  <1> QED BY <1>10

\* How many of a set are below i + 1, from how many are below i.
LEMMA CountOne ==
    ASSUME NEW T \in SUBSET Seats, NEW i \in Nat
    PROVE  /\ Cardinality(T \cap 0..(i - 1)) \in Nat
           /\ Cardinality(T \cap 0..i) = Cardinality(T \cap 0..(i - 1)) + IF i \in T THEN 1 ELSE 0
  <1> DEFINE S == T \cap 0..(i - 1)
  <1>1. IsFiniteSet(S)
    BY SeatSetSize
  <1>2. Cardinality(S) \in Nat
    BY <1>1, FS_CardinalityType
  <1>3. T \cap 0..i = IF i \in T THEN S \cup {i} ELSE S
    OBVIOUS
  <1>4. i \notin S
    OBVIOUS
  <1>5. Cardinality(S \cup {i}) = Cardinality(S) + 1
    BY <1>1, <1>4, FS_AddElement
  <1> QED BY <1>2, <1>3, <1>5

\* Giving each member of a set of seats the same amount gives that many times it.
LEMMA SeatSumOver ==
    ASSUME NEW T \in SUBSET Seats, NEW e \in Int
    PROVE  SeatSum([s \in Seats |-> IF s \in T THEN e ELSE 0]) = e * Cardinality(T)
  <1> DEFINE f == [s \in Seats |-> IF s \in T THEN e ELSE 0]
             n(i) == Cardinality(T \cap 0..(i - 1))
  <1>1. N \in 2..6 /\ Seats = 0..(N - 1)
    BY EngineConstants DEF Seats
  <1>2. f \in [Seats -> Int]
    OBVIOUS
  <1>3. \A i \in 0..5 : At(f, i) = IF i \in T THEN e ELSE 0
    BY <1>1 DEF At
  <1>4. T \cap 0..(0 - 1) = {} /\ T \cap 0..(6 - 1) = T
    <2>1. 0..(0 - 1) = {} /\ Seats \subseteq 0..(6 - 1)
      BY <1>1
    <2> QED BY <2>1
  <1>5. n(0) = 0 /\ n(6) = Cardinality(T)
    BY <1>4, FS_EmptySet
  <1>6. \A i \in 0..5 : n(i) \in Nat /\ n(i + 1) = n(i) + IF i \in T THEN 1 ELSE 0
    <2> SUFFICES ASSUME NEW i \in 0..5
                 PROVE  n(i) \in Nat /\ n(i + 1) = n(i) + IF i \in T THEN 1 ELSE 0
      OBVIOUS
    <2>1. i \in Nat /\ (i + 1) - 1 = i
      OBVIOUS
    <2> QED BY <2>1, CountOne
  <1> HIDE DEF n, f
  <1>7. ASSUME NEW i \in 0..5 PROVE n(i) \in Nat /\ n(i + 1) \in Nat /\ e * n(i + 1) = e * n(i) + At(f, i)
    <2>1. n(i) \in Nat
      BY <1>6
    <2>2. CASE i \in T
      <3>1. n(i + 1) = n(i) + 1 /\ At(f, i) = e
        BY <1>3, <1>6, <2>2
      <3>2. e * (n(i) + 1) = e * n(i) + e
        BY <2>1
      <3> QED BY <2>1, <3>1, <3>2
    <2>3. CASE i \notin T
      <3>1. n(i + 1) = n(i) + 0 /\ At(f, i) = 0
        BY <1>3, <1>6, <2>3
      <3> QED BY <2>1, <3>1
    <2> QED BY <2>2, <2>3
  <1> DEFINE p(i) == e * n(i)
  <1>8. \A i \in 0..5 : p(i) \in Int /\ p(i + 1) = p(i) + At(f, i)
    BY <1>7
  <1>9. p(0) = 0 /\ p(6) = e * Cardinality(T)
    BY <1>5
  <1> HIDE DEF p
  <1>10. /\ p(1) = p(0) + At(f, 0) /\ p(2) = p(1) + At(f, 1) /\ p(3) = p(2) + At(f, 2)
         /\ p(4) = p(3) + At(f, 3) /\ p(5) = p(4) + At(f, 4) /\ p(6) = p(5) + At(f, 5)
    BY <1>8
  <1>11. SeatSum(f) = p(6)
    BY <1>2, <1>9, <1>10, SeatSumParts
  <1> QED BY <1>9, <1>11 DEF f

\* No summand of naturals is above the sum.
LEMMA SeatSumBounds ==
    ASSUME NEW f \in [Seats -> Nat], NEW s \in Seats
    PROVE  f[s] <= SeatSum(f)
  <1> DEFINE g == [t \in Seats |-> IF t = s THEN f[s] ELSE 0]
  <1>1. f \in [Seats -> Int] /\ g \in [Seats -> Int] /\ g[s] = f[s] /\ \A t \in Seats \ {s} : g[t] = 0
    OBVIOUS
  <1>2. \A t \in Seats : g[t] <= f[t]
    OBVIOUS
  <1> HIDE DEF g
  <1>3. SeatSum(g) = g[s]
    BY <1>1, SeatSumOne
  <1>4. SeatSum(g) <= SeatSum(f)
    BY <1>1, <1>2, SeatSumLeq
  <1> QED BY <1>1, <1>3, <1>4

-----------------------------------------------------------------------------
(* The side pots *)

\* What a layer holds.
PotOf(ss, lvl) == (lvl - LayerBottom(ss, lvl)) * Cardinality(Eligible(ss, lvl))

\* The layers up to x, each at the seat that stands for it, and what every seat
\* put in up to x.
LayersUpTo(ss, x) ==
    [t \in Seats |-> IF Tops(ss, t) /\ ss[t].totalCommit <= x THEN PotOf(ss, ss[t].totalCommit) ELSE 0]
Capped(ss, x) == [o \in Seats |-> Lesser(ss[o].totalCommit, x)]

Commits(ss) == [s \in Seats |-> ss[s].totalCommit]

\* A layer reaches down to the next lower commitment, or to nothing.
LEMMA LayerBottomIs ==
    ASSUME NEW ss \in [Seats -> SeatRecord], NEW lvl \in Levels(ss)
    PROVE  /\ lvl \in Nat /\ lvl > 0
           /\ LayerBottom(ss, lvl) \in Nat /\ LayerBottom(ss, lvl) < lvl
           /\ LayerBottom(ss, lvl) \in Levels(ss) \cup {0}
           /\ \A l \in Levels(ss) : l \in Nat /\ (l < lvl => l <= LayerBottom(ss, lvl))
  <1> DEFINE T == {0} \cup {l \in Levels(ss) : l < lvl}
  <1>1. \A l \in Levels(ss) : l \in Nat /\ l > 0
    BY DEF Levels, SeatRecord
  <1>2. T \in SUBSET (0..lvl) /\ T # {} /\ lvl \in Nat
    BY <1>1
  <1>3. Max(T) \in T /\ \A y \in T : y <= Max(T)
    BY <1>2, MaxOfBounded
  <1>4. LayerBottom(ss, lvl) = Max(T)
    BY DEF LayerBottom
  <1>5. Max(T) \in Levels(ss) \cup {0} /\ Max(T) < lvl /\ Max(T) \in Nat
    BY <1>1, <1>3
  <1>6. \A l \in Levels(ss) : l < lvl => l <= Max(T)
    BY <1>3
  <1> QED BY <1>1, <1>4, <1>5, <1>6

\* Every layer is a natural number of chips.
LEMMA PotOfType ==
    ASSUME NEW ss \in [Seats -> SeatRecord], NEW lvl \in Nat
    PROVE  PotOf(ss, lvl) \in Nat
  <1> DEFINE d == lvl - LayerBottom(ss, lvl)
             e == Cardinality(Eligible(ss, lvl))
  <1>1. d \in Nat
    BY LayerBottomBelow
  <1>2. e \in Nat
    <2>1. Eligible(ss, lvl) \in SUBSET Seats
      BY DEF Eligible
    <2>2. e \in 0..6
      BY <2>1, SeatSetSize
    <2> QED BY <2>2
  <1> HIDE DEF d, e
  <1>3. d * e \in Nat
    BY <1>1, <1>2
  <1> QED BY <1>3 DEF PotOf, d, e

\* Each layer is counted at one seat.
LEMMA TopSeat ==
    ASSUME NEW ss \in [Seats -> SeatRecord], NEW x \in Levels(ss)
    PROVE  \E t \in Seats : /\ Tops(ss, t) /\ ss[t].totalCommit = x
                            /\ \A o \in Seats : Tops(ss, o) /\ ss[o].totalCommit = x => o = t
  <1> DEFINE T == {t \in Seats : ss[t].totalCommit = x}
             t == Min(T)
  <1>1. Seats \subseteq Nat /\ x > 0
    BY LayerBottomIs, EngineConstants DEF Seats
  <1>2. T \in SUBSET Nat /\ T # {}
    BY <1>1 DEF Levels
  <1>3. t \in T /\ \A o \in T : t <= o
    BY <1>2, MinOfNaturals
  <1> HIDE DEF t
  <1>4. \A o \in Seats : o < t => o \notin T
    <2> SUFFICES ASSUME NEW o \in Seats, o < t, o \in T PROVE FALSE
      OBVIOUS
    <2>1. t <= o /\ o \in Nat /\ t \in Nat
      BY <1>1, <1>3
    <2> QED BY <2>1
  <1>5. Tops(ss, t)
    BY <1>1, <1>3, <1>4 DEF Tops
  <1>6. \A o \in Seats : Tops(ss, o) /\ ss[o].totalCommit = x => o = t
    <2> SUFFICES ASSUME NEW o \in Seats, Tops(ss, o), ss[o].totalCommit = x PROVE o = t
      OBVIOUS
    <2>1. t <= o /\ o \in Nat /\ t \in Nat /\ t \in Seats /\ ss[t].totalCommit = x
      BY <1>1, <1>3
    <2>2. ~(t < o)
      BY <2>1 DEF Tops
    <2> QED BY <2>1, <2>2
  <1> QED BY <1>3, <1>5, <1>6

\* The layers up to a commitment hold exactly what all seats put in up to it:
\* take the lowest for which this fails, and look at the layer below.
LEMMA LayersHold ==
    ASSUME NEW ss \in [Seats -> SeatRecord], NEW x \in Levels(ss) \cup {0}
    PROVE  SeatSum(LayersUpTo(ss, x)) = SeatSum(Capped(ss, x))
  <1> DEFINE Good(y) == SeatSum(LayersUpTo(ss, y)) = SeatSum(Capped(ss, y))
             Bad == {y \in Levels(ss) \cup {0} : ~Good(y)}
  <1>1. \A s \in Seats : ss[s].totalCommit \in Nat /\ PotOf(ss, ss[s].totalCommit) \in Nat
    BY PotOfType DEF SeatRecord
  <1>2. \A y \in Levels(ss) : y \in Nat /\ y > 0
    BY LayerBottomIs
  <1>3. \A y \in Nat : LayersUpTo(ss, y) \in [Seats -> Int] /\ Capped(ss, y) \in [Seats -> Int]
    BY <1>1 DEF LayersUpTo, Capped, Lesser
  <1>4. Good(0)
    <2>1. \A t \in Seats : LayersUpTo(ss, 0)[t] = 0 /\ Capped(ss, 0)[t] = 0
      BY <1>1 DEF LayersUpTo, Capped, Lesser, Tops
    <2>2. SeatSum(LayersUpTo(ss, 0)) = 0 /\ SeatSum(Capped(ss, 0)) = 0
      BY <1>3, <2>1, SeatSumZero
    <2> QED BY <2>2
  <1>5. ASSUME NEW y \in Levels(ss), Good(LayerBottom(ss, y)) PROVE Good(y)
    <2> DEFINE b == LayerBottom(ss, y)
               pot == PotOf(ss, y)
    <2>1. /\ y \in Nat /\ y > 0 /\ b \in Nat /\ b < y /\ y - b \in Nat
          /\ \A l \in Levels(ss) : l \in Nat /\ (l < y => l <= b)
      BY LayerBottomIs
    <2>2. pot = (y - b) * Cardinality(Eligible(ss, y)) /\ pot \in Nat
      BY <2>1, PotOfType DEF PotOf
    <2>3. PICK t0 \in Seats : /\ Tops(ss, t0) /\ ss[t0].totalCommit = y
                              /\ \A o \in Seats : Tops(ss, o) /\ ss[o].totalCommit = y => o = t0
      BY TopSeat
    <2>4. \A o \in Seats : ss[o].totalCommit = 0 \/ ss[o].totalCommit \in Levels(ss)
      BY DEF Levels
    <2> HIDE DEF b
    <2>5. ASSUME NEW o \in Seats, ss[o].totalCommit < y PROVE ss[o].totalCommit <= b
      <3>1. CASE ss[o].totalCommit = 0
        BY <2>1, <3>1
      <3>2. CASE ss[o].totalCommit \in Levels(ss)
        BY <2>1, <2>5, <3>2
      <3> QED BY <2>4, <3>1, <3>2
    <2> DEFINE one == [t \in Seats |-> IF t = t0 THEN pot ELSE 0]
               slice == [o \in Seats |-> IF o \in Eligible(ss, y) THEN y - b ELSE 0]
    <2>6. one \in [Seats -> Int] /\ slice \in [Seats -> Int] /\ one[t0] = pot
          /\ \A t \in Seats \ {t0} : one[t] = 0
      BY <2>1, <2>2
    <2>7. \A t \in Seats : LayersUpTo(ss, y)[t] = LayersUpTo(ss, b)[t] + one[t]
      <3> SUFFICES ASSUME NEW t \in Seats
                   PROVE  LayersUpTo(ss, y)[t] = LayersUpTo(ss, b)[t] + one[t]
        OBVIOUS
      <3> DEFINE c == ss[t].totalCommit
      <3>1. /\ c \in Nat /\ PotOf(ss, c) \in Nat /\ (c < y => c <= b)
            /\ LayersUpTo(ss, y)[t] = IF Tops(ss, t) /\ c <= y THEN PotOf(ss, c) ELSE 0
            /\ LayersUpTo(ss, b)[t] = IF Tops(ss, t) /\ c <= b THEN PotOf(ss, c) ELSE 0
        BY <1>1, <2>5 DEF LayersUpTo
      <3> HIDE DEF c
      <3>2. CASE t = t0
        <4>1. c = y /\ Tops(ss, t) /\ one[t] = pot
          BY <2>3, <3>2 DEF c
        <4> HIDE DEF pot, one
        <4>2. pot = PotOf(ss, c)
          BY <4>1 DEF pot
        <4> QED BY <2>1, <3>1, <4>1, <4>2
      <3>3. CASE t # t0
        <4>1. one[t] = 0 /\ (Tops(ss, t) => c # y)
          BY <2>3, <3>3 DEF c
        <4> HIDE DEF one
        <4> QED BY <2>1, <3>1, <4>1
      <3> QED BY <3>2, <3>3
    <2>8. \A o \in Seats : Capped(ss, y)[o] = Capped(ss, b)[o] + slice[o]
      <3> SUFFICES ASSUME NEW o \in Seats
                   PROVE  Capped(ss, y)[o] = Capped(ss, b)[o] + slice[o]
        OBVIOUS
      <3> DEFINE c == ss[o].totalCommit
      <3>1. /\ c \in Nat /\ (c < y => c <= b)
            /\ Capped(ss, y)[o] = (IF c < y THEN c ELSE y)
            /\ Capped(ss, b)[o] = (IF c < b THEN c ELSE b)
            /\ slice[o] = (IF c >= y THEN y - b ELSE 0)
        BY <1>1, <2>5 DEF Capped, Lesser, Eligible
      <3> HIDE DEF c, slice
      <3> QED BY <2>1, <3>1
    <2>9. SeatSum(one) = pot /\ SeatSum(slice) = pot
      <3>1. SeatSum(one) = pot
        <4> HIDE DEF one, pot
        <4> QED BY <2>6, SeatSumOne
      <3>2. Eligible(ss, y) \in SUBSET Seats /\ y - b \in Int
        BY <2>1 DEF Eligible
      <3> QED BY <2>2, <3>1, <3>2, SeatSumOver
    <2> HIDE DEF one, slice, pot
    <2>10. /\ SeatSum(LayersUpTo(ss, y)) = SeatSum(LayersUpTo(ss, b)) + SeatSum(one)
           /\ SeatSum(Capped(ss, y)) = SeatSum(Capped(ss, b)) + SeatSum(slice)
      <3> DEFINE ly == LayersUpTo(ss, y)
                 lb == LayersUpTo(ss, b)
                 cy == Capped(ss, y)
                 cb == Capped(ss, b)
      <3>1. /\ ly \in [Seats -> Int] /\ lb \in [Seats -> Int]
            /\ cy \in [Seats -> Int] /\ cb \in [Seats -> Int]
        BY <1>3, <2>1
      <3>2. \A t \in Seats : ly[t] = lb[t] + one[t]
        BY <2>7
      <3>3. \A t \in Seats : cy[t] = cb[t] + slice[t]
        BY <2>8
      <3> HIDE DEF ly, lb, cy, cb
      <3>4. SeatSum(ly) = SeatSum(lb) + SeatSum(one)
        BY <2>6, <3>1, <3>2, SeatSumAdd
      <3>5. SeatSum(cy) = SeatSum(cb) + SeatSum(slice)
        BY <2>6, <3>1, <3>3, SeatSumAdd
      <3> QED BY <3>4, <3>5 DEF ly, lb, cy, cb
    <2>11. SeatSum(LayersUpTo(ss, b)) = SeatSum(Capped(ss, b))
      BY <1>5 DEF b
    <2> QED BY <2>9, <2>10, <2>11
  <1> HIDE DEF Good
  <1>6. Bad = {}
    <2> SUFFICES ASSUME Bad # {} PROVE FALSE
      OBVIOUS
    <2> DEFINE m == Min(Bad)
    <2>1. Bad \in SUBSET Nat
      BY <1>2
    <2>2. m \in Bad /\ \A y \in Bad : m <= y
      <3> HIDE DEF Bad
      <3> QED BY <2>1, MinOfNaturals
    <2> HIDE DEF m
    <2>3. m \in Levels(ss) /\ ~Good(m)
      BY <1>4, <2>2
    <2>4. LayerBottom(ss, m) \in Levels(ss) \cup {0} /\ LayerBottom(ss, m) < m
          /\ LayerBottom(ss, m) \in Nat /\ m \in Nat
      BY <2>3, LayerBottomIs
    <2>5. LayerBottom(ss, m) \notin Bad
      <3> HIDE DEF Bad
      <3> QED BY <2>2, <2>4
    <2> QED BY <1>5, <2>3, <2>4, <2>5
  <1>7. Good(x)
    BY <1>6
  <1> QED BY <1>7 DEF Good

\* There is a most that any of some seats put in.
LEMMA MostCommitted ==
    ASSUME NEW ss \in [Seats -> SeatRecord], NEW T \in SUBSET Seats, T # {}
    PROVE  LET most == Max({ss[o].totalCommit : o \in T})
           IN  /\ most \in Nat /\ most \in Levels(ss) \cup {0}
               /\ \E o \in T : most = ss[o].totalCommit
               /\ \A o \in T : ss[o].totalCommit <= most
  <1> DEFINE C == {ss[o].totalCommit : o \in T}
             b == SeatSum(Commits(ss))
  <1>1. Commits(ss) \in [Seats -> Nat] /\ \A o \in Seats : Commits(ss)[o] = ss[o].totalCommit
    BY DEF Commits, SeatRecord
  <1>2. b \in Nat /\ \A o \in Seats : ss[o].totalCommit \in Nat /\ ss[o].totalCommit <= b
    BY <1>1, SeatSumType, SeatSumBounds
  <1> HIDE DEF b
  <1>3. C \in SUBSET (0..b) /\ C # {}
    BY <1>2
  <1>4. Max(C) \in C /\ \A y \in C : y <= Max(C)
    <2> HIDE DEF C
    <2> QED BY <1>2, <1>3, MaxOfBounded
  <1>5. PICK o \in T : Max(C) = ss[o].totalCommit
    BY <1>4
  <1>6. Max(C) \in Nat /\ Max(C) \in Levels(ss) \cup {0}
    BY <1>2, <1>5 DEF Levels
  <1> QED BY <1>4, <1>5, <1>6

\* A layer has a winner as long as somebody is live (scoreAndPay's "no live
\* seat to award a pot layer to" cannot happen then), and only live seats win.
LEMMA LayerHasWinner ==
    ASSUME NEW ss \in [Seats -> SeatRecord], NEW sc \in [Seats -> Nat], NEW lvl, Live(ss) # {}
    PROVE  Winners(ss, sc, lvl) \in SUBSET Live(ss) /\ Winners(ss, sc, lvl) # {}
  <1> DEFINE C == Contenders(ss, lvl)
             V == {sc[s] : s \in C}
             b == SeatSum(sc)
  <1>1. C \in SUBSET Live(ss) /\ C # {} /\ Live(ss) \in SUBSET Seats
    BY DEF Contenders, Eligible, Live
  <1>2. b \in Nat /\ \A s \in Seats : sc[s] <= b
    BY SeatSumType, SeatSumBounds
  <1> HIDE DEF C, b
  <1>3. V \in SUBSET (0..b) /\ V # {}
    BY <1>1, <1>2
  <1>4. Max(V) \in V /\ \A y \in V : y <= Max(V)
    <2> HIDE DEF V
    <2> QED BY <1>2, <1>3, MaxOfBounded
  <1>5. PICK s \in C : Max(V) = sc[s]
    BY <1>4
  <1>6. \A o \in C : sc[s] >= sc[o]
    <2> SUFFICES ASSUME NEW o \in C PROVE sc[s] >= sc[o]
      OBVIOUS
    <2>1. sc[o] <= Max(V) /\ sc[o] \in Nat /\ sc[s] \in Nat
      BY <1>1, <1>4
    <2> QED BY <1>5, <2>1
  <1>7. s \in Winners(ss, sc, lvl)
    BY <1>6 DEF Winners, C
  <1>8. Winners(ss, sc, lvl) \in SUBSET Live(ss)
    BY <1>1 DEF Winners, C
  <1> QED BY <1>7, <1>8

\* A layer is paid out exactly, odd chips included.
LEMMA LayerPaid ==
    ASSUME NEW ss \in [Seats -> SeatRecord], NEW sc \in [Seats -> Nat], NEW lvl \in Nat, Live(ss) # {}
    PROVE  SeatSum([s \in Seats |-> LayerShare(ss, sc, lvl, s)]) = PotOf(ss, lvl)
  <1> DEFINE won == Winners(ss, sc, lvl)
             k == Cardinality(won)
             pot == PotOf(ss, lvl)
             each == pot \div k
             first == Min(won)
             share == [s \in Seats |-> LayerShare(ss, sc, lvl, s)]
             even == [s \in Seats |-> IF s \in won THEN each ELSE 0]
             odd == [s \in Seats |-> IF s = first THEN pot - each * k ELSE 0]
  <1>1. won \in SUBSET Seats /\ won # {}
    BY LayerHasWinner DEF Live
  <1>2. pot \in Nat /\ k \in 1..6
    <2>1. k \in 0..6 /\ k # 0
      BY <1>1, SeatSetSize
    <2> QED BY <2>1, PotOfType
  <1>3. first \in won /\ first \in Seats
    <2>1. Seats \subseteq Nat
      BY EngineConstants DEF Seats
    <2>2. won \in SUBSET Nat
      BY <1>1, <2>1
    <2> HIDE DEF won
    <2> QED BY <1>1, <2>2, MinOfNaturals
  <1>4. \A s \in Seats : share[s] = IF s \notin won THEN 0
                                    ELSE IF s = first THEN pot - each * (k - 1) ELSE each
    BY DEF LayerShare, PotOf
  <1>5. share \in [Seats -> Int]
    <2>1. \A s \in Seats : LayerShare(ss, sc, lvl, s) \in Int
      BY LayerShareType
    <2> QED BY <2>1
  <1> HIDE DEF won, k, pot, first, share
  <1>6. each \in Int
    BY <1>2
  <1> HIDE DEF each
  <1>7. each * k \in Int /\ pot - each * k \in Int /\ pot - each * (k - 1) = each + (pot - each * k)
    BY <1>2, <1>6
  <1>8. even \in [Seats -> Int] /\ odd \in [Seats -> Int] /\ odd[first] = pot - each * k
        /\ \A s \in Seats \ {first} : odd[s] = 0
    BY <1>3, <1>6, <1>7
  <1>9. \A s \in Seats : share[s] = even[s] + odd[s]
    <2> SUFFICES ASSUME NEW s \in Seats PROVE share[s] = even[s] + odd[s]
      OBVIOUS
    <2>1. CASE s \notin won
      BY <1>3, <1>4, <2>1
    <2>2. CASE s \in won /\ s = first
      BY <1>4, <1>7, <2>2
    <2>3. CASE s \in won /\ s # first
      BY <1>4, <1>6, <2>3
    <2> QED BY <2>1, <2>2, <2>3
  <1>10. SeatSum(even) = each * k
    BY <1>1, <1>6, SeatSumOver DEF k
  <1>11. SeatSum(odd) = pot - each * k
    <2> HIDE DEF odd
    <2> QED BY <1>3, <1>8, SeatSumOne
  <1> HIDE DEF even, odd
  <1>12. SeatSum(share) = SeatSum(even) + SeatSum(odd)
    BY <1>5, <1>8, <1>9, SeatSumAdd
  <1>13. SeatSum(share) = pot
    BY <1>2, <1>7, <1>10, <1>11, <1>12
  <1> QED BY <1>13 DEF share, pot

\* Paying every layer pays what was put in.
LEMMA WonSum ==
    ASSUME NEW ss \in [Seats -> SeatRecord], NEW sc \in [Seats -> Nat], Live(ss) # {}
    PROVE  SeatSum(Won(ss, sc)) = SeatSum(Commits(ss))
  <1> DEFINE F == [s \in Seats |-> [t \in Seats |->
                      IF Tops(ss, t) THEN LayerShare(ss, sc, ss[t].totalCommit, s) ELSE 0]]
             top == Max({ss[o].totalCommit : o \in Seats})
  <1>1. \A s \in Seats : ss[s].totalCommit \in Nat
    BY DEF SeatRecord
  <1>2. \A s, t \in Seats : LayerShare(ss, sc, ss[t].totalCommit, s) \in Nat
    BY <1>1, LayerShareType
  <1>3. F \in [Seats -> [Seats -> Int]]
    BY <1>2
  <1>4. \A s, t \in Seats : F[s][t] = IF Tops(ss, t) THEN LayerShare(ss, sc, ss[t].totalCommit, s) ELSE 0
    OBVIOUS
  <1>5. Won(ss, sc) = [s \in Seats |-> SeatSum([t \in Seats |-> F[s][t]])]
    <2>1. ASSUME NEW s \in Seats
          PROVE  [t \in Seats |-> F[s][t]] = [t \in Seats |->
                    IF Tops(ss, t) THEN LayerShare(ss, sc, ss[t].totalCommit, s) ELSE 0]
      BY <1>4
    <2> HIDE DEF F
    <2> QED BY <2>1 DEF Won
  <1>6. /\ top \in Nat /\ top \in Levels(ss) \cup {0}
        /\ \A o \in Seats : ss[o].totalCommit <= top
    <2>1. 0 \in Seats
      BY EngineConstants DEF Seats
    <2>2. Seats # {}
      BY <2>1
    <2> QED BY <2>2, MostCommitted
  <1> HIDE DEF F, top
  <1>7. ASSUME NEW t \in Seats
        PROVE  SeatSum([s \in Seats |-> F[s][t]]) = LayersUpTo(ss, top)[t]
    <2>1. CASE Tops(ss, t)
      <3>1. [s \in Seats |-> F[s][t]] = [s \in Seats |-> LayerShare(ss, sc, ss[t].totalCommit, s)]
        BY <1>4, <2>1
      <3>2. LayersUpTo(ss, top)[t] = PotOf(ss, ss[t].totalCommit)
        BY <1>6, <2>1 DEF LayersUpTo
      <3>3. SeatSum([s \in Seats |-> LayerShare(ss, sc, ss[t].totalCommit, s)]) = PotOf(ss, ss[t].totalCommit)
        BY <1>1, LayerPaid
      <3> QED BY <3>1, <3>2, <3>3
    <2>2. CASE ~Tops(ss, t)
      <3> DEFINE z == [s \in Seats |-> F[s][t]]
      <3>1. \A s \in Seats : z[s] = 0
        BY <1>4, <2>2
      <3>2. z \in [Seats -> Int]
        BY <3>1
      <3>3. LayersUpTo(ss, top)[t] = 0
        BY <2>2 DEF LayersUpTo
      <3> HIDE DEF z
      <3>4. SeatSum(z) = 0
        BY <3>1, <3>2, SeatSumZero
      <3> QED BY <3>3, <3>4 DEF z
    <2> QED BY <2>1, <2>2
  <1>8. [t \in Seats |-> SeatSum([s \in Seats |-> F[s][t]])] = LayersUpTo(ss, top)
    <2>1. LayersUpTo(ss, top) = [t \in Seats |-> LayersUpTo(ss, top)[t]]
      BY DEF LayersUpTo
    <2> QED BY <1>7, <2>1
  <1>9. Capped(ss, top) = Commits(ss)
    <2>1. \A o \in Seats : Lesser(ss[o].totalCommit, top) = ss[o].totalCommit
      BY <1>1, <1>6 DEF Lesser
    <2> QED BY <2>1 DEF Capped, Commits
  <1>10. SeatSum(Won(ss, sc)) = SeatSum(LayersUpTo(ss, top))
    BY <1>3, <1>5, <1>8, SeatSumSwap
  <1> QED BY <1>6, <1>9, <1>10, LayersHold

\* What a layer pays a seat: nothing to a folded one or to one that put in less
\* than some live seat of the layer, never more than the layer, and all of it to
\* a seat that beats every other live one.
LEMMA LayerShareIs ==
    ASSUME NEW ss \in [Seats -> SeatRecord], NEW sc \in [Seats -> Nat], NEW lvl \in Nat,
           Live(ss) # {}, NEW s \in Seats
    PROVE  LET share == LayerShare(ss, sc, lvl, s)
               most == Max({ss[o].totalCommit : o \in Live(ss)})
           IN  /\ s \notin Live(ss) => share = 0
               /\ ss[s].totalCommit < lvl /\ lvl <= most => share = 0
               /\ share <= PotOf(ss, lvl)
               /\ (/\ s \in Live(ss) /\ \A o \in Live(ss) \ {s} : sc[s] > sc[o]
                   /\ lvl <= ss[s].totalCommit \/ most < lvl) => share = PotOf(ss, lvl)
  <1> DEFINE share == [o \in Seats |-> LayerShare(ss, sc, lvl, o)]
             most == Max({ss[o].totalCommit : o \in Live(ss)})
             won == Winners(ss, sc, lvl)
  <1>1. \A o \in Seats : share[o] = LayerShare(ss, sc, lvl, o) /\ share[o] \in Nat
    BY LayerShareType
  <1>2. share \in [Seats -> Nat] /\ share \in [Seats -> Int]
    BY <1>1
  <1>3. SeatSum(share) = PotOf(ss, lvl)
    BY LayerPaid
  <1>4. won \in SUBSET Live(ss) /\ won # {} /\ Live(ss) \in SUBSET Seats
    BY LayerHasWinner DEF Live
  <1>5. \A o \in Seats : o \notin won => share[o] = 0
    BY DEF LayerShare
  <1>6. /\ \A o \in Seats : ss[o].totalCommit \in Nat /\ sc[o] \in Nat
        /\ most \in Nat /\ (\E o \in Live(ss) : most = ss[o].totalCommit)
        /\ \A o \in Live(ss) : ss[o].totalCommit <= most
    <2>1. \A o \in Seats : ss[o].totalCommit \in Nat /\ sc[o] \in Nat
      BY DEF SeatRecord
    <2> QED BY <1>4, <2>1, MostCommitted
  <1> HIDE DEF share, most, won
  <1>7. s \notin Live(ss) => share[s] = 0
    BY <1>4, <1>5
  <1>8. ASSUME ss[s].totalCommit < lvl, lvl <= most PROVE share[s] = 0
    <2>1. PICK o \in Live(ss) : most = ss[o].totalCommit
      BY <1>6
    <2>2. o \in Eligible(ss, lvl) \cap Live(ss)
      BY <1>4, <1>8, <2>1 DEF Eligible
    <2>3. s \notin Eligible(ss, lvl)
      BY <1>6, <1>8 DEF Eligible
    <2>4. s \notin won
      BY <2>2, <2>3 DEF won, Winners, Contenders
    <2> QED BY <1>5, <2>4
  <1>9. share[s] <= PotOf(ss, lvl)
    BY <1>2, <1>3, SeatSumBounds
  <1>10. ASSUME s \in Live(ss), \A o \in Live(ss) \ {s} : sc[s] > sc[o],
                lvl <= ss[s].totalCommit \/ most < lvl
         PROVE  share[s] = PotOf(ss, lvl)
    <2>1. s \in Contenders(ss, lvl)
      <3>1. CASE lvl <= ss[s].totalCommit
        <4>1. s \in Eligible(ss, lvl) \cap Live(ss)
          BY <1>6, <1>10, <3>1 DEF Eligible
        <4> QED BY <4>1 DEF Contenders
      <3>2. CASE most < lvl
        <4>1. Eligible(ss, lvl) \cap Live(ss) = {}
          <5> SUFFICES ASSUME NEW o \in Live(ss), o \in Eligible(ss, lvl) PROVE FALSE
            OBVIOUS
          <5>1. ss[o].totalCommit <= most /\ ss[o].totalCommit >= lvl /\ ss[o].totalCommit \in Nat
            BY <1>4, <1>6 DEF Eligible
          <5> QED BY <1>6, <3>2, <5>1
        <4> QED BY <1>10, <4>1 DEF Contenders
      <3> QED BY <1>10, <3>1, <3>2
    <2>2. \A o \in Seats \ {s} : o \notin won
      <3> SUFFICES ASSUME NEW o \in Seats \ {s}, o \in won PROVE FALSE
        OBVIOUS
      <3>1. sc[o] >= sc[s] /\ o \in Live(ss)
        BY <1>4, <2>1 DEF won, Winners
      <3>2. sc[s] > sc[o] /\ sc[s] \in Nat /\ sc[o] \in Nat
        BY <1>6, <1>10, <3>1
      <3> QED BY <3>1, <3>2
    <2>3. \A o \in Seats \ {s} : share[o] = 0
      BY <1>5, <2>2
    <2>4. SeatSum(share) = share[s]
      BY <1>2, <2>3, SeatSumOne
    <2> QED BY <1>3, <2>4
  <1>11. share[s] = LayerShare(ss, sc, lvl, s)
    BY <1>1
  <1> QED BY <1>7, <1>8, <1>9, <1>10, <1>11 DEF most

\* What all seats put in up to x, and above the most that a live seat put in.
ContestedIn(ss, s) == SeatSum(Capped(ss, ss[s].totalCommit))
OrphanedIn(ss) ==
    LET most == Max({ss[o].totalCommit : o \in Live(ss)})
    IN  SeatSum([o \in Seats |-> ss[o].totalCommit - Lesser(ss[o].totalCommit, most)])

\* The layers above the most that a live seat put in.
LayersAbove(ss, x) ==
    [t \in Seats |-> IF Tops(ss, t) /\ ss[t].totalCommit > x THEN PotOf(ss, ss[t].totalCommit) ELSE 0]

\* They hold what no live seat matched.
LEMMA OrphanedLayers ==
    ASSUME NEW ss \in [Seats -> SeatRecord], Live(ss) # {}
    PROVE  OrphanedIn(ss) = SeatSum(LayersAbove(ss, Max({ss[o].totalCommit : o \in Live(ss)})))
  <1> DEFINE top == Max({ss[o].totalCommit : o \in Seats})
             most == Max({ss[o].totalCommit : o \in Live(ss)})
             rest == [o \in Seats |-> ss[o].totalCommit - Lesser(ss[o].totalCommit, most)]
  <1>1. \A t \in Seats : ss[t].totalCommit \in Nat /\ PotOf(ss, ss[t].totalCommit) \in Nat
    BY PotOfType DEF SeatRecord
  <1>2. /\ top \in Nat /\ top \in Levels(ss) \cup {0}
        /\ \A o \in Seats : ss[o].totalCommit <= top
    <2>1. 0 \in Seats
      BY EngineConstants DEF Seats
    <2>2. Seats # {}
      BY <2>1
    <2> QED BY <2>2, MostCommitted
  <1>3. most \in Nat /\ most \in Levels(ss) \cup {0}
    <2>1. Live(ss) \in SUBSET Seats
      BY DEF Live
    <2> QED BY <2>1, MostCommitted
  <1>4. OrphanedIn(ss) = SeatSum(rest)
    BY DEF OrphanedIn
  <1> HIDE DEF top, most
  <1>5. /\ Capped(ss, top) \in [Seats -> Int] /\ Capped(ss, most) \in [Seats -> Int]
        /\ rest \in [Seats -> Int]
        /\ \A o \in Seats : Capped(ss, top)[o] = Capped(ss, most)[o] + rest[o]
    <2>1. \A o \in Seats : /\ Lesser(ss[o].totalCommit, top) = ss[o].totalCommit
                           /\ Lesser(ss[o].totalCommit, most) \in Int
                           /\ ss[o].totalCommit \in Int
      BY <1>1, <1>2, <1>3 DEF Lesser
    <2> QED BY <2>1 DEF Capped
  <1>6. /\ LayersUpTo(ss, top) \in [Seats -> Int] /\ LayersUpTo(ss, most) \in [Seats -> Int]
        /\ LayersAbove(ss, most) \in [Seats -> Int]
        /\ \A t \in Seats : LayersUpTo(ss, top)[t] = LayersUpTo(ss, most)[t] + LayersAbove(ss, most)[t]
    BY <1>1, <1>2, <1>3 DEF LayersUpTo, LayersAbove
  <1> HIDE DEF rest
  <1>7. /\ SeatSum(Capped(ss, top)) = SeatSum(Capped(ss, most)) + SeatSum(rest)
        /\ SeatSum(LayersUpTo(ss, top)) = SeatSum(LayersUpTo(ss, most)) + SeatSum(LayersAbove(ss, most))
    BY <1>5, <1>6, SeatSumAdd
  <1>8. /\ SeatSum(LayersUpTo(ss, top)) = SeatSum(Capped(ss, top))
        /\ SeatSum(LayersUpTo(ss, most)) = SeatSum(Capped(ss, most))
    BY <1>2, <1>3, LayersHold
  <1>9. /\ SeatSum(Capped(ss, most)) \in Int /\ SeatSum(rest) \in Int
        /\ SeatSum(LayersAbove(ss, most)) \in Int
    BY <1>5, <1>6, SeatSumParts
  <1>10. SeatSum(rest) = SeatSum(LayersAbove(ss, most))
    <2> DEFINE all == SeatSum(Capped(ss, top))
               low == SeatSum(Capped(ss, most))
               r == SeatSum(rest)
               a == SeatSum(LayersAbove(ss, most))
    <2>1. all = low + r /\ all = low + a
      BY <1>7, <1>8
    <2>2. low \in Int /\ r \in Int /\ a \in Int
      BY <1>9
    <2> HIDE DEF all, low, r, a
    <2>3. r = a
      BY <2>1, <2>2
    <2> QED BY <2>3 DEF r, a
  <1> QED BY <1>4, <1>10 DEF most

\* The layers pay each seat at most what it contested and what nobody live
\* could, exactly that to the best live hand, and nothing to a folded seat.
LEMMA WonFair ==
    ASSUME NEW ss \in [Seats -> SeatRecord], NEW sc \in [Seats -> Nat], Live(ss) # {}, NEW s \in Seats
    PROVE  /\ Won(ss, sc)[s] <= ContestedIn(ss, s) + OrphanedIn(ss)
           /\ s \in Live(ss) /\ (\A o \in Live(ss) \ {s} : sc[s] > sc[o])
                 => Won(ss, sc)[s] = ContestedIn(ss, s) + OrphanedIn(ss)
           /\ s \notin Live(ss) => Won(ss, sc)[s] = 0
  <1> DEFINE most == Max({ss[o].totalCommit : o \in Live(ss)})
             c == ss[s].totalCommit
             f == [t \in Seats |-> IF Tops(ss, t) THEN LayerShare(ss, sc, ss[t].totalCommit, s) ELSE 0]
             up == LayersUpTo(ss, c)
             above == LayersAbove(ss, most)
             both == [t \in Seats |-> up[t] + above[t]]
             best == s \in Live(ss) /\ \A o \in Live(ss) \ {s} : sc[s] > sc[o]
  <1>1. \A t \in Seats : /\ ss[t].totalCommit \in Nat
                         /\ PotOf(ss, ss[t].totalCommit) \in Nat
                         /\ LayerShare(ss, sc, ss[t].totalCommit, s) \in Nat
    BY PotOfType, LayerShareType DEF SeatRecord
  <1>2. most \in Nat /\ (s \in Live(ss) => c <= most) /\ Live(ss) \in SUBSET Seats
    <2>1. Live(ss) \in SUBSET Seats
      BY DEF Live
    <2> QED BY <2>1, MostCommitted
  <1>3. c \in Nat /\ c \in Levels(ss) \cup {0}
    BY <1>1 DEF Levels
  <1>4. Won(ss, sc)[s] = SeatSum(f)
    BY DEF Won
  <1>5. ContestedIn(ss, s) = SeatSum(up)
    BY <1>3, LayersHold DEF ContestedIn
  <1>6. OrphanedIn(ss) = SeatSum(above)
    BY OrphanedLayers
  <1>7. ASSUME NEW t \in Seats
        PROVE  /\ f[t] \in Int /\ up[t] \in Int /\ above[t] \in Int /\ up[t] >= 0 /\ above[t] >= 0
               /\ s \notin Live(ss) => f[t] = 0
               /\ s \in Live(ss) => f[t] <= up[t] + above[t]
               /\ best => f[t] = up[t] + above[t]
    <2> DEFINE l == ss[t].totalCommit
               share == LayerShare(ss, sc, l, s)
               pot == PotOf(ss, l)
    <2>1. /\ f[t] = (IF Tops(ss, t) THEN share ELSE 0)
          /\ up[t] = (IF Tops(ss, t) /\ l <= c THEN pot ELSE 0)
          /\ above[t] = (IF Tops(ss, t) /\ l > most THEN pot ELSE 0)
      BY DEF LayersUpTo, LayersAbove
    <2>2. l \in Nat /\ share \in Nat /\ pot \in Nat
      BY <1>1
    <2>3. /\ s \notin Live(ss) => share = 0
          /\ c < l /\ l <= most => share = 0
          /\ share <= pot
          /\ best /\ (l <= c \/ most < l) => share = pot
      BY <2>2, LayerShareIs
    <2> DEFINE live == s \in Live(ss)
               tops == Tops(ss, t)
    <2> HIDE DEF most, c, f, up, above, l, share, pot, best
    <2>4. best => live
      BY DEF best
    <2>5. live => c <= most
      BY <1>2
    <2>6. ~live => share = 0
      BY <2>3
    <2> HIDE DEF live, tops
    <2>7. /\ f[t] = (IF tops THEN share ELSE 0)
          /\ up[t] = (IF tops /\ l <= c THEN pot ELSE 0)
          /\ above[t] = (IF tops /\ l > most THEN pot ELSE 0)
      BY <2>1 DEF tops
    <2>8. f[t] \in Int /\ up[t] \in Int /\ above[t] \in Int /\ up[t] >= 0 /\ above[t] >= 0
      BY <2>2, <2>7
    <2>9. ~live => f[t] = 0
      BY <2>6, <2>7
    <2>10. live => f[t] <= up[t] + above[t]
      BY <1>2, <1>3, <2>2, <2>3, <2>5, <2>7
    <2>11. best => f[t] = up[t] + above[t]
      BY <1>2, <1>3, <2>2, <2>3, <2>4, <2>5, <2>7
    <2> QED BY <2>8, <2>9, <2>10, <2>11 DEF live
  <1>8. /\ f \in [Seats -> Int] /\ up \in [Seats -> Int] /\ above \in [Seats -> Int]
        /\ both \in [Seats -> Int] /\ \A t \in Seats : both[t] = up[t] + above[t]
    <2>1. \A t \in Seats : f[t] \in Int /\ up[t] \in Int /\ above[t] \in Int
      BY <1>7
    <2>2. up = [t \in Seats |-> up[t]] /\ above = [t \in Seats |-> above[t]]
      BY DEF LayersUpTo, LayersAbove
    <2>3. f = [t \in Seats |-> f[t]]
      OBVIOUS
    <2> HIDE DEF f, up, above
    <2> QED BY <2>1, <2>2, <2>3
  <1> HIDE DEF f, up, above, both, best
  <1>9. SeatSum(both) = SeatSum(up) + SeatSum(above) /\ SeatSum(both) \in Int
    BY <1>8, SeatSumAdd, SeatSumParts
  <1>10. s \notin Live(ss) => SeatSum(f) = 0 /\ SeatSum(both) >= 0
    <2>1. ASSUME s \notin Live(ss) PROVE SeatSum(f) = 0
      BY <1>7, <1>8, <2>1, SeatSumZero
    <2>2. \A t \in Seats : both[t] >= 0
      BY <1>7, <1>8
    <2>3. both \in [Seats -> Nat]
      BY <1>8, <2>2
    <2>4. SeatSum(both) >= 0
      BY <2>3, SeatSumType
    <2> QED BY <2>1, <2>4
  <1>11. s \in Live(ss) => SeatSum(f) <= SeatSum(both)
    BY <1>7, <1>8, SeatSumLeq
  <1>12. best => SeatSum(f) = SeatSum(both)
    BY <1>7, <1>8, SeatSumSame
  <1> QED BY <1>4, <1>5, <1>6, <1>9, <1>10, <1>11, <1>12 DEF best

-----------------------------------------------------------------------------
(* The payouts *)

\* While the hand runs two seats at least are live, so it never settles
\* without a winner; what it then pays is exact and fair.
PayInv ==
    /\ ~done => Cardinality(Live(seats)) >= 2
    /\ PotPaidExactly
    /\ SidePotsFair

\* Paying into the pot takes no seat out of the hand.
LEMMA LiveCommit ==
    ASSUME NEW ss \in [Seats -> SeatRecord], NEW s \in Seats, NEW amt \in Nat
    PROVE  Live(Commit(ss, s, amt)) = Live(ss)
  <1> DEFINE c == Commit(ss, s, amt)
  <1>1. c[s].folded = ss[s].folded
    BY CommitSeat
  <1>2. \A o \in Seats \ {s} : c[o] = ss[o]
    BY CommitLeaves
  <1> HIDE DEF c
  <1>3. \A o \in Seats : c[o].folded = ss[o].folded
    BY <1>1, <1>2
  <1>4. Live(c) = Live(ss)
    BY <1>3 DEF Live
  <1> QED BY <1>4 DEF c

\* Only a fold takes a seat out of the hand.
LEMMA LiveKept ==
    ASSUME NEW ss \in [Seats -> SeatRecord], toAct \in Seats
    PROVE  /\ Live(HasActed(ss)) = Live(ss)
           /\ Live(Reopen(ss)) = Live(ss)
           /\ Live(FreshStreet(ss)) = Live(ss)
           /\ Live(ss) \ {toAct} \subseteq Live([ss EXCEPT ![toAct].folded = TRUE])
  <1>1. \A s \in Seats : ss[s] \in SeatRecord
    OBVIOUS
  <1>2. \A s \in Seats : HasActed(ss)[s].folded = ss[s].folded
    BY <1>1 DEF HasActed, SeatRecord
  <1>3. \A s \in Seats : Reopen(ss)[s].folded = ss[s].folded
    BY <1>1 DEF Reopen, SeatRecord
  <1>4. \A s \in Seats : FreshStreet(ss)[s].folded = ss[s].folded
    BY <1>1 DEF FreshStreet, SeatRecord
  <1>5. \A s \in Seats \ {toAct} : [ss EXCEPT ![toAct].folded = TRUE][s] = ss[s]
    OBVIOUS
  <1>6. Live(HasActed(ss)) = Live(ss)
    BY <1>2 DEF Live
  <1>7. Live(Reopen(ss)) = Live(ss)
    BY <1>3 DEF Live
  <1>8. Live(FreshStreet(ss)) = Live(ss)
    BY <1>4 DEF Live
  <1>9. Live(ss) \ {toAct} \subseteq Live([ss EXCEPT ![toAct].folded = TRUE])
    BY <1>5 DEF Live
  <1> QED BY <1>6, <1>7, <1>8, <1>9

\* Paying changes neither who is live nor what anyone put in.
LEMMA PaidSeats ==
    ASSUME NEW ss \in [Seats -> SeatRecord], NEW won \in [Seats -> Nat], seats' = Pay(ss, won)
    PROVE  /\ Live(seats)' = Live(ss)
           /\ Committed' = Commits(ss)
           /\ \A s \in Seats : Contested(s)' = ContestedIn(ss, s)
           /\ Orphaned' = OrphanedIn(ss)
  <1>1. \A s \in Seats : seats'[s].totalCommit = ss[s].totalCommit /\ seats'[s].folded = ss[s].folded
    BY DEF Pay, SeatRecord
  <1>2. Live(seats)' = Live(ss)
    BY <1>1 DEF Live
  <1>3. Committed' = Commits(ss)
    BY <1>1 DEF Committed, Commits
  <1>4. ASSUME NEW s \in Seats PROVE Contested(s)' = ContestedIn(ss, s)
    <2>1. [o \in Seats |-> Lesser(seats'[o].totalCommit, seats'[s].totalCommit)]
             = [o \in Seats |-> Lesser(ss[o].totalCommit, ss[s].totalCommit)]
      BY <1>1
    <2> QED BY <2>1 DEF Contested, ContestedIn, Capped
  <1>5. Orphaned' = OrphanedIn(ss)
    <2> DEFINE most == Max({ss[o].totalCommit : o \in Live(ss)})
    <2>1. {seats'[o].totalCommit : o \in Live(seats)'} = {ss[o].totalCommit : o \in Live(ss)}
      BY <1>1, <1>2 DEF Live
    <2>2. Max({seats'[o].totalCommit : o \in Live(seats)'}) = most
      BY <2>1
    <2> HIDE DEF most
    <2>3. [o \in Seats |-> seats'[o].totalCommit - Lesser(seats'[o].totalCommit, most)]
             = [o \in Seats |-> ss[o].totalCommit - Lesser(ss[o].totalCommit, most)]
      BY <1>1
    <2> QED BY <2>2, <2>3 DEF Orphaned, OrphanedIn, most
  <1> QED BY <1>2, <1>3, <1>4, <1>5

\* The last live seat contested the whole pot but what it had not matched.
LEMMA LastTakesAll ==
    ASSUME NEW ss \in [Seats -> SeatRecord], NEW t \in Seats, Live(ss) = {t}
    PROVE  SeatSum(Commits(ss)) = ContestedIn(ss, t) + OrphanedIn(ss)
  <1> DEFINE c == ss[t].totalCommit
             most == Max({ss[o].totalCommit : o \in Live(ss)})
             low == Capped(ss, c)
             rest == [o \in Seats |-> ss[o].totalCommit - Lesser(ss[o].totalCommit, c)]
             all == Commits(ss)
  <1>1. most = c
    <2>1. Live(ss) \in SUBSET Seats /\ Live(ss) # {}
      BY DEF Live
    <2>2. \E o \in Live(ss) : most = ss[o].totalCommit
      BY <2>1, MostCommitted
    <2> QED BY <2>2
  <1>2. \A o \in Seats : ss[o].totalCommit \in Nat
    BY DEF SeatRecord
  <1>3. \A o \in Seats : Lesser(ss[o].totalCommit, c) \in Int
    BY <1>2 DEF Lesser
  <1>4. ContestedIn(ss, t) = SeatSum(low)
    BY DEF ContestedIn
  <1> HIDE DEF most
  <1>5. OrphanedIn(ss) = SeatSum(rest)
    BY <1>1 DEF OrphanedIn, most
  <1> HIDE DEF c
  <1>6. /\ low \in [Seats -> Int] /\ rest \in [Seats -> Int] /\ all \in [Seats -> Int]
        /\ \A o \in Seats : all[o] = low[o] + rest[o]
    BY <1>2, <1>3 DEF Capped, Commits
  <1> HIDE DEF low, rest, all
  <1>7. SeatSum(all) = SeatSum(low) + SeatSum(rest)
    BY <1>6, SeatSumAdd
  <1> QED BY <1>4, <1>5, <1>7 DEF all

\* What a seat contested and what nobody live matched are amounts of chips.
LEMMA SharesType ==
    ASSUME NEW ss \in [Seats -> SeatRecord], Live(ss) # {}, NEW s \in Seats
    PROVE  ContestedIn(ss, s) \in Nat /\ OrphanedIn(ss) \in Nat
  <1> DEFINE most == Max({ss[o].totalCommit : o \in Live(ss)})
             rest == [o \in Seats |-> ss[o].totalCommit - Lesser(ss[o].totalCommit, most)]
  <1>1. \A o \in Seats : ss[o].totalCommit \in Nat
    BY DEF SeatRecord
  <1>2. most \in Nat
    <2>1. Live(ss) \in SUBSET Seats
      BY DEF Live
    <2> QED BY <2>1, MostCommitted
  <1>3. OrphanedIn(ss) = SeatSum(rest)
    BY DEF OrphanedIn
  <1> HIDE DEF most
  <1>4. rest \in [Seats -> Nat]
    BY <1>1, <1>2 DEF Lesser
  <1> HIDE DEF rest
  <1>5. OrphanedIn(ss) \in Nat
    BY <1>3, <1>4, SeatSumType
  <1>6. Capped(ss, ss[s].totalCommit) \in [Seats -> Nat]
    BY <1>1 DEF Capped, Lesser
  <1>7. ContestedIn(ss, s) \in Nat
    BY <1>6, SeatSumType DEF ContestedIn
  <1> QED BY <1>5, <1>7

\* A hand that is paid out pays exactly the pot, and pays it fairly.
LEMMA SettledPayouts ==
    ASSUME NEW ss \in [Seats -> SeatRecord], Live(ss) # {},
           ScoreAndPay(ss) \/ (Cardinality(Live(ss)) = 1 /\ AwardUncontested(ss))
    PROVE  PayInv'
  <1>1. CASE ScoreAndPay(ss)
    <2>1. PICK sc \in [Seats -> Scores] :
             score' = sc /\ payouts' = Won(ss, sc) /\ seats' = Pay(ss, Won(ss, sc))
      BY <1>1 DEF ScoreAndPay
    <2>2. sc \in [Seats -> Nat] /\ done' = TRUE
      BY <1>1, EngineConstants DEF ScoreAndPay
    <2> DEFINE won == Won(ss, sc)
    <2>3. won \in [Seats -> Nat]
      BY WonType
    <2>4. /\ SeatSum(won) = SeatSum(Commits(ss))
          /\ \A s \in Seats :
                /\ won[s] <= ContestedIn(ss, s) + OrphanedIn(ss)
                /\ s \in Live(ss) /\ (\A o \in Live(ss) \ {s} : sc[s] > sc[o])
                      => won[s] = ContestedIn(ss, s) + OrphanedIn(ss)
                /\ s \notin Live(ss) => won[s] = 0
      BY <2>2, WonSum, WonFair
    <2> HIDE DEF won
    <2>5. payouts' = won /\ seats' = Pay(ss, won)
      BY <2>1 DEF won
    <2>6. /\ Live(seats)' = Live(ss) /\ Committed' = Commits(ss) /\ Orphaned' = OrphanedIn(ss)
          /\ \A s \in Seats : Contested(s)' = ContestedIn(ss, s)
      BY <2>3, <2>5, PaidSeats
    <2>7. PotPaidExactly'
      BY <2>2, <2>4, <2>5, <2>6 DEF PotPaidExactly
    <2>8. SidePotsFair'
      BY <2>1, <2>4, <2>5, <2>6 DEF SidePotsFair
    <2> QED BY <2>2, <2>7, <2>8 DEF PayInv
  <1>2. CASE Cardinality(Live(ss)) = 1 /\ AwardUncontested(ss)
    <2> DEFINE pot == SeatSum(Commits(ss))
               won == [s \in Seats |-> IF s \in Live(ss) THEN pot ELSE 0]
    <2>1. Live(ss) \in SUBSET Seats
      BY DEF Live
    <2>2. PICK t : Live(ss) = {t}
      BY <1>2, <2>1, SeatSetSize, FS_Singleton
    <2>3. t \in Seats
      BY <2>1, <2>2
    <2>4. pot \in Nat
      <3>1. Commits(ss) \in [Seats -> Nat]
        BY DEF Commits, SeatRecord
      <3> QED BY <3>1, SeatSumType
    <2>5. payouts' = won /\ seats' = Pay(ss, won) /\ done' = TRUE
      BY <1>2 DEF AwardUncontested, Commits
    <2> HIDE DEF pot
    <2>6. /\ won \in [Seats -> Nat] /\ won \in [Seats -> Int]
          /\ won[t] = pot /\ \A s \in Seats \ {t} : won[s] = 0
      BY <2>2, <2>3, <2>4
    <2> HIDE DEF won
    <2>7. /\ Live(seats)' = Live(ss) /\ Committed' = Commits(ss) /\ Orphaned' = OrphanedIn(ss)
          /\ \A s \in Seats : Contested(s)' = ContestedIn(ss, s)
      BY <2>5, <2>6, PaidSeats
    <2>8. SeatSum(won) = pot
      BY <2>3, <2>6, SeatSumOne
    <2>9. PotPaidExactly'
      BY <2>5, <2>7, <2>8 DEF PotPaidExactly, pot
    <2>10. pot = ContestedIn(ss, t) + OrphanedIn(ss)
      BY <2>2, <2>3, LastTakesAll DEF pot
    <2>11. \A s \in Seats : ContestedIn(ss, s) \in Nat /\ OrphanedIn(ss) \in Nat
      BY SharesType
    <2>12. ASSUME NEW s \in Seats
           PROVE  /\ won[s] <= ContestedIn(ss, s) + OrphanedIn(ss)
                  /\ s \in Live(ss) => won[s] = ContestedIn(ss, s) + OrphanedIn(ss)
                  /\ s \notin Live(ss) => won[s] = 0
      <3>1. CASE s = t
        BY <2>2, <2>6, <2>10, <2>11, <3>1
      <3>2. CASE s # t
        BY <2>2, <2>6, <2>11, <3>2
      <3> QED BY <3>1, <3>2
    <2>13. SidePotsFair'
      BY <2>5, <2>7, <2>12 DEF SidePotsFair
    <2> QED BY <2>5, <2>9, <2>13 DEF PayInv
  <1> QED BY <1>1, <1>2

\* Until the hand is done nothing is paid.
LEMMA UnpaidPayouts ==
    ASSUME done' = FALSE, payouts' = NoPayouts, Cardinality(Live(seats)') >= 2
    PROVE  PayInv'
  <1>1. NoPayouts \in [Seats -> Int] /\ \A s \in Seats : NoPayouts[s] = 0
    BY DEF NoPayouts
  <1>2. SeatSum(NoPayouts) = 0
    BY <1>1, SeatSumZero
  <1> QED BY <1>2 DEF PayInv, PotPaidExactly, SidePotsFair

\* A contested hand has two live seats at least.
LEMMA TwoLive ==
    ASSUME NEW ss, Live(ss) # {}, Cardinality(Live(ss)) # 1
    PROVE  Cardinality(Live(ss)) >= 2
  <1>1. Live(ss) \in SUBSET Seats
    BY DEF Live
  <1>2. Cardinality(Live(ss)) \in 0..6 /\ Cardinality(Live(ss)) # 0
    BY <1>1, SeatSetSize
  <1> QED BY <1>2

\* Settling pays the hand out or leaves it contested and unpaid.
LEMMA SettlePays ==
    ASSUME NEW ss \in [Seats -> SeatRecord], Live(ss) # {}, NEW str, Settle(ss, str),
           done = FALSE, payouts = NoPayouts
    PROVE  PayInv'
  <1>1. CASE ScoreAndPay(ss) \/ (Cardinality(Live(ss)) = 1 /\ AwardUncontested(ss))
    BY <1>1, SettledPayouts
  <1>2. CASE Cardinality(Live(ss)) # 1 /\ seats' = ss /\ UNCHANGED <<done, payouts>>
    <2>1. Cardinality(Live(ss)) >= 2
      BY <1>2, TwoLive
    <2>2. Live(seats)' = Live(ss)
      BY <1>2 DEF Live
    <2>3. Cardinality(Live(seats)') >= 2
      BY <2>1, <2>2
    <2> QED BY <1>2, <2>3, UnpaidPayouts
  <1> QED BY <1>1, <1>2 DEF Settle

\* advance() pays the hand out or leaves it contested and unpaid.
LEMMA AdvancePays ==
    ASSUME NEW ss \in [Seats -> SeatRecord], Live(ss) # {}, NEW bet, NEW raise,
           Advance(ss, bet, raise), toAct \in Seats, done = FALSE, payouts = NoPayouts
    PROVE  PayInv'
  <1>1. CASE Settle(ss, street)
    BY <1>1, SettlePays
  <1> DEFINE fresh == FreshStreet(ss)
  <1>2. fresh \in [Seats -> SeatRecord] /\ Live(fresh) = Live(ss)
    <2>1. fresh \in [Seats -> SeatRecord]
      BY DEF FreshStreet, SeatRecord
    <2> QED BY <2>1, LiveKept
  <1>3. CASE Settle(fresh, "river")
    <2> HIDE DEF fresh
    <2> QED BY <1>2, <1>3, SettlePays
  <1>4. CASE /\ Cardinality(Live(ss)) # 1
             /\ seats' = ss \/ seats' = fresh
             /\ UNCHANGED <<done, payouts>>
    <2>1. Cardinality(Live(ss)) >= 2
      BY <1>4, TwoLive
    <2> HIDE DEF fresh
    <2>2. Live(seats)' = Live(ss)
      BY <1>2, <1>4 DEF Live
    <2>3. Cardinality(Live(seats)') >= 2
      BY <2>1, <2>2
    <2> QED BY <1>4, <2>3, UnpaidPayouts
  <1>5. \/ Settle(ss, street)
        \/ /\ Cardinality(Live(ss)) # 1 /\ seats' = ss /\ UNCHANGED <<done, payouts>>
        \/ Cardinality(Live(ss)) # 1 /\ NextStreet(ss, bet, raise)
    BY DEF Advance
  <1>6. NextStreet(ss, bet, raise) =>
          \/ Settle(ss, street)
          \/ PauseForBoard(fresh, street)
          \/ DealBoard(fresh)
    BY DEF NextStreet
  <1> HIDE DEF fresh
  <1>7. PauseForBoard(fresh, street) => seats' = fresh /\ UNCHANGED <<done, payouts>>
    BY DEF PauseForBoard
  <1>8. DealBoard(fresh) => \/ seats' = fresh /\ UNCHANGED <<done, payouts>>
                            \/ Settle(fresh, "river")
    BY DEF DealBoard, OpenBetting
  <1> QED BY <1>1, <1>3, <1>4, <1>5, <1>6, <1>7, <1>8

\* Whatever a seat does, the others that were live still are.
LEMMA ActAdvances ==
    ASSUME EngineInv, Act
    PROVE  /\ toAct \in Seats /\ done = FALSE /\ payouts = NoPayouts
           /\ \E ss \in [Seats -> SeatRecord], bet, raise \in Nat :
                 Live(seats) \ {toAct} \subseteq Live(ss) /\ Advance(ss, bet, raise)
  <1>1. MayAct
    BY DEF Act, Fold, Check, Call, BetOrRaise
  <1>2. /\ toAct \in Seats /\ done = FALSE /\ payouts = NoPayouts /\ SeatsOK(seats)
        /\ seats \in [Seats -> SeatRecord] /\ currentBet \in Nat /\ minRaise \in Nat
    <2>1. /\ toAct \in Seats /\ done = FALSE /\ seats \in [Seats -> SeatRecord]
          /\ currentBet \in Nat /\ minRaise \in Nat
      BY <1>1 DEF MayAct, EngineInv, TypeOK
    <2> QED BY <1>1, <2>1, RoundFacts DEF MayAct
  <1>3. seats[toAct].streetCommit \in Nat /\ seats[toAct].stack \in Nat
    BY <1>2 DEF SeatRecord
  <1> DEFINE Goes(ss) == /\ ss \in [Seats -> SeatRecord]
                         /\ Live(seats) \ {toAct} \subseteq Live(ss)
  <1>4. ASSUME NEW ss, SeatsOK(ss), Live(seats) \ {toAct} \subseteq Live(ss)
        PROVE  Goes(HasActed(ss)) /\ Goes(HasActed(Reopen(ss)))
    <2>1. SeatsOK(HasActed(ss)) /\ SeatsOK(Reopen(ss))
      BY <1>2, <1>4, MarksOK
    <2>2. SeatsOK(HasActed(Reopen(ss)))
      BY <1>2, <2>1, MarksOK
    <2>3. /\ ss \in [Seats -> SeatRecord] /\ Reopen(ss) \in [Seats -> SeatRecord]
          /\ HasActed(ss) \in [Seats -> SeatRecord]
          /\ HasActed(Reopen(ss)) \in [Seats -> SeatRecord]
      BY <1>4, <2>1, <2>2 DEF SeatsOK
    <2>4. Live(HasActed(ss)) = Live(ss) /\ Live(Reopen(ss)) = Live(ss)
      BY <1>2, <2>3, LiveKept
    <2>5. Live(HasActed(Reopen(ss))) = Live(ss)
      BY <1>2, <2>3, <2>4, LiveKept
    <2> QED BY <1>4, <2>3, <2>4, <2>5
  <1>5. ASSUME NEW amt \in Nat
        PROVE  /\ SeatsOK(Commit(seats, toAct, amt))
               /\ Live(seats) \ {toAct} \subseteq Live(Commit(seats, toAct, amt))
    <2>1. Live(Commit(seats, toAct, amt)) = Live(seats)
      BY <1>2, LiveCommit
    <2> QED BY <1>2, <2>1, CommitOK
  <1>6. ASSUME NEW ss, Goes(ss), NEW bet \in Nat, NEW raise \in Nat, Advance(ss, bet, raise)
        PROVE  \E tt \in [Seats -> SeatRecord], b, r \in Nat :
                  Live(seats) \ {toAct} \subseteq Live(tt) /\ Advance(tt, b, r)
    BY <1>6
  <1> HIDE DEF Goes
  <1>7. CASE Fold
    <2> DEFINE f == [seats EXCEPT ![toAct].folded = TRUE]
    <2>1. SeatsOK(f) /\ Live(seats) \ {toAct} \subseteq Live(f)
      BY <1>2, MarksOK, LiveKept
    <2>2. Advance(HasActed(f), currentBet, minRaise)
      BY <1>7 DEF Fold
    <2> HIDE DEF f
    <2>3. Goes(HasActed(f))
      BY <1>4, <2>1
    <2> QED BY <1>2, <1>6, <2>2, <2>3
  <1>8. CASE Check
    <2>1. Advance(HasActed(seats), currentBet, minRaise)
      BY <1>8 DEF Check
    <2>2. Goes(HasActed(seats))
      BY <1>2, <1>4
    <2> QED BY <1>2, <1>6, <2>1, <2>2
  <1>9. CASE Call
    <2> DEFINE c == Commit(seats, toAct, ToCall)
    <2>1. ToCall \in Nat
      BY <1>2, <1>3, <1>9 DEF Call, ToCall
    <2>2. Advance(HasActed(c), currentBet, minRaise)
      BY <1>9 DEF Call
    <2>3. SeatsOK(c) /\ Live(seats) \ {toAct} \subseteq Live(c)
      BY <1>5, <2>1
    <2> HIDE DEF c
    <2>4. Goes(HasActed(c))
      BY <1>4, <2>3
    <2> QED BY <1>2, <1>6, <2>2, <2>4
  <1>10. ASSUME NEW to \in 1..MaxChips, BetOrRaise(to)
         PROVE  \E tt \in [Seats -> SeatRecord], b, r \in Nat :
                   Live(seats) \ {toAct} \subseteq Live(tt) /\ Advance(tt, b, r)
    <2> DEFINE target == Lesser(to, MaxTo)
               amt == target - seats[toAct].streetCommit
               paid == Commit(seats, toAct, amt)
               increment == target - currentBet
               raise == IF increment >= minRaise THEN increment ELSE minRaise
    <2>1. MaxTo \in Nat /\ to \in Int
      BY <1>3 DEF MaxTo
    <2>2. target \in Int
      BY <2>1 DEF Lesser
    <2>3. target > seats[toAct].streetCommit
      BY <1>10 DEF BetOrRaise
    <2> HIDE DEF target
    <2>4. amt \in Nat /\ target \in Nat /\ raise \in Nat
      BY <1>2, <1>3, <2>2, <2>3
    <2> HIDE DEF amt
    <2>5. SeatsOK(paid) /\ Live(seats) \ {toAct} \subseteq Live(paid)
      BY <1>5, <2>4
    <2>6. \/ Advance(HasActed(Reopen(paid)), target, raise)
          \/ Advance(HasActed(paid), currentBet, minRaise)
      BY <1>10 DEF BetOrRaise, target, amt
    <2> HIDE DEF paid, raise
    <2>7. Goes(HasActed(paid)) /\ Goes(HasActed(Reopen(paid)))
      BY <1>4, <2>5
    <2>8. CASE Advance(HasActed(Reopen(paid)), target, raise)
      BY <1>6, <2>4, <2>7, <2>8
    <2>9. CASE Advance(HasActed(paid), currentBet, minRaise)
      BY <1>2, <1>6, <2>7, <2>9
    <2> QED BY <2>6, <2>8, <2>9
  <1>11. \E tt \in [Seats -> SeatRecord], b, r \in Nat :
            Live(seats) \ {toAct} \subseteq Live(tt) /\ Advance(tt, b, r)
    BY <1>7, <1>8, <1>9, <1>10 DEF Act
  <1> QED BY <1>2, <1>11

\* With two live seats, one is left when a seat acts.
LEMMA OneLiveLeft ==
    ASSUME NEW ss, Cardinality(Live(ss)) >= 2, NEW s
    PROVE  Live(ss) \ {s} # {}
  <1>1. Live(ss) \in SUBSET Seats /\ Live(ss) \ {s} \in SUBSET Seats
    BY DEF Live
  <1>2. IsFiniteSet(Live(ss)) /\ Cardinality(Live(ss)) \in Nat
    BY <1>1, SeatSetSize
  <1>3. Cardinality(Live(ss) \ {s}) >= 1
    BY <1>2, FS_RemoveElement
  <1>4. Cardinality(Live(ss) \ {s}) # 0
    BY <1>3
  <1> QED BY <1>1, <1>4, SeatSetSize

\* At the start everyone is live and nothing is paid.
LEMMA InitPays == Init => PayInv
  <1> SUFFICES ASSUME Init PROVE PayInv
    OBVIOUS
  <1> DEFINE new == NewSeats(bought)
             small == Commit(new, sbSeat, SmallBlind)
             both == Commit(small, bbSeat, BigBlind)
  <1>1. /\ button \in Seats /\ bought \in [Seats -> Nat] /\ SmallBlind \in Nat /\ BigBlind \in Nat
        /\ N \in 2..6
    BY EngineConstants DEF Init
  <1>2. sbSeat \in Seats /\ bbSeat \in Seats
    BY <1>1, BlindSeats
  <1>3. SeatsOK(new)
    BY <1>1 DEF NewSeats, SeatsOK, SeatRecord
  <1>4. \A s \in Seats : ~new[s].folded
    BY DEF NewSeats
  <1> HIDE DEF new
  <1>5. new \in [Seats -> SeatRecord] /\ small \in [Seats -> SeatRecord]
    <2>1. SeatsOK(small)
      BY <1>1, <1>2, <1>3, CommitOK
    <2> QED BY <1>3, <2>1 DEF SeatsOK
  <1>6. Live(small) = Live(new)
    BY <1>1, <1>2, <1>5, LiveCommit
  <1> HIDE DEF small
  <1>7. Live(both) = Live(small)
    BY <1>1, <1>2, <1>5, LiveCommit
  <1>8. seats = both
    BY DEF Init, new, small
  <1> HIDE DEF both
  <1>9. Live(seats) = Seats
    <2>1. Live(new) = Seats
      BY <1>4 DEF Live
    <2> QED BY <1>6, <1>7, <1>8, <2>1
  <1>10. Cardinality(Live(seats)) >= 2
    <2>1. Cardinality(0..(N - 1)) = N
      BY <1>1, FS_Interval
    <2>2. Cardinality(Live(seats)) = N
      BY <1>9, <2>1 DEF Seats
    <2> QED BY <1>1, <2>2
  <1>11. payouts = NoPayouts /\ done = FALSE
    BY DEF Init, NoPayouts
  <1>12. NoPayouts \in [Seats -> Int] /\ \A s \in Seats : NoPayouts[s] = 0
    BY DEF NoPayouts
  <1>13. SeatSum(NoPayouts) = 0
    BY <1>12, SeatSumZero
  <1> QED BY <1>10, <1>11, <1>13 DEF PayInv, PotPaidExactly, SidePotsFair

\* A seat's action keeps the payouts exact and fair.
LEMMA ActPays ==
    ASSUME EngineInv, PayInv, Act
    PROVE  PayInv'
  <1>1. toAct \in Seats /\ done = FALSE /\ payouts = NoPayouts
    BY ActAdvances
  <1>2. PICK ss \in [Seats -> SeatRecord], bet \in Nat, raise \in Nat :
           Live(seats) \ {toAct} \subseteq Live(ss) /\ Advance(ss, bet, raise)
    BY ActAdvances
  <1>3. Live(seats) \ {toAct} # {}
    BY <1>1, OneLiveLeft DEF PayInv
  <1>4. Live(ss) # {}
    BY <1>2, <1>3
  <1> QED BY <1>1, <1>2, <1>4, AdvancePays

\* So do the cards of a paused street, which may bring the showdown.
LEMMA SupplyBoardPays ==
    ASSUME EngineInv, PayInv, SupplyBoard
    PROVE  PayInv'
  <1>1. done = FALSE /\ payouts = NoPayouts /\ seats \in [Seats -> SeatRecord]
    BY DEF EngineInv, Pauses, TypeOK, SupplyBoard
  <1>2. Cardinality(Live(seats)) >= 2
    BY <1>1 DEF PayInv
  <1>3. Live(seats) # {}
    BY <1>2, OneLiveLeft
  <1>4. CASE Settle(seats, pendingStreet)
    BY <1>1, <1>3, <1>4, SettlePays
  <1> DEFINE fresh == FreshStreet(seats)
  <1>5. Live(fresh) = Live(seats)
    <2>1. \A s \in Seats : fresh[s].folded = seats[s].folded
      BY <1>1 DEF FreshStreet, SeatRecord
    <2> QED BY <2>1 DEF Live
  <1>6. \/ Settle(seats, pendingStreet)
        \/ (seats' = seats \/ seats' = fresh) /\ UNCHANGED <<done, payouts>>
    BY DEF SupplyBoard, OpenBetting, PauseForBoard
  <1> HIDE DEF fresh
  <1>7. CASE (seats' = seats \/ seats' = fresh) /\ UNCHANGED <<done, payouts>>
    <2>1. Live(seats)' = Live(seats)
      BY <1>5, <1>7 DEF Live
    <2>2. Cardinality(Live(seats)') >= 2
      BY <1>2, <2>1
    <2> QED BY <1>1, <1>7, <2>2, UnpaidPayouts
  <1> QED BY <1>4, <1>6, <1>7

\* What every hand pays, once, when it is done.
THEOREM PayInvariant == Spec => []PayInv
  <1>1. EngineInv /\ PayInv /\ [Next]_vars => PayInv'
    <2> SUFFICES ASSUME EngineInv, PayInv, [Next]_vars PROVE PayInv'
      OBVIOUS
    <2>1. CASE UNCHANGED vars
      BY <2>1 DEF vars, seatVars, turnVars, PayInv, PotPaidExactly, SidePotsFair, Committed,
                  Contested, Orphaned, Live
    <2>2. CASE Act
      BY <2>2, ActPays
    <2>3. CASE SupplyBoard
      BY <2>3, SupplyBoardPays
    <2>4. CASE CompleteShowdown
      <3>1. ~done /\ seats \in [Seats -> SeatRecord] /\ ScoreAndPay(seats)
        BY <2>4 DEF EngineInv, Pauses, TypeOK, CompleteShowdown
      <3>2. Live(seats) # {}
        BY <3>1, OneLiveLeft DEF PayInv
      <3> QED BY <3>1, <3>2, SettledPayouts
    <2> QED BY <2>1, <2>2, <2>3, <2>4 DEF Next
  <1> QED BY InitPays, EngineInvariant, <1>1, PTL DEF Spec

\* A finished hand has paid out exactly the pot, whatever side pots, odd chips
\* and all-folded layers it had, and nothing was paid before (scoreAndPay).
THEOREM PotPaidExactlyTheorem == Spec => []PotPaidExactly
  <1>1. PayInv => PotPaidExactly
    BY DEF PayInv
  <1> QED BY PayInvariant, <1>1, PTL

\* No seat is paid more than it contested and what nobody live had matched, the
\* best live hand is paid exactly that, and a folded seat nothing (scoreAndPay).
THEOREM SidePotsFairTheorem == Spec => []SidePotsFair
  <1>1. PayInv => SidePotsFair
    BY DEF PayInv
  <1> QED BY PayInvariant, <1>1, PTL

-----------------------------------------------------------------------------
(* A hand is finite *)

\* How many turns seat s is ahead of seat `from`, which comes round last.
Ahead(from, s) == IF s >= from THEN s - from ELSE s - from + N

\* Seat `first` is yet to act, and going round from it the seats yet to act come before
\* those that have acted: nobody is asked twice before everyone was asked once.
InTurn(ss, first) ==
    /\ first \in Able(ss) /\ ~ss[first].acted
    /\ \A s, t \in Able(ss) : ss[s].acted /\ ~ss[t].acted => Ahead(first, t) < Ahead(first, s)

TurnInv ==
    /\ awaitingBoard => \A s \in Seats : ~seats[s].acted
    /\ MayAct => InTurn(seats, toAct)

\* The seats as a seat's action leaves them to advance(): it has paid and the others
\* are to act again, or it has at most paid a call and the others keep their marks.
Turned(ss) ==
    /\ Able(ss) \subseteq Able(seats)
    /\ toAct \in Able(ss) => ss[toAct].acted
    /\ \A o \in Seats \ {toAct} : ss[o].stack = seats[o].stack
    /\ ss[toAct].stack <= seats[toAct].stack
    /\ \/ /\ ss[toAct].stack < seats[toAct].stack
          /\ \A o \in Able(ss) \ {toAct} : ~ss[o].acted
       \/ \A o \in Able(ss) \ {toAct} : ss[o].acted = seats[o].acted

\* Going round the table, in arithmetic without a remainder.
LEMMA GoingRound ==
    ASSUME NEW from \in Seats
    PROVE  /\ \A k \in 1..N : (from + k) % N = IF from + k < N THEN from + k ELSE from + k - N
           /\ \A s \in Seats : /\ Ahead(from, s) \in 0..(N - 1)
                               /\ s # from => /\ Ahead(from, s) \in 1..(N - 1)
                                              /\ (from + Ahead(from, s)) % N = s
  <1>1. from \in 0..(N - 1) /\ N \in 2..6 /\ Seats = 0..(N - 1)
    BY EngineConstants DEF Seats
  <1>2. ASSUME NEW k \in 1..N
        PROVE  (from + k) % N = IF from + k < N THEN from + k ELSE from + k - N
    <2>1. CASE N = 2 BY <1>1, <1>2, <2>1
    <2>2. CASE N = 3 BY <1>1, <1>2, <2>2
    <2>3. CASE N = 4 BY <1>1, <1>2, <2>3
    <2>4. CASE N = 5 BY <1>1, <1>2, <2>4
    <2>5. CASE N = 6 BY <1>1, <1>2, <2>5
    <2> QED BY <1>1, <2>1, <2>2, <2>3, <2>4, <2>5
  <1>3. ASSUME NEW s \in Seats PROVE Ahead(from, s) \in 0..(N - 1)
    BY <1>1 DEF Ahead
  <1>4. ASSUME NEW s \in Seats, s # from
        PROVE  Ahead(from, s) \in 1..(N - 1) /\ (from + Ahead(from, s)) % N = s
    <2>1. Ahead(from, s) \in 1..(N - 1) /\ Ahead(from, s) \in 1..N
      BY <1>1, <1>4 DEF Ahead
    <2>2. (from + Ahead(from, s)) % N = IF from + Ahead(from, s) < N THEN from + Ahead(from, s)
                                        ELSE from + Ahead(from, s) - N
      BY <1>2, <2>1
    <2> QED BY <1>1, <1>4, <2>1, <2>2 DEF Ahead
  <1> QED BY <1>2, <1>3, <1>4

\* When the seat that acted is not the last to, the turn goes to one that has not.
LEMMA NextInTurn ==
    ASSUME NEW ss, NEW from \in Seats, from \in Able(ss) => ss[from].acted,
           NEW u \in Able(ss), ~ss[u].acted,
           \A s, t \in Able(ss) \ {from} :
              ss[s].acted /\ ~ss[t].acted => Ahead(from, t) < Ahead(from, s)
    PROVE  InTurn(ss, NextAbleToAct(ss, from))
  <1> DEFINE turns == {k \in 1..N : (from + k) % N \in Able(ss)}
             k0 == Min(turns)
             next == NextAbleToAct(ss, from)
  <1>1. from \in 0..(N - 1) /\ N \in 2..6 /\ \A s \in Able(ss) : s \in Seats /\ s \in 0..(N - 1)
    BY EngineConstants DEF Seats, Able, Live
  <1>2. ASSUME NEW s \in Able(ss), s # from PROVE Ahead(from, s) \in turns
    <2>1. Ahead(from, s) \in 1..N /\ (from + Ahead(from, s)) % N = s
      BY <1>1, <1>2, GoingRound
    <2> QED BY <2>1
  <1>3. k0 \in turns /\ \A s \in Able(ss) : s # from => k0 <= Ahead(from, s)
    <2>1. turns \in SUBSET Nat /\ turns # {}
      BY <1>1, <1>2
    <2>2. k0 \in turns /\ \A y \in turns : k0 <= y
      <3> HIDE DEF turns
      <3> QED BY <2>1, MinOfNaturals
    <2> QED BY <1>2, <2>2
  <1>4. next = (from + k0) % N /\ next \in Able(ss)
    BY <1>3 DEF NextAbleToAct
  <1>5. k0 \in 1..(N - 1) /\ next = IF from + k0 < N THEN from + k0 ELSE from + k0 - N
    <2>1. k0 \in 1..N
      BY <1>3
    <2>2. k0 <= Ahead(from, u) /\ Ahead(from, u) \in 1..(N - 1)
      BY <1>1, <1>3, GoingRound
    <2> HIDE DEF k0
    <2>3. k0 \in 1..(N - 1)
      BY <1>1, <2>1, <2>2
    <2> QED BY <1>4, <2>1, <2>3, GoingRound
  <1> HIDE DEF turns, k0, next
  <1>6. ASSUME NEW s \in Able(ss), s # from
        PROVE  Ahead(next, s) = Ahead(from, s) - k0
    <2>1. k0 <= Ahead(from, s)
      BY <1>3, <1>6
    <2>2. s \in 0..(N - 1)
      BY <1>1
    <2> QED BY <1>1, <1>5, <1>6, <2>1, <2>2 DEF Ahead
  <1>7. Ahead(next, from) = N - k0
    BY <1>1, <1>5 DEF Ahead
  <1>8. \A s \in Able(ss) : Ahead(from, s) \in 0..(N - 1)
    BY <1>1, GoingRound
  <1>9. ASSUME NEW s \in Able(ss), NEW t \in Able(ss), ss[s].acted, ~ss[t].acted
        PROVE  Ahead(next, t) < Ahead(next, s)
    <2>1. t # from /\ Ahead(next, t) = Ahead(from, t) - k0
      BY <1>6, <1>9
    <2>2. CASE s = from
      BY <1>1, <1>5, <1>7, <1>8, <2>1, <2>2
    <2>3. CASE s # from
      <3>1. Ahead(from, t) < Ahead(from, s) /\ Ahead(next, s) = Ahead(from, s) - k0
        BY <1>6, <1>9, <2>1, <2>3
      <3> QED BY <1>5, <1>8, <2>1, <3>1
    <2> QED BY <2>2, <2>3
  <1>10. ~ss[next].acted
    <2> SUFFICES ASSUME ss[next].acted PROVE FALSE
      OBVIOUS
    <2>1. Ahead(next, u) < Ahead(next, next)
      BY <1>4, <1>9
    <2>2. next \in 0..(N - 1) /\ u \in 0..(N - 1) /\ next \in Seats
      BY <1>1, <1>4
    <2> QED BY <1>1, <2>1, <2>2 DEF Ahead
  <1> QED BY <1>4, <1>9, <1>10 DEF InTurn, next

\* A street opens with nobody having acted on it.
LEMMA FreshTurn ==
    ASSUME NEW ss, \A s \in Seats : ~ss[s].acted, NEW from \in Seats, Able(ss) # {}
    PROVE  InTurn(ss, NextAbleToAct(ss, from))
  <1>1. NextAbleToAct(ss, from) \in Able(ss)
    BY NextAbleToActSeat
  <1>2. \A s \in Able(ss) : ~ss[s].acted
    BY DEF Able, Live
  <1> QED BY <1>1, <1>2 DEF InTurn

\* Each action leaves the seats so.
LEMMA ActTurned ==
    ASSUME EngineInv, RoundInv, Act
    PROVE  \E ss \in [Seats -> SeatRecord], bet, raise \in Nat :
              Turned(ss) /\ Advance(ss, bet, raise)
  <1>1. MayAct
    BY DEF Act, Fold, Check, Call, BetOrRaise
  <1>2. /\ toAct \in Seats /\ seats \in [Seats -> SeatRecord] /\ SeatsOK(seats)
        /\ currentBet \in Nat /\ minRaise \in Nat
    <2>1. /\ toAct \in Seats /\ seats \in [Seats -> SeatRecord]
          /\ currentBet \in Nat /\ minRaise \in Nat
      BY <1>1 DEF MayAct, EngineInv, TypeOK
    <2> QED BY <1>1, <2>1, RoundFacts DEF MayAct
  <1>3. \A s \in Seats : seats[s] \in SeatRecord /\ seats[s].stack \in Nat /\ seats[s].streetCommit \in Nat
    BY <1>2 DEF SeatRecord
  <1>4. ASSUME NEW ss, SeatsOK(ss)
        PROVE  /\ HasActed(ss) \in [Seats -> SeatRecord] /\ ss \in [Seats -> SeatRecord]
               /\ HasActed(ss)[toAct].acted /\ Able(HasActed(ss)) = Able(ss)
               /\ \A o \in Seats : HasActed(ss)[o].stack = ss[o].stack
               /\ \A o \in Seats \ {toAct} : HasActed(ss)[o].acted = ss[o].acted
    <2>1. SeatsOK(HasActed(ss)) /\ ss \in [Seats -> SeatRecord]
      BY <1>2, <1>4, MarksOK DEF SeatsOK
    <2>2. \A o \in Seats : HasActed(ss)[o].stack = ss[o].stack
      <3>1. \A o \in Seats : ss[o] \in SeatRecord
        BY <2>1
      <3> QED BY <2>1, <3>1 DEF HasActed, SeatRecord
    <2> QED BY <1>2, <2>1, <2>2, HasActedSeat DEF SeatsOK
  <1>5. ASSUME NEW amt \in Nat
        PROVE  LET c == Commit(seats, toAct, amt)
               IN  /\ SeatsOK(c) /\ Able(c) \subseteq Able(seats)
                   /\ \A o \in Seats \ {toAct} : c[o] = seats[o]
                   /\ c[toAct].stack = seats[toAct].stack - Lesser(amt, seats[toAct].stack)
                   /\ c[toAct].stack \in Nat
    <2> DEFINE c == Commit(seats, toAct, amt)
               pay == Lesser(amt, seats[toAct].stack)
    <2>1. SeatsOK(c)
      BY <1>2, CommitOK
    <2>2. \A o \in Seats \ {toAct} : c[o] = seats[o]
      BY <1>2, CommitLeaves
    <2>3. /\ pay \in Nat /\ pay <= seats[toAct].stack /\ c[toAct].folded = seats[toAct].folded
          /\ c[toAct].allIn = (seats[toAct].allIn \/ seats[toAct].stack = pay)
      BY <1>2, CommitSeat
    <2>4. c[toAct].stack = seats[toAct].stack - pay
      BY <1>2, <1>3 DEF Commit, SeatRecord
    <2> HIDE DEF c, pay
    <2>5. Able(c) \subseteq Able(seats)
      <3> SUFFICES ASSUME NEW o \in Seats, ~c[o].folded, ~c[o].allIn
                   PROVE  ~seats[o].folded /\ ~seats[o].allIn
        BY DEF Able, Live
      <3>1. CASE o = toAct
        BY <2>3, <3>1
      <3>2. CASE o # toAct
        BY <2>2, <3>2
      <3> QED BY <3>1, <3>2
    <2>6. c[toAct].stack \in Nat
      BY <1>2, <1>3, <2>3, <2>4
    <2> QED BY <2>1, <2>2, <2>4, <2>5, <2>6 DEF c, pay
  <1>6. CASE Fold
    <2> DEFINE f == [seats EXCEPT ![toAct].folded = TRUE]
               tt == HasActed(f)
    <2>1. SeatsOK(f)
      BY <1>2, MarksOK
    <2>2. /\ f[toAct].folded /\ f[toAct].stack = seats[toAct].stack
          /\ \A o \in Seats \ {toAct} : f[o] = seats[o]
      BY <1>2, <1>3 DEF SeatRecord
    <2>3. Advance(tt, currentBet, minRaise)
      BY <1>6 DEF Fold
    <2> HIDE DEF f
    <2>4. Able(f) \subseteq Able(seats) /\ toAct \notin Able(f)
      BY <2>2 DEF Able, Live
    <2>5. tt \in [Seats -> SeatRecord] /\ Turned(tt)
      BY <1>2, <1>3, <1>4, <2>1, <2>2, <2>4 DEF Turned, Able, Live
    <2> HIDE DEF tt
    <2> QED BY <1>2, <2>3, <2>5
  <1>7. CASE Check
    <2> DEFINE tt == HasActed(seats)
    <2>1. Advance(tt, currentBet, minRaise)
      BY <1>7 DEF Check
    <2>2. tt \in [Seats -> SeatRecord] /\ Turned(tt)
      BY <1>2, <1>3, <1>4 DEF Turned, Able, Live
    <2> HIDE DEF tt
    <2> QED BY <1>2, <2>1, <2>2
  <1>8. CASE Call
    <2> DEFINE c == Commit(seats, toAct, ToCall)
               tt == HasActed(c)
    <2>1. ToCall \in Nat
      BY <1>2, <1>3, <1>8 DEF Call, ToCall
    <2>2. Advance(tt, currentBet, minRaise)
      BY <1>8 DEF Call
    <2>3. /\ SeatsOK(c) /\ Able(c) \subseteq Able(seats)
          /\ \A o \in Seats \ {toAct} : c[o] = seats[o]
          /\ c[toAct].stack <= seats[toAct].stack
      <3>1. Lesser(ToCall, seats[toAct].stack) \in Nat
        BY <1>2, <1>3, <2>1 DEF Lesser
      <3>2. /\ SeatsOK(c) /\ Able(c) \subseteq Able(seats)
            /\ \A o \in Seats \ {toAct} : c[o] = seats[o]
            /\ c[toAct].stack = seats[toAct].stack - Lesser(ToCall, seats[toAct].stack)
        BY <1>5, <2>1
      <3> QED BY <1>2, <1>3, <3>1, <3>2
    <2> HIDE DEF c
    <2>4. tt \in [Seats -> SeatRecord] /\ Turned(tt)
      BY <1>2, <1>3, <1>4, <2>3 DEF Turned, Able, Live
    <2> HIDE DEF tt
    <2> QED BY <1>2, <2>2, <2>4
  <1>9. ASSUME NEW to \in 1..MaxChips, BetOrRaise(to)
        PROVE  \E ss \in [Seats -> SeatRecord], bet, raise \in Nat :
                  Turned(ss) /\ Advance(ss, bet, raise)
    <2> DEFINE target == Lesser(to, MaxTo)
               amt == target - seats[toAct].streetCommit
               paid == Commit(seats, toAct, amt)
               open == Reopen(paid)
               tt == HasActed(open)
               increment == target - currentBet
               raise == IF increment >= minRaise THEN increment ELSE minRaise
    <2>1. target \in Nat /\ target > currentBet /\ amt \in Nat /\ amt <= seats[toAct].stack
      BY <1>9, RaiseFacts
    <2>2. target > seats[toAct].streetCommit
      BY <1>9 DEF BetOrRaise
    <2>3. Advance(tt, target, raise)
      BY <1>9, <2>1 DEF BetOrRaise
    <2> HIDE DEF target
    <2>4. raise \in Nat /\ amt > 0 /\ Lesser(amt, seats[toAct].stack) = amt
      BY <1>2, <1>3, <2>1, <2>2 DEF Lesser
    <2> HIDE DEF amt, raise
    <2>5. /\ SeatsOK(paid) /\ Able(paid) \subseteq Able(seats)
          /\ \A o \in Seats \ {toAct} : paid[o] = seats[o]
          /\ paid[toAct].stack < seats[toAct].stack
      <3>1. /\ SeatsOK(paid) /\ Able(paid) \subseteq Able(seats)
            /\ \A o \in Seats \ {toAct} : paid[o] = seats[o]
            /\ paid[toAct].stack = seats[toAct].stack - Lesser(amt, seats[toAct].stack)
        BY <1>5, <2>1
      <3> QED BY <1>2, <1>3, <2>1, <2>4, <3>1
    <2> HIDE DEF paid
    <2>6. /\ SeatsOK(open) /\ Able(open) = Able(paid)
          /\ \A o \in Seats : open[o].stack = paid[o].stack
          /\ \A o \in Able(open) \ {toAct} : ~open[o].acted
      <3>1. SeatsOK(open)
        BY <1>2, <2>5, MarksOK
      <3>2. \A o \in Seats : paid[o] \in SeatRecord
        BY <2>5 DEF SeatsOK
      <3>3. \A o \in Seats : /\ open[o].stack = paid[o].stack /\ open[o].folded = paid[o].folded
                             /\ open[o].allIn = paid[o].allIn
                             /\ o # toAct /\ o \in Able(paid) => ~open[o].acted
        BY <3>2 DEF Reopen, SeatRecord
      <3> HIDE DEF open
      <3>4. Able(open) = Able(paid) /\ Able(open) \subseteq Seats
        BY <3>3 DEF Able, Live
      <3> QED BY <3>1, <3>3, <3>4
    <2> HIDE DEF open
    <2>7. /\ tt \in [Seats -> SeatRecord] /\ Able(tt) = Able(open) /\ tt[toAct].acted
          /\ \A o \in Seats : tt[o].stack = open[o].stack
          /\ \A o \in Seats \ {toAct} : tt[o].acted = open[o].acted
      BY <1>4, <2>6
    <2> HIDE DEF tt
    <2>8. tt[toAct].stack < seats[toAct].stack /\ tt[toAct].stack <= seats[toAct].stack
      <3>1. tt[toAct].stack < seats[toAct].stack /\ tt[toAct].stack \in Nat
        BY <1>2, <2>5, <2>6, <2>7 DEF SeatRecord
      <3> QED BY <1>2, <1>3, <3>1
    <2>9. \A o \in Able(tt) \ {toAct} : ~tt[o].acted
      <3>1. Able(tt) \subseteq Seats
        BY DEF Able, Live
      <3> QED BY <2>6, <2>7, <3>1
    <2>10. Turned(tt)
      BY <2>5, <2>6, <2>7, <2>8, <2>9 DEF Turned
    <2> QED BY <2>1, <2>3, <2>4, <2>7, <2>10
  <1> QED BY <1>6, <1>7, <1>8, <1>9 DEF Act

\* Settling ends the hand, or leaves nothing but the showdown.
LEMMA SettleEnds ==
    ASSUME NEW ss, NEW str, Settle(ss, str)
    PROVE  (done' = TRUE \/ awaitingShowdown' = TRUE) /\ ~MayAct'
  BY DEF Settle, AwardUncontested, ScoreAndPay, MayAct

\* The stages left, by what the hand is doing.
LEMMA StagesOf ==
    /\ StagesLeft \in 0..9
    /\ done \/ awaitingShowdown => StagesLeft <= 1
    /\ ~done /\ ~awaitingShowdown =>
          StagesLeft = 2 * StreetsAfter + (IF awaitingBoard THEN 2 ELSE 3)
    /\ done => StagesLeft = 0
    /\ ~done /\ awaitingShowdown => StagesLeft = 1
    /\ StreetsAfter \in 0..3
  <1>1. StreetsAfter \in 0..3
    BY DEF StreetsAfter
  <1>2. StagesLeft = IF done THEN 0 ELSE IF awaitingShowdown THEN 1
                     ELSE 2 * StreetsAfter + (IF awaitingBoard THEN 2 ELSE 3)
    BY DEF StagesLeft
  <1> QED BY <1>1, <1>2

\* What a step that leaves the seats to act, pauses or ends the hand makes of them.
LEMMA StreetEnds ==
    ASSUME EngineInv, MayAct, NEW ss \in [Seats -> SeatRecord], NEW bet, NEW raise,
           NextStreet(ss, bet, raise)
    PROVE  TurnInv' /\ StagesLeft' < StagesLeft
  <1> DEFINE fresh == FreshStreet(ss)
  <1>1. /\ street \in Playing /\ ~done /\ ~awaitingShowdown /\ ~awaitingBoard /\ button \in Seats
        /\ done = FALSE /\ awaitingShowdown = FALSE /\ awaitingBoard = FALSE
    BY RoundFacts DEF MayAct, EngineInv, TypeOK
  <1>2. StagesLeft = 2 * StreetsAfter + 3 /\ StreetsAfter \in 0..3
    BY <1>1, StagesOf
  <1>3. \A s \in Seats : ~fresh[s].acted
    BY DEF FreshStreet, SeatRecord
  <1>4. ASSUME NEW tt, NEW str, Settle(tt, str), awaitingBoard' = FALSE
        PROVE  TurnInv' /\ StagesLeft' < StagesLeft
    <2>1. (done' = TRUE \/ awaitingShowdown' = TRUE) /\ ~MayAct'
      BY <1>4, SettleEnds
    <2>2. StagesLeft' <= 1 /\ StagesLeft' \in 0..9
      <3>1. (done \/ awaitingShowdown => StagesLeft <= 1)' /\ (StagesLeft \in 0..9)'
        BY StagesOf, PTL
      <3> QED BY <2>1, <3>1
    <2>3. StagesLeft' < StagesLeft
      BY <1>2, <2>2
    <2> QED BY <1>4, <2>1, <2>3 DEF TurnInv
  <1>5. CASE street = "river" /\ Settle(ss, street) /\ UNCHANGED awaitingBoard
    BY <1>1, <1>4, <1>5
  <1>6. CASE street # "river" /\ PauseForBoard(fresh, street)
    <2>1. /\ awaitingBoard' = TRUE /\ seats' = fresh /\ street' = street
          /\ done' = FALSE /\ awaitingShowdown' = FALSE
      BY <1>1, <1>6 DEF PauseForBoard
    <2>2. StreetsAfter' = StreetsAfter
      BY <2>1 DEF StreetsAfter
    <2>3. StagesLeft' = 2 * StreetsAfter' + 2
      <3>1. (~done /\ ~awaitingShowdown =>
               StagesLeft = 2 * StreetsAfter + (IF awaitingBoard THEN 2 ELSE 3))'
        BY StagesOf, PTL
      <3> QED BY <2>1, <3>1
    <2>4. StagesLeft' < StagesLeft
      BY <1>2, <2>2, <2>3
    <2>5. TurnInv'
      BY <1>3, <2>1 DEF TurnInv, MayAct
    <2> QED BY <2>4, <2>5
  <1>7. CASE street # "river" /\ OpenBetting(fresh, After(street)) /\ UNCHANGED awaitingBoard
    <2>1. /\ awaitingBoard' = FALSE /\ seats' = fresh /\ street' = After(street)
          /\ done' = FALSE /\ awaitingShowdown' = FALSE /\ toAct' = NextAbleToAct(fresh, button)
      BY <1>1, <1>7 DEF OpenBetting
    <2>2. StreetsAfter' = StreetsAfter - 1
      BY <1>1, <1>7, <2>1 DEF StreetsAfter, After, Playing
    <2>3. StagesLeft' = 2 * StreetsAfter' + 3
      <3>1. (~done /\ ~awaitingShowdown =>
               StagesLeft = 2 * StreetsAfter + (IF awaitingBoard THEN 2 ELSE 3))'
        BY StagesOf, PTL
      <3> QED BY <2>1, <3>1
    <2>4. StagesLeft' < StagesLeft
      BY <1>2, <2>2, <2>3
    <2>5. Able(fresh) # {}
      <3>1. Able(fresh) \in SUBSET Seats
        BY DEF Able, Live
      <3> QED BY <1>7, <3>1, SeatSetSize DEF OpenBetting
    <2> HIDE DEF fresh
    <2>6. InTurn(fresh, NextAbleToAct(fresh, button))
      BY <1>1, <1>3, <2>5, FreshTurn
    <2>7. InTurn(seats, toAct)'
      BY <2>1, <2>6 DEF InTurn, Able, Live
    <2>8. TurnInv'
      BY <2>1, <2>7 DEF TurnInv
    <2> QED BY <2>4, <2>8
  <1>8. CASE Settle(fresh, "river") /\ UNCHANGED awaitingBoard
    BY <1>1, <1>4, <1>8
  <1> HIDE DEF fresh
  <1> QED BY <1>5, <1>6, <1>7, <1>8 DEF NextStreet, DealBoard, fresh

\* The chips behind, and the seats to act, when a seat has acted.
LEMMA FewerLeft ==
    ASSUME EngineInv, MayAct, InTurn(seats, toAct), NEW ss \in [Seats -> SeatRecord],
           Turned(ss), seats' = ss
    PROVE  \/ ChipsLeft' < ChipsLeft
           \/ ChipsLeft' = ChipsLeft /\ TurnsLeft' < TurnsLeft
  <1> DEFINE f == [s \in Seats |-> ss[s].stack]
             g == [s \in Seats |-> seats[s].stack]
             U == {s \in Able(seats) : ~seats[s].acted}
             V == {s \in Able(ss) : ~ss[s].acted}
  <1>1. seats \in [Seats -> SeatRecord] /\ toAct \in Seats
    BY DEF EngineInv, TypeOK, MayAct
  <1>2. f \in [Seats -> Int] /\ g \in [Seats -> Int]
    BY <1>1 DEF SeatRecord
  <1>3. ChipsLeft' = SeatSum(f) /\ ChipsLeft = SeatSum(g)
    BY DEF ChipsLeft
  <1>4. TurnsLeft' = Cardinality(V) /\ TurnsLeft = Cardinality(U)
    BY DEF TurnsLeft, Able, Live
  <1>5. /\ \A o \in Seats \ {toAct} : f[o] = g[o]
        /\ f[toAct] <= g[toAct]
    BY <1>1 DEF Turned
  <1>6. CASE ss[toAct].stack < seats[toAct].stack
    <2>1. f[toAct] < g[toAct]
      BY <1>1, <1>6
    <2> HIDE DEF f, g
    <2>2. SeatSum(f) < SeatSum(g)
      BY <1>1, <1>2, <1>5, <2>1, SeatSumLess
    <2> QED BY <1>3, <2>2
  <1>7. CASE ~(ss[toAct].stack < seats[toAct].stack)
    <2>1. f[toAct] = g[toAct]
      <3>1. f[toAct] = ss[toAct].stack /\ g[toAct] = seats[toAct].stack
        BY <1>1
      <3>2. f[toAct] \in Int /\ g[toAct] \in Int
        BY <1>1, <1>2
      <3> HIDE DEF f, g
      <3> QED BY <1>5, <1>7, <3>1, <3>2
    <2>2. SeatSum(f) = SeatSum(g)
      <3> HIDE DEF f, g
      <3> QED BY <1>2, <1>5, <2>1, SeatSumSame
    <2>3. \A o \in Able(ss) \ {toAct} : ss[o].acted = seats[o].acted
      BY <1>7 DEF Turned
    <2>4. toAct \in U /\ toAct \notin V /\ V \subseteq U
      BY <2>3 DEF Turned, InTurn
    <2>5. U \in SUBSET Seats /\ V \in SUBSET Seats
      BY DEF Able, Live
    <2> HIDE DEF U, V
    <2>6. IsFiniteSet(U) /\ Cardinality(U) \in Nat /\ Cardinality(V) \in Nat
      BY <2>5, SeatSetSize
    <2>7. Cardinality(V) <= Cardinality(U) /\ Cardinality(V) # Cardinality(U)
      BY <2>4, <2>6, FS_Subset
    <2>8. Cardinality(V) < Cardinality(U)
      BY <2>6, <2>7
    <2> QED BY <1>3, <1>4, <2>2, <2>8
  <1> QED BY <1>6, <1>7

\* What HandShortens says of a step.
Shortens ==
    \/ StagesLeft' < StagesLeft
    \/ StagesLeft' = StagesLeft /\ ChipsLeft' < ChipsLeft
    \/ StagesLeft' = StagesLeft /\ ChipsLeft' = ChipsLeft /\ TurnsLeft' < TurnsLeft

\* A seat's action keeps the turns in order and shortens the hand.
LEMMA ActShortens ==
    ASSUME EngineInv, RoundInv, RoundInv', TurnInv, Act
    PROVE  TurnInv' /\ Shortens
  <1>1. MayAct /\ InTurn(seats, toAct)
    BY DEF Act, Fold, Check, Call, BetOrRaise, TurnInv
  <1>2. PICK ss \in [Seats -> SeatRecord], bet \in Nat, raise \in Nat :
           Turned(ss) /\ Advance(ss, bet, raise)
    BY ActTurned
  <1>3. /\ ~done /\ ~awaitingShowdown /\ ~awaitingBoard /\ toAct \in Seats
        /\ awaitingBoard = FALSE
    BY <1>1 DEF MayAct, EngineInv, TypeOK
  <1>4. CASE Settle(ss, street) /\ UNCHANGED awaitingBoard
    <2>1. (done' = TRUE \/ awaitingShowdown' = TRUE) /\ ~MayAct'
      BY <1>4, SettleEnds
    <2>2. StagesLeft' <= 1 /\ StagesLeft' \in 0..9
      <3>1. (done \/ awaitingShowdown => StagesLeft <= 1)' /\ (StagesLeft \in 0..9)'
        BY StagesOf, PTL
      <3> QED BY <2>1, <3>1
    <2>3. StagesLeft >= 3 /\ StagesLeft \in 0..9
      <3>1. StagesLeft = 2 * StreetsAfter + 3 /\ StreetsAfter \in 0..3 /\ StagesLeft \in 0..9
        BY <1>3, StagesOf
      <3> QED BY <3>1
    <2>4. StagesLeft' < StagesLeft
      BY <2>2, <2>3
    <2> QED BY <1>3, <1>4, <2>1, <2>4 DEF TurnInv, Shortens
  <1>5. CASE /\ ~Closed(ss, bet)
             /\ toAct' = NextAbleToAct(ss, toAct)
             /\ seats' = ss /\ currentBet' = bet
             /\ UNCHANGED <<street, done, pauseVars>>
    <2>1. PICK u \in Able(ss) : ~ss[u].acted
      <3>1. RoundOK(seats, currentBet)'
        BY <1>3, <1>5 DEF RoundInv
      <3>2. \A s \in Able(ss) : ss[s].acted => ss[s].streetCommit = bet
        BY <1>5, <3>1 DEF RoundOK, Able, Live
      <3> QED BY <1>5, <3>2 DEF Closed
    <2>2. ASSUME NEW s \in Able(ss) \ {toAct}, NEW t \in Able(ss) \ {toAct}, ss[s].acted, ~ss[t].acted
          PROVE  Ahead(toAct, t) < Ahead(toAct, s)
      <3>1. seats[s].acted /\ ~seats[t].acted /\ s \in Able(seats) /\ t \in Able(seats)
        BY <1>2, <2>2 DEF Turned
      <3> QED BY <1>1, <3>1 DEF InTurn
    <2>3. toAct \in Able(ss) => ss[toAct].acted
      BY <1>2 DEF Turned
    <2>4. InTurn(ss, NextAbleToAct(ss, toAct))
      BY <1>3, <2>1, <2>2, <2>3, NextInTurn
    <2>5. InTurn(seats, toAct)'
      BY <1>5, <2>4 DEF InTurn, Able, Live
    <2>6. TurnInv'
      BY <1>3, <1>5, <2>5 DEF TurnInv, pauseVars
    <2>7. StagesLeft' = StagesLeft
      BY <1>5 DEF StagesLeft, StreetsAfter, pauseVars
    <2>8. \/ ChipsLeft' < ChipsLeft
          \/ ChipsLeft' = ChipsLeft /\ TurnsLeft' < TurnsLeft
      BY <1>1, <1>2, <1>5, FewerLeft
    <2> QED BY <2>6, <2>7, <2>8 DEF Shortens
  <1>6. CASE NextStreet(ss, bet, raise)
    BY <1>1, <1>6, StreetEnds DEF Shortens
  <1> QED BY <1>2, <1>4, <1>5, <1>6 DEF Advance

\* So do the cards of a paused street, on which nobody has acted.
LEMMA SupplyBoardShortens ==
    ASSUME EngineInv, TurnInv, SupplyBoard
    PROVE  TurnInv' /\ StagesLeft' < StagesLeft
  <1>1. /\ awaitingBoard /\ ~done /\ ~awaitingShowdown /\ street \in Playing /\ street # "river"
        /\ pendingStreet = After(street) /\ button \in Seats /\ seats \in [Seats -> SeatRecord]
        /\ done = FALSE /\ awaitingShowdown = FALSE
        /\ \A s \in Seats : ~seats[s].acted
    <2>1. awaitingBoard /\ ~done /\ ~awaitingShowdown
      BY DEF SupplyBoard, EngineInv, Pauses
    <2>2. street \in Playing
      BY <2>1, RoundFacts
    <2> QED BY <2>1, <2>2 DEF EngineInv, Pauses, TypeOK, TurnInv
  <1>2. StagesLeft = 2 * StreetsAfter + 2 /\ StreetsAfter \in 1..3
    <2>1. StreetsAfter \in 1..3
      BY <1>1 DEF StreetsAfter, Playing
    <2> QED BY <1>1, <2>1, StagesOf
  <1>3. /\ (done \/ awaitingShowdown => StagesLeft <= 1)' /\ (StagesLeft \in 0..9)'
        /\ (~done /\ ~awaitingShowdown =>
               StagesLeft = 2 * StreetsAfter + (IF awaitingBoard THEN 2 ELSE 3))'
    BY StagesOf, PTL
  <1>4. ASSUME street' = pendingStreet PROVE StreetsAfter' = StreetsAfter - 1
    BY <1>1, <1>4 DEF StreetsAfter, After, Playing
  <1>5. CASE OpenBetting(seats, pendingStreet) /\ awaitingBoard' = FALSE
    <2>1. /\ seats' = seats /\ street' = pendingStreet /\ toAct' = NextAbleToAct(seats, button)
          /\ done' = FALSE /\ awaitingShowdown' = FALSE
      BY <1>1, <1>5 DEF OpenBetting
    <2>2. StagesLeft' < StagesLeft
      BY <1>2, <1>3, <1>4, <1>5, <2>1
    <2>3. Able(seats) # {}
      <3>1. Able(seats) \in SUBSET Seats
        BY DEF Able, Live
      <3> QED BY <1>5, <3>1, SeatSetSize DEF OpenBetting
    <2>4. InTurn(seats, NextAbleToAct(seats, button))
      BY <1>1, <2>3, FreshTurn
    <2>5. InTurn(seats, toAct)'
      BY <2>1, <2>4 DEF InTurn, Able, Live
    <2> QED BY <1>5, <2>2, <2>5 DEF TurnInv
  <1>6. CASE PauseForBoard(FreshStreet(seats), pendingStreet)
    <2>1. /\ seats' = FreshStreet(seats) /\ street' = pendingStreet /\ awaitingBoard' = TRUE
          /\ done' = FALSE /\ awaitingShowdown' = FALSE
      BY <1>1, <1>6 DEF PauseForBoard
    <2>2. \A s \in Seats : ~seats'[s].acted
      BY <1>1, <2>1 DEF FreshStreet, SeatRecord
    <2>3. StagesLeft' < StagesLeft
      BY <1>2, <1>3, <1>4, <2>1
    <2> QED BY <2>1, <2>2, <2>3 DEF TurnInv, MayAct
  <1>7. CASE Settle(seats, pendingStreet) /\ awaitingBoard' = FALSE
    <2>1. (done' = TRUE \/ awaitingShowdown' = TRUE) /\ ~MayAct'
      BY <1>7, SettleEnds
    <2>2. StagesLeft' < StagesLeft
      BY <1>2, <1>3, <2>1
    <2> QED BY <1>7, <2>1, <2>2 DEF TurnInv
  <1> QED BY <1>5, <1>6, <1>7 DEF SupplyBoard

\* The showdown is the last stage.
LEMMA ShowdownShortens ==
    ASSUME EngineInv, CompleteShowdown
    PROVE  TurnInv' /\ StagesLeft' < StagesLeft
  <1>1. ~done /\ awaitingShowdown /\ ~awaitingBoard /\ awaitingBoard = FALSE
    BY DEF CompleteShowdown, EngineInv, Pauses, TypeOK
  <1>2. done' = TRUE /\ awaitingBoard' = FALSE
    BY <1>1 DEF CompleteShowdown, ScoreAndPay
  <1>3. StagesLeft = 1
    BY <1>1, StagesOf
  <1>4. StagesLeft' = 0
    BY <1>2 DEF StagesLeft
  <1> QED BY <1>2, <1>3, <1>4 DEF TurnInv, MayAct

\* When the blinds are posted nobody has acted.
LEMMA InitTurn == Init => TurnInv
  <1> SUFFICES ASSUME Init PROVE TurnInv
    OBVIOUS
  <1> DEFINE new == NewSeats(bought)
             small == Commit(new, sbSeat, SmallBlind)
             both == Commit(small, bbSeat, BigBlind)
  <1>1. /\ button \in Seats /\ bought \in [Seats -> Nat] /\ SmallBlind \in Nat /\ BigBlind \in Nat
        /\ ~awaitingBoard
    BY EngineConstants DEF Init
  <1>2. sbSeat \in Seats /\ bbSeat \in Seats
    BY <1>1, BlindSeats
  <1>3. SeatsOK(new) /\ \A s \in Seats : ~new[s].acted
    BY <1>1 DEF NewSeats, SeatsOK, SeatRecord
  <1> HIDE DEF new
  <1>4. ASSUME NEW ss, SeatsOK(ss), NEW s \in Seats, NEW amt \in Nat, \A o \in Seats : ~ss[o].acted
        PROVE  SeatsOK(Commit(ss, s, amt)) /\ \A o \in Seats : ~Commit(ss, s, amt)[o].acted
    <2>1. ss \in [Seats -> SeatRecord]
      BY <1>4 DEF SeatsOK
    <2>2. Commit(ss, s, amt)[s].acted = ss[s].acted
      BY <2>1, CommitSeat
    <2>3. \A o \in Seats \ {s} : Commit(ss, s, amt)[o] = ss[o]
      BY <2>1, CommitLeaves
    <2> QED BY <1>4, <2>2, <2>3, CommitOK
  <1>5. SeatsOK(small) /\ \A s \in Seats : ~small[s].acted
    BY <1>1, <1>2, <1>3, <1>4
  <1> HIDE DEF small
  <1>6. \A s \in Seats : ~both[s].acted
    BY <1>1, <1>2, <1>4, <1>5
  <1>7. seats = both /\ toAct = NextAbleToAct(seats, bbSeat)
    BY DEF Init, new, small
  <1> HIDE DEF both
  <1>8. MayAct => Able(seats) # {}
    <2>1. toAct \in Able(seats) \cup {NoSeat}
      BY <1>2, <1>7, NextAbleToActSeat
    <2> QED BY <2>1 DEF MayAct
  <1>9. MayAct => InTurn(seats, toAct)
    BY <1>2, <1>6, <1>7, <1>8, FreshTurn
  <1> QED BY <1>1, <1>9 DEF TurnInv

\* Within a round nobody is asked twice before everyone able was asked, and after a
\* raise the asking starts over (nextAbleToAct, advance).
THEOREM TurnInvariant == Spec => []TurnInv
  <1>1. EngineInv /\ RoundInv /\ RoundInv' /\ TurnInv /\ [Next]_vars => TurnInv'
    <2> SUFFICES ASSUME EngineInv, RoundInv, RoundInv', TurnInv, [Next]_vars PROVE TurnInv'
      OBVIOUS
    <2>1. CASE UNCHANGED vars
      BY <2>1 DEF vars, seatVars, turnVars, pauseVars, TurnInv, InTurn, MayAct, Able, Live
    <2> QED BY <2>1, ActShortens, SupplyBoardShortens, ShowdownShortens DEF Next
  <1> QED BY InitTurn, EngineInvariant, RoundInvariant, <1>1, PTL DEF Spec

\* Every step leaves less of a hand, for any seats, stacks and blinds: with naturals to
\* measure it, no hand goes on forever, whatever its seats do.
THEOREM HandShortensTheorem == Spec => HandShortens
  <1>1. ASSUME EngineInv, RoundInv, RoundInv', TurnInv, [Next]_vars PROVE [Shortens]_vars
    BY <1>1, ActShortens, SupplyBoardShortens, ShowdownShortens DEF Next, Shortens
  <1>2. [][Shortens]_vars => HandShortens
    BY PTL DEF Shortens, HandShortens
  <1> QED BY EngineInvariant, RoundInvariant, TurnInvariant, <1>1, <1>2, PTL DEF Spec

\* The measure is of naturals, so that a hand has only so many steps to lose.
THEOREM HandMeasured == Spec => [](StagesLeft \in 0..9 /\ ChipsLeft \in Nat /\ TurnsLeft \in 0..6)
  <1>1. EngineInv => StagesLeft \in 0..9 /\ ChipsLeft \in Nat /\ TurnsLeft \in 0..6
    <2> SUFFICES ASSUME EngineInv PROVE StagesLeft \in 0..9 /\ ChipsLeft \in Nat /\ TurnsLeft \in 0..6
      OBVIOUS
    <2> DEFINE g == [s \in Seats |-> seats[s].stack]
               U == {s \in Able(seats) : ~seats[s].acted}
    <2>1. g \in [Seats -> Nat]
      BY DEF EngineInv, TypeOK, SeatRecord
    <2>2. ChipsLeft \in Nat
      <3>1. ChipsLeft = SeatSum(g)
        BY DEF ChipsLeft
      <3> HIDE DEF g
      <3> QED BY <2>1, <3>1, SeatSumType
    <2>3. U \in SUBSET Seats /\ TurnsLeft = Cardinality(U)
      BY DEF Able, Live, TurnsLeft
    <2> HIDE DEF U
    <2>4. TurnsLeft \in 0..6
      BY <2>3, SeatSetSize
    <2> QED BY <2>2, <2>4, StagesOf
  <1> QED BY EngineInvariant, <1>1, PTL
=============================================================================
