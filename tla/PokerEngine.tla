---------------------------- MODULE PokerEngine ----------------------------
(***************************************************************************)
(* The betting engine of one hand (internal/game/engine/engine.go): blinds,*)
(* turns, betting rounds, streets, the two pauses of a deferred deal, and  *)
(* the side-pot layering that pays the hand out.                           *)
(*                                                                         *)
(* Cards are abstracted: the board is its length, and the strength of each *)
(* seat's best hand (eval.BestConstrained) is chosen when the hand is      *)
(* scored, so every outcome of the cards is covered.  With UseHole = 0, as *)
(* the live table plays, a five-card board always scores, so scoreAndPay's *)
(* error returns are unreachable and are left out.                         *)
(***************************************************************************)
EXTENDS Integers, FiniteSets, FiniteSetsExt

CONSTANTS
    N,           \* number of seats (engine.MinSeats .. engine.MaxSeats)
    SmallBlind,
    BigBlind,
    Stacks,      \* the stacks a seat may bring to the hand
    Scores       \* the hand strengths told apart

ASSUME EngineConstants ==
    /\ N \in 2..6                      \* MinSeats and MaxSeats
    /\ SmallBlind \in Nat \ {0}
    /\ BigBlind \in Nat \ {0}
    /\ SmallBlind <= BigBlind
    /\ Stacks \subseteq Nat \ {0}
    /\ Scores \subseteq Nat
    /\ Scores # {}

VARIABLES
    seats,             \* State.Seats
    board,             \* len(State.Board)
    street,            \* State.Street
    button,            \* State.Button
    currentBet,        \* State.CurrentBet
    minRaise,          \* State.MinRaise
    toAct,             \* State.ToAct, NoSeat for -1
    done,              \* State.Done
    awaitingBoard,     \* State.AwaitingBoard
    pendingBoardCount, \* State.PendingBoardCount
    pendingStreet,     \* State.pendingStreet
    awaitingShowdown,  \* State.AwaitingShowdown
    payouts,           \* State.Payouts, 0 for an absent key
    deferReveal,       \* State.deferReveal
    bought,            \* Config.Stacks (history: what each seat brought)
    score              \* history: the strengths the hand was scored with

seatVars == <<seats, payouts, score>>
turnVars == <<street, board, currentBet, minRaise, toAct, done>>
pauseVars == <<awaitingBoard, pendingBoardCount, pendingStreet, awaitingShowdown>>
configVars == <<button, deferReveal, bought>>
vars == <<seatVars, turnVars, pauseVars, configVars>>

Seats == 0..(N - 1)
NoSeat == -1
Streets == {"preflop", "flop", "turn", "river", "complete"}

Lesser(a, b) == IF a < b THEN a ELSE b

\* The sum of a function on Seats, written out for the six seats of MaxSeats
\* (rather than folded) so that proofs can reason about it.
SeatSum(f) ==
    LET at(i) == IF i < N THEN f[i] ELSE 0
    IN  at(0) + at(1) + at(2) + at(3) + at(4) + at(5)

\* The seats dealt in and not folded, and those among them with chips behind.
Live(ss) == {s \in Seats : ~ss[s].folded}
Able(ss) == {s \in Live(ss) : ~ss[s].allIn}

\* Mutant: skips folded seats only, so an all-in seat is asked to act.
NextLiveSeat(ss, from) ==
    LET turns == {k \in 1..N : (from + k) % N \in Live(ss)}
    IN  IF turns = {} THEN NoSeat ELSE (from + Min(turns)) % N

\* The next seat after `from` that can still act, coming round to `from` last.
NextAbleToAct(ss, from) ==
    LET turns == {k \in 1..N : (from + k) % N \in Able(ss)}
    IN  IF turns = {} THEN NoSeat ELSE (from + Min(turns)) % N

\* Mutant: pays the full amount even past the stack.
CommitUncapped(ss, s, amt) ==
    [ss EXCEPT ![s].stack = @ - amt,
               ![s].streetCommit = @ + amt,
               ![s].totalCommit = @ + amt,
               ![s].allIn = @ \/ ss[s].stack = amt]

\* Moves up to amt chips from a seat's stack into the pot.
Commit(ss, s, amt) ==
    LET pay == Lesser(amt, ss[s].stack)
    IN  [ss EXCEPT ![s].stack = @ - pay,
                   ![s].streetCommit = @ + pay,
                   ![s].totalCommit = @ + pay,
                   ![s].allIn = @ \/ ss[s].stack = pay]

-----------------------------------------------------------------------------
(* Paying the hand out *)

\* The distinct total commitments: each is the top of one side-pot layer.
Levels(ss) == {ss[s].totalCommit : s \in Seats} \ {0}

LayerBottom(ss, lvl) == Max({0} \cup {l \in Levels(ss) : l < lvl})

Eligible(ss, lvl) == {s \in Seats : ss[s].totalCommit >= lvl}

\* Mutant: every live seat competes for every layer, as if there were one pot.
ContendersOnePot(ss, lvl) == Live(ss)

\* Who competes for a layer: its live contributors, or every live seat when
\* all of its contributors have folded.
Contenders(ss, lvl) ==
    LET live == Eligible(ss, lvl) \cap Live(ss)
    IN  IF live = {} THEN Live(ss) ELSE live

Winners(ss, sc, lvl) ==
    {s \in Contenders(ss, lvl) : \A o \in Contenders(ss, lvl) : sc[s] >= sc[o]}

\* Mutant: the odd chips of a split layer are dropped.
LayerShareEven(ss, sc, lvl, s) ==
    LET pot == (lvl - LayerBottom(ss, lvl)) * Cardinality(Eligible(ss, lvl))
        won == Winners(ss, sc, lvl)
    IN  IF s \in won THEN pot \div Cardinality(won) ELSE 0

\* One seat's share of one layer; the odd chips go to the lowest winner.
LayerShare(ss, sc, lvl, s) ==
    LET pot == (lvl - LayerBottom(ss, lvl)) * Cardinality(Eligible(ss, lvl))
        won == Winners(ss, sc, lvl)
        each == pot \div Cardinality(won)
    IN  IF s \notin won THEN 0
        ELSE IF s = Min(won) THEN pot - each * (Cardinality(won) - 1)
        ELSE each

\* Each layer counted once: at the lowest seat whose commitment is its top.
Tops(ss, t) ==
    /\ ss[t].totalCommit > 0
    /\ \A o \in Seats : o < t => ss[o].totalCommit # ss[t].totalCommit

Won(ss, sc) ==
    [s \in Seats |->
        SeatSum([t \in Seats |-> IF Tops(ss, t)
                                 THEN LayerShare(ss, sc, ss[t].totalCommit, s)
                                 ELSE 0])]

Pay(ss, won) == [s \in Seats |-> [ss[s] EXCEPT !.stack = @ + won[s]]]

\* scoreAndPay, with Done and Complete set by both of its callers.
ScoreAndPay(ss) ==
    /\ \E sc \in [Seats -> Scores] :
          /\ score' = sc
          /\ payouts' = Won(ss, sc)
          /\ seats' = Pay(ss, payouts')
    /\ done' = TRUE
    /\ street' = "complete"
    /\ toAct' = NoSeat

\* An uncontested pot goes to the last live seat, even in deferred mode.
AwardUncontested(ss) ==
    LET pot == SeatSum([s \in Seats |-> ss[s].totalCommit])
        won == [s \in Seats |-> IF s \in Live(ss) THEN pot ELSE 0]
    IN  /\ payouts' = won
        /\ seats' = Pay(ss, won)
        /\ done' = TRUE
        /\ street' = "complete"
        /\ toAct' = NoSeat
        /\ UNCHANGED score

Settle(ss, str) ==
    \/ /\ Cardinality(Live(ss)) = 1
       /\ AwardUncontested(ss)
       /\ UNCHANGED awaitingShowdown
    \/ /\ Cardinality(Live(ss)) # 1
       /\ deferReveal
       /\ awaitingShowdown' = TRUE
       /\ toAct' = NoSeat
       /\ seats' = ss
       /\ street' = str
       /\ UNCHANGED <<done, payouts, score>>
    \/ /\ Cardinality(Live(ss)) # 1
       /\ ~deferReveal
       /\ ScoreAndPay(ss)
       /\ UNCHANGED awaitingShowdown

-----------------------------------------------------------------------------
(* Closing a betting round and moving to the next street *)

After(str) ==
    CASE str = "preflop" -> "flop"
      [] str = "flop" -> "turn"
      [] OTHER -> "river"

\* Mutant: every street adds one card.
CardsForOne(str) == 1

CardsFor(str) == IF str = "preflop" THEN 3 ELSE 1

\* Mutant: clears the hand's commitments with the street's.
FreshStreetForgets(ss) ==
    [s \in Seats |-> [ss[s] EXCEPT !.streetCommit = 0, !.totalCommit = 0, !.acted = FALSE]]

FreshStreet(ss) ==
    [s \in Seats |-> [ss[s] EXCEPT !.streetCommit = 0, !.acted = FALSE]]

\* finishStreetTransition when betting resumes on street str.
OpenBetting(ss, str) ==
    /\ Cardinality(Able(ss)) > 1
    /\ toAct' = NextAbleToAct(ss, button)
    /\ seats' = ss
    /\ street' = str
    /\ UNCHANGED <<done, awaitingShowdown, payouts, score>>

\* The deferred branch of nextStreet: wait for the seats to reveal cards.
PauseForBoard(ss, str) ==
    /\ deferReveal
    /\ pendingStreet' = After(str)
    /\ pendingBoardCount' = CardsFor(str)
    /\ awaitingBoard' = TRUE
    /\ toAct' = NoSeat
    /\ seats' = ss
    /\ street' = str
    /\ UNCHANGED <<done, awaitingShowdown, payouts, score>>

\* The other branch: the deck is known.  With at most one seat able to act,
\* nextStreet and finishStreetTransition call each other down to the river.
DealBoard(ss) ==
    /\ ~deferReveal
    /\ \/ /\ OpenBetting(ss, After(street))
          /\ board' = board + CardsFor(street)
       \/ /\ Cardinality(Able(ss)) <= 1
          /\ Settle(ss, "river")
          /\ board' = 5
    /\ UNCHANGED <<awaitingBoard, pendingBoardCount, pendingStreet>>

NextStreet(ss, bet, raise) ==
    \/ /\ street = "river"
       /\ Settle(ss, street)
       /\ currentBet' = bet
       /\ minRaise' = raise
       /\ UNCHANGED <<board, awaitingBoard, pendingBoardCount, pendingStreet>>
    \/ /\ street # "river"
       /\ currentBet' = 0
       /\ minRaise' = BigBlind
       /\ \/ PauseForBoard(FreshStreet(ss), street) /\ UNCHANGED board
          \/ DealBoard(FreshStreet(ss))

\* Mutant: the scan of the seats stops at the first one that is done.
ClosedByFirst(ss, bet) == \E s \in Able(ss) : ss[s].acted /\ ss[s].streetCommit = bet

\* A round is closed when everyone able has acted and matched the bet, or,
\* with one seat able, when that seat has acted.
Closed(ss, bet) ==
    \/ \A s \in Able(ss) : ss[s].acted /\ ss[s].streetCommit = bet
    \/ Cardinality(Able(ss)) <= 1 /\ \A s \in Able(ss) : ss[s].acted

\* advance(), run by every action with the seats, bet and raise it has made.
Advance(ss, bet, raise) ==
    LET last == Cardinality(Live(ss)) = 1
        next == NextAbleToAct(ss, toAct)
        goesOn == ~Closed(ss, bet) /\ next # NoSeat
    IN  \/ /\ last
           /\ Settle(ss, street)
           /\ currentBet' = bet
           /\ minRaise' = raise
           /\ UNCHANGED <<board, awaitingBoard, pendingBoardCount, pendingStreet>>
        \/ /\ ~last /\ goesOn
           /\ toAct' = next
           /\ seats' = ss
           /\ currentBet' = bet
           /\ minRaise' = raise
           /\ UNCHANGED <<street, board, done, pauseVars, payouts, score>>
        \/ /\ ~last /\ ~goesOn
           /\ NextStreet(ss, bet, raise)

-----------------------------------------------------------------------------
(* The hand *)

sbSeat == IF N = 2 THEN button ELSE (button + 1) % N
bbSeat == IF N = 2 THEN (button + 1) % N ELSE (button + 2) % N

NewSeats(stacks) ==
    [s \in Seats |-> [stack |-> stacks[s], folded |-> FALSE, allIn |-> FALSE,
                      streetCommit |-> 0, totalCommit |-> 0, acted |-> FALSE]]

\* New: deal and post the blinds.
Init ==
    /\ button \in Seats
    /\ deferReveal \in BOOLEAN
    /\ bought \in [Seats -> Stacks]
    /\ seats = Commit(Commit(NewSeats(bought), sbSeat, SmallBlind), bbSeat, BigBlind)
    /\ board = 0
    /\ street = "preflop"
    /\ currentBet = BigBlind
    /\ minRaise = BigBlind
    /\ toAct = NextAbleToAct(seats, bbSeat)
    /\ done = FALSE
    /\ awaitingBoard = FALSE
    /\ pendingBoardCount = 0
    /\ pendingStreet = "preflop"
    /\ awaitingShowdown = FALSE
    /\ payouts = [s \in Seats |-> 0]
    /\ score = [s \in Seats |-> Min(Scores)]

\* Apply's guards: the seat that acts is the seat to act of a running round.
MayAct == ~done /\ ~awaitingBoard /\ ~awaitingShowdown /\ toAct # NoSeat

ToCall == currentBet - seats[toAct].streetCommit

\* Legal's bounds on the total a bet or raise may target.
MaxTo == seats[toAct].streetCommit + seats[toAct].stack
\* Mutant: any raise above the bet is a legal one.
MinToAnyRaise == Lesser(currentBet + 1, MaxTo)

MinTo == Lesser(IF currentBet <= 0 THEN BigBlind ELSE currentBet + minRaise, MaxTo)
CanBetRaise == MaxTo > currentBet /\ seats[toAct].stack > 0

\* Mutant: the seat that acted is not marked.
HasActedUnmarked(ss) == ss

HasActed(ss) == [ss EXCEPT ![toAct].acted = TRUE]

Fold ==
    /\ MayAct
    /\ Advance(HasActed([seats EXCEPT ![toAct].folded = TRUE]), currentBet, minRaise)
    /\ UNCHANGED configVars

Check ==
    /\ MayAct
    /\ ToCall <= 0
    /\ Advance(HasActed(seats), currentBet, minRaise)
    /\ UNCHANGED configVars

Call ==
    /\ MayAct
    /\ ToCall > 0
    /\ Advance(HasActed(Commit(seats, toAct, ToCall)), currentBet, minRaise)
    /\ UNCHANGED configVars

\* A raise reopens the action for every other seat still able to act.
Reopen(ss) ==
    [s \in Seats |-> IF s # toAct /\ s \in Able(ss)
                     THEN [ss[s] EXCEPT !.acted = FALSE] ELSE ss[s]]

\* Bet and Raise to a total; a target at or past the stack is an all-in, which
\* alone may be below the minimum, and only a full raise moves the minimum.
BetOrRaise(to) ==
    LET target == Lesser(to, MaxTo)
        paid == Commit(seats, toAct, target - seats[toAct].streetCommit)
        increment == target - currentBet
    IN  /\ MayAct
        /\ CanBetRaise
        /\ to >= MaxTo \/ to >= MinTo
        /\ target > seats[toAct].streetCommit
        /\ IF target > currentBet
           THEN Advance(HasActed(Reopen(paid)), target,
                        IF increment >= minRaise THEN increment ELSE minRaise)
           ELSE Advance(HasActed(paid), currentBet, minRaise)
        /\ UNCHANGED configVars

\* The revealed cards arrive: the paused street begins, or, with at most one
\* seat able to act, the next pause or the showdown does.
SupplyBoard ==
    /\ awaitingBoard
    /\ board' = board + pendingBoardCount
    /\ \/ /\ OpenBetting(seats, pendingStreet)
          /\ awaitingBoard' = FALSE
          /\ pendingBoardCount' = 0
          /\ UNCHANGED <<pendingStreet, currentBet, minRaise>>
       \/ /\ Cardinality(Able(seats)) <= 1
          /\ pendingStreet # "river"
          /\ PauseForBoard(FreshStreet(seats), pendingStreet)
          /\ currentBet' = 0
          /\ minRaise' = BigBlind
       \/ /\ Cardinality(Able(seats)) <= 1
          /\ pendingStreet = "river"
          /\ Settle(seats, pendingStreet)
          /\ awaitingBoard' = FALSE
          /\ pendingBoardCount' = 0
          /\ UNCHANGED <<pendingStreet, currentBet, minRaise>>
    /\ UNCHANGED configVars

CompleteShowdown ==
    /\ awaitingShowdown
    /\ awaitingShowdown' = FALSE
    /\ ScoreAndPay(seats)
    /\ UNCHANGED <<board, currentBet, minRaise, awaitingBoard, pendingBoardCount,
                   pendingStreet, configVars>>

MaxChips == Max(Stacks)

Act == Fold \/ Check \/ Call \/ \E to \in 1..MaxChips : BetOrRaise(to)

Next == Act \/ SupplyBoard \/ CompleteShowdown

Spec == Init /\ [][Next]_vars

\* Seats keep acting and keep revealing: what a table needs to finish a hand.
Fairness == WF_vars(Act) /\ WF_vars(SupplyBoard) /\ WF_vars(CompleteShowdown)

FairSpec == Spec /\ Fairness

-----------------------------------------------------------------------------
(* Properties *)

SeatRecord ==
    [stack : Nat, folded : BOOLEAN, allIn : BOOLEAN,
     streetCommit : Nat, totalCommit : Nat, acted : BOOLEAN]

\* Type invariant of the engine's State.
TypeOK ==
    /\ seats \in [Seats -> SeatRecord]
    /\ board \in 0..5
    /\ street \in Streets
    /\ button \in Seats
    /\ currentBet \in Nat
    /\ minRaise \in Nat
    /\ toAct \in Seats \cup {NoSeat}
    /\ done \in BOOLEAN
    /\ awaitingBoard \in BOOLEAN
    /\ pendingBoardCount \in 0..3
    /\ pendingStreet \in Streets
    /\ awaitingShowdown \in BOOLEAN
    /\ payouts \in [Seats -> Nat]
    /\ deferReveal \in BOOLEAN
    /\ bought \in [Seats -> Stacks]
    /\ score \in [Seats -> Nat]

\* Chips a seat has are the chips it brought, less what it put in the pot,
\* plus what the pot paid it: no action, street change or payout creates or
\* destroys a chip of any seat (commit, postBlind, settle, scoreAndPay).
SeatAccounts ==
    \A s \in Seats :
        seats[s].stack + seats[s].totalCommit = bought[s] + payouts[s]

Committed == [s \in Seats |-> seats[s].totalCommit]

\* A finished hand has paid out exactly the pot, however many side pots, odd
\* chips and all-folded layers it had, and nothing was paid before that
\* (scoreAndPay: "Chips are conserved by construction").
PotPaidExactly == SeatSum(payouts) = IF done THEN SeatSum(Committed) ELSE 0

\* What all seats together put in up to the amount that seat s put in.
Contested(s) ==
    SeatSum([o \in Seats |-> Lesser(seats[o].totalCommit, seats[s].totalCommit)])

\* The chips no live seat had matched: above the most that any live seat put in.
Orphaned ==
    LET top == Max({seats[o].totalCommit : o \in Live(seats)})
    IN  SeatSum([o \in Seats |-> seats[o].totalCommit - Lesser(seats[o].totalCommit, top)])

\* Side pots: a seat takes at most what it could contest and what nobody live
\* could; a live seat that beats every other live seat takes exactly that, and
\* a folded seat takes nothing (scoreAndPay's layers: "Everyone at this level
\* folded. Award it to the best live hand").
SidePotsFair ==
    done => \A s \in Seats :
        /\ payouts[s] <= Contested(s) + Orphaned
        /\ s \in Live(seats) /\ (\A o \in Live(seats) \ {s} : score[s] > score[o])
              => payouts[s] = Contested(s) + Orphaned
        /\ s \notin Live(seats) => payouts[s] = 0

PriorCommit(s) == seats[s].totalCommit - seats[s].streetCommit

\* No seat buys a later street cheaper than another: whoever can still act has
\* paid exactly what every other such seat paid on the closed streets, and no
\* seat, folded or all-in, paid more than they did (advance closes a round only
\* when the bet is matched).  It bites on the streets after the flop.
StreetsMatched ==
    ~done => \A s \in Able(seats), o \in Seats : PriorCommit(o) <= PriorCommit(s)

BlindsLeaveAPlayer ==
    N > 2 \/ bought[sbSeat] > SmallBlind \/ bought[bbSeat] > BigBlind

\* A running hand is never stuck: unless the blinds put both heads-up seats
\* all in, someone able is to act or the engine says which reveal it awaits.
SomeoneActs ==
    (BlindsLeaveAPlayer /\ ~done /\ ~awaitingBoard /\ ~awaitingShowdown)
        => toAct \in Able(seats)

\* The board has the cards of the street being played, and a contested hand is
\* scored only on the full board of five.
BoardMatchesStreet ==
    /\ board = CASE street = "preflop" -> 0 [] street = "flop" -> 3
                 [] street = "turn" -> 4 [] street = "river" -> 5
                 [] OTHER -> board
    /\ (done /\ Cardinality(Live(seats)) > 1) => board = 5
    /\ awaitingShowdown => board = 5

\* Within a street the bet to match and the minimum raise never go down, and a
\* raise is at least the minimum unless it is all in.
RaisesAreFull ==
    [][(street' = street /\ ~awaitingBoard' /\ ~awaitingShowdown' /\ currentBet' # currentBet)
        => /\ currentBet' > currentBet
           /\ minRaise' >= minRaise
           /\ currentBet' - currentBet < minRaise => seats'[toAct].allIn]_vars

\* How much of a hand is left: the streets and pauses to come, the chips that can
\* still be bet, and the seats that have yet to act.
StreetsAfter == CASE street = "preflop" -> 3 [] street = "flop" -> 2 [] street = "turn" -> 1 [] OTHER -> 0
StagesLeft ==
    CASE done -> 0
      [] ~done /\ awaitingShowdown -> 1
      [] OTHER -> 2 * StreetsAfter + (IF awaitingBoard THEN 2 ELSE 3)
ChipsLeft == SeatSum([s \in Seats |-> seats[s].stack])
TurnsLeft == Cardinality({s \in Able(seats) : ~seats[s].acted})

\* Betting cannot be reopened forever, nor a pause or a turn come back: every step
\* of a hand leaves fewer stages, or as many and fewer chips behind, or as many of
\* both and fewer seats to act, so a hand is finite whatever its seats do (advance
\* asks a seat that has acted again only after a raise).
HandShortens ==
    [][\/ StagesLeft' < StagesLeft
       \/ StagesLeft' = StagesLeft /\ ChipsLeft' < ChipsLeft
       \/ StagesLeft' = StagesLeft /\ ChipsLeft' = ChipsLeft /\ TurnsLeft' < TurnsLeft]_vars

\* If seats keep acting and keep revealing cards, every hand ends: betting
\* cannot reopen forever, and a paused hand resumes.
HandEnds == BlindsLeaveAPlayer => <>done
=============================================================================
