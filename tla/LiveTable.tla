----------------------------- MODULE LiveTable ------------------------------
(***************************************************************************)
(* The playable table (webui/live.go) under its HTTP routes (webui/api.go) *)
(* and its session loop.  Players join, register a wallet, declare         *)
(* themselves ready, act and leave at any moment, each request under the   *)
(* table's lock; RunHands polls, and lets go of the lock for every call    *)
(* that leaves the process: reading the height, opening the pot, signing   *)
(* the refund again, settling.  The table also keeps what each player is   *)
(* told about its money (protocol/table/moneystate.go).                    *)
(*                                                                         *)
(* Bets are abstracted to a hand that somebody ends (PokerEngine), a deal  *)
(* to its outcome (HandDeal), the pot to its output on the chain           *)
(* (SessionPot).  A table without a funding wallet plays for chips.        *)
(***************************************************************************)
EXTENDS Integers, Sequences, SequencesExt

CONSTANTS
    Players,  \* identity keys that may ask for a seat
    N         \* terms.Seats

ASSUME LiveConstants == N \in Nat /\ N >= 2

VARIABLES
    forValue,     \* pots.Enabled(): fixed when the process starts
    seats,        \* LiveTable.seats, the identities in seat order
    agents,       \* the identities in LiveTable.agentURL
    funded,       \* the identities whose seat is Funded
    sittingOut,   \* the identities that asked to leave
    st,           \* "none" (nil), "playing", or "over" (Done)
    short,        \* some stack is below the big blind
    dealerless,   \* the last deal ran through the wallets
    readyToStart, \* a value hand is waiting on its pot
    openPot,      \* openPotHand # ""
    settled,      \* settlementTxID # ""
    stalled,      \* stallReason # ""
    money,        \* MoneyTracker.states
    pc,           \* where RunHands is
    pot           \* external: the session pot's output on the chain

handVars == <<st, short, dealerless>>
potVars == <<readyToStart, openPot, settled, stalled>>
vars == <<forValue, seats, agents, funded, sittingOut, handVars, potVars, money, pc, pot>>

Seats == 0..(N - 1)
Seated == ToSet(seats)
SeatOf(p) == (CHOOSE i \in DOMAIN seats : seats[i] = p) - 1

\* endpointsLocked: all seats, or none when one of them has no wallet.
Endpoints == IF Seated \subseteq agents THEN Seated ELSE {}

-----------------------------------------------------------------------------
(* What the players are told about their money *)

RefundHeld(m) ==
    [m EXCEPT !.refundHeld = TRUE,
              !.phase = IF @ = "uncommitted" THEN "refund-held" ELSE @]

Committed(m) == IF m.refundHeld THEN [m EXCEPT !.phase = "committed"] ELSE m

Settled(txid) ==
    [s \in Seats |-> [money[s] EXCEPT !.phase = "settled", !.txid = txid]]

-----------------------------------------------------------------------------
(* Dealing *)

Init ==
    /\ forValue \in BOOLEAN
    /\ seats = <<>>
    /\ agents = {}
    /\ funded = {}
    /\ sittingOut = {}
    /\ st = "none"
    /\ short = FALSE
    /\ dealerless = FALSE
    /\ readyToStart = FALSE
    /\ openPot = FALSE
    /\ settled = FALSE
    /\ stalled = FALSE
    /\ money = [s \in Seats |-> [phase |-> "uncommitted", refundHeld |-> FALSE, txid |-> FALSE]]
    /\ pc = "poll"
    /\ pot = "none"

\* Mutant: a deal the wallets fail is made up for with a local shuffle.
BuildDeckAnyway == {"local"} \cup (IF Endpoints = Seated THEN {"wallets"} ELSE {})

\* buildDeckLocked: the wallets deal when every seat has one, and their failure
\* is the deal's failure.
BuildDeck == {IF Endpoints = Seated THEN "wallets" ELSE "local", "failed"}

\* dealLocked with the deck d.
DealLocked(d) ==
    IF d = "failed"
    THEN st' = "none" /\ UNCHANGED dealerless
    ELSE st' = "playing" /\ dealerless' = (d = "wallets")

-----------------------------------------------------------------------------
(* The players' requests, each in one region of the lock *)

\* Mutant: an identity that comes back is given another seat.
JoinAgain(p) ==
    /\ Len(seats) < N
    /\ st = "none"
    /\ seats' = Append(seats, p)
    /\ UNCHANGED <<forValue, agents, funded, sittingOut, handVars, potVars, money, pc, pot>>

\* /api/join.  An identity that has a seat gets the same one again.
Join(p) ==
    /\ p \notin Seated
    /\ Len(seats) < N
    /\ st = "none"
    /\ seats' = Append(seats, p)
    /\ UNCHANGED <<forValue, agents, funded, sittingOut, handVars, potVars, money, pc, pot>>

\* The second half of /api/join, on the first visit or a later one.
RegisterAgent(p) ==
    /\ p \in Seated
    /\ agents' = agents \cup {p}
    /\ UNCHANGED <<forValue, seats, funded, sittingOut, handVars, potVars, money, pc, pot>>

MarkReady(p) ==
    /\ p \in Seated
    /\ funded' = funded \cup {p}
    /\ money' = [money EXCEPT ![SeatOf(p)] = Committed(RefundHeld(@))]
    /\ UNCHANGED <<forValue, seats, agents, sittingOut, short, openPot, settled, stalled, pc, pot>>

MayStart == st = "none" /\ Len(seats) = N /\ Seated \subseteq funded'

\* Mutant: a table for value deals at once as well.
ReadyDeals(p) ==
    /\ MarkReady(p)
    /\ IF MayStart
       THEN \E d \in BuildDeck : DealLocked(d)
       ELSE UNCHANGED <<st, dealerless>>
    /\ UNCHANGED readyToStart

\* /api/ready: the last seat starts the hand, or has the loop start it.
Ready(p) ==
    /\ MarkReady(p)
    /\ \/ /\ ~MayStart
          /\ UNCHANGED <<st, dealerless, readyToStart>>
       \/ /\ MayStart /\ forValue
          /\ readyToStart' = TRUE
          /\ UNCHANGED <<st, dealerless>>
       \/ /\ MayStart /\ ~forValue
          /\ \E d \in BuildDeck : DealLocked(d)
          /\ UNCHANGED readyToStart

\* /api/act, the action that ends the hand: finishHandLocked carries the stacks
\* forward and every seat is told the hand has settled.
Act(p) ==
    /\ p \in Seated
    /\ st = "playing"
    /\ st' = "over"
    /\ short' \in BOOLEAN
    /\ money' = Settled(settled)
    /\ UNCHANGED <<forValue, seats, agents, funded, sittingOut, dealerless, potVars, pc, pot>>

\* /api/sitout, at any moment.
SitOut(p) ==
    /\ p \in Seated
    /\ sittingOut' = sittingOut \cup {p}
    /\ UNCHANGED <<forValue, seats, agents, funded, handVars, potVars, money, pc, pot>>

-----------------------------------------------------------------------------
(* RunHands *)

PendingStart == readyToStart /\ st = "none"
HandOver == st = "over"

\* recordStall, after which RunHands returns.
RecordStall ==
    /\ stalled' = TRUE
    /\ readyToStart' = FALSE
    /\ pc' = "ended"

\* The loop's two questions, each half second.
Poll ==
    /\ pc = "poll"
    /\ \/ PendingStart /\ pc' = "height"
       \/ HandOver /\ pc' = IF forValue THEN "applying" ELSE "next"
    /\ UNCHANGED <<forValue, seats, agents, funded, sittingOut, handVars, potVars, money, pot>>

\* heightFn, then StartFundedHand's first region and OpenPotForHand's.
ReadHeight ==
    /\ pc = "height"
    /\ pc' = IF openPot THEN "dealing" ELSE "opening"
    /\ UNCHANGED <<forValue, seats, agents, funded, sittingOut, handVars, potVars, money, pot>>

HeightFails ==
    /\ pc = "height"
    /\ RecordStall
    /\ UNCHANGED <<forValue, seats, agents, funded, sittingOut, handVars, openPot, settled,
                   money, pot>>

\* PotManager.OpenPot: the pot is broadcast and its refund signed.
OpenPot ==
    /\ pc = "opening"
    /\ Endpoints # {}
    /\ pot' = "unspent"
    /\ pc' = "opened"
    /\ UNCHANGED <<forValue, seats, agents, funded, sittingOut, handVars, potVars, money>>

\* A seat has no wallet, funding fails, or the refund of a pot that was already
\* broadcast is not signed.
OpenPotFails ==
    /\ pc = "opening"
    /\ pot' \in {"none"} \cup (IF Endpoints # {} THEN {"stranded"} ELSE {})
    /\ RecordStall
    /\ UNCHANGED <<forValue, seats, agents, funded, sittingOut, handVars, openPot, settled, money>>

\* OpenPotForHand's second region.
PotOpened ==
    /\ pc = "opened"
    /\ openPot' = TRUE
    /\ money' = [s \in Seats |-> Committed(RefundHeld(money[s]))]
    /\ settled' = FALSE
    /\ pc' = "dealing"
    /\ UNCHANGED <<forValue, seats, agents, funded, sittingOut, handVars, readyToStart, stalled, pot>>

\* The last region of StartFundedHand.
StartFundedHand ==
    /\ pc = "dealing"
    /\ readyToStart' = FALSE
    /\ IF st # "none"
       THEN pc' = "poll" /\ UNCHANGED <<st, dealerless, stalled>>
       ELSE \E d \in BuildDeck :
               /\ DealLocked(d)
               /\ pc' = IF d = "failed" THEN "ended" ELSE "poll"
               /\ stalled' = (stalled \/ d = "failed")
    /\ UNCHANGED <<forValue, seats, agents, funded, sittingOut, short, openPot, settled, money, pot>>

\* ApplyHandBalances: the refund is signed again outside the lock.
ApplyHand ==
    /\ pc = "applying"
    /\ pc' = IF openPot /\ Endpoints # {} THEN "applied" ELSE "prepare"
    /\ UNCHANGED <<forValue, seats, agents, funded, sittingOut, handVars, potVars, money, pot>>

ApplyHandFails ==
    /\ pc = "applying"
    /\ openPot /\ Endpoints # {}
    /\ RecordStall
    /\ UNCHANGED <<forValue, seats, agents, funded, sittingOut, handVars, openPot, settled,
                   money, pot>>

\* Its last region tells every seat the hand's result, with no transaction.
HandApplied ==
    /\ pc = "applied"
    /\ money' = Settled(FALSE)
    /\ pc' = "prepare"
    /\ UNCHANGED <<forValue, seats, agents, funded, sittingOut, handVars, potVars, pot>>

\* A seat has left or cannot cover the big blind.
SessionOver == sittingOut # {} \/ short

\* Mutant: nothing says that the next hand is waiting for the loop.
PrepareNextHandForgets ==
    /\ pc = "prepare"
    /\ IF SessionOver
       THEN pc' = "exit" /\ UNCHANGED st
       ELSE pc' = "poll" /\ st' = "none"
    /\ UNCHANGED <<forValue, seats, agents, funded, sittingOut, short, dealerless, potVars,
                   money, pot>>

PrepareNextHand ==
    /\ pc = "prepare"
    /\ IF SessionOver
       THEN pc' = "exit" /\ UNCHANGED <<st, readyToStart>>
       ELSE pc' = "poll" /\ st' = "none" /\ readyToStart' = TRUE
    /\ UNCHANGED <<forValue, seats, agents, funded, sittingOut, short, dealerless, openPot,
                   settled, stalled, money, pot>>

\* NextHand, for chips: the deal that fails ends the loop, with no stall.
NextHand ==
    /\ pc = "next"
    /\ \/ /\ SessionOver
          /\ pc' = "exit"
          /\ UNCHANGED <<st, dealerless>>
       \/ /\ ~SessionOver
          /\ \E d \in BuildDeck :
                /\ DealLocked(d)
                /\ pc' = IF d = "failed" THEN "ended" ELSE "poll"
    /\ UNCHANGED <<forValue, seats, agents, funded, sittingOut, short, potVars, money, pot>>

\* CashOut finds nothing to settle.
NothingToCashOut ==
    /\ pc = "exit"
    /\ ~forValue \/ ~openPot \/ settled
    /\ pc' = "ended"
    /\ UNCHANGED <<forValue, seats, agents, funded, sittingOut, handVars, potVars, money, pot>>

\* CashOut: every seat is armed and signs, and the settlement is broadcast.
CashOut ==
    /\ pc = "exit"
    /\ forValue /\ openPot /\ ~settled
    /\ pot = "unspent"
    /\ pot' = "settled"
    /\ pc' = "settled"
    /\ UNCHANGED <<forValue, seats, agents, funded, sittingOut, handVars, potVars, money>>

\* Mutant: an exit that fails to settle is recorded as if it had.
CashOutFailsUnseen ==
    /\ pc = "exit"
    /\ forValue /\ openPot /\ ~settled
    /\ pc' = "settled"
    /\ UNCHANGED <<forValue, seats, agents, funded, sittingOut, handVars, potVars, money, pot>>

\* A seat declines, the broadcast fails, or the seats do not arm in time.
CashOutFails ==
    /\ pc = "exit"
    /\ forValue /\ openPot /\ ~settled
    /\ RecordStall
    /\ UNCHANGED <<forValue, seats, agents, funded, sittingOut, handVars, openPot, settled,
                   money, pot>>

\* CashOut's last region.
SettlementRecorded ==
    /\ pc = "settled"
    /\ settled' = TRUE
    /\ openPot' = FALSE
    /\ money' = Settled(TRUE)
    /\ pc' = "ended"
    /\ UNCHANGED <<forValue, seats, agents, funded, sittingOut, handVars, readyToStart, stalled, pot>>

\* A player broadcasts a signed refund that has matured.
Refund ==
    /\ pot = "unspent"
    /\ pot' = "refunded"
    /\ UNCHANGED <<forValue, seats, agents, funded, sittingOut, handVars, potVars, money, pc>>

-----------------------------------------------------------------------------
LoopStep ==
    \/ Poll \/ ReadHeight \/ HeightFails \/ OpenPot \/ OpenPotFails \/ PotOpened
    \/ StartFundedHand \/ ApplyHand \/ ApplyHandFails \/ HandApplied
    \/ PrepareNextHand \/ NextHand
    \/ NothingToCashOut \/ CashOut \/ CashOutFails \/ SettlementRecorded

Next ==
    \/ \E p \in Players : Join(p) \/ RegisterAgent(p) \/ Ready(p) \/ Act(p) \/ SitOut(p)
    \/ LoopStep
    \/ Refund

\* The steps that wait for nobody outside; a deal has its own deadline.
LocalStep ==
    \/ Poll \/ PotOpened \/ StartFundedHand \/ HandApplied \/ PrepareNextHand \/ NextHand
    \/ NothingToCashOut \/ SettlementRecorded

\* RunHands runs until it returns.  Nothing is assumed of the players, nor of the
\* calls it makes to the chain and to wallets: a call that a page has to carry may
\* never come back (module WalletGate).
Spec == Init /\ [][Next]_vars /\ WF_vars(LocalStep)

-----------------------------------------------------------------------------
(* Properties *)

MoneyPhases == {"uncommitted", "refund-held", "committed", "settled"}

\* Type invariant; no identity has two seats (Join).
TypeOK ==
    /\ forValue \in BOOLEAN
    /\ seats \in Seq(Players) /\ Len(seats) <= N /\ IsInjective(seats)
    /\ agents \subseteq Seated /\ funded \subseteq Seated /\ sittingOut \subseteq Seated
    /\ st \in {"none", "playing", "over"}
    /\ {short, dealerless, readyToStart, openPot, settled, stalled} \subseteq BOOLEAN
    /\ money \in [Seats -> [phase : MoneyPhases, refundHeld : BOOLEAN, txid : BOOLEAN]]
    /\ pc \in {"poll", "height", "opening", "opened", "dealing", "applying", "applied",
               "prepare", "next", "exit", "settled", "ended"}
    /\ pot \in {"none", "stranded", "unspent", "settled", "refunded"}

\* While bets are live at a value table their pot is open, its refund was signed,
\* the wallets dealt the cards, and the loop is neither signing nor settling: it
\* gave up the lock for each of those calls and anyone's request may come in
\* between (RunHands, StartFundedHand, ApplyHandBalances, CashOut).
PlayedOnPot ==
    (forValue /\ st = "playing") =>
        openPot /\ pot \in {"unspent", "refunded"} /\ dealerless /\ pc = "poll"

\* The id of a settlement transaction is shown to the players, by the table or
\* with the state of their money, only when that transaction has spent the pot:
\* the exit settles, fails or loses to a refund between two regions of the lock,
\* and Act copies the id that it finds (CashOut, Act).  Nothing of the kind holds
\* of the rest that is shown: Act and ApplyHandBalances put every seat's money in
\* the phase "settled", which moneystate.go words as broadcast and spendable, at
\* the end of each hand, with the pot unspent.
ShownTxidIsReal ==
    (settled \/ \E s \in Seats : money[s].txid) => pot = "settled"

\* A table that dealt through the wallets never falls back on its own shuffle,
\* whatever joins, registrations and failed deals come in between (buildDeckLocked:
\* "must not get a dealer instead").
NeverDowngraded == [][dealerless => dealerless']_vars

\* What View calls the table's phase.
ShownPhase ==
    CASE stalled -> "stalled"
      [] ~stalled /\ st = "none" -> "waiting"
      [] ~stalled /\ st = "over" -> "hand complete"
      [] ~stalled /\ st = "playing" -> "in play"

\* The loop is waiting for an answer from outside the process.
InCall ==
    \/ pc \in {"height", "opening", "applying"}
    \/ pc = "exit" /\ forValue /\ openPot /\ ~settled

\* A session moves on: unless a call it makes is never answered, a finished hand,
\* and a table whose players are all ready, lead to another hand, a stall the
\* players are shown, or a settled session; a table for chips may also just stop.
\* (RunHands: "A table that simply stops looks identical to one waiting for
\* someone".)
SessionMovesOn ==
    []<>~InCall =>
        ((pc # "ended" /\ (HandOver \/ PendingStart)) ~>
            (ShownPhase \in {"in play", "stalled"} \/ settled \/ (pc = "ended" /\ ~forValue)))
=============================================================================
