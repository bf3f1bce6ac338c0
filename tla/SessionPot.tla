----------------------------- MODULE SessionPot -----------------------------
(***************************************************************************)
(* The money of a value table: one pot per session, funded once, whose     *)
(* shared refund is co-signed again after every hand and which is settled  *)
(* when a seat leaves.  Four parties interleave:                           *)
(*                                                                         *)
(*   - the table's session loop (webui/live.go RunHands) driving the pot   *)
(*     manager (webui/pot.go), which asks the wallets one by one;          *)
(*   - each seat's wallet (agent/stake.go, refund.go, agent.go), which     *)
(*     signs what it can verify (cosign/verify.go, shared_refund.go);      *)
(*   - each seat's page (static/app.js armWallet), which copies what the   *)
(*     table says into the wallet and then tells the table it did;         *)
(*   - the chain: a height, and one output that is spent at most once.     *)
(*                                                                         *)
(* Hands are abstracted to their result, a new split of the pot (module    *)
(* PokerEngine shows chips are conserved).  Keys, scripts and signatures   *)
(* are abstracted to who is paid what; a call to a wallet that times out,  *)
(* is declined by the player or cannot be delivered is a refusal.          *)
(***************************************************************************)
EXTENDS Integers, Sequences, FiniteSets, FiniteSetsExt

CONSTANTS
    N,             \* number of seats
    Pot,           \* satoshis in the pot
    BigBlind,      \* what a seat must cover to be dealt in
    RefundFee,     \* pot.go refundFee
    SettlementFee, \* pot.go settlementFee
    FeeHeadroom,   \* MaxFee above settlementFee (200 in StakeFor)
    RefundDelay,   \* blocks from opening to the first refund's lock (144)
    FloorDelay,    \* blocks from opening to the ladder's floor (12)
    LadderStep,    \* pot.go ladderStep
    Results,       \* the splits of the pot a hand may end with
    MaxHeight      \* bound on the chain height

Seats == 0..(N - 1)
Total(b) == MapThenSumSet(LAMBDA s : b[s], Seats)

ASSUME PotConstants ==
    /\ N \in Nat /\ N >= 2
    /\ Pot \in Nat
    /\ BigBlind \in Nat \ {0}
    /\ RefundFee \in Nat \ {0}
    /\ SettlementFee \in Nat \ {0}
    /\ FeeHeadroom \in Nat
    /\ RefundDelay \in Nat /\ FloorDelay \in Nat /\ FloorDelay < RefundDelay
    /\ LadderStep \in Nat \ {0}
    /\ MaxHeight \in Nat
    \* chips only move between seats
    /\ \A r \in Results : r \in [Seats -> Nat] /\ Total(r) = Pot

OpenHeight == 1
MaxFee == SettlementFee + FeeHeadroom

VARIABLES
    pc,         \* where RunHands is
    asked,      \* the seat whose signature the table is collecting
    dealt,      \* LiveTable.st # nil
    listed,     \* the pot is in PotManager.pots and openPotHand names it
    stacks,     \* the engine's stacks at the end of the last hand
    balances,   \* livePot.balances
    lockHeight, \* locktime of the refund being signed
    refunds,    \* every fully signed refund, oldest first; livePot.refund is the last
    armed,      \* PotManager.armed
    leaving,    \* some seat is in LiveTable.leaving
    proposal,   \* outputs of the settlement being signed
    page,       \* each seat's page: how far armWallet has got
    armedFor,   \* each page's fingerprint of the state it last armed
    stake,      \* each wallet's recorded stake
    pot,        \* the pot's output on the chain
    paid,       \* what the transaction that spent it paid each seat
    height      \* the chain tip

tableVars == <<pc, asked, dealt, listed, stacks, balances, lockHeight, refunds, proposal>>
seatVars == <<page, armedFor, stake>>
chainVars == <<pot, paid, height>>
vars == <<tableVars, armed, leaving, seatVars, chainVars>>

Nothing == [s \in Seats |-> 0]

\* A page or wallet that has recorded nothing.
NoStake == [own |-> 0, refund |-> 0]
Idle == [at |-> "idle", pays |-> Nothing, refund |-> 0]
Recorded == [at |-> "recorded", pays |-> Nothing, refund |-> 0]

-----------------------------------------------------------------------------
(* What the transactions pay *)

\* Mutant: the comparison is the wrong way round, so the poorest seat pays.
LargestFlipped(b) == {s \in Seats : \A o \in Seats : b[s] <= b[o]}

\* Both fees fall on a seat with the largest amount.
Largest(b) == {s \in Seats : \A o \in Seats : b[s] >= b[o]}

\* buildSharedRefund gives up unless the balances make up the pot and one of
\* them can carry the fee.
RefundBuilds(b) == Total(b) = Pot /\ \E s \in Seats : b[s] > RefundFee

\* The refund it builds: the first of the largest balances carries the fee.
RefundPays(b) ==
    [s \in Seats |-> IF s = Min(Largest(b)) THEN b[s] - RefundFee ELSE b[s]]

\* Mutant: no fee is reserved, so the outputs add up to the whole pot.
ReserveFeeNone(b) == {b}

\* reserveFee ranges over a Go map, so any of the largest payouts may carry
\* the settlement's fee, and two calls need not choose the same one; payouts
\* that are all too small for the fee are left alone.
ReserveFee(b) ==
    IF \E s \in Seats : b[s] > SettlementFee
    THEN {[b EXCEPT ![s] = @ - SettlementFee] : s \in Largest(b)}
    ELSE {b}

\* VerifyProposal against the stake handleRecordStake stored, which names the
\* seat's own payout alone: other seats' outputs are unexpected, and pass only
\* if no larger than the fee bound.
Accepts(s, out) ==
    /\ stake[s].own > 0 =>
          /\ out[s] = stake[s].own
          /\ \A o \in Seats \ {s} : out[o] <= MaxFee
    /\ Total(out) <= Pot
    /\ Pot - Total(out) <= MaxFee

\* handleSignPot: a wallet that recorded no stake refuses the hand outright.
SignsPot(s, out) == stake[s].refund # 0 /\ Accepts(s, out)

\* sharedRefundExpectation and VerifySharedRefund on the refund the table
\* builds: it pays the balances the table states, and its lock is the bound
\* the table states, so all that can fail is that it pays this seat nothing.
SignsRefund(s) == balances[s] > 0

-----------------------------------------------------------------------------
(* The table: opening, re-signing, exit *)

Init ==
    /\ pc = "pending"
    /\ asked = 0
    /\ dealt = FALSE
    /\ listed = FALSE
    /\ stacks = Nothing
    /\ balances = Nothing
    /\ lockHeight = 0
    /\ refunds = <<>>
    /\ armed = {}
    /\ leaving = FALSE
    /\ proposal = Nothing
    /\ page = [s \in Seats |-> Idle]
    /\ armedFor = [s \in Seats |-> Nothing]
    /\ stake = [s \in Seats |-> NoStake]
    /\ pot = "none"
    /\ paid = Nothing
    /\ height = OpenHeight

\* RunHands returns, leaving its reason for the players.
Stalled == pc' = "stalled" /\ asked' = 0 /\ proposal' = Nothing

\* StartFundedHand, OpenPot: the pot is broadcast, then its refund is signed.
OpenPot ==
    /\ pc = "pending"
    /\ pot' = "unspent"
    /\ balances' = [s \in Seats |-> Pot \div N]
    /\ lockHeight' = height + RefundDelay
    /\ asked' = 0
    /\ pc' = "opening"
    /\ UNCHANGED <<dealt, listed, stacks, refunds, armed, leaving, proposal,
                   seatVars, paid, height>>

\* FundPot fails: before the wallet made the pot, or after CreateAction did, when
\* its answer cannot be read or does not show the output.  The table then knows
\* of no pot, and a pot that was made has no refund.
FundingFails ==
    /\ pc = "pending"
    /\ Stalled
    /\ pot' \in {"none", "unspent"}
    /\ UNCHANGED <<dealt, listed, stacks, balances, lockHeight, refunds, armed,
                   leaving, seatVars, paid, height>>

\* resignRefund: one wallet answers.  The last signature makes the refund the
\* current one, and at opening also publishes the pot.
RefundSigned ==
    /\ pc \in {"opening", "resigning"}
    /\ RefundBuilds(balances)
    /\ SignsRefund(asked)
    /\ IF asked < N - 1
       THEN /\ asked' = asked + 1
            /\ UNCHANGED <<pc, listed, refunds>>
       ELSE /\ refunds' = Append(refunds, [pays |-> RefundPays(balances), lock |-> lockHeight])
            /\ listed' = TRUE
            /\ pc' = IF pc = "opening" THEN "dealing" ELSE "next"
            /\ asked' = 0
    /\ UNCHANGED <<dealt, stacks, balances, lockHeight, armed, leaving, proposal,
                   seatVars, chainVars>>

\* The refund cannot be built, or a wallet refuses it or cannot be reached: the
\* session stops where it is, at the opening with the pot out and no refund.
RefundRefused ==
    /\ pc \in {"opening", "resigning"}
    /\ Stalled
    /\ UNCHANGED <<dealt, listed, stacks, balances, lockHeight, refunds, armed,
                   leaving, seatVars, chainVars>>

\* dealLocked, after the pot opened or after PrepareNextHand.
Deal ==
    /\ pc = "dealing"
    /\ dealt' = TRUE
    /\ pc' = "playing"
    /\ UNCHANGED <<asked, listed, stacks, balances, lockHeight, refunds, armed, leaving,
                   proposal, seatVars, chainVars>>

DealFails ==
    /\ pc = "dealing"
    /\ Stalled
    /\ UNCHANGED <<dealt, listed, stacks, balances, lockHeight, refunds, armed,
                   leaving, seatVars, chainVars>>

\* The hand is played out; chips only move between seats.
FinishHand ==
    /\ pc = "playing"
    /\ stacks' \in Results
    /\ pc' = "over"
    /\ UNCHANGED <<asked, dealt, listed, balances, lockHeight, refunds, armed, leaving,
                   proposal, seatVars, chainVars>>

\* Mutant: the next refund matures with the one it replaces.
NextLockFlat == lockHeight

NextLock == lockHeight - LadderStep

\* Mutant: the balances move but the refund is not signed again.
ApplyHandUnsigned ==
    /\ pc = "over"
    /\ NextLock > OpenHeight + FloorDelay
    /\ balances' = stacks
    /\ armed' = {}
    /\ pc' = "next"
    /\ UNCHANGED <<asked, dealt, listed, stacks, lockHeight, refunds, leaving, proposal,
                   seatVars, chainVars>>

\* ApplyHandBalances and ApplyHand up to the round of signatures.
ApplyHand ==
    /\ pc = "over"
    /\ NextLock > OpenHeight + FloorDelay
    /\ balances' = stacks
    /\ armed' = {}
    /\ lockHeight' = NextLock
    /\ asked' = 0
    /\ pc' = "resigning"
    /\ UNCHANGED <<dealt, listed, stacks, refunds, leaving, proposal, seatVars, chainVars>>

\* The ladder is exhausted: ApplyHand returns before it changes anything.
LadderExhausted ==
    /\ pc = "over"
    /\ NextLock <= OpenHeight + FloorDelay
    /\ Stalled
    /\ UNCHANGED <<dealt, listed, stacks, balances, lockHeight, refunds, armed,
                   leaving, seatVars, chainVars>>

\* PrepareNextHand: another hand, or the exit when a seat left or is short.
PrepareNextHand ==
    /\ pc = "next"
    /\ IF leaving \/ \E s \in Seats : stacks[s] < BigBlind
       THEN pc' = "exit" /\ UNCHANGED dealt
       ELSE pc' = "dealing" /\ dealt' = FALSE
    /\ UNCHANGED <<asked, listed, stacks, balances, lockHeight, refunds, armed, leaving,
                   proposal, seatVars, chainVars>>

\* CashOut and Settle up to the round of signatures.
CashOut ==
    /\ pc = "exit"
    /\ armed = Seats
    /\ proposal' \in ReserveFee(balances)
    /\ asked' = 0
    /\ pc' = "settling"
    /\ UNCHANGED <<dealt, listed, stacks, balances, lockHeight, refunds, armed, leaving,
                   seatVars, chainVars>>

\* Mutant: the exit waits for the seats without a deadline.
ExitWaits ==
    /\ pc = "exit"
    /\ armed # Seats
    /\ UNCHANGED vars

\* settleSessionOnExit gives up when a seat has not armed by the deadline.
ExitTimeout ==
    /\ pc = "exit"
    /\ armed # Seats
    /\ Stalled
    /\ UNCHANGED <<dealt, listed, stacks, balances, lockHeight, refunds, armed,
                   leaving, seatVars, chainVars>>

\* cosign.Complete: the settlement is broadcast, which the chain accepts only
\* if nothing has spent the pot, and the pot is forgotten.
Complete ==
    /\ pot = "unspent"
    /\ pot' = "settled"
    /\ paid' = proposal
    /\ listed' = FALSE
    /\ pc' = "closed"
    /\ asked' = 0
    /\ proposal' = Nothing

\* collectSignatures: one wallet signs the settlement; the last completes it.
SettlementSigned ==
    /\ pc = "settling"
    /\ SignsPot(asked, proposal)
    /\ \/ /\ asked < N - 1
          /\ asked' = asked + 1
          /\ UNCHANGED <<pc, listed, proposal, pot, paid>>
       \/ /\ asked = N - 1
          /\ Complete
    /\ UNCHANGED <<dealt, stacks, balances, lockHeight, refunds, armed, leaving,
                   seatVars, height>>

\* A wallet declines, or the wallet cannot complete: abandoned and stalled.
SettlementFails ==
    /\ pc = "settling"
    /\ Stalled
    /\ UNCHANGED <<dealt, listed, stacks, balances, lockHeight, refunds, armed,
                   leaving, seatVars, chainVars>>

\* The table process dies.  Pots, balances and refunds are only in its memory.
Crash ==
    /\ pc \notin {"pending", "crashed"}
    /\ pc' = "crashed"
    /\ asked' = 0
    /\ proposal' = Nothing
    /\ listed' = FALSE
    /\ dealt' = FALSE
    /\ armed' = {}
    /\ UNCHANGED <<stacks, balances, lockHeight, refunds, leaving, seatVars, chainVars>>

-----------------------------------------------------------------------------
(* The seats: pages and wallets *)

\* A player leaves, at any moment; one is enough to end the session.
SitOut ==
    /\ ~leaving
    /\ pc # "crashed"
    /\ leaving' = TRUE
    /\ UNCHANGED <<tableVars, armed, seatVars, chainVars>>

\* /api/stake: StakeForSeat reads the balances under the lock, then lets go.
AskStake(s) ==
    /\ page[s].at = "idle"
    /\ listed /\ dealt
    /\ page' = [page EXCEPT ![s] = [at |-> "asked", pays |-> balances, refund |-> 0]]
    /\ UNCHANGED <<tableVars, armed, leaving, armedFor, stake, chainVars>>

\* StakeFor reserves the fee on what was read and adds the refund it finds
\* now; the page goes on only if the fingerprint of the payouts is new.
TellStake(s) ==
    /\ page[s].at = "asked"
    /\ listed
    /\ \E p \in ReserveFee(page[s].pays) :
          page' = [page EXCEPT ![s] =
                     IF p = armedFor[s] THEN Idle
                     ELSE [at |-> "told", pays |-> p, refund |-> Len(refunds)]]
    /\ UNCHANGED <<tableVars, armed, leaving, armedFor, stake, chainVars>>

\* handleRecordStake: the wallet keeps its own payout and the refund.
RecordStake(s) ==
    /\ page[s].at = "told"
    /\ stake' = [stake EXCEPT ![s] = [own |-> page[s].pays[s], refund |-> page[s].refund]]
    /\ armedFor' = [armedFor EXCEPT ![s] = page[s].pays]
    /\ page' = [page EXCEPT ![s] = Recorded]
    /\ UNCHANGED <<tableVars, armed, leaving, chainVars>>

\* /api/armed: MarkSeatArmed carries no balances, so it counts for whichever
\* state the pot is in when it arrives.
MarkArmed(s) ==
    /\ page[s].at = "recorded"
    /\ listed
    /\ armed' = armed \cup {s}
    /\ page' = [page EXCEPT ![s] = Idle]
    /\ UNCHANGED <<tableVars, leaving, armedFor, stake, chainVars>>

\* The wallet process is started again: recorded stakes, and the refunds in
\* them, were only in its memory.  The page does not notice.
WalletRestarts(s) ==
    /\ stake[s] # NoStake
    /\ stake' = [stake EXCEPT ![s] = NoStake]
    /\ UNCHANGED <<tableVars, armed, leaving, page, armedFor, chainVars>>

\* A request of the page fails; a lost /api/armed is swallowed by its catch.
PageFails(s) ==
    /\ page[s].at # "idle"
    /\ page' = [page EXCEPT ![s] = Idle]
    /\ UNCHANGED <<tableVars, armed, leaving, armedFor, stake, chainVars>>

-----------------------------------------------------------------------------
(* The chain *)

Tick ==
    /\ pot # "none"
    /\ height < MaxHeight
    /\ height' = height + 1
    /\ UNCHANGED <<tableVars, armed, leaving, seatVars, pot, paid>>

\* Mutant: the refund's input is final, so its lock height does not count.
BroadcastRefundEarly(s) ==
    /\ pot = "unspent"
    /\ stake[s].refund # 0
    /\ pot' = "refunded"
    /\ paid' = refunds[stake[s].refund].pays
    /\ UNCHANGED <<tableVars, armed, leaving, seatVars, height>>

\* External: nothing in the repository broadcasts a refund.  A player may, by its
\* own means, send the one its wallet holds (RecordedStake.RefundTxHex, kept "so
\* the player can broadcast it unilaterally"); the chain takes it once final.
BroadcastRefund(s) ==
    /\ pot = "unspent"
    /\ stake[s].refund # 0
    /\ height >= refunds[stake[s].refund].lock
    /\ pot' = "refunded"
    /\ paid' = refunds[stake[s].refund].pays
    /\ UNCHANGED <<tableVars, armed, leaving, seatVars, height>>

-----------------------------------------------------------------------------
TableStep ==
    \/ OpenPot \/ FundingFails \/ RefundSigned \/ RefundRefused \/ Deal \/ DealFails
    \/ ApplyHand \/ LadderExhausted \/ PrepareNextHand
    \/ CashOut \/ ExitTimeout \/ SettlementSigned \/ SettlementFails

\* The steps that wait for no player's wallet: a deal has its own deadline.
TableAlone ==
    \/ Deal \/ DealFails \/ ApplyHand \/ LadderExhausted \/ PrepareNextHand
    \/ CashOut \/ ExitTimeout

SeatStep ==
    \E s \in Seats : \/ AskStake(s) \/ TellStake(s) \/ RecordStake(s)
                     \/ MarkArmed(s) \/ PageFails(s) \/ WalletRestarts(s)

Next ==
    \/ TableStep
    \/ FinishHand
    \/ Crash
    \/ SitOut
    \/ SeatStep
    \/ Tick
    \/ \E s \in Seats : BroadcastRefund(s)

Spec == Init /\ [][Next]_vars

\* The session loop takes every step that is its own.  A wallet asked to sign
\* through its seat's page may never answer and nothing times that call out
\* (module WalletGate), so nothing is assumed of it, nor of hands, pages,
\* players' broadcasts and crashes.
FairSpec == Spec /\ WF_vars(TableAlone)

-----------------------------------------------------------------------------
(* Properties *)

Phases == {"pending", "opening", "dealing", "playing", "over", "resigning", "next",
           "exit", "settling", "closed", "stalled", "crashed"}

\* Type invariant of the table, the pages, the wallets and the chain.
TypeOK ==
    /\ pc \in Phases
    /\ asked \in Seats
    /\ dealt \in BOOLEAN
    /\ listed \in BOOLEAN
    /\ stacks \in [Seats -> Nat]
    /\ balances \in [Seats -> Nat]
    /\ lockHeight \in Nat
    /\ refunds \in Seq([pays : [Seats -> Nat], lock : Nat])
    /\ armed \subseteq Seats
    /\ leaving \in BOOLEAN
    /\ proposal \in [Seats -> Nat]
    /\ page \in [Seats -> [at : {"idle", "asked", "told", "recorded"},
                           pays : [Seats -> Nat], refund : Nat]]
    /\ armedFor \in [Seats -> [Seats -> Nat]]
    /\ stake \in [Seats -> [own : Nat, refund : Nat]]
    /\ pot \in {"none", "unspent", "settled", "refunded"}
    /\ paid \in [Seats -> Nat]
    /\ height \in Nat

Newest == refunds[Len(refunds)]

\* The ladder: of any two signed refunds the later matures strictly earlier,
\* and none matures at or below the floor (ApplyHand, resignRefund).
LadderDescends ==
    /\ \A i, j \in 1..Len(refunds) : i < j => refunds[j].lock < refunds[i].lock
    /\ \A i \in 1..Len(refunds) : refunds[i].lock > OpenHeight + FloorDelay

\* No cards are out unless a fully signed refund pays every seat the balance it
\* holds: the refund is re-signed before the next hand deals (ApplyHand:
\* "The refund must be re-signed before the next hand deals").
DealtOnCurrentRefund ==
    pc \in {"dealing", "playing", "over"} =>
        /\ refunds # <<>>
        /\ Newest.pays = RefundPays(balances)

\* The pot as its players see it: held while unspent, agreed by the refunds.
Promise == INSTANCE Escrow WITH
    FallbackFee <- RefundFee,
    escrow <- CASE pot = "none" -> "empty" [] pot = "unspent" -> "held" [] OTHER -> "released",
    agreed <- [i \in 1..Len(refunds) |-> refunds[i].pays],
    released <- paid

\* The session pot implements the escrow it promises: the stakes are paid out
\* once, and only as every seat signed.  Whatever refusals, crashes and restarts
\* of the signing came before, a settlement (Settle, Complete) pays what the
\* newest refund would have, but for the two fees; a refund pays as signed.
ImplementsEscrow == Promise!Spec

\* A stale refund loses the race: when one is mined, every newer refund that a
\* wallet holds could have been mined a full ladder step before (the lock
\* heights of resignRefund, against pages that copy refunds late or never).
StaleRefundLoses ==
    [][pot' = "refunded" /\ pot = "unspent" =>
          \E i \in 1..Len(refunds) :
             /\ paid' = refunds[i].pays
             /\ \A s \in Seats :
                   stake[s].refund > i => height >= refunds[stake[s].refund].lock + LadderStep]_vars

\* Leaving the exit loop is bounded: whatever the pages do, and whether or not
\* every seat arms, the session goes on to sign the settlement or says that it
\* stalled (settleSessionOnExit).
ExitEnds == pc = "exit" ~> pc \in {"settling", "closed", "stalled", "crashed"}

\* What README says of refusing to sign: a stalled session leaves a refund that
\* pays each seat its current balance.  ApplyHand moves the balances first and
\* collects signatures after, so a refusal leaves the refund of the hand before.
StallPaysBalances ==
    (pc = "stalled" /\ listed) => Newest.pays = RefundPays(balances)

\* What the wallets need for a cash-out: a seat asked to sign a settlement that
\* pays it exactly what it recorded does not decline.
AgreedSettlementSigned ==
    (pc = "settling" /\ stake[asked].refund # 0 /\ stake[asked].own = proposal[asked])
        => SignsPot(asked, proposal)
=============================================================================
