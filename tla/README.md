# TLA+ models of brc100-poker

brc100-poker is poker for real money without a custodian.  The table service coordinates; each
player's wallet agent holds the player's key, contributes to the shuffle, and signs.  One pot per
session is locked to all seats together; hands move balances inside it, and after every hand all
seats sign a new shared refund.  This directory holds TLA+ models of the parts where that can go
wrong, TLC configurations, and TLAPS proofs.

## 1. Inventory

| Part | Source (`src/internal/...`) | State | Operations | Talks to |
|---|---|---|---|---|
| Betting engine | `game/engine/engine.go` | seats, street, bets, turn, pauses, payouts | `New`, `Apply`, `SupplyBoard`, `CompleteShowdown` | called by the live table under its lock |
| Pot manager | `webui/pot.go` | pots, balances, lock height, refund, armed set | `OpenPot`, `ApplyHand`, `StakeFor`, `MarkArmed`, `Settle` | the wallets (signatures), the funding wallet, the chain |
| Live table | `webui/live.go`, `cmd/table` | seats, wallets, hand, leaving seats, pot flags, stall reason, money display | `Join`, `RegisterAgent`, `Ready`, `Act`, `SitOut`; the `RunHands` loop | engine, coordinator, pot manager, HTTP handlers |
| Seat page | `webui/static/app.js`, `webui/api.go` | fingerprint of what it armed | `armWallet`, `relayOnce`, polling | table over HTTP, wallet on the same machine |
| Wallet agent | `agent/*.go` | stakes, deal secrets per hand id | record stake, sign refund, sign pot, six deal calls | table through the substrate or the page |
| Co-signing rules | `protocol/cosign/*.go` | none | fund, build refund and settlement, verify, complete | pot manager and agent |
| Deal coordinator | `webui/dealer.go` | deck, disclosures | `Deal`, `call` | the wallets, directly or through the relay |
| Relay | `webui/relay.go` | queued and waiting calls per seat | `Do`, `Collect`, `Deliver` | coordinator on one side, seat page on the other |
| Masked decks | `game/mentalpoker` | none | shuffle, remask, unmask | coordinator and agent |
| Table protocol | `protocol/table`, `protocol/transport` | lifecycle, message logs | join, fund, advance, stall; send, receive, catch up | peers |
| Peer hand | `protocol/table/hand.go` | secrets, deck, disclosures | `StartShuffle`, `ApplyShuffle`, `StartRemask`, `ApplyRemask`, `SetDeck`, reveals, `Card` | its session's messages |
| Money display | `protocol/table/moneystate.go` | a phase, a refund flag and a transaction per seat | `RefundHeld`, `Committed`, `Settled` | the live table |
| Substrate | `protocol/substrate` | nonces seen, grants, request counts | authenticate, dispatch, sign the answer | agent and table |
| Chain access | `wallet/broadcast`, `wallet/potledger`, `wallet/brc100` | audit log, ledger file | broadcast, record | the network |

What is hard here: the table's loop, HTTP handlers, pages and wallets interleave, and every call
to a wallet can be refused, lost, or answered after the table stopped waiting; several signed
refunds of different ages compete for one output; nothing but the chain survives a crash; and the
engine's payouts must be exact for every pattern of all-ins.  `PROJECT.json` lists these hazards at
their lines with the properties that cover them.

What makes each part correct:

* engine: chips are conserved per seat and in total, a side pot pays only those who matched it, a
  running hand always waits for somebody who can move it, and every hand ends;
* pot: no hand is dealt on an out-of-date refund, newer refunds mature first, settling and refunding
  pay the same balances, the money is released once, and the exit of a session ends;
* deal: all seats read the same distinct cards, the scalars that are disclosed open nothing but the board, and no
  shuffle is reused;
* live table: bets are live only on a pot whose refund is signed, a settlement transaction shown to the players is one
  that happened, and a session that stops says so;
* relay and substrate: a wallet process runs a request once, a call returns the answer to that very call,
  and no call should wait for ever (`relay_wait` shows one that does);
* table protocol: the roster does not change under a pot, private messages are never repeated, a message
  is handled once per publication or replay of it, and a replay that arrives whole is complete; in a deal
  between peers a card that is read is the right one, and all should end on one deck (`peer_decks` shows they need not).

## 2. Modules

### PokerEngine (`engine.go`)

Variables are the fields of `State`.  `Fold`, `Check`, `Call` and `BetOrRaise` are the cases of `Apply`, each
including the `advance` that follows: `Closed` decides whether the round ends, `NextStreet`
resets the street and deals or pauses, `Settle` ends the hand and `ScoreAndPay` pays it, layer by layer.
`SupplyBoard` and `CompleteShowdown` end the two pauses of a deferred deal; `Init` is
`New` with the blinds posted, for any button, stacks and deal mode.  The board is its length and a
hand's strength is a number chosen at scoring, so every outcome of the cards is covered.
`SetRevealedHole` changes card data only and is part of `CompleteShowdown`.

### SessionPot (`pot.go`, `live.go`, `agent/`, `cosign/`, `app.js`)

`pc` is where `RunHands` is.  Every wallet call is a step of its own: `RefundSigned` and
`SettlementSigned` ask seat `asked`; `RefundRefused`, `SettlementFails`, `DealFails` and `FundingFails`
are the error returns, which all end in `recordStall`.  `ApplyHand` moves the balances and clears the
armed set before the first signature, as the code does.  `FundingFails` may leave a pot behind: `FundPot` can fail
after the wallet has made it (`settle.go:167-180`), and such a pot has no refund.  Fees are not
bounded by the balances: `buildSharedRefund` gives up when no balance can carry its fee (`RefundBuilds`), and `reserveFee`
then takes none.  The page's `armWallet` is cut
where it waits: `AskStake` and `TellStake` are the two lock regions of `/api/stake`, `RecordStake` is the
wallet, `MarkArmed` is `/api/armed`, and `PageFails` is any of them lost.  `ReserveFee` is a set because
the code ranges over a Go map.  `Crash` loses everything the table keeps in memory, and `WalletRestarts` the
stake a wallet recorded (`agent.go:68`); its page does not notice and arms again only when the payouts change.
`refunds` keeps every signed refund, because wallets hold old ones; `livePot.refund` is its last element.
The chain is `height`, `Tick` and the output `pot` that is spent at most once; `BroadcastRefund` is a
player, outside the code, using what its wallet holds.  Nothing in the repository does that, so it may happen and no property counts on it.

Scripts, keys and signatures are abstracted to who is paid what.  A hand is its result, a new split of the pot; that
hands conserve chips is what PokerEngine shows.

### Escrow, and how SessionPot implements it

`Escrow` is what the pot promises, in four actions: the stakes are deposited once (`Deposit`), all
seats agree again and again on what each takes home (`Agree`), and the money is released once, by
settling the latest agreement (`Settle`) or by falling back on one of them (`FallBack`).  A settlement
pays the latest agreement with one fee given back and another taken: `Settlements`.
`SessionPot!Promise` maps the signed refunds to the agreements, the output `pot` to the escrow's state and
`paid` to what was released; every other step of the session is a stutter.  `ImplementsEscrow` is the
abstract specification, checked as a property of the whole session with its refusals and crashes.

### LiveTable (`live.go`, `api.go`, `moneystate.go`, `cmd/table`)

The table under its routes, with `pc` for where `RunHands` is.  Each request is one action, because
each holds the lock; the loop is cut wherever it lets go of it, so `OpenPot` (the pot is broadcast) and
`PotOpened` (the table notes it) are two steps with any request in between, and so are `ApplyHand` and
`HandApplied`, `CashOut` and `SettlementRecorded`.  Every call has its failing twin, all of which end in
`recordStall` except a failed deal at a table for chips.  `money` is the `MoneyTracker` with the three
calls the program makes on it; `ShownPhase` is what `View` calls the phase.  As in the code
(`live.go:412,995`) it is `settled` from the end of the first hand on, while the pot is unspent.  What the pot manager does inside a
call is SessionPot, what a deal does is HandDeal, what ends a hand is PokerEngine: here they succeed or fail.

### WalletGate (`dealer.go`, `relay.go`, `app.js`, `substrate/`)

The way of one call from the table to a wallet and back, for one seat.  `Ask` signs a request and parks
it, `Collect` is the page's poll, after which copies of the request may reach the wallet at any time and any
number of times; `Deliver` and `DeliverError` are the page's answers, right or wrong.  `ServeHTTP` is
cut in three per request being served: `Arrive` reads the clock and verifies, `Use` is the nonce cache
under its lock but with the time read before, `Handle` runs the method.  A `Restart` empties the cache.  Table and
wallet have clocks of their own, at most `Ahead` and `Behind` apart.

`GateConstants` assumes `Ahead + MaxDelay <= MaxClockSkew`: the table's lead plus the wait for the cache's lock
fit into one skew window.  The cache keeps a nonce for two windows after the time its request
was admitted with and a request stays timely for one window after its timestamp, so the bound is tight: with
`MaxDelay = 2` in `WalletGate.cfg`, and the assumption dropped, TLC finds a request served twice.  With the two minutes of the code the assumption is mild.

### MaskedDeck (`game/mentalpoker`)

The deck algebra shared by the two deals.  A masked card is its card and the scalars multiplied onto
it, each with its exponent, so a scalar put on twice or taken off too often is not mistaken for one
that is right; a card can be read when exactly the scalars at hand are on it.  This is what unmasking computes, and no
model of secrecy: the card points are `(i+1)G` (`curve.go:161-176`), so a deck under one scalar has
relations between its points that tell the cards apart, and the model has none.

### HandDeal (`dealer.go`, `agent/deal.go`, `relay.go`, `live.go`)

On top of MaskedDeck.  `call` is the call `Coordinator.Deal` is waiting on, `Following` the next one.
`Begin` is `dealStore.begin`, which returns existing secrets for a hand id it knows.  `CallFails` ends a deal, and may leave the call in `late`, from
where `LateArrives` delivers it to the wallet later, as the relay can.  `TableRestarts` resets the hand
counter; `WalletRestarts` forgets a wallet's secrets.  `learned`, `used`, `played` and `disturbed` are history;
`used` is what each seat shuffled this deal with.  `learned` has the disclosed scalars; the wallet that reads a hole card
answers with the card itself (`dealer.go:197-210`), which is `cards`.

### TableSession (`table.go`, `session.go`, `messages.go`, `transport/`)

The first actions are the methods of `Table`: `Join`, `CloseRoster`, `MarkRefundHeld`, `MarkFunded`,
`BeginDeal`, `Advance`, `Stall` and `Close`, each one lock region.  A session is cut where it lets go of
its lock: `sendTo` is `Number` (called `Send`, `SendPrivate` or `RequestCatchUp`) and then `Publish`; `onMessage` is
`OnMessage`, the checks, and then `Handle`, which raises the mark and runs the handler.
A publish makes one copy for each session it reaches, any subset of them, which is what absent seats and broken connections
leave; copies are received in any order.  `ServeCatchUp` is called by the handler of a request, which is the
caller's wiring; it publishes message by message, each reaching a set of sessions that may differ, and may end at a publish that fails, so a replay
may be partial.  A session may be opened at any time.
`Dedup` suppresses a transport id seen before; sessions publish under fresh ids only, replays included,
so it never applies and is left out.  So are bodies, `LastSeen` and `Session.Close`.
`handled`, which counts by message and copy (the first publication or a replay), and `served` are history.

### PeerHand (`hand.go`)

The deal without a coordinator, on top of MaskedDeck, with the handlers wired as `hand_test.go` wires them (the program
does not run it yet).  A handler ends at the first point where it lets go of the seat's lock with something left to
do; the rest is a job in `jobs`: `StartRemask` reads the deck, `SetRemasked` stores its output,
`SendOut` publishes.  `inbox` holds copies on their way, received in any order or never;
`ServeCatchUp` publishes a seat's messages again, and nothing suppresses what a receiver has handled before.
A disclosure only adds to what its recipient records, so it is recorded when it is sent.  `disclosed` is
`HandPlayer.disclosed` and not what a seat could know: a private reveal goes in clear, in an envelope that is handed to every
seat and passed over by all but one (`hand.go:266`, `session.go:110`).

The modules `MC*` hold the instances.

## 3. Runs

| Run | Configuration | Checks |
|---|---|---|
| `engine` | 4 seats, blinds 1/3, five tables with stacks from 1 to 7, any button | `TypeOK`, `SeatAccounts`, `BoardMatchesStreet`, `SomeoneActs`, `RaisesAreFull`, `HandEnds`, `StreetsMatched`, `PotPaidExactly`, `SidePotsFair`, `HandShortens` |
| `pot_session` | 2 seats, pot 6, fees 2 and 3, one ladder step above the floor, hands that chop, move chips, or leave a seat short | `TypeOK`, `LadderDescends`, `DealtOnCurrentRefund`, `ImplementsEscrow`, `StaleRefundLoses`, `ExitEnds` |
| `hand_deal` | 2 seats, 1 hole card each, 1 board card, deck of 4, 2 hand ids, 1 late call, 1 restart | `TypeOK`, `DealtRight`, `DisclosuresOpenBoardOnly`, `CleanDealReads`, `HandsAreFresh` |
| `table_session` | 2 players, any 2 messages or a catch-up of 3, 1 catch-up served, players symmetric | `TypeOK`, `PrivateOnce`, `HandledPerReplay`, `HandledIsLogged`, `ReplayCoversTail`, `RosterFrozen` |
| `live_table` | 3 players for 2 seats, for chips and for value, any number of hands | `TypeOK`, `PlayedOnPot`, `ShownTxidIsReal`, `NeverDowngraded`, `SessionMovesOn` |
| `wallet_gate` | 3 calls, one of a deal, 2 requests served at once, a nonce cache of 2, clocks 1 apart, 1 restart | `TypeOK`, `ServedOnce`, `AnsweredMeansServed`, `AbandonedStaysHome` |
| `peer_hand` | 2 seats, 1 hole card each, 1 board card, deck of 4, 2 permutations, 1 catch-up | `TypeOK`, `ReadIsRight`, `QuietDecks` |

Runs that show the code doing something other than what is written about it:

| Run | Shows |
|---|---|
| `pot_stall` | a seat that refuses to sign after a hand leaves the refund of the hand before (`pot.go:569`, against `src/README.md:20`) |
| `pot_decline` | a wallet declines a settlement that pays it what it recorded, because other seats' outputs exceed the fee bound (`verify.go:126`) |
| `deal_reused` | a restarted table reuses hand ids, so running wallets reuse a hand's secrets (`live.go:273`) |
| `relay_wait` | a call parked for a closed page waits for ever: the relay's deadline is set and never read (`relay.go:90`, against `relay.go:38`) |
| `peer_decks` | with every copy delivered once, a seat that gets the last shuffle after the last remask is left with another deck than the others (`hand.go:237`, against `hand_test.go:136-143`) |

What the runs show, beyond the tables:

* `SameFinalDeck`, that all seats end a deal between peers on one deck, is what the test expects and `peer_decks` refutes.
  `QuietDecks` says what holds instead of an undisturbed deal: seat 0 holds the final deck, any other seat that
  one or, when its copy of the last shuffle came after that of the last remask, the deck of that shuffle,
  because `SetDeck` does not ask how old a deck is.  `ReadIsRight` says that such a seat reads nothing rather than a wrong card.
* `ServedOnce` is a statement about one process.  Across a restart a copy inside the window is served
  again, although `docs/substrate-protocol.md:27-29` and `199-200` call a captured request single-use without that condition.
* `HandledPerReplay` bounds how often a message is handled: once for its publication and once for each
  catch-up whose requester lacked it.  Once would be what `session.go:270` says, and is not so.
* `ReplayCoversTail` speaks of replays that reached their requester whole.  One that breaks off, or whose
  lower copies are lost, leaves a gap below the mark that no later request asks for.
* `SessionMovesOn` has one exception, which is the code's: a deal that fails at a table for chips ends the loop with
  no stall recorded (`live.go:745`).

More disagreements between the code and what is written about it are in the models as the code has them and recorded as notes at their
hazards in `PROJECT.json`, without a run of their own:

* the heads-up hand in which the blinds put both seats all-in leaves nobody to act (`engine.go:253`, against `engine.go:517`);
* a replayed message is handled again, and a gap below the mark cannot be seen (`session.go:215`, against `session.go:270` and `27`);
* players are told `settled`, "Broadcast and spendable", after every hand with the pot unspent
  (`live.go:412,995`, against `live.go:410` and `moneystate.go:26`);
* the table is sent every hole card in clear by the wallet that reads it (`dealer.go:197-210`, against `dealer.go:33`);
* private reveals between peers are fanned out in clear (`hand.go:266`, against `messages.go:121-122`);
* a pot is made before its refund is signed and may be left without one (`pot.go:113`, against `src/README.md:26-28`);
* the nonce cache does not survive a restart (`auth.go:189`, as said above).

### Bounds, and why they are enough

* Engine: against blinds of 1 and 3 the five tables have seats all-in by their blind, exact calls, short all-ins and,
  where three stacks exceed the big blind, full raises and a reopened round.  They give up to
  four layers, odd chips, and a layer whose contributors have all folded while two live seats put in less and not the same.  A raise is bounded by the chips there are, so the model needs no further bound.
  Heads-up play, where the button posts the small blind, is in no run; the theorems are for any
  two to six seats, so only `HandEnds` is checked for four seats alone.
* Pot: the ladder admits one re-signing and then ends, so every refund race is between two refunds;
  with more, `LadderDescends` and `StaleRefundLoses` are proved for all ladders.  `MaxHeight` is the height
  at which every refund is final.  `ResultsOf6` has a chop, a split that
  goes on, and one that leaves a seat too little for the next blind; with a settlement fee of 3 the chop has no payout that can carry it; `ResultsOf4`, used where a refusal is
  the point, also busts a seat, whose wallet then refuses the refund that pays it nothing; `ResultsOf8` is used where both shares must exceed the fee bound.
* Deal: one restart, one abandoned call in flight, and two hand ids, so that a hand follows a
  retry.  All wallets draw one permutation, which moves every card; what matters of a draw, that its
  scalars are new, is kept by numbering draws.  With two permutations the run is too large; the proof of `DealtRight` covers any.
* Session: with two messages one can be lost, overtake the other, be replayed, or be the request that
  asks for the other; with two and a request, a replay can be partial and a private message lie between public ones.  `MCTableSession!Focus` keeps the
  run to these; the lifecycle is unbounded.  `MaxSent` bounds the sequence numbers a session gives out (guard of `Number`).
* Live table: two seats and a third player who may take one of them first; no bound on hands,
  requests or failures is needed, since the model is finite.
* Wallet gate: with a window of 1 a nonce is forgotten after 2, and the clock runs to 3, so a copy can arrive after its nonce is
  swept; three calls overfill a cache of two; two slots are the least for a race, and are symmetric.
* Peer hand: one undealt card, so that a deck and its permutations differ also where no one looks; two
  permutations that do not commute; one catch-up, which is enough to start a second chain.

No run checks deadlock: a hand ends, a session stops, and bounds run out.  That nothing stops early
is stated by `SomeoneActs`, `HandEnds`, `ExitEnds` and `SessionMovesOn`.

### Fairness

* `PokerEngine!Fairness`: a seat to act acts, and the table supplies a board or showdown it was asked
  for.  `HandEnds` needs it: play itself is up to the players, and the claim is that acting always leads to an end.
* `SessionPot!FairSpec`: the loop's goroutine takes the steps that are its own (`TableAlone`: a deal and the wait
  for arming have deadlines).  Nothing is
  assumed of a wallet that is asked to sign, because no deadline bounds that call (`relay_wait`); hence `ExitEnds` ends
  at the latest when the settlement is being signed.  Nor is anything assumed of pages, hands, crashes, blocks,
  or of a player who could broadcast a refund.
* `LiveTable!Spec`: the loop's own steps (`LocalStep`).  `SessionMovesOn` is therefore stated for behaviours in which
  the loop is not for ever inside a call (`[]<>~InCall`).
* `WalletGate!FairSpec`: a context that has a deadline ends, and the wallet serves what it took in.  Nothing is
  assumed of the page.

## 4. Proofs

Every theorem below holds for all values of the constants that satisfy the modules' assumptions; TLC evaluates those
assumptions on every run.  Each component has an inductive invariant or two, from which its theorems follow; each was
model-checked on the component's run before it was proved.

| Module | Invariant | Theorems |
|---|---|---|
| `PokerEngineProofs` | `EngineInv`, `RoundInv`, `PayInv`, `TurnInv` | `TypeOK`, `SeatAccounts`, `BoardMatchesStreet`, `SomeoneActs`, `StreetsMatched`, `RaisesAreFull`, `PotPaidExactly`, `SidePotsFair`, `HandShortens` |
| `SessionPotProofs` | `PotInv`, `EscrowInv` | `LadderDescends`, `DealtOnCurrentRefund`, `StaleRefundLoses`, `TypeOK`, `ImplementsEscrow` |
| `LiveTableProofs` | `LiveInv` | `TypeOK`, `PlayedOnPot`, `ShownTxidIsReal`, `NeverDowngraded` |
| `WalletGateProofs` | `GateInv` | `TypeOK`, `ServedOnce`, `AnsweredMeansServed`, `AbandonedStaysHome` |
| `TableSessionProofs` | `SessionInv` | `TypeOK`, `PrivateOnce`, `HandledPerReplay`, `HandledIsLogged`, `ReplayCoversTail`, `RosterFrozen` |
| `PeerHandProofs` | `PeerInv`, `ChainInv` | `TypeOK`, `ReadIsRight`, `QuietDecks` |
| `HandDealProofs` | `DealInv` | `TypeOK`, `DealtRight`, `DisclosuresOpenBoardOnly`, `CleanDealReads`, `HandsAreFresh` |
| `MaskedDeckProofs` | | lemmas about the deck, used by the two modules above |

**Engine.**  That a seat is to act after a street depends on which pause the hand is in, so `EngineInv` adds `Pauses`
(at most one pause; the pending street and card count belong to the current street; no one is to act while paused).
Lemmas follow the code: `Commit` keeps a seat's account, `NextAbleToAct` returns an able seat when there is one,
a layer's shares are natural numbers, and `Settle`, `NextStreet` and `Advance` each establish the
invariant for the state they end in.

`StreetsMatched` speaks of closed streets; `RoundInv` says what holds in the middle of one: nobody is past the bet, whoever has acted and
can still act has matched it, and whoever can still act has paid the most so far.  A raise moves the bet and takes everyone else's
mark, and the round closes only when the marks are back, so what each has paid in all is then the same.

`PayInv` adds that two seats are live until the hand is done, so that every layer has a winner.  `SeatSum` is written out for the
six seats the engine allows, so its laws (sums add, are monotone, and a table is summed by rows as by columns) need no
induction.  `LayersHold` says that the layers up to a commitment hold exactly what all seats put in up to it (from a least
counterexample, and the layer below it); `LayerPaid` that each layer is paid out whole, odd chips included.  Summed by
columns these give `PotPaidExactly`.  Summed by rows they give `SidePotsFair`: a seat has no share of a layer above its own commitment unless
no live seat reached it, and a seat that beats every live one has the whole of all the others.
The proof found that an earlier form of `SidePotsFair` was too strong: the layers above every live seat's commitment go to the
best live hand (`engine.go:627`), which may have put in less than another live seat, so a seat may take more than it contested.  `Orphaned`
now counts them.

`HandShortens` is what can be proved here of `HandEnds`: every step leaves fewer stages (streets, pauses, the showdown), or as many and fewer
chips behind, or as many of both and fewer seats to act.  `HandMeasured` bounds the first and the last and makes the chips a natural number,
so a hand of any seats, stacks and blinds has finitely many steps, whatever is played.  The last case needs that `advance` asks only seats
that have not acted, although `nextAbleToAct` does not look at the mark.  `TurnInv` says why: seen from the seat to act, the seats still to act come
before those that have acted.  A raise takes all other marks and so starts the order afresh at the raiser's left; a check, a call or a
fold moves the first seat to the end.  Without a raise the round closes when the order comes to a seat that has acted, and by `RoundInv` it is then matched.

**Pot.**  A refund is signed several steps after its lock height was chosen, so `PotInv` says phase by phase how the height being
signed relates to the newest refund (`LockByPhase`), that refunds are at least a step apart (`Ladder`), and that
pages and wallets know only refunds that exist (`KnownRefunds`).  For the refinement, `EscrowInv` adds that from the
exit on the settlement and the newest refund are made from the same balances (`ExitAgrees`), and that the pot is out while the
session runs (`PotIsOut`).  Then each step is mapped: the last signature of a refund is
`Agree`, the funding `Deposit`, a completed settlement `Settle`, a mined refund `FallBack`; every other step changes
nothing `Escrow` sees.  `PotConstants` says that a result splits the whole pot, which `ApplyHand` itself checks, and nothing
of how fees compare with balances.  That no amount falls below zero (`TypeOK`) is therefore the work of the two guards in the
code: `RefundFits` rests on the test of `buildSharedRefund`, `ReserveFits` on that of `reserveFee`, and both
on `FeeBearer`, that a seat with a largest balance can carry a fee that any seat can.

**Live table.**  `LiveInv` says for each place where the loop waits outside the lock what the requests coming in
meanwhile cannot change: the seats are fixed and equipped with wallets (`SeatsFixed`), which hand the loop is there for
(`LoopPlace`), and where the pot is (`PotPlace`).

**Wallet gate.**  A request that was let in is in the cache or too old for any thread to hold a copy that passed verification
(`SpentIsKnown`); to keep that, `Clocks` bounds how old a thread's reading of the clock may be.  This is where
`Ahead + MaxDelay <= MaxClockSkew` is used, and it cannot be weakened.

**Table session.**  The properties speak of what was handled, long after it was sent; `SessionInv` says how a number names one
message (`Numbering`) and what the copies in flight are copies of (`Flight`).  `Spent` says that of one copy of a message to one seat,
sent for its publication or for one catch-up, there is at most one: still on its way, with the handler, or handled.  From this
`HandledPerReplay` and `PrivateOnce` follow by counting copies.  `ReplayOwed` says what a whole replay has yet to deliver.

**Peer hand.**  A shuffled deck is a prefix of the chain of shuffles and bears the mask of the seat that shuffled it last; a remasked
one, even remasked twice or out of turn, has the cards of the last shuffle.  So a deck either opens to the right cards or, with that mask on, to nothing.

`QuietDecks` is about deals in which no one had to catch up.  There the turns form one chain, although copies arrive in any order
(a lost one stays in its inbox, and the deal with it): `ChainInv` says that some number `i` of the `2N` turns was taken, that every copy in flight or kept is one of their messages (`Posted`), and that
the next turn either waits for the one copy that calls for it or is being taken in the handler that took this copy out (`Underway`); seat 0 begins
the remask in two regions of its lock, which is two phases more.  So no turn is taken twice.  After the last turn a seat holds a deck that
it sent or received in one order or another, and `Settled` says which two are possible; that seat 0 has only one needs that it read
the last shuffle before it remasked.

**Coordinator's deal.**  Retries under the same hand id, late calls and restarts leave wallets with decks of earlier attempts.
`Origin(P, G, a, b, d)` says where a deck comes from: `a` seats shuffled it with the secrets `G`, and of these `b` remasked
it.  The secrets decide the cards (`P` being the permutations drawn with them) and the masks show which secrets were used, even
when a seat drew new ones in between.  `Provenance` says that every deck, the table's, the wallets' and those in late calls,
has such an origin, with secrets no newer than those the hand id has now.  A wallet that reads a card holds a
deck whose masks are exactly the scalars disclosed now (no newer) and these are no older than the deck's own, so the secrets are equal and so are the
cards: `DealtRight`.  `DisclosuresOpenBoardOnly` follows from `LearnedForm` (no seat has told a scalar of its own hole cards) and the masks,
`HandsAreFresh` from the numbering of the draws, and `CleanDealReads` from `Clean`, which says exactly which masks are on the
deck and which scalars have been told at each call of an undisturbed deal.
A first attempt at `HandsAreFresh` showed that the secrets of a played hand were read from the wallets after one of
them may have restarted; `used` now records them when each seat shuffles.

What a recursive function computes (`Order`, `AfterTurn`) is established by a least counterexample
(`LeastMember`), since induction theorems with a parameter cannot be instantiated.

Only model-checked: liveness (`HandEnds`, `ExitEnds`, `SessionMovesOn`), which the provers do not
reach.  Of `HandEnds` that leaves the step from a decreasing measure, and from `SomeoneActs`, to the end of the hand.

## 5. Not modelled

* Code that nothing in the program calls, only its own tests: `wallet/broadcast`, `wallet/potledger`, `LiveTable.Stall` and
  `SettleOnChain`, `MoneyTracker`'s `Settling`, `Stalled`, `PayoutReceived` and `Recovered`, `Server.Revoke`, the per-seat
  refund of `pot.go`, and the commitments of `HandPlayer` with their checks.  How it would interleave with the rest is
  for its future callers to decide.
* Hand ranking and cards (too many hands to enumerate; the engine model covers every ranking), curve
  arithmetic, proofs and signatures (cryptography).
* HTTP and wire formats, views, configuration, health, the one-off commands, and the TypeScript contracts.
* The limits of `agent/session.go` and the substrate's rate limiter: a refusal that may come at any time stands for both.
* A second session of a seat (`Session.Close` and reconnecting): only tests open sessions, one per seat and hand.

Two things are deliberately not claimed.  That a stake is always recovered: a pot whose opening refund is refused, or whose funding
fails after the wallet made it, has no refund (against `src/README.md:26-28`); nothing in the code broadcasts a recorded
refund, and a wallet that restarts has forgotten it.  And that hole cards stay secret: the table and, between peers,
every seat is sent what opens them, as listed in section 3.

## 6. Plan

Modelled, in this order because the pot is where money can be lost and its hands come from the engine: the engine, the
session pot and the escrow it implements, the coordinator's deal, the table protocol, the live table, the wallet gate, and
the deal between peers.  Then the proofs of section 4.  Left for later:

* a second session of one seat in TableSession, once the program opens one.
