------------------------------ MODULE HandDeal ------------------------------
(***************************************************************************)
(* The dealerless deal.  The table's coordinator (webui/dealer.go Deal)    *)
(* asks the seats' wallets one call at a time to commit, shuffle, remask,  *)
(* accept the final deck, disclose scalars and read cards.  Each wallet    *)
(* (agent/deal.go) keeps its secrets per hand id and its last deck; the    *)
(* hand id is the table's hand counter (webui/live.go handIDLocked).  A    *)
(* call travels through the player's page (webui/relay.go), so the table   *)
(* can give up on one that the wallet still receives later.                *)
(*                                                                         *)
(* A failed deal may be asked for again under the same hand id (Ready on a *)
(* table that plays for chips); a value table stops.                       *)
(***************************************************************************)
EXTENDS MaskedDeck, Sequences

CONSTANTS
    MaxHands,       \* bound on the hand counter
    MaxLate,        \* bound on abandoned calls still on their way
    MaxRestarts     \* bound on restarts of the table and the wallets

ASSUME DealConstants ==
    MaxHands \in Nat /\ MaxLate \in Nat /\ MaxRestarts \in Nat

VARIABLES
    st,        \* the hand: "none", "dealing", "playing" or "over"
    handNo,    \* LiveTable.handNo, which names the hand
    call,      \* the call Deal is waiting on
    deck,      \* the deck as the coordinator last received it
    shared,    \* scalars disclosed to the coordinator in this deal, per position
    cards,     \* the cards read so far, per position
    wallet,    \* each wallet's secrets per hand id (dealStore.hands)
    late,      \* calls the coordinator gave up on that a page still carries
    born,      \* how many sets of secrets each wallet has drawn
    restarts,  \* how many processes have restarted
    process,   \* how many of them were the table's
    learned,   \* history: scalars disclosed to this table process
    used,      \* history: the secrets each seat shuffled this deal with
    played,    \* history: the secrets each dealt hand was shuffled with
    disturbed  \* history: a call was abandoned or a wallet restarted

tableVars == <<st, handNo, call, deck, shared, cards>>
walletVars == <<wallet, born>>
history == <<learned, used, played, disturbed>>
vars == <<tableVars, walletVars, late, restarts, process, history>>

-----------------------------------------------------------------------------
(* The coordinator's calls, in order *)

Call(do, s) == [do |-> do, seat |-> s, to |-> 0, pos |-> 0]
Reveal(by, to) == [do |-> "reveal", seat |-> by, to |-> to, pos |-> 0]
ReadHole(s, p) == [do |-> "card", seat |-> s, to |-> s, pos |-> p]
ReadBoard(s, p) == [do |-> "board", seat |-> s, to |-> 0, pos |-> p]
NoCall == Call("none", 0)

\* Mutant: the disclosers start after the recipient.
FirstOtherAfter(s) == s + 1

\* The first seat that discloses to s.
FirstOther(s) == IF s = 0 THEN 1 ELSE 0
\* The seat after by that is not to; N or more when there is none.
NextOther(by, to) == IF by + 1 = to THEN by + 2 ELSE by + 1

\* Every seat commits, shuffles, remasks and takes the final deck; then for each
\* recipient the others disclose its positions and it reads its cards; then all
\* disclose the board, and seats 0 and 1 both read each board card.
Following(c) ==
    CASE c.do = "commit"  -> IF c.seat < N - 1 THEN Call("commit", c.seat + 1) ELSE Call("shuffle", 0)
      [] c.do = "shuffle" -> IF c.seat < N - 1 THEN Call("shuffle", c.seat + 1) ELSE Call("remask", 0)
      [] c.do = "remask"  -> IF c.seat < N - 1 THEN Call("remask", c.seat + 1) ELSE Call("final", 0)
      [] c.do = "final"   -> IF c.seat < N - 1 THEN Call("final", c.seat + 1) ELSE Reveal(FirstOther(0), 0)
      [] c.do = "reveal"  -> IF NextOther(c.seat, c.to) < N THEN Reveal(NextOther(c.seat, c.to), c.to)
                             ELSE ReadHole(c.to, c.to * HoleCards)
      [] c.do = "card"    -> IF c.pos + 1 \in Hole(c.to) THEN ReadHole(c.to, c.pos + 1)
                             ELSE IF c.to < N - 1 THEN Reveal(FirstOther(c.to + 1), c.to + 1)
                             ELSE Call("open", 0)
      [] c.do = "open"    -> IF c.seat < N - 1 THEN Call("open", c.seat + 1)
                             ELSE ReadBoard(0, BoardStart)
      [] c.do = "board"   -> IF c.seat = 0 THEN ReadBoard(1, c.pos)
                             ELSE IF c.pos + 1 \in Board THEN ReadBoard(0, c.pos + 1) ELSE NoCall

-----------------------------------------------------------------------------
(* The wallets *)

NoSecrets == [gen |-> 0, perm |-> CHOOSE p \in Perms : TRUE, deck |-> NoDeck]
Hands == 0..MaxHands
Secrets(s) == wallet[s][handNo]

\* begin: secrets are drawn once per hand id and returned as they are after.
Begin(s, h) ==
    IF wallet[s][h].gen # 0
    THEN UNCHANGED walletVars
    ELSE /\ born' = [born EXCEPT ![s] = @ + 1]
         /\ \E perm \in Perms :
               wallet' = [wallet EXCEPT ![s][h] =
                            [gen |-> born[s] + 1, perm |-> perm, deck |-> NoDeck]]

\* Mutant: the final deck is acknowledged and not recorded.
PassedFinalIgnored(c, d, w) ==
    CASE c.do = "shuffle" -> ShuffleStep(d, c.seat, w.gen, w.perm)
      [] c.do = "remask"  -> RemaskStep(d, c.seat, w.gen)
      [] c.do = "final"   -> w.deck

\* What a pass returns: the deck the wallet computes and remembers.
Passed(c, d, w) ==
    CASE c.do = "shuffle" -> ShuffleStep(d, c.seat, w.gen, w.perm)
      [] c.do = "remask"  -> RemaskStep(d, c.seat, w.gen)
      [] c.do = "final"   -> d

Passes == {"shuffle", "remask", "final"}

\* A wallet handles a call that changes its state, for hand h on deck d.
WalletHandles(c, h, d) ==
    \/ c.do = "commit" /\ Begin(c.seat, h)
    \/ /\ c.do \in Passes
       /\ wallet[c.seat][h].gen # 0
       /\ wallet' = [wallet EXCEPT ![c.seat][h].deck = Passed(c, d, wallet[c.seat][h])]
       /\ UNCHANGED born

\* handleDealCard: the wallet's own scalar and the ones it was given clear the card.
CanRead(c) ==
    /\ Secrets(c.seat).deck # NoDeck
    /\ Readable(Secrets(c.seat).deck[c.pos],
                {x \in shared[c.pos] : x[1] # c.seat} \cup {Own(c.seat, Secrets(c.seat).gen, c.pos)})

-----------------------------------------------------------------------------
(* The table *)

NoCards == [p \in Positions |-> -1]
NothingShared == [p \in Positions |-> {}]
NothingUsed == [s \in Seats |-> 0]

Init ==
    /\ st = "none"
    /\ handNo = 0
    /\ call = NoCall
    /\ deck = BaseDeck
    /\ shared = NothingShared
    /\ cards = NoCards
    /\ wallet = [s \in Seats |-> [h \in Hands |-> NoSecrets]]
    /\ late = {}
    /\ born = [s \in Seats |-> 0]
    /\ restarts = 0
    /\ process = 0
    /\ learned = {}
    /\ used = NothingUsed
    /\ played = <<>>
    /\ disturbed = FALSE

\* The locals of Deal are made anew.
BeginDeal ==
    /\ st' = "dealing"
    /\ call' = Call("commit", 0)
    /\ deck' = BaseDeck
    /\ shared' = NothingShared
    /\ cards' = NoCards
    /\ used' = NothingUsed

\* Deal returned, or never ran: what it had collected is gone.
NoHand ==
    /\ st' = "none"
    /\ call' = NoCall
    /\ deck' = BaseDeck
    /\ shared' = NothingShared
    /\ cards' = NoCards
    /\ used' = NothingUsed

\* Ready, StartFundedHand: dealLocked with no hand on the table.
StartDeal ==
    /\ st = "none"
    /\ BeginDeal
    /\ UNCHANGED <<handNo, walletVars, late, restarts, process, learned, played, disturbed>>

\* NextHand: the finished hand is cleared and the next one dealt.
NextHand ==
    /\ st = "over"
    /\ BeginDeal
    /\ UNCHANGED <<handNo, walletVars, late, restarts, process, learned, played, disturbed>>

\* The answered call was the last: the hand starts.
Proceed ==
    /\ call' = Following(call)
    /\ IF Following(call) = NoCall
       THEN /\ st' = "playing"
            /\ played' = Append(played, [table |-> process, gens |-> used])
       ELSE UNCHANGED <<st, played>>

\* Commit and the three passes change the wallet and, but for the final deck,
\* return what the coordinator goes on with.
PassAnswered ==
    /\ st = "dealing"
    /\ WalletHandles(call, handNo, deck)
    /\ deck' = IF call.do \in {"shuffle", "remask"} THEN wallet'[call.seat][handNo].deck ELSE deck
    /\ used' = IF call.do = "shuffle" THEN [used EXCEPT ![call.seat] = Secrets(call.seat).gen] ELSE used
    /\ Proceed
    /\ UNCHANGED <<handNo, shared, cards, late, restarts, process, learned, disturbed>>

\* Mutant: a seat discloses its own positions with the recipient's.
DisclosedToAll(c) == IF c.do = "reveal" THEN Hole(c.to) \cup Hole(c.seat) ELSE Board

\* The positions a disclosure names.
Disclosed(c) == IF c.do = "reveal" THEN Hole(c.to) ELSE Board

\* handleDealReveal: the scalars of the named positions, and no others.
RevealAnswered ==
    /\ st = "dealing"
    /\ call.do \in {"reveal", "open"}
    /\ Secrets(call.seat).gen # 0
    /\ LET told(p) == Own(call.seat, Secrets(call.seat).gen, p)
       IN /\ shared' = [p \in Positions |->
                           IF p \in Disclosed(call) THEN shared[p] \cup {told(p)} ELSE shared[p]]
          /\ learned' = learned \cup {told(p) : p \in Disclosed(call)}
    /\ Proceed
    /\ UNCHANGED <<handNo, deck, cards, walletVars, late, restarts, process, used, disturbed>>

\* handleDealCard answers; a board card is kept when the second seat agrees.
CardAnswered ==
    /\ st = "dealing"
    /\ call.do \in {"card", "board"}
    /\ CanRead(call)
    /\ LET card == Secrets(call.seat).deck[call.pos].card
       IN /\ call = ReadBoard(1, call.pos) => cards[call.pos] = card
          /\ cards' = [cards EXCEPT ![call.pos] = card]
    /\ Proceed
    /\ UNCHANGED <<handNo, deck, shared, walletVars, late, restarts, process, learned, used, disturbed>>

\* A call is refused, unanswered or timed out: Deal returns an error and no
\* hand starts.  The page may still be carrying the call.
CallFails ==
    /\ st = "dealing"
    /\ NoHand
    /\ \/ UNCHANGED late
       \/ /\ Cardinality(late) < MaxLate
          /\ call.do \in {"commit"} \cup Passes
          /\ late' = late \cup {[call |-> call, hand |-> handNo, deck |-> deck]}
    /\ disturbed' = TRUE
    /\ UNCHANGED <<handNo, walletVars, restarts, process, learned, played>>

\* A wallet receives a call nobody waits for any more; its reply goes nowhere.
LateArrives(m) ==
    /\ late' = late \ {m}
    /\ \/ WalletHandles(m.call, m.hand, m.deck)
       \/ UNCHANGED walletVars
    /\ UNCHANGED <<tableVars, restarts, process, history>>

\* Mutant: the hand counter stands still.
FinishHandUncounted ==
    /\ st = "playing"
    /\ st' = "over"
    /\ UNCHANGED <<handNo, call, deck, shared, cards, walletVars, late, restarts, process, history>>

\* finishHandLocked, once the betting ends.
FinishHand ==
    /\ st = "playing"
    /\ handNo < MaxHands
    /\ st' = "over"
    /\ handNo' = handNo + 1
    /\ UNCHANGED <<call, deck, shared, cards, walletVars, late, restarts, process, history>>

\* The table's process restarts: its state, the hand counter too, is in memory.
TableRestarts ==
    /\ restarts < MaxRestarts
    /\ restarts' = restarts + 1
    /\ process' = process + 1
    /\ NoHand
    /\ handNo' = 0
    /\ learned' = {}
    /\ disturbed' = TRUE
    /\ UNCHANGED <<walletVars, late, played>>

\* A wallet's process restarts: dealStore is in memory.
WalletRestarts(s) ==
    /\ restarts < MaxRestarts
    /\ restarts' = restarts + 1
    /\ wallet' = [wallet EXCEPT ![s] = [h \in Hands |-> NoSecrets]]
    /\ disturbed' = TRUE
    /\ UNCHANGED <<tableVars, late, born, process, learned, used, played>>

-----------------------------------------------------------------------------
DealStep == PassAnswered \/ RevealAnswered \/ CardAnswered \/ CallFails

Next ==
    \/ StartDeal
    \/ NextHand
    \/ DealStep
    \/ \E m \in late : LateArrives(m)
    \/ FinishHand
    \/ TableRestarts
    \/ \E s \in Seats : WalletRestarts(s)

Spec == Init /\ [][Next]_vars

-----------------------------------------------------------------------------
(* Properties *)

\* A wallet draws secrets at most once per hand id, and again after a restart.
MaxDrawn == (MaxHands + 1) * (MaxRestarts + 1)
Scalars == Seats \X (0..MaxDrawn) \X (0..DeckSize) \X {1, -1}
Kinds == {"none", "commit", "shuffle", "remask", "final", "reveal", "card", "open", "board"}

IsDealDeck(d) == IsDeck(d) /\ \A p \in Positions : d[p].masks \subseteq Scalars

\* Type invariant: every call is addressed to a seat and a position that exist,
\* and every deck is a whole deck.
TypeOK ==
    /\ st \in {"none", "dealing", "playing", "over"}
    /\ handNo \in Hands
    /\ call.do \in Kinds /\ call.seat \in Seats /\ call.to \in Seats /\ call.pos \in Positions
    /\ IsDealDeck(deck)
    /\ \A p \in Positions : shared[p] \subseteq Scalars /\ cards[p] \in Positions \cup {-1}
    /\ \A s \in Seats, h \in Hands :
          /\ wallet[s][h].gen \in 0..born[s]
          /\ wallet[s][h].deck = NoDeck \/ IsDealDeck(wallet[s][h].deck)
    /\ learned \subseteq Scalars

DealtPositions == Board \cup UNION {Hole(s) : s \in Seats}

\* A hand that starts has the right cards: what was read at each position is the
\* card that is there in the deck all seats contributed to, and no card is dealt
\* twice, whatever was retried, restarted or delivered late (Deal, handleDealCard).
DealtRight ==
    st \in {"playing", "over"} =>
        /\ \A p \in DealtPositions : cards[p] = deck[p].card
        /\ \A p, q \in DealtPositions : cards[p] = cards[q] => p = q
        /\ Cardinality(DealtPositions) = N * HoleCards + BoardCards

\* What the wallets disclose adds up to the board and no more: over all retries and
\* hands of one table process, a hole card or an undealt card of a deck that every
\* seat shuffled keeps a mask whose scalar no wallet disclosed (handleDealReveal
\* hands over one card's secret "without handing over the deck").  This is about
\* the disclosures alone.  The table does learn every hole card: its owner's answer
\* to dealCard carries it in clear (CardAnswered keeps it in `cards', as Deal does
\* in out.Hole), whatever the comments of dealer.go and deal.go say.
DisclosuresOpenBoardOnly ==
    (st # "none" /\ call.do \notin {"commit", "shuffle"}) =>
        \A p \in Positions \ Board : ~(deck[p].masks \subseteq learned)

\* While nothing is abandoned and no wallet restarts, no read is refused: after
\* the shuffles and remasks of all seats, the scalars disclosed and the reader's
\* own are exactly what masks the card (Deal steps 2 to 6).
CleanDealReads ==
    (st = "dealing" /\ call.do \in {"card", "board"} /\ ~disturbed) => CanRead(call)

\* Hands of one table process never share a seat's secrets, so no two of them are
\* dealt from the same shuffle (handIDLocked: "It must change every hand").
HandsAreFresh ==
    \A i, j \in 1..Len(played) :
        (i < j /\ played[i].table = played[j].table)
            => \A s \in Seats : played[i].gens[s] # played[j].gens[s]

\* What the hand id is for (handIDLocked: "It must change every hand"): no two
\* dealt hands use the same secrets of every seat.  The counter is in memory and
\* the table's id is fixed, so a restarted table names its first hand as before.
SecretsNeverReused ==
    \A i, j \in 1..Len(played) : played[i].gens = played[j].gens => i = j
=============================================================================
