------------------------------ MODULE PeerHand ------------------------------
(***************************************************************************)
(* A deal without any coordinator (protocol/table/hand.go): each seat runs *)
(* a HandPlayer over its session, takes its turn in the shuffle and in the *)
(* remask when it sees the seat before it take its own, and then tells the *)
(* others what they need to read their cards.  The handlers are wired as   *)
(* the package's tests wire them (hand_test.go runDeal).                   *)
(*                                                                         *)
(* The transport hands every copy of a message, the sender's own too, to a *)
(* goroutine of its own, so copies arrive in any order and handlers of one *)
(* seat overlap wherever they let go of its lock; a copy may be lost, and  *)
(* a seat that serves a catch-up request publishes what it sent again      *)
(* (module TableSession).  A disclosure only adds to what its recipient    *)
(* knows, whenever it arrives, so it is recorded when it is sent.          *)
(***************************************************************************)
EXTENDS MaskedDeck, Sequences, SequencesExt

CONSTANT MaxReplays  \* bound on the catch-ups served

ASSUME PeerConstants == MaxReplays \in Nat

VARIABLES
    perm,       \* HandPlayer.pendingPerm of each seat
    deck,       \* HandPlayer.deck
    disclosed,  \* HandPlayer.disclosed: the scalars each seat was told, per position
    jobs,       \* what the running handlers of each seat have yet to do
    log,        \* Session.log: the decks each seat has sent
    inbox,      \* copies on their way to each seat
    replays     \* how many catch-ups were served

vars == <<perm, deck, disclosed, jobs, log, inbox, replays>>

\* A seat draws its secrets once, so they are its first set.
Mine(s, p) == Own(s, 1, p)

Message(kind, s, d) == [kind |-> kind, seat |-> s, deck |-> d]
NoMessage == Message("none", 0, NoDeck)

Init ==
    /\ perm \in [Seats -> Perms]
    /\ deck = [s \in Seats |-> NoDeck]
    /\ disclosed = [s \in Seats |-> [p \in Positions |-> {}]]
    /\ jobs = [s \in Seats |-> {}]
    /\ log = [s \in Seats |-> <<>>]
    /\ inbox = [s \in Seats |-> {}]
    /\ replays = 0

\* Everybody gets a copy, the sender too.
Publish(ms) == inbox' = [r \in Seats |-> inbox[r] \cup ms]

-----------------------------------------------------------------------------
(* Taking a turn *)

\* Mutant: the permutation is drawn when it is applied.
ShuffledAfresh(s, d) == {ShuffleStep(d, s, 1, p) : p \in Perms}

\* contributeShuffle applies the permutation the seat drew and committed to.
Shuffled(s, d) == {ShuffleStep(d, s, 1, perm[s])}

\* Mutant: the loop over the deck ends one card early.
RemaskedShort(s, d) == {[p \in Positions \ {DeckSize - 1} |-> RemaskStep(d, s, 1)[p]]}

Remasked(s, d) == {RemaskStep(d, s, 1)}

Send(kind, s, d) == [do |-> "send", msg |-> Message(kind, s, d)]
ReadDeck == [do |-> "read", msg |-> NoMessage]
SetOut(s, d) == [do |-> "set", msg |-> Message("remask", s, d)]

\* The seat's own output becomes its deck, and is sent once the lock is free.
Contribute(kind, s, outs) ==
    \E out \in outs :
        /\ deck' = [deck EXCEPT ![s] = out]
        /\ jobs' = [jobs EXCEPT ![s] = @ \cup {Send(kind, s, out)}]

StartShuffle ==
    /\ log[0] = <<>> /\ jobs[0] = {}
    /\ Contribute("shuffle", 0, Shuffled(0, BaseDeck))
    /\ UNCHANGED <<perm, disclosed, log, inbox, replays>>

\* Mutant: the deck of the last remask is not recorded.
SetDeckOnce(s, d) == deck' = [deck EXCEPT ![s] = IF @ = NoDeck THEN d ELSE @]

SetDeck(s, d) == deck' = [deck EXCEPT ![s] = d]

\* The handler of KindShuffle: the last output is kept and has seat 0 start the
\* remask, the one of the seat before is shuffled on, any other is ignored.
OnShuffle(s, m) ==
    \/ /\ m.seat = N - 1
       /\ SetDeck(s, m.deck)
       /\ jobs' = [jobs EXCEPT ![s] = IF s = 0 THEN @ \cup {ReadDeck} ELSE @]
    \/ /\ m.seat # N - 1 /\ m.seat = s - 1
       /\ Contribute("shuffle", s, Shuffled(s, m.deck))
    \/ /\ m.seat # N - 1 /\ m.seat # s - 1
       /\ UNCHANGED <<deck, jobs>>

\* The handler of KindRemask.
OnRemask(s, m) ==
    \/ /\ m.seat = N - 1
       /\ SetDeck(s, m.deck)
       /\ UNCHANGED jobs
    \/ /\ m.seat # N - 1 /\ m.seat = s - 1
       /\ Contribute("remask", s, Remasked(s, m.deck))
    \/ /\ m.seat # N - 1 /\ m.seat # s - 1
       /\ UNCHANGED <<deck, jobs>>

\* A copy reaches its seat.
Receive(s, m) ==
    /\ inbox' = [inbox EXCEPT ![s] = @ \ {m}]
    /\ \/ m.kind = "shuffle" /\ OnShuffle(s, m)
       \/ m.kind = "remask" /\ OnRemask(s, m)
    /\ UNCHANGED <<perm, disclosed, log, replays>>

\* StartRemask reads the deck the handler has just set, or another handler since.
StartRemask(s, j) ==
    /\ j.do = "read"
    /\ jobs' = [jobs EXCEPT ![s] =
                   (@ \ {j}) \cup {SetOut(s, out) : out \in Remasked(s, deck[s])}]
    /\ UNCHANGED <<perm, deck, disclosed, log, inbox, replays>>

\* contributeRemask's second region, when seat 0 started the pass.
SetRemasked(s, j) ==
    /\ j.do = "set"
    /\ deck' = [deck EXCEPT ![s] = j.msg.deck]
    /\ jobs' = [jobs EXCEPT ![s] = (@ \ {j}) \cup {Send("remask", s, j.msg.deck)}]
    /\ UNCHANGED <<perm, disclosed, log, inbox, replays>>

\* Session.Send.
SendOut(s, j) ==
    /\ j.do = "send"
    /\ jobs' = [jobs EXCEPT ![s] = @ \ {j}]
    /\ log' = [log EXCEPT ![s] = Append(@, j.msg)]
    /\ Publish({j.msg})
    /\ UNCHANGED <<perm, deck, disclosed, replays>>

-----------------------------------------------------------------------------
(* Dealing the cards, and catching up *)

\* The last seat has remasked, so the deal's chain is complete.
Chained == \E i \in DOMAIN log[N - 1] : log[N - 1][i].kind = "remask"

\* RecordDisclosure at the seats in rs, of what s tells of the positions in pos;
\* nobody tells a thing twice.
Disclose(s, rs, pos) ==
    /\ \E r \in rs, p \in pos : Mine(s, p) \notin disclosed[r][p]
    /\ disclosed' = [r \in Seats |-> [p \in Positions |->
           IF r \in rs /\ p \in pos THEN disclosed[r][p] \cup {Mine(s, p)} ELSE disclosed[r][p]]]

\* A message addressed to the recipient.  Its scalars are in the clear and the
\* transport hands a copy to every seat (SendPrivate: "addressing alone is routing,
\* not confidentiality"); onMessage of the other seats drops theirs, so that only
\* the recipient's HandPlayer records them.  Hence disclosed is what the players
\* use, and no bound on what a seat could see.
RevealHoleTo(s, r) ==
    /\ Chained
    /\ r # s
    /\ Disclose(s, {r}, Hole(r))
    /\ UNCHANGED <<perm, deck, jobs, log, inbox, replays>>

\* After the hole cards, to everybody.
RevealBoard(s) ==
    /\ \A r \in Seats \ {s}, p \in Positions : p \in Hole(r) => Mine(s, p) \in disclosed[r][p]
    /\ Disclose(s, Seats, Board)
    /\ UNCHANGED <<perm, deck, jobs, log, inbox, replays>>

\* Card: the seat's own scalar and one of every other seat clear the position.
CanRead(s, p) ==
    /\ deck[s] # NoDeck
    /\ \A o \in Seats \ {s} : Mine(o, p) \in disclosed[s][p]
    /\ Readable(deck[s][p], {Mine(o, p) : o \in Seats})

\* ServeCatchUp: whatever the requester says it lacks goes out again, to
\* everybody and under new ids.
ServeCatchUp(s) ==
    /\ replays < MaxReplays
    /\ replays' = replays + 1
    /\ \E have \in 0..(Len(log[s]) - 1) : Publish(ToSet(SubSeq(log[s], have + 1, Len(log[s]))))
    /\ UNCHANGED <<perm, deck, disclosed, jobs, log>>

-----------------------------------------------------------------------------
JobStep(s, j) == StartRemask(s, j) \/ SetRemasked(s, j) \/ SendOut(s, j)

Next ==
    \/ StartShuffle
    \/ \E s \in Seats :
          \/ \E m \in inbox[s] : Receive(s, m)
          \/ \E j \in jobs[s] : JobStep(s, j)
          \/ \E r \in Seats : RevealHoleTo(s, r)
          \/ RevealBoard(s)
          \/ ServeCatchUp(s)

Spec == Init /\ [][Next]_vars

-----------------------------------------------------------------------------
(* Properties *)

\* Type invariant: every deck held or sent is a whole deck, and what a seat was
\* told of a position are scalars of that position.
TypeOK ==
    /\ perm \in [Seats -> Perms]
    /\ \A s \in Seats :
          /\ deck[s] = NoDeck \/ IsDeck(deck[s])
          /\ \A p \in Positions : disclosed[s][p] \subseteq {Mine(o, p) : o \in Seats}
          /\ \A m \in inbox[s] \cup ToSet(log[s]) :
                m.kind \in {"shuffle", "remask"} /\ m.seat \in Seats /\ IsDeck(m.deck)
          /\ \A j \in jobs[s] : j.do \in {"read", "set", "send"}
    /\ replays \in 0..MaxReplays

\* The deck after the first k turns: every seat shuffles, then every seat remasks.
AfterTurn[k \in 0..(2 * N)] ==
    IF k = 0 THEN BaseDeck
    ELSE IF k <= N THEN ShuffleStep(AfterTurn[k - 1], k - 1, 1, perm[k - 1])
    ELSE RemaskStep(AfterTurn[k - 1], k - 1 - N, 1)
AfterShuffles == AfterTurn[N]
FinalDeck == AfterTurn[2 * N]

\* A card that a seat can read is the one that the permutations all seats committed
\* to put there, so no two seats disagree on a card: whatever arrives late, out of
\* order or again, any other deck a seat may be left with opens to nothing (Card;
\* contributeShuffle: "The committed permutation, not a fresh one").
ReadIsRight ==
    \A s \in Seats, p \in Positions :
        CanRead(s, p) => deck[s][p].card = AfterShuffles[p].card

Quiet == \A s \in Seats : inbox[s] = {} /\ jobs[s] = {}

\* When a deal that nobody had to catch up on has come to rest, seat 0 holds the
\* final deck, and every other seat holds it too or, if its copy of the last
\* shuffle arrived after that of the last remask, the deck of that shuffle.  This
\* is what the handlers do guarantee; SameFinalDeck is what is expected of them.
QuietDecks ==
    (Quiet /\ Chained /\ replays = 0) =>
        /\ deck[0] = FinalDeck
        /\ \A s \in Seats : deck[s] \in {AfterShuffles, FinalDeck}

\* When a deal that nobody had to catch up on has come to rest, every seat holds
\* the same final deck (hand_test.go runDeal: "Every seat must now hold the same
\* final deck"; SetDeck: "records the final deck, once every seat has remasked").
\* The code does not keep it: SetDeck takes whatever deck comes last, and the last
\* shuffle's copy may come after the last remask's.
SameFinalDeck ==
    (Quiet /\ Chained /\ replays = 0) => \A s \in Seats : deck[s] = FinalDeck
=============================================================================
