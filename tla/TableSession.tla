---------------------------- MODULE TableSession ----------------------------
(***************************************************************************)
(* The peer-to-peer table protocol: the table's lifecycle                  *)
(* (protocol/table/table.go) and the sessions through which the seats      *)
(* exchange numbered messages and catch up on the ones they missed         *)
(* (protocol/table/session.go, messages.go), over a transport that hands   *)
(* each subscriber its own copy on its own goroutine and drops the copies  *)
(* of broken connections (transport/memory.go, websocket.go).              *)
(*                                                                         *)
(* Bodies are abstracted away, but for the marks a catch-up request        *)
(* carries.  Sessions publish under fresh ids only, so Dedup.FirstSeen     *)
(* holds of every copy.  LastSeen and the stall's wording are left out.    *)
(***************************************************************************)
EXTENDS Integers, Sequences, FiniteSets, FiniteSetsExt

CONSTANTS
    Players,      \* identity keys
    N,            \* Terms.Seats
    PublicKinds,  \* kinds sent to everyone
    PrivateKinds, \* kinds sent to one recipient
    MaxSent,      \* bound on the messages sent, by one seat and by all
    MaxServed     \* bound on the catch-up requests answered

MinSeats == 2
Seats == 0..(N - 1)
NoSeat == -1
Request == "catchUpRequest"

ASSUME SessionConstants ==
    /\ N \in MinSeats..6
    /\ MaxSent \in Nat \ {0}
    /\ MaxServed \in Nat
    /\ Request \notin PublicKinds \cup PrivateKinds

VARIABLES
    phase,      \* Table.phase
    roster,     \* Table.seats: who sits where, in seat order
    refundHeld, \* seats whose RefundHeld is set
    funded,     \* seats whose Funded is set
    stalledSeat,\* Table.stalledSeat
    sessions,   \* seats whose session is subscribed
    nextSeq,    \* Session.nextSeq of each seat
    unsent,     \* envelopes numbered and not yet logged and published
    log,        \* Session.log of each seat
    applied,    \* Session.applied: per seat, the highest sequence from each seat
    net,        \* copies the transport has yet to hand over
    admitted,   \* copies past onMessage's checks whose handler has not run
    requests,   \* catch-up requests a seat's handler was given
    handled,    \* history: how often each seat handled each copy of each message
    served      \* history: the catch-up requests answered

tableVars == <<phase, roster, refundHeld, funded, stalledSeat>>
sendVars == <<sessions, nextSeq, unsent, log>>
receiveVars == <<applied, net, admitted, requests>>
history == <<handled, served>>
vars == <<tableVars, sendVars, receiveVars, history>>

Taken == 0..(Len(roster) - 1)
Unbound == "any"

\* The phase a kind belongs to; hello, requests, acks and refusals have none.
PhaseFor(kind) ==
    CASE kind \in {"shuffle", "remask", "shuffleProof", "holeReveal"}  -> "dealing"
      [] kind \in {"action", "boardReveal", "showdownReveal"}          -> "betting"
      [] kind \in {"settlementProposal", "signature"}                  -> "settling"
      [] OTHER                                                         -> Unbound

\* Envelope.Private
Private(env) == env.to # NoSeat

-----------------------------------------------------------------------------
(* The table *)

NothingApplied == [s \in Seats |-> 0]

Init ==
    /\ phase = "open"
    /\ roster = <<>>
    /\ refundHeld = {}
    /\ funded = {}
    /\ stalledSeat = NoSeat
    /\ sessions = {}
    /\ nextSeq = [s \in Seats |-> 0]
    /\ unsent = {}
    /\ log = [s \in Seats |-> <<>>]
    /\ applied = [s \in Seats |-> NothingApplied]
    /\ net = {}
    /\ admitted = {}
    /\ requests = {}
    /\ handled = [s \in Seats |-> [o \in Seats |-> [q \in 1..MaxSent |-> [c \in 0..MaxServed |-> 0]]]]
    /\ served = {}

\* Mutant: the last seat is given away twice.
JoinOverfull(p) ==
    /\ phase = "open"
    /\ Len(roster) <= N
    /\ roster' = Append(roster, p)
    /\ UNCHANGED <<phase, refundHeld, funded, stalledSeat, sendVars, receiveVars, history>>

\* Mutant: a seat can be taken after the roster is closed.
JoinAnytime(p) ==
    /\ \A s \in Taken : roster[s + 1] # p
    /\ Len(roster) < N
    /\ roster' = Append(roster, p)
    /\ UNCHANGED <<phase, refundHeld, funded, stalledSeat, sendVars, receiveVars, history>>

\* One seat per identity, in order of arrival, while the table is open.
Join(p) ==
    /\ phase = "open"
    /\ \A s \in Taken : roster[s + 1] # p
    /\ Len(roster) < N
    /\ roster' = Append(roster, p)
    /\ UNCHANGED <<phase, refundHeld, funded, stalledSeat, sendVars, receiveVars, history>>

CloseRoster ==
    /\ phase = "open"
    /\ Len(roster) >= MinSeats
    /\ phase' = "funding"
    /\ UNCHANGED <<roster, refundHeld, funded, stalledSeat, sendVars, receiveVars, history>>

\* Marking a seat again changes nothing.
MarkRefundHeld(s) ==
    /\ s \notin refundHeld
    /\ refundHeld' = refundHeld \cup {s}
    /\ UNCHANGED <<phase, roster, funded, stalledSeat, sendVars, receiveVars, history>>

MarkFunded(s) ==
    /\ phase = "funding"
    /\ s \in refundHeld
    /\ s \notin funded
    /\ funded' = funded \cup {s}
    /\ UNCHANGED <<phase, roster, refundHeld, stalledSeat, sendVars, receiveVars, history>>

BeginDeal ==
    /\ phase = "funding"
    /\ Len(roster) >= MinSeats
    /\ funded = Taken
    /\ phase' = "dealing"
    /\ UNCHANGED <<roster, refundHeld, funded, stalledSeat, sendVars, receiveVars, history>>

\* The transitions Advance allows.  It tests nothing but the phases.
Allowed ==
    [open     |-> {"funding", "closed"},
     funding  |-> {"dealing", "stalled", "closed"},
     dealing  |-> {"betting", "stalled"},
     betting  |-> {"settling", "stalled"},
     settling |-> {"closed", "stalled"},
     stalled  |-> {"closed"},
     closed   |-> {}]

Advance(to) ==
    /\ to \in Allowed[phase]
    /\ phase' = to
    /\ UNCHANGED <<roster, refundHeld, funded, stalledSeat, sendVars, receiveVars, history>>

\* A stall overwrites whoever was blamed for one before.
Stall(s) ==
    /\ phase # "closed"
    /\ phase' = "stalled"
    /\ stalledSeat' = s
    /\ UNCHANGED <<roster, refundHeld, funded, sendVars, receiveVars, history>>

Close ==
    /\ phase # "closed"
    /\ phase' = "closed"
    /\ UNCHANGED <<roster, refundHeld, funded, stalledSeat, sendVars, receiveVars, history>>

-----------------------------------------------------------------------------
(* Sending *)

\* A seat subscribes, whatever the table is doing.
NewSession(s) ==
    /\ s \notin sessions
    /\ sessions' = sessions \cup {s}
    /\ UNCHANGED <<tableVars, nextSeq, unsent, log, receiveVars, history>>

\* sendTo, first lock: the message gets its number.
Number(s, kind, to, have) ==
    /\ s \in sessions
    /\ nextSeq[s] < MaxSent /\ MapThenSumSet(LAMBDA o : nextSeq[o], Seats) < MaxSent
    /\ nextSeq' = [nextSeq EXCEPT ![s] = @ + 1]
    /\ unsent' = unsent \cup {[kind |-> kind, seat |-> s, seq |-> nextSeq[s] + 1,
                               to |-> to, have |-> have]}
    /\ UNCHANGED <<tableVars, sessions, log, receiveVars, history>>

Send(s) == \E kind \in PublicKinds : Number(s, kind, NoSeat, NothingApplied)

SendPrivate(s) ==
    \E kind \in PrivateKinds, to \in Taken \ {s} : Number(s, kind, to, NothingApplied)

\* A seat says what it has: the highest sequence it applied of every seat.
RequestCatchUp(s) == Number(s, Request, NoSeat, applied[s])

\* The transport makes one copy per subscriber it reaches, the sender included.
Copies(e, reached, copy) == {[env |-> e, to |-> r, copy |-> copy] : r \in reached}

\* Mutant: the message is not kept for a later catch-up.
PublishUnlogged(env) ==
    /\ unsent' = unsent \ {env}
    /\ \E reached \in SUBSET sessions : net' = net \cup Copies(env, reached, 0)
    /\ UNCHANGED <<tableVars, sessions, nextSeq, log, applied, admitted, requests, history>>

\* sendTo, second lock and Publish.  A seat that is away or whose connection
\* breaks gets no copy, and if the publish fails nobody does.
Publish(env) ==
    /\ unsent' = unsent \ {env}
    /\ log' = [log EXCEPT ![env.seat] = Append(@, env)]
    /\ \E reached \in SUBSET sessions : net' = net \cup Copies(env, reached, 0)
    /\ UNCHANGED <<tableVars, sessions, nextSeq, applied, admitted, requests, history>>

-----------------------------------------------------------------------------
(* Receiving *)

\* What onMessage lets through: not a private message for another seat, and
\* nothing whose phase is not the table's at this moment.
Admits(d) ==
    /\ Private(d.env) => d.env.to = d.to
    /\ \/ PhaseFor(d.env.kind) \in {Unbound, phase}
       \/ d.env.kind = "boardReveal" /\ phase = "dealing"

\* onMessage up to the phase check, on the copy's own goroutine.
OnMessage(d) ==
    /\ net' = net \ {d}
    /\ admitted' = IF Admits(d) THEN admitted \cup {d} ELSE admitted
    /\ UNCHANGED <<tableVars, sendVars, applied, requests, history>>

\* The applied mark is a maximum.
Raise(old, seq) == IF seq > old THEN seq ELSE old

\* onMessage from the second lock on: the mark is raised, the handler runs.
Handle(d) ==
    /\ admitted' = admitted \ {d}
    /\ applied' = [applied EXCEPT ![d.to][d.env.seat] = Raise(@, d.env.seq)]
    /\ handled' = [handled EXCEPT ![d.to][d.env.seat][d.env.seq][d.copy] = @ + 1]
    /\ requests' = IF d.env.kind = Request /\ d.env.seat # d.to
                   THEN requests \cup {[by |-> d.to, from |-> d.env.seat, have |-> d.env.have, copy |-> d.copy]}
                   ELSE requests
    /\ UNCHANGED <<tableVars, sendVars, net, served>>

\* Mutant: the replay starts one message too late.
MissingLate(s, have) ==
    {log[s][i] : i \in {i \in 1..Len(log[s]) : log[s][i].seq > have + 1 /\ ~Private(log[s][i])}}

\* Mutant: the last message the requester has is replayed as well.
MissingAgain(s, have) ==
    {log[s][i] : i \in {i \in 1..Len(log[s]) : log[s][i].seq >= have /\ ~Private(log[s][i])}}

\* Mutant: private messages are replayed too.
MissingPrivate(s, have) ==
    {log[s][i] : i \in {i \in 1..Len(log[s]) : log[s][i].seq > have}}

\* A seat's own public messages above what the requester has.
Missing(s, have) ==
    {log[s][i] : i \in {i \in 1..Len(log[s]) : log[s][i].seq > have /\ ~Private(log[s][i])}}

\* ServeCatchUp, from the handler of a request: the missing messages are
\* published again one by one, under fresh ids.  Each of them reaches whom it
\* reaches, and an error ends the loop, so that the rest reach nobody.
ServeCatchUp(q) ==
    LET missing == Missing(q.by, q.have[q.by])
        copy == Cardinality(served) + 1
    IN /\ Cardinality(served) < MaxServed
       /\ requests' = requests \ {q}
       /\ \E reached \in [missing -> SUBSET sessions] :
             /\ net' = net \cup UNION {Copies(e, reached[e], copy) : e \in missing}
             /\ served' = served \cup {[by |-> q.by, from |-> q.from, have |-> q.have[q.by],
                                        logged |-> Len(log[q.by]), copy |-> copy,
                                        whole |-> \A e \in missing : q.from \in reached[e]]}
       /\ UNCHANGED <<tableVars, sendVars, applied, admitted, handled>>

-----------------------------------------------------------------------------
Phases == DOMAIN Allowed

TableStep ==
    \/ \E p \in Players : Join(p)
    \/ CloseRoster
    \/ \E s \in Taken : MarkRefundHeld(s) \/ MarkFunded(s)
    \/ BeginDeal
    \/ \E to \in Phases : Advance(to)
    \/ \E s \in Taken \cup {NoSeat} : Stall(s)
    \/ Close

SessionStep ==
    \/ \E s \in Taken : NewSession(s) \/ Send(s) \/ SendPrivate(s) \/ RequestCatchUp(s)
    \/ \E env \in unsent : Publish(env)
    \/ \E d \in net : OnMessage(d)
    \/ \E d \in admitted : Handle(d)
    \/ \E q \in requests : ServeCatchUp(q)

Next == TableStep \/ SessionStep

Spec == Init /\ [][Next]_vars

-----------------------------------------------------------------------------
(* Properties *)

Kinds == PublicKinds \cup PrivateKinds \cup {Request}
Envelopes ==
    [kind : Kinds, seat : Seats, seq : 1..MaxSent, to : Seats \cup {NoSeat},
     have : [Seats -> 0..MaxSent]]
InFlight == net \cup admitted

\* Type invariant of the table, the sessions and the copies in flight.
TypeOK ==
    /\ phase \in Phases
    /\ roster \in Seq(Players) /\ Len(roster) <= N
    /\ funded \subseteq refundHeld /\ refundHeld \subseteq Taken
    /\ stalledSeat \in Taken \cup {NoSeat}
    /\ sessions \subseteq Taken
    /\ nextSeq \in [Seats -> 0..MaxSent]
    /\ unsent \subseteq Envelopes
    /\ \A s \in Seats : log[s] \in Seq(Envelopes)
    /\ applied \in [Seats -> [Seats -> 0..MaxSent]]
    /\ \A d \in InFlight : d.env \in Envelopes /\ d.to \in Taken /\ d.copy \in 0..MaxServed
    /\ \A q \in requests : q.by \in Taken /\ q.from \in Taken

\* The seats are settled once the roster is closed, and a closed table stays
\* closed: their order is the pot script's key order, "so it must be stable"
\* (IdentityKeys), whatever Advance, Stall and Close do in between.
RosterFrozen ==
    [][/\ phase # "open" => roster' = roster /\ phase' # "open"
       /\ phase = "closed" => phase' = "closed"]_vars

Logged(o) == {log[o][i] : i \in 1..Len(log[o])}
HasHandled(r, o, n) == \E c \in 0..MaxServed : handled[r][o][n][c] > 0

\* A private message is handled by its recipient alone and at most once: no
\* catch-up hands it out again, to anybody (ServeCatchUp, onMessage).
PrivateOnce ==
    \A o \in Seats : \A e \in Logged(o) : Private(e) =>
        \A r \in Seats, c \in 0..MaxServed :
            handled[r][o][e.seq][c] <= IF r = e.to /\ c = 0 THEN 1 ELSE 0

\* A message is handled once for its publication and once more for each catch-up
\* whose requester had said it lacked it, and no oftener.  Nothing suppresses the
\* replayed copies at the seats that had the original, as ServeCatchUp's comment
\* says the marks do: this is what bounds how often a handler runs.
HandledPerReplay ==
    \A r, o \in Seats, n \in 1..MaxSent, c \in 0..MaxServed :
        /\ handled[r][o][n][c] <= 1
        /\ (handled[r][o][n][c] > 0 /\ c > 0) =>
              \E m \in served : m.copy = c /\ m.by = o /\ m.have < n

\* Whatever a seat handled of another, or names in its marks, the sender has in its
\* log under that number: a seat that asks for what is above its marks never asks
\* for less than the sender could replay (sendTo logs before it publishes).
HandledIsLogged ==
    \A r, o \in Seats : \A n \in 1..MaxSent :
        (applied[r][o] = n \/ HasHandled(r, o, n)) =>
            \E e \in Logged(o) : e.seq = n /\ (Private(e) => e.to = r)

\* A catch-up whose replay ran to its end and reached the requester whole is
\* complete: once no copy is on its way, the requester has handled every public
\* message, of a kind not tied to a phase, that the server had logged above the
\* mark in the request (ServeCatchUp "re-publishes this seat's own messages that
\* the requester is missing").  A replay that broke off leaves a gap which the
\* marks hide: what is below a mark is not asked for again.
ReplayCoversTail ==
    \A m \in served :
        (m.whole /\ \A d \in InFlight : d.to = m.from => d.env.seat # m.by) =>
            \A i \in 1..m.logged :
                LET e == log[m.by][i]
                IN (e.seq > m.have /\ ~Private(e) /\ PhaseFor(e.kind) = Unbound)
                      => HasHandled(m.from, m.by, e.seq)
=============================================================================
