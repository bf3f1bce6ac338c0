------------------------- MODULE TableSessionProofs -------------------------
(***************************************************************************)
(* What the table protocol promises, for any number of players, seats,     *)
(* kinds, messages and replays: the roster is frozen once closed, a        *)
(* private message is handled once and by its recipient alone, a message   *)
(* is handled once for its publication and once for each catch-up that     *)
(* asked for it, what was handled is in the sender's log, and a replay     *)
(* that arrives whole leaves nothing above the mark out.                   *)
(*                                                                         *)
(* The invariants speak of what was handled, and a copy is handled long    *)
(* after it was sent.  SessionInv says how a number names one message      *)
(* (Numbering), what the copies in flight are copies of (Flight), and      *)
(* that a copy once handled is not in flight any more (Spent).             *)
(***************************************************************************)
EXTENDS TableSession, FiniteSetTheorems, TLAPS

Deliveries == [env : Envelopes, to : Seats, copy : 0..MaxServed]
Demands == [by : Seats, from : Seats, have : [Seats -> 0..MaxSent], copy : 0..MaxServed]
Answers ==
    [by : Seats, from : Seats, have : 0..MaxSent, logged : Nat, copy : 0..MaxServed,
     whole : BOOLEAN]

\* The types the argument uses beside TypeOK.
SessionTypes ==
    /\ log \in [Seats -> Seq(Envelopes)]
    /\ net \subseteq Deliveries /\ admitted \subseteq Deliveries
    /\ requests \subseteq Demands
    /\ handled \in [Seats -> [Seats -> [1..MaxSent -> [0..MaxServed -> Nat]]]]
    /\ served \subseteq Answers /\ IsFiniteSet(served) /\ Cardinality(served) <= MaxServed
    /\ \A m \in served : m.copy <= Cardinality(served)

\* What a seat has numbered, published or not.
Sent(o) == {e \in unsent : e.seat = o} \cup Logged(o)

\* A number of a seat names one message, which is published at most once.
Numbering ==
    /\ \A e \in unsent : e.seat \in sessions
    /\ \A o \in Seats :
        /\ \A e \in Logged(o) : e.seat = o /\ e \notin unsent /\ o \in sessions
        /\ \A e \in Sent(o) : e.seq <= nextSeq[o]
        /\ \A e, f \in Sent(o) : e.seq = f.seq => e = f

\* Catch-up c was served by seat o for a requester that lacked message n.
Called(c, o, n) == \E m \in served : m.copy = c /\ m.by = o /\ m.have < n

\* Copies are of published messages and for subscribed seats; a replayed one is of
\* a public message that a catch-up asked for; one that was let in has left the
\* network, and a private one was let in by its recipient alone.
Flight ==
    /\ \A d \in InFlight :
        /\ d.to \in sessions /\ d.env \in Logged(d.env.seat)
        /\ d.copy <= Cardinality(served)
        /\ d.copy > 0 => Called(d.copy, d.env.seat, d.env.seq) /\ ~Private(d.env)
    /\ \A d \in admitted : d \notin net /\ (Private(d.env) => d.env.to = d.to)
    /\ \A q \in requests : q.by \in sessions /\ q.from \in sessions

\* The copy of message n of seat o to seat r that publication or catch-up c made.
IsCopy(d, r, o, n, c) == d.to = r /\ d.env.seat = o /\ d.env.seq = n /\ d.copy = c

\* A copy that was handled was handled once, is no longer in flight, and was one
\* that the message or a catch-up called for.
SpentCopy(r, o, n, c) ==
    /\ handled[r][o][n][c] <= 1
    /\ handled[r][o][n][c] > 0 =>
        /\ c <= Cardinality(served)
        /\ c > 0 => Called(c, o, n) /\ \A e \in Logged(o) : e.seq = n => ~Private(e)
        /\ \A d \in InFlight : ~IsCopy(d, r, o, n, c)

Spent == \A r, o \in Seats, n \in 1..MaxSent, c \in 0..MaxServed : SpentCopy(r, o, n, c)

\* What a whole replay owed its requester was handled or is on its way.
Owed(m) ==
    /\ m.logged <= Len(log[m.by])
    /\ m.whole => \A i \in 1..m.logged :
          LET e == log[m.by][i]
          IN (e.seq > m.have /\ ~Private(e) /\ PhaseFor(e.kind) = Unbound) =>
                \/ HasHandled(m.from, m.by, e.seq)
                \/ \E d \in InFlight : d.env = e /\ d.to = m.from

ReplayOwed == \A m \in served : Owed(m)

SessionInv ==
    /\ TypeOK
    /\ SessionTypes
    /\ Numbering
    /\ Flight
    /\ HandledIsLogged
    /\ Spent
    /\ ReplayOwed

-----------------------------------------------------------------------------
\* The bounds are natural numbers, and no seat is the mark of a public message.
LEMMA Bounds ==
    /\ N \in Nat /\ MaxSent \in Nat \ {0} /\ MaxServed \in Nat
    /\ Seats \subseteq Nat /\ NoSeat \notin Seats
  BY SessionConstants DEF MinSeats, Seats, NoSeat

\* The seats taken are seats of the table.
LEMMA TakenSeats ==
    ASSUME TypeOK
    PROVE  Taken \subseteq Seats /\ Len(roster) \in Nat
  BY Bounds DEF TypeOK, Taken, Seats

\* What the fields of an envelope are.
LEMMA EnvelopeType ==
    ASSUME NEW e \in Envelopes
    PROVE  /\ e.kind \in Kinds /\ e.seat \in Seats /\ e.seq \in 1..MaxSent /\ e.seq \in Nat
           /\ e.to \in Seats \cup {NoSeat} /\ e.have \in [Seats -> 0..MaxSent]
  BY Bounds DEF Envelopes

\* What a seat logged are envelopes.
LEMMA LoggedType ==
    ASSUME SessionTypes, NEW o \in Seats
    PROVE  Logged(o) \subseteq Envelopes /\ log[o] \in Seq(Envelopes) /\ Len(log[o]) \in Nat
  <1>1. log[o] \in Seq(Envelopes)
    BY DEF SessionTypes
  <1>2. \A i \in 1..Len(log[o]) : log[o][i] \in Envelopes
    BY <1>1
  <1> QED BY <1>1, <1>2 DEF Logged

\* How often a copy was handled is a number.
LEMMA HandledType ==
    ASSUME SessionTypes, NEW r \in Seats, NEW o \in Seats, NEW n \in 1..MaxSent
    PROVE  /\ handled[r] \in [Seats -> [1..MaxSent -> [0..MaxServed -> Nat]]]
           /\ handled[r][o] \in [1..MaxSent -> [0..MaxServed -> Nat]]
           /\ handled[r][o][n] \in [0..MaxServed -> Nat]
           /\ \A c \in 0..MaxServed : handled[r][o][n][c] \in Nat
  <1>1. handled \in [Seats -> [Seats -> [1..MaxSent -> [0..MaxServed -> Nat]]]]
    BY DEF SessionTypes
  <1>2. handled[r] \in [Seats -> [1..MaxSent -> [0..MaxServed -> Nat]]]
    BY <1>1
  <1>3. handled[r][o] \in [1..MaxSent -> [0..MaxServed -> Nat]]
    BY <1>2
  <1>4. handled[r][o][n] \in [0..MaxServed -> Nat]
    BY <1>3
  <1> QED BY <1>2, <1>3, <1>4

\* Copies of one message to one seat from one publication or catch-up are one copy.
LEMMA OneCopy ==
    ASSUME TypeOK, SessionTypes, Numbering, Flight, NEW d \in InFlight, NEW x \in InFlight,
           IsCopy(x, d.to, d.env.seat, d.env.seq, d.copy)
    PROVE  x = d
  <1>1. d \in Deliveries /\ x \in Deliveries
    BY DEF InFlight, SessionTypes
  <1>2. d.env.seat \in Seats
    BY <1>1, EnvelopeType DEF Deliveries
  <1>3. d.env \in Sent(d.env.seat) /\ x.env \in Sent(d.env.seat)
    BY DEF Flight, Sent, IsCopy
  <1>4. x.env = d.env
    BY <1>2, <1>3 DEF Numbering, IsCopy
  <1> QED BY <1>1, <1>4 DEF Deliveries, IsCopy

\* Adding one to one entry of a row of numbers.
LEMMA CountOneMore ==
    ASSUME NEW S, NEW f \in [S -> Nat], NEW n \in S
    PROVE  LET row == [f EXCEPT ![n] = @ + 1]
           IN /\ row \in [S -> Nat] /\ row[n] = f[n] + 1
              /\ \A q \in S : q # n => row[q] = f[q]
  OBVIOUS

\* The phases by name.
LEMMA PhaseNames ==
    Phases = {"open", "funding", "dealing", "betting", "settling", "stalled", "closed"}
  BY DEF Phases, Allowed

\* The phases and what follows them: none leads back to open, closed to none.
LEMMA AllowedPhases ==
    ASSUME NEW p \in Phases
    PROVE  /\ Allowed[p] \subseteq Phases
           /\ "open" \notin Allowed[p]
           /\ p = "closed" => Allowed[p] = {}
  <1>1. Phases = {"open", "funding", "dealing", "betting", "settling", "stalled", "closed"}
    BY PhaseNames
  <1>2. /\ Allowed["open"] = {"funding", "closed"}
        /\ Allowed["funding"] = {"dealing", "stalled", "closed"}
        /\ Allowed["dealing"] = {"betting", "stalled"}
        /\ Allowed["betting"] = {"settling", "stalled"}
        /\ Allowed["settling"] = {"closed", "stalled"}
        /\ Allowed["stalled"] = {"closed"}
        /\ Allowed["closed"] = {}
    BY DEF Allowed
  <1> QED BY <1>1, <1>2

\* The first state: nobody is seated and nothing was sent.
LEMMA InitSessionInv == Init => SessionInv
  <1> SUFFICES ASSUME Init PROVE SessionInv
    OBVIOUS
  <1>1. \A o \in Seats : log[o] = <<>> /\ Logged(o) = {}
    BY DEF Init, Logged
  <1>2. NothingApplied \in [Seats -> 0..MaxSent]
    BY Bounds DEF NothingApplied
  <1>3. IsFiniteSet(served) /\ Cardinality(served) = 0
    BY FS_EmptySet DEF Init
  <1>4. TypeOK
    <2>1. phase \in Phases
      BY PhaseNames DEF Init
    <2>2. roster \in Seq(Players) /\ Len(roster) <= N
      BY Bounds DEF Init
    <2>3. \A s \in Seats : log[s] \in Seq(Envelopes)
      <3>1. <<>> \in Seq(Envelopes)
        OBVIOUS
      <3> QED BY <1>1, <3>1
    <2>4. nextSeq \in [Seats -> 0..MaxSent] /\ applied \in [Seats -> [Seats -> 0..MaxSent]]
      BY <1>2, Bounds DEF Init
    <2> QED BY <2>1, <2>2, <2>3, <2>4 DEF Init, TypeOK, InFlight
  <1>5. SessionTypes
    <2>1. handled \in [Seats -> [Seats -> [1..MaxSent -> [0..MaxServed -> Nat]]]]
      BY DEF Init
    <2>2. log \in [Seats -> Seq(Envelopes)]
      BY DEF Init
    <2> QED BY <1>3, <2>1, <2>2, Bounds DEF Init, SessionTypes
  <1>6. Numbering
    BY <1>1 DEF Init, Numbering, Sent
  <1>7. Flight
    BY DEF Init, Flight, InFlight
  <1>8. \A r, o \in Seats, n \in 1..MaxSent, c \in 0..MaxServed :
           applied[r][o] = 0 /\ handled[r][o][n][c] = 0
    BY DEF Init, NothingApplied
  <1>9. HandledIsLogged /\ Spent /\ ReplayOwed
    <2>1. HandledIsLogged
      <3>1. \A r, o \in Seats, n \in 1..MaxSent : ~HasHandled(r, o, n)
        BY <1>8 DEF HasHandled
      <3>2. \A r, o \in Seats, n \in 1..MaxSent : applied[r][o] # n
        <4>1. \A r, o \in Seats : applied[r][o] = 0
          BY DEF Init, NothingApplied
        <4>2. \A n \in 1..MaxSent : n # 0
          BY Bounds
        <4> QED BY <4>1, <4>2
      <3> QED BY <3>1, <3>2 DEF HandledIsLogged
    <2>2. Spent
      BY <1>8 DEF Spent, SpentCopy
    <2> QED BY <2>1, <2>2 DEF Init, ReplayOwed
  <1> QED BY <1>4, <1>5, <1>6, <1>7, <1>9 DEF SessionInv

\* What was received and answered is judged by the logs, the copies in flight,
\* the marks and the counts: a step that leaves these alone keeps it true.
LEMMA SameReceived ==
    ASSUME UNCHANGED <<log, applied, net, admitted, handled, served>>, HandledIsLogged, Spent, ReplayOwed
    PROVE  HandledIsLogged' /\ Spent' /\ ReplayOwed'
  <1>1. /\ \A o : Logged(o)' = Logged(o)
        /\ InFlight' = InFlight
        /\ log' = log /\ applied' = applied /\ handled' = handled /\ served' = served
    BY DEF Logged, InFlight
  <1>2. HandledIsLogged'
    BY <1>1 DEF HandledIsLogged, HasHandled
  <1>3. Spent'
    BY <1>1 DEF Spent, SpentCopy, Called
  <1>4. ReplayOwed'
    <2>1. \A r, o, n : HasHandled(r, o, n)' <=> HasHandled(r, o, n)
      BY <1>1 DEF HasHandled
    <2> SUFFICES ASSUME NEW m \in served PROVE Owed(m)'
      BY <1>1 DEF ReplayOwed
    <2>2. Owed(m)
      BY DEF ReplayOwed
    <2> QED BY <1>1, <2>1, <2>2 DEF Owed
  <1> QED BY <1>2, <1>3, <1>4

\* The table's own steps leave the sessions alone; the roster only grows.
LEMMA TableStepSessionInv ==
    ASSUME SessionInv, TableStep
    PROVE  SessionInv'
  <1>1. TypeOK /\ SessionTypes /\ Numbering /\ Flight /\ HandledIsLogged /\ Spent /\ ReplayOwed
    BY DEF SessionInv
  <1>2. UNCHANGED <<sessions, nextSeq, unsent, log, applied, net, admitted, requests, handled, served>>
    BY DEF TableStep, Join, CloseRoster, MarkRefundHeld, MarkFunded, BeginDeal, Advance, Stall, Close,
           sendVars, receiveVars, history
  <1>3. /\ roster' \in Seq(Players) /\ Len(roster') <= N /\ Len(roster) <= Len(roster')
    <2>1. CASE \E p \in Players : Join(p)
      BY <1>1, <2>1, Bounds DEF Join, TypeOK
    <2>2. CASE UNCHANGED roster
      BY <1>1, <2>2, TakenSeats DEF TypeOK
    <2> QED BY <2>1, <2>2
      DEF TableStep, CloseRoster, MarkRefundHeld, MarkFunded, BeginDeal, Advance, Stall, Close
  <1>4. Taken \subseteq Taken'
    <2>1. Len(roster) \in Nat /\ Len(roster') \in Nat
      BY <1>1, <1>3, TakenSeats
    <2> QED BY <1>3, <2>1 DEF Taken
  <1>5. phase' \in Phases
    <2>1. CASE \E to \in Phases : Advance(to)
      BY <2>1 DEF Advance
    <2>2. CASE ~\E to \in Phases : Advance(to)
      <3>1. phase' \in {phase, "funding", "dealing", "stalled", "closed"}
        BY <2>2 DEF TableStep, Join, CloseRoster, MarkRefundHeld, MarkFunded, BeginDeal, Stall, Close
      <3> QED BY <1>1, <3>1, PhaseNames DEF TypeOK
    <2> QED BY <2>1, <2>2
  <1>6. funded' \subseteq refundHeld' /\ refundHeld' \subseteq Taken'
    BY <1>1, <1>4 DEF TableStep, Join, CloseRoster, MarkRefundHeld, MarkFunded, BeginDeal, Advance,
                      Stall, Close, TypeOK
  <1>7. stalledSeat' \in Taken' \cup {NoSeat}
    BY <1>1, <1>4 DEF TableStep, Join, CloseRoster, MarkRefundHeld, MarkFunded, BeginDeal, Advance,
                      Stall, Close, TypeOK
  <1>8. TypeOK'
    BY <1>1, <1>2, <1>3, <1>4, <1>5, <1>6, <1>7 DEF TypeOK, InFlight
  <1>9. \A o : Logged(o)' = Logged(o) /\ Sent(o)' = Sent(o)
    BY <1>2 DEF Logged, Sent
  <1>10. SessionTypes' /\ Numbering'
    BY <1>1, <1>2, <1>9 DEF SessionTypes, Numbering
  <1>11. Flight'
    BY <1>1, <1>2, <1>9 DEF Flight, InFlight, Called
  <1>12. HandledIsLogged' /\ Spent' /\ ReplayOwed'
    BY <1>1, <1>2, SameReceived
  <1> QED BY <1>8, <1>10, <1>11, <1>12 DEF SessionInv

\* A seat subscribes.
LEMMA NewSessionInv ==
    ASSUME SessionInv, NEW s \in Taken, NewSession(s)
    PROVE  SessionInv'
  <1>1. TypeOK /\ SessionTypes /\ Numbering /\ Flight /\ HandledIsLogged /\ Spent /\ ReplayOwed
    BY DEF SessionInv
  <1>2. /\ sessions' = sessions \cup {s}
        /\ UNCHANGED <<phase, roster, refundHeld, funded, stalledSeat, nextSeq, unsent, log, applied,
                       net, admitted, requests, handled, served>>
    BY DEF NewSession, tableVars, receiveVars, history
  <1>3. Taken' = Taken /\ \A o : Logged(o)' = Logged(o) /\ Sent(o)' = Sent(o)
    BY <1>2 DEF Taken, Logged, Sent
  <1>4. TypeOK'
    BY <1>1, <1>2, <1>3 DEF TypeOK, InFlight
  <1>5. SessionTypes' /\ Numbering'
    BY <1>1, <1>2, <1>3 DEF SessionTypes, Numbering
  <1>6. Flight'
    BY <1>1, <1>2, <1>3 DEF Flight, InFlight, Called
  <1>7. HandledIsLogged' /\ Spent' /\ ReplayOwed'
    BY <1>1, <1>2, SameReceived
  <1> QED BY <1>4, <1>5, <1>6, <1>7 DEF SessionInv

\* A message gets the next number of its seat, above all its earlier ones.
LEMMA NumberInv ==
    ASSUME SessionInv, NEW s \in Taken, NEW kind \in Kinds, NEW to \in Seats \cup {NoSeat},
           NEW have \in [Seats -> 0..MaxSent], Number(s, kind, to, have)
    PROVE  SessionInv'
  <1> DEFINE env == [kind |-> kind, seat |-> s, seq |-> nextSeq[s] + 1, to |-> to, have |-> have]
  <1>1. TypeOK /\ SessionTypes /\ Numbering /\ Flight /\ HandledIsLogged /\ Spent /\ ReplayOwed
    BY DEF SessionInv
  <1>2. /\ s \in sessions /\ nextSeq[s] < MaxSent
        /\ nextSeq' = [nextSeq EXCEPT ![s] = @ + 1]
        /\ unsent' = unsent \cup {env}
        /\ UNCHANGED <<phase, roster, refundHeld, funded, stalledSeat, sessions, log, applied,
                       net, admitted, requests, handled, served>>
    BY DEF Number, tableVars, receiveVars, history
  <1>3. s \in Seats /\ nextSeq[s] \in 0..MaxSent /\ nextSeq[s] + 1 \in 1..MaxSent
    <2>1. s \in Seats /\ nextSeq[s] \in 0..MaxSent
      BY <1>1, TakenSeats DEF TypeOK
    <2> QED BY <1>2, <2>1, Bounds
  <1>4. env \in Envelopes /\ env.seat = s /\ env.seq = nextSeq[s] + 1
    BY <1>3 DEF Envelopes
  <1> HIDE DEF env
  <1>5. /\ nextSeq' \in [Seats -> 0..MaxSent] /\ nextSeq'[s] = nextSeq[s] + 1
        /\ \A o \in Seats \ {s} : nextSeq'[o] = nextSeq[o]
    <2>1. nextSeq \in [Seats -> 0..MaxSent]
      BY <1>1 DEF TypeOK
    <2> QED BY <1>2, <1>3, <2>1, Bounds
  <1>6. /\ Taken' = Taken /\ \A o : Logged(o)' = Logged(o)
        /\ Sent(s)' = Sent(s) \cup {env}
        /\ \A o \in Seats \ {s} : Sent(o)' = Sent(o)
    BY <1>2, <1>4 DEF Taken, Logged, Sent
  <1>7. TypeOK'
    BY <1>1, <1>2, <1>4, <1>5, <1>6 DEF TypeOK, InFlight
  <1>8. SessionTypes'
    BY <1>1, <1>2 DEF SessionTypes
  <1>9. \A e \in Sent(s) : e.seq < env.seq
    <2> SUFFICES ASSUME NEW e \in Sent(s) PROVE e.seq < env.seq
      OBVIOUS
    <2>1. e \in Envelopes
      BY <1>1, <1>3, LoggedType DEF Sent, TypeOK
    <2>2. e.seq \in Nat /\ e.seq <= nextSeq[s]
      BY <1>1, <1>3, <2>1, EnvelopeType DEF Numbering
    <2> QED BY <1>3, <1>4, <2>2, Bounds
  <1>10. Numbering'
    <2>1. \A e \in unsent' : e.seat \in sessions'
      BY <1>1, <1>2, <1>4 DEF Numbering
    <2>2. ASSUME NEW o \in Seats, NEW e \in Logged(o)
          PROVE  e.seat = o /\ e \notin unsent' /\ o \in sessions'
      <3>1. e.seat = o /\ e \notin unsent /\ o \in sessions
        BY <1>1, <2>2 DEF Numbering
      <3>2. e # env
        <4>1. CASE o = s
          <5>1. e \in Sent(s) /\ e \in Envelopes
            BY <1>1, <2>2, <4>1, LoggedType DEF Sent
          <5>2. e.seq \in Nat
            BY <5>1, EnvelopeType
          <5> QED BY <1>9, <5>1, <5>2
        <4>2. CASE o # s
          BY <1>4, <3>1, <4>2
        <4> QED BY <4>1, <4>2
      <3> QED BY <1>2, <3>1, <3>2
    <2>3. ASSUME NEW o \in Seats, NEW e \in Sent(o)' PROVE e.seq <= nextSeq'[o]
      <3>1. CASE o = s
        <4>1. CASE e = env
          BY <1>3, <1>4, <1>5, <3>1, <4>1
        <4>2. CASE e # env
          <5>1. e \in Sent(s) /\ e \in Envelopes
            BY <1>1, <1>3, <1>6, <2>3, <3>1, <4>2, LoggedType DEF Sent, TypeOK
          <5>2. e.seq \in Nat
            BY <5>1, EnvelopeType
          <5> QED BY <1>3, <1>4, <1>5, <1>9, <3>1, <5>1, <5>2
        <4> QED BY <4>1, <4>2
      <3>2. CASE o # s
        BY <1>1, <1>5, <1>6, <2>3, <3>2 DEF Numbering
      <3> QED BY <3>1, <3>2
    <2>4. ASSUME NEW o \in Seats, NEW e \in Sent(o)', NEW f \in Sent(o)', e.seq = f.seq
          PROVE  e = f
      <3>1. CASE o = s
        <4>1. \A g \in Sent(s) : g.seq \in Nat /\ g.seq # env.seq
          <5> SUFFICES ASSUME NEW g \in Sent(s) PROVE g.seq \in Nat /\ g.seq # env.seq
            OBVIOUS
          <5>1. g \in Envelopes
            BY <1>1, <1>3, LoggedType DEF Sent, TypeOK
          <5>2. g.seq \in Nat
            BY <5>1, EnvelopeType
          <5> QED BY <1>3, <1>4, <1>9, <5>2
        <4>2. \A x, y \in Sent(s) : x.seq = y.seq => x = y
          BY <1>1, <1>3 DEF Numbering
        <4> QED BY <1>6, <2>4, <3>1, <4>1, <4>2
      <3>2. CASE o # s
        BY <1>1, <1>6, <2>4, <3>2 DEF Numbering
      <3> QED BY <3>1, <3>2
    <2> QED BY <1>6, <2>1, <2>2, <2>3, <2>4 DEF Numbering
  <1>11. Flight'
    BY <1>1, <1>2, <1>6 DEF Flight, InFlight, Called
  <1>12. HandledIsLogged' /\ Spent' /\ ReplayOwed'
    BY <1>1, <1>2, SameReceived
  <1> QED BY <1>7, <1>8, <1>10, <1>11, <1>12 DEF SessionInv

\* Publishing logs the message and makes at most one first copy per seat; nobody
\* has handled it, since its number was never published before.
LEMMA PublishInv ==
    ASSUME SessionInv, NEW env \in unsent, Publish(env)
    PROVE  SessionInv'
  <1> DEFINE s == env.seat
  <1>1. TypeOK /\ SessionTypes /\ Numbering /\ Flight /\ HandledIsLogged /\ Spent /\ ReplayOwed
    BY DEF SessionInv
  <1>2. /\ unsent' = unsent \ {env}
        /\ log' = [log EXCEPT ![s] = Append(@, env)]
        /\ UNCHANGED <<phase, roster, refundHeld, funded, stalledSeat, sessions, nextSeq, applied,
                       admitted, requests, handled, served>>
    BY DEF Publish, tableVars, history
  <1>3. PICK reached \in SUBSET sessions : net' = net \cup Copies(env, reached, 0)
    BY DEF Publish
  <1>4. env \in Envelopes /\ s \in Seats /\ env.seq \in 1..MaxSent /\ s \in sessions
    BY <1>1, EnvelopeType DEF TypeOK, Numbering
  <1> HIDE DEF s
  <1>5. /\ log' \in [Seats -> Seq(Envelopes)]
        /\ Len(log'[s]) = Len(log[s]) + 1 /\ Len(log[s]) \in Nat
        /\ \A i \in 1..Len(log[s]) : log'[s][i] = log[s][i]
        /\ log'[s][Len(log[s]) + 1] = env
        /\ \A o \in Seats \ {s} : log'[o] = log[o]
    <2>1. log[s] \in Seq(Envelopes) /\ log \in [Seats -> Seq(Envelopes)]
      BY <1>1, <1>4 DEF SessionTypes
    <2>2. Append(log[s], env) \in Seq(Envelopes)
      BY <1>4, <2>1
    <2>3. log'[s] = Append(log[s], env) /\ \A o \in Seats \ {s} : log'[o] = log[o]
      BY <1>2, <1>4, <2>1
    <2>4. log' \in [Seats -> Seq(Envelopes)]
      BY <1>2, <1>4, <2>1, <2>2
    <2> QED BY <1>4, <2>1, <2>3, <2>4
  <1>6. /\ Logged(s)' = Logged(s) \cup {env}
        /\ \A o \in Seats \ {s} : Logged(o)' = Logged(o)
    <2>1. ASSUME NEW e \in Logged(s)' PROVE e \in Logged(s) \cup {env}
      <3>1. PICK i \in 1..Len(log'[s]) : e = log'[s][i]
        BY <2>1 DEF Logged
      <3>2. i \in 1..Len(log[s]) \/ i = Len(log[s]) + 1
        BY <1>5
      <3>3. CASE i \in 1..Len(log[s])
        BY <1>5, <3>1, <3>3 DEF Logged
      <3>4. CASE i = Len(log[s]) + 1
        BY <1>5, <3>1, <3>4
      <3> QED BY <3>2, <3>3, <3>4
    <2>2. Logged(s) \cup {env} \subseteq Logged(s)'
      <3>1. env \in Logged(s)'
        <4>1. Len(log[s]) + 1 \in 1..Len(log'[s]) /\ log'[s][Len(log[s]) + 1] = env
          BY <1>5
        <4> QED BY <4>1 DEF Logged
      <3>2. ASSUME NEW e \in Logged(s) PROVE e \in Logged(s)'
        <4>1. PICK i \in 1..Len(log[s]) : e = log[s][i]
          BY <3>2 DEF Logged
        <4>2. i \in 1..Len(log'[s]) /\ e = log'[s][i]
          BY <1>5, <4>1
        <4> QED BY <4>2 DEF Logged
      <3> QED BY <3>1, <3>2
    <2>3. Logged(s)' = Logged(s) \cup {env}
      <3> HIDE DEF Logged
      <3> QED BY <2>1, <2>2
    <2>4. \A o \in Seats \ {s} : Logged(o)' = Logged(o)
      BY <1>5 DEF Logged
    <2> QED BY <2>3, <2>4
  <1>7. Taken' = Taken
    BY <1>2 DEF Taken
  <1>8. \A d \in Copies(env, reached, 0) :
           /\ d \in Deliveries /\ d.env = env /\ d.to \in sessions /\ d.copy = 0
    <2>1. sessions \subseteq Seats /\ 0 \in 0..MaxServed
      BY <1>1, TakenSeats, Bounds DEF TypeOK
    <2> QED BY <1>4, <2>1 DEF Copies, Deliveries
  <1> DEFINE new == Copies(env, reached, 0)
  <1> HIDE DEF new
  <1>9. InFlight' = InFlight \cup new
    BY <1>2, <1>3 DEF InFlight, new
  <1>10. SessionTypes'
    BY <1>1, <1>2, <1>3, <1>5, <1>8 DEF SessionTypes
  <1>11. TypeOK'
    <2>1. \A d \in new : d.env \in Envelopes /\ d.to \in Taken /\ d.copy \in 0..MaxServed
      <3>1. sessions \subseteq Taken /\ 0 \in 0..MaxServed
        BY <1>1, Bounds DEF TypeOK
      <3> QED BY <1>4, <1>8, <3>1 DEF new
    <2> QED BY <1>1, <1>2, <1>5, <1>7, <1>9, <2>1 DEF TypeOK
  <1>12. env \notin Logged(s) /\ env \in Sent(s)
    BY <1>1, <1>4 DEF Numbering, Sent, s
  <1>13. Numbering'
    <2>1. \A o \in Seats : Sent(o)' \subseteq Sent(o)
      BY <1>2, <1>6, <1>12 DEF Sent
    <2>2. \A o \in Seats : \A e \in Logged(o)' : e.seat = o /\ e \notin unsent' /\ o \in sessions'
      BY <1>1, <1>2, <1>4, <1>6 DEF Numbering, s
    <2> QED BY <1>1, <1>2, <2>1, <2>2 DEF Numbering
  <1>14. Flight'
    <2>1. \A d \in InFlight : d.env.seat \in Seats
      BY <1>1, EnvelopeType DEF TypeOK
    <2>2. \A d \in InFlight' : d.to \in sessions' /\ d.env \in Logged(d.env.seat)'
      BY <1>1, <1>2, <1>6, <1>8, <1>9, <2>1 DEF Flight, new, s
    <2>3. \A d \in InFlight' :
             /\ d.copy <= Cardinality(served)
             /\ d.copy > 0 => Called(d.copy, d.env.seat, d.env.seq) /\ ~Private(d.env)
      <3>1. Cardinality(served) \in Nat
        BY <1>1, FS_CardinalityType DEF SessionTypes
      <3>2. \A d \in new : d.copy <= Cardinality(served) /\ ~(d.copy > 0)
        BY <1>8, <3>1 DEF new
      <3> QED BY <1>1, <1>9, <3>2 DEF Flight
    <2>4. \A d \in admitted : d.env # env
      BY <1>1, <1>12 DEF Flight, InFlight, s
    <2>5. \A d \in admitted' : d \notin net' /\ (Private(d.env) => d.env.to = d.to)
      BY <1>1, <1>2, <1>3, <1>8, <2>4 DEF Flight
    <2> QED BY <1>1, <1>2, <2>2, <2>3, <2>5 DEF Flight, Called
  <1>15. HandledIsLogged'
    <2>1. \A o \in Seats : Logged(o) \subseteq Logged(o)'
      BY <1>6
    <2> QED BY <1>1, <1>2, <2>1 DEF HandledIsLogged, HasHandled
  <1>16. ASSUME NEW r \in Seats, NEW c \in 0..MaxServed PROVE handled[r][s][env.seq][c] = 0
    <2>1. handled[r][s][env.seq][c] \in Nat
      BY <1>1, <1>4, HandledType
    <2>2. \A e \in Logged(s) : e.seq # env.seq
      <3>1. \A e \in Logged(s) : e \in Sent(s)
        BY DEF Sent
      <3> QED BY <1>1, <1>4, <1>12, <3>1 DEF Numbering
    <2>3. ~(handled[r][s][env.seq][c] > 0)
      BY <1>1, <1>4, <2>2 DEF HandledIsLogged, HasHandled
    <2> QED BY <2>1, <2>3
  <1>17. Spent'
    <2> SUFFICES ASSUME NEW r \in Seats, NEW o \in Seats, NEW n \in 1..MaxSent, NEW c \in 0..MaxServed
                 PROVE  SpentCopy(r, o, n, c)'
      BY DEF Spent
    <2>1. CASE o = s /\ n = env.seq
      <3>1. handled'[r][o][n][c] = 0
        BY <1>2, <1>16, <2>1
      <3> QED BY <3>1 DEF SpentCopy
    <2>2. CASE ~(o = s /\ n = env.seq)
      <3>1. SpentCopy(r, o, n, c)
        BY <1>1 DEF Spent
      <3>2. \A e \in Logged(o)' : e.seq = n => e \in Logged(o)
        BY <1>6, <2>2
      <3>3. \A d \in InFlight' : IsCopy(d, r, o, n, c) => d \in InFlight
        BY <1>8, <1>9, <2>2 DEF new, IsCopy, s
      <3>4. Called(c, o, n)' <=> Called(c, o, n)
        BY <1>2 DEF Called
      <3> QED BY <1>2, <3>1, <3>2, <3>3, <3>4 DEF SpentCopy, IsCopy
    <2> QED BY <2>1, <2>2
  <1>18. ReplayOwed'
    <2> SUFFICES ASSUME NEW m \in served PROVE Owed(m)'
      BY <1>2 DEF ReplayOwed
    <2>1. m.by \in Seats /\ m.logged \in Nat /\ Owed(m) /\ m.logged <= Len(log[m.by])
      BY <1>1 DEF SessionTypes, Answers, ReplayOwed, Owed
    <2>2. Len(log[m.by]) \in Nat /\ Len(log[m.by]) <= Len(log'[m.by])
          /\ \A i \in 1..Len(log[m.by]) : log'[m.by][i] = log[m.by][i]
      <3>1. Len(log[m.by]) \in Nat
        BY <1>1, <2>1, LoggedType
      <3> QED BY <1>5, <2>1, <3>1
    <2>3. \A i \in 1..m.logged : log'[m.by][i] = log[m.by][i]
      BY <2>1, <2>2
    <2>4. m.logged <= Len(log'[m.by])
      <3>1. Len(log'[m.by]) \in Nat
        BY <1>5, <2>1
      <3> QED BY <2>1, <2>2, <3>1
    <2>5. InFlight \subseteq InFlight'
      BY <1>9
    <2> QED BY <1>2, <2>1, <2>3, <2>4, <2>5 DEF Owed, HasHandled
  <1> QED BY <1>10, <1>11, <1>13, <1>14, <1>15, <1>17, <1>18 DEF SessionInv

\* A copy is let in or dropped; one that a replay owes is let in.
LEMMA OnMessageInv ==
    ASSUME SessionInv, NEW d \in net, OnMessage(d)
    PROVE  SessionInv'
  <1>1. TypeOK /\ SessionTypes /\ Numbering /\ Flight /\ HandledIsLogged /\ Spent /\ ReplayOwed
    BY DEF SessionInv
  <1>2. /\ net' = net \ {d}
        /\ admitted' = IF Admits(d) THEN admitted \cup {d} ELSE admitted
        /\ UNCHANGED <<phase, roster, refundHeld, funded, stalledSeat, sessions, nextSeq, unsent, log,
                       applied, requests, handled, served>>
    BY DEF OnMessage, tableVars, sendVars, history
  <1>3. Taken' = Taken /\ \A o : Logged(o)' = Logged(o) /\ Sent(o)' = Sent(o)
    BY <1>2 DEF Taken, Logged, Sent
  <1>4. InFlight' \subseteq InFlight /\ InFlight \ {d} \subseteq InFlight'
        /\ (Admits(d) => d \in InFlight')
    BY <1>2 DEF InFlight
  <1>5. TypeOK'
    BY <1>1, <1>2, <1>3, <1>4 DEF TypeOK
  <1>6. SessionTypes' /\ Numbering'
    BY <1>1, <1>2, <1>3 DEF SessionTypes, Numbering
  <1>7. Flight'
    <2>1. Admits(d) /\ Private(d.env) => d.env.to = d.to
      BY DEF Admits
    <2>2. \A x \in admitted' : x \notin net' /\ (Private(x.env) => x.env.to = x.to)
      BY <1>1, <1>2, <2>1 DEF Flight
    <2> QED BY <1>1, <1>2, <1>3, <1>4, <2>2 DEF Flight, Called
  <1>8. HandledIsLogged' /\ Spent'
    <2>1. HandledIsLogged'
      BY <1>1, <1>2, <1>3 DEF HandledIsLogged, HasHandled
    <2>2. Spent'
      BY <1>1, <1>2, <1>3, <1>4 DEF Spent, SpentCopy, Called
    <2> QED BY <2>1, <2>2
  <1>9. ReplayOwed'
    <2>1. ~Private(d.env) /\ PhaseFor(d.env.kind) = Unbound => d \in InFlight'
      BY <1>4 DEF Admits
    <2> SUFFICES ASSUME NEW m \in served PROVE Owed(m)'
      BY <1>2 DEF ReplayOwed
    <2>2. Owed(m)
      BY <1>1 DEF ReplayOwed
    <2>3. \A x \in InFlight : x \in InFlight' \/ x = d
      BY <1>4
    <2> QED BY <1>2, <2>1, <2>2, <2>3 DEF Owed, HasHandled
  <1> QED BY <1>5, <1>6, <1>7, <1>8, <1>9 DEF SessionInv

\* The handler runs: the mark is raised to the message, and the copy, which is the
\* only one of its kind in flight, is counted and gone.
LEMMA HandleInv ==
    ASSUME SessionInv, NEW d \in admitted, Handle(d)
    PROVE  SessionInv'
  <1> DEFINE r == d.to
             o == d.env.seat
             n == d.env.seq
             k == d.copy
             old == applied[r][o]
  <1>1. TypeOK /\ SessionTypes /\ Numbering /\ Flight /\ HandledIsLogged /\ Spent /\ ReplayOwed
    BY DEF SessionInv
  <1>2. /\ admitted' = admitted \ {d}
        /\ applied' = [applied EXCEPT ![r][o] = Raise(@, n)]
        /\ handled' = [handled EXCEPT ![r][o][n][k] = @ + 1]
        /\ requests' = IF d.env.kind = Request /\ o # r
                       THEN requests \cup {[by |-> r, from |-> o, have |-> d.env.have, copy |-> k]}
                       ELSE requests
        /\ UNCHANGED <<phase, roster, refundHeld, funded, stalledSeat, sessions, nextSeq, unsent, log,
                       net, served>>
    BY DEF Handle, tableVars, sendVars
  <1>3. /\ d \in InFlight /\ d.env \in Envelopes /\ r \in Seats /\ r \in Taken /\ k \in 0..MaxServed
        /\ o \in Seats /\ n \in 1..MaxSent /\ n \in Nat /\ d.env.have \in [Seats -> 0..MaxSent]
        /\ d.env \in Logged(o)
    <2>1. d \in InFlight /\ d.env \in Envelopes /\ r \in Taken /\ k \in 0..MaxServed
      BY <1>1 DEF InFlight, TypeOK
    <2> QED BY <1>1, <2>1, EnvelopeType, TakenSeats DEF Flight
  <1>4. r \in sessions /\ o \in sessions /\ o \in Taken
    BY <1>1, <1>3 DEF Flight, Numbering, TypeOK
  <1> HIDE DEF r, o, n, k
  <1>5. /\ applied' \in [Seats -> [Seats -> 0..MaxSent]]
        /\ old \in 0..MaxSent /\ old \in Nat
        /\ applied'[r][o] = Raise(old, n)
        /\ \A x, y \in Seats : ~(x = r /\ y = o) => applied'[x][y] = applied[x][y]
    <2>1. applied \in [Seats -> [Seats -> 0..MaxSent]]
      BY <1>1 DEF TypeOK
    <2>2. old \in 0..MaxSent /\ old \in Nat
      BY <1>3, <2>1, Bounds
    <2>3. Raise(old, n) \in 0..MaxSent
      BY <1>3, <2>2, Bounds DEF Raise
    <2> QED BY <1>2, <1>3, <2>1, <2>2, <2>3
  <1>6. /\ handled' \in [Seats -> [Seats -> [1..MaxSent -> [0..MaxServed -> Nat]]]]
        /\ handled[r][o][n][k] \in Nat
        /\ handled'[r][o][n][k] = handled[r][o][n][k] + 1
        /\ \A x, y \in Seats, q \in 1..MaxSent, c \in 0..MaxServed :
              ~(x = r /\ y = o /\ q = n /\ c = k) => handled'[x][y][q][c] = handled[x][y][q][c]
    <2> DEFINE cell == [handled[r][o][n] EXCEPT ![k] = @ + 1]
               row == [handled[r][o] EXCEPT ![n] = cell]
               rows == [handled[r] EXCEPT ![o] = row]
    <2>1. handled \in [Seats -> [Seats -> [1..MaxSent -> [0..MaxServed -> Nat]]]]
      BY <1>1 DEF SessionTypes
    <2>2. /\ handled[r] \in [Seats -> [1..MaxSent -> [0..MaxServed -> Nat]]]
          /\ handled[r][o] \in [1..MaxSent -> [0..MaxServed -> Nat]]
          /\ handled[r][o][n] \in [0..MaxServed -> Nat] /\ handled[r][o][n][k] \in Nat
      BY <1>1, <1>3, HandledType
    <2>3. /\ cell \in [0..MaxServed -> Nat] /\ cell[k] = handled[r][o][n][k] + 1
          /\ \A c \in 0..MaxServed : c # k => cell[c] = handled[r][o][n][c]
      <3>1. k \in 0..MaxServed
        BY <1>3
      <3> QED BY <2>2, <3>1, CountOneMore
    <2>4. handled' = [handled EXCEPT ![r] = rows]
      BY <1>2, Zenon
    <2> HIDE DEF cell
    <2>5. /\ row \in [1..MaxSent -> [0..MaxServed -> Nat]] /\ row[n] = cell
          /\ \A q \in 1..MaxSent : q # n => row[q] = handled[r][o][q]
      BY <1>3, <2>2, <2>3
    <2> HIDE DEF row
    <2>6. /\ rows \in [Seats -> [1..MaxSent -> [0..MaxServed -> Nat]]] /\ rows[o] = row
          /\ \A y \in Seats : y # o => rows[y] = handled[r][y]
      BY <1>3, <2>2, <2>5
    <2> HIDE DEF rows
    <2>7. /\ handled' \in [Seats -> [Seats -> [1..MaxSent -> [0..MaxServed -> Nat]]]]
          /\ handled'[r] = rows
          /\ \A x \in Seats : x # r => handled'[x] = handled[x]
      BY <1>3, <2>1, <2>4, <2>6
    <2>8. handled'[r][o][n][k] = handled[r][o][n][k] + 1
      BY <2>3, <2>5, <2>6, <2>7
    <2>9. ASSUME NEW x \in Seats, NEW y \in Seats, NEW q \in 1..MaxSent, NEW c \in 0..MaxServed,
                 ~(x = r /\ y = o /\ q = n /\ c = k)
          PROVE  handled'[x][y][q][c] = handled[x][y][q][c]
      <3>1. CASE x # r
        BY <2>7, <3>1
      <3>2. CASE x = r /\ y # o
        BY <2>6, <2>7, <3>2
      <3>3. CASE x = r /\ y = o /\ q # n
        BY <2>5, <2>6, <2>7, <3>3
      <3>4. CASE x = r /\ y = o /\ q = n
        BY <2>3, <2>5, <2>6, <2>7, <2>9, <3>4
      <3> QED BY <3>1, <3>2, <3>3, <3>4
    <2> QED BY <2>2, <2>7, <2>8, <2>9
  <1>7. \A x, y \in Seats, q \in 1..MaxSent : HasHandled(x, y, q) => HasHandled(x, y, q)'
    <2> SUFFICES ASSUME NEW x \in Seats, NEW y \in Seats, NEW q \in 1..MaxSent, NEW c \in 0..MaxServed,
                        handled[x][y][q][c] > 0
                 PROVE  handled'[x][y][q][c] > 0
      BY DEF HasHandled
    <2>1. handled[r][o][n][k] + 1 > 0
      BY <1>6
    <2> QED BY <1>6, <2>1
  <1>8. /\ Taken' = Taken /\ \A y : Logged(y)' = Logged(y) /\ Sent(y)' = Sent(y)
        /\ InFlight' \subseteq InFlight /\ InFlight \ {d} \subseteq InFlight'
    BY <1>2 DEF Taken, Logged, Sent, InFlight
  <1>9. \A q \in requests' : q \in requests
           \/ q = [by |-> r, from |-> o, have |-> d.env.have, copy |-> k]
    BY <1>2
  <1>10. TypeOK'
    <2>1. \A q \in requests' : q.by \in Taken' /\ q.from \in Taken'
      <3>1. \A q \in requests : q.by \in Taken /\ q.from \in Taken
        BY <1>1 DEF TypeOK
      <3> SUFFICES ASSUME NEW q \in requests' PROVE q.by \in Taken /\ q.from \in Taken
        BY <1>8
      <3>2. CASE q \in requests
        BY <3>1, <3>2
      <3>3. CASE q = [by |-> r, from |-> o, have |-> d.env.have, copy |-> k]
        BY <1>3, <1>4, <3>3
      <3> QED BY <1>9, <3>2, <3>3
    <2> QED BY <1>1, <1>2, <1>5, <1>8, <2>1 DEF TypeOK
  <1>11. SessionTypes'
    <2>1. requests' \subseteq Demands
      <3>1. requests \subseteq Demands
        BY <1>1 DEF SessionTypes
      <3>2. [by |-> r, from |-> o, have |-> d.env.have, copy |-> k] \in Demands
        BY <1>3 DEF Demands
      <3> QED BY <1>9, <3>1, <3>2
    <2> QED BY <1>1, <1>2, <1>6, <2>1 DEF SessionTypes
  <1>12. Numbering'
    BY <1>1, <1>2, <1>8 DEF Numbering
  <1>13. Flight'
    <2>1. \A q \in requests' : q.by \in sessions' /\ q.from \in sessions'
      BY <1>1, <1>2, <1>4, <1>9 DEF Flight
    <2> QED BY <1>1, <1>2, <1>8, <2>1 DEF Flight, Called
  <1>14. HandledIsLogged'
    <2> SUFFICES ASSUME NEW x \in Seats, NEW y \in Seats, NEW q \in 1..MaxSent,
                        applied'[x][y] = q \/ HasHandled(x, y, q)'
                 PROVE  \E e \in Logged(y) : e.seq = q /\ (Private(e) => e.to = x)
      BY <1>8 DEF HandledIsLogged
    <2>1. CASE x = r /\ y = o /\ q = n
      <3>1. Private(d.env) => d.env.to = r
        BY <1>1 DEF Flight, r
      <3> QED BY <1>3, <2>1, <3>1 DEF n
    <2>2. CASE ~(x = r /\ y = o /\ q = n)
      <3>1. HasHandled(x, y, q)' => HasHandled(x, y, q)
        BY <1>6, <2>2 DEF HasHandled
      <3>2. applied'[x][y] = q => applied[x][y] = q
        BY <1>5, <2>2 DEF Raise
      <3> QED BY <1>1, <3>1, <3>2 DEF HandledIsLogged
    <2> QED BY <2>1, <2>2
  <1>15. Spent'
    <2> SUFFICES ASSUME NEW x \in Seats, NEW y \in Seats, NEW q \in 1..MaxSent, NEW c \in 0..MaxServed
                 PROVE  SpentCopy(x, y, q, c)'
      BY DEF Spent
    <2>1. SpentCopy(x, y, q, c)
      BY <1>1 DEF Spent
    <2>2. Called(c, y, q)' <=> Called(c, y, q)
      BY <1>2 DEF Called
    <2>3. CASE ~(x = r /\ y = o /\ q = n /\ c = k)
      <3>1. handled'[x][y][q][c] = handled[x][y][q][c]
        BY <1>6, <2>3
      <3> QED BY <1>2, <1>8, <2>1, <2>2, <3>1 DEF SpentCopy, IsCopy
    <2>4. CASE x = r /\ y = o /\ q = n /\ c = k
      <3>1. IsCopy(d, x, y, q, c)
        BY <2>4 DEF IsCopy, r, o, n, k
      <3>2. handled'[x][y][q][c] <= 1
        <4>1. ~(handled[r][o][n][k] > 0)
          BY <1>3, <2>1, <2>4, <3>1 DEF SpentCopy
        <4> QED BY <1>6, <2>4, <4>1
      <3>3. c <= Cardinality(served)
        BY <1>1, <1>3, <2>4 DEF Flight, k
      <3>4. c > 0 => Called(c, y, q) /\ \A e \in Logged(y) : e.seq = q => ~Private(e)
        <4> SUFFICES ASSUME c > 0
                     PROVE  Called(c, y, q) /\ \A e \in Logged(y) : e.seq = q => ~Private(e)
          OBVIOUS
        <4>1. Called(c, y, q) /\ ~Private(d.env)
          BY <1>1, <1>3, <2>4 DEF Flight, k, o, n
        <4>2. \A e \in Logged(o) : e.seq = n => e = d.env
          <5>1. d.env \in Sent(o) /\ \A e \in Logged(o) : e \in Sent(o)
            BY <1>3 DEF Sent
          <5> QED BY <1>1, <1>3, <5>1 DEF Numbering, n
        <4> QED BY <2>4, <4>1, <4>2
      <3>5. \A z \in InFlight' : ~IsCopy(z, x, y, q, c)
        <4> SUFFICES ASSUME NEW z \in InFlight', IsCopy(z, x, y, q, c) PROVE FALSE
          OBVIOUS
        <4>1. z \in InFlight /\ IsCopy(z, d.to, d.env.seat, d.env.seq, d.copy)
          BY <1>8, <2>4 DEF r, o, n, k
        <4>2. z = d
          BY <1>1, <1>3, <4>1, OneCopy
        <4> QED BY <1>1, <1>2, <4>2 DEF InFlight, Flight
      <3> QED BY <1>2, <1>8, <2>2, <3>2, <3>3, <3>4, <3>5 DEF SpentCopy, IsCopy
    <2> QED BY <2>3, <2>4
  <1>16. ReplayOwed'
    <2> SUFFICES ASSUME NEW m \in served PROVE Owed(m)'
      BY <1>2 DEF ReplayOwed
    <2>1. m.by \in Seats /\ m.from \in Seats /\ m.logged \in Nat /\ m.logged <= Len(log[m.by]) /\ Owed(m)
      BY <1>1 DEF SessionTypes, Answers, ReplayOwed, Owed
    <2>2. ASSUME NEW i \in 1..m.logged, m.whole, log[m.by][i].seq > m.have,
                 ~Private(log[m.by][i]), PhaseFor(log[m.by][i].kind) = Unbound
          PROVE  \/ HasHandled(m.from, m.by, log[m.by][i].seq)'
                 \/ \E c \in InFlight' : c.env = log[m.by][i] /\ c.to = m.from
      <3> DEFINE e == log[m.by][i]
      <3>1. e \in Logged(m.by) /\ e.seq \in 1..MaxSent
        <4>1. Len(log[m.by]) \in Nat /\ Logged(m.by) \subseteq Envelopes
          BY <1>1, <2>1, LoggedType
        <4>2. i \in 1..Len(log[m.by])
          BY <2>1, <4>1
        <4>3. e \in Logged(m.by)
          BY <4>2 DEF Logged
        <4> QED BY <4>1, <4>3, EnvelopeType
      <3>2. HasHandled(m.from, m.by, e.seq) \/ \E c \in InFlight : c.env = e /\ c.to = m.from
        BY <2>1, <2>2 DEF Owed
      <3>3. CASE HasHandled(m.from, m.by, e.seq)
        BY <1>2, <1>7, <2>1, <3>1, <3>3
      <3>4. CASE \E c \in InFlight : c.env = e /\ c.to = m.from
        <4>1. PICK c \in InFlight : c.env = e /\ c.to = m.from
          BY <3>4
        <4>2. CASE c = d
          <5>1. e.seat = m.by
            BY <1>1, <2>1, <3>1 DEF Numbering
          <5>2. r = m.from /\ o = m.by /\ n = e.seq
            BY <4>1, <4>2, <5>1 DEF r, o, n
          <5>3. HasHandled(r, o, n)'
            <6>1. handled'[r][o][n][k] > 0
              BY <1>6
            <6> QED BY <1>3, <6>1 DEF HasHandled
          <5>4. HasHandled(m.from, m.by, e.seq)'
            BY <1>2, <5>2, <5>3 DEF HasHandled
          <5> QED BY <1>2, <5>4
        <4>3. CASE c # d
          BY <1>8, <4>1, <4>3
        <4> QED BY <4>2, <4>3
      <3> QED BY <3>2, <3>3, <3>4
    <2>3. UNCHANGED log
      BY <1>2
    <2> QED BY <2>1, <2>2, <2>3 DEF Owed
  <1> QED BY <1>10, <1>11, <1>12, <1>13, <1>14, <1>15, <1>16 DEF SessionInv

\* A request is answered with fresh copies of the public messages above its
\* mark: private messages are not replayed, and the tail it owes is in flight.
LEMMA ServeCatchUpInv ==
    ASSUME SessionInv, NEW q \in requests, ServeCatchUp(q)
    PROVE  SessionInv'
  <1> DEFINE s == q.by
             miss == Missing(s, q.have[s])
  <1>1. TypeOK /\ SessionTypes /\ Numbering /\ Flight /\ HandledIsLogged /\ Spent /\ ReplayOwed
    BY DEF SessionInv
  <1>2. /\ Cardinality(served) < MaxServed
        /\ requests' = requests \ {q}
        /\ UNCHANGED <<phase, roster, refundHeld, funded, stalledSeat, sessions, nextSeq, unsent, log,
                       applied, admitted, handled>>
    BY DEF ServeCatchUp, tableVars, sendVars
  <1>0. PICK c : c = Cardinality(served) + 1
    OBVIOUS
  <1> DEFINE ans(reached) == [by |-> s, from |-> q.from, have |-> q.have[s], logged |-> Len(log[s]),
                              copy |-> c, whole |-> \A e \in miss : q.from \in reached[e]]
  <1>3. PICK reached \in [miss -> SUBSET sessions] :
           /\ net' = net \cup UNION {Copies(e, reached[e], c) : e \in miss}
           /\ served' = served \cup {ans(reached)}
    BY <1>0 DEF ServeCatchUp
  <1>4. q \in Demands /\ s \in Seats /\ q.from \in Seats /\ q.have[s] \in 0..MaxSent
    <2>1. q \in Demands
      BY <1>1 DEF SessionTypes
    <2>2. s \in Seats /\ q.from \in Seats /\ q.have \in [Seats -> 0..MaxSent]
      BY <2>1 DEF Demands
    <2> QED BY <2>1, <2>2
  <1>5. IsFiniteSet(served) /\ Cardinality(served) \in Nat /\ c \in 0..MaxServed /\ c > 0 /\ c \in Nat
    <2>1. IsFiniteSet(served)
      BY <1>1 DEF SessionTypes
    <2>2. Cardinality(served) \in Nat
      BY <2>1, FS_CardinalityType
    <2> QED BY <1>0, <1>2, <2>1, <2>2, Bounds
  <1>6. Len(log[s]) \in Nat /\ Logged(s) \subseteq Envelopes
    BY <1>1, <1>4, LoggedType
  <1>7. /\ miss \subseteq Logged(s) /\ \A e \in miss : ~Private(e) /\ q.have[s] < e.seq
        /\ \A i \in 1..Len(log[s]) : log[s][i].seq > q.have[s] /\ ~Private(log[s][i]) => log[s][i] \in miss
    <2>1. /\ miss \subseteq Logged(s) /\ \A e \in miss : ~Private(e) /\ e.seq > q.have[s]
          /\ \A i \in 1..Len(log[s]) : log[s][i].seq > q.have[s] /\ ~Private(log[s][i]) => log[s][i] \in miss
      BY DEF Missing, Logged
    <2>2. \A e \in miss : e.seq \in Nat
      BY <1>6, <2>1, EnvelopeType
    <2> HIDE DEF miss, s
    <2> QED BY <1>4, <2>1, <2>2, Bounds
  <1> HIDE DEF miss, s
  <1> DEFINE new == UNION {Copies(e, reached[e], c) : e \in miss}
  <1>8. sessions \subseteq Seats /\ sessions \subseteq Taken /\ \A e \in miss : reached[e] \subseteq sessions
    BY <1>1, <1>3, TakenSeats DEF TypeOK
  <1>9. /\ \A d \in new : d \in Deliveries /\ d.env \in miss /\ d.to \in sessions /\ d.copy = c
        /\ \A e \in miss : \A x \in reached[e] : \E d \in new : d.env = e /\ d.to = x
    <2>1. \A d \in new : \E e \in miss : \E x \in reached[e] : d = [env |-> e, to |-> x, copy |-> c]
      BY DEF Copies
    <2>2. \A e \in miss : \A x \in reached[e] : [env |-> e, to |-> x, copy |-> c] \in new
      BY DEF Copies
    <2>3. \A e \in miss : \A x \in reached[e] : [env |-> e, to |-> x, copy |-> c] \in Deliveries
      BY <1>5, <1>6, <1>7, <1>8 DEF Deliveries
    <2> HIDE DEF new
    <2>4. \A d \in new : d \in Deliveries /\ d.env \in miss /\ d.to \in sessions /\ d.copy = c
      <3> SUFFICES ASSUME NEW d \in new
                   PROVE  d \in Deliveries /\ d.env \in miss /\ d.to \in sessions /\ d.copy = c
        OBVIOUS
      <3>1. PICK e \in miss : \E x \in reached[e] : d = [env |-> e, to |-> x, copy |-> c]
        BY <2>1
      <3>2. PICK x \in reached[e] : d = [env |-> e, to |-> x, copy |-> c]
        BY <3>1
      <3> QED BY <1>8, <2>3, <3>2
    <2>5. ASSUME NEW e \in miss, NEW x \in reached[e] PROVE \E d \in new : d.env = e /\ d.to = x
      <3>1. [env |-> e, to |-> x, copy |-> c] \in new
        BY <2>2
      <3> QED BY <3>1
    <2> QED BY <2>4, <2>5
  <1> HIDE DEF new
  <1>a. PICK a : a = ans(reached)
    OBVIOUS
  <1>10. /\ a \in Answers /\ a.by = s /\ a.from = q.from /\ a.have = q.have[s]
         /\ a.logged = Len(log[s]) /\ a.copy = c
         /\ a.whole => \A e \in miss : q.from \in reached[e]
    <2>1. (\A e \in miss : q.from \in reached[e]) \in BOOLEAN
      OBVIOUS
    <2> QED BY <1>4, <1>5, <1>6, <1>a, <2>1 DEF Answers
  <1>11. net' = net \cup new /\ served' = served \cup {a}
    BY <1>3, <1>a DEF new
  <1>12. /\ Taken' = Taken /\ \A y : Logged(y)' = Logged(y) /\ Sent(y)' = Sent(y)
         /\ InFlight' = InFlight \cup new
    BY <1>2, <1>11 DEF Taken, Logged, Sent, InFlight
  <1>13. TypeOK'
    <2>1. \A d \in new : d.env \in Envelopes /\ d.to \in Taken /\ d.copy \in 0..MaxServed
      BY <1>5, <1>6, <1>7, <1>8, <1>9
    <2> QED BY <1>1, <1>2, <1>12, <2>1 DEF TypeOK
  <1>14. IsFiniteSet(served') /\ Cardinality(served') = c
    <2>1. a \notin served
      <3> SUFFICES ASSUME a \in served PROVE FALSE
        OBVIOUS
      <3>1. a.copy <= Cardinality(served)
        BY <1>1 DEF SessionTypes
      <3> QED BY <1>0, <1>5, <1>10, <3>1
    <2>2. IsFiniteSet(served \cup {a}) /\ Cardinality(served \cup {a}) = Cardinality(served) + 1
      BY <1>5, <2>1, FS_AddElement
    <2> QED BY <1>0, <1>11, <2>2
  <1>15. SessionTypes'
    <2>1. \A m \in served' : m \in Answers /\ m.copy <= c
      <3>1. \A m \in served : m \in Answers /\ m.copy \in Nat /\ m.copy <= Cardinality(served)
        BY <1>1, Bounds DEF SessionTypes, Answers
      <3>2. \A m \in served : m.copy <= c
        BY <1>0, <1>5, <3>1
      <3> QED BY <1>5, <1>10, <1>11, <3>1, <3>2
    <2>2. net' \subseteq Deliveries
      BY <1>1, <1>9, <1>11 DEF SessionTypes
    <2>3. c <= MaxServed
      BY <1>5, Bounds
    <2>4. served' \subseteq Answers
      BY <2>1
    <2>5. requests' \subseteq Demands
      BY <1>1, <1>2 DEF SessionTypes
    <2> QED BY <1>1, <1>2, <1>14, <2>1, <2>2, <2>3, <2>4, <2>5 DEF SessionTypes
  <1>16. Numbering'
    BY <1>1, <1>2, <1>12 DEF Numbering
  <1>17. /\ \A x, y, z : Called(x, y, z) => Called(x, y, z)'
         /\ \A e \in miss : Called(c, s, e.seq)'
    BY <1>7, <1>10, <1>11 DEF Called
  <1>18. Flight'
    <2>1. \A d \in new : d.to \in sessions /\ d.env \in Logged(d.env.seat) /\ ~Private(d.env)
                         /\ d.env.seat = s
      BY <1>1, <1>4, <1>7, <1>9 DEF Numbering
    <2>2. \A d \in InFlight : d.copy \in Nat /\ d.copy <= Cardinality(served)
      BY <1>1, Bounds DEF Flight, TypeOK
    <2>3. \A d \in InFlight' :
             /\ d.copy <= Cardinality(served')
             /\ d.copy > 0 => Called(d.copy, d.env.seat, d.env.seq)' /\ ~Private(d.env)
      <3>1. ASSUME NEW d \in InFlight
            PROVE  /\ d.copy <= Cardinality(served')
                   /\ d.copy > 0 => Called(d.copy, d.env.seat, d.env.seq)' /\ ~Private(d.env)
        <4>1. d.copy <= c
          BY <1>0, <1>5, <2>2
        <4> QED BY <1>1, <1>14, <1>17, <4>1 DEF Flight
      <3>2. ASSUME NEW d \in new
            PROVE  /\ d.copy <= Cardinality(served')
                   /\ d.copy > 0 => Called(d.copy, d.env.seat, d.env.seq)' /\ ~Private(d.env)
        BY <1>5, <1>9, <1>14, <1>17, <2>1
      <3> QED BY <1>12, <3>1, <3>2
    <2>4. \A d \in admitted' : d \notin net' /\ (Private(d.env) => d.env.to = d.to)
      <3>1. \A d \in admitted : d \in InFlight
        BY DEF InFlight
      <3>2. \A d \in admitted : d \notin new
        BY <1>0, <1>5, <1>9, <2>2, <3>1
      <3> QED BY <1>1, <1>2, <1>11, <3>2 DEF Flight
    <2>5. \A d \in InFlight' : d.to \in sessions' /\ d.env \in Logged(d.env.seat)'
      BY <1>1, <1>2, <1>12, <2>1 DEF Flight
    <2>6. \A x \in requests' : x.by \in sessions' /\ x.from \in sessions'
      BY <1>1, <1>2 DEF Flight
    <2> QED BY <2>3, <2>4, <2>5, <2>6 DEF Flight
  <1>19. HandledIsLogged'
    BY <1>1, <1>2, <1>12 DEF HandledIsLogged, HasHandled
  <1>20. Spent'
    <2> SUFFICES ASSUME NEW r \in Seats, NEW o \in Seats, NEW n \in 1..MaxSent, NEW k \in 0..MaxServed
                 PROVE  SpentCopy(r, o, n, k)'
      BY DEF Spent
    <2>1. SpentCopy(r, o, n, k)
      BY <1>1 DEF Spent
    <2>2. k \in Nat /\ (k <= Cardinality(served) => k <= c /\ k # c)
      BY <1>0, <1>5, Bounds
    <2>3. k <= Cardinality(served) => \A d \in new : ~IsCopy(d, r, o, n, k)
      BY <1>9, <2>2 DEF IsCopy
    <2>4. /\ handled'[r][o][n][k] = handled[r][o][n][k]
          /\ \A e \in Logged(o)' : e \in Logged(o)
          /\ Called(k, o, n) => Called(k, o, n)'
      BY <1>2, <1>12, <1>17
    <2> QED BY <1>12, <1>14, <2>1, <2>2, <2>3, <2>4 DEF SpentCopy, IsCopy
  <1>21. ReplayOwed'
    <2>1. ASSUME NEW m \in served PROVE Owed(m)'
      <3>1. Owed(m)
        BY <1>1 DEF ReplayOwed
      <3> QED BY <1>2, <1>12, <3>1 DEF Owed, HasHandled
    <2>2. Owed(a)'
      <3>1. a.logged <= Len(log[a.by])
        BY <1>6, <1>10
      <3>2. ASSUME a.whole, NEW i \in 1..a.logged, log[a.by][i].seq > a.have, ~Private(log[a.by][i])
            PROVE  \E d \in InFlight' : d.env = log[a.by][i] /\ d.to = a.from
        <4>1. log[s][i] \in miss
          BY <1>7, <1>10, <3>2
        <4> QED BY <1>9, <1>10, <1>12, <3>2, <4>1
      <3>3. UNCHANGED log
        BY <1>2
      <3> QED BY <3>1, <3>2, <3>3 DEF Owed
    <2> QED BY <1>11, <2>1, <2>2 DEF ReplayOwed
  <1> QED BY <1>13, <1>15, <1>16, <1>18, <1>19, <1>20, <1>21 DEF SessionInv

-----------------------------------------------------------------------------
\* What each kind of message carries is of the types that Number is given.
LEMMA NumberedInv ==
    ASSUME SessionInv, NEW s \in Taken, Send(s) \/ SendPrivate(s) \/ RequestCatchUp(s)
    PROVE  SessionInv'
  <1>1. NothingApplied \in [Seats -> 0..MaxSent]
    BY Bounds DEF NothingApplied
  <1>2. TypeOK /\ Taken \subseteq Seats
    BY TakenSeats DEF SessionInv
  <1>3. applied[s] \in [Seats -> 0..MaxSent]
    BY <1>2 DEF TypeOK
  <1>4. PublicKinds \subseteq Kinds /\ PrivateKinds \subseteq Kinds /\ Request \in Kinds
    BY DEF Kinds
  <1>5. \E kind \in Kinds, to \in Seats \cup {NoSeat}, have \in [Seats -> 0..MaxSent] :
           Number(s, kind, to, have)
    BY <1>1, <1>2, <1>3, <1>4 DEF Send, SendPrivate, RequestCatchUp
  <1> QED BY <1>5, NumberInv

\* Stuttering changes nothing.
LEMMA StutterSessionInv ==
    ASSUME SessionInv, UNCHANGED vars
    PROVE  SessionInv'
  <1>1. TypeOK /\ SessionTypes /\ Numbering /\ Flight /\ HandledIsLogged /\ Spent /\ ReplayOwed
    BY DEF SessionInv
  <1>2. UNCHANGED <<phase, roster, refundHeld, funded, stalledSeat, sessions, nextSeq, unsent, log,
                    applied, net, admitted, requests, handled, served>>
    BY DEF vars, tableVars, sendVars, receiveVars, history
  <1>3. Taken' = Taken /\ \A o : Logged(o)' = Logged(o) /\ Sent(o)' = Sent(o)
    BY <1>2 DEF Taken, Logged, Sent
  <1>4. TypeOK'
    BY <1>1, <1>2, <1>3 DEF TypeOK, InFlight
  <1>5. SessionTypes' /\ Numbering'
    BY <1>1, <1>2, <1>3 DEF SessionTypes, Numbering
  <1>6. Flight'
    BY <1>1, <1>2, <1>3 DEF Flight, InFlight, Called
  <1>7. HandledIsLogged' /\ Spent' /\ ReplayOwed'
    BY <1>1, <1>2, SameReceived
  <1> QED BY <1>4, <1>5, <1>6, <1>7 DEF SessionInv

\* The invariant of the protocol: how numbers name messages, what the copies in
\* flight are copies of, and what each may still do.
THEOREM SessionInvariant == Spec => []SessionInv
  <1>1. Init => SessionInv
    BY InitSessionInv
  <1>2. SessionInv /\ [Next]_vars => SessionInv'
    <2> SUFFICES ASSUME SessionInv, [Next]_vars PROVE SessionInv'
      OBVIOUS
    <2>1. CASE TableStep
      BY <2>1, TableStepSessionInv
    <2>2. CASE \E s \in Taken : NewSession(s)
      BY <2>2, NewSessionInv
    <2>3. CASE \E s \in Taken : Send(s) \/ SendPrivate(s) \/ RequestCatchUp(s)
      BY <2>3, NumberedInv
    <2>4. CASE \E env \in unsent : Publish(env)
      BY <2>4, PublishInv
    <2>5. CASE \E d \in net : OnMessage(d)
      BY <2>5, OnMessageInv
    <2>6. CASE \E d \in admitted : Handle(d)
      BY <2>6, HandleInv
    <2>7. CASE \E q \in requests : ServeCatchUp(q)
      BY <2>7, ServeCatchUpInv
    <2>8. CASE UNCHANGED vars
      BY <2>8, StutterSessionInv
    <2> QED BY <2>1, <2>2, <2>3, <2>4, <2>5, <2>6, <2>7, <2>8 DEF Next, SessionStep
  <1> QED BY <1>1, <1>2, PTL DEF Spec

\* The table, the sessions and the copies in flight keep their types: at most N
\* seats, refunds before funds, sequence numbers within the messages sent.
THEOREM SessionTypeTheorem == Spec => []TypeOK
  <1>1. SessionInv => TypeOK
    BY DEF SessionInv
  <1> QED BY <1>1, SessionInvariant, PTL

\* A private message is handled by its recipient alone and at most once, however
\* many catch-ups are served.
THEOREM PrivateOnceTheorem == Spec => []PrivateOnce
  <1>1. SessionInv => PrivateOnce
    <2> SUFFICES ASSUME SessionInv, NEW o \in Seats, NEW e \in Logged(o), Private(e),
                        NEW r \in Seats, NEW c \in 0..MaxServed
                 PROVE  handled[r][o][e.seq][c] <= IF r = e.to /\ c = 0 THEN 1 ELSE 0
      BY DEF PrivateOnce
    <2>1. SessionTypes /\ Numbering /\ HandledIsLogged /\ Spent
      BY DEF SessionInv
    <2>2. e.seq \in 1..MaxSent
      BY <2>1, LoggedType, EnvelopeType
    <2>3. handled[r][o][e.seq][c] \in Nat /\ SpentCopy(r, o, e.seq, c)
      BY <2>1, <2>2, HandledType DEF Spent
    <2>4. CASE handled[r][o][e.seq][c] > 0
      <3>1. PICK f \in Logged(o) : f.seq = e.seq /\ (Private(f) => f.to = r)
        BY <2>1, <2>2, <2>4 DEF HandledIsLogged, HasHandled
      <3>2. f = e
        BY <2>1, <3>1 DEF Numbering, Sent
      <3>3. ~(c > 0)
        BY <2>3, <2>4 DEF SpentCopy
      <3>4. c = 0
        BY <3>3, Bounds
      <3> QED BY <2>3, <3>1, <3>2, <3>4 DEF SpentCopy
    <2>5. CASE ~(handled[r][o][e.seq][c] > 0)
      BY <2>3, <2>5
    <2> QED BY <2>4, <2>5
  <1> QED BY <1>1, SessionInvariant, PTL

\* No handler runs for a message more often than once for its publication and once
\* for each catch-up whose requester lacked it.
THEOREM HandledPerReplayTheorem == Spec => []HandledPerReplay
  <1>1. SessionInv => HandledPerReplay
    BY DEF SessionInv, Spent, SpentCopy, Called, HandledPerReplay
  <1> QED BY <1>1, SessionInvariant, PTL

\* What a seat handled, and what its marks name, is in the sender's log.
THEOREM HandledIsLoggedTheorem == Spec => []HandledIsLogged
  <1>1. SessionInv => HandledIsLogged
    BY DEF SessionInv
  <1> QED BY <1>1, SessionInvariant, PTL

\* A replay that reached its requester whole leaves out nothing above the mark of
\* the request: once no copy is on its way, all of it was handled.
THEOREM ReplayCoversTailTheorem == Spec => []ReplayCoversTail
  <1>1. SessionInv => ReplayCoversTail
    <2> SUFFICES ASSUME SessionInv, NEW m \in served, m.whole,
                        \A d \in InFlight : d.to = m.from => d.env.seat # m.by,
                        NEW i \in 1..m.logged, log[m.by][i].seq > m.have,
                        ~Private(log[m.by][i]), PhaseFor(log[m.by][i].kind) = Unbound
                 PROVE  HasHandled(m.from, m.by, log[m.by][i].seq)
      BY DEF ReplayCoversTail
    <2>1. SessionTypes /\ Numbering /\ Owed(m)
      BY DEF SessionInv, ReplayOwed
    <2>2. m.by \in Seats /\ m.logged \in Nat /\ m.logged <= Len(log[m.by])
      BY <2>1 DEF SessionTypes, Answers, Owed
    <2>3. log[m.by][i] \in Logged(m.by)
      <3>1. Len(log[m.by]) \in Nat
        BY <2>1, <2>2, LoggedType
      <3>2. i \in 1..Len(log[m.by])
        BY <2>2, <3>1
      <3> QED BY <3>2 DEF Logged
    <2>4. log[m.by][i].seat = m.by
      BY <2>1, <2>2, <2>3 DEF Numbering
    <2> QED BY <2>1, <2>4 DEF Owed
  <1> QED BY <1>1, SessionInvariant, PTL

\* No step changes the seats of a closed roster, reopens a table or leaves the
\* closed phase.
THEOREM RosterFrozenTheorem == Spec => RosterFrozen
  <1>1. TypeOK /\ [Next]_vars =>
           [/\ phase # "open" => roster' = roster /\ phase' # "open"
            /\ phase = "closed" => phase' = "closed"]_vars
    <2> SUFFICES ASSUME TypeOK, Next
                 PROVE  /\ phase # "open" => roster' = roster /\ phase' # "open"
                        /\ phase = "closed" => phase' = "closed"
      OBVIOUS
    <2>1. CASE SessionStep
      <3>1. UNCHANGED <<phase, roster>>
        BY <2>1 DEF SessionStep, NewSession, Send, SendPrivate, RequestCatchUp, Number, Publish,
                    OnMessage, Handle, ServeCatchUp, tableVars
      <3> QED BY <3>1
    <2>2. CASE \E to \in Phases : Advance(to)
      <3>1. roster' = roster /\ phase' \in Allowed[phase] /\ phase \in Phases
        BY <2>2 DEF Advance, TypeOK
      <3> QED BY <3>1, AllowedPhases
    <2>3. CASE TableStep /\ ~\E to \in Phases : Advance(to)
      BY <2>3 DEF TableStep, Join, CloseRoster, MarkRefundHeld, MarkFunded, BeginDeal, Stall, Close
    <2> QED BY <2>1, <2>2, <2>3 DEF Next
  <1> QED BY <1>1, SessionTypeTheorem, PTL DEF Spec, RosterFrozen
=============================================================================
