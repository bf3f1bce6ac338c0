----------------------------- MODULE WalletGate -----------------------------
(***************************************************************************)
(* How a call of the table reaches a wallet on the player's own machine,   *)
(* and comes back.  The coordinator signs and parks a request (webui/      *)
(* dealer.go, relay.go), the seat's page collects it, posts it to the      *)
(* wallet and posts the answer back (static/app.js relayOnce), and the     *)
(* wallet serves it once (protocol/substrate).  Table and wallet have      *)
(* clocks of their own; the page may be closed, slow, or send a request or *)
(* an answer twice or late; a wallet serves requests concurrently and may  *)
(* be restarted, which empties its nonce cache.                            *)
(*                                                                         *)
(* One seat is modelled.  Signatures are abstracted to what they bind: a   *)
(* request to its nonce and timestamp, an answer to the request's nonce.   *)
(* A wallet that is dialled instead is a page that never fails, but for    *)
(* the 20 seconds after which the HTTP client gives the call up.           *)
(***************************************************************************)
EXTENDS Integers, FiniteSets, FiniteSetsExt

CONSTANTS
    Calls,       \* bound on the calls the table makes
    Deals,       \* those of them made for a deal, whose context has a deadline
    Slots,       \* requests the wallet can be serving at once
    MaxClockSkew,
    Cap,         \* NonceCache.limit
    Ahead,       \* how far the table's clock may run ahead of the wallet's
    Behind,      \* and how far behind
    MaxDelay,    \* longest time from reading the clock to the nonce cache's lock
    MaxTime,     \* bound on the wallet's clock
    MaxRestarts  \* bound on the wallet's restarts

\* The nonce cache forgets after twice the skew, which leaves the table's lead
\* and the wait for the lock one skew window between them.
ASSUME GateConstants ==
    /\ {Calls, MaxClockSkew, Cap, Ahead, Behind, MaxDelay, MaxTime, MaxRestarts} \subseteq Nat
    /\ Deals \subseteq 1..Calls
    /\ Ahead + MaxDelay <= MaxClockSkew

Nonces == 1..Calls

VARIABLES
    call,     \* what the table knows of each call
    ts,       \* the timestamp each request carries
    queued,   \* Relay.queued of the seat
    carried,  \* requests that left the table; copies may arrive at any time
    time,     \* the wallet's clock
    slot,     \* the requests the wallet is serving
    seen,     \* NonceCache.seen
    results,  \* the requests whose results the wallet has signed
    runs,     \* how often this wallet process ran each request's handler
    ran,      \* the requests some process of the wallet ever ran
    restarts

tableVars == <<call, ts, queued, carried>>
walletVars == <<slot, seen, results, runs, ran>>
vars == <<tableVars, time, walletVars, restarts>>

Free == [at |-> "free", nonce |-> 0, now |-> 0]

Init ==
    /\ call = [n \in Nonces |-> "new"]
    /\ ts = [n \in Nonces |-> 0]
    /\ queued = {}
    /\ carried = {}
    /\ time = 0
    /\ slot = [h \in Slots |-> Free]
    /\ seen = {}
    /\ results = {}
    /\ runs = [n \in Nonces |-> 0]
    /\ ran = {}
    /\ restarts = 0

-----------------------------------------------------------------------------
(* The table *)

\* Coordinator.call, SignRequest and the first half of Relay.Do.  The session
\* loop makes one call at a time.
Ask(n) ==
    /\ call[n] = "new"
    /\ \A m \in Nonces : (m < n => call[m] # "new") /\ call[m] # "waiting"
    /\ call' = [call EXCEPT ![n] = "waiting"]
    /\ \E lead \in (-Behind)..Ahead : ts' = [ts EXCEPT ![n] = time + lead]
    /\ queued' = queued \cup {n}
    /\ UNCHANGED <<carried, time, walletVars, restarts>>

\* Do gives up when its context ends.  The request stays in the queue.
GiveUp(n) ==
    /\ call[n] = "waiting"
    /\ n \in Deals
    /\ call' = [call EXCEPT ![n] = IF n \in queued THEN "dropped" ELSE "failed"]
    /\ UNCHANGED <<ts, queued, carried, time, walletVars, restarts>>

\* Mutant: the queue is handed out whoever still waits.
CollectAll ==
    /\ queued # {}
    /\ carried' = carried \cup queued
    /\ queued' = {}
    /\ UNCHANGED <<call, ts, time, walletVars, restarts>>

\* /api/relay/poll: the queue is emptied, and what nobody waits for is skipped.
Collect ==
    /\ queued # {}
    /\ carried' = carried \cup {n \in queued : call[n] = "waiting"}
    /\ queued' = {}
    /\ UNCHANGED <<call, ts, time, walletVars, restarts>>

\* Mutant: any result is taken for the answer to this call.
VerifyAnyResponse(n, answered) == TRUE

\* A result must be signed for the request that was made.
VerifyResponse(n, answered) == answered = n

\* /api/relay/reply with a result of the wallet, which may be the wrong one, for
\* a call that waits.
Deliver(n) ==
    /\ call[n] = "waiting"
    /\ n \in carried
    /\ \E m \in results :
          call' = [call EXCEPT ![n] = IF VerifyResponse(n, m) THEN "ok" ELSE "failed"]
    /\ UNCHANGED <<ts, queued, carried, time, walletVars, restarts>>

\* The wallet refused, or the page reports that it could not reach the wallet or
\* not post its answer: call fails on an error before it authenticates anything.
DeliverError(n) ==
    /\ call[n] = "waiting"
    /\ n \in carried
    /\ call' = [call EXCEPT ![n] = "failed"]
    /\ UNCHANGED <<ts, queued, carried, time, walletVars, restarts>>

-----------------------------------------------------------------------------
(* The wallet: ServeHTTP *)

\* VerifyRequest's window.
Timely(n) == LET skew == time - ts[n] IN skew <= MaxClockSkew /\ -skew <= MaxClockSkew

\* A copy of a request comes in: the clock is read and the request verified.
Arrive(h, n) ==
    /\ slot[h].at = "free"
    /\ n \in carried
    /\ Timely(n)
    /\ slot' = [slot EXCEPT ![h] = [at |-> "verified", nonce |-> n, now |-> time]]
    /\ UNCHANGED <<tableVars, time, seen, results, runs, ran, restarts>>

\* Too many requests in this minute, whichever those were.
RateLimited(h) ==
    /\ slot[h].at = "verified"
    /\ slot' = [slot EXCEPT ![h] = Free]
    /\ UNCHANGED <<tableVars, time, seen, results, runs, ran, restarts>>

\* Mutant: a nonce is remembered for one skew window only.
SweepEarly(now) == {e \in seen : now - e.at <= MaxClockSkew}

Sweep(now) == {e \in seen : now - e.at <= 2 * MaxClockSkew}

\* Mutant: off by one.
FullLate(kept) == Cardinality(kept) > Cap

Full(kept) == Cardinality(kept) >= Cap

\* NonceCache.Use, in one region of its lock, with the time read on arrival.
Use(h) ==
    /\ slot[h].at = "verified"
    /\ LET n == slot[h].nonce
           kept == Sweep(slot[h].now)
       IN IF Full(kept) \/ \E e \in kept : e.nonce = n
          THEN /\ seen' = kept
               /\ slot' = [slot EXCEPT ![h] = Free]
          ELSE /\ seen' = kept \cup {[nonce |-> n, at |-> slot[h].now]}
               /\ slot' = [slot EXCEPT ![h].at = "admitted"]
    /\ UNCHANGED <<tableVars, time, results, runs, ran, restarts>>

\* The method's handler runs, and succeeds or declines.
Handle(h) ==
    /\ slot[h].at = "admitted"
    /\ runs' = [runs EXCEPT ![slot[h].nonce] = @ + 1]
    /\ ran' = ran \cup {slot[h].nonce}
    /\ results' \in {results, results \cup {slot[h].nonce}}
    /\ slot' = [slot EXCEPT ![h] = Free]
    /\ UNCHANGED <<tableVars, time, seen, restarts>>

\* The agent process is restarted: what it was serving and its cache are gone.
Restart ==
    /\ restarts < MaxRestarts
    /\ restarts' = restarts + 1
    /\ slot' = [h \in Slots |-> Free]
    /\ seen' = {}
    /\ runs' = [n \in Nonces |-> 0]
    /\ UNCHANGED <<tableVars, time, results, ran>>

\* Time passes, but no request waits for the cache's lock beyond MaxDelay.
Tick ==
    /\ time < MaxTime
    /\ \A h \in Slots : slot[h].at = "verified" => time - slot[h].now < MaxDelay
    /\ time' = time + 1
    /\ UNCHANGED <<tableVars, walletVars, restarts>>

-----------------------------------------------------------------------------
WalletStep(h) == (\E n \in Nonces : Arrive(h, n)) \/ RateLimited(h) \/ Use(h) \/ Handle(h)

Next ==
    \/ \E n \in Nonces : Ask(n) \/ GiveUp(n) \/ Deliver(n) \/ DeliverError(n)
    \/ Collect
    \/ \E h \in Slots : WalletStep(h)
    \/ Restart
    \/ Tick

Spec == Init /\ [][Next]_vars

\* A context that has a deadline ends, and the wallet serves what it took in.
\* Nothing is assumed of the page, which the player may close.
FairSpec ==
    /\ Spec
    /\ \A n \in Nonces : WF_vars(GiveUp(n))
    /\ \A h \in Slots : WF_vars(Use(h)) /\ WF_vars(Handle(h))

-----------------------------------------------------------------------------
(* Properties *)

\* Type invariant; the nonce cache keeps to its limit (NonceCache.Use).
TypeOK ==
    /\ call \in [Nonces -> {"new", "waiting", "ok", "failed", "dropped"}]
    /\ queued \subseteq Nonces /\ carried \subseteq Nonces
    /\ ts \in [Nonces -> Int]
    /\ time \in 0..MaxTime
    /\ slot \in [Slots -> [at : {"free", "verified", "admitted"},
                           nonce : {0} \cup Nonces, now : 0..MaxTime]]
    /\ seen \subseteq [nonce : Nonces, at : 0..MaxTime] /\ Cardinality(seen) <= Cap
    /\ runs \in [Nonces -> Nat]
    /\ results \subseteq ran /\ ran \subseteq Nonces
    /\ restarts \in 0..MaxRestarts

\* A wallet process runs a request at most once, however many copies arrive, on
\* whichever threads, and although the cache forgets: by the time a nonce is
\* swept no copy of its request can still be on its way in (ServeHTTP reads the
\* clock before the cache's lock; NewNonceCache, VerifyRequest).
ServedOnce == \A n \in Nonces : runs[n] <= 1

\* A call returns a result only if the wallet ran that very request, whatever
\* results the page replays or confuses (Coordinator.call, VerifyResponse).
AnsweredMeansServed ==
    \A n \in Nonces : call[n] = "ok" => n \in ran

\* A call given up before the page collected it never reaches the wallet, though
\* Do leaves it in the queue (Relay.Do, Collect).
AbandonedStaysHome ==
    \A n \in Nonces : call[n] = "dropped" => n \notin ran

\* What relayCall says of its Deadline: it "bounds how long a request may sit
\* uncollected".  Do sets it and nothing reads it, and a call made to sign a pot
\* or a refund has no other deadline.
NotUncollectedForever ==
    \A n \in Nonces :
        (n \in queued /\ call[n] = "waiting") ~> ~(n \in queued /\ call[n] = "waiting")
=============================================================================
