-------------------------- MODULE WalletGateProofs --------------------------
(***************************************************************************)
(* What the wallet's gate promises, for any number of calls and threads    *)
(* and every skew, delay and cache size with Ahead + MaxDelay within the   *)
(* skew: a process serves a request once, a call is answered by its own    *)
(* result, and what was abandoned in the queue never runs.                 *)
(*                                                                         *)
(* ServedOnce needs the clocks.  A nonce that was let in is either still   *)
(* in the cache, or so old that no thread can hold a copy of it that       *)
(* passed VerifyRequest; GateInv says so (SpentIsKnown), together with     *)
(* what a thread's reading of the clock and a cache entry's age say of     *)
(* the timestamp the request carries.                                      *)
(***************************************************************************)
EXTENDS WalletGate, FiniteSetTheorems, TLAPS

\* Where a request may be: parked or carried off, never both, once it is made.
Delivery ==
    /\ queued \cap carried = {}
    /\ \A n \in queued \cup carried : call[n] # "new"
    /\ \A n \in Nonces : call[n] = "dropped" => n \notin carried
    /\ \A n \in Nonces : call[n] = "ok" => n \in ran
    /\ ran \subseteq carried
    /\ \A h \in Slots : slot[h].at # "free" => slot[h].nonce \in carried

\* A verified thread read the clock at most MaxDelay ago and found the request
\* timely; no request is stamped later than it was made, but for the lead.
Clocks ==
    /\ \A n \in Nonces : call[n] # "new" => ts[n] <= time + Ahead
    /\ \A h \in Slots : slot[h].at = "verified" =>
          /\ slot[h].now <= time
          /\ time - slot[h].now <= MaxDelay
          /\ slot[h].now - ts[slot[h].nonce] <= MaxClockSkew
          /\ ts[slot[h].nonce] <= slot[h].now + Ahead
    /\ \A e \in seen : e.nonce \in carried /\ ts[e.nonce] <= e.at + Ahead

\* This process let the request in.
Spent(n) == runs[n] # 0 \/ \E h \in Slots : slot[h].at = "admitted" /\ slot[h].nonce = n

Remembered(n) == \E e \in seen : e.nonce = n

\* Too old for any thread to hold a copy that passed VerifyRequest.
Expired(n) == time > ts[n] + MaxClockSkew + MaxDelay

SpentIsKnown == \A n \in Nonces : Spent(n) => n \in carried /\ (Remembered(n) \/ Expired(n))

\* A request that was let in is being handled by one thread or was handled once.
LetInOnce ==
    /\ \A n \in Nonces : runs[n] <= 1
    /\ \A h, k \in Slots :
          slot[h].at = "admitted" =>
             /\ runs[slot[h].nonce] = 0
             /\ slot[k].at = "admitted" /\ slot[k].nonce = slot[h].nonce => k = h

GateInv ==
    /\ TypeOK
    /\ IsFiniteSet(seen)
    /\ Delivery
    /\ Clocks
    /\ SpentIsKnown
    /\ LetInOnce

-----------------------------------------------------------------------------
\* The bounds are natural numbers.
LEMMA Bounds ==
    /\ Calls \in Nat /\ MaxClockSkew \in Nat /\ Cap \in Nat /\ Ahead \in Nat /\ Behind \in Nat
    /\ MaxDelay \in Nat /\ MaxTime \in Nat /\ MaxRestarts \in Nat
    /\ Nonces \subseteq Nat \ {0}
    /\ Ahead + MaxDelay <= MaxClockSkew
  BY GateConstants DEF Nonces

\* What a thread of the wallet holds.
LEMMA SlotType ==
    ASSUME TypeOK, NEW h \in Slots
    PROVE  /\ slot[h].at \in {"free", "verified", "admitted"}
           /\ slot[h].nonce \in {0} \cup Nonces
           /\ slot[h].now \in Nat /\ slot[h].now \in 0..MaxTime
  BY Bounds DEF TypeOK

\* Before the first call nothing is parked, carried, cached or run.
LEMMA InitGateInv == Init => GateInv
  <1> SUFFICES ASSUME Init PROVE GateInv
    OBVIOUS
  <1>1. IsFiniteSet(seen) /\ Cardinality(seen) = 0
    BY FS_EmptySet DEF Init
  <1>2. \A h \in Slots : slot[h].at = "free"
    BY DEF Init, Free
  <1>3. \A n \in Nonces : runs[n] = 0 /\ call[n] = "new"
    BY DEF Init
  <1>4. TypeOK
    BY <1>1, Bounds DEF Init, TypeOK, Free
  <1>5. Delivery
    BY <1>2, <1>3 DEF Delivery, Init
  <1>6. Clocks
    BY <1>2, <1>3 DEF Clocks, Init
  <1>7. SpentIsKnown /\ LetInOnce
    BY <1>2, <1>3 DEF SpentIsKnown, Spent, LetInOnce
  <1> QED BY <1>1, <1>4, <1>5, <1>6, <1>7 DEF GateInv

\* A new request is stamped with a lead of at most Ahead and parked (SignRequest,
\* Relay.Do).
LEMMA AskGateInv ==
    ASSUME GateInv, NEW n \in Nonces, Ask(n)
    PROVE  GateInv'
  <1>1. /\ TypeOK /\ IsFiniteSet(seen) /\ Delivery /\ Clocks /\ SpentIsKnown /\ LetInOnce
    BY DEF GateInv
  <1>2. PICK lead \in (-Behind)..Ahead : ts' = [ts EXCEPT ![n] = time + lead]
    BY DEF Ask
  <1>3. /\ call[n] = "new" /\ call' = [call EXCEPT ![n] = "waiting"]
        /\ queued' = queued \cup {n}
        /\ UNCHANGED <<carried, time, slot, seen, results, runs, ran, restarts>>
    BY DEF Ask, walletVars
  <1>4. time \in Int /\ lead \in Int /\ lead <= Ahead /\ time + lead \in Int
    BY <1>1, Bounds DEF TypeOK
  <1>5. n \notin carried /\ n \notin queued
    BY <1>1, <1>3 DEF Delivery
  <1>6. /\ \A m \in Nonces \ {n} : ts'[m] = ts[m] /\ call'[m] = call[m]
        /\ ts'[n] = time + lead /\ call'[n] = "waiting"
    BY <1>1, <1>2, <1>3 DEF TypeOK
  <1>7. \A m \in carried : m \in Nonces /\ ts'[m] = ts[m]
    BY <1>1, <1>5, <1>6 DEF TypeOK
  <1>8. TypeOK'
    BY <1>1, <1>2, <1>3, <1>4 DEF TypeOK
  <1>9. Delivery'
    BY <1>1, <1>3, <1>5, <1>6 DEF Delivery, TypeOK
  <1>10. Clocks'
    <2>1. ASSUME NEW m \in Nonces, call'[m] # "new" PROVE ts'[m] <= time' + Ahead
      BY <1>1, <1>3, <1>4, <1>6, <2>1, Bounds DEF Clocks
    <2>2. ASSUME NEW h \in Slots, slot'[h].at = "verified"
          PROVE  /\ slot'[h].now <= time'
                 /\ time' - slot'[h].now <= MaxDelay
                 /\ slot'[h].now - ts'[slot'[h].nonce] <= MaxClockSkew
                 /\ ts'[slot'[h].nonce] <= slot'[h].now + Ahead
      BY <1>1, <1>3, <1>7, <2>2 DEF Clocks, Delivery
    <2>3. ASSUME NEW e \in seen' PROVE e.nonce \in carried' /\ ts'[e.nonce] <= e.at + Ahead
      BY <1>1, <1>3, <1>7, <2>3 DEF Clocks
    <2> QED BY <2>1, <2>2, <2>3 DEF Clocks
  <1>11. SpentIsKnown' /\ LetInOnce'
    BY <1>1, <1>3, <1>7 DEF SpentIsKnown, Spent, Remembered, Expired, LetInOnce
  <1> QED BY <1>1, <1>3, <1>8, <1>9, <1>10, <1>11 DEF GateInv

\* Giving up, collecting and answering move a call on; none of them un-makes one
\* or touches the wallet (Relay.Do, Collect, Coordinator.call).
LEMMA RelayGateInv ==
    ASSUME GateInv,
           Collect \/ \E n \in Nonces : GiveUp(n) \/ Deliver(n) \/ DeliverError(n)
    PROVE  GateInv'
  <1>1. /\ TypeOK /\ IsFiniteSet(seen) /\ Delivery /\ Clocks /\ SpentIsKnown /\ LetInOnce
    BY DEF GateInv
  <1>2. UNCHANGED <<ts, time, slot, seen, results, runs, ran, restarts>>
    BY DEF Collect, GiveUp, Deliver, DeliverError, walletVars
  <1>3. /\ carried \subseteq carried' /\ queued' \subseteq queued
        /\ carried' \subseteq carried \cup queued
        /\ queued' \cap carried' = {}
    BY <1>1 DEF Collect, GiveUp, Deliver, DeliverError, Delivery
  <1>4. call' \in [Nonces -> {"new", "waiting", "ok", "failed", "dropped"}]
    BY <1>1 DEF Collect, GiveUp, Deliver, DeliverError, TypeOK
  <1>5. \A m \in Nonces : call'[m] = "new" <=> call[m] = "new"
    BY <1>1 DEF Collect, GiveUp, Deliver, DeliverError, TypeOK
  <1>6. ASSUME NEW m \in Nonces, call'[m] = "dropped" PROVE m \notin carried'
    <2>1. CASE call[m] = "dropped"
      BY <1>1, <2>1 DEF Collect, GiveUp, Deliver, DeliverError, Delivery, TypeOK
    <2>2. CASE call[m] # "dropped"
      <3>1. PICK n \in Nonces : GiveUp(n) \/ Deliver(n) \/ DeliverError(n)
        BY <1>6, <2>2 DEF Collect
      <3>2. GiveUp(n) /\ n = m /\ n \in queued
        BY <1>1, <1>6, <2>2, <3>1 DEF GiveUp, Deliver, DeliverError, TypeOK
      <3> QED BY <1>1, <3>2 DEF GiveUp, Delivery
    <2> QED BY <2>1, <2>2
  <1>7. ASSUME NEW m \in Nonces, call'[m] = "ok" PROVE m \in ran'
    <2>1. CASE call[m] = "ok"
      BY <1>1, <1>2, <2>1 DEF Delivery
    <2>2. CASE call[m] # "ok"
      <3>1. PICK n \in Nonces : GiveUp(n) \/ Deliver(n) \/ DeliverError(n)
        BY <1>7, <2>2 DEF Collect
      <3>2. Deliver(n) /\ n = m
        BY <1>1, <1>7, <2>2, <3>1 DEF GiveUp, Deliver, DeliverError, TypeOK
      <3>3. PICK k \in results :
               call' = [call EXCEPT ![n] = IF VerifyResponse(n, k) THEN "ok" ELSE "failed"]
        BY <3>2 DEF Deliver
      <3>4. k = m
        BY <1>1, <1>7, <3>2, <3>3 DEF VerifyResponse, TypeOK
      <3> QED BY <1>1, <1>2, <3>4 DEF TypeOK
    <2> QED BY <2>1, <2>2
  <1>8. TypeOK'
    BY <1>1, <1>2, <1>3, <1>4 DEF TypeOK
  <1>9. Delivery'
    <2>1. \A m \in queued' \cup carried' : call'[m] # "new"
      BY <1>1, <1>3, <1>5 DEF Delivery, TypeOK
    <2>2. ran' \subseteq carried'
      BY <1>1, <1>2, <1>3 DEF Delivery
    <2>3. \A h \in Slots : slot'[h].at # "free" => slot'[h].nonce \in carried'
      BY <1>1, <1>2, <1>3 DEF Delivery
    <2> QED BY <1>3, <1>6, <1>7, <2>1, <2>2, <2>3 DEF Delivery
  <1>10. Clocks'
    <2>1. \A m \in Nonces : call'[m] # "new" => ts'[m] <= time' + Ahead
      BY <1>1, <1>2, <1>5 DEF Clocks
    <2> QED BY <1>1, <1>2, <1>3, <2>1 DEF Clocks
  <1>11. SpentIsKnown' /\ LetInOnce'
    BY <1>1, <1>2, <1>3 DEF SpentIsKnown, Spent, Remembered, Expired, LetInOnce
  <1> QED BY <1>1, <1>2, <1>8, <1>9, <1>10, <1>11 DEF GateInv

\* A thread reads the clock and verifies the request's window.
LEMMA ArriveGateInv ==
    ASSUME GateInv, NEW h \in Slots, NEW n \in Nonces, Arrive(h, n)
    PROVE  GateInv'
  <1>1. /\ TypeOK /\ IsFiniteSet(seen) /\ Delivery /\ Clocks /\ SpentIsKnown /\ LetInOnce
    BY DEF GateInv
  <1>2. /\ slot[h].at = "free" /\ n \in carried /\ time - ts[n] <= MaxClockSkew
        /\ slot' = [slot EXCEPT ![h] = [at |-> "verified", nonce |-> n, now |-> time]]
        /\ UNCHANGED <<call, ts, queued, carried, time, seen, results, runs, ran, restarts>>
    BY DEF Arrive, Timely, tableVars
  <1>3. /\ slot'[h].at = "verified" /\ slot'[h].nonce = n /\ slot'[h].now = time
        /\ \A k \in Slots \ {h} : slot'[k] = slot[k]
    BY <1>1, <1>2 DEF TypeOK
  <1>4. TypeOK'
    BY <1>1, <1>2 DEF TypeOK
  <1>5. Delivery'
    BY <1>1, <1>2, <1>3 DEF Delivery
  <1>6. Clocks'
    <2>1. time \in Nat /\ ts[n] <= time + Ahead
      BY <1>1, <1>2, Bounds DEF TypeOK, Delivery, Clocks
    <2>2. ASSUME NEW k \in Slots, slot'[k].at = "verified"
          PROVE  /\ slot'[k].now <= time'
                 /\ time' - slot'[k].now <= MaxDelay
                 /\ slot'[k].now - ts'[slot'[k].nonce] <= MaxClockSkew
                 /\ ts'[slot'[k].nonce] <= slot'[k].now + Ahead
      <3>1. CASE k = h
        BY <1>2, <1>3, <2>1, <3>1, Bounds
      <3>2. CASE k # h
        BY <1>1, <1>2, <1>3, <2>2, <3>2 DEF Clocks
      <3> QED BY <3>1, <3>2
    <2> QED BY <1>1, <1>2, <2>2 DEF Clocks
  <1>7. SpentIsKnown' /\ LetInOnce'
    <2>1. \A k \in Slots : slot'[k].at = "admitted" => k # h /\ slot'[k] = slot[k]
      BY <1>3
    <2>2. \A m \in Nonces : Spent(m)' => Spent(m)
      BY <1>2, <2>1 DEF Spent
    <2> QED BY <1>1, <1>2, <2>1, <2>2 DEF SpentIsKnown, Remembered, Expired, LetInOnce
  <1> QED BY <1>1, <1>2, <1>4, <1>5, <1>6, <1>7 DEF GateInv

\* A thread that is turned away leaves no trace but a free slot (the limiter).
LEMMA RateLimitedGateInv ==
    ASSUME GateInv, NEW h \in Slots, RateLimited(h)
    PROVE  GateInv'
  <1>1. /\ TypeOK /\ IsFiniteSet(seen) /\ Delivery /\ Clocks /\ SpentIsKnown /\ LetInOnce
    BY DEF GateInv
  <1>2. /\ slot' = [slot EXCEPT ![h] = Free]
        /\ UNCHANGED <<call, ts, queued, carried, time, seen, results, runs, ran, restarts>>
    BY DEF RateLimited, tableVars
  <1>3. /\ slot'[h].at = "free"
        /\ \A k \in Slots \ {h} : slot'[k] = slot[k]
    BY <1>1, <1>2 DEF TypeOK, Free
  <1>4. TypeOK'
    BY <1>1, <1>2, Bounds DEF TypeOK, Free
  <1>5. Delivery' /\ Clocks'
    BY <1>1, <1>2, <1>3 DEF Delivery, Clocks
  <1>6. \A m \in Nonces : Spent(m)' => Spent(m)
    BY <1>2, <1>3 DEF Spent
  <1>7. SpentIsKnown' /\ LetInOnce'
    BY <1>1, <1>2, <1>3, <1>6 DEF SpentIsKnown, Remembered, Expired, LetInOnce
  <1> QED BY <1>1, <1>2, <1>4, <1>5, <1>7 DEF GateInv

\* What a sweep drops is expired: its entry was made at most Ahead before the
\* timestamp, and the thread's clock has passed it by two skews.
LEMMA SweptIsExpired ==
    ASSUME GateInv, NEW h \in Slots, slot[h].at = "verified",
           NEW e \in seen, e \notin Sweep(slot[h].now)
    PROVE  /\ Expired(e.nonce)
           /\ e.nonce # slot[h].nonce
  <1>1. /\ e.nonce \in Nonces /\ e.at \in Nat /\ ts[e.nonce] \in Int /\ time \in Nat
        /\ slot[h].now \in Nat
    <2>1. slot[h].now \in Nat
      BY SlotType DEF GateInv
    <2>2. e \in [nonce : Nonces, at : 0..MaxTime] /\ ts \in [Nonces -> Int] /\ time \in 0..MaxTime
      BY DEF GateInv, TypeOK
    <2>3. e.nonce \in Nonces /\ e.at \in 0..MaxTime
      BY <2>2
    <2>4. ts[e.nonce] \in Int
      BY <2>2, <2>3
    <2>5. MaxTime \in Nat
      BY Bounds
    <2> QED BY <2>1, <2>2, <2>3, <2>4, <2>5
  <1>2. /\ ts[e.nonce] <= e.at + Ahead /\ slot[h].now <= time
        /\ slot[h].now - ts[slot[h].nonce] <= MaxClockSkew
    BY DEF GateInv, Clocks
  <1>3. slot[h].now - e.at > 2 * MaxClockSkew
    BY <1>1, Bounds DEF Sweep
  <1>4. Expired(e.nonce)
    BY <1>1, <1>2, <1>3, Bounds DEF Expired
  <1>5. e.nonce # slot[h].nonce
    BY <1>1, <1>2, <1>3, Bounds
  <1> QED BY <1>4, <1>5

\* NonceCache.Use lets a request in only if this process never did: the cache
\* still knows every spent nonce a thread may hold.
LEMMA UseGateInv ==
    ASSUME GateInv, NEW h \in Slots, Use(h)
    PROVE  GateInv'
  <1> DEFINE n == slot[h].nonce
             kept == Sweep(slot[h].now)
             entry == [nonce |-> n, at |-> slot[h].now]
  <1>1. /\ TypeOK /\ IsFiniteSet(seen) /\ Delivery /\ Clocks /\ SpentIsKnown /\ LetInOnce
    BY DEF GateInv
  <1>2. /\ slot[h].at = "verified"
        /\ UNCHANGED <<call, ts, queued, carried, time, results, runs, ran, restarts>>
    BY DEF Use, tableVars
  <1>3. /\ n \in carried /\ n \in Nonces /\ slot[h].now \in 0..MaxTime
        /\ ts[n] <= slot[h].now + Ahead
    BY <1>1, <1>2, SlotType DEF Delivery, Clocks, TypeOK
  <1>4. /\ kept \subseteq seen /\ IsFiniteSet(kept)
        /\ Cardinality(kept) \in Nat /\ Cardinality(kept) <= Cap
    <2>1. kept \in SUBSET seen
      BY DEF Sweep
    <2>2. /\ IsFiniteSet(kept) /\ Cardinality(kept) <= Cardinality(seen)
      BY <1>1, <2>1, FS_Subset
    <2>3. Cardinality(seen) \in Nat /\ Cardinality(kept) \in Nat
      BY <1>1, <2>2, FS_CardinalityType
    <2>4. Cardinality(seen) <= Cap
      BY <1>1 DEF TypeOK
    <2> HIDE DEF kept
    <2> QED BY <2>1, <2>2, <2>3, <2>4, Bounds
  <1>5. \A e \in seen \ kept : Expired(e.nonce) /\ e.nonce # n
    BY <1>2, SweptIsExpired
  <1>6. ASSUME NEW m \in Nonces, Remembered(m), kept \subseteq seen'
        PROVE  Remembered(m)' \/ Expired(m)'
    BY <1>2, <1>5, <1>6 DEF Remembered, Expired
  <1>7. CASE Full(kept) \/ \E e \in kept : e.nonce = n
    <2>1. seen' = kept /\ slot' = [slot EXCEPT ![h] = Free]
      BY <1>7 DEF Use
    <2>2. /\ slot'[h].at = "free"
          /\ \A k \in Slots \ {h} : slot'[k] = slot[k]
      BY <1>1, <2>1 DEF TypeOK, Free
    <2> HIDE DEF kept
    <2>3. TypeOK'
      BY <1>1, <1>2, <1>4, <2>1, Bounds DEF TypeOK, Free
    <2>4. Delivery' /\ Clocks'
      BY <1>1, <1>2, <1>4, <2>1, <2>2 DEF Delivery, Clocks
    <2>5. \A m \in Nonces : Spent(m)' => Spent(m)
      BY <1>2, <2>2 DEF Spent
    <2>6. SpentIsKnown'
      BY <1>1, <1>2, <1>6, <2>1, <2>5 DEF SpentIsKnown, Expired
    <2>7. LetInOnce'
      BY <1>1, <1>2, <2>2 DEF LetInOnce
    <2> QED BY <1>1, <1>2, <1>4, <2>1, <2>3, <2>4, <2>6, <2>7 DEF GateInv
  <1>8. CASE ~(Full(kept) \/ \E e \in kept : e.nonce = n)
    <2>1. seen' = kept \cup {entry} /\ slot' = [slot EXCEPT ![h].at = "admitted"]
      BY <1>8 DEF Use
    <2>2. /\ slot'[h].at = "admitted" /\ slot'[h].nonce = n
          /\ \A k \in Slots \ {h} : slot'[k] = slot[k]
      BY <1>1, <2>1 DEF TypeOK
    <2>3. IsFiniteSet(seen') /\ Cardinality(seen') <= Cap
      <3>1. Cardinality(kept) < Cap
        BY <1>4, <1>8, Bounds DEF Full
      <3>2. IsFiniteSet(seen') /\ (\/ Cardinality(seen') = Cardinality(kept)
                                   \/ Cardinality(seen') = Cardinality(kept) + 1)
        <4> HIDE DEF kept, entry
        <4> QED BY <1>4, <2>1, FS_AddElement
      <3> HIDE DEF kept
      <3> QED BY <1>4, <3>1, <3>2, Bounds
    <2>4. TypeOK'
      <3>1. entry \in [nonce : Nonces, at : 0..MaxTime]
        BY <1>3
      <3> HIDE DEF kept, entry
      <3>2. slot' \in [Slots -> [at : {"free", "verified", "admitted"},
                                nonce : {0} \cup Nonces, now : 0..MaxTime]]
        BY <1>1, <2>1 DEF TypeOK
      <3>3. seen' \subseteq [nonce : Nonces, at : 0..MaxTime]
        BY <1>1, <1>4, <2>1, <3>1 DEF TypeOK
      <3> QED BY <1>1, <1>2, <2>3, <3>2, <3>3 DEF TypeOK
    <2>5. Delivery'
      BY <1>1, <1>2, <1>3, <2>2 DEF Delivery
    <2>6. Clocks'
      <3>1. \A k \in Slots : slot'[k].at = "verified" => k # h /\ slot'[k] = slot[k]
        BY <2>2
      <3>2. \A e \in seen' : e.nonce \in carried /\ ts[e.nonce] <= e.at + Ahead
        <4>1. entry.nonce = n /\ entry.at = slot[h].now
          OBVIOUS
        <4> HIDE DEF kept, entry, n
        <4> QED BY <1>1, <1>3, <1>4, <2>1, <4>1 DEF Clocks
      <3> QED BY <1>1, <1>2, <3>1, <3>2 DEF Clocks
    <2>7. ~Spent(n)
      <3>1. ~Remembered(n)
        BY <1>5, <1>8 DEF Remembered
      <3>2. ~Expired(n)
        <4>1. /\ ts[n] \in Int /\ time \in Nat /\ slot[h].now \in Nat
          <5>1. ts \in [Nonces -> Int] /\ time \in 0..MaxTime
            BY <1>1 DEF TypeOK
          <5>2. MaxTime \in Nat
            BY Bounds
          <5> HIDE DEF n
          <5> QED BY <1>3, <5>1, <5>2
        <4>2. time - slot[h].now <= MaxDelay /\ slot[h].now - ts[n] <= MaxClockSkew
          BY <1>1, <1>2 DEF Clocks
        <4> HIDE DEF n
        <4> QED BY <4>1, <4>2, Bounds DEF Expired
      <3> QED BY <1>1, <1>3, <3>1, <3>2 DEF SpentIsKnown
    <2>8. SpentIsKnown'
      <3> SUFFICES ASSUME NEW m \in Nonces, Spent(m)'
                   PROVE  m \in carried' /\ (Remembered(m)' \/ Expired(m)')
        BY DEF SpentIsKnown
      <3>1. CASE m = n
        <4>1. entry \in seen' /\ entry.nonce = n
          BY <2>1
        <4>2. Remembered(m)'
          BY <3>1, <4>1 DEF Remembered
        <4> QED BY <1>2, <1>3, <3>1, <4>2
      <3>2. CASE m # n
        <4>1. Spent(m)
          BY <1>2, <2>2, <3>2 DEF Spent
        <4>2. kept \subseteq seen'
          BY <2>1
        <4> HIDE DEF kept, n
        <4> QED BY <1>1, <1>2, <1>6, <4>1, <4>2 DEF SpentIsKnown, Expired
      <3> QED BY <3>1, <3>2
    <2>9. LetInOnce'
      <3>1. runs[n] = 0 /\ \A k \in Slots : ~(slot[k].at = "admitted" /\ slot[k].nonce = n)
        BY <2>7 DEF Spent
      <3> HIDE DEF n
      <3> QED BY <1>1, <1>2, <2>2, <3>1 DEF LetInOnce
    <2> QED BY <1>1, <1>2, <2>3, <2>4, <2>5, <2>6, <2>8, <2>9 DEF GateInv
  <1> QED BY <1>7, <1>8

\* The handler runs for the one thread that was let in.
LEMMA HandleGateInv ==
    ASSUME GateInv, NEW h \in Slots, Handle(h)
    PROVE  GateInv'
  <1> DEFINE n == slot[h].nonce
  <1>1. /\ TypeOK /\ IsFiniteSet(seen) /\ Delivery /\ Clocks /\ SpentIsKnown /\ LetInOnce
    BY DEF GateInv
  <1>2. /\ slot[h].at = "admitted" /\ slot' = [slot EXCEPT ![h] = Free]
        /\ runs' = [runs EXCEPT ![n] = @ + 1]
        /\ ran' = ran \cup {n} /\ results' \in {results, results \cup {n}}
        /\ UNCHANGED <<call, ts, queued, carried, time, seen, restarts>>
    BY DEF Handle, tableVars
  <1>3. n \in carried /\ n \in Nonces /\ runs[n] = 0
    BY <1>1, <1>2 DEF Delivery, TypeOK, LetInOnce
  <1> HIDE DEF n
  <1>4. /\ slot'[h].at = "free"
        /\ \A k \in Slots \ {h} : slot'[k] = slot[k]
        /\ runs'[n] = 1 /\ \A m \in Nonces \ {n} : runs'[m] = runs[m]
    BY <1>1, <1>2, <1>3 DEF TypeOK, Free
  <1>5. TypeOK'
    <2>1. runs' \in [Nonces -> Nat]
      BY <1>1, <1>2, <1>3 DEF TypeOK
    <2>2. results' \subseteq ran' /\ ran' \subseteq Nonces
      BY <1>1, <1>2, <1>3 DEF TypeOK
    <2>3. slot' \in [Slots -> [at : {"free", "verified", "admitted"},
                              nonce : {0} \cup Nonces, now : 0..MaxTime]]
      BY <1>1, <1>2, Bounds DEF TypeOK, Free
    <2> QED BY <1>1, <1>2, <2>1, <2>2, <2>3 DEF TypeOK
  <1>6. Delivery'
    BY <1>1, <1>2, <1>3, <1>4 DEF Delivery
  <1>7. Clocks'
    BY <1>1, <1>2, <1>4 DEF Clocks
  <1>8. \A m \in Nonces : Spent(m)' => Spent(m)
    BY <1>2, <1>4 DEF Spent, n
  <1>9. SpentIsKnown'
    BY <1>1, <1>2, <1>8 DEF SpentIsKnown, Remembered, Expired
  <1>10. LetInOnce'
    <2>1. \A m \in Nonces : runs'[m] <= 1
      BY <1>1, <1>4 DEF LetInOnce
    <2>2. ASSUME NEW j \in Slots, NEW k \in Slots, slot'[j].at = "admitted"
          PROVE  /\ runs'[slot'[j].nonce] = 0
                 /\ slot'[k].at = "admitted" /\ slot'[k].nonce = slot'[j].nonce => k = j
      <3>1. j # h /\ slot'[j] = slot[j] /\ slot[j].nonce \in Nonces
        BY <1>1, <1>4, <2>2 DEF Delivery, TypeOK
      <3>2. slot[j].nonce # n
        BY <1>1, <1>2, <2>2, <3>1 DEF LetInOnce, n
      <3> QED BY <1>1, <1>4, <2>2, <3>1, <3>2 DEF LetInOnce
    <2> QED BY <2>1, <2>2 DEF LetInOnce
  <1> QED BY <1>1, <1>2, <1>5, <1>6, <1>7, <1>9, <1>10 DEF GateInv

\* A restart forgets the cache and with it everything this process did.
LEMMA RestartGateInv ==
    ASSUME GateInv, Restart
    PROVE  GateInv'
  <1>1. /\ TypeOK /\ Delivery /\ Clocks
    BY DEF GateInv
  <1>2. /\ slot' = [h \in Slots |-> Free] /\ seen' = {} /\ runs' = [n \in Nonces |-> 0]
        /\ restarts' = restarts + 1 /\ restarts < MaxRestarts
        /\ UNCHANGED <<call, ts, queued, carried, time, results, ran>>
    BY DEF Restart, tableVars
  <1>3. IsFiniteSet(seen') /\ Cardinality(seen') = 0
    BY <1>2, FS_EmptySet
  <1>4. (\A h \in Slots : slot'[h].at = "free") /\ (\A n \in Nonces : runs'[n] = 0)
    BY <1>2 DEF Free
  <1>5. TypeOK'
    BY <1>1, <1>2, <1>3, Bounds DEF TypeOK, Free
  <1>6. Delivery' /\ Clocks'
    BY <1>1, <1>2, <1>4 DEF Delivery, Clocks
  <1>7. SpentIsKnown' /\ LetInOnce'
    BY <1>4 DEF SpentIsKnown, Spent, LetInOnce
  <1> QED BY <1>3, <1>5, <1>6, <1>7 DEF GateInv

\* Time passes; what has expired stays so.
LEMMA TickGateInv ==
    ASSUME GateInv, Tick
    PROVE  GateInv'
  <1>1. /\ TypeOK /\ IsFiniteSet(seen) /\ Delivery /\ Clocks /\ SpentIsKnown /\ LetInOnce
    BY DEF GateInv
  <1>2. /\ time < MaxTime /\ time' = time + 1
        /\ \A h \in Slots : slot[h].at = "verified" => time - slot[h].now < MaxDelay
        /\ UNCHANGED <<call, ts, queued, carried, slot, seen, results, runs, ran, restarts>>
    BY DEF Tick, tableVars, walletVars
  <1>3. time \in Nat /\ time' \in 0..MaxTime
    BY <1>1, <1>2, Bounds DEF TypeOK
  <1>4. TypeOK'
    BY <1>1, <1>2, <1>3 DEF TypeOK
  <1>5. Delivery' /\ LetInOnce'
    BY <1>1, <1>2 DEF Delivery, LetInOnce
  <1>6. Clocks'
    <2>1. ASSUME NEW n \in Nonces, call'[n] # "new" PROVE ts'[n] <= time' + Ahead
      <3>1. ts[n] \in Int /\ ts[n] <= time + Ahead
        BY <1>1, <1>2, <2>1 DEF TypeOK, Clocks
      <3> QED BY <1>2, <1>3, <3>1, Bounds
    <2>2. ASSUME NEW h \in Slots, slot'[h].at = "verified"
          PROVE  /\ slot'[h].now <= time'
                 /\ time' - slot'[h].now <= MaxDelay
                 /\ slot'[h].now - ts'[slot'[h].nonce] <= MaxClockSkew
                 /\ ts'[slot'[h].nonce] <= slot'[h].now + Ahead
      <3>1. slot[h].now \in Nat
        BY <1>1, SlotType
      <3>2. /\ slot[h].now <= time /\ time - slot[h].now < MaxDelay
            /\ slot[h].now - ts[slot[h].nonce] <= MaxClockSkew
            /\ ts[slot[h].nonce] <= slot[h].now + Ahead
        BY <1>1, <1>2, <2>2 DEF Clocks
      <3> QED BY <1>2, <1>3, <3>1, <3>2, Bounds
    <2>3. \A e \in seen' : e.nonce \in carried' /\ ts'[e.nonce] <= e.at + Ahead
      BY <1>1, <1>2 DEF Clocks
    <2> QED BY <2>1, <2>2, <2>3 DEF Clocks
  <1>7. SpentIsKnown'
    <2> SUFFICES ASSUME NEW n \in Nonces, Spent(n)'
                 PROVE  n \in carried' /\ (Remembered(n)' \/ Expired(n)')
      BY DEF SpentIsKnown
    <2>1. n \in carried /\ (Remembered(n) \/ Expired(n))
      BY <1>1, <1>2 DEF SpentIsKnown, Spent
    <2>2. Remembered(n)' = Remembered(n)
      BY <1>2 DEF Remembered
    <2>3. Expired(n) => Expired(n)'
      <3>1. ts[n] \in Int
        BY <1>1 DEF TypeOK
      <3> QED BY <1>2, <1>3, <3>1, Bounds DEF Expired
    <2> QED BY <1>2, <2>1, <2>2, <2>3
  <1> QED BY <1>1, <1>2, <1>4, <1>5, <1>6, <1>7 DEF GateInv

\* GateInv is an invariant of the gate.
THEOREM GateInvariant == Spec => []GateInv
  <1>1. GateInv /\ [Next]_vars => GateInv'
    <2> SUFFICES ASSUME GateInv, [Next]_vars PROVE GateInv'
      OBVIOUS
    <2>1. CASE UNCHANGED vars
      <3>1. UNCHANGED <<call, ts, queued, carried, time, slot, seen, results, runs, ran, restarts>>
        BY <2>1 DEF vars, tableVars, walletVars
      <3>2. TypeOK' /\ Delivery' /\ Clocks'
        BY <3>1 DEF GateInv, TypeOK, Delivery, Clocks
      <3>3. SpentIsKnown' /\ LetInOnce'
        BY <3>1 DEF GateInv, SpentIsKnown, Spent, Remembered, Expired, LetInOnce
      <3> QED BY <3>1, <3>2, <3>3 DEF GateInv
    <2>2. ASSUME NEW n \in Nonces, Ask(n) PROVE GateInv'
      BY <2>2, AskGateInv
    <2>3. CASE Collect \/ \E n \in Nonces : GiveUp(n) \/ Deliver(n) \/ DeliverError(n)
      BY <2>3, RelayGateInv
    <2>4. ASSUME NEW h \in Slots, WalletStep(h) PROVE GateInv'
      BY <2>4, ArriveGateInv, RateLimitedGateInv, UseGateInv, HandleGateInv DEF WalletStep
    <2>5. CASE Restart
      BY <2>5, RestartGateInv
    <2>6. CASE Tick
      BY <2>6, TickGateInv
    <2> QED BY <2>1, <2>2, <2>3, <2>4, <2>5, <2>6 DEF Next
  <1> QED BY InitGateInv, <1>1, PTL DEF Spec

\* The gate's types; the nonce cache never outgrows its limit.
THEOREM GateTypeTheorem == Spec => []TypeOK
  <1>1. GateInv => TypeOK
    BY DEF GateInv
  <1> QED BY GateInvariant, <1>1, PTL

\* A wallet process runs a request at most once, however many copies arrive and
\* although the cache forgets (ServeHTTP, NonceCache.Use).
THEOREM ServedOnceTheorem == Spec => []ServedOnce
  <1>1. GateInv => ServedOnce
    BY DEF GateInv, LetInOnce, ServedOnce
  <1> QED BY GateInvariant, <1>1, PTL

\* A call returns a result only if the wallet ran that very request
\* (Coordinator.call, VerifyResponse).
THEOREM AnsweredTheorem == Spec => []AnsweredMeansServed
  <1>1. GateInv => AnsweredMeansServed
    BY DEF GateInv, Delivery, AnsweredMeansServed
  <1> QED BY GateInvariant, <1>1, PTL

\* A call given up before the page collected it never reaches the wallet
\* (Relay.Do, Collect).
THEOREM AbandonedTheorem == Spec => []AbandonedStaysHome
  <1>1. GateInv => AbandonedStaysHome
    BY DEF GateInv, Delivery, AbandonedStaysHome
  <1> QED BY GateInvariant, <1>1, PTL
=============================================================================
