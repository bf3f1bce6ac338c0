-------------------------- MODULE LiveTableProofs ---------------------------
(***************************************************************************)
(* What the playable table promises, for any number of players and seats:  *)
(* a hand for value is played on an open pot and the wallets' deal, a      *)
(* settlement that is shown is real, and a table never falls back from     *)
(* the wallets' deal to its own shuffle.                                   *)
(*                                                                         *)
(* The lock is let go of around every call of the loop, so the argument is *)
(* LiveInv: for each place where the loop may be waiting, what the         *)
(* requests that come in meanwhile can no longer change.                   *)
(***************************************************************************)
EXTENDS LiveTable, TLAPS

\* The table is full and every seat has a wallet, for good.
Equipped == Len(seats) = N /\ Seated \subseteq agents

\* From the moment a hand may start the seats are fixed.
SeatsFixed ==
    /\ st # "none" \/ readyToStart \/ pc \notin {"poll", "ended"} => Len(seats) = N
    /\ openPot \/ dealerless \/ pc = "opened" => Equipped

\* Where the loop is, and the hand it is there for.
LoopPlace ==
    /\ readyToStart \/ openPot => forValue
    /\ pc \in {"height", "opening", "opened", "dealing"} => forValue /\ st = "none"
    /\ pc \in {"applying", "applied", "prepare", "settled"} => forValue /\ st = "over"
    /\ pc = "next" => ~forValue
    /\ forValue /\ pc = "exit" => st = "over"
    /\ forValue /\ st = "playing" => openPot /\ dealerless /\ pc = "poll"

\* Where the pot is while the loop is there.
PotPlace ==
    /\ openPot => pot \in {"unspent", "refunded"} \/ (pot = "settled" /\ pc = "settled")
    /\ pc = "opening" => ~openPot
    /\ pc = "opened" => pot \in {"unspent", "refunded"}
    /\ pc = "dealing" => openPot
    /\ pc = "settled" => pot = "settled"
    /\ settled => pc = "ended" /\ pot = "settled"
    /\ \A s \in Seats : money[s].txid => settled

LiveInv == TypeOK /\ SeatsFixed /\ LoopPlace /\ PotPlace

-----------------------------------------------------------------------------
\* The flags are Boolean.
LEMMA Flags ==
    ASSUME TypeOK
    PROVE  /\ forValue \in BOOLEAN /\ short \in BOOLEAN /\ dealerless \in BOOLEAN
           /\ readyToStart \in BOOLEAN /\ openPot \in BOOLEAN /\ settled \in BOOLEAN
           /\ stalled \in BOOLEAN
  BY Zenon DEF TypeOK

\* An identity's seat is one of the table's.
LEMMA SeatOfType ==
    ASSUME TypeOK, NEW p \in Seated
    PROVE  SeatOf(p) \in Seats
  <1>1. PICK i \in DOMAIN seats : seats[i] = p
    BY DEF Seated, ToSet
  <1>2. (CHOOSE j \in DOMAIN seats : seats[j] = p) \in DOMAIN seats
    BY <1>1
  <1>3. DOMAIN seats = 1..Len(seats) /\ Len(seats) \in Nat /\ Len(seats) <= N
    BY DEF TypeOK
  <1> QED BY <1>2, <1>3, LiveConstants DEF SeatOf, Seats

\* With every wallet there the deck is the wallets' or none (buildDeckLocked).
LEMMA EquippedDeals ==
    ASSUME Equipped
    PROVE  BuildDeck = {"wallets", "failed"}
  BY DEF Equipped, BuildDeck, Endpoints

\* The states of the money keep their shape.
LEMMA MoneyTypes ==
    ASSUME TypeOK
    PROVE  /\ \A s \in Seats :
                /\ Committed(RefundHeld(money[s]))
                     \in [phase : MoneyPhases, refundHeld : BOOLEAN, txid : BOOLEAN]
                /\ Committed(RefundHeld(money[s])).txid = money[s].txid
           /\ \A b \in BOOLEAN :
                /\ Settled(b) \in [Seats -> [phase : MoneyPhases, refundHeld : BOOLEAN, txid : BOOLEAN]]
                /\ \A s \in Seats : Settled(b)[s].txid = b
  <1>1. ASSUME NEW s \in Seats
        PROVE  /\ Committed(RefundHeld(money[s]))
                    \in [phase : MoneyPhases, refundHeld : BOOLEAN, txid : BOOLEAN]
               /\ Committed(RefundHeld(money[s])).txid = money[s].txid
    <2>1. money[s] \in [phase : MoneyPhases, refundHeld : BOOLEAN, txid : BOOLEAN]
      BY DEF TypeOK
    <2> QED BY <2>1 DEF Committed, RefundHeld, MoneyPhases
  <1>2. ASSUME NEW b \in BOOLEAN
        PROVE  /\ Settled(b) \in [Seats -> [phase : MoneyPhases, refundHeld : BOOLEAN, txid : BOOLEAN]]
               /\ \A s \in Seats : Settled(b)[s].txid = b
    BY DEF TypeOK, Settled, MoneyPhases
  <1> QED BY <1>1, <1>2

\* The empty table.
LEMMA InitLiveInv == Init => LiveInv
  <1> SUFFICES ASSUME Init PROVE LiveInv
    OBVIOUS
  <1>1. {short, dealerless, readyToStart, openPot, settled, stalled} \subseteq BOOLEAN
    BY Zenon DEF Init
  <1>2. seats \in Seq(Players) /\ Len(seats) <= N /\ IsInjective(seats)
    BY LiveConstants DEF Init, IsInjective
  <1>3. [phase |-> "uncommitted", refundHeld |-> FALSE, txid |-> FALSE]
          \in [phase : MoneyPhases, refundHeld : BOOLEAN, txid : BOOLEAN]
    BY DEF MoneyPhases
  <1>4. TypeOK
    BY <1>1, <1>2, <1>3 DEF Init, TypeOK, Seated, ToSet
  <1>5. ~readyToStart /\ ~openPot /\ ~dealerless /\ ~settled
    BY Zenon DEF Init
  <1>6. SeatsFixed /\ LoopPlace
    BY <1>5 DEF Init, SeatsFixed, LoopPlace
  <1>7. PotPlace
    <2>1. \A s \in Seats : ~money[s].txid
      BY DEF Init
    <2> QED BY <1>5, <2>1 DEF Init, PotPlace
  <1> QED BY <1>4, <1>6, <1>7 DEF LiveInv

\* Taking a seat: only before the first hand, and never a second one.
LEMMA JoinLiveInv ==
    ASSUME LiveInv, NEW p \in Players, Join(p)
    PROVE  LiveInv'
  <1>1. TypeOK /\ SeatsFixed /\ LoopPlace /\ PotPlace
    BY DEF LiveInv
  <1>2. /\ p \notin Seated /\ Len(seats) < N /\ st = "none" /\ seats' = Append(seats, p)
        /\ UNCHANGED <<forValue, agents, funded, sittingOut, st, short, dealerless, readyToStart,
                       openPot, settled, stalled, money, pc, pot>>
    BY DEF Join, handVars, potVars
  <1>3. /\ Len(seats) \in Nat /\ Len(seats') = Len(seats) + 1 /\ seats' \in Seq(Players)
        /\ DOMAIN seats = 1..Len(seats) /\ DOMAIN seats' = 1..Len(seats')
        /\ \A i \in 1..Len(seats) : seats'[i] = seats[i]
        /\ seats'[Len(seats')] = p
    BY <1>1, <1>2 DEF TypeOK
  <1>4. Seated \subseteq Seated'
    BY <1>3 DEF Seated, ToSet
  <1>5. IsInjective(seats')
    <2> SUFFICES ASSUME NEW i \in 1..Len(seats'), NEW j \in 1..Len(seats'), seats'[i] = seats'[j]
                 PROVE  i = j
      BY <1>3 DEF IsInjective
    <2>1. \A k \in 1..Len(seats) : seats[k] # p
      BY <1>2, <1>3 DEF Seated, ToSet
    <2>2. \A k, l \in 1..Len(seats) : seats[k] = seats[l] => k = l
      BY <1>1, <1>3 DEF TypeOK, IsInjective
    <2> QED BY <1>3, <2>1, <2>2
  <1>6. Len(seats') <= N
    BY <1>2, <1>3, LiveConstants
  <1>7. TypeOK'
    BY <1>1, <1>2, <1>3, <1>4, <1>5, <1>6 DEF TypeOK
  <1>8. ~readyToStart /\ ~openPot /\ ~dealerless /\ pc \in {"poll", "ended"}
    BY <1>1, <1>2, <1>3, LiveConstants DEF SeatsFixed, Equipped
  <1>9. SeatsFixed' /\ LoopPlace' /\ PotPlace'
    BY <1>1, <1>2, <1>8 DEF SeatsFixed, LoopPlace, PotPlace
  <1> QED BY <1>7, <1>9 DEF LiveInv

\* Registering a wallet and asking to leave: neither undoes anything.
LEMMA RegisterLiveInv ==
    ASSUME LiveInv, NEW p \in Players, RegisterAgent(p) \/ SitOut(p)
    PROVE  LiveInv'
  <1>1. TypeOK /\ SeatsFixed /\ LoopPlace /\ PotPlace
    BY DEF LiveInv
  <1>2. /\ p \in Seated
        /\ agents' \in {agents, agents \cup {p}} /\ sittingOut' \in {sittingOut, sittingOut \cup {p}}
        /\ UNCHANGED <<forValue, seats, funded, st, short, dealerless, readyToStart,
                       openPot, settled, stalled, money, pc, pot>>
    BY DEF RegisterAgent, SitOut, handVars, potVars
  <1>3. Seated' = Seated
    BY <1>2 DEF Seated
  <1>4. TypeOK'
    BY <1>1, <1>2, <1>3 DEF TypeOK
  <1>5. SeatsFixed' /\ LoopPlace' /\ PotPlace'
    BY <1>1, <1>2, <1>3 DEF SeatsFixed, Equipped, LoopPlace, PotPlace
  <1> QED BY <1>4, <1>5 DEF LiveInv

\* Dealing: a deal gives a hand or none, through the wallets where they are all
\* there.
LEMMA DealResult ==
    ASSUME TypeOK, NEW d \in BuildDeck, DealLocked(d)
    PROVE  /\ st' \in {"none", "playing"} /\ dealerless' \in BOOLEAN
           /\ st' = "none" <=> d = "failed"
           /\ Equipped /\ d # "failed" => dealerless'
           /\ Equipped /\ dealerless => dealerless'
           /\ dealerless' => dealerless \/ d = "wallets"
  <1>1. d \in {"wallets", "local", "failed"}
    BY DEF BuildDeck
  <1>2. Equipped => d # "local"
    BY EquippedDeals
  <1>3. CASE d = "failed"
    <2>1. st' = "none" /\ dealerless' = dealerless
      BY <1>3 DEF DealLocked
    <2> QED BY <1>3, <2>1, Flags
  <1>4. CASE d # "failed"
    <2>1. st' = "playing" /\ dealerless' = (d = "wallets")
      BY <1>4 DEF DealLocked
    <2> QED BY <1>1, <1>2, <1>4, <2>1
  <1> QED BY <1>3, <1>4

\* Only the wallets' deal sets the mark, and then every seat has one.
LEMMA WalletsDealEquipped ==
    ASSUME TypeOK, Len(seats) = N, "wallets" \in BuildDeck
    PROVE  Equipped
  <1>1. Endpoints = Seated
    BY DEF BuildDeck
  <1>2. 1 \in DOMAIN seats
    BY LiveConstants DEF TypeOK
  <1>3. Seated # {}
    BY <1>2 DEF Seated, ToSet
  <1> QED BY <1>1, <1>3 DEF Equipped, Endpoints

\* Declaring ready: for value the loop is told, for chips the hand is dealt.
LEMMA ReadyLiveInv ==
    ASSUME LiveInv, NEW p \in Players, Ready(p)
    PROVE  LiveInv'
  <1>1. TypeOK /\ SeatsFixed /\ LoopPlace /\ PotPlace
    BY DEF LiveInv
  <1>2. /\ p \in Seated /\ funded' = funded \cup {p}
        /\ money' = [money EXCEPT ![SeatOf(p)] = Committed(RefundHeld(@))]
        /\ UNCHANGED <<forValue, seats, agents, sittingOut, short, openPot, settled, stalled, pc, pot>>
    BY DEF Ready, MarkReady
  <1>3. Seated' = Seated /\ Equipped' = Equipped
    BY <1>2 DEF Seated, Equipped
  <1>4. /\ money' \in [Seats -> [phase : MoneyPhases, refundHeld : BOOLEAN, txid : BOOLEAN]]
        /\ \A s \in Seats : money'[s].txid = money[s].txid
    <2>1. SeatOf(p) \in Seats
      BY <1>1, <1>2, SeatOfType
    <2>2. money \in [Seats -> [phase : MoneyPhases, refundHeld : BOOLEAN, txid : BOOLEAN]]
      BY <1>1 DEF TypeOK
    <2> DEFINE M == [phase : MoneyPhases, refundHeld : BOOLEAN, txid : BOOLEAN]
               v == Committed(RefundHeld(money[SeatOf(p)]))
    <2>3. v \in M /\ v.txid = money[SeatOf(p)].txid
      BY <1>1, <2>1, MoneyTypes
    <2>4. money' = [money EXCEPT ![SeatOf(p)] = v]
      BY <1>2, <2>1, <2>2
    <2> HIDE DEF M, v
    <2>5. money' \in [Seats -> M] /\ \A s \in Seats : money'[s].txid = money[s].txid
      BY <2>1, <2>2, <2>3, <2>4 DEF M
    <2> QED BY <2>5 DEF M
  <1>5. /\ st' \in {"none", "playing", "over"} /\ dealerless' \in BOOLEAN
        /\ readyToStart' \in BOOLEAN
        /\ (st' # "none" \/ readyToStart') => Len(seats) = N
        /\ readyToStart' => forValue
        /\ forValue => st' = st /\ dealerless' = dealerless
        /\ dealerless' => Equipped
        /\ st # "none" => st' = st
    <2>1. CASE ~MayStart
      <3>1. st' = st /\ dealerless' = dealerless /\ readyToStart' = readyToStart
        BY <2>1 DEF Ready
      <3> QED BY <1>1, <3>1, Flags DEF TypeOK, SeatsFixed, LoopPlace
    <2>2. CASE MayStart /\ forValue
      <3>1. st' = st /\ dealerless' = dealerless /\ readyToStart' = TRUE
        BY <2>2 DEF Ready
      <3> QED BY <1>1, <2>2, <3>1, Flags DEF TypeOK, SeatsFixed, MayStart
    <2>3. CASE MayStart /\ ~forValue
      <3>1. PICK d \in BuildDeck : DealLocked(d)
        BY <2>3 DEF Ready
      <3>2. readyToStart' = readyToStart
        BY <2>3 DEF Ready
      <3>3. st = "none" /\ Len(seats) = N
        BY <2>3 DEF MayStart
      <3>4. dealerless' => Equipped
        BY <1>1, <3>1, <3>3, DealResult, WalletsDealEquipped DEF SeatsFixed
      <3>5. st' \in {"none", "playing"} /\ dealerless' \in BOOLEAN
        BY <1>1, <3>1, DealResult
      <3> QED BY <1>1, <2>3, <3>2, <3>3, <3>4, <3>5, Flags DEF LoopPlace
    <2> QED BY <2>1, <2>2, <2>3
  <1>6. TypeOK'
    <2>1. {short, dealerless, readyToStart, openPot, settled, stalled}' \subseteq BOOLEAN
      BY <1>1, <1>2, <1>5, Flags
    <2> QED BY <1>1, <1>2, <1>3, <1>4, <1>5, <2>1 DEF TypeOK
  <1>7. SeatsFixed'
    BY <1>1, <1>2, <1>3, <1>5 DEF SeatsFixed
  <1>8. LoopPlace'
    BY <1>1, <1>2, <1>5 DEF LoopPlace
  <1>9. PotPlace'
    BY <1>1, <1>2, <1>4 DEF PotPlace
  <1> QED BY <1>6, <1>7, <1>8, <1>9 DEF LiveInv

\* The action that ends a hand: the loop was not in the middle of anything.
LEMMA ActLiveInv ==
    ASSUME LiveInv, NEW p \in Players, Act(p)
    PROVE  LiveInv'
  <1>1. TypeOK /\ SeatsFixed /\ LoopPlace /\ PotPlace
    BY DEF LiveInv
  <1>2. /\ st = "playing" /\ st' = "over" /\ short' \in BOOLEAN /\ money' = Settled(settled)
        /\ UNCHANGED <<forValue, seats, agents, funded, sittingOut, dealerless, readyToStart,
                       openPot, settled, stalled, pc, pot>>
    BY DEF Act, potVars
  <1>3. Seated' = Seated /\ Equipped' = Equipped
    BY <1>2 DEF Seated, Equipped
  <1>4. /\ money' \in [Seats -> [phase : MoneyPhases, refundHeld : BOOLEAN, txid : BOOLEAN]]
        /\ \A s \in Seats : money'[s].txid = settled
    BY <1>1, <1>2, MoneyTypes, Flags
  <1>5. TypeOK'
    <2>1. {short, dealerless, readyToStart, openPot, settled, stalled}' \subseteq BOOLEAN
      BY <1>1, <1>2, Flags
    <2> QED BY <1>1, <1>2, <1>3, <1>4, <2>1 DEF TypeOK
  <1>6. SeatsFixed' /\ LoopPlace'
    BY <1>1, <1>2, <1>3 DEF SeatsFixed, LoopPlace
  <1>7. PotPlace'
    BY <1>1, <1>2, <1>4, Flags DEF PotPlace
  <1> QED BY <1>5, <1>6, <1>7 DEF LiveInv

\* The loop, and a refund that is mined, leave the seats and wallets alone.
LEMMA LoopFrame ==
    ASSUME TypeOK, LoopStep \/ Refund
    PROVE  /\ UNCHANGED <<forValue, seats, agents, funded, sittingOut, short>>
           /\ Seated' = Seated /\ Equipped' = Equipped
  <1>1. UNCHANGED <<forValue, seats, agents, funded, sittingOut, short>>
    BY DEF LoopStep, Refund, Poll, ReadHeight, HeightFails, OpenPot, OpenPotFails, PotOpened,
           StartFundedHand, ApplyHand, ApplyHandFails, HandApplied, PrepareNextHand, NextHand,
           NothingToCashOut, CashOut, CashOutFails, SettlementRecorded, handVars
  <1> QED BY <1>1 DEF Seated, Equipped

\* A loop step that changes only where the loop is, or also gives up: the new
\* place asks nothing more of the hand and the pot than the old one.
LEMMA QuietLoopStep ==
    ASSUME LiveInv, LoopStep \/ Refund,
           UNCHANGED <<st, dealerless, openPot, settled, money>>,
           readyToStart' => readyToStart, readyToStart' \in BOOLEAN, stalled' \in BOOLEAN,
           \/ pc' = "ended" /\ pc \notin {"poll", "settled"} /\ UNCHANGED pot
           \/ pc' = pc /\ pot = "unspent" /\ pot' = "refunded"
           \/ pc = "poll" /\ pc' = "height" /\ UNCHANGED pot /\ PendingStart
           \/ pc = "poll" /\ pc' = "applying" /\ UNCHANGED pot /\ HandOver /\ forValue
           \/ pc = "poll" /\ pc' = "next" /\ UNCHANGED pot /\ HandOver /\ ~forValue
           \/ pc = "height" /\ pc' = "opening" /\ UNCHANGED pot /\ ~openPot
           \/ pc = "height" /\ pc' = "dealing" /\ UNCHANGED pot /\ openPot
           \/ pc = "applying" /\ pc' \in {"applied", "prepare"} /\ UNCHANGED pot
           \/ pc \in {"prepare", "next"} /\ pc' = "exit" /\ UNCHANGED pot
           \/ pc = "opening" /\ pc' = "ended" /\ pot' \in {"none", "stranded"}
           \/ pc = "opening" /\ pc' = "opened" /\ pot' = "unspent" /\ Endpoints # {}
           \/ pc = "exit" /\ pc' = "settled" /\ pot' = "settled" /\ forValue
    PROVE  LiveInv'
  <1>1. TypeOK /\ SeatsFixed /\ LoopPlace /\ PotPlace
    BY DEF LiveInv
  <1>2. /\ UNCHANGED <<forValue, seats, agents, funded, sittingOut, short>>
        /\ Seated' = Seated /\ Equipped' = Equipped
    BY <1>1, LoopFrame
  <1>3. TypeOK'
    <2>1. {short, dealerless, readyToStart, openPot, settled, stalled}' \subseteq BOOLEAN
      BY <1>1, <1>2, Flags
    <2>2. /\ pc' \in {"poll", "height", "opening", "opened", "dealing", "applying", "applied",
                      "prepare", "next", "exit", "settled", "ended"}
          /\ pot' \in {"none", "stranded", "unspent", "settled", "refunded"}
      BY <1>1 DEF TypeOK
    <2> QED BY <1>1, <1>2, <2>1, <2>2 DEF TypeOK
  <1>4. SeatsFixed'
    <2>1. Endpoints # {} => Seated \subseteq agents
      BY DEF Endpoints
    <2> QED BY <1>1, <1>2, <2>1, Flags DEF SeatsFixed, PendingStart, HandOver, Equipped
  <1>5. LoopPlace'
    BY <1>1, <1>2, Flags DEF LoopPlace, PendingStart, HandOver
  <1>6. PotPlace'
    BY <1>1, <1>2, Flags DEF PotPlace
  <1> QED BY <1>3, <1>4, <1>5, <1>6 DEF LiveInv

\* The loop's calls, its failures and its polling.
LEMMA CallsLiveInv ==
    ASSUME LiveInv,
           \/ Poll \/ ReadHeight \/ HeightFails \/ OpenPot \/ OpenPotFails \/ ApplyHand
           \/ ApplyHandFails \/ NothingToCashOut \/ CashOut \/ CashOutFails \/ Refund
    PROVE  LiveInv'
  <1>1. LoopStep \/ Refund
    BY DEF LoopStep
  <1>2. UNCHANGED <<st, dealerless, openPot, settled, money>>
    BY DEF Poll, ReadHeight, HeightFails, OpenPot, OpenPotFails, ApplyHand, ApplyHandFails,
           NothingToCashOut, CashOut, CashOutFails, Refund, handVars, potVars
  <1>3. /\ readyToStart' = readyToStart \/ readyToStart' = FALSE
        /\ stalled' = stalled \/ stalled' = TRUE
    BY DEF Poll, ReadHeight, HeightFails, OpenPot, OpenPotFails, ApplyHand, ApplyHandFails,
           NothingToCashOut, CashOut, CashOutFails, Refund, RecordStall, handVars, potVars
  <1>4. /\ readyToStart' => readyToStart
        /\ readyToStart' \in BOOLEAN /\ stalled' \in BOOLEAN
    <2>1. readyToStart \in BOOLEAN /\ stalled \in BOOLEAN
      BY Flags DEF LiveInv
    <2>2. readyToStart' => readyToStart
      BY <1>3
    <2>3. readyToStart' \in BOOLEAN
      BY <1>3, <2>1
    <2>4. stalled' \in BOOLEAN
      BY <1>3, <2>1
    <2> QED BY <2>2, <2>3, <2>4
  <1>5. CASE Poll
    BY <1>1, <1>2, <1>4, <1>5, QuietLoopStep DEF Poll
  <1>6. CASE ReadHeight
    BY <1>1, <1>2, <1>4, <1>6, QuietLoopStep DEF ReadHeight
  <1>7. CASE OpenPot
    BY <1>1, <1>2, <1>4, <1>7, QuietLoopStep DEF OpenPot
  <1>8. CASE OpenPotFails
    <2>1. pc = "opening" /\ pc' = "ended" /\ pot' \in {"none", "stranded"}
      BY <1>8 DEF OpenPotFails, RecordStall
    <2> QED BY <1>1, <1>2, <1>4, <2>1, QuietLoopStep
  <1>9. CASE HeightFails \/ ApplyHandFails \/ NothingToCashOut \/ CashOutFails
    BY <1>1, <1>2, <1>4, <1>9, QuietLoopStep
    DEF HeightFails, ApplyHandFails, NothingToCashOut, CashOutFails, RecordStall
  <1>10. CASE ApplyHand
    BY <1>1, <1>2, <1>4, <1>10, QuietLoopStep DEF ApplyHand
  <1>11. CASE CashOut
    BY <1>1, <1>2, <1>4, <1>11, QuietLoopStep DEF CashOut
  <1>12. CASE Refund
    BY <1>1, <1>2, <1>4, <1>12, QuietLoopStep DEF Refund
  <1> QED BY <1>5, <1>6, <1>7, <1>8, <1>9, <1>10, <1>11, <1>12

\* Recording what a call brought: the open pot, the signed result, the settlement.
LEMMA RecordsLiveInv ==
    ASSUME LiveInv, PotOpened \/ HandApplied \/ SettlementRecorded
    PROVE  LiveInv'
  <1>1. TypeOK /\ SeatsFixed /\ LoopPlace /\ PotPlace
    BY DEF LiveInv
  <1>2. /\ UNCHANGED <<forValue, seats, agents, funded, sittingOut, short>>
        /\ Seated' = Seated /\ Equipped' = Equipped
    BY <1>1, LoopFrame DEF LoopStep
  <1> DEFINE M == [phase : MoneyPhases, refundHeld : BOOLEAN, txid : BOOLEAN]
  <1>3. CASE PotOpened
    <2>1. /\ pc = "opened" /\ openPot' = TRUE /\ settled' = FALSE /\ pc' = "dealing"
          /\ money' = [s \in Seats |-> Committed(RefundHeld(money[s]))]
          /\ UNCHANGED <<st, dealerless, readyToStart, stalled, pot>>
      BY <1>3 DEF PotOpened, handVars
    <2>2. ~settled /\ Equipped /\ Len(seats) = N /\ forValue /\ st = "none"
          /\ pot \in {"unspent", "refunded"}
      BY <1>1, <2>1 DEF PotPlace, SeatsFixed, LoopPlace
    <2>3. money' \in [Seats -> M] /\ \A s \in Seats : money'[s].txid = money[s].txid
      BY <1>1, <2>1, MoneyTypes
    <2>4. TypeOK'
      <3>1. {short, dealerless, readyToStart, openPot, settled, stalled}' \subseteq BOOLEAN
        BY <1>1, <1>2, <2>1, Flags
      <3> QED BY <1>1, <1>2, <2>1, <2>3, <3>1 DEF TypeOK
    <2>5. SeatsFixed' /\ LoopPlace'
      BY <1>1, <1>2, <2>1, <2>2, Flags DEF SeatsFixed, LoopPlace
    <2>6. PotPlace'
      BY <1>1, <2>1, <2>2, <2>3, Flags DEF PotPlace
    <2> QED BY <2>4, <2>5, <2>6 DEF LiveInv
  <1>4. CASE HandApplied
    <2>1. /\ pc = "applied" /\ pc' = "prepare" /\ money' = Settled(FALSE)
          /\ UNCHANGED <<st, dealerless, readyToStart, openPot, settled, stalled, pot>>
      BY <1>4 DEF HandApplied, handVars, potVars
    <2>2. money' \in [Seats -> M] /\ \A s \in Seats : ~money'[s].txid
      BY <1>1, <2>1, MoneyTypes
    <2>3. TypeOK'
      <3>1. {short, dealerless, readyToStart, openPot, settled, stalled}' \subseteq BOOLEAN
        BY <1>1, <1>2, <2>1, Flags
      <3> QED BY <1>1, <1>2, <2>1, <2>2, <3>1 DEF TypeOK
    <2>4. SeatsFixed' /\ LoopPlace'
      BY <1>1, <1>2, <2>1, Flags DEF SeatsFixed, LoopPlace
    <2>5. PotPlace'
      BY <1>1, <2>1, <2>2, Flags DEF PotPlace
    <2> QED BY <2>3, <2>4, <2>5 DEF LiveInv
  <1>5. CASE SettlementRecorded
    <2>1. /\ pc = "settled" /\ pc' = "ended" /\ settled' = TRUE /\ openPot' = FALSE
          /\ money' = Settled(TRUE)
          /\ UNCHANGED <<st, dealerless, readyToStart, stalled, pot>>
      BY <1>5 DEF SettlementRecorded, handVars
    <2>2. pot = "settled" /\ st = "over"
      BY <1>1, <2>1 DEF PotPlace, LoopPlace
    <2>3. money' \in [Seats -> M]
      BY <1>1, <2>1, MoneyTypes
    <2>4. TypeOK'
      <3>1. {short, dealerless, readyToStart, openPot, settled, stalled}' \subseteq BOOLEAN
        BY <1>1, <1>2, <2>1, Flags
      <3> QED BY <1>1, <1>2, <2>1, <2>3, <3>1 DEF TypeOK
    <2>5. SeatsFixed' /\ LoopPlace'
      BY <1>1, <1>2, <2>1, <2>2, Flags DEF SeatsFixed, LoopPlace
    <2>6. PotPlace'
      BY <1>1, <2>1, <2>2, Flags DEF PotPlace
    <2> QED BY <2>4, <2>5, <2>6 DEF LiveInv
  <1> QED BY <1>3, <1>4, <1>5

\* The steps that start a hand or ask for one.  A value hand is dealt only where
\* the pot is open, and then through the wallets.
LEMMA DealsLiveInv ==
    ASSUME LiveInv, StartFundedHand \/ PrepareNextHand \/ NextHand
    PROVE  LiveInv'
  <1>1. TypeOK /\ SeatsFixed /\ LoopPlace /\ PotPlace
    BY DEF LiveInv
  <1>2. /\ UNCHANGED <<forValue, seats, agents, funded, sittingOut, short>>
        /\ Seated' = Seated /\ Equipped' = Equipped
    BY <1>1, LoopFrame DEF LoopStep
  <1>3. UNCHANGED <<openPot, settled, money, pot>>
    BY DEF StartFundedHand, PrepareNextHand, NextHand, potVars
  <1>4. ASSUME st' \in {"none", "playing", "over"},
               dealerless' \in BOOLEAN, readyToStart' \in BOOLEAN, stalled' \in BOOLEAN,
               pc' \in {"poll", "exit", "ended"}
        PROVE  TypeOK'
    <2>1. {short, dealerless, readyToStart, openPot, settled, stalled}' \subseteq BOOLEAN
      BY <1>1, <1>2, <1>3, <1>4, Flags
    <2> QED BY <1>1, <1>2, <1>3, <1>4, <2>1 DEF TypeOK
  <1>5. ~settled /\ Len(seats) = N
    <2>1. pc \in {"dealing", "prepare", "next"}
      BY DEF StartFundedHand, PrepareNextHand, NextHand
    <2> QED BY <1>1, <2>1 DEF PotPlace, SeatsFixed
  <1>6. ASSUME pc' \in {"poll", "exit", "ended"}, pc # "settled"
        PROVE  PotPlace'
    BY <1>1, <1>3, <1>5, <1>6, Flags DEF PotPlace
  <1>7. CASE StartFundedHand
    <2>1. /\ pc = "dealing" /\ readyToStart' = FALSE /\ st = "none" /\ openPot /\ forValue
      BY <1>1, <1>7 DEF StartFundedHand, LoopPlace, PotPlace
    <2>2. Equipped
      BY <1>1, <2>1 DEF SeatsFixed
    <2>3. PICK d \in BuildDeck : /\ DealLocked(d)
                                 /\ pc' = IF d = "failed" THEN "ended" ELSE "poll"
                                 /\ stalled' = (stalled \/ d = "failed")
      BY <1>7, <2>1 DEF StartFundedHand
    <2>4. /\ st' \in {"none", "playing"} /\ dealerless' \in BOOLEAN
          /\ st' = "none" <=> d = "failed"
          /\ d # "failed" => dealerless'
      BY <1>1, <2>2, <2>3, DealResult
    <2>5. stalled' \in BOOLEAN /\ pc' \in {"poll", "ended"}
      BY <2>3
    <2>6. TypeOK'
      BY <1>4, <2>1, <2>4, <2>5
    <2>7. SeatsFixed'
      BY <1>2, <1>5, <2>2 DEF SeatsFixed
    <2>8. LoopPlace'
      BY <1>2, <1>3, <2>1, <2>3, <2>4, <2>5 DEF LoopPlace
    <2> QED BY <1>6, <2>1, <2>5, <2>6, <2>7, <2>8 DEF LiveInv
  <1>8. CASE PrepareNextHand
    <2>1. /\ pc = "prepare" /\ dealerless' = dealerless /\ stalled' = stalled
          /\ \/ pc' = "exit" /\ st' = st /\ readyToStart' = readyToStart
             \/ pc' = "poll" /\ st' = "none" /\ readyToStart' = TRUE
      BY <1>8 DEF PrepareNextHand
    <2>2. forValue /\ st = "over"
      BY <1>1, <2>1 DEF LoopPlace
    <2>3. readyToStart' \in BOOLEAN /\ dealerless' \in BOOLEAN /\ stalled' \in BOOLEAN
      BY <1>1, <2>1, Flags
    <2>4. TypeOK'
      BY <1>4, <2>1, <2>2, <2>3
    <2>5. SeatsFixed'
      BY <1>1, <1>2, <1>3, <1>5, <2>1, Flags DEF SeatsFixed
    <2>6. LoopPlace'
      BY <1>1, <1>2, <1>3, <2>1, <2>2, Flags DEF LoopPlace
    <2> QED BY <1>6, <2>1, <2>4, <2>5, <2>6 DEF LiveInv
  <1>9. CASE NextHand
    <2>1. pc = "next" /\ ~forValue /\ UNCHANGED <<readyToStart, stalled>>
      BY <1>1, <1>9 DEF NextHand, LoopPlace, potVars
    <2>2. /\ st' \in {"none", "playing", "over"} /\ dealerless' \in BOOLEAN
          /\ pc' \in {"poll", "exit", "ended"}
          /\ dealerless' => Equipped
      <3>1. CASE SessionOver
        <4>1. pc' = "exit" /\ st' = st /\ dealerless' = dealerless
          BY <1>9, <3>1 DEF NextHand
        <4> QED BY <1>1, <4>1, Flags DEF TypeOK, SeatsFixed
      <3>2. CASE ~SessionOver
        <4>1. PICK d \in BuildDeck : DealLocked(d) /\ pc' = IF d = "failed" THEN "ended" ELSE "poll"
          BY <1>9, <3>2 DEF NextHand
        <4>2. /\ st' \in {"none", "playing"} /\ dealerless' \in BOOLEAN
              /\ dealerless' => dealerless \/ d = "wallets"
          BY <1>1, <4>1, DealResult
        <4>3. dealerless' => Equipped
          BY <1>1, <1>5, <4>1, <4>2, WalletsDealEquipped DEF SeatsFixed
        <4> QED BY <4>1, <4>2, <4>3
      <3> QED BY <3>1, <3>2
    <2>3. TypeOK'
      BY <1>1, <1>4, <2>1, <2>2, Flags
    <2>4. SeatsFixed'
      BY <1>1, <1>2, <1>3, <1>5, <2>1, <2>2, Flags DEF SeatsFixed
    <2>5. LoopPlace'
      BY <1>1, <1>2, <1>3, <2>1, <2>2, Flags DEF LoopPlace
    <2> QED BY <1>6, <2>1, <2>2, <2>3, <2>4, <2>5 DEF LiveInv
  <1> QED BY <1>7, <1>8, <1>9

-----------------------------------------------------------------------------
\* LiveInv is an invariant of the table.
THEOREM LiveInvariant == Spec => []LiveInv
  <1>1. LiveInv /\ [Next]_vars => LiveInv'
    <2> SUFFICES ASSUME LiveInv, [Next]_vars PROVE LiveInv'
      OBVIOUS
    <2>1. CASE UNCHANGED vars
      <3>1. UNCHANGED <<forValue, seats, agents, funded, sittingOut, st, short, dealerless,
                        readyToStart, openPot, settled, stalled, money, pc, pot>>
        BY <2>1 DEF vars, handVars, potVars
      <3>2. Seated' = Seated /\ Equipped' = Equipped
        BY <3>1 DEF Seated, Equipped
      <3>3. TypeOK'
        BY <3>1, <3>2 DEF LiveInv, TypeOK
      <3> QED BY <3>1, <3>2, <3>3 DEF LiveInv, SeatsFixed, LoopPlace, PotPlace
    <2>2. ASSUME NEW p \in Players,
                 Join(p) \/ RegisterAgent(p) \/ Ready(p) \/ Act(p) \/ SitOut(p)
          PROVE  LiveInv'
      BY <2>2, JoinLiveInv, RegisterLiveInv, ReadyLiveInv, ActLiveInv
    <2>3. CASE LoopStep \/ Refund
      BY <2>3, CallsLiveInv, RecordsLiveInv, DealsLiveInv DEF LoopStep
    <2> QED BY <2>1, <2>2, <2>3 DEF Next
  <1> QED BY InitLiveInv, <1>1, PTL DEF Spec

\* The table's types; no identity has two seats (Join).
THEOREM LiveTypeTheorem == Spec => []TypeOK
  <1>1. LiveInv => TypeOK
    BY DEF LiveInv
  <1> QED BY LiveInvariant, <1>1, PTL

\* Bets for value are live only on an open pot whose refund was signed and on
\* the wallets' deal, with the loop in no call (StartFundedHand, CashOut).
THEOREM PlayedOnPotTheorem == Spec => []PlayedOnPot
  <1>1. LiveInv => PlayedOnPot
    BY DEF LiveInv, LoopPlace, PotPlace, PlayedOnPot
  <1> QED BY LiveInvariant, <1>1, PTL

\* A settlement's transaction id is shown only when it has spent the pot (CashOut,
\* Act); the phase that is shown with it is another matter (see ShownTxidIsReal).
THEOREM ShownTxidTheorem == Spec => []ShownTxidIsReal
  <1>1. LiveInv => ShownTxidIsReal
    BY DEF LiveInv, PotPlace, ShownTxidIsReal
  <1> QED BY LiveInvariant, <1>1, PTL

\* A table that dealt through the wallets never falls back on its own shuffle
\* (buildDeckLocked): by then the seats are fixed and each keeps its wallet.
THEOREM NeverDowngradedTheorem == Spec => NeverDowngraded
  <1>1. LiveInv /\ [Next]_vars => [dealerless => dealerless']_vars
    <2> SUFFICES ASSUME LiveInv, Next, dealerless PROVE dealerless'
      OBVIOUS
    <2>1. TypeOK /\ Equipped
      BY DEF LiveInv, SeatsFixed
    <2>2. ASSUME NEW d \in BuildDeck, DealLocked(d) PROVE dealerless'
      BY <2>1, <2>2, DealResult
    <2>3. (\E d \in BuildDeck : DealLocked(d)) \/ dealerless' = dealerless
      BY DEF Next, Join, RegisterAgent, Ready, Act, SitOut, LoopStep, Refund, Poll, ReadHeight,
             HeightFails, OpenPot, OpenPotFails, PotOpened, StartFundedHand, ApplyHand,
             ApplyHandFails, HandApplied, PrepareNextHand, NextHand, NothingToCashOut, CashOut,
             CashOutFails, SettlementRecorded, handVars
    <2> QED BY <2>2, <2>3
  <1> QED BY LiveInvariant, <1>1, PTL DEF Spec, NeverDowngraded
=============================================================================
