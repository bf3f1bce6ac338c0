-------------------------- MODULE SessionPotProofs --------------------------
(***************************************************************************)
(* What SessionPot promises of its refunds, for every number of seats, pot,*)
(* fee and lock height: the ladder descends, cards are out only on a       *)
(* refund of the current balances, and a stale refund loses the race.      *)
(*                                                                         *)
(* The three follow from PotInv.  LadderDescends alone is not inductive: a *)
(* refund is appended several steps after ApplyHand chose its lock height, *)
(* so PotInv says, phase by phase, how the height being signed relates to  *)
(* the newest refund, and by how much two refunds differ.                  *)
(*                                                                         *)
(* The second part shows that the pot keeps the promise of module Escrow.  *)
(***************************************************************************)
EXTENDS SessionPot, TLAPS, WellFoundedInduction

\* The types the argument uses.
Types ==
    /\ pc \in Phases
    /\ stacks \in [Seats -> Int]
    /\ balances \in [Seats -> Int]
    /\ lockHeight \in Int
    /\ refunds \in Seq([pays : [Seats -> Int], lock : Int])
    /\ page \in [Seats -> [at : {"idle", "asked", "told", "recorded"},
                           pays : [Seats -> Int], refund : Nat]]
    /\ stake \in [Seats -> [own : Int, refund : Nat]]
    /\ height \in Nat

\* Two refunds are a full step apart, and none is at or below the floor.
Ladder ==
    /\ \A i, j \in 1..Len(refunds) : i < j => refunds[j].lock + LadderStep <= refunds[i].lock
    /\ \A i \in 1..Len(refunds) : refunds[i].lock > OpenHeight + FloorDelay

\* How the height being signed relates to the newest refund.
LockByPhase ==
    /\ pc \in {"pending", "opening"} => refunds = <<>>
    /\ pc = "opening" => lockHeight > OpenHeight + FloorDelay
    /\ pc = "resigning" =>
          /\ refunds # <<>>
          /\ lockHeight > OpenHeight + FloorDelay
          /\ lockHeight + LadderStep = Newest.lock
    /\ pc \in {"dealing", "playing", "over", "next"} =>
          /\ refunds # <<>>
          /\ lockHeight = Newest.lock
          /\ Newest.pays = RefundPays(balances)

\* Pages and wallets only know refunds that were fully signed.
KnownRefunds ==
    \A s \in Seats :
        /\ page[s].refund <= Len(refunds)
        /\ stake[s].refund <= Len(refunds)

PotInv ==
    /\ Types
    /\ height >= OpenHeight
    /\ Ladder
    /\ LockByPhase
    /\ KnownRefunds

-----------------------------------------------------------------------------
\* What a refund pays and what a settlement may pay are integer amounts per
\* seat, whatever seat carries the fee (buildSharedRefund, reserveFee).
LEMMA PaysTypes ==
    ASSUME NEW b \in [Seats -> Int]
    PROVE  /\ RefundPays(b) \in [Seats -> Int]
           /\ ReserveFee(b) \subseteq [Seats -> Int]
  BY PotConstants DEF RefundPays, ReserveFee, Largest

\* Every signed refund has amounts and a lock height.
LEMMA RefundType ==
    ASSUME Types, NEW i \in 1..Len(refunds)
    PROVE  refunds[i] \in [pays : [Seats -> Int], lock : Int]
  <1> DEFINE R == [pays : [Seats -> Int], lock : Int]
  <1>1. refunds \in Seq(R)
    BY DEF Types
  <1> HIDE DEF R
  <1>2. refunds[i] \in R
    BY <1>1
  <1> QED BY <1>2 DEF R

\* The initial state: nothing is signed and nothing is known.
LEMMA InitPotInv == Init => PotInv
  BY PotConstants
  DEF Init, PotInv, Types, Phases, Ladder, LockByPhase, KnownRefunds, Nothing, Idle, NoStake,
      OpenHeight

\* Signing the refund: the new refund goes one full step below the newest, or
\* is the first, and pays the balances (resignRefund).
LEMMA RefundSignedPotInv ==
    ASSUME PotInv, RefundSigned
    PROVE  PotInv'
  <1>1. CASE asked < N - 1
    BY <1>1 DEF PotInv, Types, Ladder, LockByPhase, KnownRefunds, Newest, RefundSigned,
                seatVars, chainVars
  <1>2. CASE ~(asked < N - 1)
    <2> DEFINE r == [pays |-> RefundPays(balances), lock |-> lockHeight]
    <2>1. /\ refunds' = Append(refunds, r)
          /\ pc \in {"opening", "resigning"}
          /\ pc' = IF pc = "opening" THEN "dealing" ELSE "next"
          /\ UNCHANGED <<stacks, balances, lockHeight, page, stake, height>>
      BY <1>2 DEF RefundSigned, seatVars, chainVars
    <2>2. r \in [pays : [Seats -> Int], lock : Int]
      BY PaysTypes DEF PotInv, Types
    <2> HIDE DEF r
    <2>3. /\ refunds' \in Seq([pays : [Seats -> Int], lock : Int])
          /\ Len(refunds') = Len(refunds) + 1
          /\ \A i \in 1..Len(refunds) : refunds'[i] = refunds[i]
          /\ refunds'[Len(refunds')] = r
      BY <2>1, <2>2 DEF PotInv, Types
    <2>4. r.lock = lockHeight /\ r.pays = RefundPays(balances)
      BY DEF r
    <2>5. Types'
      BY <2>1, <2>3 DEF PotInv, Types, Phases
    <2>6. \A i \in 1..Len(refunds) : lockHeight + LadderStep <= refunds[i].lock
      <3>1. CASE pc = "opening"
        BY <3>1 DEF PotInv, LockByPhase
      <3>2. CASE pc = "resigning"
        <4> SUFFICES ASSUME NEW i \in 1..Len(refunds)
                     PROVE  lockHeight + LadderStep <= refunds[i].lock
          OBVIOUS
        <4>1. lockHeight + LadderStep = refunds[Len(refunds)].lock
          BY <3>2 DEF PotInv, LockByPhase, Newest
        <4>2. Len(refunds) \in 1..Len(refunds) /\ refunds[i].lock \in Int
          <5>1. Len(refunds) \in Nat
            BY DEF PotInv, Types
          <5>2. refunds[i] \in [pays : [Seats -> Int], lock : Int]
            BY RefundType DEF PotInv
          <5> QED BY <5>1, <5>2
        <4>3. CASE i < Len(refunds)
          <5>1. refunds[Len(refunds)].lock + LadderStep <= refunds[i].lock
            BY <4>2, <4>3 DEF PotInv, Ladder
          <5>2. LadderStep \in Nat /\ lockHeight \in Int
            BY PotConstants DEF PotInv, Types
          <5> QED BY <4>1, <4>2, <5>1, <5>2
        <4>4. CASE ~(i < Len(refunds))
          <5>1. i = Len(refunds)
            BY <4>2, <4>4
          <5>2. LadderStep \in Nat /\ lockHeight \in Int
            BY PotConstants DEF PotInv, Types
          <5> QED BY <4>1, <5>1, <5>2
        <4> QED BY <4>3, <4>4
      <3> QED BY <2>1, <3>1, <3>2
    <2>7. lockHeight > OpenHeight + FloorDelay
      BY <2>1 DEF PotInv, LockByPhase
    <2>8. Ladder'
      <3>1. ASSUME NEW i \in 1..Len(refunds'), NEW j \in 1..Len(refunds'), i < j
            PROVE  refunds'[j].lock + LadderStep <= refunds'[i].lock
        <4>1. i \in 1..Len(refunds)
          BY <2>3, <3>1 DEF PotInv, Types
        <4>2. CASE j = Len(refunds')
          BY <2>3, <2>4, <2>6, <4>1, <4>2
        <4>3. CASE j # Len(refunds')
          <5>1. j \in 1..Len(refunds)
            BY <2>3, <4>3 DEF PotInv, Types
          <5> QED BY <2>3, <3>1, <4>1, <5>1 DEF PotInv, Ladder
        <4> QED BY <4>2, <4>3
      <3>2. ASSUME NEW i \in 1..Len(refunds')
            PROVE  refunds'[i].lock > OpenHeight + FloorDelay
        <4>1. CASE i = Len(refunds')
          BY <2>3, <2>4, <2>7, <4>1
        <4>2. CASE i # Len(refunds')
          <5>1. i \in 1..Len(refunds)
            BY <2>3, <4>2 DEF PotInv, Types
          <5> QED BY <2>3, <5>1 DEF PotInv, Ladder
        <4> QED BY <4>1, <4>2
      <3> QED BY <3>1, <3>2 DEF Ladder, OpenHeight
    <2>9. LockByPhase'
      <3>1. pc' \in {"dealing", "next"}
        BY <2>1
      <3>2. refunds' # <<>>
        BY <2>3 DEF PotInv, Types
      <3>3. Newest' = r
        BY <2>3 DEF Newest
      <3>4. RefundPays(balances)' = RefundPays(balances)
        BY <2>1 DEF RefundPays, Largest
      <3> QED BY <2>1, <2>4, <3>1, <3>2, <3>3, <3>4 DEF LockByPhase
    <2>10. KnownRefunds'
      BY <2>1, <2>3 DEF PotInv, Types, KnownRefunds
    <2> QED BY <2>1, <2>5, <2>8, <2>9, <2>10 DEF PotInv, OpenHeight
  <1> QED BY <1>1, <1>2

\* A step that leaves the refunds, the lock height and the balances alone and
\* moves only among the phases of one group keeps PotInv (Deal, PrepareNextHand,
\* the exit, every way to stall, and what the seats and the chain do).
LEMMA QuietStepPotInv ==
    ASSUME PotInv,
           UNCHANGED <<refunds, lockHeight, balances>>,
           pc' \in Phases,
           stacks' \in [Seats -> Int],
           page' \in [Seats -> [at : {"idle", "asked", "told", "recorded"},
                               pays : [Seats -> Int], refund : Nat]],
           stake' \in [Seats -> [own : Int, refund : Nat]],
           \A s \in Seats : page'[s].refund <= Len(refunds) /\ stake'[s].refund <= Len(refunds),
           height' \in Nat, height' >= OpenHeight,
           \/ pc' = pc
           \/ pc' \in {"exit", "settling", "closed", "stalled", "crashed"}
           \/ pc \in {"dealing", "playing", "over", "next"}
                 /\ pc' \in {"dealing", "playing", "over", "next"}
    PROVE  PotInv'
  <1>1. Types'
    BY DEF PotInv, Types
  <1>2. Ladder'
    BY DEF PotInv, Ladder, OpenHeight
  <1>3. RefundPays(balances)' = RefundPays(balances) /\ Newest' = Newest
    BY DEF RefundPays, Largest, Newest
  <1>4. LockByPhase'
    BY <1>3 DEF PotInv, LockByPhase, OpenHeight
  <1>5. KnownRefunds'
    BY DEF KnownRefunds
  <1> QED BY <1>1, <1>2, <1>4, <1>5 DEF PotInv, OpenHeight

\* Opening the pot chooses the first lock height, above the floor.
LEMMA OpenPotPotInv ==
    ASSUME PotInv, OpenPot
    PROVE  PotInv'
  <1>1. /\ pc = "pending" /\ pc' = "opening"
        /\ balances' = [s \in Seats |-> Pot \div N]
        /\ lockHeight' = height + RefundDelay
        /\ UNCHANGED <<stacks, refunds, page, stake, height>>
    BY DEF OpenPot, seatVars
  <1>2. Pot \div N \in Int /\ RefundDelay \in Nat /\ FloorDelay \in Nat /\ FloorDelay < RefundDelay
    BY PotConstants
  <1>3. Types'
    BY <1>1, <1>2 DEF PotInv, Types, Phases
  <1>4. Ladder' /\ KnownRefunds'
    BY <1>1 DEF PotInv, Ladder, KnownRefunds, OpenHeight
  <1>5. LockByPhase'
    <2>1. refunds' = <<>>
      BY <1>1 DEF PotInv, LockByPhase
    <2>2. lockHeight' > OpenHeight + FloorDelay
      BY <1>1, <1>2 DEF PotInv, Types, OpenHeight
    <2> QED BY <1>1, <2>1, <2>2 DEF LockByPhase, OpenHeight
  <1> QED BY <1>1, <1>3, <1>4, <1>5 DEF PotInv, OpenHeight

\* ApplyHand steps one rung down and stays above the floor.
LEMMA ApplyHandPotInv ==
    ASSUME PotInv, ApplyHand
    PROVE  PotInv'
  <1>1. /\ pc = "over" /\ pc' = "resigning"
        /\ balances' = stacks
        /\ lockHeight' = lockHeight - LadderStep
        /\ lockHeight' > OpenHeight + FloorDelay
        /\ UNCHANGED <<stacks, refunds, page, stake, height>>
    BY DEF ApplyHand, NextLock, seatVars, chainVars
  <1>2. LadderStep \in Nat /\ lockHeight \in Int
    BY PotConstants DEF PotInv, Types
  <1>3. Types'
    BY <1>1, <1>2 DEF PotInv, Types, Phases
  <1>4. Ladder' /\ KnownRefunds'
    BY <1>1 DEF PotInv, Ladder, KnownRefunds, OpenHeight
  <1>5. LockByPhase'
    <2>1. refunds' # <<>> /\ lockHeight = Newest.lock /\ Newest' = Newest
      BY <1>1 DEF PotInv, LockByPhase, Newest
    <2>2. lockHeight' + LadderStep = Newest'.lock
      BY <1>1, <1>2, <2>1
    <2> QED BY <1>1, <2>1, <2>2 DEF LockByPhase, OpenHeight
  <1> QED BY <1>1, <1>3, <1>4, <1>5 DEF PotInv, OpenHeight

\* What a page learns from the table and what a wallet records: amounts, and
\* at most the newest signed refund (StakeFor, handleRecordStake).
LEMMA SeatStepPotInv ==
    ASSUME PotInv, SeatStep
    PROVE  PotInv'
  <1>1. PICK s \in Seats : \/ AskStake(s) \/ TellStake(s) \/ RecordStake(s)
                           \/ MarkArmed(s) \/ PageFails(s) \/ WalletRestarts(s)
    BY DEF SeatStep
  <1> DEFINE Page == [at : {"idle", "asked", "told", "recorded"},
                      pays : [Seats -> Int], refund : Nat]
  <1>2. UNCHANGED <<pc, stacks, refunds, lockHeight, balances, height>>
    BY <1>1 DEF AskStake, TellStake, RecordStake, MarkArmed, PageFails, WalletRestarts, tableVars, chainVars
  <1>3. /\ page \in [Seats -> Page] /\ stake \in [Seats -> [own : Int, refund : Nat]]
        /\ balances \in [Seats -> Int] /\ Len(refunds) \in Nat /\ height \in Nat
        /\ pc \in Phases /\ stacks \in [Seats -> Int] /\ height >= OpenHeight
        /\ \A q \in Seats : page[q].refund <= Len(refunds) /\ stake[q].refund <= Len(refunds)
    BY DEF PotInv, Types, KnownRefunds
  <1>4. Idle \in Page /\ Idle.refund = 0 /\ Recorded \in Page
        /\ Recorded.refund = 0
    BY DEF Idle, Recorded, Nothing
  <1>5. ASSUME NEW v \in Page, v.refund <= Len(refunds), page' = [page EXCEPT ![s] = v]
        PROVE  page' \in [Seats -> Page] /\ \A q \in Seats : page'[q].refund <= Len(refunds)
    <2> HIDE DEF Page
    <2>1. page' \in [Seats -> Page]
      BY <1>3, <1>5
    <2>2. ASSUME NEW q \in Seats PROVE page'[q].refund <= Len(refunds)
      BY <1>3, <1>5
    <2> QED BY <2>1, <2>2
  <1>6. CASE AskStake(s)
    <2>1. page' = [page EXCEPT ![s] = [at |-> "asked", pays |-> balances, refund |-> 0]]
          /\ UNCHANGED stake
      BY <1>6 DEF AskStake
    <2> QED BY <1>2, <1>3, <2>1, QuietStepPotInv
  <1>7. CASE TellStake(s)
    <2>1. PICK p \in ReserveFee(page[s].pays) :
             page' = [page EXCEPT ![s] = IF p = armedFor[s] THEN Idle
                                         ELSE [at |-> "told", pays |-> p, refund |-> Len(refunds)]]
      BY <1>7 DEF TellStake
    <2> DEFINE told == [at |-> "told", pays |-> p, refund |-> Len(refunds)]
               v == IF p = armedFor[s] THEN Idle ELSE told
    <2>2. p \in [Seats -> Int]
      BY <1>3, PaysTypes
    <2>3. UNCHANGED stake
      BY <1>7 DEF TellStake
    <2>4. told \in Page /\ told.refund = Len(refunds)
      BY <1>3, <2>2
    <2> HIDE DEF told, Page
    <2>5. v \in Page /\ v.refund <= Len(refunds) /\ page' = [page EXCEPT ![s] = v]
      BY <1>3, <1>4, <2>1, <2>4 DEF told
    <2> HIDE DEF v
    <2>6. page' \in [Seats -> Page] /\ \A q \in Seats : page'[q].refund <= Len(refunds)
      BY <1>5, <2>5
    <2> QED BY <1>2, <1>3, <2>3, <2>6, QuietStepPotInv DEF Page
  <1>8. CASE RecordStake(s)
    <2>1. /\ stake' = [stake EXCEPT ![s] = [own |-> page[s].pays[s], refund |-> page[s].refund]]
          /\ page' = [page EXCEPT ![s] = Recorded]
      BY <1>8 DEF RecordStake
    <2>2. page' \in [Seats -> Page] /\ \A q \in Seats : page'[q].refund <= Len(refunds)
      <3> HIDE DEF Page
      <3> QED BY <1>3, <1>4, <1>5, <2>1
    <2>3. /\ stake' \in [Seats -> [own : Int, refund : Nat]]
          /\ \A q \in Seats : stake'[q].refund <= Len(refunds)
      BY <1>3, <2>1
    <2> QED BY <1>2, <1>3, <2>2, <2>3, QuietStepPotInv
  <1>9. CASE MarkArmed(s) \/ PageFails(s)
    <2>1. page' = [page EXCEPT ![s] = Idle] /\ UNCHANGED stake
      BY <1>9 DEF MarkArmed, PageFails
    <2>2. page' \in [Seats -> Page] /\ \A q \in Seats : page'[q].refund <= Len(refunds)
      BY <1>3, <1>4, <1>5, <2>1
    <2> QED BY <1>2, <1>3, <2>1, <2>2, QuietStepPotInv
  <1>10. CASE WalletRestarts(s)
    <2>1. stake' = [stake EXCEPT ![s] = NoStake] /\ UNCHANGED page
      BY <1>10 DEF WalletRestarts
    <2>2. NoStake \in [own : Int, refund : Nat] /\ NoStake.refund = 0
      BY DEF NoStake
    <2>3. /\ stake' \in [Seats -> [own : Int, refund : Nat]]
          /\ \A q \in Seats : stake'[q].refund <= Len(refunds)
      BY <1>3, <2>1, <2>2
    <2> QED BY <1>2, <1>3, <2>1, <2>3, QuietStepPotInv
  <1> QED BY <1>1, <1>6, <1>7, <1>8, <1>9, <1>10

\* The steps of the table that only move between phases, every way to stall
\* and the crash included.
LEMMA PhaseStepPotInv ==
    ASSUME PotInv,
           \/ FundingFails \/ RefundRefused \/ Deal \/ DealFails \/ FinishHand
           \/ LadderExhausted \/ PrepareNextHand \/ CashOut \/ ExitTimeout
           \/ SettlementSigned \/ SettlementFails \/ Crash \/ SitOut
    PROVE  PotInv'
  <1>1. /\ UNCHANGED <<refunds, lockHeight, balances, page, stake, height>>
        /\ \/ pc' = pc
           \/ pc' \in {"exit", "settling", "closed", "stalled", "crashed"}
           \/ pc \in {"dealing", "playing", "over", "next"}
                 /\ pc' \in {"dealing", "playing", "over", "next"}
    BY DEF FundingFails, RefundRefused, Deal, DealFails, FinishHand, LadderExhausted,
           PrepareNextHand, CashOut, ExitTimeout, SettlementSigned, Complete, SettlementFails, Crash,
           SitOut, Stalled, tableVars, seatVars, chainVars
  <1>2. stacks' \in [Seats -> Int]
    <2>1. CASE FinishHand
      BY <2>1, PotConstants DEF FinishHand
    <2>2. CASE ~FinishHand
      <3>1. UNCHANGED stacks
        BY <2>2 DEF FundingFails, RefundRefused, Deal, DealFails, LadderExhausted,
               PrepareNextHand, CashOut, ExitTimeout, SettlementSigned, Complete, SettlementFails, Crash,
               SitOut, tableVars
      <3> QED BY <3>1 DEF PotInv, Types
    <2> QED BY <2>1, <2>2
  <1>3. /\ pc' \in Phases
        /\ page' = page /\ stake' = stake /\ height' = height
    BY <1>1 DEF PotInv, Types, Phases
  <1>4. /\ page' \in [Seats -> [at : {"idle", "asked", "told", "recorded"},
                               pays : [Seats -> Int], refund : Nat]]
        /\ stake' \in [Seats -> [own : Int, refund : Nat]]
        /\ \A s \in Seats : page'[s].refund <= Len(refunds) /\ stake'[s].refund <= Len(refunds)
        /\ height' \in Nat /\ height' >= OpenHeight
    BY <1>3 DEF PotInv, Types, KnownRefunds
  <1> QED BY <1>1, <1>2, <1>3, <1>4, QuietStepPotInv

\* A block is mined, or a refund is: neither touches what the table keeps.
LEMMA ChainStepPotInv ==
    ASSUME PotInv, Tick \/ \E s \in Seats : BroadcastRefund(s)
    PROVE  PotInv'
  <1>1. /\ UNCHANGED <<pc, stacks, refunds, lockHeight, balances, page, stake>>
        /\ height' \in {height, height + 1}
    BY DEF Tick, BroadcastRefund, tableVars, seatVars
  <1>2. /\ height' \in Nat /\ height' >= OpenHeight
    BY <1>1 DEF PotInv, Types, OpenHeight
  <1>3. /\ page' \in [Seats -> [at : {"idle", "asked", "told", "recorded"},
                               pays : [Seats -> Int], refund : Nat]]
        /\ stake' \in [Seats -> [own : Int, refund : Nat]]
        /\ \A s \in Seats : page'[s].refund <= Len(refunds) /\ stake'[s].refund <= Len(refunds)
        /\ pc' \in Phases /\ stacks' \in [Seats -> Int]
    BY <1>1 DEF PotInv, Types, KnownRefunds
  <1> QED BY <1>1, <1>2, <1>3, QuietStepPotInv

\* PotInv is an invariant of the session.
THEOREM PotInvariant == Spec => []PotInv
  <1>1. PotInv /\ [Next]_vars => PotInv'
    <2> SUFFICES ASSUME PotInv, [Next]_vars PROVE PotInv'
      OBVIOUS
    <2>1. CASE UNCHANGED vars
      <3>1. UNCHANGED <<pc, stacks, refunds, lockHeight, balances, page, stake, height>>
        BY <2>1 DEF vars, tableVars, seatVars, chainVars
      <3>2. /\ page' \in [Seats -> [at : {"idle", "asked", "told", "recorded"},
                                   pays : [Seats -> Int], refund : Nat]]
            /\ stake' \in [Seats -> [own : Int, refund : Nat]]
            /\ \A s \in Seats : page'[s].refund <= Len(refunds) /\ stake'[s].refund <= Len(refunds)
            /\ pc' \in Phases /\ stacks' \in [Seats -> Int]
            /\ height' \in Nat /\ height' >= OpenHeight
        BY <3>1 DEF PotInv, Types, KnownRefunds
      <3> QED BY <3>1, <3>2, QuietStepPotInv
    <2>2. CASE OpenPot
      BY <2>2, OpenPotPotInv
    <2>3. CASE RefundSigned
      BY <2>3, RefundSignedPotInv
    <2>4. CASE ApplyHand
      BY <2>4, ApplyHandPotInv
    <2>5. CASE SeatStep
      BY <2>5, SeatStepPotInv
    <2>6. CASE Tick \/ \E s \in Seats : BroadcastRefund(s)
      BY <2>6, ChainStepPotInv
    <2>7. CASE \/ FundingFails \/ RefundRefused \/ Deal \/ DealFails \/ FinishHand
               \/ LadderExhausted \/ PrepareNextHand \/ CashOut \/ ExitTimeout
               \/ SettlementSigned \/ SettlementFails \/ Crash \/ SitOut
      BY <2>7, PhaseStepPotInv
    <2> QED BY <2>1, <2>2, <2>3, <2>4, <2>5, <2>6, <2>7 DEF Next, TableStep
  <1> QED BY InitPotInv, <1>1, PTL DEF Spec

\* The ladder descends and stays above the floor, however many hands are
\* played and whoever refuses (ApplyHand, resignRefund).
THEOREM LadderTheorem == Spec => []LadderDescends
  <1>1. PotInv => LadderDescends
    <2> SUFFICES ASSUME PotInv PROVE LadderDescends
      OBVIOUS
    <2>1. LadderStep \in Nat \ {0}
      BY PotConstants
    <2>2. ASSUME NEW i \in 1..Len(refunds), NEW j \in 1..Len(refunds), i < j
          PROVE  refunds[j].lock < refunds[i].lock
      <3>1. refunds[i].lock \in Int /\ refunds[j].lock \in Int
        BY RefundType DEF PotInv
      <3>2. refunds[j].lock + LadderStep <= refunds[i].lock
        BY <2>2 DEF PotInv, Ladder
      <3> QED BY <2>1, <3>1, <3>2
    <2> QED BY <2>2 DEF PotInv, Ladder, LadderDescends
  <1> QED BY PotInvariant, <1>1, PTL

\* Cards are out only while a fully signed refund pays every seat the balance
\* it holds (the refund is re-signed before the next hand deals).
THEOREM DealtOnCurrentRefundTheorem == Spec => []DealtOnCurrentRefund
  <1>1. PotInv => DealtOnCurrentRefund
    BY DEF PotInv, LockByPhase, DealtOnCurrentRefund
  <1> QED BY PotInvariant, <1>1, PTL

\* When a refund is mined, every newer one a wallet holds could have been
\* mined a full ladder step before.
THEOREM StaleRefundLosesTheorem == Spec => StaleRefundLoses
  <1> DEFINE Loses ==
        (pot' = "refunded" /\ pot = "unspent") =>
          \E i \in 1..Len(refunds) :
             /\ paid' = refunds[i].pays
             /\ \A s \in Seats :
                   stake[s].refund > i => height >= refunds[stake[s].refund].lock + LadderStep
  <1>1. ASSUME PotInv, [Next]_vars PROVE [Loses]_vars
    <2> SUFFICES ASSUME pot' = "refunded", pot = "unspent" PROVE Loses
      OBVIOUS
    <2>1. PICK s \in Seats : BroadcastRefund(s)
      BY <1>1 DEF Next, TableStep, SeatStep, FundingFails, RefundRefused, Deal, DealFails,
             FinishHand, LadderExhausted, PrepareNextHand, CashOut, ExitTimeout, SettlementSigned, Complete,
             SettlementFails, Crash, SitOut, OpenPot, RefundSigned, ApplyHand, AskStake, TellStake,
             RecordStake, MarkArmed, PageFails, WalletRestarts, Tick, chainVars, vars
    <2> DEFINE i == stake[s].refund
    <2>2. i \in 1..Len(refunds) /\ paid' = refunds[i].pays /\ height >= refunds[i].lock
      BY <1>1, <2>1 DEF BroadcastRefund, PotInv, Types, KnownRefunds
    <2>3. ASSUME NEW t \in Seats, stake[t].refund > i
          PROVE  height >= refunds[stake[t].refund].lock + LadderStep
      <3>1. stake[t].refund \in 1..Len(refunds)
        <4>1. Len(refunds) \in Nat /\ stake[t].refund \in Nat /\ stake[t].refund <= Len(refunds)
          BY <1>1 DEF PotInv, Types, KnownRefunds
        <4> HIDE DEF i
        <4> QED BY <2>2, <2>3, <4>1
      <3>2. refunds[stake[t].refund].lock + LadderStep <= refunds[i].lock
        BY <1>1, <2>2, <2>3, <3>1 DEF PotInv, Ladder
      <3>3. /\ refunds[stake[t].refund].lock \in Int /\ refunds[i].lock \in Int
            /\ LadderStep \in Nat /\ height \in Nat
        BY <1>1, <2>2, <3>1, RefundType, PotConstants DEF PotInv, Types
      <3>4. refunds[i].lock <= height
        BY <2>2
      <3> HIDE DEF i
      <3> QED BY <3>2, <3>3, <3>4
    <2> QED BY <2>2, <2>3
  <1> QED BY PotInvariant, <1>1, PTL DEF Spec, StaleRefundLoses

-----------------------------------------------------------------------------
(***************************************************************************)
(* The session pot implements module Escrow, and its amounts never go      *)
(* below zero.  A step of the table that signs the last share of a refund  *)
(* is an agreement, opening is the deposit, completing the settlement      *)
(* settles, mining a refund falls back, and every other step, refusals,    *)
(* timeouts and crashes included, changes nothing the players were         *)
(* promised.                                                               *)
(*                                                                         *)
(* PotInv says nothing of the exit, where money moves.  EscrowInv adds     *)
(* that a pot is out whenever the session runs, that the settlement being  *)
(* signed and the newest refund are both made from the current balances.   *)
(* Nothing is assumed of the fees: buildSharedRefund gives up when no      *)
(* balance can carry its fee, and reserveFee then takes none.              *)
(***************************************************************************)

\* A pot is out whenever the session runs.
PotIsOut ==
    pc \in {"opening", "dealing", "playing", "over", "resigning", "next", "exit", "settling"}
        => pot # "none"

\* From the exit on, the newest refund and the settlement are of one split.
ExitAgrees ==
    /\ pc = "pending" => pot = "none"
    /\ pc \in {"exit", "settling"} => refunds # <<>> /\ Newest.pays = RefundPays(balances)
    /\ pc = "settling" => proposal \in ReserveFee(balances)

EscrowInv == TypeOK /\ PotIsOut /\ ExitAgrees

-----------------------------------------------------------------------------
\* A nonempty set of naturals has a least element, and Min is it.
LEMMA LeastElement ==
    ASSUME NEW T, T \subseteq Nat, T # {}
    PROVE  /\ Min(T) \in T
           /\ \A y \in T : Min(T) <= y
  <1> DEFINE R == OpToRel(<, Nat)
  <1>1. IsWellFoundedOn(R, Nat)
    BY NatLessThanWellFounded
  <1>2. R = {ss \in Nat \X Nat : ss[1] < ss[2]}
    BY Zenon DEF OpToRel
  <1> HIDE DEF R
  <1>3. PICK x \in T : \A y \in T : ~(<<y, x>> \in R)
    BY <1>1, WFMin
  <1>4. ASSUME NEW y \in T PROVE x <= y
    <2>1. x \in Nat /\ y \in Nat
      OBVIOUS
    <2>2. y < x => <<y, x>> \in R
      BY <1>2, <2>1
    <2> QED BY <1>3, <2>1, <2>2
  <1> QED BY <1>4 DEF Min

\* Some seat has the largest amount (buildSharedRefund, reserveFee): the search
\* over the first k seats cannot fail first at any k.
LEMMA LargestExists ==
    ASSUME NEW b \in [Seats -> Int]
    PROVE  Largest(b) # {}
  <1> DEFINE Tops(k) == {s \in 0..(k - 1) : \A o \in 0..(k - 1) : b[s] >= b[o]}
             Bad == {k \in 1..N : Tops(k) = {}}
  <1>0. N \in Nat /\ N >= 2 /\ Seats = 0..(N - 1)
    BY PotConstants DEF Seats
  <1>1. Bad = {}
    <2> SUFFICES ASSUME Bad # {} PROVE FALSE
      OBVIOUS
    <2> DEFINE k == Min(Bad)
    <2>1. k \in Bad /\ \A j \in Bad : k <= j
      <3>1. Bad \subseteq Nat
        BY <1>0
      <3> HIDE DEF Bad
      <3> QED BY LeastElement, <3>1
    <2> HIDE DEF k
    <2>2. k \in 1..N /\ Tops(k) = {}
      BY <2>1
    <2>3. k # 1
      <3>1. 0 \in Tops(1)
        BY <1>0
      <3> QED BY <2>2, <3>1
    <2>4. k \in Nat /\ k - 1 \in 1..N
      BY <1>0, <2>2, <2>3
    <2>5. Tops(k - 1) # {}
      <3>1. k - 1 \notin Bad
        <4> HIDE DEF Bad
        <4> QED BY <2>1, <2>4
      <3> QED BY <2>4, <3>1
    <2>6. PICK m \in 0..(k - 1 - 1) : \A o \in 0..(k - 1 - 1) : b[m] >= b[o]
      BY <2>5
    <2>7. /\ m \in 0..(k - 1) /\ m \in Seats /\ k - 1 \in Seats
          /\ \A o \in 0..(k - 1) : o \in Seats /\ (o = k - 1 \/ o \in 0..(k - 1 - 1))
      BY <1>0, <2>2, <2>4
    <2>8. \A o \in Seats : b[o] \in Int
      OBVIOUS
    <2>9. CASE b[m] >= b[k - 1]
      <3>1. \A o \in 0..(k - 1) : b[m] >= b[o]
        BY <2>6, <2>7, <2>9
      <3>2. m \in Tops(k)
        BY <2>7, <3>1
      <3> QED BY <2>2, <3>2
    <2>10. CASE ~(b[m] >= b[k - 1])
      <3>1. ASSUME NEW o \in 0..(k - 1) PROVE b[k - 1] >= b[o]
        <4>1. b[m] \in Int /\ b[o] \in Int /\ b[k - 1] \in Int
          BY <2>7, <2>8
        <4> QED BY <2>6, <2>7, <2>10, <4>1
      <3>2. k - 1 \in Tops(k)
        BY <2>4, <3>1
      <3> QED BY <2>2, <3>2
    <2> QED BY <2>9, <2>10
  <1>2. Tops(N) # {}
    <2>1. N \in 1..N
      BY <1>0
    <2>2. N \notin Bad
      <3> HIDE DEF Bad
      <3> QED BY <1>1
    <2> HIDE DEF Tops
    <2> QED BY <2>1, <2>2
  <1> QED BY <1>0, <1>2 DEF Largest

\* Some seat bears the refund's fee, and one that has the largest amount.
LEMMA FeeBearer ==
    ASSUME NEW b \in [Seats -> Int]
    PROVE  Min(Largest(b)) \in Largest(b)
  <1>1. Largest(b) # {}
    BY LargestExists
  <1>2. Largest(b) \subseteq Nat
    BY PotConstants DEF Largest, Seats
  <1> QED BY <1>1, <1>2, LeastElement

\* A refund that buildSharedRefund builds pays no negative amount: the fee falls
\* on a seat with the largest balance, which exceeds it.
LEMMA RefundFits ==
    ASSUME NEW b \in [Seats -> Nat], RefundBuilds(b)
    PROVE  RefundPays(b) \in [Seats -> Nat]
  <1>1. RefundFee \in Nat
    BY PotConstants
  <1>2. PICK x \in Seats : b[x] > RefundFee
    BY DEF RefundBuilds
  <1>3. Min(Largest(b)) \in Largest(b)
    BY FeeBearer
  <1>4. \A s \in Largest(b) : s \in Seats /\ b[s] > RefundFee
    BY <1>1, <1>2 DEF Largest
  <1> QED BY <1>1, <1>3, <1>4 DEF RefundPays

\* Reserving the settlement's fee leaves no negative payout: it is taken from the
\* largest when that exceeds it, and not taken otherwise (reserveFee).
LEMMA ReserveFits ==
    ASSUME NEW b \in [Seats -> Nat]
    PROVE  ReserveFee(b) \subseteq [Seats -> Nat]
  <1>1. SettlementFee \in Nat
    BY PotConstants
  <1>2. CASE \E s \in Seats : b[s] > SettlementFee
    <2>1. PICK x \in Seats : b[x] > SettlementFee
      BY <1>2
    <2>2. \A s \in Largest(b) : s \in Seats /\ b[s] > SettlementFee
      BY <1>1, <2>1 DEF Largest
    <2>3. ReserveFee(b) = {[b EXCEPT ![s] = @ - SettlementFee] : s \in Largest(b)}
      BY <1>2 DEF ReserveFee
    <2> QED BY <1>1, <2>2, <2>3
  <1>3. CASE ~\E s \in Seats : b[s] > SettlementFee
    BY <1>3 DEF ReserveFee
  <1> QED BY <1>2, <1>3

\* The initial state: no pot, nothing signed.
LEMMA InitEscrowInv == Init => EscrowInv
  <1> SUFFICES ASSUME Init PROVE EscrowInv
    OBVIOUS
  <1>1. dealt \in BOOLEAN /\ listed \in BOOLEAN /\ leaving \in BOOLEAN /\ ~listed
    BY Zenon DEF Init
  <1>2. Nothing \in [Seats -> Nat]
    BY DEF Nothing
  <1>3. Idle \in [at : {"idle", "asked", "told", "recorded"}, pays : [Seats -> Nat], refund : Nat]
        /\ Idle.at = "idle" /\ NoStake \in [own : Nat, refund : Nat]
    BY <1>2 DEF Idle, NoStake
  <1>4. TypeOK
    BY <1>1, <1>2, <1>3, PotConstants DEF Init, TypeOK, Phases, Seats, OpenHeight
  <1>5. PotIsOut
    BY DEF Init, PotIsOut
  <1>6. ExitAgrees
    BY DEF Init, ExitAgrees
  <1> QED BY <1>4, <1>5, <1>6 DEF EscrowInv

\* The table's steps keep the types; the amounts of the refund it signs and of
\* the settlement it proposes fit (buildSharedRefund, reserveFee).
LEMMA TableTypeOK ==
    ASSUME PotInv, EscrowInv, TableStep \/ FinishHand \/ Crash \/ SitOut
    PROVE  TypeOK'
  <1>1. TypeOK
    BY DEF EscrowInv
  <1>2. dealt' \in BOOLEAN /\ listed' \in BOOLEAN /\ leaving' \in BOOLEAN
    BY <1>1, Zenon
    DEF TypeOK, TableStep, FinishHand, Crash, SitOut, OpenPot, FundingFails, RefundSigned,
        RefundRefused, Deal, DealFails, ApplyHand, LadderExhausted, PrepareNextHand, CashOut,
        ExitTimeout, SettlementSigned, Complete, SettlementFails, tableVars
  <1>3. page' = page /\ armedFor' = armedFor /\ stake' = stake /\ height' = height
    BY DEF TableStep, FinishHand, Crash, SitOut, OpenPot, FundingFails, RefundSigned,
        RefundRefused, Deal, DealFails, ApplyHand, LadderExhausted, PrepareNextHand, CashOut,
        ExitTimeout, SettlementSigned, Complete, SettlementFails, seatVars, chainVars
  <1>4. pc' \in Phases /\ asked' \in Seats
    <2>1. N \in Nat /\ N >= 2 /\ Seats = 0..(N - 1) /\ asked \in 0..(N - 1)
      BY <1>1, PotConstants DEF TypeOK, Seats
    <2>2. pc' \in Phases
      BY <1>1
      DEF TypeOK, Phases, TableStep, FinishHand, Crash, SitOut, OpenPot, FundingFails, RefundSigned,
          RefundRefused, Deal, DealFails, ApplyHand, LadderExhausted, PrepareNextHand, CashOut,
          ExitTimeout, SettlementSigned, Complete, SettlementFails, Stalled, tableVars
    <2>3. \/ asked' = 0
          \/ asked < N - 1 /\ asked' = asked + 1
          \/ asked' = asked
      BY DEF TableStep, FinishHand, Crash, SitOut, OpenPot, FundingFails, RefundSigned,
          RefundRefused, Deal, DealFails, ApplyHand, LadderExhausted, PrepareNextHand, CashOut,
          ExitTimeout, SettlementSigned, Complete, SettlementFails, Stalled, tableVars
    <2> QED BY <2>1, <2>2, <2>3
  <1>5. armed' \subseteq Seats /\ pot' \in {"none", "unspent", "settled", "refunded"}
    BY <1>1
    DEF TypeOK, TableStep, FinishHand, Crash, SitOut, OpenPot, FundingFails, RefundSigned,
        RefundRefused, Deal, DealFails, ApplyHand, LadderExhausted, PrepareNextHand, CashOut,
        ExitTimeout, SettlementSigned, Complete, SettlementFails, chainVars
  <1>6. stacks' \in [Seats -> Nat]
    BY <1>1, PotConstants
    DEF TypeOK, TableStep, FinishHand, Crash, SitOut, OpenPot, FundingFails, RefundSigned,
        RefundRefused, Deal, DealFails, ApplyHand, LadderExhausted, PrepareNextHand, CashOut,
        ExitTimeout, SettlementSigned, Complete, SettlementFails, tableVars
  <1>7. Pot \div N \in Nat /\ RefundDelay \in Nat /\ FloorDelay \in Nat /\ LadderStep \in Nat
    BY PotConstants
  <1>8. balances' \in [Seats -> Nat] /\ lockHeight' \in Nat
    <2>1. CASE OpenPot
      BY <1>1, <1>7, <2>1 DEF OpenPot, TypeOK
    <2>2. CASE ApplyHand
      BY <1>1, <1>7, <2>2 DEF ApplyHand, TypeOK, NextLock, OpenHeight
    <2>3. CASE UNCHANGED <<balances, lockHeight>>
      BY <1>1, <2>3 DEF TypeOK
    <2> QED BY <2>1, <2>2, <2>3
      DEF TableStep, FinishHand, Crash, SitOut, FundingFails, RefundSigned,
        RefundRefused, Deal, DealFails, LadderExhausted, PrepareNextHand, CashOut,
        ExitTimeout, SettlementSigned, SettlementFails, tableVars
  <1>9. refunds' \in Seq([pays : [Seats -> Nat], lock : Nat])
    <2> DEFINE r == [pays |-> RefundPays(balances), lock |-> lockHeight]
               R == [pays : [Seats -> Nat], lock : Nat]
    <2>1. CASE refunds' = Append(refunds, r) /\ RefundSigned
      <3>1. RefundBuilds(balances)
        BY <2>1 DEF RefundSigned
      <3>2. r \in R
        BY <1>1, <3>1, RefundFits DEF TypeOK
      <3>3. refunds \in Seq(R)
        BY <1>1 DEF TypeOK
      <3> HIDE DEF r, R
      <3>4. refunds' \in Seq(R)
        BY <2>1, <3>2, <3>3
      <3> QED BY <3>4 DEF R
    <2>2. CASE UNCHANGED refunds
      BY <1>1, <2>2 DEF TypeOK
    <2> QED BY <2>1, <2>2
      DEF TableStep, FinishHand, Crash, SitOut, OpenPot, FundingFails, RefundSigned,
        RefundRefused, Deal, DealFails, ApplyHand, LadderExhausted, PrepareNextHand, CashOut,
        ExitTimeout, SettlementSigned, SettlementFails, tableVars
  <1>10. proposal' \in [Seats -> Nat] /\ paid' \in [Seats -> Nat]
    <2>1. Nothing \in [Seats -> Nat] /\ proposal \in [Seats -> Nat] /\ paid \in [Seats -> Nat]
      BY <1>1 DEF Nothing, TypeOK
    <2>2. CASE CashOut
      <3>1. proposal' \in ReserveFee(balances) /\ paid' = paid /\ balances \in [Seats -> Nat]
        BY <1>1, <2>2 DEF CashOut, chainVars, TypeOK
      <3> QED BY <2>1, <3>1, ReserveFits
    <2>3. CASE ~CashOut
      BY <2>1, <2>3
      DEF TableStep, FinishHand, Crash, SitOut, OpenPot, FundingFails, RefundSigned,
        RefundRefused, Deal, DealFails, ApplyHand, LadderExhausted, PrepareNextHand,
        ExitTimeout, SettlementSigned, Complete, SettlementFails, Stalled, tableVars, chainVars
    <2> QED BY <2>2, <2>3
  <1> QED BY <1>1, <1>2, <1>3, <1>4, <1>5, <1>6, <1>8, <1>9, <1>10 DEF TypeOK

\* The pages, the wallets and the chain keep the types; what a page is told is
\* the balances it read with the fee taken from the largest (StakeFor).
LEMMA SeatTypeOK ==
    ASSUME PotInv, EscrowInv, SeatStep \/ Tick \/ \E s \in Seats : BroadcastRefund(s)
    PROVE  TypeOK'
  <1>1. TypeOK
    BY DEF EscrowInv
  <1>2. /\ UNCHANGED <<pc, asked, dealt, listed, stacks, balances, lockHeight, refunds, proposal,
                       leaving>>
        /\ armed' \subseteq Seats
    BY <1>1 DEF TypeOK, SeatStep, AskStake, TellStake, RecordStake, MarkArmed, PageFails, WalletRestarts, Tick,
                BroadcastRefund, tableVars
  <1> DEFINE Page == [at : {"idle", "asked", "told", "recorded"}, pays : [Seats -> Nat],
                      refund : Nat]
             Stake == [own : Nat, refund : Nat]
  <1>3. ASSUME SeatStep
        PROVE  /\ page' \in [Seats -> Page] /\ armedFor' \in [Seats -> [Seats -> Nat]]
               /\ stake' \in [Seats -> Stake]
    <2>1. PICK s \in Seats : \/ AskStake(s) \/ TellStake(s) \/ RecordStake(s)
                             \/ MarkArmed(s) \/ PageFails(s) \/ WalletRestarts(s)
      BY <1>3 DEF SeatStep
    <2>2. /\ page \in [Seats -> Page] /\ armedFor \in [Seats -> [Seats -> Nat]]
          /\ stake \in [Seats -> Stake] /\ balances \in [Seats -> Nat] /\ Len(refunds) \in Nat
      <3>1. Len(refunds) \in Nat
        BY DEF PotInv, Types
      <3> QED BY <1>1, <3>1 DEF TypeOK
    <2>3. Idle \in Page /\ Recorded \in Page
      BY DEF Idle, Recorded, Nothing
    <2>4. CASE AskStake(s)
      <3>1. [at |-> "asked", pays |-> balances, refund |-> 0] \in Page
        BY <2>2
      <3>2. page' = [page EXCEPT ![s] = [at |-> "asked", pays |-> balances, refund |-> 0]]
            /\ UNCHANGED <<armedFor, stake>>
        BY <2>4 DEF AskStake
      <3> HIDE DEF Page, Stake
      <3> QED BY <2>2, <3>1, <3>2
    <2>5. CASE TellStake(s)
      <3>1. PICK p \in ReserveFee(page[s].pays) :
               page' = [page EXCEPT ![s] = IF p = armedFor[s] THEN Idle
                                           ELSE [at |-> "told", pays |-> p, refund |-> Len(refunds)]]
        BY <2>5 DEF TellStake
      <3>2. page[s].pays \in [Seats -> Nat] /\ UNCHANGED <<armedFor, stake>>
        BY <2>2, <2>5 DEF TellStake
      <3>3. p \in [Seats -> Nat]
        BY <3>1, <3>2, ReserveFits
      <3>4. [at |-> "told", pays |-> p, refund |-> Len(refunds)] \in Page
        BY <2>2, <3>3
      <3> HIDE DEF Page, Stake
      <3> QED BY <2>2, <2>3, <3>1, <3>2, <3>4
    <2>6. CASE RecordStake(s)
      <3>1. [own |-> page[s].pays[s], refund |-> page[s].refund] \in Stake
            /\ page[s].pays \in [Seats -> Nat]
        <4>1. page[s] \in Page
          <5> HIDE DEF Page
          <5> QED BY <2>2
        <4>2. page[s].pays \in [Seats -> Nat] /\ page[s].refund \in Nat
          BY <4>1
        <4>3. page[s].pays[s] \in Nat
          BY <4>2
        <4> QED BY <4>2, <4>3
      <3>2. /\ stake' = [stake EXCEPT ![s] = [own |-> page[s].pays[s], refund |-> page[s].refund]]
            /\ armedFor' = [armedFor EXCEPT ![s] = page[s].pays]
            /\ page' = [page EXCEPT ![s] = Recorded]
        BY <2>6 DEF RecordStake
      <3> HIDE DEF Page, Stake
      <3> QED BY <2>2, <2>3, <3>1, <3>2
    <2>7. CASE MarkArmed(s) \/ PageFails(s)
      <3>1. page' = [page EXCEPT ![s] = Idle] /\ UNCHANGED <<armedFor, stake>>
        BY <2>7 DEF MarkArmed, PageFails
      <3> HIDE DEF Page, Stake
      <3> QED BY <2>2, <2>3, <3>1
    <2>8. CASE WalletRestarts(s)
      <3>1. stake' = [stake EXCEPT ![s] = NoStake] /\ UNCHANGED <<page, armedFor>>
        BY <2>8 DEF WalletRestarts
      <3>2. NoStake \in Stake
        BY DEF NoStake
      <3> HIDE DEF Page, Stake
      <3> QED BY <2>2, <3>1, <3>2
    <2> QED BY <2>1, <2>4, <2>5, <2>6, <2>7, <2>8
  <1>4. CASE SeatStep
    <2>1. UNCHANGED <<pot, paid, height>>
      BY <1>4 DEF SeatStep, AskStake, TellStake, RecordStake, MarkArmed, PageFails, WalletRestarts, chainVars
    <2> QED BY <1>1, <1>2, <1>3, <1>4, <2>1 DEF TypeOK
  <1>5. CASE Tick
    <2>1. height' \in Nat
      <3>1. height \in Nat
        BY <1>1 DEF TypeOK
      <3> QED BY <1>5, <3>1 DEF Tick
    <2>2. UNCHANGED <<page, armedFor, stake, pot, paid>>
      BY <1>5 DEF Tick, seatVars
    <2> QED BY <1>1, <1>2, <2>1, <2>2 DEF TypeOK
  <1>6. CASE \E s \in Seats : BroadcastRefund(s)
    <2>1. PICK s \in Seats : BroadcastRefund(s)
      BY <1>6
    <2>2. /\ pot' = "refunded" /\ paid' = refunds[stake[s].refund].pays
          /\ UNCHANGED <<page, armedFor, stake, height>>
          /\ stake[s].refund \in 1..Len(refunds)
      <3>1. Len(refunds) \in Nat /\ stake[s].refund <= Len(refunds) /\ stake[s].refund \in Nat
        BY DEF PotInv, Types, KnownRefunds
      <3> QED BY <2>1, <3>1 DEF BroadcastRefund, seatVars
    <2>3. paid' \in [Seats -> Nat]
      <3> DEFINE R == [pays : [Seats -> Nat], lock : Nat]
      <3>1. refunds \in Seq(R)
        BY <1>1 DEF TypeOK
      <3>2. refunds[stake[s].refund] \in R
        <4> HIDE DEF R
        <4> QED BY <2>2, <3>1
      <3> QED BY <2>2, <3>2
    <2> QED BY <1>1, <1>2, <2>2, <2>3 DEF TypeOK
  <1> QED BY <1>4, <1>5, <1>6

\* Every step that starts or goes on with a session has the pot out.
LEMMA NextPotIsOut ==
    ASSUME EscrowInv, Next
    PROVE  PotIsOut'
  <1>1. TypeOK /\ PotIsOut
    BY DEF EscrowInv
  <1>2. ASSUME SeatStep \/ Tick \/ SitOut \/ \E s \in Seats : BroadcastRefund(s) PROVE PotIsOut'
    BY <1>1, <1>2
    DEF SeatStep, AskStake, TellStake, RecordStake, MarkArmed, PageFails, WalletRestarts, Tick,
        SitOut, BroadcastRefund, tableVars, chainVars, PotIsOut
  <1>3. CASE OpenPot
    BY <1>3 DEF OpenPot, PotIsOut
  <1>4. CASE FundingFails \/ RefundRefused \/ DealFails \/ LadderExhausted \/ ExitTimeout
             \/ SettlementFails \/ Crash
    BY <1>4 DEF FundingFails, RefundRefused, DealFails, LadderExhausted, ExitTimeout,
                SettlementFails, Crash, Stalled, PotIsOut
  <1>5. CASE RefundSigned \/ Deal \/ FinishHand \/ ApplyHand \/ PrepareNextHand \/ CashOut
    BY <1>1, <1>5 DEF RefundSigned, Deal, FinishHand, ApplyHand, PrepareNextHand, CashOut,
                      PotIsOut, chainVars
  <1>6. CASE SettlementSigned
    BY <1>1, <1>6 DEF SettlementSigned, Complete, PotIsOut
  <1> QED BY <1>2, <1>3, <1>4, <1>5, <1>6 DEF Next, TableStep

\* What is signed at the exit is made from the balances of the newest refund.
LEMMA NextExitAgrees ==
    ASSUME PotInv, EscrowInv, Next
    PROVE  ExitAgrees'
  <1>1. ExitAgrees /\ LockByPhase
    BY DEF EscrowInv, PotInv
  <1>2. ASSUME UNCHANGED balances
        PROVE  /\ RefundPays(balances)' = RefundPays(balances)
               /\ ReserveFee(balances)' = ReserveFee(balances)
    BY <1>2 DEF RefundPays, ReserveFee, Largest
  <1>3. ASSUME UNCHANGED refunds PROVE Newest' = Newest
    BY <1>3 DEF Newest
  <1>4. CASE OpenPot \/ ApplyHand \/ RefundSigned
    <2>1. pc' \notin {"pending", "exit", "settling"}
      BY <1>4 DEF OpenPot, ApplyHand, RefundSigned
    <2> QED BY <2>1 DEF ExitAgrees
  <1>5. CASE PrepareNextHand \/ CashOut
    <2>1. /\ UNCHANGED <<balances, refunds>> /\ pc' # "pending"
          /\ pc \in {"next", "exit"}
          /\ pc' = "settling" => proposal' \in ReserveFee(balances)
      BY <1>5 DEF PrepareNextHand, CashOut
    <2> QED BY <1>1, <1>2, <1>3, <2>1 DEF ExitAgrees, LockByPhase
  <1>6. CASE SettlementSigned
    <2>1. /\ UNCHANGED <<balances, refunds>> /\ pc = "settling"
          /\ pc' = "closed" \/ (pc' = pc /\ proposal' = proposal)
      BY <1>6 DEF SettlementSigned, Complete
    <2> QED BY <1>1, <1>2, <1>3, <2>1 DEF ExitAgrees
  <1>7. CASE \/ FundingFails \/ RefundRefused \/ Deal \/ DealFails \/ FinishHand
             \/ LadderExhausted \/ ExitTimeout \/ SettlementFails \/ Crash
    <2>1. pc' \notin {"pending", "exit", "settling"}
      BY <1>7 DEF FundingFails, RefundRefused, Deal, DealFails, FinishHand, LadderExhausted,
                  ExitTimeout, SettlementFails, Crash, Stalled
    <2> QED BY <2>1 DEF ExitAgrees
  <1>8. CASE SitOut \/ SeatStep \/ Tick \/ \E s \in Seats : BroadcastRefund(s)
    <2>1. /\ UNCHANGED <<pc, balances, refunds, proposal>>
          /\ pot = "none" => pot' = "none"
      BY <1>8 DEF SitOut, SeatStep, AskStake, TellStake, RecordStake, MarkArmed, PageFails, WalletRestarts, Tick,
                  BroadcastRefund, tableVars, chainVars
    <2> QED BY <1>1, <1>2, <1>3, <2>1 DEF ExitAgrees
  <1> QED BY <1>4, <1>5, <1>6, <1>7, <1>8 DEF Next, TableStep

\* EscrowInv is an invariant of the session.
THEOREM EscrowInvariant == Spec => []EscrowInv
  <1>1. PotInv /\ EscrowInv /\ [Next]_vars => EscrowInv'
    <2> SUFFICES ASSUME PotInv, EscrowInv, [Next]_vars PROVE EscrowInv'
      OBVIOUS
    <2>1. CASE UNCHANGED vars
      <3> USE <2>1 DEF EscrowInv, vars, tableVars, seatVars, chainVars
      <3>1. TypeOK'
        BY DEF TypeOK
      <3>2. PotIsOut'
        BY DEF PotIsOut
      <3>3. ExitAgrees'
        BY DEF ExitAgrees, Newest, RefundPays, ReserveFee, Largest
      <3> QED BY <3>1, <3>2, <3>3
    <2>2. CASE Next
      <3>1. TypeOK'
        BY <2>2, TableTypeOK, SeatTypeOK DEF Next
      <3>2. PotIsOut'
        BY <2>2, NextPotIsOut
      <3>3. ExitAgrees'
        BY <2>2, NextExitAgrees
      <3> QED BY <3>1, <3>2, <3>3 DEF EscrowInv
    <2> QED BY <2>1, <2>2
  <1> QED BY PotInvariant, InitEscrowInv, <1>1, PTL DEF Spec

\* Every amount the table, the pages and the wallets ever hold is a natural
\* number: the fee subtractions of buildSharedRefund and reserveFee, which are
\* unsigned in the code, never wrap (with the other types of SessionPot).
THEOREM PotTypeTheorem == Spec => []TypeOK
  <1>1. EscrowInv => TypeOK
    BY DEF EscrowInv
  <1> QED BY EscrowInvariant, <1>1, PTL

-----------------------------------------------------------------------------
\* The settlement pays what the newest refund pays, but for the fees: both take
\* theirs from the same balances (reserveFee, buildSharedRefund).
LEMMA SettlementOfNewest ==
    ASSUME PotInv, EscrowInv, pc = "settling"
    PROVE  proposal \in Promise!Settlements(Newest.pays)
  <1>1. /\ Newest.pays = RefundPays(balances) /\ proposal \in ReserveFee(balances)
        /\ balances \in [Seats -> Nat] /\ RefundFee \in Nat /\ SettlementFee \in Nat
    BY PotConstants DEF EscrowInv, ExitAgrees, TypeOK
  <1> DEFINE x == Min(Largest(balances))
             p == RefundPays(balances)
  <1>2. x \in Seats
    BY <1>1, FeeBearer DEF Largest
  <1>3. p = [s \in Seats |-> IF s = x THEN balances[s] - RefundFee ELSE balances[s]]
    BY DEF RefundPays
  <1> HIDE DEF x, p
  <1>4. Promise!Restored(p, x) = balances
    <2>1. ASSUME NEW s \in Seats PROVE p[s] + Promise!FeeOn(x, RefundFee)[s] = balances[s]
      <3>1. Promise!FeeOn(x, RefundFee)[s] = IF s = x THEN RefundFee ELSE 0
        BY DEF Promise!FeeOn
      <3>2. p[s] = IF s = x THEN balances[s] - RefundFee ELSE balances[s]
        BY <1>3
      <3>3. balances[s] \in Nat
        BY <1>1
      <3> QED BY <1>1, <3>1, <3>2, <3>3
    <2>2. balances = [s \in Seats |-> balances[s]]
      BY <1>1
    <2>3. Promise!Restored(p, x) = [s \in Seats |-> p[s] + Promise!FeeOn(x, RefundFee)[s]]
      BY DEF Promise!Restored
    <2> QED BY <2>1, <2>2, <2>3
  <1>5. CASE \E s \in Seats : balances[s] > SettlementFee
    <2>1. PICK y \in Largest(balances) : proposal = [balances EXCEPT ![y] = @ - SettlementFee]
      BY <1>1, <1>5 DEF ReserveFee
    <2>2. y \in Seats
      BY DEF Largest
    <2>3. proposal = [s \in Seats |-> balances[s] - Promise!FeeOn(y, SettlementFee)[s]]
      <3>1. ASSUME NEW s \in Seats
            PROVE  proposal[s] = balances[s] - Promise!FeeOn(y, SettlementFee)[s]
        <4>1. Promise!FeeOn(y, SettlementFee)[s] = IF s = y THEN SettlementFee ELSE 0
          BY DEF Promise!FeeOn
        <4>2. proposal[s] = IF s = y THEN balances[s] - SettlementFee ELSE balances[s]
          BY <1>1, <2>1, <2>2
        <4>3. balances[s] \in Nat
          BY <1>1
        <4> QED BY <1>1, <4>1, <4>2, <4>3
      <3>2. proposal = [s \in Seats |-> proposal[s]]
        BY <1>1, <2>1
      <3> QED BY <3>1, <3>2
    <2> DEFINE q == Promise!Restored(p, x)
    <2>4. \E s \in Seats : q[s] > SettlementFee
      BY <1>4, <1>5
    <2>5. proposal = [s \in Seats |-> q[s] - Promise!FeeOn(y, SettlementFee)[s]]
      BY <1>4, <2>3
    <2> DEFINE Charged(z) == {[s \in Seats |-> Promise!Restored(p, z)[s]
                                               - Promise!FeeOn(w, SettlementFee)[s]] : w \in Seats}
               Options(z) == IF \E s \in Seats : Promise!Restored(p, z)[s] > SettlementFee
                             THEN Charged(z) ELSE {Promise!Restored(p, z)}
    <2>6. proposal \in Promise!Settlements(p)
      <3>1. proposal \in Charged(x)
        BY <2>2, <2>5
      <3> HIDE DEF Charged
      <3>2. Options(x) = Charged(x)
        BY <2>4
      <3>3. Promise!Settlements(p) = UNION {Options(z) : z \in Seats}
        BY DEF Promise!Settlements, Charged
      <3> HIDE DEF Options
      <3> QED BY <1>2, <3>1, <3>2, <3>3
    <2> QED BY <1>1, <2>6 DEF p
  <1>6. CASE ~\E s \in Seats : balances[s] > SettlementFee
    <2>1. proposal = balances
      BY <1>1, <1>6 DEF ReserveFee
    <2>2. proposal \in Promise!Settlements(p)
      BY <1>2, <1>4, <1>6, <2>1 DEF Promise!Settlements
    <2> QED BY <1>1, <2>2 DEF p
  <1> QED BY <1>5, <1>6

\* A step that leaves the pot's output, its refunds and what it paid alone is
\* invisible to the players.
LEMMA UnseenStep ==
    ASSUME UNCHANGED <<pot, refunds, paid>>
    PROVE  UNCHANGED Promise!escrowVars
  BY DEF Promise!escrowVars

\* Every step of the session is a step of the escrow or invisible.
LEMMA StepRefines ==
    ASSUME PotInv, EscrowInv, Next
    PROVE  [Promise!Next]_(Promise!escrowVars)
  <1> DEFINE E == CASE pot = "none" -> "empty" [] pot = "unspent" -> "held" [] OTHER -> "released"
             A == [i \in 1..Len(refunds) |-> refunds[i].pays]
  <1>1. CASE OpenPot \/ (FundingFails /\ ~UNCHANGED pot)
    <2>1. pot = "none" /\ pot' = "unspent" /\ UNCHANGED <<refunds, paid>>
      BY <1>1 DEF OpenPot, FundingFails, EscrowInv, ExitAgrees
    <2>2. E = "empty" /\ E' = "held"
      BY <2>1
    <2>3. Promise!Deposit
      BY <2>1, <2>2 DEF Promise!Deposit
    <2> QED BY <2>3 DEF Promise!Next
  <1>2. CASE RefundSigned /\ ~UNCHANGED refunds
    <2> DEFINE r == [pays |-> RefundPays(balances), lock |-> lockHeight]
               R == [pays : [Seats -> Int], lock : Int]
    <2>1. /\ refunds' = Append(refunds, r) /\ UNCHANGED <<pot, paid>>
          /\ pot # "none"
      BY <1>2 DEF RefundSigned, chainVars, EscrowInv, PotIsOut
    <2>2. refunds \in Seq(R)
      BY DEF PotInv, Types
    <2> HIDE DEF r, R
    <2>3. /\ Len(refunds) \in Nat /\ Len(refunds') = Len(refunds) + 1
          /\ \A i \in 1..Len(refunds) : refunds'[i] = refunds[i]
      BY <2>1, <2>2
    <2>4. Len(A) = Len(refunds) /\ Len(A') = Len(refunds')
      BY <2>3
    <2>5. A = SubSeq(A', 1, Len(A))
      BY <2>3, <2>4
    <2>6. Promise!Agree
      BY <2>1, <2>3, <2>4, <2>5 DEF Promise!Agree
    <2> QED BY <2>6 DEF Promise!Next
  <1>3. CASE SettlementSigned /\ ~UNCHANGED pot
    <2>1. /\ pot = "unspent" /\ pot' = "settled" /\ paid' = proposal /\ pc = "settling"
          /\ UNCHANGED refunds
      BY <1>3 DEF SettlementSigned, Complete
    <2>2. E = "held" /\ E' = "released"
      BY <2>1
    <2>3. Len(refunds) \in Nat /\ Len(refunds) # 0
      BY <2>1 DEF PotInv, Types, EscrowInv, ExitAgrees
    <2>4. A # <<>> /\ A[Len(A)] = Newest.pays
      BY <2>3 DEF Newest
    <2>5. paid' \in Promise!Settlements(A[Len(A)])
      BY <2>1, <2>4, SettlementOfNewest
    <2>6. Promise!Settle
      BY <2>1, <2>2, <2>4, <2>5 DEF Promise!Settle
    <2> QED BY <2>6 DEF Promise!Next
  <1>4. CASE \E s \in Seats : BroadcastRefund(s)
    <2>1. PICK s \in Seats : BroadcastRefund(s)
      BY <1>4
    <2> DEFINE i == stake[s].refund
    <2>2. /\ pot = "unspent" /\ pot' = "refunded" /\ paid' = refunds[i].pays /\ UNCHANGED refunds
      BY <2>1 DEF BroadcastRefund, tableVars
    <2>3. i \in 1..Len(refunds) /\ Len(refunds) \in Nat
      <3>1. Len(refunds) \in Nat /\ i \in Nat /\ i <= Len(refunds)
        BY DEF PotInv, Types, KnownRefunds
      <3> QED BY <2>1, <3>1 DEF BroadcastRefund
    <2>4. E = "held" /\ E' = "released"
      BY <2>2
    <2>5. Len(A) = Len(refunds) /\ A[i] = refunds[i].pays
      BY <2>3
    <2>6. Promise!FallBack
      BY <2>2, <2>3, <2>4, <2>5 DEF Promise!FallBack
    <2> QED BY <2>6 DEF Promise!Next
  <1>5. CASE /\ ~OpenPot /\ ~(FundingFails /\ ~UNCHANGED pot) /\ ~(RefundSigned /\ ~UNCHANGED refunds)
             /\ ~(SettlementSigned /\ ~UNCHANGED pot) /\ ~\E s \in Seats : BroadcastRefund(s)
    <2>1. UNCHANGED <<pot, refunds, paid>>
      BY <1>5 DEF Next, TableStep, SeatStep, FundingFails, RefundRefused, Deal, DealFails,
             FinishHand, LadderExhausted, PrepareNextHand, CashOut, ExitTimeout, SettlementSigned,
             Complete, SettlementFails, Crash, SitOut, RefundSigned, ApplyHand, AskStake, TellStake,
             RecordStake, MarkArmed, PageFails, WalletRestarts, Tick, tableVars, chainVars
    <2> QED BY <2>1, UnseenStep
  <1> QED BY <1>1, <1>2, <1>3, <1>4, <1>5

\* The session pot implements the escrow it promises, for every number of
\* seats, pot, fee and ladder: paid out once, as agreed, fees aside.
THEOREM EscrowTheorem == Spec => ImplementsEscrow
  <1>1. Init => Promise!Init
    <2> SUFFICES ASSUME Init PROVE Promise!Init
      OBVIOUS
    <2>1. pot = "none" /\ refunds = <<>> /\ paid = [s \in Seats |-> 0]
      BY DEF Init, Nothing
    <2> QED BY <2>1 DEF Promise!Init
  <1>2. PotInv /\ EscrowInv /\ [Next]_vars => [Promise!Next]_(Promise!escrowVars)
    <2>1. ASSUME UNCHANGED vars PROVE UNCHANGED Promise!escrowVars
      BY <2>1, UnseenStep DEF vars, tableVars, chainVars
    <2> QED BY <2>1, StepRefines
  <1> QED BY PotInvariant, EscrowInvariant, <1>1, <1>2, PTL DEF Spec, ImplementsEscrow, Promise!Spec
=============================================================================
