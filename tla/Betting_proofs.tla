--------------------------- MODULE Betting_proofs ---------------------------
(***************************************************************************)
(* Proofs about Betting, for any number of users, events, bets and         *)
(* requests in flight: its types, the money of single predictions, that no *)
(* bet stays open on a finished event, that it implements Bet, and that    *)
(* the balances are what the ledgers say.                                  *)
(***************************************************************************)
EXTENDS BettingProperties, Sums_proofs, TLAPS

-----------------------------------------------------------------------------
(* Amounts and ledgers *)

\* Rounding down keeps an amount a natural number.
LEMMA DivNat ==
  ASSUME NEW a \in Nat, NEW b \in Nat \ {0}
  PROVE  a \div b \in Nat
  OBVIOUS

\* What a prediction pays is a natural number.
LEMMA SinglePayoutNat ==
  ASSUME NEW s \in Nat, NEW q \in Nat
  PROVE  SinglePayout(s, q) \in Nat
<1>1. s * q \in Nat
  OBVIOUS
<1> QED
  BY <1>1, DivNat, PricingAssumption DEF SinglePayout

\* What a cashout is worth is a natural number.
LEMMA CashoutValueNat ==
  ASSUME NEW s \in Nat, NEW o \in Nat, NEW q \in Prices, NEW started \in BOOLEAN
  PROVE  CashoutValue(s, o, q, started) \in Nat
<1>1. s * o \in Nat
  OBVIOUS
<1>2. s * o * (IF started THEN 90 ELSE 95) \in Nat
  BY <1>1
<1>3. q * 100 \in Nat \ {0}
  BY PricingAssumption
<1> QED
  BY <1>2, <1>3, DivNat DEF CashoutValue

\* Stakes are natural numbers, those of rows that do not exist included.
LEMMA StakesNat == Stakes \cup {0} \subseteq Nat
  BY PricingAssumption

\* Token postings keep the types of the token ledger.
LEMMA PostTokensType ==
  ASSUME WalletsTypeOK, NEW grant \in [Users -> Nat], NEW debits, NEW refunds, NEW owner,
         \A b \in DOMAIN debits : debits[b] \in Nat,
         \A b \in DOMAIN refunds : refunds[b] \in Nat,
         PostTokens(grant, debits, refunds, owner)
  PROVE  /\ tokenBalance' \in [Users -> Nat]
         /\ tokenLedger' \in [Bets -> [stake : Nat, refund : Nat]]
         /\ granted' \in [Users -> Nat]
<1>1. \A b \in Bets : AmountIn(debits, b) \in Nat /\ AmountIn(refunds, b) \in Nat
  BY DEF AmountIn
<1> QED
  BY <1>1 DEF PostTokens, WalletsTypeOK

\* Points postings keep the types of the points ledger.
LEMMA PostPointsType ==
  ASSUME WalletsTypeOK, NEW wins, NEW cashouts, NEW owner,
         \A b \in DOMAIN wins : wins[b] \in Nat,
         \A b \in DOMAIN cashouts : cashouts[b] \in Nat,
         PostPoints(wins, cashouts, owner)
  PROVE  /\ pointsBalance' \in [Users -> Nat]
         /\ pointsLedger' \in [Bets -> [win : Nat, cashout : Nat]]
<1>1. \A b \in Bets : AmountIn(wins, b) \in Nat /\ AmountIn(cashouts, b) \in Nat
  BY DEF AmountIn
<1> QED
  BY <1>1 DEF PostPoints, WalletsTypeOK

\* The union of two batches of natural numbers is one.
LEMMA BothNat ==
  ASSUME NEW f, NEW g,
         \A b \in DOMAIN f : f[b] \in Nat, \A b \in DOMAIN g : g[b] \in Nat
  PROVE  \A b \in DOMAIN Both(f, g) : Both(f, g)[b] \in Nat
  BY DEF Both

-----------------------------------------------------------------------------
(* The Prediction table *)

\* The winnings of a settlement are natural numbers.
LEMMA PredWinsNat ==
  ASSUME PredsTypeOK, NEW e, NEW n
  PROVE  \A p \in DOMAIN PredWins(e, n) : PredWins(e, n)[p] \in Nat
  BY SinglePayoutNat DEF PredWins, WinnersOf, OnEvent, PredsTypeOK, PredRow

\* Settling keeps the type of the table.
LEMMA SettledPredsType ==
  ASSUME PredsTypeOK, NEW e, NEW n
  PROVE  SettledPreds(e, n) \in [Preds -> PredRow]
<1> SUFFICES ASSUME NEW p \in Preds PROVE SettledPreds(e, n)[p] \in PredRow
  BY DEF SettledPreds
<1>1. p \in WinnersOf(e, n) => PredWins(e, n)[p] \in Nat
  BY PredWinsNat DEF PredWins
<1> QED
  BY <1>1 DEF SettledPreds, PredsTypeOK, PredRow, PredStatus

\* Cancelling and uncancelling keep the type of the table.
LEMMA MovedType ==
  ASSUME PredsTypeOK, NEW e, NEW from, NEW to \in PredStatus
  PROVE  Moved(e, from, to) \in [Preds -> PredRow]
  BY DEF Moved, PredsTypeOK, PredRow

\* Deleting keeps the type of the table.
LEMMA PurgedPredsType ==
  ASSUME PredsTypeOK, NEW S
  PROVE  PurgedPreds(S) \in [Preds -> PredRow]
  BY DEF PurgedPreds, PredsTypeOK, PredRow, PredStatus

-----------------------------------------------------------------------------
(* The Accumulator table *)

\* A combined payout over legs of a row is a natural number.
LEMMA PayoutNat ==
  ASSUME NEW r \in AccaRow, NEW S \in SUBSET Events
  PROVE  CombinedPayout(r.stake, Odds(r, S)) \in Nat
<1>1. Odds(r, S) \in [S -> Prices \cup {0}]
  BY DEF Odds, AccaRow, Leg
<1> QED
  BY <1>1, CombinedPayoutAssumption DEF AccaRow

\* A leg moved from one status to another leaves a row a row.
LEMMA MoveLegType ==
  ASSUME NEW r \in AccaRow, NEW e \in Events, NEW from, NEW to \in LegStatus
  PROVE  MoveLeg(r, e, from, to) \in AccaRow
<1>1. [r.legs EXCEPT ![e].status = to] \in [Events -> Leg]
  BY DEF AccaRow, Leg
<1> QED
  BY <1>1 DEF MoveLeg, WithLeg, AccaRow

\* Settling keeps the type of the table.
LEMMA SettledAccasType ==
  ASSUME AccasTypeOK, NEW view \in AccaTable, NEW e \in Events, NEW n
  PROVE  SettledAccas(view, e, n) \in AccaTable
<1> SUFFICES ASSUME NEW a \in Accas PROVE SettledAccas(view, e, n)[a] \in AccaRow
  BY DEF SettledAccas, AccaTable
<1>1. LegVerdict(acca[a], e, n) \in LegStatus
  BY DEF LegVerdict, LegStatus
<1>2. MoveLeg(acca[a], e, "PENDING", LegVerdict(acca[a], e, n)) \in AccaRow
  BY <1>1, MoveLegType DEF AccasTypeOK
<1>3. view[a].potential \in Nat
  BY DEF AccaTable, AccaRow
<1> QED
  BY <1>2, <1>3 DEF SettledAccas, AccaRow, AccaStatus

\* Cancelling keeps the type of the table.
LEMMA CancelledAccasType ==
  ASSUME AccasTypeOK, NEW view \in AccaTable, NEW e \in Events
  PROVE  CancelledAccas(view, e) \in AccaTable
<1> SUFFICES ASSUME NEW a \in Accas PROVE CancelledAccas(view, e)[a] \in AccaRow
  BY DEF CancelledAccas, AccaTable
<1>1. MoveLeg(acca[a], e, "PENDING", "REFUNDED") \in AccaRow
  BY MoveLegType DEF AccasTypeOK, LegStatus
<1>2. PotentialWithout(view[a], e) \in Nat
  BY PayoutNat DEF PotentialWithout, ActiveAfterCancel, LegsIn, AccaTable
<1> QED
  BY <1>1, <1>2 DEF CancelledAccas, AccaRow, AccaStatus

\* Uncancelling keeps the type of the table.
LEMMA RestoredAccasType ==
  ASSUME AccasTypeOK, NEW view \in AccaTable, NEW e \in Events
  PROVE  RestoredAccas(view, e) \in AccaTable
<1> SUFFICES ASSUME NEW a \in Accas PROVE RestoredAccas(view, e)[a] \in AccaRow
  BY DEF RestoredAccas, AccaTable
<1>1. MoveLeg(acca[a], e, "REFUNDED", "PENDING") \in AccaRow
  BY MoveLegType DEF AccasTypeOK, LegStatus
<1>2. PotentialWith(view[a], e) \in Nat
  BY PayoutNat DEF PotentialWith, LegsIn, AccaTable
<1> QED
  BY <1>1, <1>2 DEF RestoredAccas, AccaRow, AccaStatus

\* Deleting keeps the type of the table.
LEMMA PurgedAccasType ==
  ASSUME AccasTypeOK, NEW S
  PROVE  PurgedAccas(S) \in AccaTable
<1> SUFFICES ASSUME NEW a \in Accas PROVE PurgedAccas(S)[a] \in AccaRow
  BY DEF PurgedAccas, AccaTable
<1> DEFINE legs == [e \in Events |-> IF e \in S /\ acca[a].legs[e].status # "NONE"
                                     THEN [acca[a].legs[e] EXCEPT !.status = "DELETED"]
                                     ELSE acca[a].legs[e]]
           row == [acca[a] EXCEPT !.legs = legs]
<1>1. \A e \in Events : legs[e] \in Leg
  <2>1. \A e \in Events : acca[a].legs[e] \in Leg
    BY DEF AccasTypeOK, AccaRow
  <2>2. \A l \in Leg : [l EXCEPT !.status = "DELETED"] \in Leg
    BY DEF Leg, LegStatus
  <2> QED
    BY <2>1, <2>2
<1>2. row \in AccaRow /\ [row EXCEPT !.status = "DELETED"] \in AccaRow
  BY <1>1 DEF AccasTypeOK, AccaRow, AccaStatus
<1>3. PurgedAccas(S)[a] \in {row, [row EXCEPT !.status = "DELETED"]}
  BY DEF PurgedAccas, AccasTypeOK, AccaRow
<1> QED
  BY <1>2, <1>3

\* What a settlement, a cancellation or a reversal posts for accumulators is natural.
LEMMA AccaBatchesNat ==
  ASSUME NEW view \in AccaTable, NEW e \in Events, NEW n
  PROVE  /\ \A a \in DOMAIN AccaSettleWins(view, e, n) : AccaSettleWins(view, e, n)[a] \in Nat
         /\ \A a \in DOMAIN AccaCancelWins(view, e) : AccaCancelWins(view, e)[a] \in Nat
         /\ \A a \in DOMAIN AccaCancelRefunds(view, e) : AccaCancelRefunds(view, e)[a] \in Nat
         /\ \A a \in DOMAIN AccaRestoreStakes(view, e) : AccaRestoreStakes(view, e)[a] \in Nat
<1>1. \A a \in Accas : /\ view[a].potential \in Nat
                       /\ view[a].stake \in Nat
                       /\ PotentialWithout(view[a], e) \in Nat
  <2> SUFFICES ASSUME NEW a \in Accas
               PROVE  /\ view[a].potential \in Nat
                      /\ view[a].stake \in Nat
                      /\ PotentialWithout(view[a], e) \in Nat
    OBVIOUS
  <2>1. view[a] \in AccaRow
    BY DEF AccaTable
  <2>2. view[a].potential \in Nat /\ view[a].stake \in Stakes \cup {0}
    BY <2>1 DEF AccaRow
  <2>3. ActiveAfterCancel(view[a], e) \in SUBSET Events
    BY DEF ActiveAfterCancel, LegsIn
  <2> QED
    BY <2>1, <2>2, <2>3, PayoutNat, StakesNat DEF PotentialWithout
<1> QED
  BY <1>1 DEF AccaSettleWins, AccaCancelWins, AccaCancelRefunds, AccaRestoreStakes,
              MarkedBySettle, MarkedByCancel, Reopened, Affected

-----------------------------------------------------------------------------
(* Requests in flight *)

\* What a request carries, by its kind.
LEMMA RequestFields ==
  ASSUME NEW r \in Requests
  PROVE  /\ r.op = "place" => /\ r.user \in Users /\ r.event \in Events /\ r.name \in Names
                              /\ r.stake \in Stakes /\ r.price \in Prices
         /\ r.op = "cashout" => r.pred \in Preds /\ r.price \in Prices
         /\ r.op = "lock" => r.event \in Events
         /\ r.op = "update" => /\ r.event \in Events /\ r.outcomes \in SUBSET Names
                               /\ r.kickoff \in Nat
         /\ r.op = "accumulate" => /\ r.user \in Users /\ r.stake \in Stakes
                                   /\ r.legs \in [Events -> Leg]
         /\ r.op = "settle" => /\ r.event \in Events /\ r.outcome \in Names
                               /\ r.view \in AccaTable
         /\ r.op \in {"cancel", "uncancel"} => r.event \in Events /\ r.view \in AccaTable
         /\ r.op = "delete" => r.events \in SUBSET Events
<1> HIDE DEF AccaTable, Leg
<1> QED
  BY DEF Requests

\* Ending a request keeps the type of the requests.
LEMMA FinishType ==
  ASSUME TypeOK, NEW h \in Handlers, Finish(h)
  PROVE  req' \in [Handlers -> Requests]
<1>1. Idle \in Requests
  BY DEF Idle, Requests
<1> QED
  BY <1>1 DEF Finish, TypeOK

\* So does starting one.
LEMMA AskType ==
  ASSUME TypeOK, NEW h \in Handlers, NEW r \in Requests, Ask(h, r)
  PROVE  req' \in [Handlers -> Requests]
  BY DEF Ask, TypeOK

-----------------------------------------------------------------------------
(* Every action keeps the types *)

\* The actions that only read, the clock and a request that ends without a commit.
LEMMA ReadsType ==
  ASSUME TypeOK, NEW h \in Handlers,
         \/ Tick \/ Abort(h) \/ ReadForDelete(h)
         \/ \E e \in Events : \/ ReadForLock(h, e) \/ BeginCancel(h, e) \/ BeginUncancel(h, e)
                              \/ \E n \in Names : BeginSettle(h, e, n)
                              \/ \E o \in OutcomeLists, k \in 1 .. MaxTime : ReadForUpdate(h, e, o, k)
         \/ \E u \in Users, e \in Events, n \in Names, s \in Stakes, q \in Prices :
              ReadForPlace(h, u, e, n, s, q)
         \/ \E p \in Preds, q \in Prices : ReadForCashout(h, p, q)
         \/ \E u \in Users, s \in Stakes, l \in [Events -> LegChoices] : ReadForAccumulate(h, u, s, l)
  PROVE  TypeOK'
<1>0. ASSUME UNCHANGED <<event, pred, acca, walletVars>>, req' \in [Handlers -> Requests], now' \in Nat
      PROVE  TypeOK'
  BY <1>0 DEF TypeOK, WalletsTypeOK, PredsTypeOK, AccasTypeOK, walletVars
<1>1. CASE Tick
  BY <1>0, <1>1, BettingAssumption DEF Tick, TypeOK
<1>2. CASE Abort(h)
  BY <1>0, <1>2, FinishType DEF Abort, TypeOK
<1>3. CASE ReadForDelete(h)
  <2>1. [op |-> "delete", events |-> OldFinished] \in Requests
    BY DEF Requests, OldFinished
  <2> QED
    BY <1>0, <1>3, <2>1, AskType DEF ReadForDelete, TypeOK
<1>4. ASSUME NEW e \in Events, ReadForLock(h, e)
      PROVE  TypeOK'
  <2>1. [op |-> "lock", event |-> e] \in Requests
    BY DEF Requests
  <2> QED
    BY <1>0, <1>4, <2>1, AskType DEF ReadForLock, TypeOK
<1>5. ASSUME NEW e \in Events, BeginCancel(h, e)
      PROVE  TypeOK'
  <2>1. [op |-> "cancel", event |-> e, view |-> acca] \in Requests
    BY DEF Requests, TypeOK, AccasTypeOK, AccaTable
  <2> QED
    BY <1>0, <1>5, <2>1, AskType DEF BeginCancel, TypeOK
<1>6. ASSUME NEW e \in Events, BeginUncancel(h, e)
      PROVE  TypeOK'
  <2>1. [op |-> "uncancel", event |-> e, view |-> acca] \in Requests
    BY DEF Requests, TypeOK, AccasTypeOK, AccaTable
  <2> QED
    BY <1>0, <1>6, <2>1, AskType DEF BeginUncancel, TypeOK
<1>7. ASSUME NEW e \in Events, NEW n \in Names, BeginSettle(h, e, n)
      PROVE  TypeOK'
  <2>1. [op |-> "settle", event |-> e, outcome |-> n, view |-> acca] \in Requests
    BY DEF Requests, TypeOK, AccasTypeOK, AccaTable
  <2> QED
    BY <1>0, <1>7, <2>1, AskType DEF BeginSettle, TypeOK
<1>8. ASSUME NEW e \in Events, NEW o \in OutcomeLists, NEW k \in 1 .. MaxTime,
             ReadForUpdate(h, e, o, k)
      PROVE  TypeOK'
  <2>1. [op |-> "update", event |-> e, outcomes |-> o, kickoff |-> k] \in Requests
    BY BettingAssumption DEF Requests
  <2> QED
    BY <1>0, <1>8, <2>1, AskType DEF ReadForUpdate, TypeOK
<1>9. ASSUME NEW u \in Users, NEW e \in Events, NEW n \in Names, NEW s \in Stakes,
             NEW q \in Prices, ReadForPlace(h, u, e, n, s, q)
      PROVE  TypeOK'
  <2>1. [op |-> "place", user |-> u, event |-> e, name |-> n, stake |-> s, price |-> q] \in Requests
    BY DEF Requests
  <2> QED
    BY <1>0, <1>9, <2>1, AskType DEF ReadForPlace, TypeOK
<1>10. ASSUME NEW p \in Preds, NEW q \in Prices, ReadForCashout(h, p, q)
       PROVE  TypeOK'
  <2>1. [op |-> "cashout", pred |-> p, price |-> q] \in Requests
    BY DEF Requests
  <2> QED
    BY <1>0, <1>10, <2>1, AskType DEF ReadForCashout, TypeOK
<1>11. ASSUME NEW u \in Users, NEW s \in Stakes, NEW l \in [Events -> LegChoices],
              ReadForAccumulate(h, u, s, l)
       PROVE  TypeOK'
  <2>1. LegChoices \subseteq Leg
    BY DEF LegChoices, Leg, LegStatus, NoLeg
  <2>2. [op |-> "accumulate", user |-> u, stake |-> s, legs |-> l] \in Requests
    BY <2>1 DEF Requests
  <2> QED
    BY <1>0, <1>11, <2>2, AskType DEF ReadForAccumulate, TypeOK
<1> QED
  BY <1>1, <1>2, <1>3, <1>4, <1>5, <1>6, <1>7, <1>8, <1>9, <1>10, <1>11

\* EventService.create, lock, autoLockStartedEvents, update.
LEMMA EventActionsType ==
  ASSUME TypeOK,
         \/ \E e \in Events, o \in OutcomeLists, k \in 1 .. MaxTime : Create(e, o, k)
         \/ AutoLock
         \/ \E h \in Handlers : WriteLock(h) \/ WriteUpdate(h)
  PROVE  TypeOK'
<1>0. ASSUME UNCHANGED <<pred, acca, now, walletVars>>, req' \in [Handlers -> Requests],
             event' \in [Events -> EventRow]
      PROVE  TypeOK'
  BY <1>0 DEF TypeOK, WalletsTypeOK, PredsTypeOK, AccasTypeOK, walletVars
<1>1. ASSUME NEW e \in Events, NEW o \in OutcomeLists, NEW k \in 1 .. MaxTime, Create(e, o, k)
      PROVE  TypeOK'
  <2>1. [status |-> "OPEN", outcomes |-> o, kickoff |-> k, settledAt |-> 0, final |-> None]
          \in EventRow
    BY BettingAssumption DEF EventRow, EventStatus
  <2>2. event' \in [Events -> EventRow]
    BY <1>1, <2>1 DEF Create, TypeOK
  <2> QED
    BY <1>0, <1>1, <2>2 DEF Create, TypeOK
<1>2. CASE AutoLock
  <2>1. \A r \in EventRow : [r EXCEPT !.status = "LOCKED"] \in EventRow
    BY DEF EventRow, EventStatus
  <2>2. event' \in [Events -> EventRow]
    BY <1>2, <2>1 DEF AutoLock, TypeOK
  <2> QED
    BY <1>0, <1>2, <2>2 DEF AutoLock, TypeOK
<1>3. ASSUME NEW h \in Handlers, WriteLock(h)
      PROVE  TypeOK'
  <2>1. \A r \in EventRow : [r EXCEPT !.status = "LOCKED"] \in EventRow
    BY DEF EventRow, EventStatus
  <2>2. event' \in [Events -> EventRow]
    BY <1>3, <2>1 DEF WriteLock, TypeOK
  <2> QED
    BY <1>0, <1>3, <2>2, FinishType DEF WriteLock
<1>4. ASSUME NEW h \in Handlers, WriteUpdate(h)
      PROVE  TypeOK'
  <2>1. /\ req[h].event \in Events
        /\ req[h].outcomes \in SUBSET Names /\ req[h].kickoff \in Nat
    BY <1>4, RequestFields DEF WriteUpdate, TypeOK
  <2>2. event' \in [Events -> EventRow]
    <3>1. [event[req[h].event] EXCEPT !.outcomes = req[h].outcomes, !.kickoff = req[h].kickoff]
            \in EventRow
      BY <2>1 DEF TypeOK, EventRow
    <3>2. event' = [event EXCEPT ![req[h].event] =
                      [event[req[h].event] EXCEPT !.outcomes = req[h].outcomes,
                                                  !.kickoff = req[h].kickoff]]
      BY <1>4, <2>1 DEF WriteUpdate, TypeOK, EventRow
    <3> QED
      BY <2>1, <3>1, <3>2 DEF TypeOK
  <2> QED
    BY <1>0, <1>4, <2>2, FinishType DEF WriteUpdate
<1> QED
  BY <1>1, <1>2, <1>3, <1>4

\* PredictionService.place and cashout, AccumulatorService.place.
LEMMA BettorActionsType ==
  ASSUME TypeOK, NEW h \in Handlers,
         \/ \E p \in Preds, accrual \in Accruals : CommitPlace(h, p, accrual)
         \/ \E q \in Prices : CommitCashout(h, q)
         \/ \E a \in Accas, accrual \in Accruals : CommitAccumulate(h, a, accrual)
  PROVE  TypeOK'
<1>0. req[h] \in Requests /\ WalletsTypeOK /\ PredsTypeOK /\ AccasTypeOK
  BY DEF TypeOK
<1>1. ASSUME NEW p \in Preds, NEW accrual \in Accruals, CommitPlace(h, p, accrual)
      PROVE  TypeOK'
  <2> DEFINE r == req[h]
             grant == [NoGrant EXCEPT ![r.user] = accrual]
             debits == [b \in {p} |-> r.stake]
             owner == [OwnerNow EXCEPT ![p] = r.user]
  <2>1. /\ r.user \in Users /\ r.event \in Events /\ r.name \in Names
        /\ r.stake \in Nat /\ r.price \in Nat
    BY <1>0, <1>1, RequestFields, PricingAssumption DEF CommitPlace
  <2>2. grant \in [Users -> Nat]
    BY <2>1, BettingAssumption DEF NoGrant
  <2>3. \A b \in DOMAIN debits : debits[b] \in Nat
    BY <2>1
  <2>4. \A b \in DOMAIN NoRows : NoRows[b] \in Nat
    BY DEF NoRows
  <2>5. PostTokens(grant, debits, NoRows, owner)
    BY <1>1 DEF CommitPlace
  <2> HIDE DEF grant, debits, owner
  <2>6. /\ tokenBalance' \in [Users -> Nat] /\ granted' \in [Users -> Nat]
        /\ tokenLedger' \in [Bets -> [stake : Nat, refund : Nat]]
    BY <1>0, <2>2, <2>3, <2>4, <2>5, PostTokensType
  <2>7. pred' \in [Preds -> PredRow]
    <3>1. NewPred(r.user, r.event, r.name, r.stake, r.price) \in PredRow
      BY <2>1 DEF NewPred, PredRow, PredStatus
    <3> QED
      BY <1>0, <1>1, <3>1 DEF CommitPlace, PredsTypeOK
  <2>8. /\ req' \in [Handlers -> Requests] /\ UNCHANGED <<event, acca, now>>
        /\ UNCHANGED <<pointsBalance, pointsLedger>>
    BY <1>1, FinishType DEF CommitPlace, NoPoints
  <2> QED
    BY <2>6, <2>7, <2>8 DEF TypeOK, WalletsTypeOK, PredsTypeOK, AccasTypeOK
<1>2. ASSUME NEW q \in Prices, CommitCashout(h, q)
      PROVE  TypeOK'
  <2> DEFINE p == req[h].pred
             cashouts == [b \in {p} |-> ValueOf(p, q)]
  <2>1. p \in Preds
    BY <1>0, <1>2, RequestFields DEF CommitCashout
  <2>2. ValueOf(p, q) \in Nat
    <3>1. pred[p].stake \in Nat /\ pred[p].price \in Nat
      BY <1>0, <2>1 DEF PredsTypeOK, PredRow
    <3>2. Started(pred[p].event) \in BOOLEAN
      BY DEF Started
    <3> QED
      BY <3>1, <3>2, CashoutValueNat DEF ValueOf
  <2>3. \A b \in DOMAIN cashouts : cashouts[b] \in Nat
    BY <2>2
  <2>4. \A b \in DOMAIN NoRows : NoRows[b] \in Nat
    BY DEF NoRows
  <2>5. PostPoints(NoRows, cashouts, OwnerNow)
    BY <1>2 DEF CommitCashout
  <2> HIDE DEF cashouts
  <2>6. /\ pointsBalance' \in [Users -> Nat]
        /\ pointsLedger' \in [Bets -> [win : Nat, cashout : Nat]]
    BY <1>0, <2>3, <2>4, <2>5, PostPointsType
  <2>7. pred' \in [Preds -> PredRow]
    BY <1>0, <1>2, <2>1, <2>2 DEF CommitCashout, PredsTypeOK, PredRow, PredStatus
  <2>8. /\ req' \in [Handlers -> Requests] /\ UNCHANGED <<event, acca, now>>
        /\ UNCHANGED <<tokenBalance, tokenLedger, granted>>
    BY <1>2, FinishType DEF CommitCashout, NoTokens
  <2> QED
    BY <2>6, <2>7, <2>8 DEF TypeOK, WalletsTypeOK, PredsTypeOK, AccasTypeOK
<1>3. ASSUME NEW a \in Accas, NEW accrual \in Accruals, CommitAccumulate(h, a, accrual)
      PROVE  TypeOK'
  <2> DEFINE r == req[h]
             grant == [NoGrant EXCEPT ![r.user] = accrual]
             debits == [b \in {a} |-> r.stake]
             owner == [OwnerNow EXCEPT ![a] = r.user]
  <2>1. r.user \in Users /\ r.stake \in Stakes /\ r.legs \in [Events -> Leg]
    BY <1>0, <1>3, RequestFields DEF CommitAccumulate
  <2>2. grant \in [Users -> Nat]
    BY <2>1, BettingAssumption DEF NoGrant
  <2>3. \A b \in DOMAIN debits : debits[b] \in Nat
    BY <2>1, StakesNat
  <2>4. \A b \in DOMAIN NoRows : NoRows[b] \in Nat
    BY DEF NoRows
  <2>5. PostTokens(grant, debits, NoRows, owner)
    BY <1>3 DEF CommitAccumulate
  <2> HIDE DEF grant, debits, owner
  <2>6. /\ tokenBalance' \in [Users -> Nat] /\ granted' \in [Users -> Nat]
        /\ tokenLedger' \in [Bets -> [stake : Nat, refund : Nat]]
    BY <1>0, <2>2, <2>3, <2>4, <2>5, PostTokensType
  <2>7. acca' \in [Accas -> AccaRow]
    <3> DEFINE S == {e \in Events : r.legs[e].status = "PENDING"}
    <3>1. [e \in S |-> r.legs[e].price] \in [S -> Prices \cup {0}]
      BY <2>1 DEF Leg
    <3>2. CombinedPayout(r.stake, [e \in S |-> r.legs[e].price]) \in Nat
      BY <2>1, <3>1, CombinedPayoutAssumption
    <3>3. NewAcca(r.user, r.stake, r.legs) \in AccaRow
      BY <2>1, <3>2 DEF NewAcca, AccaRow, AccaStatus
    <3> QED
      BY <1>0, <1>3, <3>3 DEF CommitAccumulate, AccasTypeOK
  <2>8. /\ req' \in [Handlers -> Requests] /\ UNCHANGED <<event, pred, now>>
        /\ UNCHANGED <<pointsBalance, pointsLedger>>
    BY <1>3, FinishType DEF CommitAccumulate, NoPoints
  <2> QED
    BY <2>6, <2>7, <2>8 DEF TypeOK, WalletsTypeOK, PredsTypeOK, AccasTypeOK
<1> QED
  BY <1>1, <1>2, <1>3

\* EventService.settle.
LEMMA CommitSettleType ==
  ASSUME TypeOK, NEW h \in Handlers, NEW bonus \in [Users -> Bonuses], CommitSettle(h, bonus)
  PROVE  TypeOK'
<1> DEFINE r == req[h]
           wins == Both(PredWins(r.event, r.outcome), AccaSettleWins(r.view, r.event, r.outcome))
<1>1. req[h] \in Requests /\ WalletsTypeOK /\ PredsTypeOK /\ AccasTypeOK /\ now \in Nat
  BY DEF TypeOK
<1>2. r.event \in Events /\ r.outcome \in Names /\ r.view \in AccaTable
  BY <1>1, RequestFields DEF CommitSettle
<1>3. \A b \in DOMAIN wins : wins[b] \in Nat
  <2>1. \A a \in DOMAIN AccaSettleWins(r.view, r.event, r.outcome) :
          AccaSettleWins(r.view, r.event, r.outcome)[a] \in Nat
    BY <1>2, AccaBatchesNat
  <2> QED
    BY <1>1, <2>1, PredWinsNat, BothNat
<1>4. \A b \in DOMAIN NoRows : NoRows[b] \in Nat
  BY DEF NoRows
<1>5. bonus \in [Users -> Nat]
  BY BettingAssumption
<1>6. PostPoints(wins, NoRows, OwnerNow) /\ PostTokens(bonus, NoRows, NoRows, OwnerNow)
  BY DEF CommitSettle
<1> HIDE DEF wins
<1>7. /\ pointsBalance' \in [Users -> Nat]
      /\ pointsLedger' \in [Bets -> [win : Nat, cashout : Nat]]
  BY <1>1, <1>3, <1>4, <1>6, PostPointsType
<1>8. /\ tokenBalance' \in [Users -> Nat] /\ granted' \in [Users -> Nat]
      /\ tokenLedger' \in [Bets -> [stake : Nat, refund : Nat]]
  BY <1>1, <1>4, <1>5, <1>6, PostTokensType
<1>9. pred' \in [Preds -> PredRow]
  BY <1>1, SettledPredsType DEF CommitSettle
<1>10. acca' \in [Accas -> AccaRow]
  BY <1>1, <1>2, SettledAccasType DEF CommitSettle, AccaTable
<1>11. event' \in [Events -> EventRow]
  <2>1. [event[r.event] EXCEPT !.status = "SETTLED", !.final = r.outcome, !.settledAt = now]
          \in EventRow
    BY <1>1, <1>2 DEF TypeOK, EventRow, EventStatus
  <2>2. event' = [event EXCEPT ![r.event] =
                    [event[r.event] EXCEPT !.status = "SETTLED", !.final = r.outcome,
                                           !.settledAt = now]]
    BY <1>2 DEF CommitSettle, TypeOK, EventRow
  <2> QED
    BY <1>2, <2>1, <2>2 DEF TypeOK
<1>12. req' \in [Handlers -> Requests] /\ now' = now
  BY FinishType DEF CommitSettle
<1> QED
  BY <1>1, <1>7, <1>8, <1>9, <1>10, <1>11, <1>12
     DEF TypeOK, WalletsTypeOK, PredsTypeOK, AccasTypeOK

\* EventService.cancel.
LEMMA CommitCancelType ==
  ASSUME TypeOK, NEW h \in Handlers, CommitCancel(h)
  PROVE  TypeOK'
<1> DEFINE r == req[h]
           wins == AccaCancelWins(r.view, r.event)
           refunds == Both(StakesOf(r.event, "PENDING"), AccaCancelRefunds(r.view, r.event))
<1>1. req[h] \in Requests /\ WalletsTypeOK /\ PredsTypeOK /\ AccasTypeOK /\ now \in Nat
  BY DEF TypeOK
<1>2. r.event \in Events /\ r.view \in AccaTable
  BY <1>1, RequestFields DEF CommitCancel
<1>3. /\ \A b \in DOMAIN wins : wins[b] \in Nat
      /\ \A b \in DOMAIN refunds : refunds[b] \in Nat
  <2>1. /\ \A a \in DOMAIN AccaCancelWins(r.view, r.event) :
             AccaCancelWins(r.view, r.event)[a] \in Nat
        /\ \A a \in DOMAIN AccaCancelRefunds(r.view, r.event) :
             AccaCancelRefunds(r.view, r.event)[a] \in Nat
    BY <1>2, AccaBatchesNat
  <2>2. \A p \in DOMAIN StakesOf(r.event, "PENDING") : StakesOf(r.event, "PENDING")[p] \in Nat
    BY <1>1 DEF StakesOf, OnEvent, PredsTypeOK, PredRow
  <2> QED
    BY <2>1, <2>2, BothNat
<1>4. \A b \in DOMAIN NoRows : NoRows[b] \in Nat
  BY DEF NoRows
<1>5. NoGrant \in [Users -> Nat]
  BY DEF NoGrant
<1>6. PostPoints(wins, NoRows, OwnerNow) /\ PostTokens(NoGrant, NoRows, refunds, OwnerNow)
  BY DEF CommitCancel
<1> HIDE DEF wins, refunds
<1>7. /\ pointsBalance' \in [Users -> Nat]
      /\ pointsLedger' \in [Bets -> [win : Nat, cashout : Nat]]
  BY <1>1, <1>3, <1>4, <1>6, PostPointsType
<1>8. /\ tokenBalance' \in [Users -> Nat] /\ granted' \in [Users -> Nat]
      /\ tokenLedger' \in [Bets -> [stake : Nat, refund : Nat]]
  BY <1>1, <1>3, <1>4, <1>5, <1>6, PostTokensType
<1>9. pred' \in [Preds -> PredRow]
  BY <1>1, MovedType DEF CommitCancel, RefundedPreds, PredStatus
<1>10. acca' \in [Accas -> AccaRow]
  BY <1>1, <1>2, CancelledAccasType DEF CommitCancel, AccaTable
<1>11. event' \in [Events -> EventRow]
  <2>1. [event[r.event] EXCEPT !.status = "CANCELLED", !.settledAt = now] \in EventRow
    BY <1>1, <1>2 DEF TypeOK, EventRow, EventStatus
  <2>2. event' = [event EXCEPT ![r.event] =
                    [event[r.event] EXCEPT !.status = "CANCELLED", !.settledAt = now]]
    BY <1>2 DEF CommitCancel, TypeOK, EventRow
  <2> QED
    BY <1>2, <2>1, <2>2 DEF TypeOK
<1>12. req' \in [Handlers -> Requests] /\ now' = now
  BY FinishType DEF CommitCancel
<1> QED
  BY <1>1, <1>7, <1>8, <1>9, <1>10, <1>11, <1>12
     DEF TypeOK, WalletsTypeOK, PredsTypeOK, AccasTypeOK

\* EventService.uncancel.
LEMMA CommitUncancelType ==
  ASSUME TypeOK, NEW h \in Handlers, CommitUncancel(h)
  PROVE  TypeOK'
<1> DEFINE r == req[h]
           stakes == Both(StakesOf(r.event, "REFUNDED"), AccaRestoreStakes(r.view, r.event))
           status == IF Started(r.event) THEN "LOCKED" ELSE "OPEN"
<1>1. req[h] \in Requests /\ WalletsTypeOK /\ PredsTypeOK /\ AccasTypeOK /\ now \in Nat
  BY DEF TypeOK
<1>2. r.event \in Events /\ r.view \in AccaTable
  BY <1>1, RequestFields DEF CommitUncancel
<1>3. \A b \in DOMAIN stakes : stakes[b] \in Nat
  <2>1. \A a \in DOMAIN AccaRestoreStakes(r.view, r.event) :
          AccaRestoreStakes(r.view, r.event)[a] \in Nat
    BY <1>2, AccaBatchesNat
  <2>2. \A p \in DOMAIN StakesOf(r.event, "REFUNDED") :
          StakesOf(r.event, "REFUNDED")[p] \in Nat
    BY <1>1 DEF StakesOf, OnEvent, PredsTypeOK, PredRow
  <2> QED
    BY <2>1, <2>2, BothNat
<1>4. \A b \in DOMAIN NoRows : NoRows[b] \in Nat
  BY DEF NoRows
<1>5. NoGrant \in [Users -> Nat]
  BY DEF NoGrant
<1>6. PostTokens(NoGrant, stakes, NoRows, OwnerNow)
  BY DEF CommitUncancel
<1> HIDE DEF stakes
<1>7. /\ tokenBalance' \in [Users -> Nat] /\ granted' \in [Users -> Nat]
      /\ tokenLedger' \in [Bets -> [stake : Nat, refund : Nat]]
  BY <1>1, <1>3, <1>4, <1>5, <1>6, PostTokensType
<1>8. pred' \in [Preds -> PredRow]
  BY <1>1, MovedType DEF CommitUncancel, RestoredPreds, PredStatus
<1>9. acca' \in [Accas -> AccaRow]
  BY <1>1, <1>2, RestoredAccasType DEF CommitUncancel, AccaTable
<1>10. event' \in [Events -> EventRow]
  <2>1. [event[r.event] EXCEPT !.status = status, !.settledAt = 0] \in EventRow
    BY <1>1, <1>2 DEF TypeOK, EventRow, EventStatus
  <2>2. event' = [event EXCEPT ![r.event] =
                    [event[r.event] EXCEPT !.status = status, !.settledAt = 0]]
    BY <1>2 DEF CommitUncancel, TypeOK, EventRow
  <2> QED
    BY <1>2, <2>1, <2>2 DEF TypeOK
<1>11. /\ req' \in [Handlers -> Requests] /\ now' = now
       /\ UNCHANGED <<pointsBalance, pointsLedger>>
  BY FinishType DEF CommitUncancel, NoPoints
<1> QED
  BY <1>1, <1>7, <1>8, <1>9, <1>10, <1>11
     DEF TypeOK, WalletsTypeOK, PredsTypeOK, AccasTypeOK

\* deleteOldFinishedEvents.
LEMMA CommitDeleteType ==
  ASSUME TypeOK, NEW h \in Handlers, CommitDelete(h)
  PROVE  TypeOK'
<1>1. pred' \in [Preds -> PredRow]
  BY PurgedPredsType DEF CommitDelete, TypeOK
<1>2. acca' \in [Accas -> AccaRow]
  BY PurgedAccasType DEF CommitDelete, TypeOK, AccaTable
<1>3. event' \in [Events -> EventRow]
  <2>1. \A r \in EventRow : [r EXCEPT !.status = "DELETED"] \in EventRow
    BY DEF EventRow, EventStatus
  <2> QED
    BY <2>1 DEF CommitDelete, TypeOK
<1>4. req' \in [Handlers -> Requests] /\ UNCHANGED <<now, walletVars>>
  BY FinishType DEF CommitDelete
<1> QED
  BY <1>1, <1>2, <1>3, <1>4 DEF TypeOK, WalletsTypeOK, PredsTypeOK, AccasTypeOK, walletVars

-----------------------------------------------------------------------------

\* The program starts in the types.
LEMMA InitType ==
  ASSUME Init
  PROVE  TypeOK
<1>1. event \in [Events -> EventRow]
  BY DEF Init, EventRow, EventStatus
<1>2. PredsTypeOK
  BY DEF Init, PredsTypeOK, NoPred, PredRow, PredStatus
<1>3. AccasTypeOK
  <2>1. NoLeg \in Leg
    BY DEF NoLeg, Leg, LegStatus
  <2>2. NoAcca \in AccaRow
    BY <2>1 DEF NoAcca, AccaRow, AccaStatus
  <2> QED
    BY <2>2 DEF Init, AccasTypeOK
<1>4. req \in [Handlers -> Requests]
  <2>1. Idle \in Requests
    BY DEF Idle, Requests
  <2> QED
    BY <2>1 DEF Init
<1>5. WalletsTypeOK /\ now \in Nat
  BY BettingAssumption DEF Init, WalletsTypeOK
<1> QED
  BY <1>1, <1>2, <1>3, <1>4, <1>5 DEF TypeOK

\* Every step keeps the types.
LEMMA NextType ==
  ASSUME TypeOK, [Next]_vars
  PROVE  TypeOK'
<1>1. CASE UNCHANGED vars
  BY <1>1 DEF vars, walletVars, TypeOK, WalletsTypeOK, PredsTypeOK, AccasTypeOK
<1>2. CASE Tick
  <2>1. now' \in Nat /\ UNCHANGED <<event, pred, acca, req, walletVars>>
    BY <1>2 DEF Tick, TypeOK
  <2> QED
    BY <2>1 DEF walletVars, TypeOK, WalletsTypeOK, PredsTypeOK, AccasTypeOK
<1>3. CASE \/ AutoLock
           \/ \E e \in Events, o \in OutcomeLists, k \in 1 .. MaxTime : Create(e, o, k)
  BY <1>3, EventActionsType
<1>4. ASSUME NEW h \in Handlers, Admin(h)
      PROVE  TypeOK'
  BY <1>4, ReadsType, EventActionsType, CommitSettleType, CommitCancelType, CommitUncancelType
     DEF Admin
<1>5. ASSUME NEW h \in Handlers, Bettor(h)
      PROVE  TypeOK'
  BY <1>5, ReadsType, BettorActionsType DEF Bettor
<1>6. ASSUME NEW h \in Handlers, Cleaner(h) \/ Abort(h)
      PROVE  TypeOK'
  BY <1>6, ReadsType, CommitDeleteType DEF Cleaner
<1> QED
  BY <1>1, <1>2, <1>3, <1>4, <1>5, <1>6 DEF Next

(* Every variable keeps its type: in particular no balance is ever         *)
(* negative (ledger.ts:16 "Balance can NEVER go negative").                *)
THEOREM TypeCorrect == Spec => []TypeOK
<1>1. Init => TypeOK
  BY InitType
<1>2. TypeOK /\ [Next]_vars => TypeOK'
  BY NextType
<1> QED
  BY <1>1, <1>2, PTL DEF Spec

-----------------------------------------------------------------------------
(* The money of single predictions *)

\* What token postings do to the rows of one bet.
LEMMA TokenRows ==
  ASSUME WalletsTypeOK, NEW grant, NEW debits, NEW refunds, NEW owner, NEW b \in Bets,
         PostTokens(grant, debits, refunds, owner)
  PROVE  /\ tokenLedger'[b].stake = tokenLedger[b].stake + AmountIn(debits, b)
         /\ tokenLedger'[b].refund = tokenLedger[b].refund + AmountIn(refunds, b)
  BY DEF PostTokens

\* What points postings do to the rows of one bet.
LEMMA PointRows ==
  ASSUME WalletsTypeOK, NEW wins, NEW cashouts, NEW owner, NEW b \in Bets,
         PostPoints(wins, cashouts, owner)
  PROVE  /\ pointsLedger'[b].win = pointsLedger[b].win + AmountIn(wins, b)
         /\ pointsLedger'[b].cashout = pointsLedger[b].cashout + AmountIn(cashouts, b)
  BY DEF PostPoints

\* Rows for accumulators are not rows for predictions.
LEMMA AccaRowsApart ==
  ASSUME NEW p \in Preds, NEW f, NEW g, DOMAIN g \subseteq Accas
  PROVE  AmountIn(g, p) = 0 /\ AmountIn(Both(f, g), p) = AmountIn(f, p)
<1>1. p \notin DOMAIN g
  BY BetIdsAssumption
<1> QED
  BY <1>1 DEF AmountIn, Both

\* An empty batch has nothing for any bet.
LEMMA NoRowsAmount ==
  ASSUME NEW b
  PROVE  AmountIn(NoRows, b) = 0
  BY DEF AmountIn, NoRows

\* The batches of accumulator rows, and what their domains are.
LEMMA AccaBatchDomains ==
  ASSUME NEW view, NEW e, NEW n
  PROVE  /\ DOMAIN AccaSettleWins(view, e, n) \subseteq Accas
         /\ DOMAIN AccaCancelWins(view, e) \subseteq Accas
         /\ DOMAIN AccaCancelRefunds(view, e) \subseteq Accas
         /\ DOMAIN AccaRestoreStakes(view, e) \subseteq Accas
  BY DEF AccaSettleWins, AccaCancelWins, AccaCancelRefunds, AccaRestoreStakes,
         MarkedBySettle, MarkedByCancel, Reopened, Affected

\* The numbers PredMoney is about are integers.
LEMMA LedgerNumbers ==
  ASSUME WalletsTypeOK, PredsTypeOK, NEW p \in Preds
  PROVE  /\ tokenLedger[p].stake \in Nat /\ tokenLedger[p].refund \in Nat
         /\ pointsLedger[p].win \in Nat /\ pointsLedger[p].cashout \in Nat
         /\ pred[p].stake \in Nat /\ pred[p].payout \in Nat /\ pred[p].status \in PredStatus
  BY DEF WalletsTypeOK, PredsTypeOK, PredRow, Bets

\* A prediction whose row and ledger rows a step leaves alone keeps its money right.
LEMMA SameMoney ==
  ASSUME NEW p \in Preds, PredMoney(p), pred'[p] = pred[p],
         tokenLedger'[p].stake = tokenLedger[p].stake,
         tokenLedger'[p].refund = tokenLedger[p].refund,
         pointsLedger'[p].win = pointsLedger[p].win,
         pointsLedger'[p].cashout = pointsLedger[p].cashout
  PROVE  PredMoney(p)'
  BY DEF PredMoney, HeldFor

\* place
LEMMA CommitPlaceMoney ==
  ASSUME TypeOK, PredictionsPaidOnce, NEW h \in Handlers, NEW p0 \in Preds,
         NEW accrual \in Accruals, CommitPlace(h, p0, accrual), NEW p \in Preds
  PROVE  PredMoney(p)'
<1> DEFINE r == req[h]
           grant == [NoGrant EXCEPT ![r.user] = accrual]
           debits == [b \in {p0} |-> r.stake]
           owner == [OwnerNow EXCEPT ![p0] = r.user]
<1>1. WalletsTypeOK /\ PredsTypeOK /\ PredMoney(p) /\ p \in Bets
  BY DEF TypeOK, PredictionsPaidOnce, Bets
<1>2. r.stake \in Nat
  BY RequestFields, PricingAssumption DEF CommitPlace, TypeOK
<1>3. PostTokens(grant, debits, NoRows, owner)
  BY DEF CommitPlace
<1>4. AmountIn(debits, p) = IF p = p0 THEN r.stake ELSE 0
  BY DEF AmountIn
<1> HIDE DEF grant, debits, owner
<1>5. /\ tokenLedger'[p].stake = tokenLedger[p].stake + (IF p = p0 THEN r.stake ELSE 0)
      /\ tokenLedger'[p].refund = tokenLedger[p].refund
  BY <1>1, <1>3, <1>4, TokenRows, NoRowsAmount, LedgerNumbers
<1>6. pointsLedger' = pointsLedger
  BY DEF CommitPlace, NoPoints
<1>7. CASE p = p0
  <2>1. pred[p].status = "ABSENT"
    BY <1>7 DEF CommitPlace
  <2>2. pred'[p].status = "PENDING" /\ pred'[p].stake = r.stake
    BY <1>1, <1>7 DEF CommitPlace, NewPred, PredsTypeOK
  <2>3. HeldFor(p)' = r.stake
    BY <1>1, <1>2, <1>5, <1>7, <2>1, LedgerNumbers DEF PredMoney, HeldFor
  <2> QED
    BY <1>1, <1>6, <2>1, <2>2, <2>3 DEF PredMoney
<1>8. CASE p # p0
  <2>1. pred'[p] = pred[p]
    BY <1>8 DEF CommitPlace, TypeOK, PredsTypeOK
  <2> QED
    BY <1>1, <1>5, <1>6, <1>8, <2>1, SameMoney, LedgerNumbers
<1> QED
  BY <1>7, <1>8

\* cashout
LEMMA CommitCashoutMoney ==
  ASSUME TypeOK, PredictionsPaidOnce, NEW h \in Handlers, NEW q \in Prices,
         CommitCashout(h, q), NEW p \in Preds
  PROVE  PredMoney(p)'
<1> DEFINE p0 == req[h].pred
           value == ValueOf(p0, q)
           cashouts == [b \in {p0} |-> value]
<1>1. WalletsTypeOK /\ PredsTypeOK /\ PredMoney(p) /\ p \in Bets
  BY DEF TypeOK, PredictionsPaidOnce, Bets
<1>2. p0 \in Preds /\ pred[p0].status = "PENDING"
  BY RequestFields DEF CommitCashout, CashoutOpen, TypeOK
<1>3. PostPoints(NoRows, cashouts, OwnerNow) /\ cashouts[p0] = value
  BY DEF CommitCashout
<1>4. pred' = [pred EXCEPT ![p0].status = "CASHED_OUT", ![p0].payout = value]
  BY DEF CommitCashout
<1>5. value \in Nat
  <2>1. pred[p0].stake \in Nat /\ pred[p0].price \in Nat
    BY <1>1, <1>2 DEF PredsTypeOK, PredRow
  <2>2. Started(pred[p0].event) \in BOOLEAN
    BY DEF Started
  <2> QED
    BY <2>1, <2>2, CashoutValueNat DEF ValueOf
<1>6. AmountIn(cashouts, p) = IF p = p0 THEN value ELSE 0
  BY DEF AmountIn
<1> HIDE DEF value, cashouts
<1>7. /\ pointsLedger'[p].win = pointsLedger[p].win
      /\ pointsLedger'[p].cashout = pointsLedger[p].cashout + (IF p = p0 THEN value ELSE 0)
  BY <1>1, <1>3, <1>6, PointRows, NoRowsAmount, LedgerNumbers
<1>8. tokenLedger' = tokenLedger
  BY DEF CommitCashout, NoTokens
<1>9. CASE p = p0
  <2>1. /\ pred'[p].status = "CASHED_OUT" /\ pred'[p].payout = value
        /\ pred'[p].stake = pred[p].stake
    BY <1>1, <1>4, <1>9 DEF PredsTypeOK, PredRow
  <2>2. HeldFor(p)' = HeldFor(p)
    BY <1>8 DEF HeldFor
  <2> QED
    BY <1>1, <1>2, <1>5, <1>7, <1>9, <2>1, <2>2, LedgerNumbers DEF PredMoney
<1>10. CASE p # p0
  <2>1. pred'[p] = pred[p]
    BY <1>1, <1>4, <1>10 DEF PredsTypeOK
  <2> QED
    BY <1>1, <1>7, <1>8, <1>10, <2>1, SameMoney, LedgerNumbers
<1> QED
  BY <1>9, <1>10

\* placing an accumulator
LEMMA CommitAccumulateMoney ==
  ASSUME TypeOK, PredictionsPaidOnce, NEW h \in Handlers, NEW a \in Accas,
         NEW accrual \in Accruals, CommitAccumulate(h, a, accrual), NEW p \in Preds
  PROVE  PredMoney(p)'
<1> DEFINE r == req[h]
           grant == [NoGrant EXCEPT ![r.user] = accrual]
           debits == [b \in {a} |-> r.stake]
           owner == [OwnerNow EXCEPT ![a] = r.user]
<1>1. WalletsTypeOK /\ PredsTypeOK /\ PredMoney(p) /\ p \in Bets
  BY DEF TypeOK, PredictionsPaidOnce, Bets
<1>2. PostTokens(grant, debits, NoRows, owner)
  BY DEF CommitAccumulate
<1>3. AmountIn(debits, p) = 0
  BY AccaRowsApart
<1> HIDE DEF grant, debits, owner
<1>4. /\ tokenLedger'[p].stake = tokenLedger[p].stake
      /\ tokenLedger'[p].refund = tokenLedger[p].refund
  BY <1>1, <1>2, <1>3, TokenRows, NoRowsAmount, LedgerNumbers
<1>5. pointsLedger' = pointsLedger /\ pred' = pred
  BY DEF CommitAccumulate, NoPoints
<1> QED
  BY <1>1, <1>4, <1>5, SameMoney

\* settle
LEMMA CommitSettleMoney ==
  ASSUME TypeOK, PredictionsPaidOnce, NEW h \in Handlers, NEW bonus \in [Users -> Bonuses],
         CommitSettle(h, bonus), NEW p \in Preds
  PROVE  PredMoney(p)'
<1> DEFINE e == req[h].event
           n == req[h].outcome
           predWins == PredWins(e, n)
           accaWins == AccaSettleWins(req[h].view, e, n)
<1>1. WalletsTypeOK /\ PredsTypeOK /\ PredMoney(p) /\ p \in Bets
  BY DEF TypeOK, PredictionsPaidOnce, Bets
<1>2. PostPoints(Both(predWins, accaWins), NoRows, OwnerNow)
  BY DEF CommitSettle
<1>3. PostTokens(bonus, NoRows, NoRows, OwnerNow)
  BY DEF CommitSettle
<1>4. AmountIn(Both(predWins, accaWins), p) = AmountIn(predWins, p)
  BY AccaBatchDomains, AccaRowsApart
<1>5. AmountIn(predWins, p) = IF p \in WinnersOf(e, n) THEN predWins[p] ELSE 0
  BY DEF AmountIn, PredWins
<1>6. p \in WinnersOf(e, n) => predWins[p] \in Nat
  BY <1>1, PredWinsNat DEF PredWins
<1>7. pred'[p] = SettledPreds(e, n)[p]
  BY DEF CommitSettle
<1>8. WinnersOf(e, n) \subseteq OnEvent(e, "PENDING")
  BY DEF WinnersOf
<1>9. pred'[p] = IF p \notin OnEvent(e, "PENDING") THEN pred[p]
                 ELSE IF p \in WinnersOf(e, n)
                      THEN [pred[p] EXCEPT !.status = "WON", !.payout = predWins[p]]
                      ELSE [pred[p] EXCEPT !.status = "LOST", !.payout = 0]
  BY <1>7 DEF SettledPreds
<1> HIDE DEF predWins, accaWins
<1>10. /\ tokenLedger'[p].stake = tokenLedger[p].stake
       /\ tokenLedger'[p].refund = tokenLedger[p].refund
  BY <1>1, <1>3, TokenRows, NoRowsAmount, LedgerNumbers
<1>11. /\ pointsLedger'[p].win = pointsLedger[p].win
                                   + (IF p \in WinnersOf(e, n) THEN predWins[p] ELSE 0)
       /\ pointsLedger'[p].cashout = pointsLedger[p].cashout
  BY <1>1, <1>2, <1>4, <1>5, PointRows, NoRowsAmount, LedgerNumbers
<1>12. CASE p \notin OnEvent(e, "PENDING")
  <2>1. pred'[p] = pred[p] /\ pointsLedger'[p].win = pointsLedger[p].win
    BY <1>1, <1>8, <1>9, <1>11, <1>12, LedgerNumbers
  <2> QED
    BY <1>1, <1>10, <1>11, <2>1, SameMoney
<1>13. CASE p \in OnEvent(e, "PENDING")
  <2>1. pred[p].status = "PENDING"
    BY <1>13 DEF OnEvent
  <2>2. HeldFor(p)' = HeldFor(p)
    BY <1>10 DEF HeldFor
  <2>3. CASE p \in WinnersOf(e, n)
    <3>1. /\ pred'[p].status = "WON" /\ pred'[p].payout = predWins[p]
          /\ pred'[p].stake = pred[p].stake
      BY <1>1, <1>9, <1>13, <2>3 DEF PredsTypeOK, PredRow
    <3> QED
      BY <1>1, <1>6, <1>11, <2>1, <2>2, <2>3, <3>1, LedgerNumbers DEF PredMoney
  <2>4. CASE p \notin WinnersOf(e, n)
    <3>1. pred'[p].status = "LOST" /\ pred'[p].stake = pred[p].stake
      BY <1>1, <1>9, <1>13, <2>4 DEF PredsTypeOK, PredRow
    <3> QED
      BY <1>1, <1>11, <2>1, <2>2, <2>4, <3>1, LedgerNumbers DEF PredMoney
  <2> QED
    BY <2>3, <2>4
<1> QED
  BY <1>12, <1>13

\* What a move of all predictions of an event does to one of them.
LEMMA MovedRow ==
  ASSUME PredsTypeOK, NEW p \in Preds, NEW e, NEW from, NEW to
  PROVE  /\ p \in OnEvent(e, from) =>
              /\ Moved(e, from, to)[p].status = to
              /\ Moved(e, from, to)[p].stake = pred[p].stake
         /\ p \notin OnEvent(e, from) => Moved(e, from, to)[p] = pred[p]
  BY DEF Moved, PredsTypeOK, PredRow

\* cancel
LEMMA CommitCancelMoney ==
  ASSUME TypeOK, PredictionsPaidOnce, NEW h \in Handlers, CommitCancel(h), NEW p \in Preds
  PROVE  PredMoney(p)'
<1> DEFINE e == req[h].event
           stakes == StakesOf(e, "PENDING")
           accaRefunds == AccaCancelRefunds(req[h].view, e)
           accaWins == AccaCancelWins(req[h].view, e)
<1>1. WalletsTypeOK /\ PredsTypeOK /\ PredMoney(p) /\ p \in Bets
  BY DEF TypeOK, PredictionsPaidOnce, Bets
<1>2. PostTokens(NoGrant, NoRows, Both(stakes, accaRefunds), OwnerNow)
  BY DEF CommitCancel
<1>3. PostPoints(accaWins, NoRows, OwnerNow)
  BY DEF CommitCancel
<1>4. AmountIn(Both(stakes, accaRefunds), p) = AmountIn(stakes, p) /\ AmountIn(accaWins, p) = 0
  BY AccaBatchDomains, AccaRowsApart
<1>5. AmountIn(stakes, p) = IF p \in OnEvent(e, "PENDING") THEN pred[p].stake ELSE 0
  BY DEF AmountIn, StakesOf
<1>6. pred'[p] = Moved(e, "PENDING", "REFUNDED")[p]
  BY DEF CommitCancel, RefundedPreds
<1> HIDE DEF stakes, accaRefunds, accaWins
<1>7. /\ tokenLedger'[p].stake = tokenLedger[p].stake
      /\ tokenLedger'[p].refund = tokenLedger[p].refund
                                   + (IF p \in OnEvent(e, "PENDING") THEN pred[p].stake ELSE 0)
  <2>1. /\ tokenLedger'[p].stake = tokenLedger[p].stake + AmountIn(NoRows, p)
        /\ tokenLedger'[p].refund = tokenLedger[p].refund + AmountIn(stakes, p)
    BY <1>1, <1>2, <1>4, TokenRows
  <2> QED
    BY <1>1, <1>5, <2>1, NoRowsAmount, LedgerNumbers
<1>8. /\ pointsLedger'[p].win = pointsLedger[p].win
      /\ pointsLedger'[p].cashout = pointsLedger[p].cashout
  BY <1>1, <1>3, <1>4, PointRows, NoRowsAmount, LedgerNumbers
<1>9. CASE p \notin OnEvent(e, "PENDING")
  <2>1. pred'[p] = pred[p] /\ tokenLedger'[p].refund = tokenLedger[p].refund
    BY <1>1, <1>6, <1>7, <1>9, MovedRow, LedgerNumbers
  <2> QED
    BY <1>1, <1>7, <1>8, <2>1, SameMoney
<1>10. CASE p \in OnEvent(e, "PENDING")
  <2>1. pred[p].status = "PENDING"
    BY <1>10 DEF OnEvent
  <2>2. pred'[p].status = "REFUNDED"
    BY <1>1, <1>6, <1>10, MovedRow
  <2>3. HeldFor(p)' = 0
    BY <1>1, <1>7, <1>10, <2>1, LedgerNumbers DEF HeldFor, PredMoney
  <2> QED
    BY <1>1, <1>8, <2>1, <2>2, <2>3 DEF PredMoney
<1> QED
  BY <1>9, <1>10

\* uncancel
LEMMA CommitUncancelMoney ==
  ASSUME TypeOK, PredictionsPaidOnce, NEW h \in Handlers, CommitUncancel(h), NEW p \in Preds
  PROVE  PredMoney(p)'
<1> DEFINE e == req[h].event
           stakes == StakesOf(e, "REFUNDED")
           accaStakes == AccaRestoreStakes(req[h].view, e)
<1>1. WalletsTypeOK /\ PredsTypeOK /\ PredMoney(p) /\ p \in Bets
  BY DEF TypeOK, PredictionsPaidOnce, Bets
<1>2. PostTokens(NoGrant, Both(stakes, accaStakes), NoRows, OwnerNow)
  BY DEF CommitUncancel
<1>3. pointsLedger' = pointsLedger
  BY DEF CommitUncancel, NoPoints
<1>4. AmountIn(Both(stakes, accaStakes), p) = AmountIn(stakes, p)
  BY AccaBatchDomains, AccaRowsApart
<1>5. AmountIn(stakes, p) = IF p \in OnEvent(e, "REFUNDED") THEN pred[p].stake ELSE 0
  BY DEF AmountIn, StakesOf
<1>6. pred'[p] = Moved(e, "REFUNDED", "PENDING")[p]
  BY DEF CommitUncancel, RestoredPreds
<1> HIDE DEF stakes, accaStakes
<1>7. /\ tokenLedger'[p].stake = tokenLedger[p].stake
                                  + (IF p \in OnEvent(e, "REFUNDED") THEN pred[p].stake ELSE 0)
      /\ tokenLedger'[p].refund = tokenLedger[p].refund
  BY <1>1, <1>2, <1>4, <1>5, TokenRows, NoRowsAmount, LedgerNumbers
<1>8. CASE p \notin OnEvent(e, "REFUNDED")
  <2>1. pred'[p] = pred[p] /\ tokenLedger'[p].stake = tokenLedger[p].stake
    BY <1>1, <1>6, <1>7, <1>8, MovedRow, LedgerNumbers
  <2> QED
    BY <1>1, <1>3, <1>7, <2>1, SameMoney
<1>9. CASE p \in OnEvent(e, "REFUNDED")
  <2>1. pred[p].status = "REFUNDED"
    BY <1>9 DEF OnEvent
  <2>2. pred'[p].status = "PENDING" /\ pred'[p].stake = pred[p].stake
    BY <1>1, <1>6, <1>9, MovedRow
  <2>3. HeldFor(p)' = pred[p].stake
    BY <1>1, <1>7, <1>9, <2>1, LedgerNumbers DEF HeldFor, PredMoney
  <2> QED
    BY <1>1, <1>3, <2>1, <2>2, <2>3 DEF PredMoney
<1> QED
  BY <1>8, <1>9

\* deleteOldFinishedEvents
LEMMA CommitDeleteMoney ==
  ASSUME TypeOK, PredictionsPaidOnce, NEW h \in Handlers, CommitDelete(h), NEW p \in Preds
  PROVE  PredMoney(p)'
<1>1. WalletsTypeOK /\ PredsTypeOK /\ PredMoney(p)
  BY DEF TypeOK, PredictionsPaidOnce
<1>2. UNCHANGED <<tokenLedger, pointsLedger>>
  BY DEF CommitDelete, walletVars
<1>3. CASE pred'[p] = pred[p]
  BY <1>1, <1>2, <1>3, SameMoney
<1>4. CASE pred'[p] # pred[p]
  <2>1. pred'[p] = [pred[p] EXCEPT !.status = "DELETED"]
    BY <1>4 DEF CommitDelete, PurgedPreds
  <2>2. pred'[p].status = "DELETED" /\ pred'[p].stake = pred[p].stake
    BY <1>1, <2>1 DEF PredsTypeOK, PredRow
  <2>3. HeldFor(p)' = HeldFor(p)
    BY <1>2 DEF HeldFor
  <2>4. HeldFor(p) \in {0, pred[p].stake}
        /\ (pointsLedger[p].win = 0 \/ pointsLedger[p].cashout = 0)
    BY <1>1, LedgerNumbers DEF PredMoney, PredStatus
  <2> QED
    BY <1>2, <2>2, <2>3, <2>4 DEF PredMoney
<1> QED
  BY <1>3, <1>4

\* Every step keeps the money of every prediction right.
LEMMA NextMoney ==
  ASSUME TypeOK, PredictionsPaidOnce, [Next]_vars
  PROVE  PredictionsPaidOnce'
<1> SUFFICES ASSUME NEW p \in Preds PROVE PredMoney(p)'
  BY DEF PredictionsPaidOnce
<1>1. PredMoney(p)
  BY DEF PredictionsPaidOnce
<1>2. CASE UNCHANGED <<pred, tokenLedger, pointsLedger>>
  BY <1>1, <1>2, SameMoney
<1>3. CASE UNCHANGED vars
  BY <1>2, <1>3 DEF vars, walletVars
<1>4. CASE \/ Tick \/ AutoLock
           \/ \E e \in Events, o \in OutcomeLists, k \in 1 .. MaxTime : Create(e, o, k)
  BY <1>2, <1>4 DEF Tick, AutoLock, Create, walletVars
<1>5. ASSUME NEW h \in Handlers, Admin(h)
      PROVE  PredMoney(p)'
  <2>1. CASE CommitCancel(h) \/ CommitUncancel(h)
    BY <2>1, CommitCancelMoney, CommitUncancelMoney
  <2>2. CASE \E bonus \in [Users -> Bonuses] : CommitSettle(h, bonus)
    BY <2>2, CommitSettleMoney
  <2>3. CASE WriteLock(h) \/ WriteUpdate(h)
    BY <1>2, <2>3 DEF WriteLock, WriteUpdate, walletVars
  <2>4. ASSUME NEW e \in Events,
               \/ ReadForLock(h, e) \/ BeginCancel(h, e) \/ BeginUncancel(h, e)
               \/ \E n \in Names : BeginSettle(h, e, n)
               \/ \E o \in OutcomeLists, k \in 1 .. MaxTime : ReadForUpdate(h, e, o, k)
        PROVE  PredMoney(p)'
    BY <1>2, <2>4
       DEF ReadForLock, BeginCancel, BeginUncancel, BeginSettle, ReadForUpdate, walletVars
  <2> QED
    BY <1>5, <2>1, <2>2, <2>3, <2>4 DEF Admin
<1>6. ASSUME NEW h \in Handlers, Bettor(h)
      PROVE  PredMoney(p)'
  <2>1. CASE \/ \E p0 \in Preds, accrual \in Accruals : CommitPlace(h, p0, accrual)
             \/ \E q \in Prices : CommitCashout(h, q)
             \/ \E a \in Accas, accrual \in Accruals : CommitAccumulate(h, a, accrual)
    BY <2>1, CommitPlaceMoney, CommitCashoutMoney, CommitAccumulateMoney
  <2>2. CASE \/ \E u \in Users, e \in Events, n \in Names, s \in Stakes, q \in Prices :
                  ReadForPlace(h, u, e, n, s, q)
             \/ \E p0 \in Preds, q \in Prices : ReadForCashout(h, p0, q)
             \/ \E u \in Users, s \in Stakes, legs \in [Events -> LegChoices] :
                  ReadForAccumulate(h, u, s, legs)
    BY <1>2, <2>2 DEF ReadForPlace, ReadForCashout, ReadForAccumulate, walletVars
  <2> QED
    BY <1>6, <2>1, <2>2 DEF Bettor
<1>7. ASSUME NEW h \in Handlers, Cleaner(h) \/ Abort(h)
      PROVE  PredMoney(p)'
  BY <1>2, <1>7, CommitDeleteMoney DEF Cleaner, Abort, ReadForDelete, walletVars
<1> QED
  BY <1>3, <1>4, <1>5, <1>6, <1>7 DEF Next

(* The stake of every prediction is held exactly once unless it was        *)
(* refunded, and it has paid exactly what its row says, whatever requests  *)
(* interleave (predictions.ts:370, events.ts:341, 517, 599).               *)
THEOREM PaidOnce == Spec => []PredictionsPaidOnce
<1>1. Init => PredictionsPaidOnce
  BY DEF Init, PredictionsPaidOnce, PredMoney, HeldFor, NoPred, Bets
<1>2. TypeOK /\ PredictionsPaidOnce /\ [Next]_vars => PredictionsPaidOnce'
  BY NextMoney
<1> QED
  BY <1>1, <1>2, TypeCorrect, PTL DEF Spec

-----------------------------------------------------------------------------
(***************************************************************************)
(* No bet outlives its event: NothingOpenOnFinished holds in every         *)
(* reachable state.  It is inductive on top of TypeOK: a bet starts only   *)
(* on an event that its transaction sees OPEN, and whatever ends an event  *)
(* ends every prediction and leg that is PENDING on it in the same         *)
(* transaction.                                                            *)
(***************************************************************************)

\* The only legs that are PENDING in the table were so already, and lie on events in S.
OnlyPendingIn(table, S) == \A a \in Accas, f \in Events :
  table[a].legs[f].status = "PENDING" => f \in S /\ acca[a].legs[f].status = "PENDING"

\* A leg moved on one event: that leg has the new status or keeps one that is not `from`.
LEMMA MovedLeg ==
  ASSUME NEW r \in AccaRow, NEW e \in Events, NEW from, NEW to \in LegStatus, NEW f \in Events
  PROVE  /\ f # e => MoveLeg(r, e, from, to).legs[f] = r.legs[f]
         /\ MoveLeg(r, e, from, to).legs[e].status
              = IF r.legs[e].status = from THEN to ELSE r.legs[e].status
<1>1. r.legs[e] \in Leg
  BY DEF AccaRow
<1>2. [r.legs EXCEPT ![e].status = to][e].status = to
  BY <1>1 DEF AccaRow, Leg
<1>3. f # e => [r.legs EXCEPT ![e].status = to][f] = r.legs[f]
  BY DEF AccaRow
<1>4. WithLeg(r, e, to).legs = [r.legs EXCEPT ![e].status = to]
  BY DEF WithLeg, AccaRow
<1> QED
  BY <1>2, <1>3, <1>4 DEF MoveLeg

\* settleLegsForEvent leaves no leg on the event PENDING.
LEMMA SettledLegs ==
  ASSUME AccasTypeOK, NEW view \in AccaTable, NEW e \in Events, NEW n
  PROVE  OnlyPendingIn(SettledAccas(view, e, n), Events \ {e})
<1> SUFFICES ASSUME NEW a \in Accas, NEW f \in Events,
                    SettledAccas(view, e, n)[a].legs[f].status = "PENDING"
             PROVE  f \in Events \ {e} /\ acca[a].legs[f].status = "PENDING"
  BY DEF OnlyPendingIn
<1> DEFINE verdict == LegVerdict(acca[a], e, n)
           row == MoveLeg(acca[a], e, "PENDING", verdict)
<1>1. acca[a] \in AccaRow
  BY DEF AccasTypeOK
<1>2. verdict \in LegStatus /\ verdict # "PENDING"
  BY DEF LegVerdict, LegStatus
<1>3. row \in AccaRow
  BY <1>1, <1>2, MoveLegType
<1>4. SettledAccas(view, e, n)[a].legs = row.legs
  BY <1>3 DEF SettledAccas, AccaRow
<1> HIDE DEF verdict
<1> QED
  BY <1>1, <1>2, <1>4, MovedLeg

\* Neither does cancelLegsForEvent.
LEMMA CancelledLegs ==
  ASSUME AccasTypeOK, NEW view \in AccaTable, NEW e \in Events
  PROVE  OnlyPendingIn(CancelledAccas(view, e), Events \ {e})
<1> SUFFICES ASSUME NEW a \in Accas, NEW f \in Events,
                    CancelledAccas(view, e)[a].legs[f].status = "PENDING"
             PROVE  f \in Events \ {e} /\ acca[a].legs[f].status = "PENDING"
  BY DEF OnlyPendingIn
<1> DEFINE row == MoveLeg(acca[a], e, "PENDING", "REFUNDED")
<1>1. acca[a] \in AccaRow /\ "REFUNDED" \in LegStatus
  BY DEF AccasTypeOK, LegStatus
<1>2. row \in AccaRow
  BY <1>1, MoveLegType
<1>3. CancelledAccas(view, e)[a].legs = row.legs
  BY <1>2 DEF CancelledAccas, AccaRow
<1> QED
  BY <1>1, <1>3, MovedLeg

\* restoreCancelledLegsForEvent makes legs PENDING on the event alone.
LEMMA RestoredLegs ==
  ASSUME AccasTypeOK, NEW view \in AccaTable, NEW e \in Events,
         NEW a \in Accas, NEW f \in Events,
         RestoredAccas(view, e)[a].legs[f].status = "PENDING"
  PROVE  f = e \/ acca[a].legs[f].status = "PENDING"
<1> DEFINE row == MoveLeg(acca[a], e, "REFUNDED", "PENDING")
<1>1. acca[a] \in AccaRow /\ "PENDING" \in LegStatus
  BY DEF AccasTypeOK, LegStatus
<1>2. row \in AccaRow
  BY <1>1, MoveLegType
<1>3. RestoredAccas(view, e)[a].legs = row.legs
  BY <1>2 DEF RestoredAccas, AccaRow
<1> QED
  BY <1>1, <1>3, MovedLeg

\* Deleting events leaves no leg on them PENDING.
LEMMA PurgedLegs ==
  ASSUME AccasTypeOK, NEW S \in SUBSET Events
  PROVE  OnlyPendingIn(PurgedAccas(S), Events \ S)
<1> SUFFICES ASSUME NEW a \in Accas, NEW f \in Events,
                    PurgedAccas(S)[a].legs[f].status = "PENDING"
             PROVE  f \in Events \ S /\ acca[a].legs[f].status = "PENDING"
  BY DEF OnlyPendingIn
<1> DEFINE legs == [e \in Events |-> IF e \in S /\ acca[a].legs[e].status # "NONE"
                                     THEN [acca[a].legs[e] EXCEPT !.status = "DELETED"]
                                     ELSE acca[a].legs[e]]
           row == [acca[a] EXCEPT !.legs = legs]
<1>1. PurgedAccas(S)[a] \in {row, [row EXCEPT !.status = "DELETED"]}
  BY DEF PurgedAccas, AccasTypeOK, AccaRow
<1>2. PurgedAccas(S)[a].legs[f] = legs[f]
  BY <1>1 DEF AccasTypeOK, AccaRow
<1>3. acca[a].legs[f] \in Leg
  BY DEF AccasTypeOK, AccaRow
<1>4. CASE f \in S /\ acca[a].legs[f].status # "NONE"
  <2>1. legs[f].status = "DELETED"
    BY <1>3, <1>4 DEF Leg
  <2> QED
    BY <1>2, <2>1
<1>5. CASE ~(f \in S /\ acca[a].legs[f].status # "NONE")
  BY <1>2, <1>5
<1> QED
  BY <1>4, <1>5

-----------------------------------------------------------------------------

\* A step that ends no event and adds no PENDING prediction or leg keeps the property.
LEMMA NothingStarted ==
  ASSUME NothingOpenOnFinished,
         \A e \in Events : Undecided(e) => Undecided(e)',
         \A p \in Preds : pred'[p].status = "PENDING" => pred'[p] = pred[p],
         \A a \in Accas, e \in Events :
           acca'[a].legs[e].status = "PENDING" => acca[a].legs[e].status = "PENDING"
  PROVE  NothingOpenOnFinished'
  BY DEF NothingOpenOnFinished, OnEvent

\* The steps that leave the bets alone: what administrators and timers do to an event.
LEMMA EventActionsOpen ==
  ASSUME TypeOK, NothingOpenOnFinished,
         \/ \E e \in Events, o \in OutcomeLists, k \in 1 .. MaxTime : Create(e, o, k)
         \/ AutoLock
         \/ \E h \in Handlers : WriteLock(h) \/ WriteUpdate(h)
  PROVE  NothingOpenOnFinished'
<1> SUFFICES UNCHANGED <<pred, acca>> /\ \A e \in Events : Undecided(e) => Undecided(e)'
  BY NothingStarted
<1>1. ASSUME NEW e \in Events, NEW o \in OutcomeLists, NEW k \in 1 .. MaxTime, Create(e, o, k)
      PROVE  UNCHANGED <<pred, acca>> /\ \A f \in Events : Undecided(f) => Undecided(f)'
  BY <1>1 DEF Create, Undecided, TypeOK
<1>2. CASE AutoLock
  BY <1>2 DEF AutoLock, Undecided, TypeOK, EventRow
<1>3. ASSUME NEW h \in Handlers, WriteLock(h)
      PROVE  UNCHANGED <<pred, acca>> /\ \A f \in Events : Undecided(f) => Undecided(f)'
  <2>1. event[req[h].event] \in EventRow
    BY <1>3, RequestFields DEF WriteLock, TypeOK
  <2> QED
    BY <1>3, <2>1 DEF WriteLock, Undecided, TypeOK, EventRow
<1>4. ASSUME NEW h \in Handlers, WriteUpdate(h)
      PROVE  UNCHANGED <<pred, acca>> /\ \A f \in Events : Undecided(f) => Undecided(f)'
  <2>1. \A f \in Events : event'[f].status = event[f].status
    BY <1>4, RequestFields DEF WriteUpdate, TypeOK, EventRow
  <2> QED
    BY <1>4, <2>1 DEF WriteUpdate, Undecided
<1> QED
  BY <1>1, <1>2, <1>3, <1>4

\* PredictionService.place: the event is OPEN when the transaction commits.
LEMMA CommitPlaceOpen ==
  ASSUME TypeOK, NothingOpenOnFinished, NEW h \in Handlers, NEW p \in Preds, NEW accrual,
         CommitPlace(h, p, accrual)
  PROVE  NothingOpenOnFinished'
<1>1. UNCHANGED <<event, acca>> /\ Undecided(req[h].event)
  BY DEF CommitPlace, Accepting, Undecided
<1>2. \A q \in Preds \ {p} : pred'[q] = pred[q]
  BY DEF CommitPlace
<1>3. pred'[p].event = req[h].event
  BY DEF CommitPlace, NewPred, TypeOK, PredsTypeOK
<1> QED
  BY <1>1, <1>2, <1>3 DEF NothingOpenOnFinished, OnEvent, Undecided

\* PredictionService.cashout ends a prediction.
LEMMA CommitCashoutOpen ==
  ASSUME TypeOK, NothingOpenOnFinished, NEW h \in Handlers, NEW q, CommitCashout(h, q)
  PROVE  NothingOpenOnFinished'
<1>1. UNCHANGED <<event, acca>> /\ req[h].pred \in Preds
  BY RequestFields DEF CommitCashout, TypeOK
<1>2. \A p \in Preds \ {req[h].pred} : pred'[p] = pred[p]
  BY <1>1 DEF CommitCashout, TypeOK, PredsTypeOK
<1>3. pred'[req[h].pred].status = "CASHED_OUT"
  BY <1>1 DEF CommitCashout, TypeOK, PredsTypeOK, PredRow
<1> QED
  BY <1>1, <1>2, <1>3, NothingStarted DEF Undecided

\* AccumulatorService.place: every event of a leg is OPEN when the transaction commits.
LEMMA CommitAccumulateOpen ==
  ASSUME TypeOK, NothingOpenOnFinished, NEW h \in Handlers, NEW a \in Accas, NEW accrual,
         CommitAccumulate(h, a, accrual)
  PROVE  NothingOpenOnFinished'
<1>1. UNCHANGED <<event, pred>>
  BY DEF CommitAccumulate
<1>2. \A b \in Accas \ {a} : acca'[b] = acca[b]
  BY DEF CommitAccumulate
<1>3. acca'[a].legs = req[h].legs
  BY DEF CommitAccumulate, NewAcca, TypeOK, AccasTypeOK
<1>4. \A e \in Events : req[h].legs[e].status = "PENDING" => Undecided(e)
  BY DEF CommitAccumulate, LegsChosen, Accepting, Undecided
<1> QED
  BY <1>1, <1>2, <1>3, <1>4 DEF NothingOpenOnFinished, OnEvent, Undecided

-----------------------------------------------------------------------------

\* What ends events S and with them everything PENDING on them keeps the property.
LEMMA EventsEnded ==
  ASSUME NothingOpenOnFinished, NEW S \in SUBSET Events,
         \A e \in Events \ S : event'[e].status = event[e].status,
         \A p \in Preds : pred'[p].status = "PENDING" => pred'[p] = pred[p] /\ pred[p].event \notin S,
         OnlyPendingIn(acca', Events \ S)
  PROVE  NothingOpenOnFinished'
  BY DEF NothingOpenOnFinished, OnEvent, OnlyPendingIn, Undecided

\* EventService.settle
LEMMA CommitSettleOpen ==
  ASSUME TypeOK, NothingOpenOnFinished, NEW h \in Handlers, NEW bonus, CommitSettle(h, bonus)
  PROVE  NothingOpenOnFinished'
<1> DEFINE e == req[h].event
           n == req[h].outcome
<1>1. e \in Events /\ req[h].view \in AccaTable
  BY RequestFields DEF CommitSettle, TypeOK
<1>2. \A f \in Events \ {e} : event'[f].status = event[f].status
  BY <1>1 DEF CommitSettle, TypeOK
<1>3. ASSUME NEW p \in Preds, pred'[p].status = "PENDING"
      PROVE  pred'[p] = pred[p] /\ pred[p].event \notin {e}
  <2>1. pred[p] \in PredRow
    BY DEF TypeOK, PredsTypeOK
  <2>2. pred'[p] = SettledPreds(e, n)[p]
    BY DEF CommitSettle
  <2>3. CASE p \in OnEvent(e, "PENDING")
    BY <1>3, <2>1, <2>2, <2>3 DEF SettledPreds, PredRow
  <2>4. CASE p \notin OnEvent(e, "PENDING")
    BY <1>3, <2>2, <2>4 DEF SettledPreds, OnEvent
  <2> QED
    BY <2>3, <2>4
<1>4. OnlyPendingIn(acca', Events \ {e})
  BY <1>1, SettledLegs DEF CommitSettle, TypeOK
<1>5. {e} \in SUBSET Events
  BY <1>1
<1> HIDE DEF e
<1> QED
  BY <1>2, <1>3, <1>4, <1>5, EventsEnded

\* EventService.cancel
LEMMA CommitCancelOpen ==
  ASSUME TypeOK, NothingOpenOnFinished, NEW h \in Handlers, CommitCancel(h)
  PROVE  NothingOpenOnFinished'
<1> DEFINE e == req[h].event
<1>1. e \in Events /\ req[h].view \in AccaTable
  BY RequestFields DEF CommitCancel, TypeOK
<1>2. \A f \in Events \ {e} : event'[f].status = event[f].status
  BY <1>1 DEF CommitCancel, TypeOK
<1>3. ASSUME NEW p \in Preds, pred'[p].status = "PENDING"
      PROVE  pred'[p] = pred[p] /\ pred[p].event \notin {e}
  <2>1. PredsTypeOK /\ pred'[p] = Moved(e, "PENDING", "REFUNDED")[p]
    BY DEF CommitCancel, RefundedPreds, TypeOK
  <2>2. p \notin OnEvent(e, "PENDING")
    BY <1>3, <2>1, MovedRow
  <2> QED
    BY <1>3, <2>1, <2>2, MovedRow DEF OnEvent
<1>4. OnlyPendingIn(acca', Events \ {e})
  BY <1>1, CancelledLegs DEF CommitCancel, TypeOK
<1>5. {e} \in SUBSET Events
  BY <1>1
<1> HIDE DEF e
<1> QED
  BY <1>2, <1>3, <1>4, <1>5, EventsEnded

\* EventService.uncancel: bets come back on an event that is open again.
LEMMA CommitUncancelOpen ==
  ASSUME TypeOK, NothingOpenOnFinished, NEW h \in Handlers, CommitUncancel(h)
  PROVE  NothingOpenOnFinished'
<1> DEFINE e == req[h].event
<1>1. e \in Events /\ req[h].view \in AccaTable /\ PredsTypeOK /\ AccasTypeOK
  BY RequestFields DEF CommitUncancel, TypeOK
<1>2. \A f \in Events \ {e} : event'[f].status = event[f].status
  BY <1>1 DEF CommitUncancel, TypeOK
<1>3. event'[e].status \in {"OPEN", "LOCKED"}
  <2>1. event[e] \in EventRow
    BY <1>1 DEF TypeOK
  <2> QED
    BY <1>1, <2>1 DEF CommitUncancel, TypeOK, EventRow
<1>4. \A p \in Preds : p \notin OnEvent(e, "REFUNDED") => pred'[p] = pred[p]
  BY <1>1, MovedRow DEF CommitUncancel, RestoredPreds
<1>5. \A p \in OnEvent(e, "REFUNDED") : pred'[p].event = e
  BY <1>1 DEF CommitUncancel, RestoredPreds, Moved, OnEvent, PredsTypeOK, PredRow
<1>6. \A a \in Accas, f \in Events \ {e} :
        acca'[a].legs[f].status = "PENDING" => acca[a].legs[f].status = "PENDING"
  BY <1>1, RestoredLegs DEF CommitUncancel
<1> HIDE DEF e
<1> QED
  BY <1>1, <1>2, <1>3, <1>4, <1>5, <1>6 DEF NothingOpenOnFinished, OnEvent, Undecided

\* deleteOldFinishedEvents
LEMMA CommitDeleteOpen ==
  ASSUME TypeOK, NothingOpenOnFinished, NEW h \in Handlers, CommitDelete(h)
  PROVE  NothingOpenOnFinished'
<1> DEFINE S == req[h].events
<1>1. S \in SUBSET Events
  BY RequestFields DEF CommitDelete, TypeOK
<1>2. \A f \in Events \ S : event'[f].status = event[f].status
  BY <1>1 DEF CommitDelete
<1>3. ASSUME NEW p \in Preds, pred'[p].status = "PENDING"
      PROVE  pred'[p] = pred[p] /\ pred[p].event \notin S
  <2>1. pred[p] \in PredRow /\ pred'[p] = PurgedPreds(S)[p]
    BY DEF CommitDelete, TypeOK, PredsTypeOK
  <2>2. ~(PredExists(p) /\ pred[p].event \in S)
    BY <1>3, <2>1 DEF PurgedPreds, PredRow
  <2> QED
    BY <1>3, <2>1, <2>2 DEF PurgedPreds, PredExists
<1>4. OnlyPendingIn(acca', Events \ S)
  BY <1>1, PurgedLegs DEF CommitDelete, TypeOK
<1> HIDE DEF S
<1> QED
  BY <1>1, <1>2, <1>3, <1>4, EventsEnded

-----------------------------------------------------------------------------

\* Every step keeps finished events free of open bets.
LEMMA NextOpen ==
  ASSUME TypeOK, NothingOpenOnFinished, [Next]_vars
  PROVE  NothingOpenOnFinished'
<1>1. ASSUME UNCHANGED <<event, pred, acca>>
      PROVE  NothingOpenOnFinished'
  BY <1>1 DEF NothingOpenOnFinished, OnEvent, Undecided
<1>2. CASE UNCHANGED vars \/ Tick
  BY <1>1, <1>2 DEF vars, Tick
<1>3. CASE \/ AutoLock
           \/ \E e \in Events, o \in OutcomeLists, k \in 1 .. MaxTime : Create(e, o, k)
  BY <1>3, EventActionsOpen
<1>4. ASSUME NEW h \in Handlers, Admin(h)
      PROVE  NothingOpenOnFinished'
  <2>1. CASE \/ CommitCancel(h) \/ CommitUncancel(h)
             \/ \E bonus \in [Users -> Bonuses] : CommitSettle(h, bonus)
    BY <2>1, CommitCancelOpen, CommitUncancelOpen, CommitSettleOpen
  <2>2. CASE WriteLock(h) \/ WriteUpdate(h)
    BY <2>2, EventActionsOpen
  <2>3. ASSUME NEW e \in Events,
               \/ ReadForLock(h, e) \/ BeginCancel(h, e) \/ BeginUncancel(h, e)
               \/ \E n \in Names : BeginSettle(h, e, n)
               \/ \E o \in OutcomeLists, k \in 1 .. MaxTime : ReadForUpdate(h, e, o, k)
        PROVE  NothingOpenOnFinished'
    BY <1>1, <2>3 DEF ReadForLock, BeginCancel, BeginUncancel, BeginSettle, ReadForUpdate
  <2> QED
    BY <1>4, <2>1, <2>2, <2>3 DEF Admin
<1>5. ASSUME NEW h \in Handlers, Bettor(h)
      PROVE  NothingOpenOnFinished'
  <2>1. CASE \/ \E p \in Preds, accrual \in Accruals : CommitPlace(h, p, accrual)
             \/ \E q \in Prices : CommitCashout(h, q)
             \/ \E a \in Accas, accrual \in Accruals : CommitAccumulate(h, a, accrual)
    BY <2>1, CommitPlaceOpen, CommitCashoutOpen, CommitAccumulateOpen
  <2>2. CASE \/ \E u \in Users, e \in Events, n \in Names, s \in Stakes, q \in Prices :
                  ReadForPlace(h, u, e, n, s, q)
             \/ \E p \in Preds, q \in Prices : ReadForCashout(h, p, q)
             \/ \E u \in Users, s \in Stakes, legs \in [Events -> LegChoices] :
                  ReadForAccumulate(h, u, s, legs)
    BY <1>1, <2>2 DEF ReadForPlace, ReadForCashout, ReadForAccumulate
  <2> QED
    BY <1>5, <2>1, <2>2 DEF Bettor
<1>6. ASSUME NEW h \in Handlers, Cleaner(h) \/ Abort(h)
      PROVE  NothingOpenOnFinished'
  BY <1>1, <1>6, CommitDeleteOpen DEF Cleaner, Abort, ReadForDelete
<1> QED
  BY <1>2, <1>3, <1>4, <1>5, <1>6 DEF Next

(* No prediction and no accumulator leg is PENDING on an event that is     *)
(* settled, cancelled or deleted, whatever requests interleave             *)
(* (predictions.ts:104-126, accumulators.ts:95-107, events.ts:299-376).    *)
THEOREM NoBetOutlivesItsEvent == Spec => []NothingOpenOnFinished
<1>1. Init => NothingOpenOnFinished
  BY DEF Init, NothingOpenOnFinished, OnEvent, NoPred, NoAcca, NoLeg
<1>2. TypeOK /\ NothingOpenOnFinished /\ [Next]_vars => NothingOpenOnFinished'
  BY NextOpen
<1> QED
  BY <1>1, <1>2, TypeCorrect, PTL DEF Spec

-----------------------------------------------------------------------------
(***************************************************************************)
(* Betting implements the abstract Bet, for every prediction: one step of  *)
(* the platform is a step of Bet, or none, for each of them.  What         *)
(* PaidOnce says of the states before and after a step fixes what is held  *)
(* and paid in all but deleted rows, so a step is determined by how the    *)
(* row's status turns; of deleted rows the ledger rows do not change.      *)
(***************************************************************************)

\* Every prediction ever placed has a stake.
HasStake == \A p \in Preds : pred[p].status # "ABSENT" => pred[p].stake > 0

KeepsStake(p) == pred'[p].stake = pred[p].stake

\* How a step may turn the row of a prediction.
Turns(p) ==
  \/ pred'[p] = pred[p]
  \/ pred[p].status = "ABSENT" /\ pred'[p].status = "PENDING" /\ pred'[p].stake > 0
  \/ /\ pred[p].status = "PENDING" /\ KeepsStake(p)
     /\ pred'[p].status \in {"WON", "CASHED_OUT"} /\ pred'[p].payout > 0
  \/ pred[p].status = "PENDING" /\ KeepsStake(p) /\ pred'[p].status \in {"LOST", "REFUNDED"}
  \/ pred[p].status = "REFUNDED" /\ KeepsStake(p) /\ pred'[p].status = "PENDING"
  \/ PredExists(p) /\ KeepsStake(p) /\ pred'[p].status = "DELETED"

\* The amounts in the ledger rows of prediction p stay.
KeepsRows(p) ==
  /\ tokenLedger'[p].stake = tokenLedger[p].stake
  /\ tokenLedger'[p].refund = tokenLedger[p].refund
  /\ pointsLedger'[p].win = pointsLedger[p].win
  /\ pointsLedger'[p].cashout = pointsLedger[p].cashout

GoodStep(p) == Turns(p) /\ (pred'[p].status = "DELETED" => KeepsRows(p))

\* Postings that have nothing for a prediction keep its rows.
LEMMA NothingPosted ==
  ASSUME WalletsTypeOK, NEW p \in Preds,
         \/ UNCHANGED tokenLedger
         \/ \E grant, debits, refunds, owner :
              /\ PostTokens(grant, debits, refunds, owner)
              /\ AmountIn(debits, p) = 0 /\ AmountIn(refunds, p) = 0,
         \/ UNCHANGED pointsLedger
         \/ \E wins, cashouts, owner :
              /\ PostPoints(wins, cashouts, owner)
              /\ AmountIn(wins, p) = 0 /\ AmountIn(cashouts, p) = 0
  PROVE  KeepsRows(p)
<1>0. /\ p \in Bets
      /\ tokenLedger[p].stake \in Nat /\ tokenLedger[p].refund \in Nat
      /\ pointsLedger[p].win \in Nat /\ pointsLedger[p].cashout \in Nat
  BY DEF WalletsTypeOK, Bets
<1>1. /\ tokenLedger'[p].stake = tokenLedger[p].stake
      /\ tokenLedger'[p].refund = tokenLedger[p].refund
  <2>1. CASE UNCHANGED tokenLedger
    BY <2>1
  <2>2. ASSUME NEW grant, NEW debits, NEW refunds, NEW owner,
               PostTokens(grant, debits, refunds, owner),
               AmountIn(debits, p) = 0, AmountIn(refunds, p) = 0
        PROVE  /\ tokenLedger'[p].stake = tokenLedger[p].stake
               /\ tokenLedger'[p].refund = tokenLedger[p].refund
    BY <1>0, <2>2, TokenRows
  <2> QED
    BY <2>1, <2>2
<1>2. /\ pointsLedger'[p].win = pointsLedger[p].win
      /\ pointsLedger'[p].cashout = pointsLedger[p].cashout
  <2>1. CASE UNCHANGED pointsLedger
    BY <2>1
  <2>2. ASSUME NEW wins, NEW cashouts, NEW owner, PostPoints(wins, cashouts, owner),
               AmountIn(wins, p) = 0, AmountIn(cashouts, p) = 0
        PROVE  /\ pointsLedger'[p].win = pointsLedger[p].win
               /\ pointsLedger'[p].cashout = pointsLedger[p].cashout
    BY <1>0, <2>2, PointRows
  <2> QED
    BY <2>1, <2>2
<1> QED
  BY <1>1, <1>2 DEF KeepsRows

\* A row that a step leaves alone, with its ledger rows.
LEMMA StillGood ==
  ASSUME NEW p \in Preds, pred'[p] = pred[p], KeepsRows(p)
  PROVE  GoodStep(p)
  BY DEF GoodStep, Turns

\* A row that a step moves to a status other than DELETED.
LEMMA TurnGood ==
  ASSUME NEW p \in Preds, Turns(p), pred'[p].status # "DELETED"
  PROVE  GoodStep(p)
  BY DEF GoodStep

-----------------------------------------------------------------------------
(* Every action turns every row as Bet allows *)

\* A bet that is placed turns its row from ABSENT to PENDING.
LEMMA CommitPlaceGood ==
  ASSUME TypeOK, NEW h \in Handlers, NEW p0 \in Preds, NEW accrual,
         CommitPlace(h, p0, accrual), NEW p \in Preds
  PROVE  GoodStep(p)
<1>1. WalletsTypeOK /\ PredsTypeOK /\ req[h].stake \in Stakes
  BY RequestFields DEF CommitPlace, TypeOK
<1>2. CASE p = p0
  <2>1. pred[p].status = "ABSENT"
    BY <1>2 DEF CommitPlace
  <2>2. pred'[p].status = "PENDING" /\ pred'[p].stake = req[h].stake
    BY <1>1, <1>2 DEF CommitPlace, NewPred, PredsTypeOK
  <2>3. req[h].stake > 0
    <3>1. Stakes \subseteq Nat \ {0}
      BY PricingAssumption
    <3>2. \A i \in Nat \ {0} : i > 0
      OBVIOUS
    <3> QED
      BY <1>1, <3>1, <3>2
  <2>4. Turns(p)
    BY <2>1, <2>2, <2>3 DEF Turns
  <2> QED
    BY <2>2, <2>4, TurnGood
<1>3. CASE p # p0
  <2>1. pred'[p] = pred[p]
    BY <1>3 DEF CommitPlace
  <2>2. AmountIn([b \in {p0} |-> req[h].stake], p) = 0
    BY <1>3 DEF AmountIn
  <2>3. UNCHANGED pointsLedger
    BY DEF CommitPlace, NoPoints
  <2>4. PostTokens([NoGrant EXCEPT ![req[h].user] = accrual], [b \in {p0} |-> req[h].stake],
                   NoRows, [OwnerNow EXCEPT ![p0] = req[h].user])
    BY DEF CommitPlace
  <2>5. KeepsRows(p)
    BY <1>1, <2>2, <2>3, <2>4, NoRowsAmount, NothingPosted
  <2> QED
    BY <2>1, <2>5, StillGood
<1> QED
  BY <1>2, <1>3

\* A cashout turns its row, which it found PENDING, to CASHED_OUT.
LEMMA CommitCashoutGood ==
  ASSUME TypeOK, NEW h \in Handlers, NEW q \in Prices, CommitCashout(h, q), NEW p \in Preds
  PROVE  GoodStep(p)
<1> DEFINE p0 == req[h].pred
           value == ValueOf(p0, q)
           cashouts == [b \in {p0} |-> value]
<1>1. WalletsTypeOK /\ PredsTypeOK /\ p0 \in Preds
  BY RequestFields DEF CommitCashout, TypeOK
<1>2. PostPoints(NoRows, cashouts, OwnerNow)
  BY DEF CommitCashout
<1>3. pred' = [pred EXCEPT ![p0].status = "CASHED_OUT", ![p0].payout = value]
  BY DEF CommitCashout
<1>4. value > 0
  BY <1>2 DEF PostPoints
<1>5. p # p0 => AmountIn(cashouts, p) = 0
  BY DEF AmountIn
<1> HIDE DEF value, cashouts
<1>6. CASE p = p0
  <2>1. pred[p].status = "PENDING"
    BY <1>6 DEF CommitCashout, CashoutOpen
  <2>2. /\ pred'[p].status = "CASHED_OUT" /\ pred'[p].payout = value
        /\ pred'[p].stake = pred[p].stake
    BY <1>1, <1>3, <1>6 DEF PredsTypeOK, PredRow
  <2> QED
    BY <1>4, <2>1, <2>2, TurnGood DEF Turns, KeepsStake
<1>7. CASE p # p0
  <2>1. pred'[p] = pred[p]
    BY <1>1, <1>3, <1>7 DEF PredsTypeOK
  <2>2. UNCHANGED tokenLedger
    BY DEF CommitCashout, NoTokens
  <2>3. KeepsRows(p)
    BY <1>1, <1>2, <1>5, <1>7, <2>2, NoRowsAmount, NothingPosted
  <2> QED
    BY <2>1, <2>3, StillGood
<1> QED
  BY <1>6, <1>7

\* An accumulator that is placed turns no prediction.
LEMMA CommitAccumulateGood ==
  ASSUME TypeOK, NEW h \in Handlers, NEW a \in Accas, NEW accrual,
         CommitAccumulate(h, a, accrual), NEW p \in Preds
  PROVE  GoodStep(p)
<1>1. WalletsTypeOK /\ p # a
  BY BetIdsAssumption DEF TypeOK
<1>2. AmountIn([b \in {a} |-> req[h].stake], p) = 0
  BY <1>1 DEF AmountIn
<1>3. UNCHANGED <<pred, pointsLedger>>
  BY DEF CommitAccumulate, NoPoints
<1>4. PostTokens([NoGrant EXCEPT ![req[h].user] = accrual], [b \in {a} |-> req[h].stake],
                 NoRows, [OwnerNow EXCEPT ![a] = req[h].user])
  BY DEF CommitAccumulate
<1>5. KeepsRows(p)
  BY <1>1, <1>2, <1>3, <1>4, NoRowsAmount, NothingPosted
<1> QED
  BY <1>3, <1>5, StillGood

\* A settlement turns the rows it found PENDING on its event to WON or LOST.
LEMMA CommitSettleGood ==
  ASSUME TypeOK, NEW h \in Handlers, NEW bonus, CommitSettle(h, bonus), NEW p \in Preds
  PROVE  GoodStep(p)
<1> DEFINE e == req[h].event
           n == req[h].outcome
           wins == PredWins(e, n)
           accaWins == AccaSettleWins(req[h].view, e, n)
<1>1. WalletsTypeOK /\ pred[p] \in PredRow /\ pred'[p] = SettledPreds(e, n)[p]
  BY DEF CommitSettle, TypeOK, PredsTypeOK
<1>2. PostPoints(Both(wins, accaWins), NoRows, OwnerNow)
  BY DEF CommitSettle
<1>3. PostTokens(bonus, NoRows, NoRows, OwnerNow)
  BY DEF CommitSettle
<1>4. DOMAIN wins = WinnersOf(e, n)
  BY DEF PredWins
<1>5. AmountIn(Both(wins, accaWins), p) = AmountIn(wins, p)
  BY AccaBatchDomains, AccaRowsApart
<1>6. CASE p \notin OnEvent(e, "PENDING")
  <2>1. pred'[p] = pred[p]
    BY <1>1, <1>6 DEF SettledPreds
  <2>2. AmountIn(wins, p) = 0
    BY <1>4, <1>6 DEF AmountIn, WinnersOf
  <2> HIDE DEF wins, accaWins
  <2>3. KeepsRows(p)
    BY <1>1, <1>2, <1>3, <1>5, <2>2, NoRowsAmount, NothingPosted
  <2> QED
    BY <2>1, <2>3, StillGood
<1>7. CASE p \in OnEvent(e, "PENDING")
  <2>1. pred[p].status = "PENDING"
    BY <1>7 DEF OnEvent
  <2>2. CASE p \in WinnersOf(e, n)
    <3>1. /\ pred'[p].status = "WON" /\ pred'[p].payout = wins[p]
          /\ pred'[p].stake = pred[p].stake
      BY <1>1, <1>7, <2>2 DEF SettledPreds, PredRow
    <3>2. Both(wins, accaWins)[p] = wins[p] /\ p \in DOMAIN Both(wins, accaWins)
      BY <1>4, <2>2 DEF Both
    <3> HIDE DEF wins, accaWins
    <3>3. wins[p] > 0
      BY <1>2, <3>2 DEF PostPoints
    <3> QED
      BY <2>1, <3>1, <3>3, TurnGood DEF Turns, KeepsStake
  <2>3. CASE p \notin WinnersOf(e, n)
    <3>1. pred'[p].status = "LOST" /\ pred'[p].stake = pred[p].stake
      BY <1>1, <1>7, <2>3 DEF SettledPreds, PredRow
    <3> QED
      BY <2>1, <3>1, TurnGood DEF Turns, KeepsStake
  <2> QED
    BY <2>2, <2>3
<1> QED
  BY <1>6, <1>7

\* A cancellation turns the rows it found PENDING on its event to REFUNDED.
LEMMA CommitCancelGood ==
  ASSUME TypeOK, NEW h \in Handlers, CommitCancel(h), NEW p \in Preds
  PROVE  GoodStep(p)
<1> DEFINE e == req[h].event
           stakes == StakesOf(e, "PENDING")
           accaRefunds == AccaCancelRefunds(req[h].view, e)
           accaWins == AccaCancelWins(req[h].view, e)
<1>1. WalletsTypeOK /\ PredsTypeOK /\ pred'[p] = Moved(e, "PENDING", "REFUNDED")[p]
  BY DEF CommitCancel, RefundedPreds, TypeOK
<1>2. CASE p \notin OnEvent(e, "PENDING")
  <2>1. PostTokens(NoGrant, NoRows, Both(stakes, accaRefunds), OwnerNow)
    BY DEF CommitCancel
  <2>2. PostPoints(accaWins, NoRows, OwnerNow)
    BY DEF CommitCancel
  <2>3. AmountIn(Both(stakes, accaRefunds), p) = AmountIn(stakes, p) /\ AmountIn(accaWins, p) = 0
    BY AccaBatchDomains, AccaRowsApart
  <2>4. AmountIn(stakes, p) = 0
    BY <1>2 DEF AmountIn, StakesOf
  <2> HIDE DEF stakes, accaRefunds, accaWins
  <2>5. KeepsRows(p)
    BY <1>1, <2>1, <2>2, <2>3, <2>4, NoRowsAmount, NothingPosted
  <2> QED
    BY <1>1, <1>2, <2>5, MovedRow, StillGood
<1>3. CASE p \in OnEvent(e, "PENDING")
  <2>1. pred[p].status = "PENDING"
    BY <1>3 DEF OnEvent
  <2>2. pred'[p].status = "REFUNDED" /\ pred'[p].stake = pred[p].stake
    BY <1>1, <1>3, MovedRow
  <2> QED
    BY <2>1, <2>2, TurnGood DEF Turns, KeepsStake
<1> QED
  BY <1>2, <1>3

\* Taking a cancellation back turns the REFUNDED rows of the event to PENDING.
LEMMA CommitUncancelGood ==
  ASSUME TypeOK, NEW h \in Handlers, CommitUncancel(h), NEW p \in Preds
  PROVE  GoodStep(p)
<1> DEFINE e == req[h].event
           stakes == StakesOf(e, "REFUNDED")
           accaStakes == AccaRestoreStakes(req[h].view, e)
<1>1. WalletsTypeOK /\ PredsTypeOK /\ pred'[p] = Moved(e, "REFUNDED", "PENDING")[p]
  BY DEF CommitUncancel, RestoredPreds, TypeOK
<1>2. CASE p \notin OnEvent(e, "REFUNDED")
  <2>1. PostTokens(NoGrant, Both(stakes, accaStakes), NoRows, OwnerNow)
    BY DEF CommitUncancel
  <2>2. UNCHANGED pointsLedger
    BY DEF CommitUncancel, NoPoints
  <2>3. AmountIn(Both(stakes, accaStakes), p) = AmountIn(stakes, p)
    BY AccaBatchDomains, AccaRowsApart
  <2>4. AmountIn(stakes, p) = 0
    BY <1>2 DEF AmountIn, StakesOf
  <2> HIDE DEF stakes, accaStakes
  <2>5. KeepsRows(p)
    BY <1>1, <2>1, <2>2, <2>3, <2>4, NoRowsAmount, NothingPosted
  <2> QED
    BY <1>1, <1>2, <2>5, MovedRow, StillGood
<1>3. CASE p \in OnEvent(e, "REFUNDED")
  <2>1. pred[p].status = "REFUNDED"
    BY <1>3 DEF OnEvent
  <2>2. pred'[p].status = "PENDING" /\ pred'[p].stake = pred[p].stake
    BY <1>1, <1>3, MovedRow
  <2> QED
    BY <2>1, <2>2, TurnGood DEF Turns, KeepsStake
<1> QED
  BY <1>2, <1>3

\* A deletion turns the rows of its events to DELETED, and touches no ledger row.
LEMMA CommitDeleteGood ==
  ASSUME TypeOK, NEW h \in Handlers, CommitDelete(h), NEW p \in Preds
  PROVE  GoodStep(p)
<1>1. pred[p] \in PredRow /\ pred'[p] = PurgedPreds(req[h].events)[p]
  BY DEF CommitDelete, TypeOK, PredsTypeOK
<1>2. KeepsRows(p)
  BY DEF CommitDelete, walletVars, KeepsRows
<1>3. pred'[p] = pred[p]
      \/ (PredExists(p) /\ pred'[p].status = "DELETED" /\ pred'[p].stake = pred[p].stake)
  BY <1>1 DEF PurgedPreds, PredRow
<1> QED
  BY <1>2, <1>3 DEF GoodStep, Turns, KeepsStake

\* So does every step.
LEMMA NextGood ==
  ASSUME TypeOK, [Next]_vars, NEW p \in Preds
  PROVE  GoodStep(p)
<1>1. CASE UNCHANGED <<pred, tokenLedger, pointsLedger>>
  BY <1>1, StillGood DEF KeepsRows
<1>2. CASE UNCHANGED vars
  BY <1>1, <1>2 DEF vars, walletVars
<1>3. CASE \/ Tick \/ AutoLock
           \/ \E e \in Events, o \in OutcomeLists, k \in 1 .. MaxTime : Create(e, o, k)
  BY <1>1, <1>3 DEF Tick, AutoLock, Create, walletVars
<1>4. ASSUME NEW h \in Handlers, Admin(h)
      PROVE  GoodStep(p)
  <2>1. CASE \/ CommitCancel(h) \/ CommitUncancel(h)
             \/ \E bonus \in [Users -> Bonuses] : CommitSettle(h, bonus)
    BY <2>1, CommitCancelGood, CommitUncancelGood, CommitSettleGood
  <2>2. CASE WriteLock(h) \/ WriteUpdate(h)
    BY <1>1, <2>2 DEF WriteLock, WriteUpdate, walletVars
  <2>3. ASSUME NEW e \in Events,
               \/ ReadForLock(h, e) \/ BeginCancel(h, e) \/ BeginUncancel(h, e)
               \/ \E n \in Names : BeginSettle(h, e, n)
               \/ \E o \in OutcomeLists, k \in 1 .. MaxTime : ReadForUpdate(h, e, o, k)
        PROVE  GoodStep(p)
    BY <1>1, <2>3
       DEF ReadForLock, BeginCancel, BeginUncancel, BeginSettle, ReadForUpdate, walletVars
  <2> QED
    BY <1>4, <2>1, <2>2, <2>3 DEF Admin
<1>5. ASSUME NEW h \in Handlers, Bettor(h)
      PROVE  GoodStep(p)
  <2>1. CASE \/ \E p0 \in Preds, accrual \in Accruals : CommitPlace(h, p0, accrual)
             \/ \E q \in Prices : CommitCashout(h, q)
             \/ \E a \in Accas, accrual \in Accruals : CommitAccumulate(h, a, accrual)
    BY <2>1, CommitPlaceGood, CommitCashoutGood, CommitAccumulateGood
  <2>2. CASE \/ \E u \in Users, e \in Events, n \in Names, s \in Stakes, q \in Prices :
                  ReadForPlace(h, u, e, n, s, q)
             \/ \E p0 \in Preds, q \in Prices : ReadForCashout(h, p0, q)
             \/ \E u \in Users, s \in Stakes, legs \in [Events -> LegChoices] :
                  ReadForAccumulate(h, u, s, legs)
    BY <1>1, <2>2 DEF ReadForPlace, ReadForCashout, ReadForAccumulate, walletVars
  <2> QED
    BY <1>5, <2>1, <2>2 DEF Bettor
<1>6. ASSUME NEW h \in Handlers, Cleaner(h) \/ Abort(h)
      PROVE  GoodStep(p)
  BY <1>1, <1>6, CommitDeleteGood DEF Cleaner, Abort, ReadForDelete, walletVars
<1> QED
  BY <1>2, <1>3, <1>4, <1>5, <1>6 DEF Next

-----------------------------------------------------------------------------

\* Every prediction that was ever placed has a stake.
LEMMA StakesArePositive == Spec => []HasStake
<1>1. Init => HasStake
  BY DEF Init, HasStake, NoPred
<1>2. TypeOK /\ HasStake /\ [Next]_vars => HasStake'
  <2> SUFFICES ASSUME TypeOK, HasStake, [Next]_vars, NEW p \in Preds,
                      pred'[p].status # "ABSENT"
               PROVE  pred'[p].stake > 0
    BY DEF HasStake
  <2> QED
    BY NextGood DEF GoodStep, Turns, KeepsStake, HasStake, PredExists
<1> QED
  BY <1>1, <1>2, TypeCorrect, PTL DEF Spec

\* A good step between states with the right money is a step of the abstract Bet.
LEMMA AbstractStep ==
  ASSUME TypeOK, TypeOK', HasStake, PredictionsPaidOnce, PredictionsPaidOnce',
         NEW p \in Preds, GoodStep(p)
  PROVE  Single!Step(p) \/ Single!Rest(p)
<1>1. /\ PredMoney(p) /\ PredMoney(p)'
      /\ pred[p].status # "ABSENT" => pred[p].stake > 0
  BY DEF PredictionsPaidOnce, HasStake
<1>2. /\ pred[p].stake \in Nat /\ pred'[p].stake \in Nat
      /\ pred[p].payout \in Nat /\ pred'[p].payout \in Nat
      /\ pred[p].status \in PredStatus
      /\ HeldFor(p) \in Int /\ HeldFor(p)' \in Int /\ PaidFor(p) \in Int /\ PaidFor(p)' \in Int
  BY DEF TypeOK, WalletsTypeOK, PredsTypeOK, PredRow, Bets, HeldFor, PaidFor
<1> DEFINE from == pred[p].status
           to == pred'[p].status
\* what is held and paid before, and after, by the status of the row
<1>3. /\ from \in {"ABSENT", "REFUNDED"} => HeldFor(p) = 0 /\ PaidFor(p) = 0
      /\ from \in {"PENDING", "LOST"} => HeldFor(p) = pred[p].stake /\ PaidFor(p) = 0
      /\ from \in {"WON", "CASHED_OUT"} => HeldFor(p) = pred[p].stake /\ PaidFor(p) = pred[p].payout
  BY <1>1, <1>2 DEF PredMoney, PaidFor
<1>4. /\ to \in {"ABSENT", "REFUNDED"} => HeldFor(p)' = 0 /\ PaidFor(p)' = 0
      /\ to \in {"PENDING", "LOST"} => HeldFor(p)' = pred'[p].stake /\ PaidFor(p)' = 0
      /\ to \in {"WON", "CASHED_OUT"} => HeldFor(p)' = pred'[p].stake /\ PaidFor(p)' = pred'[p].payout
  BY <1>1, <1>2 DEF PredMoney, PaidFor
<1>5. to = "DELETED" => HeldFor(p)' = HeldFor(p) /\ PaidFor(p)' = PaidFor(p)
  BY DEF GoodStep, KeepsRows, HeldFor, PaidFor
\* Bet's steps, in terms of the row and its money
<1>6. Single!Rest(p) <=> to = from /\ HeldFor(p)' = HeldFor(p) /\ PaidFor(p)' = PaidFor(p)
  BY DEF Single!Rest
<1>7. Single!Place(p) <=> /\ from = "ABSENT" /\ to = "PENDING"
                          /\ HeldFor(p)' > 0 /\ PaidFor(p)' = PaidFor(p)
  BY DEF Single!Place, Single!Turns
<1>8. Single!Pay(p) <=> /\ from = "PENDING" /\ to \in {"WON", "CASHED_OUT"}
                        /\ HeldFor(p)' = HeldFor(p) /\ PaidFor(p)' > 0
  BY DEF Single!Pay, Single!Turns
<1>9. Single!Lose(p) <=> /\ from = "PENDING" /\ to = "LOST"
                         /\ HeldFor(p)' = HeldFor(p) /\ PaidFor(p)' = PaidFor(p)
  BY DEF Single!Lose, Single!Turns
<1>10. Single!Refund(p) <=> /\ from = "PENDING" /\ to = "REFUNDED"
                            /\ HeldFor(p)' = 0 /\ PaidFor(p)' = PaidFor(p)
  BY DEF Single!Refund, Single!Turns
<1>11. Single!Reinstate(p) <=> /\ from = "REFUNDED" /\ to = "PENDING"
                               /\ HeldFor(p)' > 0 /\ PaidFor(p)' = PaidFor(p)
  BY DEF Single!Reinstate, Single!Turns
<1>12. Single!Purge(p) <=> /\ from \in {"PENDING", "WON", "LOST", "CASHED_OUT", "REFUNDED"}
                           /\ to = "DELETED"
                           /\ HeldFor(p)' = HeldFor(p) /\ PaidFor(p)' = PaidFor(p)
  BY DEF Single!Purge, Single!Turns
<1>13. Turns(p)
  BY DEF GoodStep
<1>14. CASE pred'[p] = pred[p]
  <2>1. HeldFor(p)' = HeldFor(p) /\ PaidFor(p)' = PaidFor(p)
    BY <1>2, <1>3, <1>4, <1>5, <1>14 DEF PredStatus
  <2> QED
    BY <1>6, <1>14, <2>1
<1>15. CASE from = "ABSENT" /\ to = "PENDING" /\ pred'[p].stake > 0
  BY <1>3, <1>4, <1>7, <1>15 DEF Single!Step
<1>16. CASE from = "PENDING" /\ KeepsStake(p) /\ to \in {"WON", "CASHED_OUT"} /\ pred'[p].payout > 0
  BY <1>3, <1>4, <1>8, <1>16 DEF Single!Step, KeepsStake
<1>17. CASE from = "PENDING" /\ KeepsStake(p) /\ to \in {"LOST", "REFUNDED"}
  BY <1>3, <1>4, <1>9, <1>10, <1>17 DEF Single!Step, KeepsStake
<1>18. CASE from = "REFUNDED" /\ KeepsStake(p) /\ to = "PENDING"
  BY <1>1, <1>3, <1>4, <1>11, <1>18 DEF Single!Step, KeepsStake
<1>19. CASE PredExists(p) /\ to = "DELETED"
  BY <1>2, <1>5, <1>12, <1>19 DEF Single!Step, PredExists, PredStatus
<1> QED
  BY <1>13, <1>14, <1>15, <1>16, <1>17, <1>18, <1>19 DEF Turns

(* Every prediction behaves like the abstract Bet: its stake is held once  *)
(* while it runs, it gets one verdict that pays at most once, and only a   *)
(* cancellation gives the stake back (predictions.ts:103-150, 370-462,     *)
(* events.ts:320-440, 492-557, 584-670, 762-775).                          *)
THEOREM PredictionsRefineBet == Spec => PredictionsAreBets
<1>1. Init => Single!Init
  BY DEF Init, Single!Init, NoPred, HeldFor, PaidFor, Bets
<1>2. TypeOK /\ TypeOK' /\ HasStake /\ PredictionsPaidOnce /\ PredictionsPaidOnce' /\ [Next]_vars
        => [Single!Next]_(Single!betVars)
  <2> SUFFICES ASSUME TypeOK, TypeOK', HasStake, PredictionsPaidOnce, PredictionsPaidOnce',
                      [Next]_vars
               PROVE  Single!Next
    OBVIOUS
  <2>1. ASSUME NEW p \in Preds
        PROVE  Single!Step(p) \/ Single!Rest(p)
    BY NextGood, AbstractStep
  <2> QED
    BY <2>1 DEF Single!Next
<1> QED
  BY <1>1, <1>2, TypeCorrect, PaidOnce, StakesArePositive, PTL
     DEF Spec, PredictionsAreBets, Single!Spec

-----------------------------------------------------------------------------
(* The balances are what the ledgers say: BalancesMatchLedgers holds in    *)
(* every reachable state, for any number of users, events and requests in  *)
(* flight and any finite number of bets.  The steps are sorted by what     *)
(* they post: a transaction that commits posts one batch of rows to each   *)
(* ledger, for bets that keep their owners, and moves the balances by the  *)
(* batch's totals; whatever else happens posts nothing.                    *)

\* A batch of rows for bets.
IsBatch(batch) == DOMAIN batch \subseteq Bets /\ \A b \in DOMAIN batch : batch[b] \in Nat

\* What the rows of the bets of one user add up to.
SumOfBets(rows, owner, u) == SumFunctionOnSet(rows, {b \in Bets : owner[b] = u})

\* The rows of a ledger grow by what the batch adds up to, when no row that counts changes hands.
LEMMA LedgerGrows ==
  ASSUME IsFiniteSet(Bets), NEW batch, IsBatch(batch), NEW before, NEW owner, NEW u,
         NEW rows \in [Bets -> Int], NEW grown \in [Bets -> Int],
         \A b \in Bets : grown[b] = rows[b] + AmountIn(batch, b),
         \A b \in Bets : before[b] # owner[b] => rows[b] = 0
  PROVE  /\ SumOfBets(grown, owner, u) = SumOfBets(rows, before, u) + BatchTotal(batch, owner, u)
         /\ SumOfBets(grown, owner, u) \in Int /\ SumOfBets(rows, before, u) \in Int
         /\ BatchTotal(batch, owner, u) \in Int
<1> DEFINE mine == {b \in Bets : owner[b] = u}
           were == {b \in Bets : before[b] = u}
           posted == {b \in DOMAIN batch : owner[b] = u}
           f == [b \in Bets |-> IF b \in were THEN rows[b] ELSE 0]
           g == [b \in Bets |-> IF b \in posted THEN batch[b] ELSE 0]
           h == [b \in Bets |-> IF b \in mine THEN grown[b] ELSE 0]
<1>1. mine \in SUBSET Bets /\ were \in SUBSET Bets /\ posted \in SUBSET Bets
  BY DEF IsBatch
<1>2. /\ \A b \in mine : grown[b] \in Int
      /\ \A b \in were : rows[b] \in Int
      /\ \A b \in posted : batch[b] \in Int
  BY DEF IsBatch
<1>3. ASSUME NEW b \in Bets
      PROVE  f[b] \in Int /\ g[b] \in Int /\ h[b] = f[b] + g[b]
  <2>1. grown[b] = rows[b] + AmountIn(batch, b) /\ rows[b] \in Int /\ grown[b] \in Int
    OBVIOUS
  <2>2. AmountIn(batch, b) = IF b \in DOMAIN batch THEN batch[b] ELSE 0
    BY DEF AmountIn
  <2>3. b \in DOMAIN batch => batch[b] \in Int
    BY DEF IsBatch
  <2>4. CASE owner[b] = u
    <3>1. g[b] = AmountIn(batch, b)
      BY <2>2, <2>4
    <3>2. f[b] = rows[b]
      BY <2>4
    <3>3. h[b] = grown[b]
      BY <2>4
    <3> HIDE DEF f, g, h
    <3> QED
      BY <2>1, <2>2, <2>3, <3>1, <3>2, <3>3
  <2>5. CASE owner[b] # u
    <3>1. g[b] = 0 /\ h[b] = 0
      BY <2>5
    <3>2. f[b] = 0
      BY <2>5
    <3> HIDE DEF f, g, h
    <3> QED
      BY <3>1, <3>2
  <2> QED
    BY <2>4, <2>5
<1>4. /\ SumFunctionOnSet(grown, mine) = SumFunctionOnSet(h, Bets)
      /\ SumFunctionOnSet(grown, mine) \in Int
  BY <1>1, <1>2, SumOverPart
<1>5. /\ SumFunctionOnSet(rows, were) = SumFunctionOnSet(f, Bets)
      /\ SumFunctionOnSet(rows, were) \in Int
  BY <1>1, <1>2, SumOverPart
<1>6. /\ SumFunctionOnSet(batch, posted) = SumFunctionOnSet(g, Bets)
      /\ SumFunctionOnSet(batch, posted) \in Int
  BY <1>1, <1>2, SumOverPart
<1> HIDE DEF f, g, h
<1>7. SumFunctionOnSet(h, Bets) = SumFunctionOnSet(f, Bets) + SumFunctionOnSet(g, Bets)
  BY <1>3, SumPlus
<1> QED
  BY <1>4, <1>5, <1>6, <1>7 DEF SumOfBets, BatchTotal

\* The token rows of every bet, and the points rows.
TokenAmounts == [b \in Bets |-> tokenLedger[b].refund - tokenLedger[b].stake]
PointAmounts == [b \in Bets |-> pointsLedger[b].win + pointsLedger[b].cashout]

\* Both are numbers.
LEMMA AmountsAreInts ==
  ASSUME WalletsTypeOK
  PROVE  TokenAmounts \in [Bets -> Int] /\ PointAmounts \in [Bets -> Int]
<1>1. \A b \in Bets : /\ tokenLedger[b].refund \in Nat /\ tokenLedger[b].stake \in Nat
                      /\ pointsLedger[b].win \in Nat /\ pointsLedger[b].cashout \in Nat
  BY DEF WalletsTypeOK
<1>2. \A i, j \in Nat : i - j \in Int /\ i + j \in Int
  OBVIOUS
<1> QED
  BY <1>1, <1>2 DEF TokenAmounts, PointAmounts

\* So are those of the next state.
LEMMA NextAmountsAreInts ==
  ASSUME WalletsTypeOK'
  PROVE  TokenAmounts' \in [Bets -> Int] /\ PointAmounts' \in [Bets -> Int]
<1>1. \A b \in Bets : /\ tokenLedger'[b].refund \in Nat /\ tokenLedger'[b].stake \in Nat
                      /\ pointsLedger'[b].win \in Nat /\ pointsLedger'[b].cashout \in Nat
  BY DEF WalletsTypeOK
<1>2. \A i, j \in Nat : i - j \in Int /\ i + j \in Int
  OBVIOUS
<1> QED
  BY <1>1, <1>2 DEF TokenAmounts, PointAmounts

\* What a batch holds for a bet is a number.
LEMMA AmountNat ==
  ASSUME NEW batch, IsBatch(batch), NEW b
  PROVE  AmountIn(batch, b) \in Nat
  BY DEF AmountIn, IsBatch

\* Token postings keep the balance of a user equal to the rows of the user's bets.
LEMMA TokensPosted ==
  ASSUME IsFiniteSet(Bets), WalletsTypeOK, WalletsTypeOK',
         NEW grant \in [Users -> Nat], NEW debits, IsBatch(debits), NEW refunds, IsBatch(refunds),
         NEW before, NEW owner, PostTokens(grant, debits, refunds, owner),
         \A b \in Bets : before[b] # owner[b] => tokenLedger[b].refund = tokenLedger[b].stake,
         NEW u \in Users, tokenBalance[u] = granted[u] + SumOfBets(TokenAmounts, before, u)
  PROVE  tokenBalance'[u] = granted'[u] + SumOfBets(TokenAmounts', owner, u)
<1> DEFINE grown == [b \in Bets |-> TokenAmounts[b] + AmountIn(refunds, b)]
<1>1. /\ TokenAmounts \in [Bets -> Int] /\ TokenAmounts' \in [Bets -> Int]
      /\ \A b \in Bets : AmountIn(refunds, b) \in Nat /\ AmountIn(debits, b) \in Nat
  BY AmountsAreInts, NextAmountsAreInts, AmountNat
<1>2. \A b \in Bets : before[b] # owner[b] => TokenAmounts[b] = 0
  BY DEF TokenAmounts, WalletsTypeOK
<1>3. ASSUME NEW b \in Bets
      PROVE  grown[b] = TokenAmounts'[b] + AmountIn(debits, b)
  <2>1. /\ tokenLedger'[b].stake = tokenLedger[b].stake + AmountIn(debits, b)
        /\ tokenLedger'[b].refund = tokenLedger[b].refund + AmountIn(refunds, b)
    BY TokenRows
  <2>2. /\ TokenAmounts[b] = tokenLedger[b].refund - tokenLedger[b].stake
        /\ TokenAmounts'[b] = tokenLedger'[b].refund - tokenLedger'[b].stake
    BY DEF TokenAmounts
  <2>3. tokenLedger[b].refund \in Nat /\ tokenLedger[b].stake \in Nat
    BY DEF WalletsTypeOK
  <2> QED
    BY <1>1, <2>1, <2>2, <2>3
<1>4. grown \in [Bets -> Int] /\ \A b \in Bets : grown[b] = TokenAmounts[b] + AmountIn(refunds, b)
  BY <1>1
<1> DEFINE left == TokenAmounts'
           rows == TokenAmounts
<1>5. left \in [Bets -> Int] /\ \A b \in Bets : grown[b] = left[b] + AmountIn(debits, b)
  BY <1>1, <1>3
<1>10. rows \in [Bets -> Int] /\ \A b \in Bets : before[b] # owner[b] => rows[b] = 0
  BY <1>1, <1>2
<1>11. /\ grown \in [Bets -> Int]
       /\ \A b \in Bets : grown[b] = rows[b] + AmountIn(refunds, b)
  BY <1>4
<1> HIDE DEF grown, left, rows
<1>6. /\ SumOfBets(grown, owner, u) = SumOfBets(rows, before, u) + BatchTotal(refunds, owner, u)
      /\ SumOfBets(rows, before, u) \in Int /\ BatchTotal(refunds, owner, u) \in Int
  BY <1>10, <1>11, LedgerGrows
<1>7. /\ SumOfBets(grown, owner, u) = SumOfBets(left, owner, u) + BatchTotal(debits, owner, u)
      /\ SumOfBets(left, owner, u) \in Int /\ BatchTotal(debits, owner, u) \in Int
  BY <1>4, <1>5, LedgerGrows
<1>8. /\ tokenBalance'[u] = tokenBalance[u] + grant[u] + BatchTotal(refunds, owner, u)
                              - BatchTotal(debits, owner, u)
      /\ granted'[u] = granted[u] + grant[u]
  BY DEF PostTokens
<1>9. tokenBalance[u] \in Nat /\ granted[u] \in Nat /\ grant[u] \in Nat
  BY DEF WalletsTypeOK
<1> QED
  BY <1>5, <1>6, <1>7, <1>8, <1>9 DEF rows, left

\* So do points postings.
LEMMA PointsPosted ==
  ASSUME IsFiniteSet(Bets), WalletsTypeOK, WalletsTypeOK',
         NEW wins, IsBatch(wins), NEW cashouts, IsBatch(cashouts),
         NEW owner, PostPoints(wins, cashouts, owner),
         NEW u \in Users, pointsBalance[u] = SumOfBets(PointAmounts, owner, u)
  PROVE  pointsBalance'[u] = SumOfBets(PointAmounts', owner, u)
<1> DEFINE grown == [b \in Bets |-> PointAmounts[b] + AmountIn(wins, b)]
<1>1. /\ PointAmounts \in [Bets -> Int] /\ PointAmounts' \in [Bets -> Int]
      /\ \A b \in Bets : AmountIn(wins, b) \in Nat /\ AmountIn(cashouts, b) \in Nat
  BY AmountsAreInts, NextAmountsAreInts, AmountNat
<1>2. ASSUME NEW b \in Bets
      PROVE  PointAmounts'[b] = grown[b] + AmountIn(cashouts, b)
  <2>1. /\ pointsLedger'[b].win = pointsLedger[b].win + AmountIn(wins, b)
        /\ pointsLedger'[b].cashout = pointsLedger[b].cashout + AmountIn(cashouts, b)
    BY PointRows
  <2>2. /\ PointAmounts[b] = pointsLedger[b].win + pointsLedger[b].cashout
        /\ PointAmounts'[b] = pointsLedger'[b].win + pointsLedger'[b].cashout
    BY DEF PointAmounts
  <2>3. pointsLedger[b].win \in Nat /\ pointsLedger[b].cashout \in Nat
    BY DEF WalletsTypeOK
  <2> QED
    BY <1>1, <2>1, <2>2, <2>3
<1>3. grown \in [Bets -> Int] /\ \A b \in Bets : grown[b] = PointAmounts[b] + AmountIn(wins, b)
  BY <1>1
<1> DEFINE left == PointAmounts'
<1>4. left \in [Bets -> Int] /\ \A b \in Bets : left[b] = grown[b] + AmountIn(cashouts, b)
  BY <1>1, <1>2
<1> HIDE DEF grown, left
<1>5. /\ SumOfBets(grown, owner, u)
           = SumOfBets(PointAmounts, owner, u) + BatchTotal(wins, owner, u)
      /\ SumOfBets(PointAmounts, owner, u) \in Int /\ BatchTotal(wins, owner, u) \in Int
  BY <1>1, <1>3, LedgerGrows
<1>6. /\ SumOfBets(left, owner, u) = SumOfBets(grown, owner, u) + BatchTotal(cashouts, owner, u)
      /\ BatchTotal(cashouts, owner, u) \in Int
  BY <1>3, <1>4, LedgerGrows
<1>7. pointsBalance'[u] = pointsBalance[u] + BatchTotal(wins, owner, u)
                                           + BatchTotal(cashouts, owner, u)
  BY DEF PostPoints
<1> QED
  BY <1>5, <1>6, <1>7 DEF left

\* An empty batch adds up to nothing.
LEMMA NoRowsTotal ==
  ASSUME NEW owner, NEW u
  PROVE  IsBatch(NoRows) /\ BatchTotal(NoRows, owner, u) = 0
<1>1. {b \in DOMAIN NoRows : owner[b] = u} = {}
  BY DEF NoRows
<1>2. SumFunctionOnSet(NoRows, {}) = 0
  BY SumAdds, FS_EmptySet
<1>3. BatchTotal(NoRows, owner, u) = 0
  BY <1>1, <1>2, Zenon DEF BatchTotal
<1> QED
  BY <1>3 DEF IsBatch, NoRows

\* What adds up to zero may change hands.
LEMMA PointsChangeHands ==
  ASSUME IsFiniteSet(Bets), WalletsTypeOK, NEW before, NEW owner, NEW u,
         \A b \in Bets : before[b] # owner[b] => PointAmounts[b] = 0
  PROVE  SumOfBets(PointAmounts, owner, u) = SumOfBets(PointAmounts, before, u)
<1>1. PointAmounts \in [Bets -> Int]
  BY AmountsAreInts
<1>2. \A b \in Bets : PointAmounts[b] = PointAmounts[b] + AmountIn(NoRows, b)
  BY <1>1, NoRowsAmount
<1> HIDE DEF PointAmounts
<1>3. /\ SumOfBets(PointAmounts, owner, u)
           = SumOfBets(PointAmounts, before, u) + BatchTotal(NoRows, owner, u)
      /\ SumOfBets(PointAmounts, before, u) \in Int
  BY <1>1, <1>2, NoRowsTotal, LedgerGrows
<1> QED
  BY <1>3, NoRowsTotal

-----------------------------------------------------------------------------
(* Rows of accumulators that do not exist *)

\* The amounts in the ledger rows of bet b stay.
RowsKept(b) ==
  /\ tokenLedger'[b].stake = tokenLedger[b].stake
  /\ tokenLedger'[b].refund = tokenLedger[b].refund
  /\ pointsLedger'[b].win = pointsLedger[b].win
  /\ pointsLedger'[b].cashout = pointsLedger[b].cashout

\* Postings that have nothing for a bet keep its rows.
LEMMA NothingPostedFor ==
  ASSUME WalletsTypeOK, NEW b \in Bets,
         \/ UNCHANGED tokenLedger
         \/ \E grant, debits, refunds, owner :
              /\ PostTokens(grant, debits, refunds, owner)
              /\ AmountIn(debits, b) = 0 /\ AmountIn(refunds, b) = 0,
         \/ UNCHANGED pointsLedger
         \/ \E wins, cashouts, owner :
              /\ PostPoints(wins, cashouts, owner)
              /\ AmountIn(wins, b) = 0 /\ AmountIn(cashouts, b) = 0
  PROVE  RowsKept(b)
<1>0. /\ tokenLedger[b].stake \in Nat /\ tokenLedger[b].refund \in Nat
      /\ pointsLedger[b].win \in Nat /\ pointsLedger[b].cashout \in Nat
  BY DEF WalletsTypeOK, Bets
<1>1. /\ tokenLedger'[b].stake = tokenLedger[b].stake
      /\ tokenLedger'[b].refund = tokenLedger[b].refund
  <2>1. CASE UNCHANGED tokenLedger
    BY <2>1
  <2>2. ASSUME NEW grant, NEW debits, NEW refunds, NEW owner,
               PostTokens(grant, debits, refunds, owner),
               AmountIn(debits, b) = 0, AmountIn(refunds, b) = 0
        PROVE  /\ tokenLedger'[b].stake = tokenLedger[b].stake
               /\ tokenLedger'[b].refund = tokenLedger[b].refund
    BY <1>0, <2>2, TokenRows
  <2> QED
    BY <2>1, <2>2
<1>2. /\ pointsLedger'[b].win = pointsLedger[b].win
      /\ pointsLedger'[b].cashout = pointsLedger[b].cashout
  <2>1. CASE UNCHANGED pointsLedger
    BY <2>1
  <2>2. ASSUME NEW wins, NEW cashouts, NEW owner, PostPoints(wins, cashouts, owner),
               AmountIn(wins, b) = 0, AmountIn(cashouts, b) = 0
        PROVE  /\ pointsLedger'[b].win = pointsLedger[b].win
               /\ pointsLedger'[b].cashout = pointsLedger[b].cashout
    BY <1>0, <2>2, PointRows
  <2> QED
    BY <2>1, <2>2
<1> QED
  BY <1>1, <1>2 DEF RowsKept

\* Moving a leg keeps the rest of the row.
LEMMA MoveLegKeeps ==
  ASSUME NEW r \in AccaRow, NEW e, NEW from, NEW to
  PROVE  LET row == MoveLeg(r, e, from, to)
         IN  /\ row.status = r.status /\ row.user = r.user /\ row.stake = r.stake
             /\ row.potential = r.potential /\ row.payout = r.payout
             /\ DOMAIN row = DOMAIN r
  BY DEF MoveLeg, WithLeg, AccaRow

\* The owner of an accumulator stays, and whether it exists.
AccaKept(table, a) ==
  /\ table[a].user = acca[a].user
  /\ table[a].status = "ABSENT" <=> acca[a].status = "ABSENT"

\* settleLegsForEvent, cancelLegsForEvent, restoreCancelledLegsForEvent and deletion keep it so.
LEMMA SettledKeeps ==
  ASSUME AccasTypeOK, NEW view, NEW e, NEW n, NEW a \in Accas
  PROVE  AccaKept(SettledAccas(view, e, n), a)
<1> DEFINE row == MoveLeg(acca[a], e, "PENDING", LegVerdict(acca[a], e, n))
<1>1. acca[a] \in AccaRow
  BY DEF AccasTypeOK
<1>2. row.status = acca[a].status /\ row.user = acca[a].user /\ DOMAIN row = DOMAIN acca[a]
  BY <1>1, MoveLegKeeps
<1>3. a \in MarkedBySettle(view, e, n, "WON") \cup MarkedBySettle(view, e, n, "LOST")
        => acca[a].status = "PENDING"
  BY DEF MarkedBySettle
<1>4. SettledAccas(view, e, n)[a] =
        IF a \in MarkedBySettle(view, e, n, "WON")
        THEN [row EXCEPT !.status = "WON", !.payout = view[a].potential]
        ELSE IF a \in MarkedBySettle(view, e, n, "LOST")
        THEN [row EXCEPT !.status = "LOST", !.payout = 0]
        ELSE row
  BY DEF SettledAccas
<1>5. {"status", "user"} \subseteq DOMAIN row
  BY <1>1, <1>2 DEF AccaRow
<1> HIDE DEF row
<1> QED
  BY <1>2, <1>3, <1>4, <1>5 DEF AccaKept

\* A cancellation keeps owner and existence of every accumulator.
LEMMA CancelledKeeps ==
  ASSUME AccasTypeOK, NEW view, NEW e, NEW a \in Accas
  PROVE  AccaKept(CancelledAccas(view, e), a)
<1> DEFINE row == MoveLeg(acca[a], e, "PENDING", "REFUNDED")
           repriced == [row EXCEPT !.potential = PotentialWithout(view[a], e)]
<1>1. acca[a] \in AccaRow
  BY DEF AccasTypeOK
<1>2. row.status = acca[a].status /\ row.user = acca[a].user /\ DOMAIN row = DOMAIN acca[a]
  BY <1>1, MoveLegKeeps
<1>3. \A verdict : a \in MarkedByCancel(view, e, verdict) => acca[a].status = "PENDING"
  BY DEF MarkedByCancel
<1>4. CancelledAccas(view, e)[a] =
        IF a \in MarkedByCancel(view, e, "LOST")
        THEN [row EXCEPT !.status = "LOST", !.payout = 0]
        ELSE IF a \in MarkedByCancel(view, e, "CANCELLED")
        THEN [row EXCEPT !.status = "CANCELLED", !.payout = 0]
        ELSE IF a \in MarkedByCancel(view, e, "WON")
        THEN [repriced EXCEPT !.status = "WON", !.payout = repriced.potential]
        ELSE IF a \in MarkedByCancel(view, e, "PENDING") THEN repriced
        ELSE row
  BY DEF CancelledAccas
<1>5. {"status", "user"} \subseteq DOMAIN row
  BY <1>1, <1>2 DEF AccaRow
<1>6. CancelledAccas(view, e)[a].user = acca[a].user
  <2> HIDE DEF row
  <2> QED
    BY <1>2, <1>4, <1>5
<1>7. CancelledAccas(view, e)[a].status \in {row.status, "LOST", "CANCELLED", "WON"}
  <2> HIDE DEF row
  <2> QED
    BY <1>4, <1>5
<1>8. acca[a].status # "PENDING" => CancelledAccas(view, e)[a] = row
  BY <1>3, <1>4
<1> QED
  BY <1>2, <1>6, <1>7, <1>8 DEF AccaKept

\* An accumulator to reopen or to price anew must exist.
LEMMA RestoredKeeps ==
  ASSUME AccasTypeOK, NEW view, NEW e, NEW a \in Accas,
         view[a].status # "ABSENT" => acca[a].status # "ABSENT"
  PROVE  AccaKept(RestoredAccas(view, e), a)
<1> DEFINE row == MoveLeg(acca[a], e, "REFUNDED", "PENDING")
<1>1. acca[a] \in AccaRow
  BY DEF AccasTypeOK
<1>2. row.status = acca[a].status /\ row.user = acca[a].user /\ DOMAIN row = DOMAIN acca[a]
  BY <1>1, MoveLegKeeps
<1>3. a \in Reopened(view, e) => acca[a].status # "ABSENT"
  BY DEF Reopened
<1>4. RestoredAccas(view, e)[a] =
        IF a \in Reopened(view, e)
        THEN [row EXCEPT !.status = "PENDING", !.payout = 0,
                         !.potential = PotentialWith(view[a], e)]
        ELSE IF a \in Repriced(view, e)
        THEN [row EXCEPT !.potential = PotentialWith(view[a], e)]
        ELSE row
  BY DEF RestoredAccas
<1>5. {"status", "user"} \subseteq DOMAIN row
  BY <1>1, <1>2 DEF AccaRow
<1> HIDE DEF row
<1> QED
  BY <1>2, <1>3, <1>4, <1>5 DEF AccaKept

\* So does the deletion of its events.
LEMMA PurgedKeeps ==
  ASSUME AccasTypeOK, NEW S, NEW a \in Accas
  PROVE  AccaKept(PurgedAccas(S), a)
<1> DEFINE legs == [e \in Events |-> IF e \in S /\ acca[a].legs[e].status # "NONE"
                                     THEN [acca[a].legs[e] EXCEPT !.status = "DELETED"]
                                     ELSE acca[a].legs[e]]
           row == [acca[a] EXCEPT !.legs = legs]
<1>1. acca[a] \in AccaRow
  BY DEF AccasTypeOK
<1>2. PurgedAccas(S)[a] = IF acca[a].status \notin {"ABSENT", "DELETED"} /\ LiveLegs(row) = {}
                          THEN [row EXCEPT !.status = "DELETED"] ELSE row
  BY DEF PurgedAccas, AccasTypeOK, AccaRow
<1>3. /\ row.status = acca[a].status /\ row.user = acca[a].user
      /\ {"status", "user"} \subseteq DOMAIN row
  BY <1>1 DEF AccaRow
<1> HIDE DEF row
<1> QED
  BY <1>2, <1>3 DEF AccaKept

-----------------------------------------------------------------------------

\* The ledgers hold nothing for an accumulator that was never placed.
NothingForAbsent ==
  \A a \in Accas : acca[a].status = "ABSENT" => HeldFor(a) = 0 /\ PaidFor(a) = 0

\* What a reversal has read of an accumulator that exists, exists.
ViewsExist ==
  \A h \in Handlers : RunsAdmin(h) =>
    \A a \in Accas : req[h].view[a].status # "ABSENT" => acca[a].status # "ABSENT"

\* How an action may treat an accumulator that it does not place.
Leaves(a) == AccaKept(acca', a) /\ (acca[a].status = "ABSENT" => RowsKept(a))

\* A settlement, a cancellation, a reversal or a deletion leaves all of them so.
LEMMA AdminLeaves ==
  ASSUME TypeOK, ViewsExist, NEW h \in Handlers,
         \/ \E bonus : CommitSettle(h, bonus)
         \/ CommitCancel(h) \/ CommitUncancel(h) \/ CommitDelete(h),
         NEW a \in Accas
  PROVE  Leaves(a)
<1> DEFINE view == req[h].view
           e == req[h].event
           n == req[h].outcome
<1>1. WalletsTypeOK /\ AccasTypeOK /\ a \in Bets /\ a \notin Preds
  BY BetIdsAssumption DEF TypeOK, Bets
<1>2. ASSUME NEW f, NEW g, DOMAIN f \subseteq Preds, a \notin DOMAIN g
      PROVE  AmountIn(Both(f, g), a) = 0 /\ AmountIn(g, a) = 0 /\ AmountIn(NoRows, a) = 0
  BY <1>1, <1>2 DEF AmountIn, Both, NoRows
<1>3. ASSUME NEW bonus, CommitSettle(h, bonus)
      PROVE  Leaves(a)
  <2> DEFINE f == PredWins(e, n)
             g == AccaSettleWins(view, e, n)
  <2>1. acca' = SettledAccas(view, e, n)
    BY <1>3 DEF CommitSettle
  <2>2. AccaKept(acca', a)
    BY <1>1, <2>1, SettledKeeps DEF AccaKept
  <2>3. DOMAIN f \subseteq Preds /\ (acca[a].status = "ABSENT" => a \notin DOMAIN g)
    BY DEF PredWins, WinnersOf, OnEvent, AccaSettleWins, MarkedBySettle
  <2>4. PostPoints(Both(f, g), NoRows, OwnerNow) /\ PostTokens(bonus, NoRows, NoRows, OwnerNow)
    BY <1>3 DEF CommitSettle
  <2> HIDE DEF f, g
  <2> QED
    BY <1>1, <1>2, <2>2, <2>3, <2>4, NothingPostedFor DEF Leaves
<1>4. CASE CommitCancel(h)
  <2> DEFINE f == StakesOf(e, "PENDING")
             g == AccaCancelRefunds(view, e)
             w == AccaCancelWins(view, e)
  <2>1. acca' = CancelledAccas(view, e)
    BY <1>4 DEF CommitCancel
  <2>2. AccaKept(acca', a)
    BY <1>1, <2>1, CancelledKeeps DEF AccaKept
  <2>3. /\ DOMAIN f \subseteq Preds
        /\ acca[a].status = "ABSENT" => a \notin DOMAIN g /\ a \notin DOMAIN w
    BY DEF StakesOf, OnEvent, AccaCancelRefunds, AccaCancelWins, MarkedByCancel
  <2>4. PostTokens(NoGrant, NoRows, Both(f, g), OwnerNow) /\ PostPoints(w, NoRows, OwnerNow)
    BY <1>4 DEF CommitCancel
  <2> HIDE DEF f, g, w
  <2>5. acca[a].status = "ABSENT" => /\ AmountIn(Both(f, g), a) = 0 /\ AmountIn(w, a) = 0
                                     /\ AmountIn(NoRows, a) = 0
    BY <1>2, <2>3
  <2> QED
    BY <1>1, <2>2, <2>4, <2>5, NothingPostedFor DEF Leaves
<1>5. CASE CommitUncancel(h)
  <2> DEFINE f == StakesOf(e, "REFUNDED")
             g == AccaRestoreStakes(view, e)
  <2>1. view[a].status # "ABSENT" => acca[a].status # "ABSENT"
    BY <1>5 DEF CommitUncancel, ViewsExist, RunsAdmin
  <2>2. acca' = RestoredAccas(view, e)
    BY <1>5 DEF CommitUncancel
  <2>3. AccaKept(acca', a)
    BY <1>1, <2>1, <2>2, RestoredKeeps DEF AccaKept
  <2>4. DOMAIN f \subseteq Preds /\ (acca[a].status = "ABSENT" => a \notin DOMAIN g)
    BY <2>1 DEF StakesOf, OnEvent, AccaRestoreStakes, Reopened
  <2>5. PostTokens(NoGrant, Both(f, g), NoRows, OwnerNow) /\ UNCHANGED pointsLedger
    BY <1>5 DEF CommitUncancel, NoPoints
  <2> HIDE DEF f, g
  <2> QED
    BY <1>1, <1>2, <2>3, <2>4, <2>5, NothingPostedFor DEF Leaves
<1>6. CASE CommitDelete(h)
  <2>1. AccaKept(acca', a)
    BY <1>1, <1>6, PurgedKeeps DEF CommitDelete, AccaKept
  <2>2. RowsKept(a)
    BY <1>6 DEF CommitDelete, walletVars, RowsKept
  <2> QED
    BY <2>1, <2>2 DEF Leaves
<1> QED
  BY <1>3, <1>4, <1>5, <1>6

-----------------------------------------------------------------------------
(* What commits *)

\* The steps that change the bets or the ledgers.
Commits(h) ==
  \/ \E p \in Preds, accrual \in Accruals : CommitPlace(h, p, accrual)
  \/ \E q \in Prices : CommitCashout(h, q)
  \/ \E a \in Accas, accrual \in Accruals : CommitAccumulate(h, a, accrual)
  \/ \E bonus \in [Users -> Bonuses] : CommitSettle(h, bonus)
  \/ CommitCancel(h) \/ CommitUncancel(h) \/ CommitDelete(h)

\* A slip has legs, each NONE or PENDING; a deletion has events; a reversal is not blocked.
Sensible(r) ==
  /\ r.op = "accumulate" => r.legs \in [Events -> LegChoices] /\ LegsChosen(r.legs) # {}
  /\ r.op = "delete" => r.events # {}
  /\ r.op = "uncancel" => Restorable(r.view, r.event)

\* Neither bets nor ledgers change, and what an administrator reads is the table as it is.
StillStep ==
  /\ UNCHANGED <<pred, acca, walletVars>>
  /\ \A g \in Handlers :
       \/ req'[g] = req[g]
       \/ (RunsAdmin(g)' => req'[g].view = acca) /\ Sensible(req'[g])

\* A step that commits nothing changes neither bets nor ledgers.
LEMMA Quiet ==
  ASSUME TypeOK, [Next]_vars, \A h \in Handlers : ~Commits(h)
  PROVE  StillStep
<1>1. ASSUME NEW h \in Handlers, NEW r, Ask(h, r),
             UNCHANGED <<pred, acca, walletVars>>,
             r.op \in {"settle", "cancel", "uncancel"} => r.view = acca, Sensible(r)
      PROVE  StillStep
  BY <1>1 DEF Ask, RunsAdmin, Sensible, TypeOK, StillStep
<1>2. ASSUME NEW h \in Handlers, Finish(h), UNCHANGED <<pred, acca, walletVars>>
      PROVE  StillStep
  BY <1>2 DEF Finish, Idle, RunsAdmin, Sensible, TypeOK, StillStep
<1>3. ASSUME NEW h \in Handlers, NEW e \in Events,
             \/ ReadForLock(h, e) \/ BeginCancel(h, e) \/ BeginUncancel(h, e)
             \/ \E n \in Names : BeginSettle(h, e, n)
             \/ \E o \in OutcomeLists, k \in 1 .. MaxTime : ReadForUpdate(h, e, o, k)
      PROVE  StillStep
  <2>1. CASE ReadForLock(h, e)
    BY <1>1, <2>1 DEF ReadForLock, Sensible
  <2>2. CASE BeginCancel(h, e)
    BY <1>1, <2>2 DEF BeginCancel, Sensible
  <2>3. CASE BeginUncancel(h, e)
    BY <1>1, <2>3 DEF BeginUncancel, Sensible
  <2>4. ASSUME NEW n \in Names, BeginSettle(h, e, n)
        PROVE  StillStep
    BY <1>1, <2>4 DEF BeginSettle, Sensible
  <2>5. ASSUME NEW o \in OutcomeLists, NEW k \in 1 .. MaxTime, ReadForUpdate(h, e, o, k)
        PROVE  StillStep
    BY <1>1, <2>5 DEF ReadForUpdate, Sensible
  <2> QED
    BY <1>3, <2>1, <2>2, <2>3, <2>4, <2>5
<1>4. ASSUME NEW h \in Handlers,
             \/ \E u \in Users, e \in Events, n \in Names, s \in Stakes, q \in Prices :
                  ReadForPlace(h, u, e, n, s, q)
             \/ \E p \in Preds, q \in Prices : ReadForCashout(h, p, q)
             \/ \E u \in Users, s \in Stakes, l \in [Events -> LegChoices] :
                  ReadForAccumulate(h, u, s, l)
             \/ ReadForDelete(h)
      PROVE  StillStep
  <2>1. ASSUME NEW u, NEW e, NEW n, NEW s, NEW q, ReadForPlace(h, u, e, n, s, q)
        PROVE  StillStep
    BY <1>1, <2>1 DEF ReadForPlace, Sensible
  <2>2. ASSUME NEW p, NEW q, ReadForCashout(h, p, q)
        PROVE  StillStep
    BY <1>1, <2>2 DEF ReadForCashout, Sensible
  <2>3. ASSUME NEW u, NEW s, NEW l \in [Events -> LegChoices], ReadForAccumulate(h, u, s, l)
        PROVE  StillStep
    <3>1. LegsChosen(l) # {}
      <4>1. Cardinality(LegsChosen(l)) \in 2 .. MaxLegs
        BY <2>3 DEF ReadForAccumulate
      <4>2. Cardinality({}) = 0
        BY FS_EmptySet
      <4> QED
        BY <4>1, <4>2
    <3> QED
      BY <1>1, <2>3, <3>1 DEF ReadForAccumulate, Sensible
  <2>4. CASE ReadForDelete(h)
    BY <1>1, <2>4 DEF ReadForDelete, Sensible
  <2> QED
    BY <1>4, <2>1, <2>2, <2>3, <2>4
<1>5. ASSUME NEW h \in Handlers, WriteLock(h) \/ WriteUpdate(h) \/ Abort(h)
      PROVE  StillStep
  BY <1>2, <1>5 DEF WriteLock, WriteUpdate, Abort
<1>6. ASSUME NEW h \in Handlers, Admin(h) \/ Bettor(h) \/ Cleaner(h) \/ Abort(h)
      PROVE  StillStep
  BY <1>3, <1>4, <1>5, <1>6 DEF Admin, Bettor, Cleaner, Commits
<1> QED
  <2>1. CASE UNCHANGED vars \/ Tick \/ AutoLock
    BY <2>1 DEF vars, Tick, AutoLock, RunsAdmin, Sensible, StillStep
  <2>2. ASSUME NEW e \in Events, NEW o, NEW k, Create(e, o, k)
        PROVE  StillStep
    BY <2>2 DEF Create, RunsAdmin, Sensible, StillStep
  <2> QED
    BY <1>6, <2>1, <2>2 DEF Next

\* A commit ends its request, and changes no other.
LEMMA CommitEnds ==
  ASSUME TypeOK, NEW h \in Handlers, Commits(h)
  PROVE  /\ Finish(h)
         /\ \A g \in Handlers : RunsAdmin(g)' => req'[g] = req[g] /\ RunsAdmin(g) /\ g # h
<1>1. Finish(h)
  BY DEF Commits, CommitPlace, CommitCashout, CommitAccumulate, CommitSettle, CommitCancel,
         CommitUncancel, CommitDelete
<1>2. req'[h] = Idle /\ \A g \in Handlers : g # h => req'[g] = req[g]
  BY <1>1 DEF Finish, TypeOK
<1> QED
  BY <1>1, <1>2 DEF RunsAdmin, Idle

\* A commit leaves every accumulator so, but for the one it places.
LEMMA CommitLeaves ==
  ASSUME TypeOK, ViewsExist, NEW h \in Handlers, Commits(h), NEW a \in Accas
  PROVE  Leaves(a) \/ \E accrual \in Accruals : CommitAccumulate(h, a, accrual)
<1>1. WalletsTypeOK /\ AccasTypeOK /\ a \in Bets /\ a \notin Preds /\ req[h] \in Requests
  BY BetIdsAssumption DEF TypeOK, Bets
<1>2. AmountIn(NoRows, a) = 0
  BY NoRowsAmount
<1>3. ASSUME NEW p \in Preds, NEW accrual \in Accruals, CommitPlace(h, p, accrual)
      PROVE  Leaves(a)
  <2> DEFINE grant == [NoGrant EXCEPT ![req[h].user] = accrual]
             debits == [b \in {p} |-> req[h].stake]
             owner == [OwnerNow EXCEPT ![p] = req[h].user]
  <2>1. PostTokens(grant, debits, NoRows, owner) /\ UNCHANGED <<acca, pointsLedger>>
    BY <1>3 DEF CommitPlace, NoPoints
  <2>2. AmountIn(debits, a) = 0
    BY <1>1 DEF AmountIn
  <2>3. AccaKept(acca', a)
    BY <2>1 DEF AccaKept
  <2> HIDE DEF debits, owner, grant
  <2> QED
    BY <1>1, <1>2, <2>1, <2>2, <2>3, NothingPostedFor DEF Leaves
<1>4. ASSUME NEW q \in Prices, CommitCashout(h, q)
      PROVE  Leaves(a)
  <2> DEFINE cashouts == [b \in {req[h].pred} |-> ValueOf(req[h].pred, q)]
  <2>1. PostPoints(NoRows, cashouts, OwnerNow) /\ UNCHANGED <<acca, tokenLedger>>
    BY <1>4 DEF CommitCashout, NoTokens
  <2>2. req[h].pred \in Preds
    BY <1>1, <1>4, RequestFields DEF CommitCashout
  <2>3. AmountIn(cashouts, a) = 0
    BY <1>1, <2>2 DEF AmountIn
  <2>4. AccaKept(acca', a)
    BY <2>1 DEF AccaKept
  <2> HIDE DEF cashouts
  <2> QED
    BY <1>1, <1>2, <2>1, <2>3, <2>4, NothingPostedFor DEF Leaves
<1>5. ASSUME NEW a0 \in Accas, NEW accrual \in Accruals, CommitAccumulate(h, a0, accrual), a # a0
      PROVE  Leaves(a)
  <2> DEFINE grant == [NoGrant EXCEPT ![req[h].user] = accrual]
             debits == [b \in {a0} |-> req[h].stake]
             owner == [OwnerNow EXCEPT ![a0] = req[h].user]
  <2>1. PostTokens(grant, debits, NoRows, owner) /\ UNCHANGED pointsLedger
    BY <1>5 DEF CommitAccumulate, NoPoints
  <2>2. AmountIn(debits, a) = 0
    BY <1>5 DEF AmountIn
  <2>3. AccaKept(acca', a)
    BY <1>1, <1>5 DEF CommitAccumulate, AccaKept, AccasTypeOK
  <2> HIDE DEF debits, owner, grant
  <2> QED
    BY <1>1, <1>2, <2>1, <2>2, <2>3, NothingPostedFor DEF Leaves
<1> QED
  BY <1>3, <1>4, <1>5, AdminLeaves DEF Commits

\* No step forgets that an accumulator exists, or posts for one that does not.
LEMMA ExistenceStep ==
  ASSUME TypeOK, NothingForAbsent, ViewsExist, [Next]_vars
  PROVE  NothingForAbsent' /\ ViewsExist'
<1>1. ASSUME NEW h \in Handlers, Commits(h)
      PROVE  NothingForAbsent' /\ ViewsExist'
  <2>1. ASSUME NEW a \in Accas
        PROVE  /\ acca'[a].status = "ABSENT" => acca[a].status = "ABSENT" /\ RowsKept(a)
    <3>1. CASE Leaves(a)
      BY <3>1 DEF Leaves, AccaKept
    <3>2. ASSUME NEW accrual \in Accruals, CommitAccumulate(h, a, accrual)
          PROVE  acca'[a].status = "PENDING"
      BY <3>2 DEF CommitAccumulate, NewAcca, TypeOK, AccasTypeOK
    <3> QED
      BY <1>1, <3>1, <3>2, CommitLeaves
  <2>2. NothingForAbsent'
    BY <2>1 DEF NothingForAbsent, RowsKept, HeldFor, PaidFor
  <2>3. ViewsExist'
    BY <1>1, <2>1, CommitEnds DEF ViewsExist
  <2> QED
    BY <2>2, <2>3
<1>2. CASE \A h \in Handlers : ~Commits(h)
  <2>1. StillStep
    BY <1>2, Quiet
  <2>2. NothingForAbsent'
    BY <2>1 DEF StillStep, walletVars, NothingForAbsent, HeldFor, PaidFor
  <2>3. ASSUME NEW g \in Handlers, RunsAdmin(g)', NEW a \in Accas,
               req'[g].view[a].status # "ABSENT"
        PROVE  acca'[a].status # "ABSENT"
    <3>1. CASE req'[g] = req[g]
      BY <2>1, <2>3, <3>1 DEF StillStep, ViewsExist, RunsAdmin
    <3>2. CASE req'[g].view = acca
      BY <2>1, <2>3, <3>2 DEF StillStep
    <3> QED
      BY <2>1, <2>3, <3>1, <3>2 DEF StillStep
  <2>4. ViewsExist'
    BY <2>3 DEF ViewsExist
  <2> QED
    BY <2>2, <2>4
<1> QED
  BY <1>1, <1>2

-----------------------------------------------------------------------------
(* The balances *)

\* What BalancesMatchLedgers says of one user.
Balanced(u) ==
  /\ tokenBalance[u] = granted[u] + SumOfBets(TokenAmounts, OwnerNow, u)
  /\ pointsBalance[u] = SumOfBets(PointAmounts, OwnerNow, u)

\* It says so.
LEMMA BalancesAre == BalancesMatchLedgers <=> \A u \in Users : Balanced(u)
  BY Zenon DEF BalancesMatchLedgers, Balanced, TokenLedgerSum, PointsLedgerSum, SumOfBets,
               TokenAmounts, PointAmounts

\* Whatever a transaction posts, the balances follow, as long as no bet changes hands.
LEMMA PostingsBalanced ==
  ASSUME IsFiniteSet(Bets), WalletsTypeOK, WalletsTypeOK', OwnerNow' = OwnerNow,
         \/ NoTokens
         \/ \E grant, debits, refunds :
              /\ grant \in [Users -> Nat] /\ IsBatch(debits) /\ IsBatch(refunds)
              /\ PostTokens(grant, debits, refunds, OwnerNow),
         \/ NoPoints
         \/ \E wins, cashouts :
              IsBatch(wins) /\ IsBatch(cashouts) /\ PostPoints(wins, cashouts, OwnerNow),
         NEW u \in Users, Balanced(u)
  PROVE  Balanced(u)'
<1>1. tokenBalance'[u] = granted'[u] + SumOfBets(TokenAmounts', OwnerNow, u)
  <2>1. CASE NoTokens
    <3>1. TokenAmounts' = TokenAmounts
      BY <2>1 DEF NoTokens, TokenAmounts
    <3> QED
      BY <2>1, <3>1 DEF NoTokens, Balanced
  <2>2. ASSUME NEW grant, NEW debits, NEW refunds, grant \in [Users -> Nat],
               IsBatch(debits), IsBatch(refunds), PostTokens(grant, debits, refunds, OwnerNow)
        PROVE  tokenBalance'[u] = granted'[u] + SumOfBets(TokenAmounts', OwnerNow, u)
    <3> DEFINE before == OwnerNow
               owner == OwnerNow
    <3>1. /\ \A b \in Bets : before[b] # owner[b] => tokenLedger[b].refund = tokenLedger[b].stake
          /\ tokenBalance[u] = granted[u] + SumOfBets(TokenAmounts, before, u)
          /\ PostTokens(grant, debits, refunds, owner)
      BY <2>2 DEF Balanced
    <3> HIDE DEF before, owner
    <3>2. tokenBalance'[u] = granted'[u] + SumOfBets(TokenAmounts', owner, u)
      BY <2>2, <3>1, TokensPosted
    <3> QED
      BY <3>2 DEF owner
  <2> QED
    BY <2>1, <2>2
<1>2. pointsBalance'[u] = SumOfBets(PointAmounts', OwnerNow, u)
  <2>1. CASE NoPoints
    <3>1. PointAmounts' = PointAmounts
      BY <2>1 DEF NoPoints, PointAmounts
    <3> QED
      BY <2>1, <3>1 DEF NoPoints, Balanced
  <2>2. ASSUME NEW wins, NEW cashouts, IsBatch(wins), IsBatch(cashouts),
               PostPoints(wins, cashouts, OwnerNow)
        PROVE  pointsBalance'[u] = SumOfBets(PointAmounts', OwnerNow, u)
    <3> DEFINE owner == OwnerNow
    <3>1. /\ pointsBalance[u] = SumOfBets(PointAmounts, owner, u)
          /\ PostPoints(wins, cashouts, owner)
      BY <2>2 DEF Balanced
    <3> HIDE DEF owner
    <3>2. pointsBalance'[u] = SumOfBets(PointAmounts', owner, u)
      BY <2>2, <3>1, PointsPosted
    <3> QED
      BY <3>2 DEF owner
  <2> QED
    BY <2>1, <2>2
<1> QED
  BY <1>1, <1>2 DEF Balanced

\* Placing a bet for which nothing is posted yet makes it a user's, and takes the stake.
LEMMA PlacingBalanced ==
  ASSUME IsFiniteSet(Bets), WalletsTypeOK, WalletsTypeOK', NEW b0 \in Bets, NEW user,
         OwnerNow' = [OwnerNow EXCEPT ![b0] = user],
         tokenLedger[b0].refund = tokenLedger[b0].stake, PointAmounts[b0] = 0,
         NEW grant \in [Users -> Nat], NEW debits, IsBatch(debits),
         PostTokens(grant, debits, NoRows, OwnerNow'), NoPoints,
         NEW u \in Users, Balanced(u)
  PROVE  Balanced(u)'
<1> DEFINE before == OwnerNow
           owner == OwnerNow'
<1>1. \A b \in Bets : before[b] # owner[b] => b = b0
  BY DEF OwnerNow, Owners
<1>2. /\ \A b \in Bets : before[b] # owner[b] => tokenLedger[b].refund = tokenLedger[b].stake
      /\ \A b \in Bets : before[b] # owner[b] => PointAmounts[b] = 0
  BY <1>1
<1>3. /\ PostTokens(grant, debits, NoRows, owner)
      /\ tokenBalance[u] = granted[u] + SumOfBets(TokenAmounts, before, u)
      /\ pointsBalance[u] = SumOfBets(PointAmounts, before, u)
  BY DEF Balanced
<1>4. IsBatch(NoRows)
  BY NoRowsTotal
<1>5. PointAmounts' = PointAmounts /\ pointsBalance' = pointsBalance
  BY DEF NoPoints, PointAmounts
<1> HIDE DEF before, owner
<1>6. tokenBalance'[u] = granted'[u] + SumOfBets(TokenAmounts', owner, u)
  BY <1>2, <1>3, <1>4, TokensPosted
<1>7. SumOfBets(PointAmounts, owner, u) = SumOfBets(PointAmounts, before, u)
  BY <1>2, PointsChangeHands
<1> QED
  BY <1>3, <1>5, <1>6, <1>7 DEF Balanced, owner

\* A table of predictions in which every row has the user it had.
SameUsers(table) == \A p \in Preds : table[p].user = pred[p].user

\* Settling, cancelling, uncancelling, cashing out and deleting change no prediction's user.
LEMMA PredsKeepUsers ==
  ASSUME PredsTypeOK, NEW e, NEW n, NEW from, NEW to, NEW S, NEW p0 \in Preds, NEW payout
  PROVE  /\ SameUsers(SettledPreds(e, n)) /\ SameUsers(Moved(e, from, to))
         /\ SameUsers(PurgedPreds(S))
         /\ SameUsers([pred EXCEPT ![p0].status = to, ![p0].payout = payout])
<1>1. \A p \in Preds : pred[p] \in PredRow
  BY DEF PredsTypeOK
<1>2. SameUsers(SettledPreds(e, n))
  BY <1>1 DEF SameUsers, SettledPreds, PredRow
<1>3. SameUsers(Moved(e, from, to))
  BY <1>1 DEF SameUsers, Moved, PredRow
<1>4. SameUsers(PurgedPreds(S))
  BY <1>1 DEF SameUsers, PurgedPreds, PredRow
<1>5. SameUsers([pred EXCEPT ![p0].status = to, ![p0].payout = payout])
  BY <1>1 DEF SameUsers, PredsTypeOK, PredRow
<1> QED
  BY <1>2, <1>3, <1>4, <1>5

\* So the owner of every bet stays, when no accumulator is placed either.
LEMMA OwnersStay ==
  ASSUME SameUsers(pred'), \A a \in Accas : AccaKept(acca', a)
  PROVE  OwnerNow' = OwnerNow
<1>1. \A b \in Bets : (IF b \in Preds THEN pred'[b].user ELSE acca'[b].user)
                        = (IF b \in Preds THEN pred[b].user ELSE acca[b].user)
  BY DEF SameUsers, AccaKept, Bets
<1> QED
  BY <1>1 DEF OwnerNow, Owners

\* What the transactions post are batches of rows.
LEMMA Batches ==
  ASSUME PredsTypeOK, NEW view \in AccaTable, NEW e \in Events, NEW n, NEW status
  PROVE  /\ IsBatch(Both(PredWins(e, n), AccaSettleWins(view, e, n)))
         /\ IsBatch(AccaCancelWins(view, e))
         /\ IsBatch(Both(StakesOf(e, status), AccaCancelRefunds(view, e)))
         /\ IsBatch(Both(StakesOf(e, status), AccaRestoreStakes(view, e)))
<1>1. ASSUME NEW f, NEW g, IsBatch(f), IsBatch(g)
      PROVE  IsBatch(Both(f, g))
  <2>1. DOMAIN Both(f, g) = DOMAIN f \cup DOMAIN g
    BY DEF Both
  <2>2. \A b \in DOMAIN f : f[b] \in Nat
    BY <1>1 DEF IsBatch
  <2>3. \A b \in DOMAIN g : g[b] \in Nat
    BY <1>1 DEF IsBatch
  <2>4. \A b \in DOMAIN Both(f, g) : Both(f, g)[b] \in Nat
    BY <2>2, <2>3, BothNat
  <2> QED
    BY <1>1, <2>1, <2>4 DEF IsBatch
<1>2. IsBatch(PredWins(e, n))
  <2>1. DOMAIN PredWins(e, n) \subseteq Bets
    BY DEF PredWins, WinnersOf, OnEvent, Bets
  <2> QED
    BY <2>1, PredWinsNat DEF IsBatch
<1>3. IsBatch(StakesOf(e, status))
  <2>1. DOMAIN StakesOf(e, status) \subseteq Bets
    BY DEF StakesOf, OnEvent, Bets
  <2>2. \A p \in DOMAIN StakesOf(e, status) : StakesOf(e, status)[p] \in Nat
    BY DEF StakesOf, OnEvent, PredsTypeOK, PredRow
  <2> QED
    BY <2>1, <2>2 DEF IsBatch
<1>4. IsBatch(AccaSettleWins(view, e, n))
  <2>1. DOMAIN AccaSettleWins(view, e, n) \subseteq Bets
    BY AccaBatchDomains DEF Bets
  <2> QED
    BY <2>1, AccaBatchesNat DEF IsBatch
<1>5. IsBatch(AccaCancelWins(view, e))
  <2>1. DOMAIN AccaCancelWins(view, e) \subseteq Bets
    BY AccaBatchDomains DEF Bets
  <2> QED
    BY <2>1, AccaBatchesNat DEF IsBatch
<1>6. IsBatch(AccaCancelRefunds(view, e))
  <2>1. DOMAIN AccaCancelRefunds(view, e) \subseteq Bets
    BY AccaBatchDomains DEF Bets
  <2> QED
    BY <2>1, AccaBatchesNat DEF IsBatch
<1>7. IsBatch(AccaRestoreStakes(view, e))
  <2>1. DOMAIN AccaRestoreStakes(view, e) \subseteq Bets
    BY AccaBatchDomains DEF Bets
  <2> QED
    BY <2>1, AccaBatchesNat DEF IsBatch
<1> QED
  BY <1>1, <1>2, <1>3, <1>4, <1>5, <1>6, <1>7

\* place, and the placing of an accumulator
LEMMA PlacesBalanced ==
  ASSUME IsFiniteSet(Bets), TypeOK, WalletsTypeOK', PredictionsPaidOnce, NothingForAbsent,
         NEW h \in Handlers, NEW accrual \in Accruals,
         \/ \E p \in Preds : CommitPlace(h, p, accrual)
         \/ \E a \in Accas : CommitAccumulate(h, a, accrual),
         NEW u \in Users, Balanced(u)
  PROVE  Balanced(u)'
<1> DEFINE user == req[h].user
           grant == [NoGrant EXCEPT ![user] = accrual]
<1>1. WalletsTypeOK /\ PredsTypeOK /\ AccasTypeOK /\ req[h] \in Requests /\ accrual \in Nat
  BY BettingAssumption DEF TypeOK
<1>2. grant \in [Users -> Nat]
  BY <1>1 DEF NoGrant
<1> HIDE DEF grant
<1>3. ASSUME NEW p \in Preds, CommitPlace(h, p, accrual)
      PROVE  Balanced(u)'
  <2> DEFINE debits == [b \in {p} |-> req[h].stake]
  <2>1. p \in Bets /\ req[h].stake \in Nat
    BY <1>1, <1>3, RequestFields, PricingAssumption DEF CommitPlace, Bets
  <2>2. IsBatch(debits)
    BY <2>1 DEF IsBatch
  <2>3. pred' = [pred EXCEPT ![p] =
          NewPred(user, req[h].event, req[h].name, req[h].stake, req[h].price)]
    BY <1>3 DEF CommitPlace
  <2>4. pred'[p].user = user /\ \A x \in Preds : x # p => pred'[x] = pred[x]
    BY <1>1, <2>3 DEF PredsTypeOK, NewPred
  <2>5. acca' = acca /\ NoPoints
    BY <1>3 DEF CommitPlace
  <2>6. OwnerNow' = [OwnerNow EXCEPT ![p] = user]
    BY <2>1, <2>4, <2>5 DEF OwnerNow, Owners, Bets
  <2>7. PostTokens(grant, debits, NoRows, OwnerNow')
    BY <1>3, <2>6 DEF CommitPlace, grant
  <2>8. pred[p].status = "ABSENT" /\ PredMoney(p)
    BY <1>3 DEF CommitPlace, PredictionsPaidOnce
  <2>9. tokenLedger[p].refund = tokenLedger[p].stake /\ PointAmounts[p] = 0
    BY <1>1, <2>1, <2>8, LedgerNumbers DEF PredMoney, HeldFor, PointAmounts
  <2> HIDE DEF debits
  <2> QED
    BY <1>1, <1>2, <2>1, <2>2, <2>5, <2>6, <2>7, <2>9, PlacingBalanced
<1>4. ASSUME NEW a \in Accas, CommitAccumulate(h, a, accrual)
      PROVE  Balanced(u)'
  <2> DEFINE debits == [b \in {a} |-> req[h].stake]
  <2>1. a \in Bets /\ a \notin Preds /\ req[h].stake \in Nat
    BY <1>1, <1>4, RequestFields, PricingAssumption, BetIdsAssumption DEF CommitAccumulate, Bets
  <2>2. IsBatch(debits)
    BY <2>1 DEF IsBatch
  <2>3. acca' = [acca EXCEPT ![a] = NewAcca(user, req[h].stake, req[h].legs)]
    BY <1>4 DEF CommitAccumulate
  <2>4. acca'[a].user = user /\ \A x \in Accas : x # a => acca'[x] = acca[x]
    BY <1>1, <2>3 DEF AccasTypeOK, NewAcca
  <2>5. pred' = pred /\ NoPoints
    BY <1>4 DEF CommitAccumulate
  <2>6. OwnerNow' = [OwnerNow EXCEPT ![a] = user]
    BY <2>1, <2>4, <2>5 DEF OwnerNow, Owners, Bets
  <2>7. PostTokens(grant, debits, NoRows, OwnerNow')
    BY <1>4, <2>6 DEF CommitAccumulate, grant
  <2>8. HeldFor(a) = 0 /\ PaidFor(a) = 0
    BY <1>4 DEF CommitAccumulate, NothingForAbsent
  <2>9. tokenLedger[a].refund = tokenLedger[a].stake /\ PointAmounts[a] = 0
    <3>1. /\ tokenLedger[a].stake \in Nat /\ tokenLedger[a].refund \in Nat
          /\ pointsLedger[a].win \in Nat /\ pointsLedger[a].cashout \in Nat
      BY <1>1, <2>1 DEF WalletsTypeOK
    <3>2. /\ tokenLedger[a].stake - tokenLedger[a].refund = 0
          /\ pointsLedger[a].win + pointsLedger[a].cashout = 0
      BY <2>8 DEF HeldFor, PaidFor
    <3>3. PointAmounts[a] = pointsLedger[a].win + pointsLedger[a].cashout
      BY <2>1 DEF PointAmounts
    <3>4. \A i, j \in Nat : i - j = 0 => j = i
      OBVIOUS
    <3>5. tokenLedger[a].refund = tokenLedger[a].stake
      BY <3>1, <3>2, <3>4
    <3> QED
      BY <3>2, <3>3, <3>5
  <2> HIDE DEF debits
  <2> QED
    BY <1>1, <1>2, <2>1, <2>2, <2>5, <2>6, <2>7, <2>9, PlacingBalanced
<1> QED
  BY <1>3, <1>4

\* cashout, settle, cancel, uncancel and deletion
LEMMA OthersBalanced ==
  ASSUME IsFiniteSet(Bets), TypeOK, WalletsTypeOK', ViewsExist, NEW h \in Handlers,
         \/ \E q \in Prices : CommitCashout(h, q)
         \/ \E bonus \in [Users -> Bonuses] : CommitSettle(h, bonus)
         \/ CommitCancel(h) \/ CommitUncancel(h) \/ CommitDelete(h),
         NEW u \in Users, Balanced(u)
  PROVE  Balanced(u)'
<1> DEFINE e == req[h].event
           n == req[h].outcome
           view == req[h].view
<1>1. WalletsTypeOK /\ PredsTypeOK /\ AccasTypeOK /\ req[h] \in Requests
  BY DEF TypeOK
<1>2. IsBatch(NoRows) /\ NoGrant \in [Users -> Nat]
  BY NoRowsTotal DEF NoGrant
<1>3. ASSUME NEW q \in Prices, CommitCashout(h, q)
      PROVE  Balanced(u)'
  <2> DEFINE p == req[h].pred
             cashouts == [b \in {p} |-> ValueOf(p, q)]
  <2>1. p \in Preds
    BY <1>1, <1>3, RequestFields DEF CommitCashout
  <2>2. ValueOf(p, q) \in Nat
    <3>1. pred[p].stake \in Nat /\ pred[p].price \in Nat
      BY <1>1, <2>1 DEF PredsTypeOK, PredRow
    <3>2. Started(pred[p].event) \in BOOLEAN
      BY DEF Started
    <3> QED
      BY <3>1, <3>2, CashoutValueNat DEF ValueOf
  <2>3. IsBatch(cashouts)
    BY <2>1, <2>2 DEF IsBatch, Bets
  <2>4. SameUsers(pred') /\ acca' = acca
    BY <1>1, <1>3, <2>1, PredsKeepUsers DEF CommitCashout
  <2>5. OwnerNow' = OwnerNow
    BY <2>4, OwnersStay DEF AccaKept
  <2>6. PostPoints(NoRows, cashouts, OwnerNow) /\ NoTokens
    BY <1>3 DEF CommitCashout
  <2> HIDE DEF cashouts
  <2> QED
    BY <1>1, <1>2, <2>3, <2>5, <2>6, PostingsBalanced
<1>4. ASSUME \/ \E bonus : CommitSettle(h, bonus)
             \/ CommitCancel(h) \/ CommitUncancel(h) \/ CommitDelete(h),
             SameUsers(pred')
      PROVE  OwnerNow' = OwnerNow
  BY <1>4, AdminLeaves, OwnersStay DEF Leaves
<1>5. ASSUME NEW bonus, bonus \in [Users -> Bonuses], CommitSettle(h, bonus)
      PROVE  Balanced(u)'
  <2> DEFINE wins == Both(PredWins(e, n), AccaSettleWins(view, e, n))
  <2>1. e \in Events /\ view \in AccaTable
    BY <1>1, <1>5, RequestFields DEF CommitSettle
  <2>2. IsBatch(wins)
    BY <1>1, <2>1, Batches
  <2>3. SameUsers(pred')
    <3>1. pred' = SettledPreds(e, n)
      BY <1>5 DEF CommitSettle
    <3>2. \A p \in Preds : pred[p] \in PredRow
      BY <1>1 DEF PredsTypeOK
    <3> QED
      BY <3>1, <3>2 DEF SameUsers, SettledPreds, PredRow
  <2>4. OwnerNow' = OwnerNow
    BY <1>4, <1>5, <2>3
  <2>5. PostPoints(wins, NoRows, OwnerNow) /\ PostTokens(bonus, NoRows, NoRows, OwnerNow)
    BY <1>5 DEF CommitSettle
  <2>6. bonus \in [Users -> Nat]
    BY <1>5, BettingAssumption
  <2> HIDE DEF wins
  <2> QED
    BY <1>1, <1>2, <2>2, <2>4, <2>5, <2>6, PostingsBalanced
<1>6. CASE CommitCancel(h)
  <2> DEFINE wins == AccaCancelWins(view, e)
             refunds == Both(StakesOf(e, "PENDING"), AccaCancelRefunds(view, e))
  <2>1. e \in Events /\ view \in AccaTable
    BY <1>1, <1>6, RequestFields DEF CommitCancel
  <2>2. IsBatch(wins) /\ IsBatch(refunds)
    BY <1>1, <2>1, Batches
  <2>3. SameUsers(pred')
    <3>1. pred' = Moved(e, "PENDING", "REFUNDED")
      BY <1>6 DEF CommitCancel, RefundedPreds
    <3>2. \A p \in Preds : pred[p] \in PredRow
      BY <1>1 DEF PredsTypeOK
    <3> QED
      BY <3>1, <3>2 DEF SameUsers, Moved, PredRow
  <2>4. OwnerNow' = OwnerNow
    BY <1>4, <1>6, <2>3
  <2>5. PostPoints(wins, NoRows, OwnerNow) /\ PostTokens(NoGrant, NoRows, refunds, OwnerNow)
    BY <1>6 DEF CommitCancel
  <2> HIDE DEF wins, refunds
  <2> QED
    BY <1>1, <1>2, <2>2, <2>4, <2>5, PostingsBalanced
<1>7. CASE CommitUncancel(h)
  <2> DEFINE stakes == Both(StakesOf(e, "REFUNDED"), AccaRestoreStakes(view, e))
  <2>1. e \in Events /\ view \in AccaTable
    BY <1>1, <1>7, RequestFields DEF CommitUncancel
  <2>2. IsBatch(stakes)
    BY <1>1, <2>1, Batches
  <2>3. SameUsers(pred')
    <3>1. pred' = Moved(e, "REFUNDED", "PENDING")
      BY <1>7 DEF CommitUncancel, RestoredPreds
    <3>2. \A p \in Preds : pred[p] \in PredRow
      BY <1>1 DEF PredsTypeOK
    <3> QED
      BY <3>1, <3>2 DEF SameUsers, Moved, PredRow
  <2>4. OwnerNow' = OwnerNow
    BY <1>4, <1>7, <2>3
  <2>5. PostTokens(NoGrant, stakes, NoRows, OwnerNow) /\ NoPoints
    BY <1>7 DEF CommitUncancel
  <2> HIDE DEF stakes
  <2> QED
    BY <1>1, <1>2, <2>2, <2>4, <2>5, PostingsBalanced
<1>8. CASE CommitDelete(h)
  <2>1. SameUsers(pred')
    <3>1. pred' = PurgedPreds(req[h].events)
      BY <1>8 DEF CommitDelete
    <3>2. \A p \in Preds : pred[p] \in PredRow
      BY <1>1 DEF PredsTypeOK
    <3> QED
      BY <3>1, <3>2 DEF SameUsers, PurgedPreds, PredRow
  <2>2. OwnerNow' = OwnerNow
    BY <1>4, <1>8, <2>1
  <2>3. NoTokens /\ NoPoints
    BY <1>8 DEF CommitDelete, walletVars, NoTokens, NoPoints
  <2> QED
    BY <1>1, <2>2, <2>3, PostingsBalanced
<1> QED
  BY <1>3, <1>5, <1>6, <1>7, <1>8

\* Every step keeps the balances equal to the ledgers.
LEMMA BalancesStep ==
  ASSUME IsFiniteSet(Bets), TypeOK, PredictionsPaidOnce, NothingForAbsent, ViewsExist,
         BalancesMatchLedgers, [Next]_vars
  PROVE  BalancesMatchLedgers'
<1>1. WalletsTypeOK'
  BY NextType DEF TypeOK
<1>2. ASSUME NEW u \in Users
      PROVE  Balanced(u)'
  <2>1. Balanced(u)
    BY BalancesAre
  <2>2. ASSUME NEW h \in Handlers, Commits(h)
        PROVE  Balanced(u)'
    BY <1>1, <2>1, <2>2, PlacesBalanced, OthersBalanced DEF Commits
  <2>3. CASE \A h \in Handlers : ~Commits(h)
    <3>1. UNCHANGED <<pred, acca, tokenBalance, pointsBalance, tokenLedger, pointsLedger, granted>>
      BY <2>3, Quiet DEF StillStep, walletVars
    <3>2. /\ OwnerNow' = OwnerNow /\ TokenAmounts' = TokenAmounts
          /\ PointAmounts' = PointAmounts
      BY <3>1 DEF OwnerNow, TokenAmounts, PointAmounts
    <3> QED
      BY <2>1, <3>1, <3>2 DEF Balanced
  <2> QED
    BY <2>2, <2>3
<1> QED
  BY <1>2, Zenon DEF BalancesMatchLedgers, Balanced, TokenLedgerSum, PointsLedgerSum, SumOfBets,
                     TokenAmounts, PointAmounts

\* It starts so: every user has the signup bonus and no rows.
LEMMA BalancesStart ==
  ASSUME IsFiniteSet(Bets), Init
  PROVE  BalancesMatchLedgers /\ NothingForAbsent /\ ViewsExist
<1>1. NothingForAbsent
  BY DEF Init, NothingForAbsent, HeldFor, PaidFor, Bets
<1>2. ViewsExist
  BY DEF Init, ViewsExist, RunsAdmin, Idle
<1>3. ASSUME NEW u \in Users
      PROVE  Balanced(u)
  <2> DEFINE mine == {b \in Bets : OwnerNow[b] = u}
             zero == [b \in Bets |-> 0]
  <2>1. TokenAmounts = zero /\ PointAmounts = zero
    BY DEF Init, TokenAmounts, PointAmounts
  <2>2. mine \in SUBSET Bets
    OBVIOUS
  <2>3. \A b \in Bets : zero[b] = 0
    OBVIOUS
  <2> HIDE DEF mine, zero
  <2>4. SumFunctionOnSet(zero, {}) = 0
    BY SumAdds, FS_EmptySet
  <2>5. SumFunctionOnSet(zero, mine) = 0
    BY <2>2, <2>3, <2>4, FS_EmptySet, FS_Subset, SumSupport
  <2>6. SumOfBets(TokenAmounts, OwnerNow, u) = 0 /\ SumOfBets(PointAmounts, OwnerNow, u) = 0
    BY <2>1, <2>5, Zenon DEF SumOfBets, mine
  <2> QED
    BY <2>6, BettingAssumption DEF Init, Balanced
<1> QED
  BY <1>1, <1>2, <1>3, BalancesAre

(* Every balance is what its ledger rows add up to, whatever transactions  *)
(* ran (ledger.ts:14).                                                     *)
THEOREM BalancesAlwaysMatch ==
  ASSUME IsFiniteSet(Bets)
  PROVE  Spec => []BalancesMatchLedgers
<1>1. Init => BalancesMatchLedgers /\ NothingForAbsent /\ ViewsExist
  BY BalancesStart
<1>2. /\ TypeOK /\ PredictionsPaidOnce /\ NothingForAbsent /\ ViewsExist /\ BalancesMatchLedgers
      /\ [Next]_vars
      => NothingForAbsent' /\ ViewsExist' /\ BalancesMatchLedgers'
  BY ExistenceStep, BalancesStep
<1>3. Spec => []TypeOK /\ []PredictionsPaidOnce
  BY TypeCorrect, PaidOnce
<1> QED
  BY <1>1, <1>2, <1>3, PTL DEF Spec
=============================================================================
